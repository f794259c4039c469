---------------------------- MODULE PulserQueue -----------------------------
(***************************************************************************)
(* What the controller assumes of a pulser, FPGA or stand-in: commands are *)
(* executed one at a time in the order in which they were added, none      *)
(* while the hold is set unless a full FIFO has forced its release, and    *)
(* results are read in the order of the commands that made them.  The hold *)
(* is set, and the force release cleared, only while nothing is queued.    *)
(***************************************************************************)
EXTENDS Naturals, Sequences

CONSTANTS Cmds,      \* commands: records with at least an op and an id
          FifoSize

VARIABLES queue,     \* commands not executed yet
          hold,      \* hold register
          forced,    \* force release flag
          ttl,       \* id of the last "ttl" command executed
          results    \* ids of "get" commands whose result was not read

vars == <<queue, hold, forced, ttl, results>>

Init == queue = <<>> /\ ~hold /\ ~forced /\ ttl = 0 /\ results = <<>>

Add ==
  /\ Len(queue) < FifoSize
  /\ Len(queue') = Len(queue) + 1 /\ SubSeq(queue', 1, Len(queue)) = queue
  /\ queue'[Len(queue')] \in Cmds
  /\ UNCHANGED <<hold, forced, ttl, results>>

Force ==
  /\ Len(queue) = FifoSize /\ forced' = TRUE
  /\ UNCHANGED <<queue, hold, ttl, results>>

Execute ==
  /\ queue # <<>> /\ (hold => forced)
  /\ queue' = Tail(queue)
  /\ LET c == Head(queue) IN
       /\ ttl' = IF c.op = "ttl" THEN c.id ELSE ttl
       /\ results' = IF c.op = "get" THEN Append(results, c.id) ELSE results
  /\ UNCHANGED <<hold, forced>>

Read == results # <<>> /\ results' = Tail(results) /\ UNCHANGED <<queue, hold, forced, ttl>>

SetHold == queue = <<>> /\ hold' = TRUE /\ UNCHANGED <<queue, forced, ttl, results>>

Release == hold' = FALSE /\ UNCHANGED <<queue, forced, ttl, results>>

ToggleInit == queue = <<>> /\ forced' = FALSE /\ UNCHANGED <<queue, hold, ttl, results>>

Next == Add \/ Force \/ Execute \/ Read \/ SetHold \/ Release \/ ToggleInit

Spec == Init /\ [][Next]_vars
=============================================================================
