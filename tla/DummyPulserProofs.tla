------------------------- MODULE DummyPulserProofs --------------------------
(***************************************************************************)
(* Proofs about DummyPulser, for any FIFO, any length of a wait and any    *)
(* number of commands, sequences and calls.                                *)
(*                                                                         *)
(* Two threads execute commands.  What makes that sound is that a command  *)
(* is executed only under the lock, by a thread that has looked at the     *)
(* hold and taken the time under it, and that only the worker, which then  *)
(* is in no other call, adds commands and moves the hold.                  *)
(***************************************************************************)
EXTENDS DummyPulser, SequenceTheorems, TLAPS

\* The frontend only executes what is due; a worker that has to block is in forward_time
\* for add_cmd, with the release forced; a command to be added belongs to add_cmd.
Control ==
  /\ pc["f"] \in {"out", "empty", "lock", "loop", "sleep", "run"}
  /\ block # "no" => pc["w"] \in {"loop", "sleep", "run"} /\ m_force_release
  /\ cmd = NoCmd \/ pc["w"] \in {"add", "full"} \/ block # "no"

\* The flag never says empty when something is queued, and does say so before a sequence.
EmptyFlag ==
  /\ m_cmds_empty => m_cmds = <<>>
  /\ pc["w"] \in {"hold", "init"} => m_cmds_empty

\* Commands were added in the past, and before the time up to which a thread executes.
Added ==
  /\ cmd.t <= now
  /\ \A i \in 1 .. Len(m_cmds) :
       /\ m_cmds[i].t <= now
       /\ \A th \in Threads : pc[th] = "run" => m_cmds[i].t <= t[th]

\* A thread that executes has seen that nothing is held.
NotHeld == \A th \in Threads : pc[th] = "run" => ~Held \/ m_cmds = <<>>

\* What was added during the hold was added before its release.
OnTime(c) == c.early => c.t <= m_release_time
Early == ~Held => OnTime(cmd) /\ \A i \in 1 .. Len(m_cmds) : OnTime(m_cmds[i])

\* Of the get that is waited for there is one trace, and of no other get any.
IsGet(c) == c.op = "get"
Gets ==
  /\ IsGet(cmd) => cmd.id = waiting /\ waiting # 0
  /\ \A i \in 1 .. Len(m_cmds) : IsGet(m_cmds[i]) =>
       m_cmds[i].id = waiting /\ waiting # 0 /\ m_results = <<>> /\ ~IsGet(cmd)
  /\ \A i, j \in 1 .. Len(m_cmds) : IsGet(m_cmds[i]) /\ IsGet(m_cmds[j]) => i = j
  /\ m_results # <<>> => m_results = <<waiting>> /\ waiting # 0 /\ ~IsGet(cmd)

NoFaults == faults = {}

PulserInv ==
  TypeOK /\ Control /\ EmptyFlag /\ Added /\ NotHeld /\ Early /\ Gets /\ NoFaults

USE ConstantsAssumption DEF Threads, NoLock

Labels == {"out", "empty", "lock", "loop", "sleep", "run", "ret", "add", "full", "hold", "init"}
Locked == {"loop", "run", "full"}

-----------------------------------------------------------------------------
\* The state after construction.
LEMMA PulserInit == Init => PulserInv
  <1> SUFFICES ASSUME Init PROVE PulserInv
    OBVIOUS
  <1> USE DEF Init
  <1>1. Len(m_cmds) = 0 /\ m_cmds \in Seq(Cmds) /\ m_results \in Seq(Nat)
    BY EmptySeq
  <1>2. cmd \in Cmds
    BY DEF NoCmd, Cmds
  <1>3. TypeOK
    <2>1. /\ now \in Nat /\ m_release_time \in Nat /\ m_ttl \in Nat /\ waiting \in Nat
          /\ nsent \in Nat /\ nseq \in Nat /\ ncall \in Nat /\ Len(m_cmds) <= FifoSize
      BY <1>1
    <2>2. /\ m_cmds_empty \in BOOLEAN /\ m_hold \in BOOLEAN /\ m_force_release \in BOOLEAN
          /\ m_timing_ok \in BOOLEAN /\ m_timing_check \in BOOLEAN
      OBVIOUS
    <2>3. t \in [Threads -> Nat] /\ pc \in [Threads -> Labels]
      BY DEF Labels
    <2>4. \A th \in Threads : m_cmds_lock = th <=> pc[th] \in {"loop", "run", "full"}
      OBVIOUS
    <2>5. /\ m_cmds_lock \in Threads \union {NoLock} /\ block \in {"no", "yes", "ran"}
          /\ call \in {"none", "add", "finished", "result"}
          /\ phase \in {"idle", "drain", "seq", "end", "rel", "post"}
      OBVIOUS
    <2> HIDE DEF Init
    <2> QED BY <1>1, <1>2, <2>1, <2>2, <2>3, <2>4, <2>5 DEF TypeOK, Labels
  <1>4. Control /\ EmptyFlag /\ NotHeld /\ NoFaults
    BY DEF Control, EmptyFlag, NotHeld, NoFaults
  <1>5. Added /\ Early /\ Gets
    BY <1>1 DEF Added, Early, OnTime, Gets, IsGet, NoCmd
  <1> QED BY <1>3, <1>4, <1>5 DEF PulserInv

\* A thread goes on to another place in its call and leaves the queue, the hold and the
\* results alone, except that it may note that nothing is queued.  It takes the lock only
\* when that is free, and if it goes on to execute commands it has taken the time and
\* nothing is held.
LEMMA Moved ==
  ASSUME PulserInv, NEW th \in Threads, NEW label \in Labels,
         pc' = [pc EXCEPT ![th] = label],
         label \in Locked => m_cmds_lock \in {th, NoLock},
         m_cmds_lock' = IF label \in Locked THEN th
                        ELSE IF m_cmds_lock = th THEN NoLock ELSE m_cmds_lock,
         t' \in [Threads -> Nat], \A o \in Threads \ {th} : t'[o] = t[o],
         label = "run" => t'[th] = now /\ ~Held,
         label \in {"hold", "init"} => m_cmds_empty,
         Control', block' \in {"no", "yes", "ran"},
         call' \in {"none", "add", "finished", "result"},
         phase' \in {"idle", "drain", "seq", "end", "rel", "post"},
         nseq' \in Nat, ncall' \in Nat,
         m_cmds_empty' = m_cmds_empty \/ (m_cmds_empty' = TRUE /\ m_cmds = <<>>),
         UNCHANGED <<now, m_cmds, m_release_time, holdVars, timingVars, outVars, cmd, waiting,
                     nsent, faults>>
  PROVE  PulserInv'
  <1> USE DEF PulserInv, holdVars, timingVars, outVars
  <1>1. pc' \in [Threads -> Labels] /\ pc'[th] = label /\ \A o \in Threads \ {th} : pc'[o] = pc[o]
    BY DEF TypeOK, Labels
  <1>2. \A o \in Threads : m_cmds_lock' = o <=> pc'[o] \in {"loop", "run", "full"}
    BY <1>1 DEF TypeOK, Locked
  <1>3. TypeOK'
    <2>1. /\ now' \in Nat /\ m_cmds' \in Seq(Cmds) /\ m_cmds_empty' \in BOOLEAN
          /\ Len(m_cmds') <= FifoSize
          /\ m_hold' \in BOOLEAN /\ m_force_release' \in BOOLEAN /\ m_release_time' \in Nat
          /\ m_timing_ok' \in BOOLEAN /\ m_timing_check' \in BOOLEAN
          /\ m_results' \in Seq(Nat) /\ m_ttl' \in Nat
          /\ cmd' \in Cmds /\ waiting' \in Nat /\ nsent' \in Nat
      BY DEF TypeOK
    <2>2. m_cmds_lock' \in Threads \union {NoLock}
      BY DEF TypeOK
    <2> QED BY <1>1, <1>2, <2>1, <2>2 DEF TypeOK, Labels
  <1>4. EmptyFlag'
    BY <1>1 DEF EmptyFlag
  <1>5. Added'
    BY <1>1 DEF Added
  <1>6. NotHeld'
    BY <1>1 DEF NotHeld, Held
  <1>7. Early'
    BY DEF Early, OnTime, Held
  <1>8. Gets' /\ NoFaults'
    BY DEF Gets, IsGet, NoFaults
  <1> QED BY <1>3, <1>4, <1>5, <1>6, <1>7, <1>8

\* run_past_cmds is over.
LEMMA LeaveStep ==
  ASSUME PulserInv, NEW th \in Threads, pc[th] \in {"loop", "sleep", "run"}, Leave(th),
         pc[th] = "sleep" => m_cmds_lock = NoLock /\ Held,
         m_cmds_empty' = m_cmds_empty \/ (m_cmds_empty' = TRUE /\ m_cmds = <<>>),
         UNCHANGED <<now, m_cmds, m_release_time, holdVars, timingVars, outVars, workVars,
                     countVars, faults>>
  PROVE  PulserInv'
  <1> DEFINE label == IF th = "w" /\ block # "no"
                      THEN (IF block = "ran" THEN "full" ELSE "loop") ELSE Exit(th)
  <1> USE DEF PulserInv, workVars, countVars
  <1>1. /\ pc \in [Threads -> Labels] /\ t \in [Threads -> Nat] /\ block \in {"no", "yes", "ran"}
        /\ m_cmds_lock = th <=> pc[th] \in {"loop", "run", "full"}
        /\ call \in {"none", "add", "finished", "result"}
        /\ phase \in {"idle", "drain", "seq", "end", "rel", "post"}
        /\ nseq \in Nat /\ ncall \in Nat
    BY DEF TypeOK, Labels
  <1>2. label \in {"full", "loop", "ret", "out"}
    BY DEF Exit
  <1>3. /\ pc' = [pc EXCEPT ![th] = label] /\ t' = [t EXCEPT ![th] = 0]
        /\ block' = IF th = "w" /\ block = "ran" THEN "no" ELSE block
    BY <1>1 DEF Leave, Goto
  <1>4. th = "w" /\ block # "no" => m_cmds_lock = th /\ m_cmds_lock' = th
    <2>1. ASSUME th = "w", block # "no" PROVE pc[th] # "sleep"
      BY <2>1 DEF Control, Held
    <2> QED BY <1>1, <2>1 DEF Leave
  <1>5. ~(th = "w" /\ block # "no") => m_cmds_lock \in {th, NoLock} /\ m_cmds_lock' = NoLock
    BY <1>1 DEF Leave
  <1>6. label \in Locked <=> th = "w" /\ block # "no"
    BY <1>1 DEF Exit, Locked
  <1>7. Control'
    <2>1. CASE th = "f"
      BY <2>1, <1>1, <1>3 DEF Control, Exit, holdVars
    <2>2. CASE th = "w" /\ block # "no"
      BY <2>2, <1>1, <1>3 DEF Control, holdVars
    <2>3. CASE th = "w" /\ block = "no"
      BY <2>3, <1>1, <1>3 DEF Control, holdVars
    <2> QED BY <2>1, <2>2, <2>3
  <1> HIDE DEF label
  <1>8. label \in Labels /\ label # "run" /\ label \notin {"hold", "init"}
    BY <1>2 DEF Labels
  <1>9. m_cmds_lock' = IF label \in Locked THEN th
                       ELSE IF m_cmds_lock = th THEN NoLock ELSE m_cmds_lock
    BY <1>4, <1>5, <1>6
  <1>10. label \in Locked => m_cmds_lock \in {th, NoLock}
    BY <1>4, <1>6
  <1>11. t' \in [Threads -> Nat] /\ \A o \in Threads \ {th} : t'[o] = t[o]
    BY <1>1, <1>3
  <1>12. block' \in {"no", "yes", "ran"}
    BY <1>1, <1>3
  <1> QED BY <1>1, <1>3, <1>7, <1>8, <1>9, <1>10, <1>11, <1>12, Moved

\* The time is taken and commands are executed, unless they are held.
LEMMA RunPastCmdsStep ==
  ASSUME PulserInv, NEW th \in Threads, pc[th] \in {"loop", "sleep"}, RunPastCmds(th),
         pc[th] = "sleep" => m_cmds_lock = NoLock,
         UNCHANGED <<now, queueVars, holdVars, timingVars, outVars, workVars, countVars, faults>>
  PROVE  PulserInv'
  <1> USE DEF queueVars
  <1>1. CASE Held
    BY <1>1, LeaveStep DEF RunPastCmds
  <1>2. CASE ~Held
    <2> USE DEF PulserInv, workVars, countVars
    <2>1. /\ t' = [t EXCEPT ![th] = now] /\ pc' = [pc EXCEPT ![th] = "run"]
          /\ m_cmds_lock' = th /\ block' = block
      BY <1>2 DEF RunPastCmds, Goto
    <2>2. /\ pc \in [Threads -> Labels] /\ t \in [Threads -> Nat] /\ now \in Nat
          /\ m_cmds_lock = th <=> pc[th] \in {"loop", "run", "full"}
          /\ call \in {"none", "add", "finished", "result"} /\ block \in {"no", "yes", "ran"}
          /\ phase \in {"idle", "drain", "seq", "end", "rel", "post"}
          /\ nseq \in Nat /\ ncall \in Nat
      BY DEF TypeOK, Labels
    <2>3. Control'
      BY <2>1, <2>2 DEF Control, holdVars
    <2>4. t' \in [Threads -> Nat] /\ t'[th] = now /\ \A o \in Threads \ {th} : t'[o] = t[o]
      BY <2>1, <2>2
    <2>5. "run" \in Labels /\ "run" \in Locked /\ m_cmds_lock \in {th, NoLock}
      BY <2>2 DEF Labels, Locked
    <2> QED BY <1>2, <2>1, <2>2, <2>3, <2>4, <2>5, Moved
  <1> QED BY <1>1, <1>2

\* A thread that has not got the lock goes on without it.
LEMMA MovedUnlocked ==
  ASSUME PulserInv, NEW th \in Threads, NEW label \in Labels \ Locked,
         pc[th] \notin Locked, pc' = [pc EXCEPT ![th] = label],
         label \in {"hold", "init"} => m_cmds_empty,
         Control',
         call' \in {"none", "add", "finished", "result"},
         phase' \in {"idle", "drain", "seq", "end", "rel", "post"},
         nseq' \in Nat, ncall' \in Nat,
         UNCHANGED <<m_cmds_lock, t, block, now, queueVars, holdVars, timingVars, outVars, cmd,
                     waiting, nsent, faults>>
  PROVE  PulserInv'
  <1>1. t \in [Threads -> Nat] /\ block \in {"no", "yes", "ran"} /\ m_cmds_lock # th
    BY DEF PulserInv, TypeOK, Locked
  <1>2. label # "run"
    BY DEF Locked
  <1> QED BY <1>1, <1>2, Moved DEF queueVars

\* forward_time without the commands it executes, and the calls that lead to it.
LEMMA ForwardStep ==
  ASSUME PulserInv, NEW th \in Threads,
         LoadEmpty(th) \/ LockQueue(th) \/ Loop(th) \/ Wake(th) \/ NotYet(th) \/ RanAll(th)
  PROVE  PulserInv'
  <1>1. /\ pc \in [Threads -> Labels] /\ t \in [Threads -> Nat] /\ m_release_time \in Nat
        /\ m_cmds_lock = th <=> pc[th] \in {"loop", "run", "full"}
        /\ call \in {"none", "add", "finished", "result"} /\ block \in {"no", "yes", "ran"}
        /\ phase \in {"idle", "drain", "seq", "end", "rel", "post"}
        /\ nseq \in Nat /\ ncall \in Nat
    BY DEF PulserInv, TypeOK, Labels
  <1>2. Exit(th) \in {"ret", "out"} /\ (th = "f" => Exit(th) = "out")
    BY DEF Exit
  <1>3. CASE LoadEmpty(th)
    <2> DEFINE label == IF m_cmds_empty THEN Exit(th) ELSE "lock"
    <2> USE <1>3 DEF LoadEmpty, Goto, workVars, countVars
    <2>1. label \in {"ret", "out", "lock"} /\ (th = "f" => label # "ret")
      BY <1>2
    <2>2. pc[th] = "empty" /\ pc' = [pc EXCEPT ![th] = label]
      OBVIOUS
    <2> HIDE DEF label
    <2>3. Control'
      BY <1>1, <2>1, <2>2 DEF PulserInv, Control, holdVars
    <2>4. label \in Labels \ Locked /\ label \notin {"hold", "init"} /\ pc[th] \notin Locked
      BY <2>1, <2>2 DEF Labels, Locked
    <2> QED BY <1>1, <2>2, <2>3, <2>4, MovedUnlocked
  <1>4. CASE LockQueue(th) /\ (m_cmds = <<>> \/ Held)
    <2> USE <1>4 DEF LockQueue, Goto, workVars, countVars
    <2>1. pc[th] = "lock" /\ pc' = [pc EXCEPT ![th] = Exit(th)] /\ UNCHANGED m_cmds_lock
      OBVIOUS
    <2>2. Control'
      BY <1>1, <1>2, <2>1 DEF PulserInv, Control, holdVars
    <2>3. Exit(th) \in Labels \ Locked /\ Exit(th) \notin {"hold", "init"} /\ pc[th] \notin Locked
      BY <1>2, <2>1 DEF Labels, Locked
    <2> QED BY <1>1, <2>1, <2>2, <2>3, MovedUnlocked
  <1>5. CASE LockQueue(th) /\ ~(m_cmds = <<>> \/ Held)
    <2> USE <1>5 DEF LockQueue, Goto, workVars, countVars
    <2>1. /\ pc[th] = "lock" /\ pc' = [pc EXCEPT ![th] = "loop"]
          /\ m_cmds_lock = NoLock /\ m_cmds_lock' = th
      OBVIOUS
    <2>2. Control'
      BY <1>1, <2>1 DEF PulserInv, Control, holdVars
    <2>3. "loop" \in Labels /\ "loop" \in Locked
      BY DEF Labels, Locked
    <2> QED BY <1>1, <2>1, <2>2, <2>3, Moved DEF queueVars
  <1>6. CASE Loop(th) /\ now < m_release_time
    <2> USE <1>6 DEF Loop, Goto, workVars, countVars
    <2>1. /\ pc[th] = "loop" /\ pc' = [pc EXCEPT ![th] = "sleep"]
          /\ m_cmds_lock' = NoLock /\ t' = [t EXCEPT ![th] = m_release_time] /\ block' = block
      OBVIOUS
    <2>2. Control'
      BY <1>1, <2>1 DEF PulserInv, Control, holdVars
    <2>3. "sleep" \in Labels /\ "sleep" \notin Locked /\ m_cmds_lock = th
      BY <1>1, <2>1 DEF Labels, Locked
    <2>4. t' \in [Threads -> Nat] /\ \A o \in Threads \ {th} : t'[o] = t[o]
      BY <1>1, <2>1
    <2> QED BY <1>1, <2>1, <2>2, <2>3, <2>4, Moved DEF queueVars
  <1>7. CASE Loop(th) /\ ~(now < m_release_time)
    BY <1>7, RunPastCmdsStep DEF Loop
  <1>8. CASE Wake(th)
    BY <1>8, RunPastCmdsStep DEF Wake
  <1>9. CASE NotYet(th)
    BY <1>9, LeaveStep DEF NotYet, queueVars
  <1>10. CASE RanAll(th)
    BY <1>10, LeaveStep DEF RanAll
  <1> QED BY <1>3, <1>4, <1>5, <1>6, <1>7, <1>8, <1>9, <1>10

\* The calls that the worker and the frontend make and return from.
LEMMA CallStep ==
  ASSUME PulserInv, CurTtl \/ ReadResult \/ AskFinished \/ BeginSeq \/ Drained \/ Finished
  PROVE  PulserInv'
  <1>1. /\ pc \in [Threads -> Labels] /\ m_cmds_empty \in BOOLEAN
        /\ call \in {"none", "add", "finished", "result"} /\ block \in {"no", "yes", "ran"}
        /\ phase \in {"idle", "drain", "seq", "end", "rel", "post"}
        /\ nseq \in Nat /\ ncall \in Nat
    BY DEF PulserInv, TypeOK, Labels
  <1>2. {"empty", "out", "hold"} \subseteq Labels \ Locked /\ "ret" \notin Locked
    BY DEF Labels, Locked
  <1>3. CASE CurTtl
    <2> USE <1>3 DEF CurTtl, Goto, workVars
    <2>1. Control'
      BY <1>1 DEF PulserInv, Control, holdVars
    <2>2. pc["f"] = "out" /\ pc' = [pc EXCEPT !["f"] = "empty"]
      OBVIOUS
    <2>3. /\ call' \in {"none", "add", "finished", "result"} /\ nseq' \in Nat /\ ncall' \in Nat
          /\ phase' \in {"idle", "drain", "seq", "end", "rel", "post"}
      BY <1>1
    <2>4. UNCHANGED <<m_cmds_lock, t, block, now, queueVars, holdVars, timingVars, outVars, cmd,
                      waiting, nsent, faults>>
      OBVIOUS
    <2>5. /\ "f" \in Threads /\ "empty" \in Labels \ Locked /\ pc["f"] \notin Locked
          /\ "empty" \notin {"hold", "init"}
      BY <1>2, <2>2
    <2> HIDE DEF CurTtl
    <2> QED BY <2>1, <2>2, <2>3, <2>4, <2>5, MovedUnlocked
  <1>4. ASSUME NEW c \in {"result", "finished"}, Call(c) PROVE PulserInv'
    <2> USE <1>4 DEF Call, Goto, countVars
    <2>1. Control'
      BY <1>1 DEF PulserInv, Control, holdVars
    <2> QED BY <1>1, <1>2, <2>1, MovedUnlocked
  <1>5. CASE BeginSeq
    <2> USE <1>5 DEF BeginSeq, threadVars
    <2>1. Control'
      BY <1>1 DEF PulserInv, Control, holdVars
    <2>2. pc["w"] = "out" /\ pc' = [pc EXCEPT !["w"] = "out"]
      BY <1>1
    <2>3. /\ call' \in {"none", "add", "finished", "result"} /\ nseq' \in Nat /\ ncall' \in Nat
          /\ phase' \in {"idle", "drain", "seq", "end", "rel", "post"}
      BY <1>1
    <2>4. UNCHANGED <<m_cmds_lock, t, block, now, queueVars, holdVars, timingVars, outVars, cmd,
                      waiting, nsent, faults>>
      OBVIOUS
    <2>5. "w" \in Threads /\ "out" \in Labels \ Locked /\ pc["w"] \notin Locked
      BY <1>2, <2>2
    <2> HIDE DEF BeginSeq
    <2> QED BY <2>1, <2>2, <2>3, <2>4, <2>5, MovedUnlocked
  <1>6. CASE Drained
    <2> DEFINE label == IF m_cmds_empty THEN "hold" ELSE "out"
    <2> USE <1>6 DEF Drained, Return, Goto, countVars
    <2>1. label \in Labels \ Locked /\ (label \in {"hold", "init"} => m_cmds_empty)
      BY <1>2
    <2>2. pc["w"] = "ret" /\ pc' = [pc EXCEPT !["w"] = label]
      OBVIOUS
    <2>3. Control'
      BY <1>1, <2>2 DEF PulserInv, Control, holdVars
    <2>4. /\ call' \in {"none", "add", "finished", "result"} /\ nseq' \in Nat /\ ncall' \in Nat
          /\ phase' \in {"idle", "drain", "seq", "end", "rel", "post"}
      BY <1>1
    <2>5. UNCHANGED <<m_cmds_lock, t, block, now, queueVars, holdVars, timingVars, outVars, cmd,
                      waiting, nsent, faults>>
      OBVIOUS
    <2>6. "w" \in Threads /\ pc["w"] \notin Locked
      BY <1>2, <2>2
    <2> HIDE DEF label, Drained
    <2> QED BY <2>1, <2>2, <2>3, <2>4, <2>5, <2>6, MovedUnlocked
  <1>7. CASE Finished
    <2> USE <1>7 DEF Finished, Return, Goto, countVars
    <2>1. Control'
      BY <1>1 DEF PulserInv, Control, holdVars
    <2>2. phase' \in {"idle", "drain", "seq", "end", "rel", "post"}
      BY <1>1
    <2> QED BY <1>1, <1>2, <2>1, <2>2, MovedUnlocked
  <1> QED BY <1>3, <1>4, <1>5, <1>6, <1>7 DEF ReadResult, AskFinished

-----------------------------------------------------------------------------
(* Commands and results.                                                   *)

\* The first of the queue and the others.
LEMMA QueueTail ==
  ASSUME m_cmds \in Seq(Cmds), m_cmds # <<>>
  PROVE  /\ Len(m_cmds) \in Nat \ {0} /\ 1 \in 1 .. Len(m_cmds)
         /\ Head(m_cmds) = m_cmds[1] /\ Head(m_cmds) \in Cmds
         /\ Tail(m_cmds) \in Seq(Cmds) /\ Len(Tail(m_cmds)) = Len(m_cmds) - 1
         /\ \A i \in 1 .. Len(Tail(m_cmds)) :
              i + 1 \in 1 .. Len(m_cmds) /\ i + 1 # 1 /\ Tail(m_cmds)[i] = m_cmds[i + 1]
  <1> DEFINE n == Len(m_cmds)
  <1>1. n \in Nat \ {0}
    BY EmptySeq
  <1>2. /\ Head(m_cmds) \in Cmds /\ Tail(m_cmds) \in Seq(Cmds) /\ Len(Tail(m_cmds)) = n - 1
        /\ \A i \in 1 .. Len(Tail(m_cmds)) : Tail(m_cmds)[i] = m_cmds[i + 1]
    BY HeadTailProperties
  <1>3. Head(m_cmds) = m_cmds[1]
    OBVIOUS
  <1> HIDE DEF n
  <1>4. 1 \in 1 .. n /\ \A i \in 1 .. n - 1 : i + 1 \in 1 .. n /\ i + 1 # 1
    BY <1>1
  <1> QED BY <1>1, <1>2, <1>3, <1>4 DEF n

\* A command is executed: it was added before the time up to which the thread executes,
\* and if it was added during the hold it is not late.
LEMMA RunCmdStep == ASSUME PulserInv, NEW th \in Threads, RunCmd(th) PROVE PulserInv'
  <1> DEFINE c == Head(m_cmds)
             underflow == c.t > m_release_time
             startt == IF underflow THEN c.t ELSE m_release_time
  <1> USE DEF PulserInv
  <1>1. pc[th] = "run" /\ m_cmds # <<>> /\ m_cmds \in Seq(Cmds)
    BY DEF RunCmd, TypeOK
  <1>2. /\ Len(m_cmds) \in Nat \ {0} /\ 1 \in 1 .. Len(m_cmds) /\ c = m_cmds[1] /\ c \in Cmds
        /\ Tail(m_cmds) \in Seq(Cmds) /\ Len(Tail(m_cmds)) = Len(m_cmds) - 1
        /\ \A i \in 1 .. Len(Tail(m_cmds)) :
             i + 1 \in 1 .. Len(m_cmds) /\ i + 1 # 1 /\ Tail(m_cmds)[i] = m_cmds[i + 1]
    BY <1>1, QueueTail
  <1>3. /\ c.t \in Nat /\ c.id \in Nat /\ c.timing \in BOOLEAN /\ c.early \in BOOLEAN
        /\ m_release_time \in Nat /\ t[th] \in Nat
    BY <1>2 DEF Cmds, TypeOK
  <1>4. c.t <= t[th]
    BY <1>1, <1>2 DEF Added
  <1>5. ~Held
    BY <1>1 DEF NotHeld
  <1>6. c.early => ~underflow
    <2>1. OnTime(c)
      BY <1>2, <1>5 DEF Early
    <2> QED BY <2>1, <1>3 DEF OnTime
  <1>7. faults' = {}
    <2>1. faults' = faults \union (IF underflow /\ m_timing_check /\ c.early THEN {"late"} ELSE {})
                           \union (IF underflow /\ c.t > t[th] THEN {"assert"} ELSE {})
      BY DEF RunCmd
    <2>2. ~(c.t > t[th])
      BY <1>3, <1>4
    <2> QED BY <2>1, <2>2, <1>6 DEF NoFaults
  <1>8. /\ m_timing_ok' = (c.op = "clr" \/ (m_timing_ok /\ ~(underflow /\ m_timing_check)))
        /\ m_timing_check' = c.timing
        /\ m_results' = IF c.op = "get" THEN Append(m_results, c.id) ELSE m_results
        /\ m_ttl' = IF c.op = "ttl" THEN c.id ELSE m_ttl
        /\ m_release_time' = startt + Length(c)
        /\ m_cmds' = Tail(m_cmds)
        /\ block' = IF th = "w" /\ block = "yes" THEN "ran" ELSE block
        /\ UNCHANGED <<now, m_cmds_empty, holdVars, m_cmds_lock, pc, t, workVars, countVars>>
    BY DEF RunCmd
  <1>9. m_release_time' \in Nat /\ m_release_time' >= m_release_time
    <2>1. Length(c) \in Nat
      BY DEF Length
    <2>2. startt \in Nat /\ startt >= m_release_time
      BY <1>3
    <2> HIDE DEF startt
    <2> QED BY <2>1, <2>2, <1>3, <1>8
  <1> HIDE DEF c, underflow, startt
  <1>10. TypeOK'
    <2>1. m_timing_ok' \in BOOLEAN /\ m_timing_check' \in BOOLEAN
      BY <1>3, <1>8
    <2>2. m_results' \in Seq(Nat) /\ m_ttl' \in Nat
      BY <1>3, <1>8, AppendProperties DEF TypeOK
    <2>3. m_cmds' \in Seq(Cmds) /\ Len(m_cmds') <= FifoSize
      BY <1>2, <1>8 DEF TypeOK
    <2>4. block' \in {"no", "yes", "ran"}
      BY <1>8 DEF TypeOK
    <2> QED BY <2>1, <2>2, <2>3, <2>4, <1>8, <1>9 DEF TypeOK, holdVars, workVars, countVars
  <1>11. Control'
    BY <1>1, <1>8 DEF Control, holdVars, workVars
  <1>12. EmptyFlag'
    BY <1>1, <1>8 DEF EmptyFlag
  <1>13. Added'
    BY <1>2, <1>8 DEF Added, workVars
  <1>14. NotHeld'
    BY <1>5, <1>8 DEF NotHeld, Held, holdVars
  <1>15. Early'
    <2> SUFFICES ASSUME NEW d, d = cmd \/ \E i \in 1 .. Len(m_cmds) : d = m_cmds[i]
                 PROVE  OnTime(d)'
      BY <1>2, <1>8 DEF Early, OnTime, workVars
    <2>1. OnTime(d) /\ (d \in Cmds)
      BY <1>1, <1>5, ElementOfSeq DEF Early, TypeOK
    <2>2. d.t \in Nat
      BY <2>1 DEF Cmds
    <2> QED BY <2>1, <2>2, <1>3, <1>9 DEF OnTime
  <1>16. Gets'
    <2>1. cmd' = cmd /\ waiting' = waiting
      BY <1>8 DEF workVars
    <2>2. CASE IsGet(c)
      <3>1. c.id = waiting /\ waiting # 0 /\ m_results = <<>> /\ ~IsGet(cmd)
        BY <2>2, <1>2 DEF Gets
      <3>2. m_results' = <<waiting>>
        BY <2>2, <3>1, <1>8 DEF IsGet
      <3>3. \A i \in 1 .. Len(m_cmds') : ~IsGet(m_cmds'[i])
        BY <2>2, <1>2, <1>8 DEF Gets
      <3> QED BY <2>1, <3>1, <3>2, <3>3 DEF Gets, IsGet
    <2>3. CASE ~IsGet(c)
      <3>1. m_results' = m_results
        BY <2>3, <1>8 DEF IsGet
      <3>2. \A i \in 1 .. Len(m_cmds') : i + 1 \in 1 .. Len(m_cmds) /\ m_cmds'[i] = m_cmds[i + 1]
        BY <1>2, <1>8
      <3>3. \A i, j \in 1 .. Len(m_cmds') : IsGet(m_cmds'[i]) /\ IsGet(m_cmds'[j]) => i = j
        <4>1. Len(m_cmds') \in Nat
          BY <1>2, <1>8
        <4> QED BY <3>2, <4>1 DEF Gets
      <3> QED BY <2>1, <3>1, <3>2, <3>3 DEF Gets, IsGet
    <2> QED BY <2>2, <2>3
  <1> QED BY <1>7, <1>10, <1>11, <1>12, <1>13, <1>14, <1>15, <1>16 DEF NoFaults

\* NoCmd is a command that is not a get and was not added early.
LEMMA NoCmdFacts ==
  NoCmd \in Cmds /\ NoCmd.t = 0 /\ NoCmd.early = FALSE /\ ~IsGet(NoCmd)
  BY DEF NoCmd, Cmds, IsGet

\* The command is added.  Whoever has the lock to do so keeps the others from executing.
LEMMA PushStep ==
  ASSUME PulserInv, AddCmd, ~(Len(m_cmds) >= FifoSize)
  PROVE  PulserInv'
  <1> USE DEF PulserInv
  <1>1. /\ m_cmds \in Seq(Cmds) /\ cmd \in Cmds /\ now \in Nat /\ pc \in [Threads -> Labels]
        /\ Len(m_cmds) \in Nat /\ m_release_time \in Nat
    BY DEF TypeOK, Labels
  <1>2. /\ m_cmds' = Append(m_cmds, cmd) /\ m_cmds_empty' = FALSE
        /\ pc' = [pc EXCEPT !["w"] = "out"] /\ m_cmds_lock' = NoLock /\ call' = "none"
        /\ cmd' = NoCmd /\ UNCHANGED <<m_release_time, holdVars, block, faults>>
        /\ UNCHANGED <<now, timingVars, outVars, t, phase, waiting, countVars>>
    BY DEF AddCmd, Push, Goto
  <1>3. (pc["w"] = "add" /\ m_cmds_lock = NoLock) \/ pc["w"] = "full"
    BY DEF AddCmd
  <1>4. block = "no" /\ pc["f"] \notin {"loop", "run", "full"}
    BY <1>3 DEF Control, TypeOK
  <1>5. /\ Len(m_cmds') = Len(m_cmds) + 1 /\ m_cmds' \in Seq(Cmds)
        /\ \A i \in 1 .. Len(m_cmds) : m_cmds'[i] = m_cmds[i]
        /\ m_cmds'[Len(m_cmds) + 1] = cmd
    BY <1>1, <1>2, AppendProperties
  <1>6. \A i \in 1 .. Len(m_cmds') : i \in 1 .. Len(m_cmds) \/ i = Len(m_cmds) + 1
    BY <1>1, <1>5
  <1>7. /\ pc' \in [Threads -> Labels] /\ pc'["w"] = "out" /\ pc'["f"] = pc["f"]
        /\ \A th \in Threads : pc'[th] \notin {"loop", "run", "full"}
    BY <1>1, <1>2, <1>4 DEF Labels
  <1>8. TypeOK'
    <2>1. Len(m_cmds') <= FifoSize
      BY <1>1, <1>5
    <2>2. m_cmds_empty' \in BOOLEAN
      BY <1>2
    <2>3. cmd' \in Cmds
      BY <1>2, NoCmdFacts
    <2>4. m_cmds_lock' \in Threads \union {NoLock} /\ m_cmds_lock' \notin Threads
      BY <1>2
    <2>5. /\ now' \in Nat /\ m_hold' \in BOOLEAN /\ m_force_release' \in BOOLEAN
          /\ m_release_time' \in Nat /\ m_timing_ok' \in BOOLEAN /\ m_timing_check' \in BOOLEAN
          /\ m_results' \in Seq(Nat) /\ m_ttl' \in Nat /\ t' \in [Threads -> Nat]
          /\ block' \in {"no", "yes", "ran"} /\ call' \in {"none", "add", "finished", "result"}
          /\ phase' \in {"idle", "drain", "seq", "end", "rel", "post"}
          /\ waiting' \in Nat /\ nsent' \in Nat /\ nseq' \in Nat /\ ncall' \in Nat
      BY <1>2 DEF TypeOK, holdVars, timingVars, outVars, countVars
    <2> QED BY <1>5, <1>7, <2>1, <2>2, <2>3, <2>4, <2>5 DEF TypeOK, Labels
  <1>9. Control'
    BY <1>2, <1>4, <1>7 DEF Control
  <1>10. EmptyFlag' /\ NotHeld'
    BY <1>2, <1>7 DEF EmptyFlag, NotHeld
  <1>11. Added'
    <2>1. cmd'.t <= now'
      BY <1>1, <1>2, NoCmdFacts
    <2> QED BY <2>1, <1>2, <1>5, <1>6, <1>7 DEF Added
  <1>12. Early'
    BY <1>2, <1>5, <1>6, NoCmdFacts DEF Early, OnTime, Held, holdVars
  <1>13. Gets'
    <2>1. ~IsGet(cmd') /\ waiting' = waiting /\ m_results' = m_results
      BY <1>2, NoCmdFacts DEF outVars
    <2>2. ASSUME NEW i \in 1 .. Len(m_cmds'), IsGet(m_cmds'[i])
          PROVE  /\ m_cmds'[i].id = waiting /\ waiting # 0 /\ m_results = <<>>
                 /\ IsGet(cmd) => i = Len(m_cmds) + 1
                 /\ ~IsGet(cmd) => i \in 1 .. Len(m_cmds)
      BY <2>2, <1>5, <1>6 DEF Gets
    <2>3. \A i, j \in 1 .. Len(m_cmds') : IsGet(m_cmds'[i]) /\ IsGet(m_cmds'[j]) => i = j
      BY <2>2, <1>5 DEF Gets
    <2> QED BY <2>1, <2>2, <2>3 DEF Gets
  <1>14. NoFaults'
    BY <1>2 DEF NoFaults
  <1> QED BY <1>8, <1>9, <1>10, <1>11, <1>12, <1>13, <1>14

\* The FIFO is full: what is queued was added by now, so nothing of it is late.
LEMMA ForceStep ==
  ASSUME PulserInv, AddCmd, Len(m_cmds) >= FifoSize
  PROVE  PulserInv'
  <1> USE DEF PulserInv
  <1>1. /\ m_cmds \in Seq(Cmds) /\ cmd \in Cmds /\ now \in Nat /\ pc \in [Threads -> Labels]
        /\ m_release_time \in Nat /\ m_force_release \in BOOLEAN
    BY DEF TypeOK, Labels
  <1>2. /\ m_force_release' = TRUE /\ m_hold' = m_hold
        /\ m_release_time' = IF m_force_release THEN m_release_time ELSE now
        /\ block' = "yes" /\ m_cmds_lock' = "w" /\ pc' = [pc EXCEPT !["w"] = "loop"]
        /\ UNCHANGED <<m_cmds, m_cmds_empty, m_hold, call, cmd, faults>>
        /\ UNCHANGED <<now, timingVars, outVars, t, phase, waiting, countVars>>
    <2>1. m_cmds # <<>>
      BY <1>1, EmptySeq
    <2>2. ForceRelease /\ UNCHANGED <<now, timingVars, outVars, t, phase, waiting, countVars>>
      BY DEF AddCmd
    <2> QED BY <2>1, <2>2 DEF ForceRelease, ForwardBlocking, Goto
  <1>3. pc["f"] \notin {"loop", "run", "full"}
    BY DEF AddCmd, TypeOK
  <1>4. /\ pc' \in [Threads -> Labels] /\ pc'["w"] = "loop" /\ pc'["f"] = pc["f"]
        /\ \A th \in Threads : pc'[th] # "run"
        /\ \A th \in Threads : m_cmds_lock' = th <=> pc'[th] \in {"loop", "run", "full"}
    BY <1>1, <1>2, <1>3 DEF Labels
  <1>5. TypeOK'
    <2>1. m_release_time' \in Nat
      BY <1>1, <1>2
    <2>2. m_force_release' \in BOOLEAN
      BY <1>2
    <2>3. m_cmds_lock' \in Threads \union {NoLock} /\ block' \in {"no", "yes", "ran"}
      BY <1>2
    <2>4. /\ now' \in Nat /\ m_cmds' \in Seq(Cmds) /\ m_cmds_empty' \in BOOLEAN
          /\ Len(m_cmds') <= FifoSize /\ m_hold' \in BOOLEAN
          /\ m_timing_ok' \in BOOLEAN /\ m_timing_check' \in BOOLEAN
          /\ m_results' \in Seq(Nat) /\ m_ttl' \in Nat /\ t' \in [Threads -> Nat]
          /\ call' \in {"none", "add", "finished", "result"} /\ cmd' \in Cmds
          /\ phase' \in {"idle", "drain", "seq", "end", "rel", "post"}
          /\ waiting' \in Nat /\ nsent' \in Nat /\ nseq' \in Nat /\ ncall' \in Nat
      BY <1>2 DEF TypeOK, timingVars, outVars, countVars
    <2> QED BY <1>4, <2>1, <2>2, <2>3, <2>4 DEF TypeOK, Labels
  <1>6. Control'
    BY <1>2, <1>4 DEF Control
  <1>7. EmptyFlag' /\ NotHeld'
    BY <1>2, <1>4 DEF EmptyFlag, NotHeld
  <1>8. Added'
    BY <1>2, <1>4 DEF Added
  <1>9. Early'
    <2>1. CASE m_force_release
      BY <2>1, <1>2 DEF Early, OnTime, Held
    <2>2. CASE ~m_force_release
      BY <2>2, <1>2 DEF Early, OnTime, Added
    <2> QED BY <2>1, <2>2
  <1>10. Gets' /\ NoFaults'
    BY <1>2 DEF Gets, IsGet, NoFaults, outVars
  <1> QED BY <1>5, <1>6, <1>7, <1>8, <1>9, <1>10

\* add_cmd is called: a get only when none is waited for.
LEMMA StartAddStep ==
  ASSUME PulserInv, NEW op \in {"ttl", "get", "wait", "clr"}, NEW timing \in BOOLEAN,
         op = "get" => waiting = 0, StartAdd(op, timing),
         phase' \in {"idle", "drain", "seq", "end", "rel", "post"}
  PROVE  PulserInv'
  <1> USE DEF PulserInv
  <1>1. /\ m_cmds \in Seq(Cmds) /\ cmd \in Cmds /\ now \in Nat /\ pc \in [Threads -> Labels]
        /\ nsent \in Nat /\ waiting \in Nat /\ m_hold \in BOOLEAN /\ m_force_release \in BOOLEAN
    BY DEF TypeOK, Labels
  <1>2. /\ pc["w"] = "out" /\ pc' = [pc EXCEPT !["w"] = "add"] /\ call' = "add"
        /\ cmd' = [id |-> nsent + 1, op |-> op, timing |-> timing, t |-> now, early |-> Held]
        /\ nsent' = nsent + 1
        /\ waiting' = IF op = "get" THEN nsent + 1 ELSE waiting
        /\ UNCHANGED <<now, queueVars, holdVars, timingVars, outVars, m_cmds_lock, t, block,
                       nseq, ncall, faults>>
    BY DEF StartAdd, Goto
  <1>3. /\ pc' \in [Threads -> Labels] /\ pc'["w"] = "add" /\ pc'["f"] = pc["f"]
        /\ \A th \in Threads : m_cmds_lock' = th <=> pc'[th] \in {"loop", "run", "full"}
    BY <1>1, <1>2 DEF TypeOK, Labels
  <1>4. block = "no" /\ cmd = NoCmd
    BY <1>2 DEF Control
  <1>5. Held \in BOOLEAN
    BY <1>1 DEF Held
  <1>6. cmd' \in Cmds /\ cmd'.id = nsent + 1 /\ cmd'.op = op /\ cmd'.t = now /\ cmd'.early = Held
    BY <1>1, <1>2, <1>5 DEF Cmds
  <1>7. waiting' \in Nat /\ nsent' \in Nat /\ nsent + 1 # 0
    BY <1>1, <1>2
  <1>8. TypeOK'
    <2>1. /\ now' \in Nat /\ m_cmds' \in Seq(Cmds) /\ m_cmds_empty' \in BOOLEAN
          /\ Len(m_cmds') <= FifoSize /\ m_cmds_lock' \in Threads \union {NoLock}
          /\ m_hold' \in BOOLEAN /\ m_force_release' \in BOOLEAN /\ m_release_time' \in Nat
          /\ m_timing_ok' \in BOOLEAN /\ m_timing_check' \in BOOLEAN
          /\ m_results' \in Seq(Nat) /\ m_ttl' \in Nat
          /\ t' \in [Threads -> Nat] /\ block' \in {"no", "yes", "ran"}
          /\ nseq' \in Nat /\ ncall' \in Nat
      BY <1>2 DEF TypeOK, queueVars, holdVars, timingVars, outVars
    <2>2. call' \in {"none", "add", "finished", "result"}
      BY <1>2
    <2> QED BY <1>3, <1>6, <1>7, <2>1, <2>2 DEF TypeOK, Labels
  <1>9. Control'
    BY <1>2, <1>3, <1>4 DEF Control
  <1>10. EmptyFlag' /\ NotHeld'
    BY <1>2, <1>3 DEF EmptyFlag, NotHeld, Held, queueVars, holdVars
  <1>11. Added'
    <2>1. cmd'.t <= now'
      BY <1>1, <1>2, <1>6
    <2> QED BY <2>1, <1>2, <1>3 DEF Added, queueVars
  <1>12. Early'
    BY <1>2, <1>6 DEF Early, OnTime, Held, queueVars, holdVars
  <1>13. Gets'
    <2>1. m_cmds' = m_cmds /\ m_results' = m_results
      BY <1>2 DEF queueVars, outVars
    <2>2. CASE op = "get"
      <3>1. m_results = <<>> /\ \A i \in 1 .. Len(m_cmds) : ~IsGet(m_cmds[i])
        BY <2>2 DEF Gets
      <3> QED BY <2>1, <2>2, <3>1, <1>2, <1>6, <1>7 DEF Gets
    <2>3. CASE op # "get"
      <3>1. ~IsGet(cmd') /\ waiting' = waiting
        BY <2>3, <1>2, <1>6 DEF IsGet
      <3> QED BY <2>1, <3>1 DEF Gets
    <2> QED BY <2>2, <2>3
  <1>14. NoFaults'
    BY <1>2 DEF NoFaults
  <1> QED BY <1>8, <1>9, <1>10, <1>11, <1>12, <1>13, <1>14

\* The result that is read is the one that is waited for.
LEMMA TryGetResultStep == ASSUME PulserInv, TryGetResult PROVE PulserInv'
  <1> USE DEF PulserInv
  <1>1. pc["w"] = "ret" /\ pc' = [pc EXCEPT !["w"] = "out"] /\ call' = "none"
    BY DEF TryGetResult, Return, Goto
  <1>2. UNCHANGED <<now, queueVars, holdVars, timingVars, m_ttl, m_cmds_lock, t, block, cmd,
                    phase, countVars>>
    BY DEF TryGetResult
  <1>3. /\ pc \in [Threads -> Labels] /\ block \in {"no", "yes", "ran"} /\ waiting \in Nat
        /\ phase \in {"idle", "drain", "seq", "end", "rel", "post"} /\ nseq \in Nat /\ ncall \in Nat
    BY DEF TypeOK, Labels
  <1>4. Control'
    BY <1>1, <1>2, <1>3 DEF Control, holdVars
  <1>5. CASE m_results = <<>>
    <2>1. UNCHANGED <<m_results, waiting, faults>>
      BY <1>5 DEF TryGetResult
    <2>2. "out" \in Labels \ Locked /\ pc["w"] \notin Locked /\ "w" \in Threads
          /\ "out" \notin {"hold", "init"}
      BY <1>1 DEF Labels, Locked
    <2>3. /\ call' \in {"none", "add", "finished", "result"}
          /\ phase' \in {"idle", "drain", "seq", "end", "rel", "post"}
          /\ nseq' \in Nat /\ ncall' \in Nat
      BY <1>1, <1>2, <1>3 DEF countVars
    <2>4. UNCHANGED <<m_cmds_lock, t, block, now, queueVars, holdVars, timingVars, outVars, cmd,
                      waiting, nsent, faults>>
      BY <1>2, <2>1 DEF outVars, countVars
    <2> QED BY <1>1, <1>4, <2>2, <2>3, <2>4, MovedUnlocked
  <1>6. CASE m_results # <<>>
    <2>1. m_results = <<waiting>> /\ waiting # 0 /\ ~IsGet(cmd)
      BY <1>6 DEF Gets
    <2>2. Head(m_results) = waiting /\ Tail(m_results) = <<>>
      BY <2>1, <1>3
    <2>3. m_results' = <<>> /\ waiting' = 0 /\ faults' = {}
      BY <1>6, <2>2 DEF TryGetResult, Raise, NoFaults
    <2>4. \A i \in 1 .. Len(m_cmds) : ~IsGet(m_cmds[i])
      BY <1>6 DEF Gets
    <2>5. /\ pc' \in [Threads -> Labels] /\ pc'["w"] = "out" /\ pc'["f"] = pc["f"]
          /\ \A th \in Threads : m_cmds_lock' = th <=> pc'[th] \in {"loop", "run", "full"}
      BY <1>1, <1>2, <1>3 DEF TypeOK, Labels
    <2>6. TypeOK'
      <3>1. m_results' \in Seq(Nat) /\ waiting' \in Nat
        BY <2>3, EmptySeq
      <3>2. call' \in {"none", "add", "finished", "result"}
        BY <1>1
      <3>3. /\ now' \in Nat /\ m_cmds' \in Seq(Cmds) /\ m_cmds_empty' \in BOOLEAN
            /\ Len(m_cmds') <= FifoSize /\ m_cmds_lock' \in Threads \union {NoLock}
            /\ m_hold' \in BOOLEAN /\ m_force_release' \in BOOLEAN /\ m_release_time' \in Nat
            /\ m_timing_ok' \in BOOLEAN /\ m_timing_check' \in BOOLEAN
            /\ m_ttl' \in Nat /\ t' \in [Threads -> Nat] /\ block' \in {"no", "yes", "ran"}
            /\ cmd' \in Cmds /\ phase' \in {"idle", "drain", "seq", "end", "rel", "post"}
            /\ nsent' \in Nat /\ nseq' \in Nat /\ ncall' \in Nat
        BY <1>2 DEF TypeOK, queueVars, holdVars, timingVars, countVars
      <3> QED BY <2>5, <3>1, <3>2, <3>3 DEF TypeOK, Labels
    <2>7. EmptyFlag' /\ NotHeld' /\ Added'
      BY <1>2, <2>5 DEF EmptyFlag, NotHeld, Held, Added, queueVars, holdVars
    <2>8. Early'
      BY <1>2 DEF Early, OnTime, Held, queueVars, holdVars
    <2>9. Gets'
      BY <1>2, <2>1, <2>3, <2>4 DEF Gets, IsGet, queueVars
    <2>10. NoFaults'
      BY <2>3 DEF NoFaults
    <2> QED BY <1>4, <2>6, <2>7, <2>8, <2>9, <2>10
  <1> QED BY <1>5, <1>6

-----------------------------------------------------------------------------
(* The hold and the clock.                                                 *)

\* Before a sequence: nothing is queued when the hold is set and the force taken back.
LEMMA HoldStep == ASSUME PulserInv, SetHold \/ ToggleInit PROVE PulserInv'
  <1> USE DEF PulserInv
  <1> DEFINE label == IF pc["w"] = "hold" THEN "init" ELSE "out"
  <1>1. /\ pc["w"] \in {"hold", "init"} /\ pc' = [pc EXCEPT !["w"] = label]
        /\ UNCHANGED <<now, queueVars, outVars, m_cmds_lock, t, block, call, cmd, waiting,
                       countVars>>
    BY DEF SetHold, ToggleInit, Goto, workVars
  <1>2. m_cmds_empty = TRUE /\ m_cmds = <<>> /\ block = "no" /\ cmd = NoCmd
    BY <1>1 DEF EmptyFlag, Control, TypeOK
  <1>3. faults' = {}
    BY <1>2 DEF SetHold, ToggleInit, Raise, NoFaults
  <1>4. /\ m_hold' \in BOOLEAN /\ m_force_release' \in BOOLEAN
        /\ m_timing_ok' \in BOOLEAN /\ m_timing_check' \in BOOLEAN
    <2>1. CASE SetHold
      BY <2>1 DEF SetHold, TypeOK, timingVars
    <2>2. CASE ToggleInit
      BY <2>2 DEF ToggleInit, TypeOK
    <2> QED BY <2>1, <2>2
  <1>5. phase' \in {"idle", "drain", "seq", "end", "rel", "post"}
    BY DEF SetHold, ToggleInit, TypeOK, workVars
  <1>6. label \in {"init", "out"}
    OBVIOUS
  <1> HIDE DEF label
  <1>7. /\ pc' \in [Threads -> Labels] /\ pc'["w"] = label /\ pc'["f"] = pc["f"]
        /\ \A th \in Threads : m_cmds_lock' = th <=> pc'[th] \in {"loop", "run", "full"}
    BY <1>1, <1>6 DEF TypeOK, Labels
  <1>8. TypeOK'
    <2>1. /\ now' \in Nat /\ m_cmds' \in Seq(Cmds) /\ m_cmds_empty' \in BOOLEAN
          /\ Len(m_cmds') <= FifoSize /\ m_cmds_lock' \in Threads \union {NoLock}
          /\ m_release_time' \in Nat /\ m_results' \in Seq(Nat) /\ m_ttl' \in Nat
          /\ t' \in [Threads -> Nat] /\ block' \in {"no", "yes", "ran"}
          /\ call' \in {"none", "add", "finished", "result"} /\ cmd' \in Cmds /\ waiting' \in Nat
          /\ nsent' \in Nat /\ nseq' \in Nat /\ ncall' \in Nat
      BY <1>1 DEF TypeOK, queueVars, outVars, countVars
    <2> QED BY <1>4, <1>5, <1>7, <2>1 DEF TypeOK, Labels
  <1>9. Control'
    BY <1>1, <1>2, <1>7 DEF Control
  <1>10. EmptyFlag' /\ NotHeld'
    BY <1>1, <1>2, <1>7 DEF EmptyFlag, NotHeld, queueVars
  <1>11. Added'
    BY <1>1, <1>6, <1>7 DEF Added, queueVars
  <1>12. Early'
    BY <1>1, <1>2, NoCmdFacts, EmptySeq DEF Early, OnTime, queueVars
  <1>13. Gets'
    BY <1>1 DEF Gets, IsGet, queueVars, outVars
  <1>14. NoFaults'
    BY <1>3 DEF NoFaults
  <1> QED BY <1>8, <1>9, <1>10, <1>11, <1>12, <1>13, <1>14

\* The hold is released: what was added during it was added before now.
LEMMA ReleaseHoldStep == ASSUME PulserInv, ReleaseHold PROVE PulserInv'
  <1> USE DEF PulserInv
  <1>1. /\ pc["w"] = "out" /\ m_cmds_lock = NoLock
        /\ m_release_time' = ReleaseTime /\ m_hold' = FALSE
        /\ UNCHANGED <<now, m_cmds, m_cmds_empty, m_force_release, timingVars, outVars,
                       threadVars, call, cmd, waiting, countVars, faults>>
    BY DEF ReleaseHold
  <1>2. ReleaseTime = IF Held THEN now ELSE m_release_time
    BY DEF ReleaseTime, Held
  <1>3. phase' \in {"idle", "drain", "seq", "end", "rel", "post"}
    BY DEF ReleaseHold, TypeOK
  <1>4. \A th \in Threads : pc'[th] # "run"
    BY <1>1 DEF TypeOK, threadVars
  <1>5. TypeOK'
    <2>1. m_release_time' \in Nat
      BY <1>1, <1>2 DEF TypeOK
    <2>2. m_hold' \in BOOLEAN
      BY <1>1
    <2> QED BY <1>1, <1>3, <2>1, <2>2 DEF TypeOK, timingVars, outVars, threadVars, countVars
  <1>6. Control' /\ EmptyFlag' /\ NotHeld' /\ Added'
    BY <1>1, <1>4 DEF Control, EmptyFlag, NotHeld, Added, threadVars
  <1>7. Early'
    <2>1. CASE Held
      BY <2>1, <1>1, <1>2 DEF Early, OnTime, Added
    <2>2. CASE ~Held
      BY <2>2, <1>1, <1>2 DEF Early, OnTime
    <2> QED BY <2>1, <2>2
  <1>8. Gets' /\ NoFaults'
    BY <1>1 DEF Gets, IsGet, NoFaults, outVars
  <1> QED BY <1>5, <1>6, <1>7, <1>8

\* Time goes on.
LEMMA TickStep == ASSUME PulserInv, Tick PROVE PulserInv'
  <1> USE DEF PulserInv
  <1>1. /\ now' = now + 1 /\ now \in Nat
        /\ UNCHANGED <<queueVars, holdVars, timingVars, outVars, threadVars, workVars,
                       countVars, faults>>
    BY DEF Tick, TypeOK
  <1>2. \A x \in Nat : x <= now => x <= now'
    BY <1>1
  <1>3. cmd.t \in Nat /\ \A i \in 1 .. Len(m_cmds) : m_cmds[i].t \in Nat
    <2>1. cmd \in Cmds /\ \A i \in 1 .. Len(m_cmds) : m_cmds[i] \in Cmds
      BY ElementOfSeq DEF TypeOK
    <2> QED BY <2>1 DEF Cmds
  <1>4. Added'
    BY <1>1, <1>2, <1>3 DEF Added, queueVars, threadVars, workVars
  <1>5. now' \in Nat
    BY <1>1
  <1>6. TypeOK'
    BY <1>1, <1>5 DEF TypeOK, queueVars, holdVars, timingVars, outVars, threadVars, workVars,
                      countVars
  <1>7. Control' /\ EmptyFlag' /\ NotHeld' /\ Early'
    BY <1>1 DEF Control, EmptyFlag, NotHeld, Early, OnTime, Held, queueVars, holdVars,
                threadVars, workVars
  <1>8. Gets' /\ NoFaults'
    BY <1>1 DEF Gets, IsGet, NoFaults, queueVars, outVars, workVars
  <1> QED BY <1>4, <1>6, <1>7, <1>8

-----------------------------------------------------------------------------
(* The invariant, and what follows from it.                                *)

\* Every step of a thread, and of the clock, keeps the invariant.
LEMMA PulserStep == PulserInv /\ [Next]_vars => PulserInv'
  <1> SUFFICES ASSUME PulserInv, [Next]_vars PROVE PulserInv'
    OBVIOUS
  <1>1. ASSUME NEW th \in Threads, ForwardTime(th) PROVE PulserInv'
    BY <1>1, ForwardStep, RunCmdStep DEF ForwardTime
  <1>2. CASE AddCmd
    BY <1>2, PushStep, ForceStep
  <1>3. CASE TryGetResult
    BY <1>3, TryGetResultStep
  <1>4. CASE SetHold \/ ToggleInit
    BY <1>4, HoldStep
  <1>5. CASE CurTtl \/ ReadResult \/ AskFinished \/ BeginSeq \/ Drained \/ Finished
    BY <1>5, CallStep
  <1>6. CASE ReleaseHold
    BY <1>6, ReleaseHoldStep
  <1>7. CASE Tick
    BY <1>7, TickStep
  <1>8. CASE RunReqCmd
    <2>1. PICK op \in {"ttl", "get"} : StartAdd(op, FALSE)
      BY <1>8 DEF RunReqCmd
    <2>2. waiting = 0 /\ phase' \in {"idle", "drain", "seq", "end", "rel", "post"}
      BY <1>8 DEF RunReqCmd, PulserInv, TypeOK
    <2> QED BY <2>1, <2>2, StartAddStep
  <1>9. CASE SeqCmd
    <2>1. PICK op \in SeqOps : (op = "get" => ~m_hold /\ waiting = 0) /\ StartAdd(op, TRUE)
      BY <1>9 DEF SeqCmd
    <2>2. phase' \in {"idle", "drain", "seq", "end", "rel", "post"}
      BY <1>9 DEF SeqCmd, PulserInv, TypeOK
    <2>3. op \in {"ttl", "get", "wait", "clr"}
      OBVIOUS
    <2> QED BY <2>1, <2>2, <2>3, StartAddStep
  <1>10. CASE EndSeq
    BY <1>10, StartAddStep DEF EndSeq
  <1>11. CASE ClearError
    BY <1>11, StartAddStep DEF ClearError
  <1>12. CASE UNCHANGED vars
    <2> USE <1>12 DEF vars, queueVars, holdVars, timingVars, outVars, threadVars, workVars,
                      countVars, PulserInv
    <2>1. TypeOK'
      BY DEF TypeOK
    <2>2. Control' /\ EmptyFlag' /\ NotHeld' /\ Added'
      BY DEF Control, EmptyFlag, NotHeld, Held, Added
    <2>3. Early' /\ Gets' /\ NoFaults'
      BY DEF Early, OnTime, Held, Gets, IsGet, NoFaults
    <2> QED BY <2>1, <2>2, <2>3
  <1> QED BY <1>1, <1>2, <1>3, <1>4, <1>5, <1>6, <1>7, <1>8, <1>9, <1>10, <1>11, <1>12
          DEF Next, FrontendStep, WorkerStep, WorkerChoice

\* The invariant holds in every state of the stand-in.
THEOREM PulserInvariant == Spec => []PulserInv
  <1>1. Init => PulserInv
    BY PulserInit
  <1>2. PulserInv /\ [Next]_vars => PulserInv'
    BY PulserStep
  <1> QED BY <1>1, <1>2, PTL DEF Spec

\* Every variable keeps its type; the FIFO never holds more than it can, and a thread has
\* m_cmds_lock exactly where the code holds it.
THEOREM PulserTypes == Spec => []TypeOK
  <1>1. PulserInv => TypeOK
    BY DEF PulserInv
  <1> QED BY <1>1, PulserInvariant, PTL

\* No call throws and none of the assertions in dummy_pulser.cpp fails.
THEOREM NoCallThrows == Spec => []NoException
  <1>1. PulserInv => NoException
    BY DEF PulserInv, NoFaults, NoException
  <1> QED BY <1>1, PulserInvariant, PTL

\* A command that was added before the hold was released never counts as late.
THEOREM EarlyNeverLate == Spec => []EarlyIsOnTime
  <1>1. PulserInv => EarlyIsOnTime
    BY DEF PulserInv, NoFaults, EarlyIsOnTime
  <1> QED BY <1>1, PulserInvariant, PTL

\* try_get_result returns the result of the get that is waited for, and no other.
THEOREM ResultsAreMatched == Spec => []ResultsMatch
  <1>1. PulserInv => ResultsMatch
    BY DEF PulserInv, NoFaults, ResultsMatch
  <1> QED BY <1>1, PulserInvariant, PTL

-----------------------------------------------------------------------------
(* The stand-in implements the in-order queue.                             *)

\* What was queued stays in front of what is added.
LEMMA AppendKeeps ==
  ASSUME NEW S, NEW s \in Seq(S), NEW e \in S
  PROVE  SubSeq(Append(s, e), 1, Len(s)) = s
  <1>1. /\ Append(s, e) \in Seq(S) /\ Len(Append(s, e)) = Len(s) + 1 /\ Len(s) \in Nat
        /\ \A i \in 1 .. Len(s) : Append(s, e)[i] = s[i]
    BY AppendProperties
  <1> QED BY <1>1

\* Every step is one of the queue's, or leaves it as it is.
LEMMA QueueStep == PulserInv /\ [Next]_vars => [Queue!Next]_(Queue!vars)
  <1> SUFFICES ASSUME PulserInv, [Next]_vars PROVE [Queue!Next]_(Queue!vars)
    OBVIOUS
  <1> USE DEF PulserInv, queueVars, holdVars, outVars, Queue!vars
  <1>0. /\ m_cmds \in Seq(Cmds) /\ Len(m_cmds) \in Nat /\ Len(m_cmds) <= FifoSize
        /\ cmd \in Cmds /\ m_hold \in BOOLEAN /\ m_force_release \in BOOLEAN
    BY DEF TypeOK
  <1>1. ASSUME NEW th \in Threads, RunCmd(th) PROVE Queue!Execute
    <2>1. m_cmds # <<>> /\ ~Held
      BY <1>1 DEF RunCmd, NotHeld
    <2> QED BY <1>0, <1>1, <2>1 DEF RunCmd, Held, Queue!Execute
  <1>2. ASSUME NEW th \in Threads, ForwardTime(th), ~RunCmd(th) PROVE UNCHANGED Queue!vars
    BY <1>2 DEF ForwardTime, LoadEmpty, LockQueue, Loop, Wake, NotYet, RanAll
  <1>3. CASE AddCmd /\ Len(m_cmds) >= FifoSize
    <2>1. Len(m_cmds) = FifoSize
      BY <1>0, <1>3
    <2>2. m_force_release' = TRUE /\ UNCHANGED <<m_cmds, m_hold, m_ttl, m_results>>
      BY <1>3 DEF AddCmd, ForceRelease
    <2> QED BY <2>1, <2>2 DEF Queue!Force, Queue!Next
  <1>4. CASE AddCmd /\ ~(Len(m_cmds) >= FifoSize)
    <2>1. m_cmds' = Append(m_cmds, cmd) /\ UNCHANGED <<m_hold, m_force_release, m_ttl, m_results>>
      BY <1>4 DEF AddCmd, Push
    <2>2. Len(m_cmds') = Len(m_cmds) + 1 /\ m_cmds'[Len(m_cmds')] = cmd
      BY <1>0, <2>1, AppendProperties
    <2>3. SubSeq(m_cmds', 1, Len(m_cmds)) = m_cmds
      BY <1>0, <2>1, AppendKeeps
    <2>4. Len(m_cmds) < FifoSize
      BY <1>0, <1>4
    <2> QED BY <1>0, <2>1, <2>2, <2>3, <2>4 DEF Queue!Add, Queue!Next
  <1>5. CASE TryGetResult
    BY <1>5 DEF TryGetResult, Queue!Read, Queue!Next
  <1>6. CASE SetHold
    <2>1. m_cmds = <<>>
      BY <1>6 DEF SetHold, EmptyFlag
    <2> QED BY <1>6, <2>1 DEF SetHold, Queue!SetHold, Queue!Next
  <1>7. CASE ToggleInit
    <2>1. m_cmds = <<>>
      BY <1>7 DEF ToggleInit, EmptyFlag
    <2> QED BY <1>7, <2>1 DEF ToggleInit, Queue!ToggleInit, Queue!Next
  <1>8. CASE ReleaseHold
    BY <1>8 DEF ReleaseHold, Queue!Release, Queue!Next
  <1>9. CASE CurTtl \/ ReadResult \/ AskFinished \/ BeginSeq \/ Drained \/ Finished \/ Tick
    BY <1>9 DEF CurTtl, ReadResult, AskFinished, Call, BeginSeq, Drained, Finished, Tick
  <1>10. CASE RunReqCmd \/ SeqCmd \/ EndSeq \/ ClearError
    BY <1>10 DEF RunReqCmd, SeqCmd, EndSeq, ClearError, StartAdd
  <1>11. CASE UNCHANGED vars
    BY <1>11 DEF vars
  <1> QED BY <1>1, <1>2, <1>3, <1>4, <1>5, <1>6, <1>7, <1>8, <1>9, <1>10, <1>11
          DEF Next, FrontendStep, WorkerStep, WorkerChoice, Queue!Next

\* The stand-in, with two threads that execute its commands, is the in-order queue that
\* the controller assumes of a pulser: nothing is executed twice, out of order or while it
\* is held, and the hold is only set with nothing queued.
THEOREM PulserIsQueue == Spec => ImplementsQueue
  <1>1. Init => Queue!Init
    BY DEF Init, Queue!Init
  <1>2. PulserInv /\ [Next]_vars => [Queue!Next]_(Queue!vars)
    BY QueueStep
  <1> QED BY <1>1, <1>2, PulserInvariant, PTL DEF Spec, ImplementsQueue, Queue!Spec
=============================================================================
