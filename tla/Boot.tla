-------------------------------- MODULE Boot --------------------------------
(***************************************************************************)
(* The start of the server on real hardware, and the detection of the DDS  *)
(* boards that goes on afterwards: Pulser (src/lib/pulser.{h,cpp}) and the *)
(* constructor, detect_dds, check_dds and run_seq of Controller.           *)
(*                                                                         *)
(* The FPGA is external: an instruction queue, a result FIFO and a hold    *)
(* bit that outlive the server process.  Boards are external too: they can *)
(* be pulled, plugged in and lose their power.  Instructions are the ones  *)
(* of dds_exists ("ask0", "ask1": a byte is written and read back), of     *)
(* check_dds ("chk"), of init_dds ("reset" for all that comes before the   *)
(* magic bytes, "magic"), of dump_dds ("dump", one of the 32) and of       *)
(* sequences ("out").  Thread "c" is the constructor, "w" the worker,      *)
(* which the constructor starts before it detects the boards.              *)
(***************************************************************************)
EXTENDS Naturals, Sequences

CONSTANTS
  NDDS,              \* 22
  MaxBoots,          \* bound: starts of the server
  MaxOuts,           \* bound: instructions of a sequence that are queued
  MaxPlugs           \* bound: boards pulled, plugged in, or switched off and on

ASSUME ConstantsAssumption ==
  NDDS \in Nat \ {0} /\ MaxBoots \in Nat /\ MaxOuts \in Nat /\ MaxPlugs \in Nat

Threads == {"c", "w"}
Boards == 1 .. NDDS
Ops == {"ask0", "ask1", "chk", "reset", "magic", "dump", "out"}

VARIABLES
  queue,             \* FPGA: instructions to be executed
  results,           \* FPGA: results to be read, and whose they are
  hold,              \* FPGA: bit Hold of register 3
  board,             \* boards: there or not, the byte at 0x68, the magic bytes at 0x64
  pc, chn,           \* where each thread is, and the board it deals with
  look,              \* what the worker goes through the boards for: "detect" or "seq"
  m_dds_exist, m_dds_pending_reset,
  boots, nplug,
  leftover,          \* instructions of an earlier server were queued after clear_results:
                     \* "none", "some", or "slow" if a sequence's are among them
  foreign,           \* a result was read that another thread or server had asked for
  due                \* boards whose reset somebody has asked for, by reset_dds or by starting
                     \* the server, and that were not reset or found missing since

hwVars == <<queue, results, hold, board>>
ctrlVars == <<m_dds_exist, m_dds_pending_reset>>
ghostVars == <<leftover, foreign, due>>
vars == <<hwVars, pc, chn, look, ctrlVars, boots, nplug, ghostVars>>

Instr(th, op, i) == [op |-> op, chn |-> i, by |-> <<boots, th>>]
Fresh == [there |-> TRUE, byte |-> 0, magic |-> FALSE]
\* Without a board the bus always reads the same.
Gone(byte) == [there |-> FALSE, byte |-> byte, magic |-> FALSE]

Init ==
  /\ queue = <<>> /\ results = <<>> /\ hold = FALSE
  /\ board \in [Boards -> {Fresh, Gone(1)}]
  /\ pc = [th \in Threads |-> "off"] /\ chn = [th \in Threads |-> 1]
  /\ look = "detect" /\ m_dds_exist = [i \in Boards |-> FALSE]
  /\ m_dds_pending_reset = [i \in Boards |-> FALSE]
  /\ boots = 0 /\ nplug = 0 /\ leftover = "none" /\ foreign = FALSE
  /\ due = {}

-----------------------------------------------------------------------------
(* The hardware.                                                           *)

\* What an instruction does to its board.
Effect(c, b) ==
  IF ~b.there THEN b
  ELSE CASE c.op = "ask0" -> [b EXCEPT !.byte = 0]
         [] c.op = "ask1" -> [b EXCEPT !.byte = 1]
         [] c.op = "reset" -> Fresh
         [] c.op = "magic" -> [b EXCEPT !.magic = TRUE]
         [] OTHER -> b

Answer(c, b) == [val |-> IF c.op = "chk" THEN b.magic ELSE b.byte = 1, by |-> c.by]

Execute ==
  /\ queue # <<>> /\ ~hold
  /\ queue' = Tail(queue)
  /\ LET c == Head(queue) IN
       /\ board' = [board EXCEPT ![c.chn] = Effect(c, @)]
       /\ results' = IF c.op \in {"ask0", "ask1", "chk", "dump"}
                       THEN Append(results, Answer(c, board'[c.chn])) ELSE results
  /\ UNCHANGED <<hold, pc, chn, look, ctrlVars, boots, nplug, ghostVars>>

\* A board is pulled.
Pull(i) ==
  /\ nplug < MaxPlugs /\ nplug' = nplug + 1 /\ board[i].there
  /\ \E byte \in 0 .. 1 : board' = [board EXCEPT ![i] = Gone(byte)]
  /\ UNCHANGED <<queue, results, hold, pc, chn, look, ctrlVars, boots, ghostVars>>

\* A board is plugged in, or loses its power for a moment.
Plug(i) ==
  /\ nplug < MaxPlugs /\ nplug' = nplug + 1
  /\ board' = [board EXCEPT ![i] = Fresh]
  /\ UNCHANGED <<queue, results, hold, pc, chn, look, ctrlVars, boots, ghostVars>>

-----------------------------------------------------------------------------
(* Pulser.                                                                 *)

Goto(th, label) == pc' = [pc EXCEPT ![th] = label]

\* pulse: instructions are written to the FIFO.
Send(th, ops) == queue' = queue \o [k \in 1 .. Len(ops) |-> Instr(th, ops[k], chn[th])]

\* get_result: spins until there is one.
GetResult(th) ==
  /\ results # <<>> /\ results' = Tail(results)
  /\ foreign' = (foreign \/ Head(results).by # <<boots, th>>)

\* The instructions of a DDS are executed at once, those of a sequence take their time.
Leftover ==
  IF queue = <<>> THEN "none"
  ELSE IF \E k \in 1 .. Len(queue) : queue[k].op = "out" THEN "slow" ELSE "some"

\* Mutant: the results are left for whoever reads first.
ClearResultsNot ==
  /\ pc["c"] = "clear"
  /\ pc' = [pc EXCEPT !["c"] = "detect"] /\ leftover' = Leftover /\ UNCHANGED results
  /\ UNCHANGED <<queue, hold, board, chn, look, ctrlVars, boots, nplug, foreign, due>>

\* clear_results, one result at a time; Controller's constructor goes on from there.
ClearResults ==
  /\ pc["c"] = "clear"
  /\ IF results # <<>>
       THEN results' = Tail(results) /\ UNCHANGED <<pc, leftover>>
       ELSE pc' = [pc EXCEPT !["c"] = "detect"] /\ leftover' = Leftover
            /\ UNCHANGED results
  /\ UNCHANGED <<queue, hold, board, chn, look, ctrlVars, boots, nplug, foreign, due>>

\* The loops over the boards, of detect_dds and at the end of run_seq.
NextBoard(th) ==
  IF chn[th] < NDDS
    THEN /\ Goto(th, IF th = "w" /\ look = "seq" THEN "seen" ELSE "detect")
         /\ chn' = [chn EXCEPT ![th] = @ + 1]
    ELSE Goto(th, "done") /\ chn' = [chn EXCEPT ![th] = 1]

\* Mutant: one register read too few.
SendProbeOnce(th) ==
  /\ pc[th] = "detect" /\ Send(th, <<"ask1">>) /\ Goto(th, "res0")
  /\ UNCHANGED <<results, hold, board, chn, look, ctrlVars, boots, nplug, ghostVars>>

\* dds_exists: write 0, read, write 1, read.
SendProbe(th) ==
  /\ pc[th] = "detect" /\ Send(th, <<"ask0", "ask1">>) /\ Goto(th, "res0")
  /\ UNCHANGED <<results, hold, board, chn, look, ctrlVars, boots, nplug, ghostVars>>

\* m_dds_exist and m_dds_pending_reset after dds_exists, and where detect_dds goes on.
Absent(th) ==
  /\ m_dds_exist' = [m_dds_exist EXCEPT ![chn[th]] = FALSE]
  /\ m_dds_pending_reset' = [m_dds_pending_reset EXCEPT ![chn[th]] = FALSE]
  /\ due' = due \ {chn[th]}
  /\ NextBoard(th)

Present(th) ==
  /\ m_dds_exist' = [m_dds_exist EXCEPT ![chn[th]] = TRUE]
  /\ m_dds_pending_reset' = [m_dds_pending_reset EXCEPT ![chn[th]] = @ \/ th = "c"]
  /\ Goto(th, "check") /\ UNCHANGED <<chn, due>>

\* Both results are read in any case.
ReadRes0(th) ==
  /\ pc[th] = "res0" /\ GetResult(th)
  /\ Goto(th, IF Head(results).val THEN "bad" ELSE "res1")
  /\ UNCHANGED <<queue, hold, board, chn, look, ctrlVars, boots, nplug, leftover, due>>

ReadRes1(th) ==
  /\ pc[th] \in {"res1", "bad"} /\ GetResult(th)
  /\ IF pc[th] = "res1" /\ Head(results).val THEN Present(th) ELSE Absent(th)
  /\ UNCHANGED <<queue, hold, board, look, boots, nplug, leftover>>

\* check_dds: unless the reset is forced the magic bytes are asked for.
CheckDds(th) ==
  /\ pc[th] = "check" /\ ~m_dds_pending_reset[chn[th]]
  /\ Send(th, <<"chk">>) /\ Goto(th, "chk")
  /\ UNCHANGED <<results, hold, board, chn, look, ctrlVars, boots, nplug, ghostVars>>

\* init_dds up to its sleep.
SendReset(th) ==
  Send(th, <<"reset">>) /\ Goto(th, "magic") /\ due' = due \ {chn[th]} /\ UNCHANGED chn

ForceInit(th) ==
  /\ pc[th] = "check" /\ m_dds_pending_reset[chn[th]] /\ SendReset(th)
  /\ UNCHANGED <<results, hold, board, look, ctrlVars, boots, nplug, leftover, foreign>>

CheckMagic(th) ==
  /\ pc[th] = "chk" /\ GetResult(th)
  /\ IF Head(results).val
       THEN NextBoard(th) /\ UNCHANGED <<queue, due>>
       ELSE SendReset(th)
  /\ UNCHANGED <<hold, board, look, ctrlVars, boots, nplug, leftover>>

\* The registers are dumped except when the worker's loop has found a new board.
Dumps(th) == th = "c" \/ look = "seq"

\* Mutant: init_dds does not set the magic bytes.
InitDdsPlain(th) ==
  /\ pc[th] = "magic"
  /\ m_dds_pending_reset' = [m_dds_pending_reset EXCEPT ![chn[th]] = FALSE]
  /\ IF Dumps(th)
       THEN Send(th, <<"dump">>) /\ Goto(th, "dump") /\ UNCHANGED chn
       ELSE NextBoard(th) /\ UNCHANGED queue
  /\ UNCHANGED <<results, hold, board, look, m_dds_exist, boots, nplug, ghostVars>>

\* Mutant: the reset stays noted.
InitDdsNoted(th) ==
  /\ pc[th] = "magic" /\ UNCHANGED ctrlVars
  /\ IF Dumps(th)
       THEN Send(th, <<"magic", "dump">>) /\ Goto(th, "dump") /\ UNCHANGED chn
       ELSE Send(th, <<"magic">>) /\ NextBoard(th)
  /\ UNCHANGED <<results, hold, board, look, boots, nplug, ghostVars>>

\* The rest of init_dds, after its sleep, and the start of dump_dds.
InitDds(th) ==
  /\ pc[th] = "magic"
  /\ m_dds_pending_reset' = [m_dds_pending_reset EXCEPT ![chn[th]] = FALSE]
  /\ IF Dumps(th)
       THEN Send(th, <<"magic", "dump">>) /\ Goto(th, "dump") /\ UNCHANGED chn
       ELSE Send(th, <<"magic">>) /\ NextBoard(th)
  /\ UNCHANGED <<results, hold, board, look, m_dds_exist, boots, nplug, ghostVars>>

DumpDds(th) ==
  /\ pc[th] = "dump" /\ GetResult(th) /\ NextBoard(th)
  /\ UNCHANGED <<queue, hold, board, look, ctrlVars, boots, nplug, leftover, due>>

DetectDds(th) ==
  \/ SendProbe(th) \/ ReadRes0(th) \/ ReadRes1(th)
  \/ CheckDds(th) \/ ForceInit(th) \/ CheckMagic(th) \/ InitDds(th)
  \/ DumpDds(th)

-----------------------------------------------------------------------------
(* The server: its start, the worker's loop, and its death.                *)

Start ==
  /\ pc = [th \in Threads |-> "off"] /\ boots < MaxBoots /\ boots' = boots + 1
  /\ Goto("c", "clear")
  /\ m_dds_exist' = [i \in Boards |-> FALSE]
  /\ m_dds_pending_reset' = [i \in Boards |-> FALSE]
  /\ leftover' = "none" /\ foreign' = FALSE /\ due' = Boards
  /\ UNCHANGED <<hwVars, chn, look, nplug>>

\* Mutant: the worker does not wait.
WorkerStartAtOnce == pc["w"] = "off" /\ pc["c"] \notin {"off", "clear"}

\* The worker first waits for 500ms.  The detection takes less than that if it does not
\* have to wait for an earlier server's sequence, or for a hold.
WorkerStart ==
  /\ pc["w"] = "off" /\ pc["c"] \notin {"off", "clear"}
  /\ pc["c"] = "done" \/ leftover = "slow" \/ hold

Worker ==
  /\ WorkerStart /\ Goto("w", "done")
  /\ UNCHANGED <<hwVars, chn, look, ctrlVars, boots, nplug, ghostVars>>

\* detect_dds in the worker's loop.
WorkerDetect ==
  /\ pc["w"] = "done" /\ Goto("w", "detect") /\ look' = "detect"
  /\ UNCHANGED <<hwVars, chn, ctrlVars, boots, nplug, ghostVars>>

Up == pc["c"] = "done" /\ pc["w"] = "done"

\* reset_dds: only noted, also while a sequence runs.
ResetDds(i) ==
  /\ pc["c"] = "done" /\ pc["w"] \in {"done", "seq", "rel"} /\ ~m_dds_pending_reset[i]
  /\ m_dds_pending_reset' = [m_dds_pending_reset EXCEPT ![i] = TRUE]
  /\ due' = due \union {i}
  /\ UNCHANGED <<hwVars, pc, chn, look, m_dds_exist, boots, nplug, leftover, foreign>>

\* run_seq: with everything finished the hold is set; toggle_init clears what is queued
\* and not read.
BeginSeq ==
  /\ Up /\ queue = <<>>
  /\ Goto("w", "seq") /\ hold' = TRUE
  /\ results' = <<>> /\ leftover' = "none" /\ foreign' = FALSE
  /\ UNCHANGED <<queue, board, chn, look, ctrlVars, boots, nplug, due>>

SeqOut ==
  /\ pc["w"] = "seq" /\ Len(queue) < MaxOuts /\ Send("w", <<"out">>)
  /\ UNCHANGED <<results, hold, board, pc, chn, look, ctrlVars, boots, nplug, ghostVars>>

ReleaseHold ==
  /\ pc["w"] = "seq" /\ Goto("w", "rel") /\ hold' = FALSE
  /\ UNCHANGED <<queue, results, board, chn, look, ctrlVars, boots, nplug, ghostVars>>

\* The sequence is over: the boards known to be there are checked.
EndSeq ==
  /\ pc["w"] = "rel" /\ queue = <<>> /\ Goto("w", "seen") /\ look' = "seq"
  /\ UNCHANGED <<hwVars, chn, ctrlVars, boots, nplug, ghostVars>>

CheckSeen ==
  /\ pc["w"] = "seen"
  /\ IF m_dds_exist[chn["w"]] THEN Goto("w", "check") /\ UNCHANGED chn ELSE NextBoard("w")
  /\ UNCHANGED <<hwVars, look, ctrlVars, boots, nplug, ghostVars>>

\* The process dies; the FPGA goes on.
Crash ==
  /\ pc["c"] # "off" /\ boots < MaxBoots
  /\ pc' = [th \in Threads |-> "off"] /\ chn' = [th \in Threads |-> 1] /\ look' = "detect"
  /\ UNCHANGED <<hwVars, ctrlVars, boots, nplug, ghostVars>>

CtorStep == ClearResults \/ DetectDds("c")
WorkerStep == Worker \/ DetectDds("w") \/ ReleaseHold \/ EndSeq
              \/ CheckSeen

Next ==
  \/ Execute \/ \E i \in Boards : Pull(i) \/ Plug(i)
  \/ Start \/ CtorStep \/ WorkerStep \/ WorkerDetect
  \/ \E i \in Boards : ResetDds(i)
  \/ BeginSeq \/ SeqOut \/ Crash

Spec == Init /\ [][Next]_vars

\* The FPGA, the service manager, the constructor and the worker go on; each turn of the
\* worker's loop calls detect_dds, which does its work when a second has passed.
FairSpec ==
  /\ Spec
  /\ WF_vars(Execute) /\ WF_vars(Start) /\ SF_vars(CtorStep) /\ WF_vars(WorkerStep)
  /\ SF_vars(WorkerDetect)

-----------------------------------------------------------------------------
(* Properties.                                                             *)

Instrs == [op : Ops, chn : Boards, by : Nat \X Threads]
Answers == [val : BOOLEAN, by : Nat \X Threads]

TypeOK ==
  /\ queue \in Seq(Instrs) /\ results \in Seq(Answers) /\ hold \in BOOLEAN
  /\ board \in [Boards -> [there : BOOLEAN, byte : 0 .. 1, magic : BOOLEAN]]
  /\ pc \in [Threads -> {"off", "clear", "detect", "res0", "res1", "bad", "check", "chk",
                         "magic", "dump", "done", "seq", "rel", "seen"}]
  /\ chn \in [Threads -> Boards] /\ look \in {"detect", "seq"}
  /\ m_dds_exist \in [Boards -> BOOLEAN] /\ m_dds_pending_reset \in [Boards -> BOOLEAN]
  /\ boots \in 0 .. MaxBoots /\ nplug \in Nat /\ leftover \in {"none", "some", "slow"}
  /\ foreign \in BOOLEAN /\ due \subseteq Boards

\* Every result the server reads is the answer to the thread that reads it, whatever
\* results an earlier server has left and wherever it died, unless instructions of that
\* server were still to be executed when clear_results was done; a sequence mends that.
OwnResults == foreign => leftover # "none"

\* A board is reset once when the server is started, which check_dds is told to do then
\* even if the board is in use, and once for each reset_dds; apart from that neither thread
\* resets a board whose magic bytes are there.  It can do so, by an answer that is not its
\* own, while instructions of an earlier server are in the way.
ResetOnlyIfNeeded ==
  [][\A th \in Threads :
       pc[th] # "magic" /\ pc'[th] = "magic" /\ leftover = "none" =>
         chn[th] \in due \/ ~board[chn[th]].magic]_vars

\* A server that is started with the hold released gets through the detection, also when
\* the instructions of an earlier one are in its way.
BootCompletes == (pc["c"] = "clear" /\ ~hold) ~> (pc["c"] \in {"off", "done"})

\* A board that is plugged in, or has lost its power, is initialised in the end, unless
\* it goes away again or the server is held up by what an earlier one left.
Stuck == leftover # "none" \/ (hold /\ pc["c"] # "done")
BoardsComeBack ==
  \A i \in Boards : []<>(~board[i].there \/ board[i].magic \/ Stuck)
=============================================================================
