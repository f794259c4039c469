---------------------------- MODULE DummyPulser -----------------------------
(***************************************************************************)
(* DummyPulser, the software pulser of src/lib/dummy_pulser.{h,cpp}, as    *)
(* Controller<DummyPulser> uses it: the worker thread "w" adds commands,   *)
(* reads results and runs sequences; the frontend thread "f" reads the     *)
(* outputs (concurrent_get: cur_ttl, cur_clock).  There is no thread that  *)
(* executes commands: whoever calls in executes what is due by then        *)
(* (forward_time), under m_cmds_lock, which is given up while it sleeps.   *)
(*                                                                         *)
(* Time is counted in the length of the shortest command.  Commands are    *)
(* "ttl" (stands for every command that only sets an output), "get" (adds  *)
(* a result), "wait" and "clr" (clear_error).  m_results is read and       *)
(* popped without the lock; a pop sees the pushes of other threads at      *)
(* once, as it does where the processor does not reorder stores.           *)
(***************************************************************************)
EXTENDS Naturals, Sequences

CONSTANTS
  FifoSize,          \* 4096 in add_cmd
  WaitLen,           \* length of a "wait"
  SeqOps,            \* commands that sequences are made of
  MaxCmds,           \* bound: commands the worker adds of its own accord
  MaxSeqs,           \* bound: sequences
  MaxCalls,          \* bound: calls of the frontend
  MaxTime            \* bound: time goes on after this only to end a wait

ASSUME ConstantsAssumption ==
  /\ FifoSize \in Nat \ {0} /\ WaitLen \in Nat \ {0}
  /\ SeqOps \subseteq {"ttl", "get", "wait"}
  /\ MaxCmds \in Nat /\ MaxSeqs \in Nat /\ MaxCalls \in Nat /\ MaxTime \in Nat

Threads == {"w", "f"}
NoLock == "none"

VARIABLES
  now,               \* steady_clock
  m_cmds, m_cmds_empty, m_cmds_lock, m_hold, m_force_release, m_release_time,
  m_timing_ok, m_timing_check, m_results, m_ttl,
  pc,                \* where each thread is in its call
  t,                 \* its cur_t while it has the lock, what it sleeps until otherwise
  block,             \* the worker's block argument: "no", "yes" or "ran"
  call,              \* the worker's call
  cmd,               \* the command it adds
  phase,             \* how far it is in run_seq
  waiting,           \* m_cmd_waiting: id of the get whose result it wants, or 0
  nsent, nseq, ncall,
  faults             \* what went wrong: "throw", "assert", "late", "held", "result"

queueVars == <<m_cmds, m_cmds_empty, m_release_time>>
holdVars == <<m_hold, m_force_release>>
timingVars == <<m_timing_ok, m_timing_check>>
outVars == <<m_results, m_ttl>>
threadVars == <<m_cmds_lock, pc, t, block>>
workVars == <<call, cmd, phase, waiting>>
countVars == <<nsent, nseq, ncall>>
vars == <<now, queueVars, holdVars, timingVars, outVars, threadVars, workVars,
          countVars, faults>>

Cmds == [id : Nat, op : {"ttl", "get", "wait", "clr"}, timing : BOOLEAN, t : Nat,
         early : BOOLEAN]
NoCmd == [id |-> 0, op |-> "clr", timing |-> FALSE, t |-> 0, early |-> FALSE]

\* early: added while the hold kept it from running.
Held == m_hold /\ ~m_force_release

Init ==
  /\ now = 0
  /\ m_cmds = <<>> /\ m_cmds_empty = TRUE /\ m_release_time = 0
  /\ m_hold = FALSE /\ m_force_release = FALSE
  /\ m_timing_ok = TRUE /\ m_timing_check = FALSE
  /\ m_results = <<>> /\ m_ttl = 0
  /\ m_cmds_lock = NoLock /\ pc = [th \in Threads |-> "out"]
  /\ t = [th \in Threads |-> 0] /\ block = "no"
  /\ call = "none" /\ cmd = NoCmd /\ phase = "idle" /\ waiting = 0
  /\ nsent = 0 /\ nseq = 0 /\ ncall = 0 /\ faults = {}

TypeOK ==
  /\ now \in Nat /\ m_cmds \in Seq(Cmds) /\ m_cmds_empty \in BOOLEAN
  /\ Len(m_cmds) <= FifoSize
  /\ m_cmds_lock \in Threads \union {NoLock}
  /\ m_hold \in BOOLEAN /\ m_force_release \in BOOLEAN /\ m_release_time \in Nat
  /\ m_timing_ok \in BOOLEAN /\ m_timing_check \in BOOLEAN
  /\ m_results \in Seq(Nat) /\ m_ttl \in Nat
  /\ pc \in [Threads -> {"out", "empty", "lock", "loop", "sleep", "run", "ret",
                         "add", "full", "hold", "init"}]
  /\ t \in [Threads -> Nat] /\ block \in {"no", "yes", "ran"}
  /\ call \in {"none", "add", "finished", "result"}
  /\ cmd \in Cmds /\ phase \in {"idle", "drain", "seq", "end", "rel", "post"}
  /\ waiting \in Nat /\ nsent \in Nat /\ nseq \in Nat /\ ncall \in Nat
  /\ \A th \in Threads :
       m_cmds_lock = th <=> pc[th] \in {"loop", "run", "full"}

-----------------------------------------------------------------------------
(* forward_time and run_past_cmds, for either thread.                      *)

Goto(th, label) == pc' = [pc EXCEPT ![th] = label]

\* What the frontend does with the output it reads is of no consequence here.
Exit(th) == IF th = "w" THEN "ret" ELSE "out"

Raise(cond, fault) == faults' = IF cond THEN faults \union {fault} ELSE faults

\* forward_time(): nothing is done when the flag says that nothing is queued.
LoadEmpty(th) ==
  /\ pc[th] = "empty"
  /\ Goto(th, IF m_cmds_empty THEN Exit(th) ELSE "lock")
  /\ UNCHANGED <<now, queueVars, holdVars, timingVars, outVars, m_cmds_lock, t, block,
                 workVars, countVars, faults>>

\* The test at the start of forward_time(block, locker), with block false.
LockQueue(th) ==
  /\ pc[th] = "lock" /\ m_cmds_lock = NoLock
  /\ IF m_cmds = <<>> \/ Held
       THEN Goto(th, Exit(th)) /\ UNCHANGED m_cmds_lock
       ELSE Goto(th, "loop") /\ m_cmds_lock' = th
  /\ UNCHANGED <<now, queueVars, holdVars, timingVars, outVars, t, block, workVars,
                 countVars, faults>>

\* Mutant: what run_past_cmds returns is not looked at.
LeaveDeaf(th) ==
  /\ t' = [t EXCEPT ![th] = 0]
  /\ IF th = "w" /\ block # "no"
       THEN Goto(th, "loop") /\ UNCHANGED <<block, m_cmds_lock>>
       ELSE Goto(th, Exit(th)) /\ m_cmds_lock' = NoLock /\ UNCHANGED block

\* run_past_cmds is over; forward_time goes round again if it has to block.
Leave(th) ==
  /\ t' = [t EXCEPT ![th] = 0]
  /\ IF th = "w" /\ block # "no"
       THEN /\ Goto(th, IF block = "ran" THEN "full" ELSE "loop")
            /\ block' = IF block = "ran" THEN "no" ELSE block
            /\ UNCHANGED m_cmds_lock
       ELSE Goto(th, Exit(th)) /\ m_cmds_lock' = NoLock /\ UNCHANGED block

\* Mutant: the hold is not looked at again.
RunPastCmdsUnheld(th) ==
  /\ t' = [t EXCEPT ![th] = now] /\ Goto(th, "run") /\ m_cmds_lock' = th /\ UNCHANGED block

\* cur_t is taken and run_past_cmds is called with it: it looks at the hold first.
RunPastCmds(th) ==
  IF Held
    THEN Leave(th)
    ELSE t' = [t EXCEPT ![th] = now] /\ Goto(th, "run") /\ m_cmds_lock' = th /\ UNCHANGED block

Loop(th) ==
  /\ pc[th] = "loop"
  /\ IF now < m_release_time
       THEN /\ m_cmds_lock' = NoLock /\ Goto(th, "sleep")
            /\ t' = [t EXCEPT ![th] = m_release_time] /\ UNCHANGED block
       ELSE RunPastCmds(th)
  /\ UNCHANGED <<now, queueVars, holdVars, timingVars, outVars, workVars, countVars, faults>>

\* Mutant: cur_t is the time before the sleep.
WakeOldTime(th) ==
  /\ pc[th] = "sleep" /\ m_cmds_lock = NoLock
  /\ now >= t[th] \/ now >= m_release_time
  /\ IF Held
       THEN Leave(th)
       ELSE Goto(th, "run") /\ m_cmds_lock' = th /\ UNCHANGED <<t, block>>
  /\ UNCHANGED <<now, queueVars, holdVars, timingVars, outVars, workVars, countVars, faults>>

\* m_release_time is read by sleep_until after the lock was given up, so it may
\* also be a later value.
Wake(th) ==
  /\ pc[th] = "sleep" /\ m_cmds_lock = NoLock
  /\ now >= t[th] \/ now >= m_release_time
  /\ RunPastCmds(th)
  /\ UNCHANGED <<now, queueVars, holdVars, timingVars, outVars, workVars, countVars, faults>>

Length(c) == IF c.op = "wait" THEN WaitLen ELSE 1

\* One command: its time starts with the end of the one before, or when it was added
\* if that is later, which is a failure if the one before asked for the check.
RunCmd(th) ==
  /\ pc[th] = "run" /\ m_cmds # <<>>
  /\ LET c == Head(m_cmds)
         underflow == c.t > m_release_time
         startt == IF underflow THEN c.t ELSE m_release_time
     IN /\ underflow \/ m_release_time <= t[th]
        /\ m_timing_ok' = (c.op = "clr" \/ (m_timing_ok /\ ~(underflow /\ m_timing_check)))
        /\ faults' = faults
             \union (IF underflow /\ m_timing_check /\ c.early THEN {"late"} ELSE {})
             \union (IF underflow /\ c.t > t[th] THEN {"assert"} ELSE {})
        /\ m_timing_check' = c.timing
        /\ m_results' = IF c.op = "get" THEN Append(m_results, c.id) ELSE m_results
        /\ m_ttl' = IF c.op = "ttl" THEN c.id ELSE m_ttl
        /\ m_release_time' = startt + Length(c)
        /\ m_cmds' = Tail(m_cmds)
  /\ block' = IF th = "w" /\ block = "yes" THEN "ran" ELSE block
  /\ UNCHANGED <<now, m_cmds_empty, holdVars, m_cmds_lock, pc, t, workVars, countVars>>

\* The next one is not due.
NotYet(th) ==
  /\ pc[th] = "run" /\ m_cmds # <<>>
  /\ Head(m_cmds).t <= m_release_time /\ m_release_time > t[th]
  /\ Leave(th)
  /\ UNCHANGED <<now, queueVars, holdVars, timingVars, outVars, workVars, countVars, faults>>

RanAll(th) ==
  /\ pc[th] = "run" /\ m_cmds = <<>>
  /\ m_cmds_empty' = TRUE
  /\ Leave(th)
  /\ UNCHANGED <<now, m_cmds, m_release_time, holdVars, timingVars, outVars, workVars,
                 countVars, faults>>

ForwardTime(th) ==
  \/ LoadEmpty(th) \/ LockQueue(th) \/ Loop(th) \/ Wake(th)
  \/ RunCmd(th) \/ NotYet(th) \/ RanAll(th)

-----------------------------------------------------------------------------
(* The frontend: cur_ttl and cur_clock.                                    *)

CurTtl ==
  /\ pc["f"] = "out" /\ ncall < MaxCalls
  /\ ncall' = ncall + 1 /\ Goto("f", "empty")
  /\ UNCHANGED <<now, queueVars, holdVars, timingVars, outVars, m_cmds_lock, t, block,
                 workVars, nsent, nseq, faults>>

-----------------------------------------------------------------------------
(* The worker's calls.                                                     *)

\* add_cmd takes the time before it takes the lock.
StartAdd(op, timing) ==
  /\ pc["w"] = "out" /\ Goto("w", "add") /\ call' = "add"
  /\ cmd' = [id |-> nsent + 1, op |-> op, timing |-> timing, t |-> now, early |-> Held]
  /\ nsent' = nsent + 1
  /\ waiting' = IF op = "get" THEN nsent + 1 ELSE waiting
  /\ UNCHANGED <<now, queueVars, holdVars, timingVars, outVars, m_cmds_lock, t, block,
                 nseq, ncall, faults>>

\* Mutant: the flag is only cleared when a sequence starts.
PushUnflagged ==
  /\ m_cmds' = Append(m_cmds, cmd)
  /\ Goto("w", "out") /\ m_cmds_lock' = NoLock /\ call' = "none" /\ cmd' = NoCmd
  /\ UNCHANGED <<m_cmds_empty, m_release_time, holdVars, block, faults>>

Push ==
  /\ m_cmds' = Append(m_cmds, cmd) /\ m_cmds_empty' = FALSE
  /\ Goto("w", "out") /\ m_cmds_lock' = NoLock /\ call' = "none" /\ cmd' = NoCmd
  /\ UNCHANGED <<m_release_time, holdVars, block, faults>>

\* forward_time(true, lock) in add_cmd: it throws when there is nothing it could execute,
\* and executes at least one command otherwise.
ForwardBlocking ==
  IF m_cmds = <<>> \/ (m_hold /\ ~m_force_release')
    THEN /\ faults' = faults \union {"throw"} /\ call' = "none" /\ cmd' = NoCmd
         /\ Goto("w", "out") /\ m_cmds_lock' = NoLock /\ UNCHANGED block
    ELSE /\ block' = "yes" /\ m_cmds_lock' = "w" /\ Goto("w", "loop")
         /\ UNCHANGED <<call, cmd, faults>>

\* The FIFO is full: the release is forced.
ForceRelease ==
  /\ m_force_release' = TRUE
  /\ m_release_time' = IF m_force_release THEN m_release_time ELSE now
  /\ ForwardBlocking
  /\ UNCHANGED <<m_cmds, m_cmds_empty, m_hold>>

AddCmd ==
  /\ \/ pc["w"] = "add" /\ m_cmds_lock = NoLock
     \/ pc["w"] = "full"
  /\ IF Len(m_cmds) >= FifoSize THEN ForceRelease ELSE Push
  /\ UNCHANGED <<now, timingVars, outVars, t, phase, waiting, countVars>>

\* is_finished() and try_get_result() start with forward_time().
Call(c) ==
  /\ pc["w"] = "out" /\ Goto("w", "empty") /\ call' = c
  /\ UNCHANGED <<now, queueVars, holdVars, timingVars, outVars, m_cmds_lock, t, block,
                 cmd, phase, waiting, countVars, faults>>

Return(c) == pc["w"] = "ret" /\ call = c /\ call' = "none"

\* Mutant: the result is not popped.
TryGetResultPeek ==
  /\ Return("result") /\ Goto("w", "out")
  /\ IF m_results = <<>>
       THEN UNCHANGED <<waiting, faults>>
       ELSE waiting' = 0 /\ Raise(Head(m_results) # waiting, "result")
  /\ UNCHANGED <<now, queueVars, holdVars, timingVars, outVars, m_cmds_lock, t, block, cmd,
                 phase, countVars>>

\* try_get_result(): the front of m_results, if there is one.
TryGetResult ==
  /\ Return("result") /\ Goto("w", "out")
  /\ IF m_results = <<>>
       THEN UNCHANGED <<m_results, waiting, faults>>
       ELSE /\ m_results' = Tail(m_results) /\ waiting' = 0
            /\ Raise(Head(m_results) # waiting, "result")
  /\ UNCHANGED <<now, queueVars, holdVars, timingVars, m_ttl, m_cmds_lock, t, block, cmd,
                 phase, countVars>>

-----------------------------------------------------------------------------
(* run_seq, as far as the pulser sees it.                                  *)

\* Commands of their own: at any time outside of a sequence, and in one from process_reqcmd.
\* A get is only sent when none is waited for, and not while the sequence is held.
RunReqCmd ==
  /\ nsent < MaxCmds /\ waiting = 0
  /\ \E op \in {"ttl", "get"} : StartAdd(op, FALSE)
  /\ phase \in {"idle", "rel", "post"} /\ UNCHANGED phase

\* The instructions of the sequence, and commands run in it, are checked.
SeqCmd ==
  /\ phase = "seq" /\ nsent < MaxCmds
  /\ \E op \in SeqOps :
       /\ op = "get" => ~m_hold /\ waiting = 0
       /\ StartAdd(op, TRUE)
  /\ UNCHANGED phase

ReadResult == waiting # 0 /\ phase # "drain" /\ (phase = "seq" => ~m_hold) /\ Call("result")

\* run_seq starts once no result is waited for.
BeginSeq ==
  /\ pc["w"] = "out" /\ phase = "idle" /\ waiting = 0 /\ nseq < MaxSeqs
  /\ phase' = "drain" /\ nseq' = nseq + 1
  /\ UNCHANGED <<now, queueVars, holdVars, timingVars, outVars, threadVars, call, cmd,
                 waiting, nsent, ncall, faults>>

\* The loops around is_finished before and after the sequence, and the worker's loop.
AskFinished == phase \in {"idle", "drain", "rel"} /\ Call("finished")

\* Mutant: one call of is_finished is enough.
DrainedOnce ==
  /\ phase = "drain" /\ Return("finished") /\ Goto("w", "hold")
  /\ UNCHANGED <<now, queueVars, holdVars, timingVars, outVars, m_cmds_lock, t, block,
                 cmd, phase, waiting, countVars, faults>>

Drained ==
  /\ phase = "drain" /\ Return("finished") /\ Goto("w", IF m_cmds_empty THEN "hold" ELSE "out")
  /\ UNCHANGED <<now, queueVars, holdVars, timingVars, outVars, m_cmds_lock, t, block,
                 cmd, phase, waiting, countVars, faults>>

\* set_hold(): its forward_time has nothing to do.
SetHold ==
  /\ pc["w"] = "hold" /\ m_cmds_lock = NoLock
  /\ Raise(m_cmds # <<>>, "held")
  /\ m_hold' = TRUE /\ Goto("w", "init")
  /\ UNCHANGED <<now, queueVars, m_force_release, timingVars, outVars, m_cmds_lock, t,
                 block, workVars, countVars>>

ToggleInit ==
  /\ pc["w"] = "init"
  /\ Raise(~m_cmds_empty, "throw")
  /\ m_force_release' = FALSE /\ m_timing_ok' = TRUE /\ m_timing_check' = FALSE
  /\ Goto("w", "out") /\ phase' = "seq"
  /\ UNCHANGED <<now, queueVars, m_hold, outVars, m_cmds_lock, t, block, call, cmd,
                 waiting, countVars>>

\* Mutant: the time of the release is not taken.
ReleaseAt == m_release_time

\* When the queue starts to run.
ReleaseTime == IF m_hold /\ ~m_force_release THEN now ELSE m_release_time

\* release_hold(), early in a long sequence (Runner::wait) and at its end.
ReleaseHold ==
  /\ pc["w"] = "out" /\ m_cmds_lock = NoLock
  /\ \/ phase = "seq" /\ m_hold /\ UNCHANGED phase
     \/ phase = "end" /\ phase' = "rel"
  /\ m_release_time' = ReleaseTime /\ m_hold' = FALSE
  /\ UNCHANGED <<now, m_cmds, m_cmds_empty, m_force_release, timingVars, outVars,
                 threadVars, call, cmd, waiting, countVars, faults>>

\* The wait that ends the timing check.
EndSeq == phase = "seq" /\ StartAdd("wait", FALSE) /\ phase' = "end"

\* The end of the sequence is taken note of; outside of one only the copy of the outputs
\* is compared (sync_ttl).
Finished ==
  /\ phase # "drain" /\ Return("finished") /\ Goto("w", "out")
  /\ phase' = IF phase = "rel" /\ m_cmds_empty THEN "post" ELSE phase
  /\ UNCHANGED <<now, queueVars, holdVars, timingVars, outVars, m_cmds_lock, t, block,
                 cmd, waiting, countVars, faults>>

ClearError == phase = "post" /\ StartAdd("clr", FALSE) /\ phase' = "idle"

-----------------------------------------------------------------------------
Tick ==
  /\ \/ now < MaxTime \/ now < m_release_time
     \/ \E th \in Threads : pc[th] = "sleep" /\ now < t[th]
  /\ now' = now + 1
  /\ UNCHANGED <<queueVars, holdVars, timingVars, outVars, threadVars, workVars,
                 countVars, faults>>

FrontendStep == ForwardTime("f")
WorkerStep ==
  \/ ForwardTime("w") \/ AddCmd \/ TryGetResult \/ Drained \/ SetHold \/ ToggleInit
  \/ Finished
WorkerChoice ==
  \/ RunReqCmd \/ SeqCmd \/ ReadResult \/ BeginSeq \/ AskFinished
  \/ ReleaseHold \/ EndSeq \/ ClearError

Next == FrontendStep \/ WorkerStep \/ WorkerChoice \/ CurTtl \/ Tick

Spec == Init /\ [][Next]_vars

\* Both threads go on once they are in a call, and so does the clock.
FairSpec == Spec /\ WF_vars(FrontendStep) /\ WF_vars(WorkerStep) /\ WF_vars(Tick)

-----------------------------------------------------------------------------
(* Properties.                                                             *)

\* No call throws or fails its assertion: a queue that is not empty in toggle_init, a
\* blocking forward_time that could not go on, a command that was added after the time up
\* to which commands are run, a hold set with commands queued.
NoException == faults \intersect {"throw", "assert", "held"} = {}

\* A command that was added before the hold was released never counts as late,
\* whichever thread executes it, when, and whatever follows it.
EarlyIsOnTime == "late" \notin faults

\* try_get_result only ever returns the result of the get that is waited for.
ResultsMatch == "result" \notin faults

\* The stand-in is the in-order queue the controller assumes of a pulser: with two threads
\* executing commands nothing is executed twice, out of order or while it is held.
Queue == INSTANCE PulserQueue
           WITH queue <- m_cmds, hold <- m_hold, forced <- m_force_release, ttl <- m_ttl,
                results <- m_results
ImplementsQueue == Queue!Spec

\* add_cmd waits on a full FIFO that the other thread has emptied while this one slept:
\* the loop of forward_time then has nothing to run and keeps the lock.
Stranded == pc["w"] \in {"loop", "run"} /\ block = "yes" /\ m_cmds = <<>>

\* Every call returns unless add_cmd is stranded: nobody keeps the lock or sleeps forever.
CallsReturn == \A th \in Threads : (pc[th] # "out") ~> (pc[th] = "out" \/ Stranded)
=============================================================================
