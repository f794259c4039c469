------------------------------ MODULE SeqIFace ------------------------------
(***************************************************************************)
(* The sequence half of CtrlIFace (lib/ctrl_iface.{h,cpp}) together with   *)
(* the part of the controller's worker thread that drives a sequence       *)
(* through its states (lib/controller.cpp, worker and run_seq).            *)
(*                                                                         *)
(* Two threads share a FilterQueue of sequences.  The frontend pushes a    *)
(* sequence and later pops it; the worker ("filter") processes the first   *)
(* one it has not forwarded yet.  Sequence ids are handed out by           *)
(* ++m_seq_cnt in the call that pushes, so the element at position i of    *)
(* the queue is sequence i and the queue is three positions:               *)
(*      1 .. popped            freed by the frontend                       *)
(*      popped+1 .. filtered   forwarded by the worker, not yet popped     *)
(*      filtered+1 .. m_seq_cnt  waiting; filtered+1 is the worker's.      *)
(*                                                                         *)
(* The dirty/observed flags that _run_code touches as well are the subject *)
(* of module StateId, the stand-alone commands that of module DdsCmd.      *)
(***************************************************************************)
EXTENDS Integers

CONSTANT MaxSeq      \* bound on the number of sequences ever scheduled

ASSUME MaxSeqAssumption == MaxSeq \in Nat \ {0}

VARIABLES
  m_seq_cnt,         \* sequence ID counter; also the number of pushes
  filtered,          \* number of sequences the worker has forwarded
  popped,            \* number of sequences the frontend has popped and freed
  state,             \* ReqSeq::state, stored by the worker (atomic)
  cancel,            \* ReqSeq::cancel, stored by the frontend (atomic)
  processed_state,   \* ReqSeq::processed_state, the last state notified
  event,             \* the backend event fd is readable
  m_quit,            \* the worker was asked to exit
  fpc,               \* where the frontend thread is
  curseq,            \* run_frontend's local curseq; 0 is nullptr
  wpc                \* where the worker thread is

ifaceVars == <<m_seq_cnt, filtered, popped, state, cancel, processed_state,
               event, m_quit, fpc, curseq, wpc>>

Ids == 1 .. MaxSeq

\* ReqSeqState: the callbacks are chosen by comparing these numbers.
SeqCancel  == -1
SeqInit    == 0
SeqStart   == 1
SeqFlushed == 2
SeqEnd     == 3
ReqSeqState == SeqCancel .. SeqEnd
Final == {SeqCancel, SeqEnd}

\* fpc: "call" the frontend may call run_code or cancel_seq; "poll" it is
\* about to run_frontend; "peek", "pop", "cur" inside run_frontend; "join"
\* waiting for the worker in ~Controller.
FrontendPC == {"call", "poll", "peek", "pop", "cur", "join", "dead"}

\* wpc: "wait" in CtrlIFace::wait; "take" about to get_seq; "prep" .. "finish"
\* inside run_seq and finish_seq, the ...Ev values before a backend_event.
WorkerPC == {"wait", "take", "prep", "startEv", "body", "flushEv", "drain",
             "endEv", "finish", "finishEv", "exit"}

IFaceTypeOK ==
  /\ m_seq_cnt \in 0 .. MaxSeq
  /\ filtered \in 0 .. MaxSeq
  /\ popped \in 0 .. MaxSeq
  /\ state \in [Ids -> ReqSeqState]
  /\ cancel \in [Ids -> BOOLEAN]
  /\ processed_state \in [Ids -> ReqSeqState]
  /\ event \in BOOLEAN
  /\ m_quit \in BOOLEAN
  /\ fpc \in FrontendPC
  /\ curseq \in 0 .. MaxSeq
  /\ wpc \in WorkerPC

IFaceInit ==
  /\ m_seq_cnt = 0 /\ filtered = 0 /\ popped = 0
  /\ state = [i \in Ids |-> SeqInit]
  /\ cancel = [i \in Ids |-> FALSE]
  /\ processed_state = [i \in Ids |-> SeqInit]
  /\ event = FALSE
  /\ m_quit = FALSE
  /\ fpc = "call"
  /\ curseq = 0
  /\ wpc = "wait"

-----------------------------------------------------------------------------
(* FilterQueue, seen from its users: both ends of get_filter, peek_filter  *)
(* look at the first sequence that was not forwarded, 0 when there is none *)
GetFilter == IF filtered < m_seq_cnt THEN filtered + 1 ELSE 0

(* The sequences a traversal of the queue visits. *)
Queued == popped + 1 .. m_seq_cnt

-----------------------------------------------------------------------------
(* Frontend thread *)

\* _run_code: take the next id and push the sequence (under m_ftend_lck).
RunCode ==
  /\ fpc = "call"
  /\ m_seq_cnt < MaxSeq
  /\ m_seq_cnt' = m_seq_cnt + 1
  /\ fpc' = "poll"
  /\ UNCHANGED <<filtered, popped, state, cancel, processed_state, event,
                 m_quit, curseq, wpc>>

\* cancel_seq(id): flag every queued sequence with that id; 0 means all.
CancelSeq(id) ==
  /\ fpc = "call"
  /\ cancel' = [i \in Ids |-> cancel[i] \/ (i \in Queued /\ id \in {0, i})]
  /\ fpc' = "poll"
  /\ UNCHANGED <<m_seq_cnt, filtered, popped, state, processed_state, event,
                 m_quit, curseq, wpc>>

\* The frontend has no sequence call to make before the next run_frontend.
NoCall ==
  /\ fpc = "call"
  /\ fpc' = "poll"
  /\ UNCHANGED <<m_seq_cnt, filtered, popped, state, cancel, processed_state,
                 event, m_quit, curseq, wpc>>

\* run_frontend: readEvent.
ReadEvent ==
  /\ fpc = "poll"
  /\ event' = FALSE
  /\ fpc' = "peek"
  /\ UNCHANGED <<m_seq_cnt, filtered, popped, state, cancel, processed_state,
                 m_quit, curseq, wpc>>

\* run_frontend: curseq = m_seq_queue.peek_filter(), before anything is popped.
PeekCurSeq ==
  /\ fpc = "peek"
  /\ curseq' = GetFilter
  /\ fpc' = "pop"
  /\ UNCHANGED <<m_seq_cnt, filtered, popped, state, cancel, processed_state,
                 event, m_quit, wpc>>

\* run_callbacks(seq): which notifications fire follows from the state loaded
\* and the one processed before (see module SeqServer); it is then remembered.
RunCallbacks(id) ==
  processed_state' = [processed_state EXCEPT ![id] = state[id]]

\* Mutant: the loop forgets that curseq may be the sequence it frees.
PopSeqKeepsCur ==
  /\ fpc = "pop"
  /\ popped < filtered
  /\ popped' = popped + 1
  /\ RunCallbacks(popped + 1)
  /\ UNCHANGED <<m_seq_cnt, filtered, state, cancel, event, m_quit, fpc, curseq, wpc>>

\* run_frontend: one turn of the loop that pops forwarded sequences.
PopSeq ==
  /\ fpc = "pop"
  /\ popped < filtered
  /\ popped' = popped + 1
  /\ curseq' = IF curseq = popped + 1 THEN 0 ELSE curseq
  /\ RunCallbacks(popped + 1)
  /\ UNCHANGED <<m_seq_cnt, filtered, state, cancel, event, m_quit, fpc, wpc>>

\* run_frontend: pop() returned nullptr.
PopDone ==
  /\ fpc = "pop"
  /\ popped = filtered
  /\ fpc' = "cur"
  /\ UNCHANGED <<m_seq_cnt, filtered, popped, state, cancel, processed_state,
                 event, m_quit, curseq, wpc>>

\* Mutant: the current sequence is looked up after the loop, not before it.
CurCallbacksLate ==
  /\ fpc = "cur"
  /\ IF GetFilter # 0 THEN RunCallbacks(GetFilter) ELSE UNCHANGED processed_state
  /\ curseq' = 0
  /\ fpc' = "call"
  /\ UNCHANGED <<m_seq_cnt, filtered, popped, state, cancel, event, m_quit, wpc>>

\* run_frontend: the callbacks of the current sequence, if it is still one.
CurCallbacks ==
  /\ fpc = "cur"
  /\ IF curseq # 0 THEN RunCallbacks(curseq) ELSE UNCHANGED processed_state
  /\ curseq' = 0
  /\ fpc' = "call"
  /\ UNCHANGED <<m_seq_cnt, filtered, popped, state, cancel, event, m_quit,
                 wpc>>

\* ~Controller: quit(), then join the worker.
Quit ==
  /\ fpc = "poll"
  /\ m_quit' = TRUE
  /\ fpc' = "join"
  /\ UNCHANGED <<m_seq_cnt, filtered, popped, state, cancel, processed_state,
                 event, curseq, wpc>>

Join ==
  /\ fpc = "join"
  /\ wpc = "exit"
  /\ fpc' = "dead"
  /\ UNCHANGED <<m_seq_cnt, filtered, popped, state, cancel, processed_state,
                 event, m_quit, curseq, wpc>>

-----------------------------------------------------------------------------
(* Worker thread *)

\* Mutant: m_quit is not looked at.
WorkerWakeAlways ==
  /\ wpc = "wait"
  /\ wpc' = "take"
  /\ UNCHANGED <<m_seq_cnt, filtered, popped, state, cancel, processed_state,
                 event, m_quit, fpc, curseq>>

\* wait(500ms) returns: a request, the time-out, or m_quit.
WorkerWake ==
  /\ wpc = "wait"
  /\ wpc' = IF m_quit THEN "exit" ELSE "take"
  /\ UNCHANGED <<m_seq_cnt, filtered, popped, state, cancel, processed_state,
                 event, m_quit, fpc, curseq>>

\* get_seq() returned nullptr; the rest of the loop handles no sequence.
TakeNone ==
  /\ wpc = "take"
  /\ GetFilter = 0
  /\ wpc' = "wait"
  /\ UNCHANGED <<m_seq_cnt, filtered, popped, state, cancel, processed_state,
                 event, m_quit, fpc, curseq>>

\* Mutant: a cancelled sequence is not finished.
TakeCancelledUnfinished ==
  /\ wpc = "take"
  /\ GetFilter # 0
  /\ cancel[GetFilter]
  /\ state' = [state EXCEPT ![GetFilter] = SeqCancel]
  /\ wpc' = "wait"
  /\ UNCHANGED <<m_seq_cnt, filtered, popped, cancel, processed_state,
                 event, m_quit, fpc, curseq>>

\* The sequence was cancelled before it was looked at: it is not run.
TakeCancelled ==
  /\ wpc = "take"
  /\ GetFilter # 0
  /\ cancel[GetFilter]
  /\ state' = [state EXCEPT ![GetFilter] = SeqCancel]
  /\ wpc' = "finish"
  /\ UNCHANGED <<m_seq_cnt, filtered, popped, cancel, processed_state,
                 event, m_quit, fpc, curseq>>

\* Mutant: cancel is not looked at first either.
TakeSeqAnyway ==
  /\ wpc = "take"
  /\ GetFilter # 0
  /\ wpc' = "prep"
  /\ UNCHANGED <<m_seq_cnt, filtered, popped, state, cancel, processed_state,
                 event, m_quit, fpc, curseq>>

\* run_seq is entered; cancel is not looked at again.
TakeSeq ==
  /\ wpc = "take"
  /\ GetFilter # 0
  /\ ~ cancel[GetFilter]
  /\ wpc' = "prep"
  /\ UNCHANGED <<m_seq_cnt, filtered, popped, state, cancel, processed_state,
                 event, m_quit, fpc, curseq>>

\* seq->state.store(s), between two stages of run_seq.
Store(from, s, to) ==
  /\ wpc = from
  /\ state' = [state EXCEPT ![filtered + 1] = s]
  /\ wpc' = to
  /\ UNCHANGED <<m_seq_cnt, filtered, popped, cancel, processed_state,
                 event, m_quit, fpc, curseq>>

\* backend_event(): writeEvent.
Signal(from, to) ==
  /\ wpc = from
  /\ event' = TRUE
  /\ wpc' = to
  /\ UNCHANGED <<m_seq_cnt, filtered, popped, state, cancel, processed_state,
                 m_quit, fpc, curseq>>

\* Pulser drained, held and initialised: the sequence starts.
StoreStart   == Store("prep", SeqStart, "startEv")
\* The byte code or command list was run (or threw) and the hold released.
StoreFlushed == Store("body", SeqFlushed, "flushEv")
\* Mutant: a cancellation that came too late is reported in the place of the end.
StoreEndCancel ==
  Store("drain", IF cancel[filtered + 1] THEN SeqCancel ELSE SeqEnd, "endEv")

\* The pulser reports that it is finished.
StoreEnd     == Store("drain", SeqEnd, "endEv")

SignalStart   == Signal("startEv", "body")
SignalFlushed == Signal("flushEv", "drain")
SignalEnd     == Signal("endEv", "finish")

\* Mutant: forwarded after the last event was written.
ForwardSeqSilently ==
  /\ wpc = "finish"
  /\ filtered' = filtered + 1
  /\ wpc' = "wait"
  /\ UNCHANGED <<m_seq_cnt, popped, state, cancel, processed_state, event,
                 m_quit, fpc, curseq>>

\* finish_seq: forward_filter, and only then the event.
ForwardSeq ==
  /\ wpc = "finish"
  /\ filtered' = filtered + 1
  /\ wpc' = "finishEv"
  /\ UNCHANGED <<m_seq_cnt, popped, state, cancel, processed_state, event,
                 m_quit, fpc, curseq>>

SignalFinish == Signal("finishEv", "wait")

-----------------------------------------------------------------------------
RunFrontend == ReadEvent \/ PeekCurSeq \/ PopSeq \/ PopDone \/ CurCallbacks

Worker ==
  \/ WorkerWake \/ TakeNone \/ TakeCancelled \/ TakeSeq
  \/ StoreStart \/ StoreFlushed \/ StoreEnd
  \/ SignalStart \/ SignalFlushed \/ SignalEnd
  \/ ForwardSeq \/ SignalFinish

\* The process has left ~Controller: nothing is left to do.
Exited == fpc = "dead" /\ UNCHANGED ifaceVars

IFaceNext ==
  \/ RunCode
  \/ \E id \in 0 .. MaxSeq : CancelSeq(id)
  \/ NoCall
  \/ RunFrontend
  \/ Quit \/ Join
  \/ Worker
  \/ Exited

IFaceSpec == IFaceInit /\ [][IFaceNext]_ifaceVars

\* The two loops are what is fair: the worker thread keeps being scheduled (a
\* sequence body ends, the pulser finishes, wait has a 500ms time-out), and the
\* frontend comes back to run_frontend (zmq::poll has a time-out of at most 1s)
\* and reaches the end of it.  No call and no Quit is ever required.
IFaceFairness ==
  /\ WF_ifaceVars(Worker)
  /\ WF_ifaceVars(NoCall)
  /\ WF_ifaceVars(RunFrontend)
  /\ WF_ifaceVars(Join)

FairIFaceSpec == IFaceSpec /\ IFaceFairness

-----------------------------------------------------------------------------
(* Safety *)

\* "This guarantees that the callbacks will be executed in order without
\* leaving a gap" (run_frontend): no callback of a sequence is run before every
\* earlier sequence was reported finished or cancelled.
CallbackOrder ==
  \A i, j \in Ids :
    i < j /\ processed_state[j] # SeqInit => processed_state[i] \in Final

\* run_frontend keeps the raw pointer curseq across the loop that frees the
\* sequences it pops: while it may still be dereferenced it points to a
\* sequence that is in the queue, and in the end to the one behind the last
\* popped.
CurSeqAlive ==
  /\ fpc \in {"pop", "cur"} => curseq = 0 \/ curseq \in Queued
  /\ fpc = "cur" => curseq \in {0, popped + 1}

\* Sequence i has something run_frontend has not handled: a new state, or it
\* was forwarded and is to be freed.
Unhandled(i) == i \in Queued /\ (state[i] # processed_state[i] \/ i <= filtered)

\* The pass through run_frontend that is under way will still look at i.
WillBeSeen(i) ==
  \/ fpc = "peek"
  \/ fpc = "pop" /\ (i <= filtered \/ curseq = i)
  \/ fpc = "cur" /\ curseq = i

\* Reading the event before the queue loses nothing: whenever a sequence has an
\* unhandled change, the event fd is readable, or the worker is about to write
\* it, or the current pass will see the change.  So the frontend never sleeps
\* through a change in its poll.
NoMissedEvent ==
  \A i \in Ids :
    Unhandled(i) =>
      \/ event \/ WillBeSeen(i)
      \/ wpc \in {"startEv", "flushEv", "endEv", "finish", "finishEv"}
      \/ m_quit

\* What the frontend was told is something that happened: it never reports a
\* later state than the worker reached, never a cancellation of a sequence that
\* ran, and a popped sequence was reported to its end.
ReportsTruthful ==
  \A i \in Ids :
    /\ processed_state[i] = SeqCancel => state[i] = SeqCancel
    /\ state[i] = SeqCancel => cancel[i] /\ processed_state[i] \in {SeqInit, SeqCancel}
    /\ state[i] # SeqCancel => processed_state[i] <= state[i]
    /\ i <= popped => processed_state[i] = state[i] /\ state[i] \in Final

-----------------------------------------------------------------------------
(* The callback contract *)

\* SeqOrder, with the last processed state as what the owner was told.
Order == INSTANCE SeqOrder WITH accepted <- m_seq_cnt, told <- processed_state

\* The two threads implement it: run_code accepts a sequence, each call of
\* run_callbacks that finds a new state tells the next thing in order, and no
\* other step is visible in the contract.
ImplementsOrder == Order!Spec

-----------------------------------------------------------------------------
(* Temporal properties *)

\* cancel_seq takes effect on every sequence that is not the worker's yet: once
\* flagged while an earlier sequence is still to be forwarded, it never starts.
CancelHonoured ==
  \A i \in Ids :
    [](cancel[i] /\ filtered + 1 < i => [](state[i] \in {SeqInit, SeqCancel}))

\* Every sequence that was scheduled is reported finished or cancelled, unless
\* the server is shut down.
EverySeqResolved ==
  \A i \in Ids : (i <= m_seq_cnt) ~> (processed_state[i] \in Final \/ m_quit)

\* ~Controller returns: however many sequences are queued, the worker sees
\* m_quit and the join ends.
QuitReturns == m_quit ~> (fpc = "dead")
=============================================================================
