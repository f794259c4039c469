--------------------------- MODULE SeqServerProofs --------------------------
(***************************************************************************)
(* Proofs about SeqIFace and about SeqServer, for any number of sequences  *)
(* and wait requests.                                                      *)
(*                                                                         *)
(* The interface.  CallbackOrder is not inductive: that popping reports in *)
(* order rests on what the worker has stored in the sequences it forwarded *)
(* (StateOK), on what the frontend copied from there (ReportOK), and on    *)
(* where curseq may point while the frontend pops and the worker goes on   *)
(* (CurOK).                                                                *)
(*                                                                         *)
(* The server.  Each of its steps is a step of SeqIFace or leaves it       *)
(* unchanged, so all that is proved about the interface holds for it.  On  *)
(* top of the interface's invariant, the status vector is shown to follow  *)
(* the notifications, and the replies to follow the status vector.         *)
(***************************************************************************)
EXTENDS SeqServer, TLAPS

-----------------------------------------------------------------------------
(* The interface *)

\* Where the worker owns the sequence at filtered + 1.
Busy == {"prep", "startEv", "body", "flushEv", "drain", "endEv", "finish"}

\* The order of the three queue positions.
QueueOK ==
  /\ popped <= filtered
  /\ filtered <= m_seq_cnt
  /\ wpc \in Busy => filtered < m_seq_cnt

\* The state of a sequence follows from its position and the worker's.
StateOK ==
  \A i \in Ids :
    /\ i <= filtered => state[i] \in Final
    /\ i > filtered + 1 => state[i] = SeqInit
    /\ i = filtered + 1 =>
         /\ wpc \in {"wait", "take", "prep", "finishEv", "exit"} => state[i] = SeqInit
         /\ wpc \in {"startEv", "body"} => state[i] = SeqStart
         /\ wpc \in {"flushEv", "drain"} => state[i] = SeqFlushed
         /\ wpc = "endEv" => state[i] = SeqEnd
         /\ wpc = "finish" => state[i] \in Final
    /\ state[i] = SeqCancel => cancel[i]

\* What was reported is behind, or the same as, what is stored.
ReportOK ==
  \A i \in Ids :
    /\ \/ processed_state[i] = SeqInit
       \/ processed_state[i] = SeqCancel /\ state[i] = SeqCancel
       \/ processed_state[i] > 0 /\ processed_state[i] <= state[i]
    /\ i <= popped => processed_state[i] = state[i]

\* Where run_frontend's curseq points.
CurOK ==
  /\ fpc = "pop" /\ curseq # 0 =>
       curseq > popped /\ curseq <= filtered + 1 /\ curseq <= m_seq_cnt
  /\ fpc = "cur" /\ curseq # 0 => curseq = popped + 1 /\ curseq <= m_seq_cnt

\* The inductive invariant.
IndInv == IFaceTypeOK /\ QueueOK /\ StateOK /\ ReportOK /\ CurOK /\ CallbackOrder

USE MaxSeqAssumption

-----------------------------------------------------------------------------
\* The initial state of CtrlIFace and of the worker satisfies the invariant.
LEMMA InitIndInv == IFaceInit => IndInv
  <1> SUFFICES ASSUME IFaceInit PROVE IndInv
    OBVIOUS
  <1> USE MaxSeqAssumption DEF IFaceInit, Ids
  <1>1. IFaceTypeOK
    <2>1. /\ state \in [Ids -> ReqSeqState] /\ cancel \in [Ids -> BOOLEAN]
          /\ processed_state \in [Ids -> ReqSeqState]
      BY DEF ReqSeqState, SeqCancel, SeqInit, SeqEnd
    <2>2. event \in BOOLEAN /\ m_quit \in BOOLEAN
      OBVIOUS
    <2> QED BY <2>1, <2>2 DEF IFaceTypeOK, FrontendPC, WorkerPC
  <1>2. QueueOK
    BY DEF QueueOK, Busy
  <1>3. StateOK
    BY DEF StateOK, SeqInit, SeqCancel
  <1>4. ReportOK /\ CurOK /\ CallbackOrder
    BY DEF ReportOK, CurOK, CallbackOrder, SeqInit
  <1> QED BY <1>1, <1>2, <1>3, <1>4 DEF IndInv

\* The two places where run_callbacks is called: both report the sequence right
\* behind the last popped one, and every sequence before it was reported to its
\* end.  This is where the callbacks stay in order.
LEMMA ReportNext ==
  ASSUME IndInv, popped < MaxSeq, RunCallbacks(popped + 1)
  PROVE  /\ processed_state' \in [Ids -> ReqSeqState]
         /\ processed_state'[popped + 1] = state[popped + 1]
         /\ \A i \in Ids : i # popped + 1 => processed_state'[i] = processed_state[i]
         /\ \A i, j \in Ids : i < j /\ processed_state'[j] # SeqInit
                                => processed_state'[i] \in Final
  <1> USE DEF IndInv, IFaceTypeOK, Ids
  <1>1. popped + 1 \in Ids
    BY MaxSeqAssumption
  <1>2. /\ processed_state' \in [Ids -> ReqSeqState]
        /\ processed_state'[popped + 1] = state[popped + 1]
        /\ \A i \in Ids : i # popped + 1 => processed_state'[i] = processed_state[i]
    BY <1>1 DEF RunCallbacks
  <1>3. ASSUME NEW i \in Ids, NEW j \in Ids, i < j, processed_state'[j] # SeqInit
        PROVE  processed_state'[i] \in Final
    <2>1. CASE i <= popped
      BY <2>1, <1>2 DEF ReportOK, StateOK, QueueOK
    <2>2. CASE i = popped + 1
      <3>1. processed_state[j] # SeqInit
        BY <2>2, <1>2, <1>3
      <3>2. processed_state[i] \in Final
        BY <3>1, <1>3 DEF CallbackOrder
      <3>3. state[i] = processed_state[i]
        BY <3>2 DEF ReportOK, Final, SeqCancel, SeqInit, SeqEnd, ReqSeqState
      <3> QED BY <2>2, <1>2, <3>2, <3>3
    <2>3. CASE i > popped + 1
      BY <2>3, <1>2, <1>3 DEF CallbackOrder
    <2> QED BY <2>1, <2>2, <2>3
  <1> QED BY <1>2, <1>3

\* Both reports keep the invariant's view of what was reported.
LEMMA PopSeqInd == IndInv /\ PopSeq => IndInv'
  <1> SUFFICES ASSUME IndInv, PopSeq PROVE IndInv'
    OBVIOUS
  <1> USE DEF IndInv
  <1>1. popped < MaxSeq /\ RunCallbacks(popped + 1) /\ popped + 1 \in Ids
    BY MaxSeqAssumption DEF PopSeq, QueueOK, IFaceTypeOK, Ids
  <1>2. /\ processed_state' \in [Ids -> ReqSeqState]
        /\ processed_state'[popped + 1] = state[popped + 1]
        /\ \A i \in Ids : i # popped + 1 => processed_state'[i] = processed_state[i]
        /\ CallbackOrder'
    BY <1>1, ReportNext DEF CallbackOrder
  <1>3. IFaceTypeOK'
    BY <1>1, <1>2 DEF PopSeq, IFaceTypeOK, Ids
  <1>4. QueueOK'
    BY DEF PopSeq, QueueOK, IFaceTypeOK
  <1>5. StateOK'
    BY DEF PopSeq, StateOK
  <1>6. ReportOK'
    <2> SUFFICES ASSUME NEW i \in Ids
                 PROVE  /\ \/ processed_state'[i] = SeqInit
                           \/ processed_state'[i] = SeqCancel /\ state[i] = SeqCancel
                           \/ processed_state'[i] > 0 /\ processed_state'[i] <= state[i]
                        /\ i <= popped + 1 => processed_state'[i] = state[i]
      BY DEF PopSeq, ReportOK
    <2>1. CASE i = popped + 1
      BY <2>1, <1>2 DEF IFaceTypeOK, ReqSeqState, SeqCancel, SeqInit, SeqEnd
    <2>2. CASE i # popped + 1
      BY <2>2, <1>2 DEF ReportOK, IFaceTypeOK, Ids
    <2> QED BY <2>1, <2>2
  <1>7. CurOK'
    BY DEF PopSeq, CurOK, QueueOK, IFaceTypeOK
  <1> QED BY <1>2, <1>3, <1>4, <1>5, <1>6, <1>7

\* run_callbacks(curseq) at the end of run_frontend keeps the invariant.
LEMMA CurCallbacksInd == IndInv /\ CurCallbacks => IndInv'
  <1> SUFFICES ASSUME IndInv, CurCallbacks PROVE IndInv'
    OBVIOUS
  <1> USE DEF IndInv
  <1>1. CASE curseq = 0
    BY <1>1 DEF CurCallbacks, IFaceTypeOK, FrontendPC, QueueOK, StateOK, ReportOK,
                CurOK, CallbackOrder
  <1>2. CASE curseq # 0
    <2>1. curseq = popped + 1 /\ popped < MaxSeq /\ popped + 1 \in Ids
      BY <1>2 DEF CurCallbacks, CurOK, IFaceTypeOK, Ids
    <2>2. /\ processed_state' \in [Ids -> ReqSeqState]
          /\ processed_state'[popped + 1] = state[popped + 1]
          /\ \A i \in Ids : i # popped + 1 => processed_state'[i] = processed_state[i]
          /\ CallbackOrder'
      BY <1>2, <2>1, ReportNext DEF CurCallbacks, CallbackOrder
    <2>3. IFaceTypeOK'
      BY <2>2 DEF CurCallbacks, IFaceTypeOK, FrontendPC
    <2>4. QueueOK' /\ StateOK' /\ CurOK'
      BY DEF CurCallbacks, QueueOK, StateOK, CurOK
    <2>5. ReportOK'
      <3> SUFFICES ASSUME NEW i \in Ids
                   PROVE  /\ \/ processed_state'[i] = SeqInit
                             \/ processed_state'[i] = SeqCancel /\ state[i] = SeqCancel
                             \/ processed_state'[i] > 0 /\ processed_state'[i] <= state[i]
                          /\ i <= popped => processed_state'[i] = state[i]
        BY DEF CurCallbacks, ReportOK
      <3>1. CASE i = popped + 1
        BY <3>1, <2>2 DEF IFaceTypeOK, ReqSeqState, SeqCancel, SeqInit, SeqEnd
      <3>2. CASE i # popped + 1
        BY <3>2, <2>2 DEF ReportOK, IFaceTypeOK, Ids
      <3> QED BY <3>1, <3>2
    <2> QED BY <2>2, <2>3, <2>4, <2>5
  <1> QED BY <1>1, <1>2

\* The rest of the frontend reports nothing.
LEMMA FrontendInd ==
  IndInv /\ (RunCode \/ (\E id \in 0 .. MaxSeq : CancelSeq(id)) \/ NoCall
             \/ ReadEvent \/ PeekCurSeq \/ PopDone \/ Quit \/ Join) => IndInv'
  <1> SUFFICES ASSUME IndInv,
                      RunCode \/ (\E id \in 0 .. MaxSeq : CancelSeq(id)) \/ NoCall
                        \/ ReadEvent \/ PeekCurSeq \/ PopDone \/ Quit \/ Join
               PROVE  IndInv'
    OBVIOUS
  <1> USE DEF IndInv
  <1>1. UNCHANGED <<filtered, popped, state, processed_state, wpc>>
    BY DEF RunCode, CancelSeq, NoCall, ReadEvent, PeekCurSeq, PopDone, Quit, Join
  <1>2. IFaceTypeOK'
    <2>1. event' \in BOOLEAN /\ m_quit' \in BOOLEAN
      BY DEF RunCode, CancelSeq, NoCall, ReadEvent, PeekCurSeq, PopDone, Quit, Join,
             IFaceTypeOK
    <2>2. cancel' \in [Ids -> BOOLEAN]
      BY DEF RunCode, CancelSeq, NoCall, ReadEvent, PeekCurSeq, PopDone, Quit, Join,
             IFaceTypeOK
    <2>3. m_seq_cnt' \in 0 .. MaxSeq /\ curseq' \in 0 .. MaxSeq
      BY DEF RunCode, CancelSeq, NoCall, ReadEvent, PeekCurSeq, PopDone, Quit, Join,
             IFaceTypeOK, GetFilter
    <2>4. fpc' \in FrontendPC
      BY DEF RunCode, CancelSeq, NoCall, ReadEvent, PeekCurSeq, PopDone, Quit, Join,
             FrontendPC
    <2> QED BY <1>1, <2>1, <2>2, <2>3, <2>4 DEF IFaceTypeOK
  <1>3. m_seq_cnt <= m_seq_cnt'
    BY DEF RunCode, CancelSeq, NoCall, ReadEvent, PeekCurSeq, PopDone, Quit, Join,
           IFaceTypeOK
  <1>4. QueueOK'
    BY <1>1, <1>2, <1>3 DEF QueueOK, IFaceTypeOK
  <1>5. \A i \in Ids : cancel[i] => cancel'[i]
    BY DEF RunCode, CancelSeq, NoCall, ReadEvent, PeekCurSeq, PopDone, Quit, Join,
           IFaceTypeOK
  <1>6. StateOK'
    BY <1>1, <1>5 DEF StateOK
  <1>7. ReportOK' /\ CallbackOrder'
    BY <1>1 DEF ReportOK, CallbackOrder
  <1>8. CurOK'
    BY <1>1, <1>2 DEF RunCode, CancelSeq, NoCall, ReadEvent, PeekCurSeq, PopDone,
                      Quit, Join, CurOK, QueueOK, GetFilter, IFaceTypeOK
  <1> QED BY <1>2, <1>4, <1>6, <1>7, <1>8

\* Each step of the worker stores the state its position stands for, and only in
\* the sequence behind the last forwarded one, which was not popped.
LEMMA WorkerInd == IndInv /\ Worker => IndInv'
  <1> SUFFICES ASSUME IndInv, Worker PROVE IndInv'
    OBVIOUS
  <1> USE DEF IndInv
  <1>1. UNCHANGED <<m_seq_cnt, popped, cancel, processed_state, fpc, curseq>>
    BY DEF Worker, WorkerWake, TakeNone, TakeCancelled, TakeSeq, StoreStart,
           StoreFlushed, StoreEnd, SignalStart, SignalFlushed, SignalEnd,
           ForwardSeq, SignalFinish, Store, Signal
  <1>2. CASE ForwardSeq
    <2>1. filtered < m_seq_cnt /\ filtered' = filtered + 1 /\ state' = state
      BY <1>2 DEF ForwardSeq, QueueOK, Busy
    <2>2. IFaceTypeOK' /\ QueueOK'
      BY <1>1, <1>2, <2>1 DEF ForwardSeq, IFaceTypeOK, WorkerPC, QueueOK, Busy
    <2>3. StateOK'
      BY <1>1, <1>2, <2>1 DEF ForwardSeq, StateOK, IFaceTypeOK, Ids
    <2>4. ReportOK' /\ CallbackOrder'
      BY <1>1, <2>1 DEF ReportOK, CallbackOrder
    <2>5. CurOK'
      BY <1>1, <2>1 DEF CurOK, IFaceTypeOK
    <2> QED BY <2>2, <2>3, <2>4, <2>5
  <1>3. ASSUME NEW s \in ReqSeqState, filtered < m_seq_cnt, filtered' = filtered,
               state' = [state EXCEPT ![filtered + 1] = s],
               state[filtered + 1] # SeqCancel,
               s = SeqCancel => state[filtered + 1] = SeqInit
                                /\ cancel[filtered + 1],
               state[filtered + 1] <= s \/ s = SeqCancel,
               event' = event, m_quit' = m_quit,
               \/ wpc' = "startEv" /\ s = SeqStart
               \/ wpc' = "flushEv" /\ s = SeqFlushed
               \/ wpc' = "endEv" /\ s = SeqEnd
               \/ wpc' = "finish" /\ s = SeqCancel
        PROVE  IndInv'
    <2>1. filtered + 1 \in Ids
      BY <1>3 DEF IFaceTypeOK, Ids
    <2>2. IFaceTypeOK' /\ QueueOK'
      BY <1>1, <1>3, <2>1 DEF IFaceTypeOK, WorkerPC, QueueOK, Busy
    <2>3. StateOK'
      BY <1>1, <1>3, <2>1 DEF StateOK, IFaceTypeOK, Ids, Final, SeqCancel, SeqEnd,
                              SeqInit, SeqStart, SeqFlushed
    <2>4. ReportOK'
      <3> SUFFICES ASSUME NEW i \in Ids
                   PROVE  /\ \/ processed_state[i] = SeqInit
                             \/ processed_state[i] = SeqCancel /\ state'[i] = SeqCancel
                             \/ processed_state[i] > 0 /\ processed_state[i] <= state'[i]
                          /\ i <= popped => processed_state[i] = state'[i]
        BY <1>1 DEF ReportOK
      <3>1. CASE i = filtered + 1
        <4>1. ~ (i <= popped) /\ state'[i] = s /\ state[i] # SeqCancel
          BY <1>3, <3>1, <2>1 DEF QueueOK, IFaceTypeOK
        <4>2. \/ processed_state[i] = SeqInit
              \/ processed_state[i] > 0 /\ processed_state[i] <= state[i]
          BY <4>1 DEF ReportOK
        <4> QED BY <1>3, <3>1, <4>1, <4>2 DEF IFaceTypeOK, SeqCancel, SeqInit,
                                              ReqSeqState, SeqEnd
      <3>2. CASE i # filtered + 1
        BY <1>3, <3>2 DEF ReportOK, IFaceTypeOK
      <3> QED BY <3>1, <3>2
    <2>6. CallbackOrder'
      BY <1>1 DEF CallbackOrder
    <2>5. CurOK'
      BY <1>1, <1>3 DEF CurOK
    <2> QED BY <2>2, <2>3, <2>4, <2>5, <2>6
  <1>4. CASE TakeCancelled
    <2>1. filtered < m_seq_cnt /\ GetFilter = filtered + 1
      BY <1>4 DEF TakeCancelled, GetFilter
    <2>2. filtered + 1 \in Ids /\ state[filtered + 1] = SeqInit
      BY <1>4, <2>1 DEF TakeCancelled, StateOK, IFaceTypeOK, Ids
    <2> QED BY <1>3, <1>4, <2>1, <2>2
            DEF TakeCancelled, ReqSeqState, SeqCancel, SeqInit, SeqEnd
  <1>5. CASE StoreStart \/ StoreFlushed \/ StoreEnd
    <2>1. filtered < m_seq_cnt
      BY <1>5 DEF StoreStart, StoreFlushed, StoreEnd, Store, QueueOK, Busy
    <2>2. filtered + 1 \in Ids
      BY <2>1 DEF IFaceTypeOK, Ids
    <2> QED BY <1>3, <1>5, <2>1, <2>2
            DEF StoreStart, StoreFlushed, StoreEnd, Store, StateOK, ReqSeqState,
                SeqCancel, SeqInit, SeqStart, SeqFlushed, SeqEnd
  <1>6. CASE WorkerWake \/ TakeNone \/ TakeSeq \/ SignalStart \/ SignalFlushed
             \/ SignalEnd \/ SignalFinish
    <2>1. UNCHANGED <<filtered, state>>
      BY <1>6 DEF WorkerWake, TakeNone, TakeSeq, SignalStart, SignalFlushed,
                  SignalEnd, SignalFinish, Signal
    <2>2. IFaceTypeOK'
      BY <1>1, <1>6, <2>1 DEF WorkerWake, TakeNone, TakeSeq, SignalStart,
            SignalFlushed, SignalEnd, SignalFinish, Signal, IFaceTypeOK, WorkerPC
    <2>3. QueueOK'
      BY <1>1, <1>6, <2>1 DEF WorkerWake, TakeNone, TakeSeq, SignalStart,
            SignalFlushed, SignalEnd, SignalFinish, Signal, QueueOK, Busy, GetFilter
    <2>4. StateOK'
      BY <1>1, <1>6, <2>1 DEF WorkerWake, TakeNone, TakeSeq, SignalStart,
            SignalFlushed, SignalEnd, SignalFinish, Signal, StateOK, Final
    <2>5. ReportOK' /\ CallbackOrder' /\ CurOK'
      BY <1>1, <2>1 DEF ReportOK, CallbackOrder, CurOK
    <2> QED BY <2>2, <2>3, <2>4, <2>5
  <1> QED BY <1>2, <1>4, <1>5, <1>6 DEF Worker

\* The invariant of the two threads.
THEOREM IFaceInvariant == IFaceSpec => []IndInv
  <1>1. IFaceInit => IndInv
    BY InitIndInv
  <1>2. IndInv /\ [IFaceNext]_ifaceVars => IndInv'
    <2> SUFFICES ASSUME IndInv, [IFaceNext]_ifaceVars PROVE IndInv'
      OBVIOUS
    <2>1. CASE UNCHANGED ifaceVars
      BY <2>1 DEF ifaceVars, IndInv, IFaceTypeOK, QueueOK, StateOK, ReportOK, CurOK,
                  CallbackOrder
    <2>2. CASE IFaceNext
      BY <2>1, <2>2, PopSeqInd, CurCallbacksInd, FrontendInd, WorkerInd
      DEF IFaceNext, RunFrontend, Exited
    <2> QED BY <2>1, <2>2
  <1> QED BY <1>1, <1>2, PTL DEF IFaceSpec

\* The typing of both threads' state.
THEOREM IFaceTypeCorrect == IFaceSpec => []IFaceTypeOK
  <1>1. IndInv => IFaceTypeOK
    BY DEF IndInv
  <1> QED BY <1>1, IFaceInvariant, PTL

\* The callbacks come in order without leaving a gap, however many sequences are
\* queued and wherever the worker is when the frontend looks (run_frontend).
THEOREM CallbacksInOrder == IFaceSpec => []CallbackOrder
  <1>1. IndInv => CallbackOrder
    BY DEF IndInv
  <1> QED BY <1>1, IFaceInvariant, PTL

\* run_frontend never dereferences a sequence it has freed.
THEOREM CurSeqNeverDangles == IFaceSpec => []CurSeqAlive
  <1>1. IndInv => CurSeqAlive
    BY DEF IndInv, CurOK, CurSeqAlive, Queued, IFaceTypeOK
  <1> QED BY <1>1, IFaceInvariant, PTL

\* Nothing is reported that did not happen.
THEOREM ReportsAreTruthful == IFaceSpec => []ReportsTruthful
  <1>1. IndInv => ReportsTruthful
    BY DEF IndInv, ReportOK, StateOK, QueueOK, ReportsTruthful, IFaceTypeOK, Ids,
           ReqSeqState, SeqCancel, SeqInit, SeqEnd
  <1> QED BY <1>1, IFaceInvariant, PTL

-----------------------------------------------------------------------------
(***************************************************************************)
(* The event: a change is announced, or the pass under way will see it.    *)
(* NoMissedEvent needs to know besides that what was forwarded after the   *)
(* pop loop ended will still be announced.                                 *)
(***************************************************************************)
LateForward == fpc = "cur" /\ popped < filtered => event \/ wpc = "finishEv"

EventInv == NoMissedEvent /\ LateForward

\* An unhandled change beyond the forwarded sequences is one of the worker's own.
LEMMA UnhandledIsNext ==
  ASSUME IndInv, NEW i \in Ids, Unhandled(i), i > filtered
  PROVE  i = GetFilter /\ state[i] # processed_state[i]
  <1>1. state[i] # processed_state[i]
    BY DEF Unhandled, IndInv, IFaceTypeOK, Ids
  <1>2. state[i] # SeqInit
    BY <1>1 DEF IndInv, ReportOK, IFaceTypeOK, SeqInit, SeqCancel, ReqSeqState, SeqEnd
  <1> QED BY <1>1, <1>2 DEF IndInv, StateOK, Unhandled, Queued, GetFilter,
                            IFaceTypeOK, Ids

\* No step loses the event for a change that was not reported: run_frontend reads the
\* event first, and the worker writes it after every store.
LEMMA EventStep == IndInv /\ IndInv' /\ EventInv /\ IFaceNext => EventInv'
  <1> SUFFICES ASSUME IndInv, IndInv', EventInv, IFaceNext PROVE EventInv'
    OBVIOUS
  <1> DEFINE Soon == event \/ m_quit \/
               wpc \in {"startEv", "flushEv", "endEv", "finish", "finishEv"}
  <1> USE DEF EventInv
  <1>1. CASE Worker
    <2>1. UNCHANGED <<m_seq_cnt, popped, processed_state, fpc, curseq, m_quit>>
      BY <1>1 DEF Worker, WorkerWake, TakeNone, TakeCancelled, TakeSeq, StoreStart,
             StoreFlushed, StoreEnd, SignalStart, SignalFlushed, SignalEnd,
             ForwardSeq, SignalFinish, Store, Signal
    <2>2. \/ Soon'
          \/ wpc \in {"wait", "take"} /\ UNCHANGED <<filtered, state, event>>
      BY <1>1 DEF Worker, WorkerWake, TakeNone, TakeCancelled, TakeSeq, StoreStart,
             StoreFlushed, StoreEnd, SignalStart, SignalFlushed, SignalEnd,
             ForwardSeq, SignalFinish, Store, Signal
    <2>3. NoMissedEvent'
      BY <2>1, <2>2 DEF NoMissedEvent, Unhandled, Queued, WillBeSeen
    <2>4. LateForward'
      BY <1>1, <2>1 DEF LateForward, Worker, WorkerWake, TakeNone, TakeCancelled,
             TakeSeq, StoreStart, StoreFlushed, StoreEnd, SignalStart, SignalFlushed,
             SignalEnd, ForwardSeq, SignalFinish, Store, Signal
    <2> QED BY <2>3, <2>4
  <1>2. CASE RunCode
    <2>1. NoMissedEvent'
      <3> SUFFICES ASSUME NEW i \in Ids, Unhandled(i)'
                   PROVE  Soon
        BY <1>2 DEF RunCode, NoMissedEvent
      <3>1. i # m_seq_cnt + 1
        <4> SUFFICES ASSUME i = m_seq_cnt + 1 PROVE FALSE
          OBVIOUS
        <4>1. i > filtered
          BY DEF IndInv, QueueOK, IFaceTypeOK
        <4>2. state[i] = SeqInit
          <5>1. CASE i > filtered + 1
            BY <5>1 DEF IndInv, StateOK
          <5>2. CASE i = filtered + 1
            BY <5>2 DEF IndInv, StateOK, QueueOK, IFaceTypeOK, Busy, WorkerPC
          <5> QED BY <4>1, <5>1, <5>2 DEF IndInv, IFaceTypeOK, Ids
        <4>3. processed_state[i] = SeqInit
          BY <4>2 DEF IndInv, ReportOK, IFaceTypeOK, SeqInit, SeqCancel, ReqSeqState,
                      SeqEnd
        <4> QED BY <1>2, <4>1, <4>2, <4>3
                DEF RunCode, Unhandled, IndInv, IFaceTypeOK, Ids
      <3>2. Unhandled(i)
        BY <1>2, <3>1 DEF RunCode, Unhandled, Queued, IndInv, IFaceTypeOK, Ids
      <3> QED BY <1>2, <3>2 DEF RunCode, NoMissedEvent, WillBeSeen
    <2>2. LateForward'
      BY <1>2 DEF RunCode, LateForward
    <2> QED BY <2>1, <2>2
  <1>3. CASE (\E id \in 0 .. MaxSeq : CancelSeq(id)) \/ NoCall \/ Join \/ Exited
    BY <1>3 DEF CancelSeq, NoCall, Join, Exited, ifaceVars, NoMissedEvent, Unhandled,
                WillBeSeen, Queued, LateForward
  <1>4. CASE ReadEvent \/ Quit
    BY <1>4 DEF ReadEvent, Quit, NoMissedEvent, WillBeSeen, LateForward
  <1>5. CASE PeekCurSeq
    <2>1. NoMissedEvent'
      <3> SUFFICES ASSUME NEW i \in Ids, Unhandled(i)
                   PROVE  i <= filtered \/ i = GetFilter
        BY <1>5 DEF PeekCurSeq, NoMissedEvent, Unhandled, Queued, WillBeSeen
      <3> QED BY UnhandledIsNext DEF IndInv, IFaceTypeOK, Ids
    <2>2. LateForward'
      BY <1>5 DEF PeekCurSeq, LateForward
    <2> QED BY <2>1, <2>2
  <1>6. CASE PopSeq
    <2>1. NoMissedEvent'
      <3> SUFFICES ASSUME NEW i \in Ids, Unhandled(i)'
                   PROVE  Soon \/ WillBeSeen(i)'
        BY <1>6 DEF PopSeq, NoMissedEvent
      <3>1. i # popped + 1
        BY <1>6 DEF PopSeq, Unhandled, Queued, IndInv, IFaceTypeOK, Ids
      <3>2. Unhandled(i)
        BY <1>6, <3>1 DEF PopSeq, RunCallbacks, Unhandled, Queued, IndInv,
                          IFaceTypeOK, Ids
      <3> QED BY <1>6, <3>1, <3>2 DEF PopSeq, NoMissedEvent, WillBeSeen
    <2>2. LateForward'
      BY <1>6 DEF PopSeq, LateForward
    <2> QED BY <2>1, <2>2
  <1>7. CASE PopDone
    <2>1. NoMissedEvent'
      BY <1>7 DEF PopDone, NoMissedEvent, Unhandled, WillBeSeen, Queued, IndInv,
                  IFaceTypeOK, Ids
    <2>2. LateForward'
      BY <1>7 DEF PopDone, LateForward, IndInv, IFaceTypeOK
    <2> QED BY <2>1, <2>2
  <1>8. CASE CurCallbacks
    <2>1. NoMissedEvent'
      <3> SUFFICES ASSUME NEW i \in Ids, Unhandled(i)' PROVE Soon
        BY <1>8 DEF CurCallbacks, NoMissedEvent
      <3>1. CASE i <= filtered
        BY <1>8, <3>1 DEF CurCallbacks, LateForward, Unhandled, Queued, IndInv,
                          IFaceTypeOK, Ids
      <3>2. CASE ~ (i <= filtered)
        <4>1. state[i] # processed_state'[i]
          BY <1>8, <3>2 DEF CurCallbacks, Unhandled
        <4>2. i # curseq
          BY <1>8, <4>1 DEF CurCallbacks, RunCallbacks, IndInv, IFaceTypeOK, Ids
        <4>3. Unhandled(i)
          BY <1>8, <4>1, <4>2 DEF CurCallbacks, RunCallbacks, Unhandled, Queued,
                                  IndInv, IFaceTypeOK, Ids
        <4> QED BY <1>8, <4>2, <4>3 DEF CurCallbacks, NoMissedEvent, WillBeSeen
      <3> QED BY <3>1, <3>2
    <2>2. LateForward'
      BY <1>8 DEF CurCallbacks, LateForward
    <2> QED BY <2>1, <2>2
  <1> QED BY <1>1, <1>2, <1>3, <1>4, <1>5, <1>6, <1>7, <1>8
          DEF IFaceNext, RunFrontend

\* The frontend cannot sleep through a change: reading the event first and the
\* queue afterwards loses no wake-up, for any number of sequences.
THEOREM NoEventIsMissed == IFaceSpec => []NoMissedEvent
  <1>1. IFaceInit => EventInv
    BY DEF IFaceInit, EventInv, NoMissedEvent, Unhandled, LateForward, Queued, Ids
  <1>2. IndInv /\ IndInv' /\ EventInv /\ [IFaceNext]_ifaceVars => EventInv'
    <2>1. EventInv /\ UNCHANGED ifaceVars => EventInv'
      BY DEF ifaceVars, EventInv, NoMissedEvent, Unhandled, WillBeSeen, Queued,
             LateForward
    <2> QED BY <2>1, EventStep
  <1>3. EventInv => NoMissedEvent
    BY DEF EventInv
  <1> QED BY <1>1, <1>2, <1>3, IFaceInvariant, PTL DEF IFaceSpec

-----------------------------------------------------------------------------
(* Cancellation *)

\* Sequence i was cancelled in time: the worker has not taken it yet, or has given it up.
Doomed(i) ==
  /\ cancel[i]
  /\ i <= filtered => state[i] = SeqCancel
  /\ i = filtered + 1 => \/ wpc \in {"wait", "take", "finishEv", "exit"}
                         \/ wpc = "finish" /\ state[i] = SeqCancel

\* Once it is, it stays so, whatever the two threads do.
LEMMA DoomedStep ==
  ASSUME NEW i \in Ids, IndInv, Doomed(i), [IFaceNext]_ifaceVars PROVE Doomed(i)'
  <1>1. /\ filtered \in Int /\ i \in Int /\ m_seq_cnt \in Int
        /\ cancel \in [Ids -> BOOLEAN] /\ state \in [Ids -> ReqSeqState]
    BY DEF IndInv, IFaceTypeOK, Ids
  <1>2. ASSUME cancel'[i], UNCHANGED <<filtered, state, wpc>> PROVE Doomed(i)'
    BY <1>2 DEF Doomed
  <1>3. CASE Worker
    <2>1. cancel' = cancel
      BY <1>3 DEF Worker, WorkerWake, TakeNone, TakeCancelled, TakeSeq, StoreStart,
             StoreFlushed, StoreEnd, SignalStart, SignalFlushed, SignalEnd,
             ForwardSeq, SignalFinish, Store, Signal
    <2>2. CASE WorkerWake \/ TakeNone \/ SignalFinish
      BY <2>1, <2>2 DEF WorkerWake, TakeNone, SignalFinish, Signal, Doomed
    <2>3. CASE TakeCancelled
      <3>1. /\ wpc' = "finish" /\ filtered' = filtered
            /\ state' = [state EXCEPT ![filtered + 1] = SeqCancel]
        BY <2>3 DEF TakeCancelled, GetFilter
      <3> QED BY <1>1, <2>1, <3>1 DEF Doomed
    <2>4. CASE TakeSeq
      <3>1. ~ cancel[filtered + 1] /\ UNCHANGED <<filtered, state>>
        BY <2>4 DEF TakeSeq, GetFilter
      <3>2. i # filtered + 1
        BY <3>1 DEF Doomed
      <3> QED BY <2>1, <3>1, <3>2 DEF Doomed
    <2>5. CASE StoreStart \/ StoreFlushed \/ StoreEnd
      <3>1. /\ wpc \in {"prep", "body", "drain"} /\ filtered' = filtered
            /\ \E v : state' = [state EXCEPT ![filtered + 1] = v]
        BY <2>5 DEF StoreStart, StoreFlushed, StoreEnd, Store
      <3>2. i # filtered + 1
        BY <3>1 DEF Doomed
      <3>3. state'[i] = state[i]
        BY <1>1, <3>1, <3>2
      <3> QED BY <2>1, <3>1, <3>2, <3>3 DEF Doomed
    <2>6. CASE SignalStart \/ SignalFlushed \/ SignalEnd
      <3>1. wpc \in {"startEv", "flushEv", "endEv"} /\ UNCHANGED <<filtered, state>>
        BY <2>6 DEF SignalStart, SignalFlushed, SignalEnd, Signal
      <3>2. i # filtered + 1
        BY <3>1 DEF Doomed
      <3> QED BY <2>1, <3>1, <3>2 DEF Doomed
    <2>7. CASE ForwardSeq
      <3>1. wpc = "finish" /\ wpc' = "finishEv" /\ filtered' = filtered + 1 /\ state' = state
        BY <2>7 DEF ForwardSeq
      <3>2. i <= filtered' => i <= filtered \/ i = filtered + 1
        BY <1>1, <3>1
      <3> QED BY <2>1, <3>1, <3>2 DEF Doomed
    <2> QED BY <1>3, <2>2, <2>3, <2>4, <2>5, <2>6, <2>7 DEF Worker
  <1>4. ASSUME NEW id \in 0 .. MaxSeq, CancelSeq(id) PROVE Doomed(i)'
    BY <1>2, <1>4 DEF CancelSeq, Doomed
  <1>5. CASE RunCode \/ NoCall \/ RunFrontend \/ Quit \/ Join \/ Exited \/ UNCHANGED ifaceVars
    <2>1. UNCHANGED <<cancel, filtered, state, wpc>>
      BY <1>5 DEF RunCode, NoCall, RunFrontend, Quit, Join, Exited, ifaceVars, ReadEvent,
             PeekCurSeq, PopSeq, PopDone, CurCallbacks
    <2> QED BY <1>2, <2>1 DEF Doomed
  <1> QED BY <1>3, <1>4, <1>5 DEF IFaceNext

\* cancel_seq takes effect on every sequence behind the one the worker is at: such a
\* sequence never starts, whatever else is scheduled or cancelled.
THEOREM CancelIsHonoured == IFaceSpec => CancelHonoured
  <1> SUFFICES ASSUME NEW i \in Ids
               PROVE  IFaceSpec =>
                        [](cancel[i] /\ filtered + 1 < i => [](state[i] \in {SeqInit, SeqCancel}))
    BY DEF CancelHonoured
  <1>1. IndInv /\ cancel[i] /\ filtered + 1 < i => Doomed(i)
    BY DEF IndInv, IFaceTypeOK, Doomed, Ids
  <1>2. IndInv /\ Doomed(i) /\ [IFaceNext]_ifaceVars => Doomed(i)'
    BY DoomedStep
  <1>3. IndInv /\ Doomed(i) => state[i] \in {SeqInit, SeqCancel}
    <2> SUFFICES ASSUME IndInv, Doomed(i) PROVE state[i] \in {SeqInit, SeqCancel}
      OBVIOUS
    <2>1. i <= filtered \/ i = filtered + 1 \/ i > filtered + 1
      BY DEF IndInv, IFaceTypeOK, Ids
    <2> QED BY <2>1 DEF IndInv, StateOK, Doomed
  <1> QED BY <1>1, <1>2, <1>3, IFaceInvariant, PTL DEF IFaceSpec

-----------------------------------------------------------------------------
(* The refinement of SeqOrder *)

\* A report is a Tell of the contract, or says nothing new.
LEMMA ReportIsTell ==
  ASSUME IndInv, popped < m_seq_cnt, RunCallbacks(popped + 1),
         m_seq_cnt' = m_seq_cnt
  PROVE  [Order!Next]_(Order!vars)
  <1> USE DEF IndInv, IFaceTypeOK, Ids, ReqSeqState, SeqCancel, SeqEnd
  <1> DEFINE i == popped + 1
  <1>1. i \in Ids /\ state[i] \in ReqSeqState
    OBVIOUS
  <1>2. CASE state[i] = processed_state[i]
    BY <1>1, <1>2 DEF RunCallbacks, Order!vars
  <1>3. CASE state[i] # processed_state[i]
    <2>1. \A j \in 1 .. i - 1 : processed_state[j] \in {-1, 3}
      BY DEF ReportOK, StateOK, QueueOK, Final
    <2>2. processed_state[i] \notin {-1, 3}
      BY <1>1, <1>3 DEF ReportOK, SeqInit
    <2>3. IF state[i] = -1 THEN processed_state[i] = 0 ELSE state[i] > processed_state[i]
      BY <1>1, <1>3, <2>2 DEF ReportOK, SeqInit
    <2>4. state[i] \in -1 .. 3 /\ i <= m_seq_cnt
      BY <1>1
    <2>5. Order!Tell(i, state[i])
      BY <2>1, <2>2, <2>3, <2>4 DEF Order!Tell, Order!Over, Order!Cancelled, Order!Done,
             Order!Nothing, RunCallbacks
    <2> QED BY <1>1, <2>4, <2>5
            DEF Order!Next, Order!Ids, Order!Cancelled, Order!Done
  <1> QED BY <1>2, <1>3

\* Every behaviour of the two threads is, seen through the last reported states,
\* a behaviour of the callback contract.
THEOREM IFaceImplementsOrder == IFaceSpec => ImplementsOrder
  <1>1. IFaceInit => Order!Init
    BY DEF IFaceInit, Order!Init, Order!Ids, Ids, SeqInit, Order!Nothing
  <1>2. IndInv /\ [IFaceNext]_ifaceVars => [Order!Next]_(Order!vars)
    <2> SUFFICES ASSUME IndInv, [IFaceNext]_ifaceVars PROVE [Order!Next]_(Order!vars)
      OBVIOUS
    <2>1. CASE RunCode
      BY <2>1 DEF RunCode, Order!Next, Order!Accept
    <2>2. CASE PopSeq
      BY <2>2, ReportIsTell DEF PopSeq, IndInv, QueueOK, IFaceTypeOK
    <2>3. CASE CurCallbacks
      <3>1. CASE curseq = 0
        BY <2>3, <3>1 DEF CurCallbacks, Order!vars
      <3>2. CASE curseq # 0
        BY <2>3, <3>2, ReportIsTell DEF CurCallbacks, IndInv, CurOK, IFaceTypeOK
      <3> QED BY <3>1, <3>2
    <2>4. CASE (\E id \in 0 .. MaxSeq : CancelSeq(id)) \/ NoCall \/ ReadEvent
               \/ PeekCurSeq \/ PopDone \/ Quit \/ Join \/ Exited \/ Worker
               \/ UNCHANGED ifaceVars
      BY <2>4 DEF CancelSeq, NoCall, ReadEvent, PeekCurSeq, PopDone, Quit, Join,
             Exited, ifaceVars, Worker, WorkerWake, TakeNone, TakeCancelled, TakeSeq,
             StoreStart, StoreFlushed, StoreEnd, SignalStart, SignalFlushed,
             SignalEnd, ForwardSeq, SignalFinish, Store, Signal, Order!vars
    <2> QED BY <2>1, <2>2, <2>3, <2>4 DEF IFaceNext, RunFrontend
  <1> QED BY <1>1, <1>2, IFaceInvariant, PTL
          DEF IFaceSpec, ImplementsOrder, Order!Spec

-----------------------------------------------------------------------------
(* The server *)

\* Every behaviour of the server is a behaviour of the interface.
THEOREM ServerImplementsIFace == Spec => IFaceSpec
  <1>1. Init => IFaceInit
    BY DEF Init
  <1>2. [Next]_vars => [IFaceNext]_ifaceVars
    <2> SUFFICES ASSUME [Next]_vars PROVE [IFaceNext]_ifaceVars
      OBVIOUS
    <2>1. CASE Frontend
      BY <2>1 DEF Frontend, NoStartup, StartupDone, Run, Shutdown, Poll, FrontendPeek,
             FrontendPop, FrontendPopDone, FrontendCur, NoRequest, IFaceNext,
             RunFrontend
    <2>2. CASE StartupSeq \/ Request
      BY <2>2 DEF StartupSeq, Request, RunSeq, CancelRequest, WaitSeq, IFaceNext
    <2>3. CASE Stop \/ (Worker /\ UNCHANGED serverVars)
               \/ (Exited /\ UNCHANGED serverVars) \/ UNCHANGED vars
      BY <2>3 DEF Stop, IFaceNext, Exited, vars
    <2> QED BY <2>1, <2>2, <2>3 DEF Next
  <1> QED BY <1>1, <1>2, PTL DEF Spec, IFaceSpec

\* The interface's invariant holds in the server.
LEMMA ServerIndInv == Spec => []IndInv
  BY ServerImplementsIFace, IFaceInvariant, PTL

-----------------------------------------------------------------------------
(* The status vector *)

\* The start-up sequence is sequence 1 and there is none before it.
StartupInv ==
  /\ has_startup \in BOOLEAN
  /\ phase = "ctor" => m_seq_cnt = 0 /\ ~ has_startup
  /\ has_startup => m_seq_cnt >= 1

StatusInv == StartupInv /\ StatusTracksSeq

\* A sequence that was not scheduled was not reported.
LEMMA FreshSeq ==
  ASSUME IndInv, NEW i \in Ids, i > m_seq_cnt
  PROVE  processed_state[i] = SeqInit
  <1> USE DEF IndInv, IFaceTypeOK, Ids
  <1>1. state[i] = SeqInit
    BY DEF StateOK, QueueOK, Busy, WorkerPC
  <1> QED BY <1>1 DEF ReportOK, SeqInit, SeqCancel, ReqSeqState

\* The steps that neither schedule nor report.
LEMMA QuietStep ==
  ASSUME [Next]_vars
  PROVE  \/ StartupSeq \/ RunSeq \/ FrontendPop \/ FrontendCur
         \/ /\ UNCHANGED <<has_startup, m_seq_cnt, processed_state, m_seq_status, flushed>>
            /\ phase' = phase \/ phase' # "ctor"
  <1>1. CASE Frontend
    BY <1>1 DEF Frontend, NoStartup, StartupDone, Run, Shutdown, Poll, FrontendPeek,
           FrontendPopDone, NoRequest, NoCall, Quit, ReadEvent, PeekCurSeq, PopDone,
           Join, ifaceVars, serverVars, statusVars
  <1>2. CASE StartupSeq \/ Request
    BY <1>2 DEF Request, CancelRequest, WaitSeq, CancelSeq, NoCall, serverVars, ctlVars,
           statusVars
  <1>3. CASE Worker /\ UNCHANGED serverVars
    BY <1>3 DEF Worker, WorkerWake, TakeNone, TakeCancelled, TakeSeq, StoreStart,
           StoreFlushed, StoreEnd, SignalStart, SignalFlushed, SignalEnd,
           ForwardSeq, SignalFinish, Store, Signal, serverVars
  <1>4. CASE Stop \/ (Exited /\ UNCHANGED serverVars) \/ UNCHANGED vars
    BY <1>4 DEF Stop, Exited, vars, ifaceVars, serverVars, statusVars
  <1> QED BY <1>1, <1>2, <1>3, <1>4 DEF Next

\* One run_callbacks, seen by the status vector: the entry goes exactly when the
\* last state is reported, the flag is set exactly when "flushed" is.
LEMMA StatusNotify ==
  ASSUME IndInv, StatusInv, NEW id \in Ids, id <= m_seq_cnt, ~ (has_startup /\ id = 1),
         RunCallbacks(id),
         UNCHANGED <<m_seq_cnt, has_startup>>,
         flushed' = IF CallsFlushed(id) THEN flushed \cup {id} ELSE flushed,
         \/ m_seq_status' = m_seq_status \ {id} /\ state[id] \in Final
         \/ m_seq_status' = m_seq_status /\ ~ CallsEnd(id) /\ ~ CallsCancel(id)
  PROVE  StatusTracksSeq'
  <1> USE DEF IndInv, IFaceTypeOK, StatusInv, StartupInv
  <1>1. /\ id \in OwnedByClient /\ OwnedByClient' = OwnedByClient
        /\ OwnedByClient \subseteq Ids
    BY DEF OwnedByClient, Ids
  <1>2. /\ processed_state'[id] = state[id]
        /\ \A i \in Ids : i # id => processed_state'[i] = processed_state[i]
    BY DEF RunCallbacks
  <1>3. state[id] \in ReqSeqState /\ processed_state[id] \in ReqSeqState
    OBVIOUS
  <1>4. \/ processed_state[id] = SeqInit
        \/ processed_state[id] = SeqCancel /\ state[id] = SeqCancel
        \/ processed_state[id] > 0 /\ processed_state[id] <= state[id]
    BY DEF ReportOK
  <1>5. m_seq_status' = {i \in OwnedByClient' : processed_state'[i] \notin Final}
    <2>1. CASE m_seq_status' = m_seq_status \ {id} /\ state[id] \in Final
      BY <1>1, <1>2, <2>1 DEF StatusTracksSeq
    <2>2. CASE m_seq_status' = m_seq_status /\ ~ CallsEnd(id) /\ ~ CallsCancel(id)
      <3>1. state[id] \in Final <=> processed_state[id] \in Final
        BY <1>3, <1>4, <2>2 DEF CallsEnd, CallsCancel, Final, ReqSeqState, SeqCancel, SeqInit,
                                SeqEnd
      <3> QED BY <1>1, <1>2, <2>2, <3>1 DEF StatusTracksSeq
    <2> QED BY <2>1, <2>2
  <1>6. flushed' = {i \in OwnedByClient' : processed_state'[i] >= SeqFlushed}
    <2>1. CASE CallsFlushed(id)
      BY <1>1, <1>2, <2>1 DEF StatusTracksSeq, CallsFlushed
    <2>2. CASE ~ CallsFlushed(id)
      <3>1. state[id] >= SeqFlushed <=> processed_state[id] >= SeqFlushed
        BY <1>3, <1>4, <2>2 DEF CallsFlushed, ReqSeqState, SeqCancel, SeqInit, SeqFlushed, SeqEnd
      <3> QED BY <1>1, <1>2, <2>2, <3>1 DEF StatusTracksSeq
    <2> QED BY <2>1, <2>2
  <1> QED BY <1>5, <1>6 DEF StatusTracksSeq

\* Where the frontend reports: popped + 1, a scheduled sequence.
LEMMA WhereReported ==
  ASSUME IndInv
  PROVE  /\ FrontendPop => popped + 1 \in Ids /\ popped + 1 <= m_seq_cnt
                           /\ state[popped + 1] \in Final
         /\ FrontendCur /\ curseq # 0 => curseq = popped + 1 /\ curseq \in Ids
                                         /\ curseq <= m_seq_cnt
  <1> USE DEF IndInv, IFaceTypeOK, Ids
  <1>1. ASSUME FrontendPop
        PROVE  popped + 1 \in Ids /\ popped + 1 <= m_seq_cnt /\ state[popped + 1] \in Final
    BY <1>1 DEF FrontendPop, PopSeq, QueueOK, StateOK
  <1>2. ASSUME FrontendCur, curseq # 0
        PROVE  curseq = popped + 1 /\ curseq \in Ids /\ curseq <= m_seq_cnt
    BY <1>2 DEF FrontendCur, CurCallbacks, CurOK
  <1> QED BY <1>1, <1>2

\* The start-up sequence is not in the vector.
LEMMA StatusStartup ==
  ASSUME IndInv, StatusInv, has_startup, RunCallbacks(1),
         UNCHANGED <<m_seq_cnt, has_startup, m_seq_status, flushed>>
  PROVE  StatusTracksSeq'
  <1> USE DEF IndInv, IFaceTypeOK, StatusInv, StartupInv
  <1>1. OwnedByClient' = OwnedByClient /\ OwnedByClient \subseteq Ids
    BY DEF OwnedByClient, Ids
  <1>2. \A i \in OwnedByClient : processed_state'[i] = processed_state[i]
    BY <1>1 DEF RunCallbacks, OwnedByClient
  <1> QED BY <1>1, <1>2 DEF StatusTracksSeq

\* Every step of the server, of the worker and of the signal thread keeps m_seq_status
\* in line with the callbacks.
LEMMA StatusStep == IndInv /\ StatusInv /\ [Next]_vars => StatusInv'
  <1> SUFFICES ASSUME IndInv, StatusInv, [Next]_vars PROVE StatusInv'
    OBVIOUS
  <1> USE DEF StatusInv
  <1>1. CASE StartupSeq
    <2>1. m_seq_cnt = 0 /\ ~ has_startup /\ m_seq_cnt' = 1 /\ has_startup' = TRUE
          /\ phase' = "startup" /\ UNCHANGED <<m_seq_status, flushed>>
      BY <1>1 DEF StartupSeq, RunCode, StartupInv, statusVars
    <2>2. OwnedByClient = {} /\ OwnedByClient' = {}
      BY <2>1 DEF OwnedByClient
    <2> QED BY <2>1, <2>2 DEF StatusTracksSeq, StartupInv
  <1>2. CASE RunSeq
    <2>1. /\ m_seq_cnt' = m_seq_cnt + 1 /\ m_seq_cnt < MaxSeq
          /\ m_seq_status' = m_seq_status \cup {m_seq_cnt + 1}
          /\ UNCHANGED <<has_startup, phase, processed_state, flushed>> /\ phase = "run"
      BY <1>2 DEF RunSeq, RunCode, ctlVars
    <2>2. m_seq_cnt \in Nat /\ m_seq_cnt + 1 \in Ids
      BY <2>1 DEF IndInv, IFaceTypeOK, Ids
    <2>3. processed_state[m_seq_cnt + 1] = SeqInit
      BY <2>2, FreshSeq
    <2>4. OwnedByClient' = OwnedByClient \cup {m_seq_cnt + 1}
      BY <2>1, <2>2 DEF OwnedByClient, StartupInv
    <2>5. StatusTracksSeq'
      BY <2>1, <2>3, <2>4 DEF StatusTracksSeq, Final, SeqInit, SeqCancel, SeqEnd, SeqFlushed
    <2>6. StartupInv'
      BY <2>1, <2>2 DEF StartupInv
    <2> QED BY <2>5, <2>6
  <1>3. CASE FrontendPop
    <2>1. /\ popped + 1 \in Ids /\ popped + 1 <= m_seq_cnt /\ state[popped + 1] \in Final
          /\ RunCallbacks(popped + 1) /\ Notify(popped + 1, TRUE)
          /\ UNCHANGED <<m_seq_cnt, has_startup, phase>>
      BY <1>3, WhereReported DEF FrontendPop, PopSeq, ctlVars
    <2>2. StatusTracksSeq'
      <3>1. CASE has_startup /\ popped + 1 = 1
        BY <2>1, <3>1, StatusStartup DEF Notify, statusVars
      <3>2. CASE ~ (has_startup /\ popped + 1 = 1)
        BY <2>1, <3>2, StatusNotify DEF Notify
      <3> QED BY <3>1, <3>2
    <2> QED BY <2>1, <2>2 DEF StartupInv
  <1>4. CASE FrontendCur /\ curseq # 0
    <2>1. /\ curseq \in Ids /\ curseq <= m_seq_cnt
          /\ RunCallbacks(curseq) /\ Notify(curseq, FALSE)
          /\ UNCHANGED <<m_seq_cnt, has_startup, phase>>
      BY <1>4, WhereReported DEF FrontendCur, CurCallbacks, ctlVars
    <2>2. StatusTracksSeq'
      <3>1. CASE has_startup /\ curseq = 1
        BY <2>1, <3>1, StatusStartup DEF Notify, statusVars
      <3>2. CASE ~ (has_startup /\ curseq = 1)
        <4>1. CallsEnd(curseq) \/ CallsCancel(curseq) => state[curseq] \in Final
          BY <2>1 DEF CallsEnd, CallsCancel, Final, SeqEnd, SeqCancel, IndInv, IFaceTypeOK,
                      ReqSeqState
        <4> QED BY <2>1, <3>2, <4>1, StatusNotify DEF Notify
      <3> QED BY <3>1, <3>2
    <2> QED BY <2>1, <2>2 DEF StartupInv
  <1>5. CASE \/ FrontendCur /\ curseq = 0
             \/ /\ UNCHANGED <<has_startup, m_seq_cnt, processed_state, m_seq_status, flushed>>
                /\ phase' = phase \/ phase' # "ctor"
    <2>1. /\ UNCHANGED <<has_startup, m_seq_cnt, processed_state, m_seq_status, flushed>>
          /\ phase' = phase \/ phase' # "ctor"
      BY <1>5 DEF FrontendCur, CurCallbacks, statusVars, ctlVars
    <2> QED BY <2>1 DEF StartupInv, StatusTracksSeq, OwnedByClient
  <1> QED BY <1>1, <1>2, <1>3, <1>4, <1>5, QuietStep

\* The constructor starts with an empty m_seq_status and no sequence.
LEMMA InitStatusInv == Init => StatusInv
  <1> SUFFICES ASSUME Init PROVE StatusInv
    OBVIOUS
  <1>1. StartupInv /\ m_seq_status = {} /\ flushed = {}
    BY DEF Init, IFaceInit, StartupInv
  <1>2. OwnedByClient = {}
    BY DEF Init, IFaceInit, OwnedByClient
  <1> QED BY <1>1, <1>2 DEF StatusInv, StatusTracksSeq

\* m_seq_status has an entry for exactly the client sequences whose last callback
\* is still to come, in every state of the server.
THEOREM StatusFollowsCallbacks == Spec => []StatusTracksSeq
  <1>1. Init => StatusInv
    BY InitStatusInv
  <1>2. IndInv /\ StatusInv /\ [Next]_vars => StatusInv'
    BY StatusStep
  <1>3. StatusInv => StatusTracksSeq
    BY DEF StatusInv
  <1> QED BY <1>1, <1>2, <1>3, ServerIndInv, PTL DEF Spec

-----------------------------------------------------------------------------
(* The replies *)

ReqTypeOK ==
  /\ wid \in [Reqs -> Unasked .. MaxSeq]
  /\ what \in [Reqs -> {0, 1}]
  /\ waiting \subseteq Reqs
  /\ nreply \in [Reqs -> 0 .. MaxReply]
  /\ reply \in [Reqs -> {0, 1}]

ReplyInv == ReqTypeOK /\ OneReply

\* The requests one run_callbacks(id) answers: in flushed(), and in finalize().
EarlyWaits(id) == IF CallsFlushed(id) THEN FlushWaits(id) ELSE {}
LateWaits(id) ==
  IF id \in m_seq_status THEN FinalizeWaits(id, id \in flushed \/ CallsFlushed(id)) ELSE {}

Bumped(r, early, late) ==
  LET b == (IF r \in early THEN 1 ELSE 0) + (IF r \in late THEN 1 ELSE 0)
  IN  IF nreply[r] + b > MaxReply THEN MaxReply ELSE nreply[r] + b

\* What Notify does to the flag and the requests, with and without finalize().
Notified(id) ==
  /\ flushed' = IF CallsFlushed(id) THEN flushed \cup {id} ELSE flushed
  /\ \/ /\ m_seq_status' = m_seq_status \ {id}
        /\ waiting' = waiting \ WaitsOf(id)
        /\ nreply' = [r \in Reqs |-> Bumped(r, EarlyWaits(id), LateWaits(id))]
     \/ /\ m_seq_status' = m_seq_status /\ waiting' = waiting
        /\ nreply' = [r \in Reqs |-> Bumped(r, EarlyWaits(id), {})]
  /\ reply' \in [Reqs -> {0, 1}]
  /\ UNCHANGED <<wid, what>>

\* The request a sequence's waits contain is answered when it should be: exactly
\* the pending ones are in one of the two sets, and never in both.
LEMMA EarlyOrLate ==
  ASSUME IndInv, StatusInv, ReplyInv, NEW id \in Ids, NEW r \in Reqs,
         flushed' = IF CallsFlushed(id) THEN flushed \cup {id} ELSE flushed
  PROVE  /\ r \in EarlyWaits(id) \/ r \in LateWaits(id) =>
              /\ r \in waiting /\ wid[r] = id /\ Pending(r)
              /\ nreply[r] = 0
         /\ ~ (r \in EarlyWaits(id) /\ r \in LateWaits(id))
         /\ r \in waiting /\ wid[r] = id /\ Pending(r) =>
              r \in EarlyWaits(id) \/ r \in LateWaits(id)
         /\ r \in EarlyWaits(id) <=> r \in waiting /\ wid[r] = id /\ what[r] = 0
                                     /\ CallsFlushed(id)
  <1> USE DEF ReplyInv, EarlyWaits, LateWaits
  <1>1. CallsFlushed(id) => id \notin flushed
    BY DEF StatusInv, StatusTracksSeq, CallsFlushed, SeqFlushed, IndInv, IFaceTypeOK,
           ReqSeqState, SeqCancel, SeqEnd
  <1>2. r \in waiting => wid[r] \in m_seq_status
    BY DEF OneReply
  <1>3. r \in EarlyWaits(id) <=> r \in waiting /\ wid[r] = id /\ what[r] = 0
                                 /\ CallsFlushed(id)
    BY DEF FlushWaits, WaitsOf
  <1>4. r \in LateWaits(id) <=>
          /\ r \in waiting /\ wid[r] = id
          /\ ~ (what[r] = 0 /\ (id \in flushed \/ CallsFlushed(id)))
    BY <1>2 DEF FinalizeWaits, WaitsOf
  <1>5. Pending(r) => nreply[r] = 0
    BY DEF OneReply
  <1> HIDE DEF EarlyWaits, LateWaits
  <1> QED BY <1>1, <1>3, <1>4, <1>5 DEF Pending

\* One run_callbacks, seen by the requests: those that were pending and asked for
\* what was just notified are answered once, and then are pending no more.
LEMMA ReplyNotify ==
  ASSUME IndInv, StatusInv, ReplyInv, NEW id \in Ids, Notified(id)
  PROVE  ReplyInv'
  <1> USE DEF ReplyInv, Notified
  <1>1. ASSUME NEW r \in Reqs
        PROVE  /\ nreply'[r] = IF wid[r] = Unasked \/ Pending(r)' THEN 0 ELSE 1
               /\ r \in waiting' => wid[r] \in m_seq_status'
               /\ nreply'[r] \in 0 .. MaxReply
    <2>1. /\ nreply[r] = IF wid[r] = Unasked \/ Pending(r) THEN 0 ELSE 1
          /\ r \in waiting => wid[r] \in m_seq_status
      BY DEF OneReply
    <2>2. wid[r] = Unasked => r \notin waiting
      BY <2>1 DEF StatusInv, StatusTracksSeq, OwnedByClient, Unasked, IndInv, IFaceTypeOK
    <2>3. CASE /\ m_seq_status' = m_seq_status \ {id}
               /\ waiting' = waiting \ WaitsOf(id)
               /\ nreply' = [q \in Reqs |-> Bumped(q, EarlyWaits(id), LateWaits(id))]
      <3>1. Pending(r)' <=> Pending(r) /\ r \notin EarlyWaits(id) /\ r \notin LateWaits(id)
        BY <2>3, EarlyOrLate DEF Pending, WaitsOf
      <3>2. CASE r \in EarlyWaits(id)
        BY <2>1, <2>2, <2>3, <3>1, <3>2, EarlyOrLate DEF Bumped, MaxReply, WaitsOf
      <3>3. CASE r \in LateWaits(id)
        BY <2>1, <2>2, <2>3, <3>1, <3>3, EarlyOrLate DEF Bumped, MaxReply, WaitsOf
      <3>4. CASE r \notin EarlyWaits(id) /\ r \notin LateWaits(id)
        BY <2>1, <2>3, <3>1, <3>4 DEF Bumped, MaxReply, WaitsOf
      <3> QED BY <3>2, <3>3, <3>4
    <2>4. CASE /\ m_seq_status' = m_seq_status /\ waiting' = waiting
               /\ nreply' = [q \in Reqs |-> Bumped(q, EarlyWaits(id), {})]
      <3>1. Pending(r)' <=> Pending(r) /\ r \notin EarlyWaits(id)
        BY <2>4, EarlyOrLate DEF Pending
      <3>2. CASE r \in EarlyWaits(id)
        <4>1. r \in waiting /\ nreply[r] = 0
          BY <3>2, EarlyOrLate
        <4>2. nreply'[r] = 1
          BY <2>4, <3>2, <4>1 DEF Bumped, MaxReply
        <4> QED BY <2>1, <2>2, <2>4, <3>1, <3>2, <4>1, <4>2 DEF MaxReply
      <3>3. CASE r \notin EarlyWaits(id)
        BY <2>1, <2>4, <3>1, <3>3 DEF Bumped, MaxReply
      <3> QED BY <3>2, <3>3
    <2> QED BY <2>3, <2>4
  <1>2. waiting' \subseteq Reqs
    BY DEF ReqTypeOK
  <1>3. nreply' \in [Reqs -> 0 .. MaxReply]
    <2>1. nreply' = [r \in Reqs |-> nreply'[r]]
      OBVIOUS
    <2> QED BY <1>1, <2>1
  <1>4. ReqTypeOK'
    BY <1>2, <1>3 DEF ReqTypeOK
  <1>5. OneReply'
    BY <1>1 DEF OneReply
  <1> QED BY <1>4, <1>5

\* A pop of a client's sequence runs its callbacks, and finalize in the destructor.
LEMMA PopNotified ==
  ASSUME FrontendPop, ~ (has_startup /\ popped + 1 = 1), ReplyInv
  PROVE  Notified(popped + 1)
  BY DEF FrontendPop, Notify, Notified, Bumped, EarlyWaits, LateWaits, ReplyInv, ReqTypeOK

\* The callbacks of the current sequence, without the destructor.
LEMMA CurNotified ==
  ASSUME FrontendCur, curseq # 0, ~ (has_startup /\ curseq = 1), ReplyInv
  PROVE  Notified(curseq)
  <1>1. Notify(curseq, FALSE)
    BY DEF FrontendCur
  <1>2. CASE CallsEnd(curseq) \/ CallsCancel(curseq)
    BY <1>1, <1>2 DEF Notify, Notified, Bumped, EarlyWaits, LateWaits, ReplyInv, ReqTypeOK
  <1>3. CASE ~ (CallsEnd(curseq) \/ CallsCancel(curseq))
    BY <1>1, <1>3 DEF Notify, Notified, Bumped, EarlyWaits, LateWaits, ReplyInv, ReqTypeOK
  <1> QED BY <1>2, <1>3

\* Every step keeps the count of replies right.
LEMMA ReplyStep == IndInv /\ StatusInv /\ ReplyInv /\ [Next]_vars => ReplyInv'
  <1> SUFFICES ASSUME IndInv, StatusInv, ReplyInv, [Next]_vars PROVE ReplyInv'
    OBVIOUS
  <1>1. ASSUME UNCHANGED <<flushed, reqVars>>, m_seq_status \subseteq m_seq_status'
        PROVE  ReplyInv'
    BY <1>1 DEF ReplyInv, reqVars, ReqTypeOK, OneReply, Pending
  <1>2. CASE FrontendPop
    <2>1. CASE has_startup /\ popped + 1 = 1
      BY <1>1, <1>2, <2>1 DEF FrontendPop, Notify, statusVars
    <2>2. CASE ~ (has_startup /\ popped + 1 = 1)
      BY <1>2, <2>2, WhereReported, PopNotified, ReplyNotify
    <2> QED BY <2>1, <2>2
  <1>3. CASE FrontendCur
    <2>1. CASE curseq = 0 \/ (has_startup /\ curseq = 1)
      BY <1>1, <1>3, <2>1 DEF FrontendCur, Notify, statusVars
    <2>2. CASE curseq # 0 /\ ~ (has_startup /\ curseq = 1)
      BY <1>3, <2>2, WhereReported, CurNotified, ReplyNotify
    <2> QED BY <2>1, <2>2
  <1>4. ASSUME NEW r \in Reqs, NEW id \in 0 .. MaxSeq, NEW w \in {0, 1}, WaitSeq(r, id, w)
        PROVE  ReplyInv'
    <2>1. /\ wid[r] = Unasked /\ r \notin waiting /\ nreply[r] = 0
          /\ wid' = [wid EXCEPT ![r] = id] /\ what' = [what EXCEPT ![r] = w]
          /\ UNCHANGED <<m_seq_status, flushed>>
      BY <1>4 DEF WaitSeq, ReplyInv, OneReply, StatusInv, StatusTracksSeq, OwnedByClient,
                  Unasked, IndInv, IFaceTypeOK, statusVars
    <2>2. ASSUME NEW q \in Reqs, q # r
          PROVE  wid'[q] = wid[q] /\ what'[q] = what[q]
      BY <2>1, <2>2 DEF ReplyInv, ReqTypeOK
    <2>3. wid'[r] = id /\ what'[r] = w /\ id # Unasked
      BY <2>1 DEF ReplyInv, ReqTypeOK, Unasked
    <2>4. CASE /\ waiting' = waiting \cup {r} /\ UNCHANGED <<nreply, reply>>
               /\ id \in m_seq_status /\ ~ (w = 0 /\ id \in flushed)
      <3>1. ReqTypeOK'
        BY <2>1, <2>4 DEF ReplyInv, ReqTypeOK, Unasked
      <3>2. OneReply'
        BY <2>1, <2>2, <2>3, <2>4 DEF ReplyInv, OneReply, Pending
      <3> QED BY <3>1, <3>2 DEF ReplyInv
    <2>5. CASE \/ SendReply({r}, 0) /\ UNCHANGED waiting
               \/ SendReply({r}, 1) /\ UNCHANGED waiting
      <3>1. /\ nreply' = [nreply EXCEPT ![r] = 1] /\ waiting' = waiting
            /\ reply' \in [Reqs -> {0, 1}]
        BY <2>1, <2>5 DEF SendReply, ReplyInv, ReqTypeOK, MaxReply
      <3>2. ReqTypeOK'
        BY <2>1, <3>1 DEF ReplyInv, ReqTypeOK, Unasked, MaxReply
      <3>3. OneReply'
        BY <2>1, <2>2, <2>3, <3>1 DEF ReplyInv, ReqTypeOK, OneReply, Pending
      <3> QED BY <3>2, <3>3 DEF ReplyInv
    <2> QED BY <1>4, <2>4, <2>5 DEF WaitSeq
  <1>5. CASE StartupSeq \/ RunSeq \/ Stop \/ UNCHANGED vars
    BY <1>1, <1>5 DEF StartupSeq, RunSeq, Stop, statusVars, vars, serverVars, reqVars
  <1>6. CASE Frontend /\ ~ FrontendPop /\ ~ FrontendCur
    BY <1>1, <1>6 DEF Frontend, NoStartup, StartupDone, Run, Shutdown, Poll, FrontendPeek,
           FrontendPopDone, NoRequest, serverVars, statusVars, reqVars
  <1>7. CASE UNCHANGED serverVars
    BY <1>1, <1>7 DEF serverVars, reqVars
  <1> QED BY <1>2, <1>3, <1>4, <1>5, <1>6, <1>7 DEF Next, Request, CancelRequest

\* At first no request was sent and none was answered.
LEMMA InitReplyInv == Init => ReplyInv
  BY DEF Init, ReplyInv, ReqTypeOK, OneReply, Unasked, MaxReply

\* A wait_seq request is answered exactly once, or is still waiting for something
\* that was not notified, however many requests and sequences there are.
THEOREM EachWaitAnsweredOnce == Spec => []OneReply
  <1>1. Init => StatusInv
    BY InitStatusInv
  <1>2. Init => ReplyInv
    BY InitReplyInv
  <1>3. IndInv /\ StatusInv /\ [Next]_vars => StatusInv'
    BY StatusStep
  <1>4. IndInv /\ StatusInv /\ ReplyInv /\ [Next]_vars => ReplyInv'
    BY ReplyStep
  <1>5. ReplyInv => OneReply
    BY DEF ReplyInv
  <1> QED BY <1>1, <1>2, <1>3, <1>4, <1>5, ServerIndInv, PTL DEF Spec

-----------------------------------------------------------------------------
(* What the replies say *)

\* RepliesTruthful, as the formula of one step.
TruthfulStep ==
  \A r \in Reqs : nreply'[r] # nreply[r] /\ wid'[r] \in 1 .. m_seq_cnt =>
    IF reply'[r] = 0
    THEN \/ Reached(wid'[r], what'[r])
         \/ state[wid'[r]] = SeqCancel /\ r \notin waiting
    ELSE state[wid'[r]] = SeqCancel

\* What one run_callbacks(id) answers: 0 to the waits for "flushed", and to the
\* others 0 for an end and 1 for a cancellation.  The Notify of a sequence that is
\* freed has reported its last state before: the destructor's 1 is never sent.
LEMMA TruthfulNotify ==
  ASSUME IndInv, StatusInv, ReplyInv, NEW id \in Ids,
         UNCHANGED <<wid, what>>,
         \/ /\ state[id] \in Final
            /\ nreply' = [r \in Reqs |-> Bumped(r, EarlyWaits(id), LateWaits(id))]
            /\ reply' = [r \in Reqs |-> IF r \in LateWaits(id)
                           THEN (IF ~ CallsEnd(id) THEN 1 ELSE 0)
                           ELSE IF r \in EarlyWaits(id) THEN 0 ELSE reply[r]]
         \/ /\ nreply' = [r \in Reqs |-> Bumped(r, EarlyWaits(id), {})]
            /\ reply' = [r \in Reqs |-> IF r \in EarlyWaits(id) THEN 0 ELSE reply[r]]
  PROVE  TruthfulStep
  <1> SUFFICES ASSUME NEW r \in Reqs, nreply'[r] # nreply[r]
               PROVE  IF reply'[r] = 0 THEN Reached(wid[r], what[r])
                                       ELSE state[wid[r]] = SeqCancel
    BY DEF TruthfulStep
  <1> USE DEF ReplyInv
  <1>1. nreply[r] \in {0, 1}
    BY DEF OneReply
  <1>2. r \in EarlyWaits(id) => wid[r] = id /\ what[r] = 0 /\ state[id] >= SeqFlushed
    BY DEF EarlyWaits, FlushWaits, WaitsOf, CallsFlushed
  <1>3. r \in LateWaits(id) =>
          /\ wid[r] = id /\ id \in m_seq_status
          /\ r \notin EarlyWaits(id)
          /\ what[r] = 0 => id \notin flushed /\ ~ CallsFlushed(id)
    BY DEF LateWaits, FinalizeWaits, WaitsOf, EarlyWaits, FlushWaits
  <1>4. CASE r \in LateWaits(id) /\ state[id] \in Final
             /\ reply' = [q \in Reqs |-> IF q \in LateWaits(id)
                           THEN (IF ~ CallsEnd(id) THEN 1 ELSE 0)
                           ELSE IF q \in EarlyWaits(id) THEN 0 ELSE reply[q]]
    <2>1. processed_state[id] \notin Final /\ processed_state[id] \in ReqSeqState
      BY <1>3, <1>4 DEF StatusInv, StatusTracksSeq, IndInv, IFaceTypeOK
    <2>2. CASE state[id] = SeqEnd
      <3>1. CallsEnd(id)
        BY <2>1, <2>2 DEF CallsEnd, Final, ReqSeqState, SeqEnd, SeqCancel
      <3>2. what[r] = 1
        <4>1. what[r] = 0 => processed_state[id] < SeqFlushed
          BY <1>3, <1>4 DEF StatusInv, StatusTracksSeq, IndInv, IFaceTypeOK, ReqSeqState,
                            SeqFlushed, SeqCancel, SeqEnd
        <4>2. what[r] = 0 => CallsFlushed(id)
          BY <2>2, <4>1 DEF CallsFlushed, SeqEnd, SeqFlushed
        <4> QED BY <1>3, <1>4, <4>2 DEF ReqTypeOK
      <3> QED BY <1>3, <1>4, <2>2, <3>1, <3>2 DEF Reached
    <2>3. CASE state[id] = SeqCancel
      BY <1>3, <1>4, <2>3 DEF CallsEnd, SeqCancel, SeqEnd
    <2> QED BY <1>4, <2>2, <2>3 DEF Final
  <1>5. CASE r \in EarlyWaits(id)
    BY <1>2, <1>3, <1>5 DEF Reached
  <1>6. r \in LateWaits(id) \/ r \in EarlyWaits(id)
    BY <1>1 DEF Bumped, MaxReply
  <1>7. r \in LateWaits(id) /\ r \notin EarlyWaits(id) =>
          nreply' # [q \in Reqs |-> Bumped(q, EarlyWaits(id), {})]
    BY <1>1 DEF Bumped, MaxReply
  <1> QED BY <1>4, <1>5, <1>6, <1>7

\* The server frees sequences in PopSeq only, and never takes one back.
LEMMA PositionsGrow ==
  IndInv /\ [Next]_vars => popped' >= popped /\ popped' \in Nat
  <1> SUFFICES ASSUME IndInv, [Next]_vars
               PROVE  popped' >= popped /\ popped' \in Nat
    OBVIOUS
  <1>1. popped' = popped \/ popped' = popped + 1
    <2>1. CASE Frontend
      BY <2>1 DEF Frontend, NoStartup, StartupDone, Run, Shutdown, Poll, FrontendPeek,
             FrontendPop, FrontendPopDone, FrontendCur, NoRequest, NoCall, Quit,
             ReadEvent, PeekCurSeq, PopSeq, PopDone, CurCallbacks, Join, ifaceVars
    <2>2. CASE StartupSeq \/ Request
      BY <2>2 DEF StartupSeq, Request, RunSeq, CancelRequest, WaitSeq, RunCode, CancelSeq,
             NoCall
    <2>3. CASE Worker
      BY <2>3 DEF Worker, WorkerWake, TakeNone, TakeCancelled, TakeSeq, StoreStart,
             StoreFlushed, StoreEnd, SignalStart, SignalFlushed, SignalEnd,
             ForwardSeq, SignalFinish, Store, Signal
    <2>4. CASE Stop \/ Exited \/ UNCHANGED vars
      BY <2>4 DEF Stop, Exited, vars, ifaceVars
    <2> QED BY <2>1, <2>2, <2>3, <2>4 DEF Next
  <1> QED BY <1>1 DEF IndInv, IFaceTypeOK

\* run_startup only returns once its sequence was freed.
StartedInv == has_startup /\ phase \in {"ready", "run"} => popped >= 1

\* Every step keeps the start-up sequence freed once run_startup has returned.
LEMMA StartedStep == IndInv /\ StatusInv /\ StartedInv /\ [Next]_vars => StartedInv'
  <1> SUFFICES ASSUME IndInv, StatusInv, StartedInv, [Next]_vars,
                      has_startup', phase' \in {"ready", "run"}
               PROVE  popped' >= 1
    BY DEF StartedInv
  <1>1. popped' >= popped /\ popped' \in Nat /\ popped \in Nat
    BY PositionsGrow DEF IndInv, IFaceTypeOK
  <1>2. has_startup /\ (phase \in {"ready", "run"} \/ popped >= 1)
    <2>1. CASE Frontend
      BY <2>1 DEF Frontend, NoStartup, StartupDone, Run, Shutdown, Poll, FrontendPeek,
             FrontendPop, FrontendPopDone, FrontendCur, NoRequest, Join, ctlVars,
             serverVars, StatusInv, StartupInv
    <2>2. CASE StartupSeq \/ Request
      BY <2>2 DEF StartupSeq, Request, RunSeq, CancelRequest, WaitSeq, ctlVars, serverVars
    <2>3. CASE Stop \/ UNCHANGED vars \/ UNCHANGED serverVars
      BY <2>3 DEF Stop, vars, serverVars
    <2> QED BY <2>1, <2>2, <2>3 DEF Next
  <1> QED BY <1>1, <1>2 DEF StartedInv

\* wait_seq never takes an id that was handed out for an invalid one, and its
\* immediate 0 is due.
LEMMA TruthfulWait ==
  ASSUME IndInv, StatusInv, ReplyInv, StartedInv,
         NEW r \in Reqs, NEW id \in 0 .. MaxSeq, NEW w \in {0, 1}, WaitSeq(r, id, w)
  PROVE  TruthfulStep
  <1> USE DEF IndInv, IFaceTypeOK
  <1>1. r \notin waiting /\ wid'[r] = id /\ what'[r] = w /\ phase = "run"
    BY DEF WaitSeq, ReplyInv, ReqTypeOK, OneReply, StatusInv, StatusTracksSeq,
           OwnedByClient, Unasked
  <1>2. ASSUME NEW q \in Reqs, q # r PROVE nreply'[q] = nreply[q]
    <2>1. SendReply({r}, 0) \/ SendReply({r}, 1) \/ UNCHANGED nreply
      BY DEF WaitSeq
    <2> QED BY <1>2, <2>1 DEF SendReply
  <1> SUFFICES ASSUME id \in 1 .. m_seq_cnt, nreply'[r] # nreply[r]
               PROVE  IF reply'[r] = 0
                      THEN Reached(id, w) \/ state[id] = SeqCancel
                      ELSE state[id] = SeqCancel
    <2>1. ASSUME NEW q \in Reqs, nreply'[q] # nreply[q], wid'[q] \in 1 .. m_seq_cnt
          PROVE  IF reply'[q] = 0
                 THEN \/ Reached(wid'[q], what'[q])
                      \/ state[wid'[q]] = SeqCancel /\ q \notin waiting
                 ELSE state[wid'[q]] = SeqCancel
      <3>1. q = r
        BY <1>2, <2>1
      <3> QED BY <1>1, <2>1, <3>1
    <2> QED BY <2>1 DEF TruthfulStep
  <1>3. id \in Ids /\ state[id] \in ReqSeqState /\ processed_state[id] \in ReqSeqState
    BY DEF Ids
  <1>4. \/ processed_state[id] = SeqInit
        \/ processed_state[id] = SeqCancel /\ state[id] = SeqCancel
        \/ processed_state[id] > 0 /\ processed_state[id] <= state[id]
    BY <1>3 DEF ReportOK
  <1>5. CASE SendReply({r}, 0) /\ \A i \in m_seq_status : i > id
    <2>1. reply'[r] = 0
      BY <1>5 DEF SendReply
    <2>2. state[id] \in Final
      <3>1. CASE id \in OwnedByClient
        BY <1>3, <1>4, <1>5, <3>1 DEF StatusInv, StatusTracksSeq, Final, ReqSeqState,
           SeqCancel, SeqEnd, SeqInit
      <3>2. CASE id \notin OwnedByClient
        BY <1>1, <1>3, <3>2 DEF OwnedByClient, StartedInv, StateOK, QueueOK
      <3> QED BY <3>1, <3>2
    <2> QED BY <2>1, <2>2 DEF Final, Reached, SeqEnd, SeqFlushed
  <1>6. CASE SendReply({r}, 0) /\ w = 0 /\ id \in flushed
    <2>1. reply'[r] = 0
      BY <1>6 DEF SendReply
    <2>2. state[id] >= SeqFlushed
      BY <1>3, <1>4, <1>6 DEF StatusInv, StatusTracksSeq, SeqFlushed, SeqInit, SeqCancel,
                              ReqSeqState, SeqEnd
    <2> QED BY <1>6, <2>1, <2>2 DEF Reached
  <1>7. CASE id \notin m_seq_status /\ ~ (\A i \in m_seq_status : i > id)
    <2>1. PICK i \in m_seq_status : ~ (i > id)
      BY <1>7
    <2>2. i \in OwnedByClient /\ i \in Ids /\ i < id /\ processed_state[i] \notin Final
      BY <1>3, <1>7, <2>1 DEF StatusInv, StatusTracksSeq, OwnedByClient, Ids
    <2>3. processed_state[id] = SeqInit
      BY <1>3, <2>2 DEF CallbackOrder
    <2>4. id \in OwnedByClient
      BY <2>2 DEF OwnedByClient, Ids
    <2>5. id \in m_seq_status
      BY <2>3, <2>4 DEF StatusInv, StatusTracksSeq, Final, SeqInit, SeqCancel, SeqEnd
    <2> QED BY <1>7, <2>5
  <1> QED BY <1>5, <1>6, <1>7 DEF WaitSeq

\* A reply made in any step is true of the state it is made in.
LEMMA TruthfulNext ==
  IndInv /\ StatusInv /\ ReplyInv /\ StartedInv /\ [Next]_vars => [TruthfulStep]_vars
  <1> SUFFICES ASSUME IndInv, StatusInv, ReplyInv, StartedInv, Next PROVE TruthfulStep
    OBVIOUS
  <1>1. ASSUME UNCHANGED nreply PROVE TruthfulStep
    BY <1>1 DEF TruthfulStep
  <1>2. CASE FrontendPop
    <2>1. CASE has_startup /\ popped + 1 = 1
      BY <1>1, <1>2, <2>1 DEF FrontendPop, Notify, reqVars
    <2>2. CASE ~ (has_startup /\ popped + 1 = 1)
      <3>1. popped + 1 \in Ids /\ state[popped + 1] \in Final
        BY <1>2, WhereReported
      <3>2. /\ nreply' = [r \in Reqs |-> Bumped(r, EarlyWaits(popped + 1), LateWaits(popped + 1))]
            /\ reply' = [r \in Reqs |-> IF r \in LateWaits(popped + 1)
                           THEN (IF ~ CallsEnd(popped + 1) THEN 1 ELSE 0)
                           ELSE IF r \in EarlyWaits(popped + 1) THEN 0 ELSE reply[r]]
            /\ UNCHANGED <<wid, what>>
        BY <1>2, <2>2 DEF FrontendPop, Notify, Bumped, EarlyWaits, LateWaits
      <3> QED BY <3>1, <3>2, TruthfulNotify
    <2> QED BY <2>1, <2>2
  <1>3. CASE FrontendCur
    <2>1. CASE curseq = 0 \/ (has_startup /\ curseq = 1)
      BY <1>1, <1>3, <2>1 DEF FrontendCur, Notify, reqVars
    <2>2. CASE curseq # 0 /\ ~ (has_startup /\ curseq = 1)
      <3>1. curseq \in Ids /\ Notify(curseq, FALSE)
        BY <1>3, <2>2, WhereReported DEF FrontendCur
      <3>2. CASE CallsEnd(curseq) \/ CallsCancel(curseq)
        <4>1. state[curseq] \in Final
          BY <3>1, <3>2 DEF CallsEnd, CallsCancel, Final, SeqEnd, SeqCancel, IndInv,
                            IFaceTypeOK, ReqSeqState
        <4>2. /\ nreply' = [r \in Reqs |-> Bumped(r, EarlyWaits(curseq), LateWaits(curseq))]
              /\ reply' = [r \in Reqs |-> IF r \in LateWaits(curseq)
                             THEN (IF ~ CallsEnd(curseq) THEN 1 ELSE 0)
                             ELSE IF r \in EarlyWaits(curseq) THEN 0 ELSE reply[r]]
              /\ UNCHANGED <<wid, what>>
          BY <2>2, <3>1, <3>2 DEF Notify, Bumped, EarlyWaits, LateWaits
        <4> QED BY <3>1, <4>1, <4>2, TruthfulNotify
      <3>3. CASE ~ (CallsEnd(curseq) \/ CallsCancel(curseq))
        <4>1. /\ nreply' = [r \in Reqs |-> Bumped(r, EarlyWaits(curseq), {})]
              /\ reply' = [r \in Reqs |-> IF r \in EarlyWaits(curseq) THEN 0 ELSE reply[r]]
              /\ UNCHANGED <<wid, what>>
          BY <2>2, <3>1, <3>3 DEF Notify, Bumped, EarlyWaits
        <4> QED BY <3>1, <4>1, TruthfulNotify
      <3> QED BY <3>2, <3>3
    <2> QED BY <2>1, <2>2
  <1>4. CASE StartupSeq \/ RunSeq \/ Stop \/ UNCHANGED serverVars
    BY <1>1, <1>4 DEF StartupSeq, RunSeq, Stop, reqVars, serverVars
  <1>5. CASE Frontend /\ ~ FrontendPop /\ ~ FrontendCur
    BY <1>1, <1>5 DEF Frontend, NoStartup, StartupDone, Run, Shutdown, Poll, FrontendPeek,
           FrontendPopDone, NoRequest, serverVars, reqVars
  <1> QED BY <1>2, <1>3, <1>4, <1>5, TruthfulWait DEF Next, Request, CancelRequest

\* Every reply to a wait_seq says what happened to the sequence.
THEOREM RepliesAreTruthful == Spec => RepliesTruthful
  <1>1. Init => StatusInv /\ ReplyInv /\ StartedInv
    BY InitStatusInv, InitReplyInv DEF Init, StartedInv
  <1>2. IndInv /\ StatusInv /\ ReplyInv /\ StartedInv /\ [Next]_vars
          => StatusInv' /\ ReplyInv' /\ StartedInv'
    BY StatusStep, ReplyStep, StartedStep
  <1>3. IndInv /\ StatusInv /\ ReplyInv /\ StartedInv /\ [Next]_vars => [TruthfulStep]_vars
    BY TruthfulNext
  <1> QED BY <1>1, <1>2, <1>3, ServerIndInv, PTL DEF Spec, RepliesTruthful, TruthfulStep

-----------------------------------------------------------------------------
(* Types *)

\* The phases of the constructor and of run().
PhaseOK == phase \in {"ctor", "startup", "ready", "run"} /\ m_running \in BOOLEAN

\* Type correctness of the server with its interface: also that m_seq_status and the
\* flags only name sequences that exist.
THEOREM ServerTypes == Spec => []ServerTypeOK
  <1>1. Init => StatusInv /\ ReplyInv /\ PhaseOK
    BY InitStatusInv, InitReplyInv DEF Init, PhaseOK
  <1>2. IndInv /\ StatusInv /\ ReplyInv /\ [Next]_vars => StatusInv' /\ ReplyInv'
    BY StatusStep, ReplyStep
  <1>3. PhaseOK /\ [Next]_vars => PhaseOK'
    BY DEF PhaseOK, Next, Frontend, Request, NoStartup, StartupDone, Run, Shutdown, Poll,
           FrontendPeek, FrontendPop, FrontendPopDone, FrontendCur, NoRequest, StartupSeq,
           RunSeq, CancelRequest, WaitSeq, Stop, serverVars, ctlVars, vars
  <1>4. IndInv /\ StatusInv /\ ReplyInv /\ PhaseOK => ServerTypeOK
    <2> SUFFICES ASSUME IndInv, StatusInv, ReplyInv, PhaseOK PROVE ServerTypeOK
      OBVIOUS
    <2>1. m_seq_cnt \in 0 .. MaxSeq
      BY DEF IndInv, IFaceTypeOK
    <2>2. OwnedByClient \subseteq Ids
      BY <2>1 DEF OwnedByClient, Ids
    <2>3. m_seq_status \subseteq Ids /\ flushed \subseteq Ids
      BY <2>2 DEF StatusInv, StatusTracksSeq
    <2> QED BY <2>3 DEF ServerTypeOK, IndInv, StatusInv, StartupInv, ReplyInv, ReqTypeOK, PhaseOK
  <1> QED BY <1>1, <1>2, <1>3, <1>4, ServerIndInv, PTL DEF Spec
=============================================================================
