------------------------------ MODULE SeqServer -----------------------------
(***************************************************************************)
(* The server loop around CtrlIFace (lib/server.{h,cpp}, server/main.cpp): *)
(* the constructor with its start-up sequence, the loop of Server::run,    *)
(* the requests run_seq/run_cmdlist, wait_seq and cancel_seq, and the      *)
(* SIGINT thread.                                                          *)
(*                                                                         *)
(* The server runs in the frontend thread of SeqIFace: every action below  *)
(* is an action of SeqIFace with what the server does in it, or a step of  *)
(* the server (or the signal thread) that SeqIFace does not see.  One pass *)
(* of the loop is: fpc = "poll" (test m_running, poll), run_frontend, and  *)
(* at fpc = "call" at most one request.                                    *)
(*                                                                         *)
(* Every other request leaves this state alone; for this module it is the  *)
(* NoCall step.  A request that fails its validation before the sequence   *)
(* id is used is answered with 1 and changes nothing (id 0 below).         *)
(***************************************************************************)
EXTENDS SeqIFace

CONSTANT Reqs        \* the wait_seq requests clients may send, each once

VARIABLES
  phase,             \* "ctor", "startup" (run_startup's loop), "ready" (the
                     \* signal thread runs, run() was not entered), "run"
  has_startup,       \* there was a start-up file: sequence 1 is its own
  m_running,
  m_seq_status,      \* ids with a SeqStatus; the vector is in order of id
  flushed,           \* SeqStatus::flushed
  wid, what,         \* the sequence and the state a request asks for
  waiting,           \* requests kept in a SeqStatus::wait
  nreply,            \* how many replies a request was sent
  reply              \* the last one

serverVars == <<phase, has_startup, m_running, m_seq_status,
                flushed, wid, what, waiting, nreply, reply>>
ctlVars == <<phase, has_startup, m_running>>
statusVars == <<m_seq_status, flushed>>
reqVars == <<wid, what, waiting, nreply, reply>>
vars == <<ifaceVars, serverVars>>

Unasked == -1        \* wid of a request that was not sent yet
MaxReply == 2        \* replies are counted up to here

ServerTypeOK ==
  /\ IFaceTypeOK
  /\ phase \in {"ctor", "startup", "ready", "run"}
  /\ has_startup \in BOOLEAN /\ m_running \in BOOLEAN
  /\ m_seq_status \subseteq Ids
  /\ flushed \subseteq Ids
  /\ wid \in [Reqs -> Unasked .. MaxSeq]
  /\ what \in [Reqs -> {0, 1}]
  /\ waiting \subseteq Reqs
  /\ nreply \in [Reqs -> 0 .. MaxReply]
  /\ reply \in [Reqs -> {0, 1}]

Init ==
  /\ IFaceInit
  /\ phase = "ctor" /\ has_startup = FALSE
  /\ m_running = FALSE
  /\ m_seq_status = {} /\ flushed = {}
  /\ wid = [r \in Reqs |-> Unasked]
  /\ what = [r \in Reqs |-> 0]
  /\ waiting = {}
  /\ nreply = [r \in Reqs |-> 0]
  /\ reply = [r \in Reqs |-> 0]

-----------------------------------------------------------------------------
(* Replies and the callbacks of process_run_seq's Notify *)

\* send_reply to the requests in rs.
SendReply(rs, res) ==
  /\ nreply' = [r \in Reqs |-> IF r \in rs /\ nreply[r] < MaxReply
                               THEN nreply[r] + 1 ELSE nreply[r]]
  /\ reply' = [r \in Reqs |-> IF r \in rs THEN res ELSE reply[r]]

\* The requests in the SeqStatus of sequence id.
WaitsOf(id) == {r \in waiting : wid[r] = id}

\* Mutant: every wait is answered.
FlushWaitsAll(id) == WaitsOf(id)

\* Notify::flushed answers the waits for "flushed"; they stay in the vector.
FlushWaits(id) == {r \in WaitsOf(id) : what[r] = 0}

\* Mutant: the ones flushed has answered as well.
FinalizeWaitsAll(id, isflushed) == WaitsOf(id)

\* Mutant: the waits for "flushed" are taken to be answered.
FinalizeWaitsEnd(id, isflushed) == {r \in WaitsOf(id) : what[r] = 1}

\* Notify::finalize answers the waits it finds, unless flushed already did.
FinalizeWaits(id, isflushed) ==
  {r \in WaitsOf(id) : ~ (what[r] = 0 /\ isflushed)}

\* Mutant: cancel() is called when it was processed before, not when it is new.
CallsCancelAgain(id) == state[id] = SeqCancel /\ processed_state[id] = SeqCancel

\* Which callbacks run_callbacks(id) makes: from the state it loads and the
\* one it processed before.
CallsFlushed(id) == state[id] >= SeqFlushed /\ processed_state[id] < SeqFlushed
CallsEnd(id)     == state[id] >= SeqEnd /\ processed_state[id] < SeqEnd
CallsCancel(id)  == state[id] = SeqCancel /\ processed_state[id] # SeqCancel

\* All the callbacks of one run_callbacks(id) and, when the sequence is then
\* freed, the destructor of its Notify, which finalizes as if cancelled.
\* The start-up sequence has a Notify of its own that only knows its end.
Notify(id, freed) ==
  IF has_startup /\ id = 1
  THEN UNCHANGED <<statusVars, reqVars>>
  ELSE LET nowflushed == id \in flushed \/ CallsFlushed(id)
           finalizes == CallsEnd(id) \/ CallsCancel(id) \/ freed
           early == IF CallsFlushed(id) THEN FlushWaits(id) ELSE {}
           late == IF finalizes /\ id \in m_seq_status
                   THEN FinalizeWaits(id, nowflushed) ELSE {}
           cancelled == ~ CallsEnd(id)
           bump(r) == (IF r \in early THEN 1 ELSE 0) + (IF r \in late THEN 1 ELSE 0)
       IN  /\ flushed' = IF CallsFlushed(id) THEN flushed \cup {id} ELSE flushed
           /\ m_seq_status' = IF finalizes THEN m_seq_status \ {id} ELSE m_seq_status
           /\ waiting' = IF finalizes THEN waiting \ WaitsOf(id) ELSE waiting
           /\ nreply' = [r \in Reqs |-> IF nreply[r] + bump(r) > MaxReply
                                        THEN MaxReply ELSE nreply[r] + bump(r)]
           /\ reply' = [r \in Reqs |-> IF r \in late THEN (IF cancelled THEN 1 ELSE 0)
                                       ELSE IF r \in early THEN 0 ELSE reply[r]]
           /\ UNCHANGED <<wid, what>>

-----------------------------------------------------------------------------
(* Construction and shutdown *)

\* run_startup: there is a start-up file, its sequence is scheduled.
StartupSeq ==
  /\ phase = "ctor"
  /\ RunCode
  /\ phase' = "startup" /\ has_startup' = TRUE
  /\ UNCHANGED <<m_running, statusVars, reqVars>>

\* run_startup returns early: no file, or a malformed one.
NoStartup ==
  /\ phase = "ctor"
  /\ phase' = "ready"
  /\ UNCHANGED <<ifaceVars, has_startup, m_running, statusVars, reqVars>>

\* Mutant: it waits for one sequence too many.
StartupDoneLate ==
  /\ phase = "startup" /\ fpc = "call" /\ popped > 1
  /\ phase' = "ready"
  /\ UNCHANGED <<ifaceVars, has_startup, m_running, statusVars, reqVars>>

\* run_startup: the sequence was freed, its Notify has set finished.
StartupDone ==
  /\ phase = "startup" /\ fpc = "call" /\ popped >= 1
  /\ phase' = "ready"
  /\ UNCHANGED <<ifaceVars, has_startup, m_running, statusVars, reqVars>>

\* Server::run begins.
Run ==
  /\ phase = "ready"
  /\ NoCall
  /\ phase' = "run" /\ m_running' = TRUE
  /\ UNCHANGED <<has_startup, statusVars, reqVars>>

\* The signal thread takes a SIGINT and calls server->stop().
Stop ==
  /\ phase \in {"ready", "run"}
  /\ m_running' = FALSE
  /\ UNCHANGED <<ifaceVars, phase, has_startup, statusVars, reqVars>>

\* Server::run returns, main returns, ~Server destroys the controller.
Shutdown ==
  /\ phase = "run" /\ ~ m_running
  /\ Quit
  /\ UNCHANGED serverVars

-----------------------------------------------------------------------------
(* The loop *)

\* Mutant: the loop does not test m_running.
PollAlways == ReadEvent /\ UNCHANGED serverVars

\* The next pass: the test of m_running, the poll, readEvent.  The loop of
\* run_startup has no test.
Poll ==
  /\ phase = "startup" \/ m_running
  /\ ReadEvent
  /\ UNCHANGED serverVars

FrontendPeek == PeekCurSeq /\ UNCHANGED serverVars

FrontendPop ==
  /\ PopSeq
  /\ Notify(popped + 1, TRUE)
  /\ UNCHANGED ctlVars

FrontendPopDone == PopDone /\ UNCHANGED serverVars

FrontendCur ==
  /\ CurCallbacks
  /\ IF curseq # 0 THEN Notify(curseq, FALSE) ELSE UNCHANGED <<statusVars, reqVars>>
  /\ UNCHANGED ctlVars

\* No request this time, or one this module does not see; the sleep between
\* two passes of run_startup.
NoRequest ==
  /\ phase = "run" \/ (phase = "startup" /\ popped < 1)
  /\ NoCall
  /\ UNCHANGED serverVars

\* run_seq and run_cmdlist: schedule, then create the SeqStatus.
RunSeq ==
  /\ phase = "run"
  /\ RunCode
  /\ m_seq_status' = m_seq_status \cup {m_seq_cnt + 1}
  /\ UNCHANGED <<ctlVars, flushed, reqVars>>

\* cancel_seq, with an id or (0) without.
CancelRequest(id) ==
  /\ phase = "run"
  /\ CancelSeq(id)
  /\ UNCHANGED serverVars

\* wait_seq: get_seq_id has returned id (0: rejected), w is what to wait for.
WaitSeq(r, id, w) ==
  /\ phase = "run"
  /\ wid[r] = Unasked
  /\ NoCall
  /\ wid' = [wid EXCEPT ![r] = id]
  /\ what' = [what EXCEPT ![r] = w]
  /\ IF (id # 0 /\ \A i \in m_seq_status : i > id)
          \/ (id \in m_seq_status /\ w = 0 /\ id \in flushed)
     THEN SendReply({r}, 0) /\ UNCHANGED waiting
     ELSE IF id \in m_seq_status
     THEN waiting' = waiting \cup {r} /\ UNCHANGED <<nreply, reply>>
     ELSE SendReply({r}, 1) /\ UNCHANGED waiting
  /\ UNCHANGED <<ctlVars, statusVars>>

-----------------------------------------------------------------------------
Frontend ==
  \/ NoStartup \/ StartupDone \/ Run \/ Shutdown
  \/ Poll \/ FrontendPeek \/ FrontendPop \/ FrontendPopDone \/ FrontendCur
  \/ NoRequest
  \/ Join /\ UNCHANGED serverVars

Request ==
  \/ RunSeq
  \/ \E id \in 0 .. MaxSeq : CancelRequest(id)
  \/ \E r \in Reqs, id \in 0 .. MaxSeq, w \in {0, 1} : WaitSeq(r, id, w)

Next ==
  \/ Frontend
  \/ StartupSeq
  \/ Request
  \/ Stop
  \/ Worker /\ UNCHANGED serverVars
  \/ Exited /\ UNCHANGED serverVars

Spec == Init /\ [][Next]_vars

\* As in SeqIFace: the main thread and the worker keep running.  Nothing is
\* assumed of clients or of SIGINT.
Fairness ==
  /\ WF_vars(Frontend)
  /\ WF_vars(Worker /\ UNCHANGED serverVars)

FairSpec == Spec /\ Fairness

-----------------------------------------------------------------------------
(* Safety *)

\* The sequences whose owner is a client.
OwnedByClient == (IF has_startup THEN 2 ELSE 1) .. m_seq_cnt

\* m_seq_status has an entry exactly for the client sequences whose last
\* callback is still to come, and its flushed flag is what was notified.  The
\* assert in Notify::flushed, the destructor's finalize(true) finding nothing
\* after end(), and wait_seq's test of m_seq_status[0] all rely on it.
StatusTracksSeq ==
  /\ m_seq_status = {i \in OwnedByClient : processed_state[i] \notin Final}
  /\ flushed = {i \in OwnedByClient : processed_state[i] >= SeqFlushed}

\* A request that was sent is answered exactly once, or it is still waiting in
\* the SeqStatus of a live sequence for something that was not notified yet.
\* A wait for "flushed" stays in the vector after its answer and finalize must
\* not answer it again.
Pending(r) == r \in waiting /\ ~ (what[r] = 0 /\ wid[r] \in flushed)
OneReply ==
  \A r \in Reqs :
    /\ nreply[r] = IF wid[r] = Unasked \/ Pending(r) THEN 0 ELSE 1
    /\ r \in waiting => wid[r] \in m_seq_status

\* README, wait_seq: "0 for success, 1 for cancellation", and 0 for a cancelled
\* sequence only if it was cancelled before the request came.  So a wait that is
\* kept is never answered too early, nor with 1 (by finalize in the destructor)
\* for a sequence that ran; and a request for an id that was handed out is never
\* taken for an invalid one, whatever finished in between.
Reached(i, w) == IF w = 0 THEN state[i] >= SeqFlushed ELSE state[i] = SeqEnd
RepliesTruthful ==
  [][\A r \in Reqs : nreply'[r] # nreply[r] /\ wid'[r] \in 1 .. m_seq_cnt =>
       IF reply'[r] = 0
       THEN \/ Reached(wid'[r], what'[r])
            \/ state[wid'[r]] = SeqCancel /\ r \notin waiting
       ELSE state[wid'[r]] = SeqCancel]_vars

-----------------------------------------------------------------------------
(* Liveness *)

\* A client that waits gets its answer, unless the server is stopped.
EveryWaitAnswered ==
  \A r \in Reqs : (r \in waiting) ~> (nreply[r] > 0 \/ m_quit)

\* The server gets through its start-up sequence to its loop.
ServerStarts == <>(phase = "run")

\* Once the loop runs, a SIGINT ends the process.
StopWhileRunning == (phase = "run" /\ ~ m_running) ~> (fpc = "dead")
=============================================================================
