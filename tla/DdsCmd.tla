------------------------------- MODULE DdsCmd -------------------------------
(***************************************************************************)
(* The stand-alone DDS commands of one channel, from the request to the    *)
(* hardware and back: the frontend's CmdCache (lib/ctrl_iface.cpp), the    *)
(* FilterQueue of commands, and the worker's run_cmd, try_get_result,      *)
(* process_reqcmd and check_dds (lib/controller.cpp), with the places of   *)
(* run_seq and of the worker loop from which they are called.              *)
(*                                                                         *)
(* A channel has the parameters freq, amp and phase.  Registers and        *)
(* requests are 32, 16 and 12 bits wide in the code and 4, 2 and 1 bits    *)
(* here, so that truncation and the all-ones value behave alike.           *)
(*                                                                         *)
(* The pulser executes instructions in the order the worker gives them, so *)
(* a register is changed, or read, at the step that sends the instruction; *)
(* a result becomes readable some time later.                              *)
(*                                                                         *)
(* The board may be pulled out, plugged in again or lose its power at any  *)
(* time.  Its registers are then 0 and its magic bytes are gone; nobody    *)
(* tells the server, whose detection finds out later.                      *)
(***************************************************************************)
EXTENDS Integers, Sequences, FiniteSets

CONSTANTS
  Ops,               \* the parameters used: a subset of AllOps
  WriteOps,          \* those of them that requests and sequences write
  Vals,              \* values requests set
  SeqVals,           \* values sequences write
  Reqs,              \* the get_dds requests, each sent at most once
  Lists,             \* the lists of parameters that get_dds requests have
  MaxSets,           \* bound on the set_dds and override_dds commands
  MaxResets,         \* bound on the reset_dds requests
  MaxSeqs,           \* bound on the sequences run
  MaxLosses          \* bound on how often the board loses its registers

AllOps == {"freq", "amp", "phase"}
W32 == 16            \* uint32_t
W16 == 4             \* uint16_t
W12 == 2             \* the 12 bits of DDSState::amp
Off == W32 - 1       \* uint32_t(-1): the override is disabled

ASSUME DdsConstants ==
  /\ Ops \subseteq AllOps /\ WriteOps \subseteq Ops
  /\ Vals \subseteq 0 .. Off - 1 /\ SeqVals \subseteq 0 .. Off - 1
  /\ IsFiniteSet(Reqs) /\ Lists \subseteq (SUBSET Ops) \ {{}}
  /\ MaxSets \in Nat /\ MaxResets \in Nat /\ MaxSeqs \in Nat /\ MaxLosses \in Nat

VARIABLES
  (* frontend: CmdCache and the requests *)
  fresh,             \* that entry is at most 0.1s old
  cbs,               \* requests whose callback waits in that entry
  oval,              \* cached override; Off also stands for no entry
  asked,             \* get_dds requests that were sent
  open,              \* open[r]: parameters r has no value for yet
  nreply,            \* how many replies r was sent
  fpc,               \* "call" or, inside run_frontend, "pop"
  nset, nreset,      \* how many commands were sent, for the bounds
  (* the queue *)
  cmdq,              \* m_cmd_queue, without what was popped
  nfilt,             \* how many of those the worker has forwarded
  (* worker and hardware *)
  m_dds_ovr,         \* the override of each parameter, Off when disabled
  m_dds_phase,       \* last phase written
  m_dds_pending_reset,
  m_dds_exist,       \* the last detection found the board
  m_cmd_waiting,     \* a get was sent and its result is not read
  results,           \* results the pulser has, or will have, for the worker
  hw,                \* the registers of the DDS
  board,             \* "ready" with the magic bytes, "blank" without, or "out"
  lost,              \* history: registers cleared by no reset_dds and not written since
  wpc,               \* "top", "drain", "seq", "end", "proc", "det"
  nseq, nloss

cacheVars == <<fresh, cbs, oval>>
reqVars == <<asked, open, nreply>>
ftendVars == <<cacheVars, reqVars, fpc, nset, nreset>>
regVars == <<m_dds_phase, hw, lost>>
boardVars == <<m_dds_exist, board>>
ddsVars == <<m_dds_ovr, m_dds_pending_reset, regVars, boardVars>>
resVars == <<m_cmd_waiting, results>>
bkendVars == <<ddsVars, resVars, wpc, nseq>>
vars == <<ftendVars, cmdq, nfilt, bkendVars, nloss>>

\* A ReqCmd: "set" and "ovr" carry val, "get" receives it.
Cmd(op, kind, val) == [op |-> op, kind |-> kind, val |-> val]
Cmds == [op : Ops \cup {"none"}, kind : {"set", "ovr", "get", "reset"}, val : 0 .. Off]

TypeOK ==
  /\ oval \in [Ops -> 0 .. Off]
  /\ fresh \in [Ops -> BOOLEAN]
  /\ cbs \in [Ops -> SUBSET Reqs]
  /\ asked \subseteq Reqs
  /\ open \in [Reqs -> SUBSET Ops]
  /\ nreply \in [Reqs -> 0 .. 2]
  /\ fpc \in {"call", "pop"}
  /\ nset \in 0 .. MaxSets /\ nreset \in 0 .. MaxResets /\ nseq \in 0 .. MaxSeqs
  /\ nloss \in 0 .. MaxLosses
  /\ cmdq \in Seq(Cmds) /\ nfilt \in 0 .. Len(cmdq)
  /\ m_dds_ovr \in [Ops -> 0 .. Off]
  /\ hw \in [Ops -> 0 .. Off]
  /\ m_dds_phase \in 0 .. W16 - 1
  /\ m_dds_pending_reset \in BOOLEAN /\ m_dds_exist \in BOOLEAN
  /\ board \in {"ready", "blank", "out"} /\ lost \subseteq Ops
  /\ m_cmd_waiting \in BOOLEAN
  /\ results \in Seq(Ops \X (0 .. Off))
  /\ wpc \in {"top", "drain", "seq", "end", "proc", "det"}

\* The constructor's detect_dds(true) has initialised the DDS.
Init ==
  /\ fresh = [o \in Ops |-> FALSE]
  /\ cbs = [o \in Ops |-> {}] /\ oval = [o \in Ops |-> Off]
  /\ asked = {} /\ open = [r \in Reqs |-> {}] /\ nreply = [r \in Reqs |-> 0]
  /\ fpc = "call" /\ nset = 0 /\ nreset = 0 /\ nseq = 0 /\ nloss = 0
  /\ cmdq = <<>> /\ nfilt = 0
  /\ m_dds_ovr = [o \in Ops |-> Off] /\ hw = [o \in Ops |-> 0]
  /\ m_dds_phase = 0 /\ m_dds_pending_reset = FALSE
  /\ board = "ready" /\ m_dds_exist = TRUE /\ lost = {}
  /\ m_cmd_waiting = FALSE /\ results = <<>>
  /\ wpc = "top"

-----------------------------------------------------------------------------
(* CmdCache *)

\* Mutant: a reply with every value.
AnswerEach(op, rs) ==
  /\ open' = [r \in Reqs |-> IF r \in rs THEN open[r] \ {op} ELSE open[r]]
  /\ nreply' = [r \in Reqs |-> IF r \in rs /\ nreply[r] < 2 THEN nreply[r] + 1 ELSE nreply[r]]
  /\ UNCHANGED asked

\* The callbacks in rs get the value of op.  A get_dds request replies when the
\* last of its callbacks is gone.
Answer(op, rs) ==
  /\ open' = [r \in Reqs |-> IF r \in rs THEN open[r] \ {op} ELSE open[r]]
  /\ nreply' = [r \in Reqs |-> IF r \in rs /\ open[r] \ {op} = {} /\ nreply[r] < 2
                               THEN nreply[r] + 1 ELSE nreply[r]]
  /\ UNCHANGED asked

\* Mutant: the callbacks are run but kept.
CacheSetKeepsCallbacks(op, val) ==
  /\ fresh' = [fresh EXCEPT ![op] = TRUE]
  /\ Answer(op, cbs[op])
  /\ UNCHANGED cbs
  /\ oval' = IF oval[op] = Off THEN oval ELSE [oval EXCEPT ![op] = val]

\* CmdCache::set of the parameter itself: a command was sent or a result came.
\* The value kept for later requests is not modelled, only its age.
\* An override that is on takes the value over.
CacheSet(op, val) ==
  /\ fresh' = [fresh EXCEPT ![op] = TRUE]
  /\ Answer(op, cbs[op])
  /\ cbs' = [cbs EXCEPT ![op] = {}]
  /\ oval' = IF oval[op] = Off THEN oval ELSE [oval EXCEPT ![op] = val]

-----------------------------------------------------------------------------
(* Requests: server.cpp and the send_..._cmd functions *)

SendCmd(cmd) == cmdq' = Append(cmdq, cmd) /\ UNCHANGED nfilt

\* set_dds: the server has rejected the value -1.
SetDds(op, val) ==
  /\ fpc = "call" /\ nset < MaxSets
  /\ SendCmd(Cmd(op, "set", val))
  /\ CacheSet(op, val)
  /\ nset' = nset + 1 /\ fpc' = "pop"
  /\ UNCHANGED <<nreset, bkendVars, nloss>>

\* override_dds: val may be Off.
SetDdsOvr(op, val) ==
  /\ fpc = "call" /\ nset < MaxSets
  /\ SendCmd(Cmd(op, "ovr", val))
  /\ oval' = [oval EXCEPT ![op] = val]
  /\ nset' = nset + 1 /\ fpc' = "pop"
  /\ UNCHANGED <<fresh, cbs, reqVars, nreset, bkendVars, nloss>>

\* reset_dds: the overrides are cleared in the cache at once.
ResetDds ==
  /\ fpc = "call" /\ nreset < MaxResets
  /\ SendCmd(Cmd("none", "reset", 0))
  /\ oval' = [o \in Ops |-> Off]
  /\ nreset' = nreset + 1 /\ fpc' = "pop"
  /\ UNCHANGED <<fresh, cbs, reqVars, nset, bkendVars, nloss>>

\* The parameters in os for which CmdCache::get returns false, so that a query
\* is sent: not fresh, and no callback waits for an earlier query.
NeedQuery(os) == {o \in os : ~ fresh[o] /\ cbs[o] = {}}

\* The queries, in the order in which the server asks for the parameters.
Queries(os) ==
  LET query(o) == IF o \in NeedQuery(os) THEN <<Cmd(o, "get", 0)>> ELSE <<>>
  IN  query("freq") \o query("amp") \o query("phase")

\* Which request comes next is only a matter of its name.
NextReq == CHOOSE r \in Reqs : r \notin asked

\* get_dds: for each parameter a cached value, or a callback and perhaps a query.
GetDds(r, os) ==
  /\ fpc = "call" /\ r \notin asked /\ r = NextReq
  /\ LET parked == {o \in os : ~ fresh[o]}
     IN  /\ asked' = asked \cup {r}
         /\ open' = [open EXCEPT ![r] = parked]
         /\ nreply' = [nreply EXCEPT ![r] = IF parked = {} THEN 1 ELSE 0]
         /\ cbs' = [o \in Ops |-> IF o \in parked THEN cbs[o] \cup {r} ELSE cbs[o]]
         /\ cmdq' = cmdq \o Queries(os)
  /\ fpc' = "pop"
  /\ UNCHANGED <<fresh, oval, nset, nreset, nfilt, bkendVars, nloss>>

NoRequest ==
  /\ fpc = "call" /\ fpc' = "pop"
  /\ UNCHANGED <<cacheVars, reqVars, nset, nreset, cmdq, nfilt, bkendVars, nloss>>

\* 0.1s have passed since the entry was set.
Expire(op) ==
  /\ fresh[op]
  /\ fresh' = [fresh EXCEPT ![op] = FALSE]
  /\ UNCHANGED <<cbs, oval, reqVars, fpc, nset, nreset, cmdq, nfilt, bkendVars, nloss>>

\* run_frontend: one turn of the loop that pops the commands.
PopCmd ==
  /\ fpc = "pop" /\ nfilt > 0
  /\ cmdq' = Tail(cmdq) /\ nfilt' = nfilt - 1
  /\ LET cmd == Head(cmdq)
     IN  IF cmd.kind = "get" THEN CacheSet(cmd.op, cmd.val)
                             ELSE UNCHANGED <<cacheVars, reqVars>>
  /\ UNCHANGED <<fpc, nset, nreset, bkendVars, nloss>>

PopDone ==
  /\ fpc = "pop" /\ nfilt = 0 /\ fpc' = "call"
  /\ UNCHANGED <<cacheVars, reqVars, nset, nreset, cmdq, nfilt, bkendVars, nloss>>

-----------------------------------------------------------------------------
(* Worker: run_cmd *)

\* What the DDS gets of a 32 bit value.
ToReg(op, val) == IF op = "freq" THEN val ELSE val % W16

\* What DDSState keeps of a value that reached the register.
ToOvr(op, reg) == IF op = "amp" THEN reg % W12 ELSE reg

\* What is written to a board that is not there is gone.
Write(op, val) ==
  /\ m_dds_phase' = IF op = "phase" THEN ToReg(op, val) ELSE m_dds_phase
  /\ IF board = "out" THEN UNCHANGED <<hw, lost>>
     ELSE hw' = [hw EXCEPT ![op] = ToReg(op, val)] /\ lost' = lost \ {op}

\* The override branch: nothing to do if it is on with that value already,
\* else -1 turns it off, and any other value turns it on and is written.
RunOvr(op, val) ==
  IF m_dds_ovr[op] # Off /\ ToReg(op, val) = m_dds_ovr[op]
  THEN UNCHANGED <<m_dds_ovr, regVars>>
  ELSE IF val = Off
  THEN /\ m_dds_ovr' = [m_dds_ovr EXCEPT ![op] = Off]
       /\ UNCHANGED regVars
  ELSE /\ m_dds_ovr' = [m_dds_ovr EXCEPT ![op] = ToOvr(op, ToReg(op, val))]
       /\ Write(op, val)

\* run_cmd.  If the override is on, a set is treated as an override.  The value
\* a get reads is settled when the instruction is sent.
RunCmd(cmd) ==
  CASE cmd.kind = "reset" ->
         /\ m_dds_pending_reset' = TRUE
         /\ UNCHANGED <<m_dds_ovr, regVars, boardVars, results>>
    [] cmd.kind = "get" ->
         /\ results' = Append(results, <<cmd.op, hw[cmd.op]>>)
         /\ UNCHANGED ddsVars
    [] cmd.kind = "ovr" \/ (cmd.kind = "set" /\ m_dds_ovr[cmd.op] # Off) ->
         /\ RunOvr(cmd.op, cmd.val)
         /\ UNCHANGED <<m_dds_pending_reset, boardVars, results>>
    [] OTHER ->
         /\ Write(cmd.op, cmd.val)
         /\ UNCHANGED <<m_dds_ovr, m_dds_pending_reset, boardVars, results>>

\* try_get_result: the result goes to the waiting command, the first one that
\* is not forwarded, which is then finished.
TakeResult ==
  /\ m_cmd_waiting /\ results # <<>>
  /\ cmdq' = [cmdq EXCEPT ![nfilt + 1].val = Head(results)[2]]
  /\ results' = Tail(results)
  /\ m_cmd_waiting' = FALSE
  /\ nfilt' = nfilt + 1

\* Mutant: the next command is run although one waits.
NextCmdOverlap ==
  /\ nfilt < Len(cmdq) /\ Len(results) < 2
  /\ LET cmd == cmdq[nfilt + 1]
     IN  /\ RunCmd(cmd)
         /\ m_cmd_waiting' = (cmd.kind = "get")
         /\ nfilt' = IF cmd.kind = "get" THEN nfilt ELSE nfilt + 1
  /\ UNCHANGED cmdq

\* process_reqcmd: a result if there is one, else a command unless one waits.
NextCmd ==
  /\ ~ m_cmd_waiting /\ nfilt < Len(cmdq)
  /\ LET cmd == cmdq[nfilt + 1]
     IN  /\ RunCmd(cmd)
         /\ m_cmd_waiting' = (cmd.kind = "get")
         /\ nfilt' = IF cmd.kind = "get" THEN nfilt ELSE nfilt + 1
  /\ UNCHANGED cmdq

\* The result is not there yet, or there is no command.
NothingToDo ==
  /\ m_cmd_waiting \/ nfilt = Len(cmdq)
  /\ UNCHANGED <<ddsVars, resVars, cmdq, nfilt>>

ProcessReqCmd ==
  \/ TakeResult /\ UNCHANGED ddsVars
  \/ NextCmd
  \/ NothingToDo

\* Pulser::init_dds: registers 0 and the magic bytes set, if there is a board.
InitDds(forced) ==
  /\ board' = IF board = "out" THEN "out" ELSE "ready"
  /\ hw' = [o \in Ops |-> 0]
  /\ lost' = IF forced /\ board # "out" THEN {} ELSE Ops

\* Controller::check_dds.  A pending reset clears the overrides and the DDS.
\* Without one a board that lacks the magic bytes is initialised all the same,
\* and the overrides and m_dds_phase stay what they were.
CheckDds ==
  /\ m_dds_pending_reset' = FALSE
  /\ \/ /\ m_dds_pending_reset
        /\ m_dds_ovr' = [o \in Ops |-> Off] /\ m_dds_phase' = 0
        /\ InitDds(TRUE)
     \/ /\ ~ m_dds_pending_reset /\ board # "ready"
        /\ InitDds(FALSE)
        /\ UNCHANGED <<m_dds_ovr, m_dds_phase>>
     \/ /\ ~ m_dds_pending_reset /\ board = "ready"
        /\ UNCHANGED <<m_dds_ovr, regVars, board>>

\* detect_dds, only while no command waits: at once for a pending reset, else
\* once a second.  A reset of a board that is not there is forgotten.
DetectDds ==
  \/ /\ ~ m_cmd_waiting /\ board = "out"
     /\ m_dds_exist' = FALSE /\ m_dds_pending_reset' = FALSE
     /\ UNCHANGED <<m_dds_ovr, regVars, board>>
  \/ /\ ~ m_cmd_waiting /\ board # "out"
     /\ m_dds_exist' = TRUE /\ CheckDds
  \/ /\ m_cmd_waiting \/ ~ m_dds_pending_reset
     /\ UNCHANGED ddsVars

-----------------------------------------------------------------------------
(* Worker: the loop and run_seq *)

\* get_seq finds a sequence: read the outstanding result first.
BeginSeq ==
  /\ wpc = "top" /\ nseq < MaxSeqs
  /\ nseq' = nseq + 1 /\ wpc' = "drain"
  /\ UNCHANGED <<ftendVars, cmdq, nfilt, ddsVars, resVars, nloss>>

\* There is none, or it has ended: the first detect_dds of a turn.
DetectFirst ==
  /\ wpc \in {"top", "end"} /\ DetectDds /\ wpc' = "proc"
  /\ UNCHANGED <<ftendVars, cmdq, nfilt, resVars, nseq, nloss>>

DrainResult ==
  /\ wpc = "drain"
  /\ TakeResult
  /\ UNCHANGED <<ftendVars, ddsVars, wpc, nseq, nloss>>

\* Mutant: the outstanding result is not read first.
StartSeqAtOnce ==
  /\ wpc = "drain"
  /\ results' = <<>>
  /\ wpc' = "seq"
  /\ UNCHANGED <<ftendVars, cmdq, nfilt, ddsVars, m_cmd_waiting, nseq, nloss>>

\* toggle_init drops the results the pulser still has.
StartSeq ==
  /\ wpc = "drain" /\ ~ m_cmd_waiting
  /\ results' = <<>>
  /\ wpc' = "seq"
  /\ UNCHANGED <<ftendVars, cmdq, nfilt, ddsVars, m_cmd_waiting, nseq, nloss>>

\* Mutant: the override is not looked at.
SeqWriteAlways(op, val) ==
  /\ wpc = "seq"
  /\ Write(op, val)
  /\ UNCHANGED <<ftendVars, cmdq, nfilt, m_dds_ovr, m_dds_pending_reset, boardVars,
                 resVars, wpc, nseq, nloss>>

\* Runner::dds_freq, dds_amp, dds_phase: an override keeps the sequence out.
SeqWrite(op, val) ==
  /\ wpc = "seq"
  /\ m_dds_ovr[op] = Off
  /\ Write(op, val)
  /\ UNCHANGED <<ftendVars, cmdq, nfilt, m_dds_ovr, m_dds_pending_reset, boardVars,
                 resVars, wpc, nseq, nloss>>

\* In the waits of a long sequence and while the pulser finishes.
SeqProcess ==
  /\ wpc = "seq"
  /\ ProcessReqCmd
  /\ UNCHANGED <<ftendVars, wpc, nseq, nloss>>

\* The end of run_seq: boards that the last detection found are checked, unless
\* a command waits.
EndSeq ==
  /\ wpc = "seq" /\ wpc' = "end"
  /\ IF ~ m_cmd_waiting /\ m_dds_exist THEN CheckDds /\ UNCHANGED m_dds_exist
                                       ELSE UNCHANGED ddsVars
  /\ UNCHANGED <<ftendVars, cmdq, nfilt, resVars, nseq, nloss>>

\* The one command of a turn, and detect_dds after it.
IdleProcess ==
  /\ wpc = "proc" /\ ProcessReqCmd /\ wpc' = "det"
  /\ UNCHANGED <<ftendVars, nseq, nloss>>

DetectAfter ==
  /\ wpc = "det" /\ DetectDds /\ wpc' = "top"
  /\ UNCHANGED <<ftendVars, cmdq, nfilt, resVars, nseq, nloss>>

-----------------------------------------------------------------------------
(* The board *)

\* It is pulled out or its power goes.
PullBoard ==
  /\ board # "out" /\ nloss < MaxLosses
  /\ nloss' = nloss + 1
  /\ board' = "out"
  /\ hw' = [o \in Ops |-> 0] /\ lost' = Ops
  /\ UNCHANGED <<ftendVars, cmdq, nfilt, m_dds_ovr, m_dds_phase, m_dds_pending_reset,
                 m_dds_exist, resVars, wpc, nseq>>

\* It is plugged in or its power comes back.
PlugBoard ==
  /\ board = "out" /\ board' = "blank"
  /\ UNCHANGED <<ftendVars, cmdq, nfilt, m_dds_ovr, m_dds_pending_reset, regVars,
                 m_dds_exist, resVars, wpc, nseq, nloss>>

-----------------------------------------------------------------------------
Frontend == PopCmd \/ PopDone \/ NoRequest

Request ==
  \/ \E op \in WriteOps, val \in Vals : SetDds(op, val)
  \/ \E op \in WriteOps, val \in Vals \cup {Off} : SetDdsOvr(op, val)
  \/ ResetDds
  \/ \E r \in Reqs, os \in Lists : GetDds(r, os)

Loop ==
  \/ DetectFirst \/ DrainResult \/ StartSeq \/ EndSeq
  \/ IdleProcess \/ DetectAfter

Next ==
  \/ Frontend \/ Request
  \/ \E op \in Ops : Expire(op)
  \/ Loop \/ BeginSeq \/ SeqProcess
  \/ \E op \in WriteOps, val \in SeqVals : SeqWrite(op, val)
  \/ PullBoard \/ PlugBoard

Spec == Init /\ [][Next]_vars

\* The frontend returns to run_frontend, the worker's loop turns and a sequence
\* ends.  A result the pulser owes arrives: one of the turns finds it.
Fairness ==
  /\ WF_vars(Frontend)
  /\ WF_vars(Loop)
  /\ SF_vars(IdleProcess /\ TakeResult)

FairSpec == Spec /\ Fairness

-----------------------------------------------------------------------------
(* Safety *)

\* "return true since a query should have been queued already" (CmdCache::get):
\* as long as a callback waits in an entry, a query for that entry is on its way
\* and has not come back.
PendingHasQuery ==
  \A o \in Ops : cbs[o] # {} =>
    \E i \in 1 .. Len(cmdq) : cmdq[i].kind = "get" /\ cmdq[i].op = o

\* A get_dds request is replied to once, when the last of its callbacks is gone,
\* and a parameter it has no value for has its callback parked.
OneReplyPerGet ==
  \A r \in Reqs :
    /\ nreply[r] = IF r \in asked /\ open[r] = {} THEN 1 ELSE 0
    /\ \A o \in Ops : r \in cbs[o] <=> o \in open[r]

\* The worker never has a result to read that is not the one of the command it
\* waits for: queries do not overlap, and none is cut off by a sequence.
ResultIsForWaiting ==
  IF m_cmd_waiting
  THEN /\ nfilt < Len(cmdq) /\ cmdq[nfilt + 1].kind = "get"
       /\ Len(results) = 1 /\ results[1][1] = cmdq[nfilt + 1].op
  ELSE results = <<>>

\* While an override is on, the DDS has its value, whatever sequences, set commands
\* and resets do, and m_dds_phase is the phase the DDS has, so that a relative
\* phase step starts from there.  The exception is a register the board lost, with
\* its power or to the initialisation without a reset that follows: from then until
\* the register is written or the board is reset the override is on in software
\* only.
OverrideHolds ==
  /\ \A o \in Ops \ lost : m_dds_ovr[o] # Off => ToOvr(o, hw[o]) = m_dds_ovr[o]
  /\ "phase" \in Ops \ lost => m_dds_phase = hw["phase"]

\* "DDS overrides are only kept in software so no need to ask the backend"
\* (CmdCache::get): once the worker has handled every command, the override the
\* server reports is the one the worker enforces.
Settled == cmdq = <<>> /\ ~ m_dds_pending_reset
OverrideAgrees ==
  Settled => \A o \in Ops :
    m_dds_ovr[o] = IF oval[o] = Off THEN Off ELSE ToOvr(o, ToReg(o, oval[o]))

-----------------------------------------------------------------------------
(* Liveness *)

\* Every get_dds request is replied to: again and again all that were sent have
\* their reply.
EveryGetAnswered == []<>(\A r \in asked : nreply[r] = 1)
=============================================================================
