------------------------------ MODULE StateId -------------------------------
(***************************************************************************)
(* The state id of CtrlIFace (get_state_id, set_dirty, set_observed in     *)
(* lib/ctrl_iface.cpp) and the clients that rely on it to know whether the *)
(* values they show are current (README, state_id).                        *)
(*                                                                         *)
(* The outputs are two parts: those that are read at once (TTLs, override  *)
(* masks, clock), and the DDSs, which are asked for with a command whose   *)
(* result comes later, unless CmdCache has a value of at most 0.1s.  Each  *)
(* change gives a part a new number.  Outputs are changed by requests that *)
(* act at once (the TTL override, through concurrent_set), by commands the *)
(* worker carries out later, and by sequences.  One entry of CmdCache      *)
(* stands for all; a DDS board keeps its registers here (DdsCmd has boards *)
(* that lose them).                                                        *)
(***************************************************************************)
EXTENDS Integers, Sequences

CONSTANTS
  Clients,           \* clients that poll the state id
  MaxValue,          \* bound on the changes of the outputs
  MaxSeq,            \* bound on the sequences scheduled
  MaxQueue           \* bound on the commands in m_cmd_queue

ASSUME StateIdConstants == MaxValue \in Nat /\ MaxSeq \in Nat /\ MaxQueue \in Nat

Parts == {"now", "dds"}

VARIABLES
  m_state_cnt, m_dirty, m_observed, m_had_seq,
  seqs,              \* sequences in m_seq_queue
  done,              \* those of them the worker has forwarded
  nseq,              \* sequences scheduled so far
  cmdq,              \* m_cmd_queue, without what was popped
  nfilt,             \* how many of those the worker has forwarded
  m_cmd_waiting,     \* the next one is a get that was sent to the pulser
  value,             \* the outputs, by part
  nval,              \* changes requested or made so far
  (* frontend *)
  cached,            \* CmdCache: the value, None if it is older than 0.1s
  cbs,               \* clients whose callback waits for the result of a get
  fpc,               \* "poll" and "pop": run_frontend; "call": a request
  (* clients *)
  cid,               \* the state id a client last got, NoId before the first
  seen,              \* the values it got, None for a part it has still to get
  todo,              \* parts it has still to ask for
  quiet              \* history: how it fetched, see FetchNow and FetchDds

idVars == <<m_state_cnt, m_dirty, m_observed, m_had_seq>>
seqVars == <<seqs, done, nseq>>
cmdVars == <<cmdq, nfilt, m_cmd_waiting>>
cacheVars == <<cached, cbs>>
outVars == <<value, nval>>
clientVars == <<cid, seen, todo, quiet>>
vars == <<idVars, seqVars, cmdVars, cacheVars, outVars, fpc, clientVars>>

Cmd(kind, val) == [kind |-> kind, val |-> val]
Cmds == [kind : Parts \cup {"get"}, val : 0 .. MaxValue]

NoId == <<0, -1>>
None == -1
NoValues == [p \in Parts |-> None]

TypeOK ==
  /\ m_state_cnt \in Nat
  /\ m_dirty \in BOOLEAN /\ m_observed \in BOOLEAN /\ m_had_seq \in BOOLEAN
  /\ seqs \in 0 .. MaxSeq /\ done \in 0 .. seqs /\ nseq \in 0 .. MaxSeq
  /\ cmdq \in Seq(Cmds) /\ nfilt \in 0 .. Len(cmdq) /\ m_cmd_waiting \in BOOLEAN
  /\ value \in [Parts -> 0 .. MaxValue] /\ nval \in 0 .. MaxValue
  /\ cached \in None .. MaxValue /\ cbs \subseteq Clients
  /\ fpc \in {"poll", "pop", "call"}
  /\ cid \in [Clients -> {0, 1} \X Int]
  /\ seen \in [Clients -> [Parts -> None .. MaxValue]]
  /\ todo \in [Clients -> SUBSET Parts]
  /\ quiet \in [Clients -> BOOLEAN]

Init ==
  /\ m_state_cnt = 0 /\ m_dirty = FALSE /\ m_observed = FALSE /\ m_had_seq = FALSE
  /\ seqs = 0 /\ done = 0 /\ nseq = 0
  /\ cmdq = <<>> /\ nfilt = 0 /\ m_cmd_waiting = FALSE
  /\ value = [p \in Parts |-> 0] /\ nval = 0
  /\ cached = None /\ cbs = {}
  /\ fpc = "poll"
  /\ cid = [c \in Clients |-> NoId]
  /\ seen = [c \in Clients |-> NoValues]
  /\ todo = [c \in Clients |-> {}]
  /\ quiet = [c \in Clients |-> FALSE]

-----------------------------------------------------------------------------
(* CtrlIFace *)

\* m_seq_queue.peek() gives the first sequence and whether it was forwarded.
HasSeq == seqs > 0 /\ done = 0

\* Mutant: only a change of the values makes a new id.
NewIdDirty == m_dirty

\* get_state_id raises the counter.
NewId == HasSeq # m_had_seq \/ m_dirty

\* What get_state_id would return now: the top bit and the counter.
CurrentId ==
  <<IF HasSeq THEN 1 ELSE 0, IF NewId THEN m_state_cnt + 1 ELSE m_state_cnt>>

\* Mutant: every poll makes the interface forget that somebody has looked.
GetStateIdForgets ==
  /\ m_had_seq' = HasSeq
  /\ m_state_cnt' = CurrentId[2]
  /\ m_dirty' = FALSE
  /\ m_observed' = FALSE

GetStateId ==
  /\ m_had_seq' = HasSeq
  /\ m_state_cnt' = CurrentId[2]
  /\ m_dirty' = FALSE
  /\ m_observed' = (m_observed /\ ~ NewId)

\* set_dirty, and set_observed after it when the handler goes on to read values.
SetDirty(reads) ==
  /\ m_dirty' = (m_dirty \/ (m_observed /\ ~ m_had_seq))
  /\ m_observed' = (m_observed \/ reads)
  /\ UNCHANGED <<m_state_cnt, m_had_seq>>

SetObserved ==
  /\ m_observed' = TRUE
  /\ UNCHANGED <<m_state_cnt, m_dirty, m_had_seq>>

-----------------------------------------------------------------------------
(* CmdCache *)

\* CmdCache::set: the callbacks that wait get the value.
CacheSet(val) ==
  /\ cached' = val /\ cbs' = {}
  /\ seen' = [c \in Clients |-> IF c \in cbs THEN [seen[c] EXCEPT !["dds"] = val]
                                             ELSE seen[c]]

\* 0.1s have passed since the value was set.
Expire ==
  /\ cached # None /\ cached' = None
  /\ UNCHANGED <<idVars, seqVars, cmdVars, cbs, outVars, fpc, clientVars>>

-----------------------------------------------------------------------------
(* Frontend: one pass of run_frontend, then at most one request *)

PopSeqs ==
  /\ fpc = "poll" /\ fpc' = "pop"
  /\ seqs' = seqs - done /\ done' = 0
  /\ UNCHANGED <<idVars, nseq, cmdVars, cacheVars, outVars, clientVars>>

PopCmd ==
  /\ fpc = "pop" /\ nfilt > 0
  /\ cmdq' = Tail(cmdq) /\ nfilt' = nfilt - 1
  /\ IF Head(cmdq).kind = "get" THEN CacheSet(Head(cmdq).val)
                                ELSE UNCHANGED <<cacheVars, seen>>
  /\ UNCHANGED <<idVars, seqVars, m_cmd_waiting, outVars, fpc, cid, todo, quiet>>

PopDone ==
  /\ fpc = "pop" /\ nfilt = 0 /\ fpc' = "call"
  /\ UNCHANGED <<idVars, seqVars, cmdVars, cacheVars, outVars, clientVars>>

Request == fpc = "call" /\ fpc' = "poll"

NoRequest ==
  /\ Request
  /\ UNCHANGED <<idVars, seqVars, cmdVars, cacheVars, outVars, clientVars>>

\* run_seq, which reads the overrides for its reply, or run_cmdlist.
RunCode(reads) ==
  /\ Request /\ nseq < MaxSeq
  /\ SetDirty(reads)
  /\ nseq' = nseq + 1 /\ seqs' = seqs + 1
  /\ UNCHANGED <<done, cmdVars, cacheVars, outVars, clientVars>>

\* A command with a new value is queued.
SendSet(part) ==
  /\ nval < MaxValue /\ nval' = nval + 1
  /\ Len(cmdq) < MaxQueue /\ cmdq' = Append(cmdq, Cmd(part, nval + 1))
  /\ UNCHANGED <<nfilt, m_cmd_waiting, value>>

\* set_ttl, which reads the TTLs for its reply, or set_clock, which does not.
SetTtl(reads) ==
  /\ Request
  /\ SetDirty(reads)
  /\ SendSet("now")
  /\ UNCHANGED <<seqVars, cacheVars, clientVars>>

\* override_ttl: concurrent_set does it at once, and the masks are read back.
SetNow ==
  /\ Request /\ nval < MaxValue
  /\ SetDirty(TRUE)
  /\ nval' = nval + 1 /\ value' = [value EXCEPT !["now"] = nval + 1]
  /\ UNCHANGED <<seqVars, cmdVars, cacheVars, clientVars>>

\* set_dds, which puts the value in the cache; override_dds and reset_dds, which
\* put theirs in other entries.
SetDds(caches) ==
  /\ Request
  /\ SetDirty(FALSE)
  /\ SendSet("dds")
  /\ IF caches THEN CacheSet(nval + 1) ELSE UNCHANGED <<cacheVars, seen>>
  /\ UNCHANGED <<seqVars, cid, todo, quiet>>

Idle(c) == todo[c] = {} /\ c \notin cbs

\* state_id from client c: it fetches the values if the id is new to it or says
\* that they are changing all the time; what it had is then void.
PollId(c) ==
  /\ Request /\ Idle(c)
  /\ GetStateId
  /\ cid' = [cid EXCEPT ![c] = CurrentId]
  /\ IF CurrentId # cid[c] \/ CurrentId[1] = 1
     THEN /\ todo' = [todo EXCEPT ![c] = Parts]
          /\ seen' = [seen EXCEPT ![c] = NoValues]
          /\ quiet' = [quiet EXCEPT ![c] = TRUE]
     ELSE UNCHANGED <<seen, todo, quiet>>
  /\ UNCHANGED <<seqVars, cmdVars, cacheVars, outVars>>

\* Nothing is on its way that will still change the outputs.
Quiescent == seqs = done /\ \A i \in nfilt + 1 .. Len(cmdq) : cmdq[i].kind = "get"

\* set_ttl or override_ttl with empty masks, get_clock: read concurrently.  Such a
\* fetch is quiet if nothing is on its way.
FetchNow(c) ==
  /\ Request /\ "now" \in todo[c]
  /\ SetObserved
  /\ seen' = [seen EXCEPT ![c]["now"] = value["now"]]
  /\ todo' = [todo EXCEPT ![c] = @ \ {"now"}]
  /\ quiet' = [quiet EXCEPT ![c] = @ /\ Quiescent]
  /\ UNCHANGED <<seqVars, cmdVars, cacheVars, outVars, cid>>

\* get_dds: the cached value, or a callback, and a query unless one waits already.
\* Such a fetch is quiet if its own query finds both queues empty.
FetchDds(c) ==
  /\ Request /\ "dds" \in todo[c]
  /\ SetObserved
  /\ todo' = [todo EXCEPT ![c] = @ \ {"dds"}]
  /\ quiet' = [quiet EXCEPT ![c] = @ /\ cached = None /\ cmdq = <<>> /\ seqs = done]
  /\ IF cached # None
     THEN seen' = [seen EXCEPT ![c]["dds"] = cached] /\ UNCHANGED <<cbs, cmdq>>
     ELSE /\ cbs' = cbs \cup {c}
          /\ cbs = {} => Len(cmdq) < MaxQueue
          /\ cmdq' = IF cbs = {} THEN Append(cmdq, Cmd("get", 0)) ELSE cmdq
          /\ UNCHANGED seen
  /\ UNCHANGED <<seqVars, nfilt, m_cmd_waiting, cached, outVars, cid>>

-----------------------------------------------------------------------------
(* Worker *)

\* process_reqcmd runs a command.  The value a get reads is settled when it is sent.
RunCmd ==
  /\ ~ m_cmd_waiting /\ nfilt < Len(cmdq)
  /\ LET cmd == cmdq[nfilt + 1]
     IN  \/ /\ cmd.kind # "get"
            /\ value' = [value EXCEPT ![cmd.kind] = cmd.val]
            /\ nfilt' = nfilt + 1
            /\ UNCHANGED <<cmdq, m_cmd_waiting>>
         \/ /\ cmd.kind = "get"
            /\ cmdq' = [cmdq EXCEPT ![nfilt + 1].val = value["dds"]]
            /\ m_cmd_waiting' = TRUE
            /\ UNCHANGED <<value, nfilt>>
  /\ UNCHANGED <<idVars, seqVars, cacheVars, nval, fpc, clientVars>>

\* Its result is there.
TakeResult ==
  /\ m_cmd_waiting /\ m_cmd_waiting' = FALSE
  /\ nfilt' = nfilt + 1
  /\ UNCHANGED <<idVars, seqVars, cmdq, cacheVars, outVars, fpc, clientVars>>

\* The sequence that runs changes the outputs.
SeqChange(part) ==
  /\ done < seqs /\ nval < MaxValue
  /\ nval' = nval + 1 /\ value' = [value EXCEPT ![part] = nval + 1]
  /\ UNCHANGED <<idVars, seqVars, cmdVars, cacheVars, fpc, clientVars>>

FinishSeq ==
  /\ done < seqs
  /\ done' = done + 1
  /\ UNCHANGED <<idVars, seqs, nseq, cmdVars, cacheVars, outVars, fpc, clientVars>>

-----------------------------------------------------------------------------
Next ==
  \/ PopSeqs \/ PopCmd \/ PopDone \/ Expire
  \/ NoRequest \/ SetNow
  \/ \E b \in BOOLEAN : RunCode(b) \/ SetTtl(b) \/ SetDds(b)
  \/ \E c \in Clients : PollId(c) \/ FetchNow(c) \/ FetchDds(c)
  \/ RunCmd \/ TakeResult \/ FinishSeq
  \/ \E part \in Parts : SeqChange(part)

Spec == Init /\ [][Next]_vars

-----------------------------------------------------------------------------
(* Properties *)

\* Polling again would tell c that nothing has changed.
LooksCurrent(c) == Idle(c) /\ cid[c] = CurrentId

\* The optimisations of set_dirty (no invalidation if nobody has looked, or if
\* the last one to look still thinks a sequence is running) lose no change for
\* a client whose fetches were quiet: nothing was on its way when it read the
\* TTLs, and its DDS values came from a query it sent with both queues empty, not
\* from the cache.  As long as the id it knows is the one it would get, its values
\* are the current ones, however long the query took and whoever else polls.
QuietFetchStaysCurrent ==
  \A c \in Clients : quiet[c] /\ LooksCurrent(c) /\ Quiescent => seen[c] = value

\* "an incrementing 64bit ID" (README): the ids a client gets only grow, and the
\* running bit never flips without the counter: two ids that agree in the number
\* of changes are the same id, however many clients poll in between.
IdsMoveForward ==
  [][\A c \in Clients : cid'[c] # cid[c] => cid'[c][2] > cid[c][2]]_vars
=============================================================================
