---------------------------- MODULE StateIdProofs ---------------------------
(***************************************************************************)
(* Proofs about StateId, for any set of clients and any bounds.            *)
(*                                                                         *)
(* The argument: a client whose id is still the counter's has kept         *)
(* m_observed set since its fetch, because only a new id clears it; so the *)
(* first change after the fetch has set m_dirty, which only a new id       *)
(* clears.  If the id says that a sequence runs, it is only current while  *)
(* one does.  Until then nothing but queries is queued, and every query    *)
(* that was carried out has read the DDSs as they still are: the result    *)
(* that a waiting callback gets is current, whichever query it comes from. *)
(***************************************************************************)
EXTENDS StateId, SequenceTheorems, TLAPS

\* Indices stay within the queues.
Counts ==
  /\ seqs <= nseq
  /\ m_cmd_waiting => nfilt < Len(cmdq)

\* A client that knows the present count knows the present running bit.
IdKnown(c) ==
  /\ cid[c][2] <= m_state_cnt
  /\ cid[c][2] = m_state_cnt => (cid[c][1] = 1 <=> m_had_seq)

\* The worker has carried out command i of the queue, or sent it.
Sent(i) == i <= nfilt \/ (m_cmd_waiting /\ i = nfilt + 1)

\* Only queries are queued, and the ones sent have read what is there now.
OnlyGets ==
  \A i \in 1 .. Len(cmdq) :
    cmdq[i].kind = "get" /\ (Sent(i) => cmdq[i].val = value["dds"])

\* What client c has got is current, and what it waits for will be.
Current(c) ==
  /\ Quiescent
  /\ "now" \notin todo[c] => seen[c]["now"] = value["now"]
  /\ "dds" \notin todo[c] /\ c \in cbs => OnlyGets
  /\ "dds" \notin todo[c] /\ c \notin cbs => seen[c]["dds"] = value["dds"]

\* The client has fetched something for the present count.
Holds(c) == quiet[c] /\ todo[c] # Parts /\ cid[c][2] = m_state_cnt

\* What that says about the flags and the values.
Tracked(c) == Holds(c) => m_observed /\ (~ m_had_seq /\ ~ m_dirty => Current(c))

IdInv ==
  /\ TypeOK /\ Counts
  /\ \A c \in Clients : IdKnown(c) /\ Tracked(c)

USE StateIdConstants

-----------------------------------------------------------------------------
\* The counters and flags of a new CtrlIFace, and clients that know nothing yet.
LEMMA IdInit == Init => IdInv
  <1> SUFFICES ASSUME Init PROVE IdInv
    OBVIOUS
  <1>1. TypeOK
    <2>1. NoId \in {0, 1} \X Int /\ NoId[2] = -1
      BY DEF NoId
    <2>2. cid \in [Clients -> {0, 1} \X Int]
      BY <2>1 DEF Init
    <2>3. NoValues \in [Parts -> None .. MaxValue] /\ cached \in None .. MaxValue
      BY DEF NoValues, None, Init
    <2>4. /\ seen \in [Clients -> [Parts -> None .. MaxValue]]
          /\ todo \in [Clients -> SUBSET Parts]
      BY <2>3 DEF Init
    <2>5. quiet \in [Clients -> BOOLEAN]
      BY DEF Init
    <2>6. /\ m_dirty \in BOOLEAN /\ m_observed \in BOOLEAN /\ m_had_seq \in BOOLEAN
          /\ m_cmd_waiting \in BOOLEAN
      BY DEF Init
    <2>7. cmdq \in Seq(Cmds) /\ nfilt \in 0 .. Len(cmdq)
      BY EmptySeq DEF Init
    <2>8. value \in [Parts -> 0 .. MaxValue]
      BY DEF Init
    <2> QED BY <2>2, <2>3, <2>4, <2>5, <2>6, <2>7, <2>8 DEF Init, TypeOK
  <1>2. Counts
    BY DEF Init, Counts
  <1>3. \A c \in Clients : IdKnown(c) /\ Tracked(c)
    <2> SUFFICES ASSUME NEW c \in Clients PROVE IdKnown(c) /\ Tracked(c)
      OBVIOUS
    <2>1. cid[c][2] = -1 /\ ~ quiet[c] /\ m_state_cnt = 0
      BY DEF Init, NoId
    <2> QED BY <2>1 DEF IdKnown, Tracked, Holds
  <1> QED BY <1>1, <1>2, <1>3 DEF IdInv

-----------------------------------------------------------------------------
(* Types *)

\* What the queue is after an Append.
LEMMA AppendCmd ==
  ASSUME NEW q \in Seq(Cmds), NEW x \in Cmds
  PROVE  /\ Append(q, x) \in Seq(Cmds) /\ Len(Append(q, x)) = Len(q) + 1
         /\ Len(q) \in Nat
         /\ \A i \in 1 .. Len(q) : Append(q, x)[i] = q[i]
         /\ Append(q, x)[Len(q) + 1] = x
  BY AppendProperties, LenProperties

\* The callbacks get a value.
LEMMA CacheSetType ==
  ASSUME TypeOK, NEW val \in 0 .. MaxValue, CacheSet(val)
  PROVE  /\ cached' \in None .. MaxValue /\ cbs' \subseteq Clients
         /\ seen' \in [Clients -> [Parts -> None .. MaxValue]]
  <1>1. val \in None .. MaxValue
    BY DEF None
  <1>2. \A c \in Clients : [seen[c] EXCEPT !["dds"] = val] \in [Parts -> None .. MaxValue]
    BY <1>1 DEF TypeOK
  <1> QED BY <1>1, <1>2 DEF CacheSet, TypeOK

\* Requests that change something.
LEMMA RequestType ==
  ASSUME TypeOK, Counts,
         SetNow \/ \E b \in BOOLEAN : RunCode(b) \/ SetTtl(b) \/ SetDds(b)
  PROVE  TypeOK' /\ Counts'
  <1>1. /\ m_dirty' \in BOOLEAN /\ m_observed' \in BOOLEAN /\ m_had_seq' \in BOOLEAN
        /\ UNCHANGED <<m_state_cnt, done, cid, todo, quiet, nfilt, m_cmd_waiting>>
        /\ fpc' = "poll"
    BY DEF TypeOK, SetNow, RunCode, SetTtl, SetDds, SendSet, SetDirty, Request, seqVars,
           cmdVars, clientVars, outVars
  <1>2. /\ seqs' \in 0 .. MaxSeq /\ done' \in 0 .. seqs' /\ nseq' \in 0 .. MaxSeq
        /\ seqs' <= nseq'
    <2>1. CASE SetNow \/ \E b \in BOOLEAN : SetTtl(b) \/ SetDds(b)
      BY <2>1 DEF TypeOK, Counts, SetNow, SetTtl, SetDds, seqVars
    <2>2. CASE \E b \in BOOLEAN : RunCode(b)
      BY <2>2 DEF TypeOK, Counts, RunCode
    <2> QED BY <2>1, <2>2
  <1>3. ASSUME NEW part \in Parts, SendSet(part)
        PROVE  /\ cmdq' \in Seq(Cmds) /\ nfilt \in 0 .. Len(cmdq')
               /\ m_cmd_waiting => nfilt < Len(cmdq')
               /\ nval' \in 0 .. MaxValue /\ nval + 1 \in 0 .. MaxValue /\ value' = value
    <2>1. nval' = nval + 1 /\ nval + 1 \in 0 .. MaxValue /\ value' = value
      BY <1>3 DEF SendSet, TypeOK
    <2>2. Cmd(part, nval + 1) \in Cmds
      BY <2>1 DEF Cmd, Cmds
    <2>3. cmdq' = Append(cmdq, Cmd(part, nval + 1)) /\ cmdq \in Seq(Cmds)
      BY <1>3 DEF SendSet, TypeOK
    <2>4. cmdq' \in Seq(Cmds) /\ Len(cmdq') = Len(cmdq) + 1 /\ Len(cmdq) \in Nat
      BY <2>2, <2>3, AppendCmd
    <2> QED BY <2>1, <2>4 DEF TypeOK, Counts
  <1>4. /\ cmdq' \in Seq(Cmds) /\ nfilt' \in 0 .. Len(cmdq')
        /\ m_cmd_waiting' => nfilt' < Len(cmdq')
        /\ nval' \in 0 .. MaxValue /\ value' \in [Parts -> 0 .. MaxValue]
    <2>1. CASE SetNow
      <3>1. nval + 1 \in 0 .. MaxValue /\ nval' = nval + 1
        BY <2>1 DEF SetNow, TypeOK
      <3>2. value' \in [Parts -> 0 .. MaxValue]
        BY <2>1, <3>1 DEF SetNow, TypeOK
      <3>3. UNCHANGED cmdVars
        BY <2>1 DEF SetNow
      <3> QED BY <3>1, <3>2, <3>3 DEF TypeOK, Counts, cmdVars
    <2>2. CASE \E b \in BOOLEAN : RunCode(b)
      BY <2>2 DEF RunCode, TypeOK, Counts, cmdVars, outVars
    <2>3. CASE \E b \in BOOLEAN : SetTtl(b) \/ SetDds(b)
      <3>1. PICK part \in Parts : SendSet(part)
        BY <2>3 DEF SetTtl, SetDds, Parts
      <3> QED BY <3>1, <1>1, <1>3 DEF TypeOK
    <2> QED BY <2>1, <2>2, <2>3
  <1>5. /\ cached' \in None .. MaxValue /\ cbs' \subseteq Clients
        /\ seen' \in [Clients -> [Parts -> None .. MaxValue]]
    <2>1. CASE UNCHANGED <<cacheVars, seen>>
      BY <2>1 DEF TypeOK, cacheVars
    <2>2. CASE ~ UNCHANGED <<cacheVars, seen>>
      <3>1. SendSet("dds") /\ CacheSet(nval + 1)
        BY <2>2 DEF SetNow, RunCode, SetTtl, SetDds, clientVars
      <3>2. nval + 1 \in 0 .. MaxValue
        BY <3>1, <1>3 DEF Parts
      <3> QED BY <3>1, <3>2, CacheSetType
    <2> QED BY <2>1, <2>2
  <1> QED BY <1>1, <1>2, <1>4, <1>5 DEF TypeOK, Counts

\* The frontend's pops and the worker's steps.
LEMMA QueueType ==
  ASSUME TypeOK, Counts,
         \/ PopSeqs \/ PopCmd \/ PopDone \/ Expire \/ NoRequest
         \/ RunCmd \/ TakeResult \/ FinishSeq \/ \E part \in Parts : SeqChange(part)
  PROVE  TypeOK' /\ Counts'
  <1>0. cmdq \in Seq(Cmds) /\ Len(cmdq) \in Nat /\ nfilt \in 0 .. Len(cmdq)
    BY LenProperties DEF TypeOK
  <1>1. CASE PopSeqs \/ PopDone \/ NoRequest \/ FinishSeq
    <2>1. /\ fpc' \in {"poll", "pop", "call"}
          /\ UNCHANGED <<idVars, cmdVars, cacheVars, outVars, clientVars>>
      BY <1>1 DEF PopSeqs, PopDone, NoRequest, FinishSeq, Request, TypeOK
    <2>2. /\ seqs' \in 0 .. MaxSeq /\ done' \in 0 .. seqs' /\ nseq' \in 0 .. MaxSeq
          /\ seqs' <= nseq'
      BY <1>1 DEF PopSeqs, PopDone, NoRequest, FinishSeq, TypeOK, Counts, seqVars
    <2> QED BY <2>1, <2>2 DEF TypeOK, Counts, idVars, cmdVars, cacheVars, outVars, clientVars
  <1>2. CASE Expire
    <2>1. cached' \in None .. MaxValue
      BY <1>2 DEF Expire, None
    <2> QED BY <1>2, <2>1 DEF Expire, TypeOK, Counts, idVars, cmdVars, seqVars, outVars,
                              clientVars
  <1>3. ASSUME NEW part \in Parts, SeqChange(part) PROVE TypeOK' /\ Counts'
    <2>0. nval + 1 \in 0 .. MaxValue /\ nval' = nval + 1
      BY <1>3 DEF SeqChange, TypeOK
    <2>1. nval' \in 0 .. MaxValue /\ value' \in [Parts -> 0 .. MaxValue]
      BY <1>3, <2>0 DEF SeqChange, TypeOK
    <2>2. UNCHANGED <<idVars, seqVars, cmdVars, cacheVars, fpc, clientVars>>
      BY <1>3 DEF SeqChange
    <2> QED BY <2>1, <2>2 DEF TypeOK, Counts, idVars, cmdVars, seqVars, cacheVars, clientVars
  <1>4. CASE TakeResult
    <2>1. /\ ~ m_cmd_waiting' /\ nfilt' = nfilt + 1 /\ nfilt < Len(cmdq)
          /\ UNCHANGED <<idVars, seqVars, cmdq, cacheVars, outVars, fpc, clientVars>>
      BY <1>4 DEF TakeResult, Counts
    <2>2. nfilt' \in 0 .. Len(cmdq)
      BY <1>0, <2>1
    <2>3. m_cmd_waiting' \in BOOLEAN
      BY <1>4 DEF TakeResult
    <2> QED BY <2>1, <2>2, <2>3 DEF TypeOK, Counts, idVars, seqVars, cacheVars, outVars, clientVars
  <1>5. CASE PopCmd
    <2>1. cmdq # <<>> /\ nfilt > 0 /\ cmdq' = Tail(cmdq) /\ nfilt' = nfilt - 1
      BY <1>0, <1>5, EmptySeq DEF PopCmd
    <2>2. /\ Head(cmdq) \in Cmds /\ Tail(cmdq) \in Seq(Cmds)
          /\ Len(Tail(cmdq)) = Len(cmdq) - 1
      BY <1>0, <2>1, HeadTailProperties
    <2>3. cmdq' \in Seq(Cmds) /\ nfilt' \in 0 .. Len(cmdq') /\ Len(cmdq') = Len(cmdq) - 1
      BY <1>0, <2>1, <2>2
    <2>4. /\ cached' \in None .. MaxValue /\ cbs' \subseteq Clients
          /\ seen' \in [Clients -> [Parts -> None .. MaxValue]]
      <3>1. CASE Head(cmdq).kind = "get"
        <4>1. CacheSet(Head(cmdq).val) /\ Head(cmdq).val \in 0 .. MaxValue
          BY <1>5, <2>2, <3>1 DEF PopCmd, Cmds
        <4> QED BY <4>1, CacheSetType
      <3>2. CASE Head(cmdq).kind # "get"
        BY <1>5, <3>2 DEF PopCmd, TypeOK, cacheVars
      <3> QED BY <3>1, <3>2
    <2>5. Counts'
      BY <1>0, <1>5, <2>1, <2>3 DEF PopCmd, Counts, seqVars
    <2> QED BY <1>5, <2>3, <2>4, <2>5 DEF PopCmd, TypeOK, idVars, seqVars, outVars
  <1>6. CASE RunCmd
    <2> DEFINE n == nfilt + 1
               cmd == cmdq[n]
    <2>1. n \in 1 .. Len(cmdq) /\ ~ m_cmd_waiting
      BY <1>0, <1>6 DEF RunCmd
    <2>2. cmd \in Cmds
      BY <1>0, <2>1, ElementOfSeq
    <2>3. CASE cmd.kind # "get"
      <3>1. cmd.kind \in Parts /\ cmd.val \in 0 .. MaxValue
        BY <2>2, <2>3 DEF Cmds
      <3>2. value' = [value EXCEPT ![cmd.kind] = cmd.val] /\ nfilt' = n
            /\ UNCHANGED <<cmdq, m_cmd_waiting>>
        BY <1>6, <2>3 DEF RunCmd
      <3> HIDE DEF cmd
      <3>3. value' \in [Parts -> 0 .. MaxValue]
        BY <3>1, <3>2 DEF TypeOK
      <3> QED BY <1>0, <1>6, <2>1, <3>2, <3>3 DEF RunCmd, TypeOK, Counts, idVars, seqVars,
                                                 cacheVars, clientVars
    <2>4. CASE cmd.kind = "get"
      <3>1. /\ cmdq' = [cmdq EXCEPT ![n] = [cmd EXCEPT !.val = value["dds"]]]
            /\ m_cmd_waiting' = TRUE /\ UNCHANGED <<value, nfilt>>
        BY <1>6, <2>4 DEF RunCmd
      <3>2. [cmd EXCEPT !.val = value["dds"]] \in Cmds
        <4>1. value["dds"] \in 0 .. MaxValue
          BY DEF TypeOK, Parts
        <4> HIDE DEF cmd
        <4> QED BY <2>2, <4>1 DEF Cmds
      <3> HIDE DEF cmd, n
      <3>3. cmdq' \in Seq(Cmds) /\ Len(cmdq') = Len(cmdq)
        BY <1>0, <2>1, <3>1, <3>2, ExceptSeq
      <3>4. nfilt < Len(cmdq)
        BY <1>6 DEF RunCmd
      <3> QED BY <1>0, <1>6, <3>1, <3>3, <3>4 DEF RunCmd, TypeOK, Counts, idVars, seqVars,
                                                 cacheVars, clientVars
    <2> QED BY <2>3, <2>4
  <1> QED BY <1>1, <1>2, <1>3, <1>4, <1>5, <1>6

-----------------------------------------------------------------------------
(* What clients know *)

\* Requests that change values, now or later.
LEMMA ChangeStep ==
  ASSUME IdInv, NEW reads \in BOOLEAN, SetDirty(reads), UNCHANGED <<cid, todo, quiet>>
  PROVE  \A c \in Clients : IdKnown(c)' /\ Tracked(c)'
  <1> SUFFICES ASSUME NEW c \in Clients PROVE IdKnown(c)' /\ Tracked(c)'
    OBVIOUS
  <1>1. IdKnown(c)'
    BY DEF IdInv, IdKnown, SetDirty
  <1>2. Tracked(c)'
    <2> SUFFICES ASSUME Holds(c)'
                 PROVE  m_observed' /\ (m_had_seq' \/ m_dirty')
      BY DEF Tracked
    <2>1. Holds(c)
      BY DEF Holds, SetDirty
    <2>2. m_observed
      BY <2>1 DEF IdInv, Tracked
    <2> QED BY <2>2 DEF SetDirty
  <1> QED BY <1>1, <1>2

\* Steps that leave the ids alone and what is current, current.
LEMMA KeepStep ==
  ASSUME IdInv, UNCHANGED <<idVars, cid, todo, quiet>>,
         \A c \in Clients : Current(c) => Current(c)'
  PROVE  \A c \in Clients : IdKnown(c)' /\ Tracked(c)'
  BY DEF IdInv, IdKnown, Tracked, Holds, idVars

\* The frontend takes a command off the queue.
LEMMA PopKeeps ==
  ASSUME TypeOK, PopCmd, NEW c \in Clients, Current(c)
  PROVE  Current(c)'
  <1>0. cmdq \in Seq(Cmds) /\ Len(cmdq) \in Nat /\ nfilt \in 0 .. Len(cmdq)
    BY LenProperties DEF TypeOK
  <1>1. /\ cmdq # <<>> /\ nfilt > 0 /\ cmdq' = Tail(cmdq) /\ nfilt' = nfilt - 1
        /\ UNCHANGED <<seqs, done, value, m_cmd_waiting, todo>>
    BY <1>0, EmptySeq DEF PopCmd, seqVars, outVars
  <1>2. /\ Len(cmdq') = Len(cmdq) - 1 /\ Head(cmdq) = cmdq[1]
        /\ \A i \in 1 .. Len(cmdq') : cmdq'[i] = cmdq[i + 1] /\ i + 1 \in 1 .. Len(cmdq)
    BY <1>0, <1>1, HeadTailProperties
  <1>3. Quiescent'
    <2> SUFFICES ASSUME NEW i \in nfilt' + 1 .. Len(cmdq') PROVE cmdq'[i].kind = "get"
      BY <1>1 DEF Quiescent, Current
    <2>1. i \in 1 .. Len(cmdq') /\ i + 1 \in nfilt + 1 .. Len(cmdq)
      BY <1>0, <1>1, <1>2
    <2> QED BY <1>2, <2>1 DEF Current, Quiescent
  <1>4. ASSUME OnlyGets PROVE OnlyGets' /\ Head(cmdq).val = value["dds"]
                              /\ Head(cmdq).kind = "get"
    <2>1. 1 \in 1 .. Len(cmdq) /\ 1 <= nfilt
      BY <1>0, <1>1
    <2>2. Head(cmdq).val = value["dds"] /\ Head(cmdq).kind = "get"
      BY <1>2, <1>4, <2>1 DEF OnlyGets, Sent
    <2>3. OnlyGets'
      <3> SUFFICES ASSUME NEW i \in 1 .. Len(cmdq')
                   PROVE  cmdq'[i].kind = "get" /\ (Sent(i)' => cmdq'[i].val = value'["dds"])
        BY DEF OnlyGets
      <3>1. Sent(i)' => Sent(i + 1)
        BY <1>0, <1>1 DEF Sent
      <3> QED BY <1>1, <1>2, <1>4, <3>1 DEF OnlyGets
    <2> QED BY <2>2, <2>3
  <1>5. seen'[c]["now"] = seen[c]["now"]
    <2>1. CASE Head(cmdq).kind = "get"
      <3>1. seen'[c] = IF c \in cbs THEN [seen[c] EXCEPT !["dds"] = Head(cmdq).val] ELSE seen[c]
        BY <2>1 DEF PopCmd, CacheSet
      <3>2. seen[c] \in [Parts -> None .. MaxValue] /\ "now" \in Parts /\ "now" # "dds"
        BY DEF TypeOK, Parts
      <3> QED BY <3>1, <3>2
    <2>2. CASE Head(cmdq).kind # "get"
      BY <2>2 DEF PopCmd
    <2> QED BY <2>1, <2>2
  <1>6. CASE "dds" \notin todo[c] /\ c \in cbs
    <2>1. OnlyGets
      BY <1>6 DEF Current
    <2>2. CacheSet(value["dds"])
      BY <1>4, <2>1 DEF PopCmd
    <2>3. c \notin cbs' /\ seen'[c]["dds"] = value["dds"]
      BY <1>6, <2>2 DEF CacheSet, TypeOK, Parts
    <2> QED BY <1>1, <1>3, <1>5, <2>3 DEF Current
  <1>7. CASE ~ ("dds" \notin todo[c] /\ c \in cbs)
    <2>1. "dds" \notin todo[c] => c \notin cbs'
      BY <1>7 DEF PopCmd, CacheSet, cacheVars
    <2>2. "dds" \notin todo[c] => seen'[c] = seen[c]
      BY <1>7 DEF PopCmd, CacheSet, TypeOK
    <2> QED BY <1>1, <1>3, <1>5, <1>7, <2>1, <2>2 DEF Current
  <1> QED BY <1>6, <1>7

\* The worker carries out a command: with nothing on its way but queries, a query.
LEMMA RunKeeps ==
  ASSUME TypeOK, RunCmd, NEW c \in Clients, Current(c)
  PROVE  Current(c)'
  <1>0. cmdq \in Seq(Cmds) /\ Len(cmdq) \in Nat /\ nfilt \in 0 .. Len(cmdq)
    BY LenProperties DEF TypeOK
  <1>1. ~ m_cmd_waiting /\ nfilt + 1 \in nfilt + 1 .. Len(cmdq) /\ nfilt + 1 \in 1 .. Len(cmdq)
    BY <1>0 DEF RunCmd
  <1>2. cmdq[nfilt + 1].kind = "get"
    BY <1>1 DEF Current, Quiescent
  <1>3. /\ cmdq' = [cmdq EXCEPT ![nfilt + 1] = [cmdq[nfilt + 1] EXCEPT !.val = value["dds"]]]
        /\ m_cmd_waiting' = TRUE
        /\ UNCHANGED <<value, nfilt, seqs, done, todo, seen, cbs>>
    BY <1>2 DEF RunCmd, seqVars, clientVars, cacheVars
  <1>4. cmdq[nfilt + 1] \in Cmds
    BY <1>0, <1>1, ElementOfSeq
  <1>5. [cmdq[nfilt + 1] EXCEPT !.val = value["dds"]].kind = "get"
        /\ [cmdq[nfilt + 1] EXCEPT !.val = value["dds"]].val = value["dds"]
    BY <1>2, <1>4 DEF Cmds
  <1>6. /\ Len(cmdq') = Len(cmdq)
        /\ \A i \in 1 .. Len(cmdq) : i # nfilt + 1 => cmdq'[i] = cmdq[i]
        /\ cmdq'[nfilt + 1].kind = "get" /\ cmdq'[nfilt + 1].val = value["dds"]
    BY <1>0, <1>1, <1>3, <1>5
  <1>7. Quiescent'
    <2> SUFFICES ASSUME NEW i \in nfilt + 1 .. Len(cmdq) PROVE cmdq'[i].kind = "get"
      BY <1>3, <1>6 DEF Quiescent, Current
    <2>1. i \in 1 .. Len(cmdq)
      BY <1>0
    <2> QED BY <1>6, <2>1 DEF Current, Quiescent
  <1>8. OnlyGets => OnlyGets'
    <2> SUFFICES ASSUME OnlyGets, NEW i \in 1 .. Len(cmdq)
                 PROVE  cmdq'[i].kind = "get" /\ (Sent(i)' => cmdq'[i].val = value["dds"])
      BY <1>3, <1>6 DEF OnlyGets
    <2>1. Sent(i)' => Sent(i) \/ i = nfilt + 1
      BY <1>3 DEF Sent
    <2> QED BY <1>6, <2>1 DEF OnlyGets
  <1> QED BY <1>3, <1>7, <1>8 DEF Current

\* The other steps of the frontend and the worker.
LEMMA OthersKeep ==
  ASSUME TypeOK, Counts, NEW c \in Clients, Current(c),
         \/ PopSeqs \/ PopDone \/ Expire \/ NoRequest \/ TakeResult \/ FinishSeq
         \/ \E part \in Parts : SeqChange(part)
  PROVE  Current(c)'
  <1>0. cmdq \in Seq(Cmds) /\ Len(cmdq) \in Nat /\ nfilt \in 0 .. Len(cmdq) /\ seqs = done
    BY LenProperties DEF TypeOK, Current, Quiescent
  <1>1. UNCHANGED <<value, cmdq, todo, seen, cbs>> /\ seqs' = done'
    BY <1>0 DEF PopSeqs, PopDone, Expire, NoRequest, TakeResult, FinishSeq, SeqChange,
                TypeOK, outVars, cmdVars, clientVars, cacheVars, seqVars
  <1>2. CASE TakeResult
    <2>1. m_cmd_waiting /\ ~ m_cmd_waiting' /\ nfilt' = nfilt + 1
      BY <1>2 DEF TakeResult
    <2>2. Quiescent'
      BY <1>0, <1>1, <2>1 DEF Current, Quiescent
    <2>3. \A i \in 1 .. Len(cmdq) : Sent(i)' => Sent(i)
      BY <1>0, <2>1 DEF Sent
    <2>4. OnlyGets => OnlyGets'
      BY <1>1, <2>3 DEF OnlyGets
    <2> QED BY <1>1, <2>2, <2>4 DEF Current
  <1>3. CASE ~ TakeResult
    <2>1. UNCHANGED cmdVars
      BY <1>3 DEF PopSeqs, PopDone, Expire, NoRequest, FinishSeq, SeqChange
    <2> QED BY <1>1, <2>1 DEF cmdVars, Current, Quiescent, OnlyGets, Sent
  <1> QED BY <1>2, <1>3

-----------------------------------------------------------------------------
(* The clients' requests *)

\* A client polls.
LEMMA PollStep == ASSUME IdInv, NEW c \in Clients, PollId(c) PROVE IdInv'
  <1> DEFINE n == CurrentId[2]
  <1>0. /\ GetStateId /\ fpc' = "poll"
        /\ UNCHANGED <<seqVars, cmdVars, cacheVars, outVars>>
        /\ cid' = [cid EXCEPT ![c] = CurrentId]
        /\ Idle(c)
    BY DEF PollId, Request
  <1>1. /\ HasSeq \in BOOLEAN /\ n \in Nat
        /\ CurrentId[1] = 1 <=> HasSeq
        /\ n = m_state_cnt \/ n = m_state_cnt + 1
        /\ n = m_state_cnt => ~ NewId
    BY DEF IdInv, TypeOK, HasSeq, NewId, CurrentId
  <1>2. TypeOK'
    <2>1. cid' \in [Clients -> {0, 1} \X Int]
      <3>1. CurrentId \in {0, 1} \X Int
        BY DEF CurrentId, HasSeq, IdInv, TypeOK
      <3> QED BY <1>0, <3>1 DEF IdInv, TypeOK
    <2>2. m_state_cnt' \in Nat
      BY <1>0, <1>1 DEF GetStateId
    <2>3. m_dirty' \in BOOLEAN /\ m_observed' \in BOOLEAN /\ m_had_seq' \in BOOLEAN
      BY <1>0 DEF GetStateId, HasSeq, IdInv, TypeOK
    <2>4. todo' \in [Clients -> SUBSET Parts]
      BY DEF PollId, IdInv, TypeOK
    <2>5. NoValues \in [Parts -> None .. MaxValue]
      BY DEF NoValues, None
    <2>6. seen' \in [Clients -> [Parts -> None .. MaxValue]]
      BY <2>5 DEF PollId, IdInv, TypeOK
    <2>7. quiet' \in [Clients -> BOOLEAN]
      BY DEF PollId, IdInv, TypeOK
    <2> QED BY <1>0, <2>1, <2>2, <2>3, <2>4, <2>6, <2>7
            DEF IdInv, TypeOK, seqVars, cmdVars, cacheVars, outVars
  <1>3. Counts'
    BY <1>0 DEF IdInv, Counts, seqVars, cmdVars
  <1>4. ASSUME NEW d \in Clients, seen'[d] = seen[d], todo'[d] = todo[d]
        PROVE  Current(d)' <=> Current(d)
    BY <1>0, <1>4 DEF Current, Quiescent, OnlyGets, Sent, seqVars, cmdVars, cacheVars, outVars
  <1>5. ASSUME NEW d \in Clients PROVE IdKnown(d)' /\ Tracked(d)'
    <2>1. m_state_cnt' = n /\ m_had_seq' = HasSeq
      BY <1>0 DEF GetStateId
    <2>2. CASE d = c
      <3>1. cid'[d] = CurrentId
        BY <1>0, <2>2 DEF IdInv, TypeOK
      <3>2. IdKnown(d)'
        BY <3>1, <2>1, <1>1 DEF IdKnown
      <3>3. Tracked(d)'
        <4> SUFFICES ASSUME Holds(d)'
                     PROVE  m_observed' /\ (~ m_had_seq' /\ ~ m_dirty' => Current(d)')
          BY DEF Tracked
        <4>1. CurrentId = cid[d] /\ ~ HasSeq /\ UNCHANGED <<seen, todo, quiet>>
          BY <2>2, <1>1 DEF Holds, IdInv, TypeOK, PollId
        <4>2. cid[d][2] = m_state_cnt /\ n = m_state_cnt
          BY <4>1, <1>1 DEF IdInv, IdKnown, TypeOK
        <4>3. ~ NewId
          BY <4>2, <1>1
        <4>4. Holds(d)
          BY <4>1, <4>2 DEF Holds
        <4>5. m_observed /\ ~ m_dirty /\ ~ m_had_seq
          BY <4>1, <4>3, <4>4, <1>1 DEF IdInv, Tracked, NewId, TypeOK
        <4>6. Current(d)
          BY <4>4, <4>5 DEF IdInv, Tracked
        <4>7. Current(d)'
          BY <1>4, <4>1, <4>6
        <4> QED BY <1>0, <4>3, <4>5, <4>7 DEF GetStateId
      <3> QED BY <3>2, <3>3
    <2>3. CASE d # c
      <3>1. /\ cid'[d] = cid[d] /\ cid[d][2] \in Int
            /\ todo'[d] = todo[d] /\ seen'[d] = seen[d] /\ quiet'[d] = quiet[d]
        BY <2>3 DEF PollId, IdInv, TypeOK
      <3>2. CASE n = m_state_cnt
        <4>1. m_had_seq' = m_had_seq /\ m_observed' = m_observed /\ ~ m_dirty
          BY <1>0, <3>2, <1>1 DEF NewId, GetStateId, IdInv, TypeOK
        <4>2. Current(d)' <=> Current(d)
          BY <1>4, <3>1
        <4> QED BY <3>1, <3>2, <2>1, <4>1, <4>2 DEF IdInv, IdKnown, Tracked, Holds
      <3>3. CASE n = m_state_cnt + 1
        BY <3>1, <3>3, <2>1 DEF IdInv, IdKnown, Tracked, Holds, TypeOK
      <3> QED BY <3>2, <3>3, <1>1
    <2> QED BY <2>2, <2>3
  <1> QED BY <1>2, <1>3, <1>5 DEF IdInv

\* A client reads the values that are there at once.
LEMMA FetchNowStep == ASSUME IdInv, NEW c \in Clients, FetchNow(c) PROVE IdInv'
  <1> USE DEF FetchNow, Request, SetObserved
  <1>0. /\ seen \in [Clients -> [Parts -> None .. MaxValue]]
        /\ todo \in [Clients -> SUBSET Parts] /\ "now" \in Parts /\ "now" # "dds"
        /\ value["now"] \in None .. MaxValue
    BY DEF IdInv, TypeOK, Parts, None
  <1>1. TypeOK'
    <2>1. quiet' \in [Clients -> BOOLEAN]
      BY DEF IdInv, TypeOK
    <2>2. seen' \in [Clients -> [Parts -> None .. MaxValue]]
      BY <1>0
    <2>3. todo' \in [Clients -> SUBSET Parts]
      BY <1>0
    <2> QED BY <2>1, <2>2, <2>3 DEF IdInv, TypeOK, seqVars, cmdVars, cacheVars, outVars
  <1>2. Counts'
    BY DEF IdInv, Counts, seqVars, cmdVars
  <1>3. Quiescent' = Quiescent /\ OnlyGets' = OnlyGets /\ value' = value /\ cbs' = cbs
    BY DEF Quiescent, OnlyGets, Sent, seqVars, cmdVars, cacheVars, outVars
  <1>4. ASSUME NEW d \in Clients PROVE IdKnown(d)' /\ Tracked(d)'
    <2>1. IdKnown(d)'
      BY DEF IdInv, IdKnown
    <2>2. CASE d = c
      <3> SUFFICES ASSUME Holds(c)' PROVE m_observed' /\ (~ m_had_seq' /\ ~ m_dirty' => Current(c)')
        BY <2>1, <2>2 DEF Tracked
      <3>1. quiet[c] /\ Quiescent
        BY DEF IdInv, TypeOK, Holds
      <3>2. /\ todo'[c] = todo[c] \ {"now"} /\ seen'[c]["now"] = value["now"]
            /\ seen'[c]["dds"] = seen[c]["dds"]
        BY <1>0
      <3>3. "dds" \notin todo[c] => todo[c] # Parts
        BY DEF Parts
      <3>4. "dds" \notin todo[c] /\ ~ m_had_seq /\ ~ m_dirty => Current(c)
        BY <3>1, <3>3 DEF IdInv, Tracked, Holds
      <3>5. "dds" \in todo'[c] <=> "dds" \in todo[c]
        BY <1>0, <3>2
      <3> QED BY <1>3, <3>1, <3>2, <3>4, <3>5 DEF Current
    <2>3. CASE d # c
      <3>1. quiet'[d] = quiet[d] /\ seen'[d] = seen[d] /\ todo'[d] = todo[d]
        BY <2>3 DEF IdInv, TypeOK
      <3>2. Current(d) => Current(d)'
        BY <1>3, <3>1 DEF Current
      <3> QED BY <2>1, <3>1, <3>2 DEF IdInv, Tracked, Holds
    <2> QED BY <2>2, <2>3
  <1> QED BY <1>1, <1>2, <1>4 DEF IdInv

\* A client asks for the DDSs: the cache, or a query.
LEMMA FetchDdsStep == ASSUME IdInv, NEW c \in Clients, FetchDds(c) PROVE IdInv'
  <1> USE DEF Request, SetObserved
  <1>0. /\ seen \in [Clients -> [Parts -> None .. MaxValue]]
        /\ todo \in [Clients -> SUBSET Parts] /\ "dds" \in Parts /\ "now" # "dds"
        /\ cached \in None .. MaxValue
        /\ cmdq \in Seq(Cmds) /\ Len(cmdq) \in Nat /\ nfilt \in 0 .. Len(cmdq)
        /\ m_cmd_waiting => nfilt < Len(cmdq)
    BY LenProperties DEF IdInv, TypeOK, Counts, Parts
  <1>1. /\ UNCHANGED <<m_state_cnt, m_dirty, m_had_seq, seqVars, nfilt, m_cmd_waiting,
                       cached, outVars, cid>>
        /\ m_observed' = TRUE /\ fpc' = "poll"
        /\ todo' = [todo EXCEPT ![c] = @ \ {"dds"}]
        /\ quiet' = [quiet EXCEPT ![c] = @ /\ cached = None /\ cmdq = <<>> /\ seqs = done]
    BY DEF FetchDds
  <1>2. Cmd("get", 0) \in Cmds /\ Cmd("get", 0).kind = "get"
    BY DEF Cmd, Cmds, Parts
  <1>3. /\ cmdq' \in Seq(Cmds) /\ Len(cmdq') \in {Len(cmdq), Len(cmdq) + 1}
        /\ \A i \in 1 .. Len(cmdq) : cmdq'[i] = cmdq[i]
        /\ Len(cmdq') = Len(cmdq) + 1 => cmdq'[Len(cmdq) + 1].kind = "get"
    <2>1. CASE cmdq' = cmdq
      BY <1>0, <2>1
    <2>2. CASE cmdq' # cmdq
      <3> DEFINE x == Cmd("get", 0)
      <3>1. cmdq' = Append(cmdq, x)
        BY <2>2 DEF FetchDds
      <3> HIDE DEF x
      <3>2. x \in Cmds /\ x.kind = "get"
        BY <1>2 DEF x
      <3> QED BY <1>0, <3>1, <3>2, AppendCmd
    <2> QED BY <2>1, <2>2
  <1>4. cbs' \subseteq Clients /\ (cbs' = cbs \/ cbs' = cbs \cup {c})
    BY DEF FetchDds, IdInv, TypeOK
  <1>5. seen' \in [Clients -> [Parts -> None .. MaxValue]]
    <2>1. CASE cached # None
      <3>1. seen' = [seen EXCEPT ![c] = [seen[c] EXCEPT !["dds"] = cached]]
        BY <2>1 DEF FetchDds
      <3>2. [seen[c] EXCEPT !["dds"] = cached] \in [Parts -> None .. MaxValue]
        BY <1>0
      <3> QED BY <1>0, <3>1, <3>2
    <2>2. CASE cached = None
      BY <1>0, <2>2 DEF FetchDds
    <2> QED BY <2>1, <2>2
  <1>6. TypeOK' /\ Counts'
    <2>1. quiet' \in [Clients -> BOOLEAN]
      BY <1>1 DEF IdInv, TypeOK
    <2>2. todo' \in [Clients -> SUBSET Parts]
      BY <1>0, <1>1
    <2>3. nfilt' \in 0 .. Len(cmdq') /\ (m_cmd_waiting' => nfilt' < Len(cmdq'))
      BY <1>0, <1>1, <1>3
    <2>4. TypeOK'
      BY <1>1, <1>3, <1>4, <1>5, <2>1, <2>2, <2>3 DEF IdInv, TypeOK, seqVars, outVars
    <2> QED BY <1>1, <2>3, <2>4 DEF IdInv, Counts, seqVars
  <1>7. Quiescent => Quiescent'
    <2> SUFFICES ASSUME Quiescent, NEW i \in nfilt + 1 .. Len(cmdq') PROVE cmdq'[i].kind = "get"
      BY <1>1 DEF Quiescent, seqVars
    <2>1. CASE i \in nfilt + 1 .. Len(cmdq)
      <3>1. i \in 1 .. Len(cmdq)
        BY <1>0, <2>1
      <3>2. cmdq[i].kind = "get"
        BY <2>1 DEF Quiescent
      <3> QED BY <1>3, <3>1, <3>2
    <2>2. CASE i \notin nfilt + 1 .. Len(cmdq)
      <3>1. Len(cmdq') = Len(cmdq) + 1 /\ i = Len(cmdq) + 1
        BY <1>0, <1>3, <2>2
      <3> QED BY <1>3, <3>1
    <2> QED BY <2>1, <2>2
  <1>8. OnlyGets => OnlyGets'
    <2> SUFFICES ASSUME OnlyGets, NEW i \in 1 .. Len(cmdq')
                 PROVE  cmdq'[i].kind = "get" /\ (Sent(i)' => cmdq'[i].val = value'["dds"])
      BY DEF OnlyGets
    <2>1. CASE i \in 1 .. Len(cmdq)
      BY <1>1, <1>3, <2>1 DEF OnlyGets, Sent, outVars
    <2>2. CASE i \notin 1 .. Len(cmdq)
      <3>1. Len(cmdq') = Len(cmdq) + 1 /\ i = Len(cmdq) + 1
        BY <1>0, <1>3, <2>2
      <3>2. ~ Sent(i)'
        BY <1>0, <1>1, <3>1 DEF Sent
      <3> QED BY <1>3, <3>1, <3>2
    <2> QED BY <2>1, <2>2
  <1>9. ASSUME NEW d \in Clients PROVE IdKnown(d)' /\ Tracked(d)'
    <2>1. IdKnown(d)'
      BY <1>1 DEF IdInv, IdKnown
    <2>2. CASE d = c
      <3> SUFFICES ASSUME Holds(c)', ~ m_had_seq, ~ m_dirty PROVE Current(c)'
        BY <1>1, <2>1, <2>2 DEF Tracked
      <3>1. quiet[c] /\ cached = None /\ cmdq = <<>> /\ seqs = done
        BY <1>1 DEF IdInv, TypeOK, Holds
      <3>2. seen' = seen /\ c \in cbs' /\ todo'[c] = todo[c] \ {"dds"}
        BY <1>0, <1>1, <3>1 DEF FetchDds
      <3>3. Len(cmdq) = 0
        BY <3>1
      <3>4. Quiescent /\ OnlyGets
        BY <3>1, <3>3, <1>0 DEF Quiescent, OnlyGets
      <3>5. "now" \notin todo'[c] => seen[c]["now"] = value["now"]
        <4> SUFFICES ASSUME "now" \notin todo[c] PROVE seen[c]["now"] = value["now"]
          BY <1>0, <3>2
        <4>1. todo[c] # Parts
          BY DEF Parts
        <4>2. Holds(c)
          BY <1>1, <3>1, <4>1 DEF Holds
        <4> QED BY <4>2 DEF IdInv, Tracked, Current
      <3> QED BY <1>1, <1>7, <1>8, <3>2, <3>4, <3>5 DEF Current, outVars
    <2>3. CASE d # c
      <3>1. quiet'[d] = quiet[d] /\ todo'[d] = todo[d]
        BY <1>1, <2>3 DEF IdInv, TypeOK
      <3>2. seen'[d] = seen[d] /\ (d \in cbs' <=> d \in cbs)
        BY <1>4, <2>3 DEF FetchDds, IdInv, TypeOK
      <3>3. Current(d) => Current(d)'
        BY <1>1, <1>7, <1>8, <3>1, <3>2 DEF Current, outVars
      <3> QED BY <1>1, <2>1, <3>1, <3>3 DEF IdInv, Tracked, Holds
    <2> QED BY <2>2, <2>3
  <1> QED BY <1>6, <1>9 DEF IdInv

\* A stuttering step.
LEMMA StutterStep == IdInv /\ UNCHANGED vars => IdInv'
  <1> SUFFICES ASSUME IdInv, UNCHANGED vars PROVE IdInv'
    OBVIOUS
  <1> USE DEF vars, idVars, seqVars, cmdVars, cacheVars, outVars, clientVars
  <1>1. TypeOK' /\ Counts'
    BY DEF IdInv, TypeOK, Counts
  <1>2. \A c \in Clients : IdKnown(c)' /\ Tracked(c)'
    BY DEF IdInv, IdKnown, Tracked, Holds, Current, Quiescent, OnlyGets, Sent
  <1> QED BY <1>1, <1>2 DEF IdInv

\* Every step keeps the invariant.
LEMMA IdStep == IdInv /\ [Next]_vars => IdInv'
  <1> SUFFICES ASSUME IdInv, [Next]_vars PROVE IdInv'
    OBVIOUS
  <1>0. TypeOK /\ Counts
    BY DEF IdInv
  <1>1. CASE SetNow \/ \E b \in BOOLEAN : RunCode(b) \/ SetTtl(b) \/ SetDds(b)
    <2>1. TypeOK' /\ Counts'
      BY <1>0, <1>1, RequestType
    <2>2. PICK reads \in BOOLEAN : SetDirty(reads) /\ UNCHANGED <<cid, todo, quiet>>
      BY <1>1 DEF SetNow, RunCode, SetTtl, SetDds, clientVars
    <2> QED BY <2>1, <2>2, ChangeStep DEF IdInv
  <1>2. CASE \/ PopSeqs \/ PopCmd \/ PopDone \/ Expire \/ NoRequest
             \/ RunCmd \/ TakeResult \/ FinishSeq \/ \E part \in Parts : SeqChange(part)
    <2>1. TypeOK' /\ Counts'
      BY <1>0, <1>2, QueueType
    <2>2. UNCHANGED <<idVars, cid, todo, quiet>>
      BY <1>2 DEF PopSeqs, PopCmd, PopDone, Expire, NoRequest, RunCmd, TakeResult, FinishSeq,
                  SeqChange, clientVars
    <2>3. \A c \in Clients : Current(c) => Current(c)'
      BY <1>0, <1>2, PopKeeps, RunKeeps, OthersKeep
    <2> QED BY <2>1, <2>2, <2>3, KeepStep DEF IdInv
  <1>3. CASE \E c \in Clients : PollId(c) \/ FetchNow(c) \/ FetchDds(c)
    BY <1>3, PollStep, FetchNowStep, FetchDdsStep
  <1> QED BY <1>1, <1>2, <1>3, StutterStep DEF Next

\* The inductive invariant: a client that has fetched for the id that is still in use
\* keeps the interface observed, and as long as nothing was invalidated what it holds
\* is current and what its query will bring is too.
THEOREM StateIdInvariant == Spec => []IdInv
  BY IdInit, IdStep, PTL DEF Spec

\* Values fetched while nothing was on its way, the DDS ones by the client's own
\* query, stay current as long as the id does, for any number of clients sharing the
\* one m_observed, m_dirty and cache.
THEOREM QuietFetchTheorem == Spec => []QuietFetchStaysCurrent
  <1>1. IdInv => QuietFetchStaysCurrent
    <2> SUFFICES ASSUME IdInv, NEW c \in Clients, quiet[c], LooksCurrent(c), Quiescent
                 PROVE  seen[c] = value
      BY DEF QuietFetchStaysCurrent
    <2>1. ~ HasSeq
      BY DEF Quiescent, HasSeq, IdInv, TypeOK
    <2>2. cid[c] = CurrentId /\ cid[c][2] <= m_state_cnt /\ todo[c] = {} /\ c \notin cbs
      BY DEF LooksCurrent, Idle, IdInv, IdKnown
    <2>3. ~ NewId /\ cid[c][2] = m_state_cnt
      BY <2>2 DEF CurrentId, IdInv, TypeOK
    <2>4. ~ m_dirty /\ ~ m_had_seq
      BY <2>1, <2>3 DEF NewId, IdInv, TypeOK, HasSeq
    <2>5. Holds(c)
      BY <2>2, <2>3 DEF Holds, Parts
    <2>6. Current(c)
      BY <2>4, <2>5 DEF IdInv, Tracked
    <2>7. seen[c]["now"] = value["now"] /\ seen[c]["dds"] = value["dds"]
      BY <2>2, <2>6 DEF Current
    <2>8. seen[c] \in [Parts -> None .. MaxValue] /\ value \in [Parts -> 0 .. MaxValue]
      BY DEF IdInv, TypeOK
    <2>9. \A p \in Parts : seen[c][p] = value[p]
      BY <2>7 DEF Parts
    <2> QED BY <2>8, <2>9
  <1> QED BY <1>1, StateIdInvariant, PTL

\* The ids a client gets only grow; the running bit has no life of its own.
THEOREM IdsMoveForwardTheorem == Spec => IdsMoveForward
  <1>1. IdInv /\ [Next]_vars =>
          [\A c \in Clients : cid'[c] # cid[c] => cid'[c][2] > cid[c][2]]_vars
    <2> SUFFICES ASSUME IdInv, Next, NEW c \in Clients, cid'[c] # cid[c]
                 PROVE  cid'[c][2] > cid[c][2]
      OBVIOUS
    <2>1. PICK d \in Clients : PollId(d)
      BY DEF Next, PopSeqs, PopCmd, PopDone, Expire, NoRequest, SetNow, RunCode, SetTtl,
             SetDds, FetchNow, FetchDds, RunCmd, TakeResult, SeqChange, FinishSeq, clientVars
    <2>2. cid'[c] = CurrentId
      BY <2>1 DEF PollId, IdInv, TypeOK
    <2>3. cid[c] \in {0, 1} \X Int /\ m_state_cnt \in Nat
      BY DEF IdInv, TypeOK
    <2>4. CASE NewId
      BY <2>2, <2>3, <2>4 DEF CurrentId, IdInv, IdKnown
    <2>5. CASE ~ NewId
      <3>1. CurrentId = <<IF m_had_seq THEN 1 ELSE 0, m_state_cnt>>
        BY <2>5 DEF CurrentId, NewId, HasSeq, IdInv, TypeOK
      <3>2. cid[c][2] # m_state_cnt
        BY <2>2, <2>3, <3>1 DEF IdInv, IdKnown
      <3> QED BY <2>2, <2>3, <3>1, <3>2 DEF IdInv, IdKnown
    <2> QED BY <2>4, <2>5
  <1> QED BY <1>1, StateIdInvariant, PTL DEF Spec, IdsMoveForward
=============================================================================
