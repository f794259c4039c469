---------------------------- MODULE DdsCmdProofs ----------------------------
(***************************************************************************)
(* Proofs about DdsCmd, for any requests, values and bounds.               *)
(*                                                                         *)
(* The invariant has a part for each of the places a command goes through: *)
(* the cache, where a callback is parked exactly for the parameters its    *)
(* request has no value for; the queue, whose first command that is not    *)
(* forwarded owns the one result there can be; and the registers, which an *)
(* override pins until the board loses them.  PendingHasQuery ties the     *)
(* cache to the queue.                                                     *)
(***************************************************************************)
EXTENDS DdsCmd, SequenceTheorems, TLAPS

CacheType ==
  /\ fresh \in [Ops -> BOOLEAN] /\ cbs \in [Ops -> SUBSET Reqs] /\ oval \in [Ops -> 0 .. Off]
  /\ asked \subseteq Reqs /\ open \in [Reqs -> SUBSET Ops] /\ nreply \in [Reqs -> 0 .. 2]

CountType ==
  fpc \in {"call", "pop"} /\ nset \in 0 .. MaxSets /\ nreset \in 0 .. MaxResets

QueueType ==
  /\ cmdq \in Seq(Cmds) /\ nfilt \in 0 .. Len(cmdq)
  /\ m_cmd_waiting \in BOOLEAN /\ results \in Seq(Ops \X (0 .. Off))

RegType ==
  /\ m_dds_ovr \in [Ops -> 0 .. Off] /\ hw \in [Ops -> 0 .. Off]
  /\ m_dds_phase \in 0 .. W16 - 1 /\ m_dds_pending_reset \in BOOLEAN
  /\ m_dds_exist \in BOOLEAN /\ board \in {"ready", "blank", "out"} /\ lost \subseteq Ops

LoopType ==
  /\ wpc \in {"top", "drain", "seq", "end", "proc", "det"}
  /\ nseq \in 0 .. MaxSeqs /\ nloss \in 0 .. MaxLosses

\* A request that was not sent waits for nothing.
Unasked == \A r \in Reqs \ asked : open[r] = {}

\* A command other than a reset is for a parameter of the channel.
GoodCmds == \A i \in 1 .. Len(cmdq) : cmdq[i].kind # "reset" => cmdq[i].op \in Ops

\* No register of a board that is not there holds anything.
OutIsLost == board = "out" => lost = Ops

CacheInv == CacheType /\ Unasked /\ OneReplyPerGet
QueueInv == QueueType /\ GoodCmds /\ ResultIsForWaiting
RegInv == RegType /\ OutIsLost /\ OverrideHolds
DdsInv == CacheInv /\ CountType /\ QueueInv /\ RegInv /\ LoopType /\ PendingHasQuery

USE DdsConstants DEF Off, W32, W16, W12

-----------------------------------------------------------------------------
(* The cache.                                                              *)

\* CmdCache::set answers the callbacks of an entry and leaves none behind; a request whose
\* last value this was has its one reply.
LEMMA CacheSetStep ==
  ASSUME CacheInv, NEW op \in Ops, NEW val \in 0 .. Off, CacheSet(op, val)
  PROVE  /\ CacheInv'
         /\ cbs'[op] = {} /\ \A o \in Ops \ {op} : cbs'[o] = cbs[o]
  <1> USE DEF CacheInv, CacheSet
  <1>1. /\ fresh' \in [Ops -> BOOLEAN] /\ cbs' \in [Ops -> SUBSET Reqs]
        /\ oval' \in [Ops -> 0 .. Off]
    BY DEF CacheType
  <1>2. cbs'[op] = {} /\ \A o \in Ops \ {op} : cbs'[o] = cbs[o]
    BY DEF CacheType
  <1>3. asked' = asked
    BY DEF Answer
  <1>4. ASSUME NEW r \in Reqs
        PROVE  /\ open'[r] = open[r] \ {op}
               /\ nreply'[r] = IF r \in asked /\ open[r] \ {op} = {} THEN 1 ELSE 0
    <2>1. r \in cbs[op] <=> op \in open[r]
      BY DEF OneReplyPerGet
    <2>2. nreply[r] = IF r \in asked /\ open[r] = {} THEN 1 ELSE 0
      BY DEF OneReplyPerGet
    <2>3. r \notin asked => open[r] = {}
      BY DEF Unasked
    <2>4. /\ open'[r] = IF r \in cbs[op] THEN open[r] \ {op} ELSE open[r]
          /\ nreply'[r] = IF r \in cbs[op] /\ open[r] \ {op} = {} /\ nreply[r] < 2
                          THEN nreply[r] + 1 ELSE nreply[r]
      BY DEF Answer
    <2>5. CASE op \in open[r]
      BY <2>1, <2>2, <2>3, <2>4, <2>5
    <2>6. CASE op \notin open[r]
      <3>1. open[r] \ {op} = open[r]
        BY <2>6
      <3> QED BY <3>1, <2>1, <2>2, <2>4, <2>6
    <2> QED BY <2>5, <2>6
  <1>5. open' \in [Reqs -> SUBSET Ops] /\ nreply' \in [Reqs -> 0 .. 2]
    <2>1. open' = [r \in Reqs |-> open'[r]] /\ nreply' = [r \in Reqs |-> nreply'[r]]
      BY DEF Answer
    <2>2. \A r \in Reqs : open'[r] \in SUBSET Ops /\ nreply'[r] \in 0 .. 2
      BY <1>4 DEF CacheType
    <2> QED BY <2>1, <2>2
  <1>6. CacheType'
    BY <1>1, <1>3, <1>5 DEF CacheType
  <1>7. Unasked'
    BY <1>3, <1>4 DEF Unasked
  <1>8. OneReplyPerGet'
    <2> SUFFICES ASSUME NEW r \in Reqs, NEW o \in Ops
                 PROVE  /\ nreply'[r] = IF r \in asked' /\ open'[r] = {} THEN 1 ELSE 0
                        /\ r \in cbs'[o] <=> o \in open'[r]
      BY <1>3, <1>4 DEF OneReplyPerGet
    <2>1. r \in cbs[o] <=> o \in open[r]
      BY DEF OneReplyPerGet
    <2> QED BY <2>1, <1>2, <1>3, <1>4
  <1> QED BY <1>2, <1>6, <1>7, <1>8

\* get_dds parks a callback for each parameter that is not fresh, and replies at once if
\* there is none.
LEMMA GetDdsCache ==
  ASSUME CacheInv, NEW r \in Reqs, NEW os \in SUBSET Ops, GetDds(r, os)
  PROVE  CacheInv'
  <1> DEFINE parked == {o \in os : ~ fresh[o]}
  <1> USE DEF CacheInv
  <1>1. /\ r \notin asked /\ asked' = asked \cup {r}
        /\ open' = [open EXCEPT ![r] = parked]
        /\ nreply' = [nreply EXCEPT ![r] = IF parked = {} THEN 1 ELSE 0]
        /\ cbs' = [o \in Ops |-> IF o \in parked THEN cbs[o] \cup {r} ELSE cbs[o]]
        /\ fresh' = fresh /\ oval' = oval
    BY DEF GetDds
  <1>2. parked \in SUBSET Ops
    OBVIOUS
  <1> HIDE DEF parked
  <1>3. CacheType'
    <2>1. cbs' \in [Ops -> SUBSET Reqs]
      BY <1>1 DEF CacheType
    <2>2. open' \in [Reqs -> SUBSET Ops] /\ nreply' \in [Reqs -> 0 .. 2]
      BY <1>1, <1>2 DEF CacheType
    <2> QED BY <2>1, <2>2, <1>1 DEF CacheType
  <1>4. Unasked'
    BY <1>1 DEF Unasked, CacheType
  <1>5. OneReplyPerGet'
    <2>1. open[r] = {} /\ \A o \in Ops : r \notin cbs[o]
      BY <1>1 DEF Unasked, OneReplyPerGet
    <2> SUFFICES ASSUME NEW q \in Reqs, NEW o \in Ops
                 PROVE  /\ nreply'[q] = IF q \in asked' /\ open'[q] = {} THEN 1 ELSE 0
                        /\ q \in cbs'[o] <=> o \in open'[q]
      BY <1>1 DEF OneReplyPerGet, CacheType
    <2>2. CASE q = r
      BY <2>1, <2>2, <1>1, <1>2 DEF CacheType
    <2>3. CASE q # r
      <3>1. nreply[q] = IF q \in asked /\ open[q] = {} THEN 1 ELSE 0
        BY DEF OneReplyPerGet
      <3>2. q \in cbs[o] <=> o \in open[q]
        BY DEF OneReplyPerGet
      <3>3. nreply'[q] = nreply[q] /\ open'[q] = open[q]
        BY <2>3, <1>1 DEF CacheType
      <3> QED BY <3>1, <3>2, <3>3, <2>3, <1>1
    <2> QED BY <2>2, <2>3
  <1> QED BY <1>3, <1>4, <1>5

-----------------------------------------------------------------------------
(* The queue.                                                              *)

\* A query for o is on its way: PendingHasQuery is about the entries with callbacks.
Queried(o) == \E i \in 1 .. Len(cmdq) : cmdq[i].kind = "get" /\ cmdq[i].op = o

\* Commands for the channel that are put at the end of the queue disturb nothing before.
LEMMA QueueGrows ==
  ASSUME QueueInv, NEW q \in Seq(Cmds), cmdq' = cmdq \o q,
         \A i \in 1 .. Len(q) : q[i].kind # "reset" => q[i].op \in Ops,
         UNCHANGED <<nfilt, resVars>>
  PROVE  /\ QueueInv'
         /\ \A o \in Ops : Queried(o) => Queried(o)'
         /\ \A o \in Ops : (\E i \in 1 .. Len(q) : q[i].kind = "get" /\ q[i].op = o)
                             => Queried(o)'
  <1> USE DEF QueueInv, resVars
  <1>1. cmdq \in Seq(Cmds) /\ nfilt \in 0 .. Len(cmdq) /\ Len(cmdq) \in Nat /\ Len(q) \in Nat
    BY LenProperties DEF QueueType
  <1>2. /\ cmdq' \in Seq(Cmds) /\ Len(cmdq') = Len(cmdq) + Len(q)
        /\ \A i \in 1 .. Len(cmdq) + Len(q) :
             cmdq'[i] = IF i <= Len(cmdq) THEN cmdq[i] ELSE q[i - Len(cmdq)]
    BY <1>1, ConcatProperties
  <1> DEFINE n == Len(cmdq)
             k == Len(q)
  <1>3. /\ \A i \in 1 .. n : i \in 1 .. n + k /\ cmdq'[i] = cmdq[i]
        /\ \A i \in 1 .. k : n + i \in 1 .. n + k /\ cmdq'[n + i] = q[i]
        /\ \A i \in 1 .. n + k : i \in 1 .. n \/ i - n \in 1 .. k
    <2>1. n \in Nat /\ k \in Nat
      BY <1>1
    <2>2. \A i \in 1 .. n + k : cmdq'[i] = IF i <= n THEN cmdq[i] ELSE q[i - n]
      BY <1>2
    <2> HIDE DEF n, k
    <2>3. ASSUME NEW i \in 1 .. n PROVE i \in 1 .. n + k /\ cmdq'[i] = cmdq[i]
      <3>1. i \in 1 .. n + k /\ i <= n
        BY <2>1
      <3> QED BY <3>1, <2>2
    <2>4. ASSUME NEW i \in 1 .. k PROVE n + i \in 1 .. n + k /\ cmdq'[n + i] = q[i]
      <3>1. n + i \in 1 .. n + k /\ ~ (n + i <= n) /\ (n + i) - n = i
        BY <2>1
      <3> QED BY <3>1, <2>2
    <2>5. \A i \in 1 .. n + k : i \in 1 .. n \/ i - n \in 1 .. k
      BY <2>1
    <2> QED BY <2>3, <2>4, <2>5
  <1>4. QueueType'
    <2>1. nfilt' \in 0 .. Len(cmdq')
      BY <1>1, <1>2
    <2> QED BY <2>1, <1>2 DEF QueueType
  <1>5. GoodCmds'
    <2> SUFFICES ASSUME NEW i \in 1 .. n + k, cmdq'[i].kind # "reset"
                 PROVE  cmdq'[i].op \in Ops
      BY <1>2 DEF GoodCmds
    <2>1. CASE i \in 1 .. n
      BY <2>1, <1>3 DEF GoodCmds
    <2>2. CASE i \notin 1 .. n
      <3>1. cmdq'[i] = q[i - n] /\ i - n \in 1 .. k
        BY <2>2, <1>1, <1>2, <1>3
      <3> QED BY <3>1
    <2> QED BY <2>1, <2>2
  <1>6. ResultIsForWaiting'
    <2>1. CASE m_cmd_waiting
      <3>1. nfilt < n /\ nfilt + 1 \in 1 .. n
        BY <2>1, <1>1 DEF ResultIsForWaiting
      <3>2. cmdq'[nfilt + 1] = cmdq[nfilt + 1]
        BY <3>1, <1>3
      <3>3. nfilt < n + k
        BY <3>1, <1>1
      <3> QED BY <2>1, <3>2, <3>3, <1>2 DEF ResultIsForWaiting
    <2>2. CASE ~ m_cmd_waiting
      BY <2>2 DEF ResultIsForWaiting
    <2> QED BY <2>1, <2>2
  <1>7. \A o \in Ops : Queried(o) => Queried(o)'
    BY <1>2, <1>3 DEF Queried
  <1>8. ASSUME NEW o \in Ops, NEW i \in 1 .. Len(q), q[i].kind = "get", q[i].op = o
        PROVE  Queried(o)'
    <2>1. n + i \in 1 .. Len(cmdq') /\ cmdq'[n + i] = q[i]
      BY <1>2, <1>3
    <2> QED BY <2>1, <1>8 DEF Queried
  <1> QED BY <1>4, <1>5, <1>6, <1>7, <1>8

\* send_cmd.
LEMMA SendCmdStep ==
  ASSUME QueueInv, NEW c \in Cmds, c.kind # "reset" => c.op \in Ops,
         SendCmd(c), UNCHANGED resVars
  PROVE  QueueInv' /\ \A o \in Ops : Queried(o) => Queried(o)'
  <1>1. cmdq \in Seq(Cmds)
    BY DEF QueueInv, QueueType
  <1>2. cmdq' = cmdq \o <<c>> /\ nfilt' = nfilt
    BY <1>1, AppendIsConcat DEF SendCmd
  <1>3. <<c>> \in Seq(Cmds) /\ Len(<<c>>) = 1 /\ <<c>>[1] = c
    OBVIOUS
  <1>4. \A i \in 1 .. Len(<<c>>) : <<c>>[i].kind # "reset" => <<c>>[i].op \in Ops
    BY <1>3
  <1> QED BY <1>2, <1>3, <1>4, QueueGrows

\* One query or none.
LEMMA QueryProperties ==
  ASSUME NEW os \in SUBSET Ops, NEW o \in AllOps,
         NEW s, s = IF o \in NeedQuery(os) THEN <<Cmd(o, "get", 0)>> ELSE <<>>
  PROVE  /\ s \in Seq(Cmds)
         /\ \A i \in 1 .. Len(s) : s[i] = Cmd(o, "get", 0) /\ o \in os
         /\ o \in NeedQuery(os) => Len(s) = 1 /\ s[1] = Cmd(o, "get", 0)
  <1>1. CASE o \in NeedQuery(os)
    <2>1. o \in os /\ Cmd(o, "get", 0) \in Cmds
      BY <1>1 DEF NeedQuery, Cmd, Cmds
    <2>2. s \in Seq(Cmds) /\ Len(s) = 1 /\ s[1] = Cmd(o, "get", 0)
      BY <2>1, <1>1
    <2> QED BY <2>1, <2>2
  <1>2. CASE o \notin NeedQuery(os)
    <2>1. s = <<>>
      BY <1>2
    <2>2. s \in Seq(Cmds) /\ Len(s) = 0
      BY <2>1, EmptySeq
    <2> QED BY <2>2, <1>2
  <1> QED BY <1>1, <1>2

\* The queries of a get_dds request are gets of parameters of the channel, and there is
\* one for each parameter that needs it.
LEMMA QueriesProperties ==
  ASSUME NEW os \in SUBSET Ops
  PROVE  LET q == Queries(os) IN
         /\ q \in Seq(Cmds)
         /\ \A i \in 1 .. Len(q) : q[i].kind = "get" /\ q[i].op \in Ops
         /\ \A o \in NeedQuery(os) : \E i \in 1 .. Len(q) : q[i].kind = "get" /\ q[i].op = o
  <1> DEFINE query(o) == IF o \in NeedQuery(os) THEN <<Cmd(o, "get", 0)>> ELSE <<>>
             a == query("freq")
             b == query("amp")
             c == query("phase")
  <1>1. Queries(os) = (a \o b) \o c
    BY DEF Queries
  <1>2. \A o : Cmd(o, "get", 0).kind = "get" /\ Cmd(o, "get", 0).op = o
    BY DEF Cmd
  <1>3. /\ a \in Seq(Cmds)
        /\ \A i \in 1 .. Len(a) : a[i] = Cmd("freq", "get", 0) /\ "freq" \in os
        /\ "freq" \in NeedQuery(os) => Len(a) = 1 /\ a[1] = Cmd("freq", "get", 0)
    BY QueryProperties, "freq" \in AllOps DEF AllOps
  <1>4. /\ b \in Seq(Cmds)
        /\ \A i \in 1 .. Len(b) : b[i] = Cmd("amp", "get", 0) /\ "amp" \in os
        /\ "amp" \in NeedQuery(os) => Len(b) = 1 /\ b[1] = Cmd("amp", "get", 0)
    BY QueryProperties, "amp" \in AllOps DEF AllOps
  <1>5. /\ c \in Seq(Cmds)
        /\ \A i \in 1 .. Len(c) : c[i] = Cmd("phase", "get", 0) /\ "phase" \in os
        /\ "phase" \in NeedQuery(os) => Len(c) = 1 /\ c[1] = Cmd("phase", "get", 0)
    BY QueryProperties, "phase" \in AllOps DEF AllOps
  <1> HIDE DEF query, a, b, c
  <1> DEFINE ab == a \o b
             q == ab \o c
  <1>6. /\ ab \in Seq(Cmds) /\ Len(ab) = Len(a) + Len(b)
        /\ \A i \in 1 .. Len(a) + Len(b) : ab[i] = IF i <= Len(a) THEN a[i] ELSE b[i - Len(a)]
    BY <1>3, <1>4, ConcatProperties
  <1> HIDE DEF ab
  <1>7. /\ q \in Seq(Cmds) /\ Len(q) = Len(ab) + Len(c)
        /\ \A i \in 1 .. Len(ab) + Len(c) : q[i] = IF i <= Len(ab) THEN ab[i] ELSE c[i - Len(ab)]
    <2>1. ab \in Seq(Cmds) /\ c \in Seq(Cmds)
      BY <1>5, <1>6
    <2> QED BY <2>1, ConcatProperties
  <1> HIDE DEF q
  <1>8. Len(a) \in Nat /\ Len(b) \in Nat /\ Len(c) \in Nat
    BY <1>3, <1>4, <1>5, LenProperties
  <1>9. ASSUME NEW i \in 1 .. Len(q) PROVE q[i].kind = "get" /\ q[i].op \in Ops
    <2>1. CASE i <= Len(a)
      <3>1. i \in 1 .. Len(a) /\ q[i] = a[i]
        BY <2>1, <1>6, <1>7, <1>8
      <3> QED BY <3>1, <1>2, <1>3
    <2>2. CASE i > Len(a) /\ i <= Len(ab)
      <3>1. i - Len(a) \in 1 .. Len(b) /\ q[i] = b[i - Len(a)]
        BY <2>2, <1>6, <1>7, <1>8
      <3> QED BY <3>1, <1>2, <1>4
    <2>3. CASE i > Len(ab)
      <3>1. i - Len(ab) \in 1 .. Len(c) /\ q[i] = c[i - Len(ab)]
        BY <2>3, <1>6, <1>7, <1>8
      <3> QED BY <3>1, <1>2, <1>5
    <2> QED BY <2>1, <2>2, <2>3, <1>6, <1>7, <1>8
  <1>10. ASSUME NEW o \in NeedQuery(os)
         PROVE  \E i \in 1 .. Len(q) : q[i].kind = "get" /\ q[i].op = o
    <2>1. o = "freq" \/ o = "amp" \/ o = "phase"
      BY <1>10 DEF NeedQuery, AllOps
    <2>2. CASE o = "freq"
      <3>1. Len(a) = 1 /\ a[1] = Cmd(o, "get", 0)
        BY <2>2, <1>3
      <3>2. /\ 1 \in 1 .. Len(a) + Len(b) /\ 1 <= Len(a)
            /\ 1 \in 1 .. Len(ab) + Len(c) /\ 1 <= Len(ab)
        BY <3>1, <1>6, <1>8
      <3>3. ab[1] = Cmd(o, "get", 0)
        BY <3>1, <3>2, <1>6
      <3>4. 1 \in 1 .. Len(q) /\ q[1] = Cmd(o, "get", 0)
        BY <3>2, <3>3, <1>7
      <3> QED BY <3>4, <1>2
    <2>3. CASE o = "amp"
      <3>1. Len(b) = 1 /\ b[1] = Cmd(o, "get", 0)
        BY <2>3, <1>4
      <3>2. /\ Len(a) + 1 \in 1 .. Len(a) + Len(b) /\ ~ (Len(a) + 1 <= Len(a))
            /\ (Len(a) + 1) - Len(a) = 1
        BY <3>1, <1>8
      <3>3. ab[Len(a) + 1] = Cmd(o, "get", 0)
        BY <3>1, <3>2, <1>6
      <3>4. Len(a) + 1 \in 1 .. Len(ab) + Len(c) /\ Len(a) + 1 <= Len(ab)
        BY <3>1, <1>6, <1>8
      <3>5. Len(a) + 1 \in 1 .. Len(q) /\ q[Len(a) + 1] = Cmd(o, "get", 0)
        BY <3>3, <3>4, <1>7
      <3> QED BY <3>5, <1>2
    <2>4. CASE o = "phase"
      <3>1. Len(c) = 1 /\ c[1] = Cmd(o, "get", 0)
        BY <2>4, <1>5
      <3>2. /\ Len(ab) + 1 \in 1 .. Len(ab) + Len(c) /\ ~ (Len(ab) + 1 <= Len(ab))
            /\ (Len(ab) + 1) - Len(ab) = 1
        BY <3>1, <1>6, <1>8
      <3>3. Len(ab) + 1 \in 1 .. Len(q) /\ q[Len(ab) + 1] = Cmd(o, "get", 0)
        BY <3>1, <3>2, <1>7
      <3> QED BY <3>3, <1>2
    <2> QED BY <2>1, <2>2, <2>3, <2>4
  <1> QED BY <1>1, <1>7, <1>9, <1>10 DEF q, ab

\* run_frontend pops a command that was forwarded; the waiting one moves up.
LEMMA PopQueue ==
  ASSUME QueueInv, PopCmd
  PROVE  /\ QueueInv' /\ Head(cmdq) \in Cmds
         /\ Head(cmdq).kind # "reset" => Head(cmdq).op \in Ops
         /\ \A o \in Ops : Queried(o) =>
              Queried(o)' \/ (Head(cmdq).kind = "get" /\ Head(cmdq).op = o)
  <1> DEFINE n == Len(cmdq)
  <1> USE DEF QueueInv
  <1>1. cmdq \in Seq(Cmds) /\ nfilt \in 0 .. n /\ nfilt > 0 /\ n \in Nat
    BY LenProperties DEF QueueType, PopCmd
  <1>2. cmdq' = Tail(cmdq) /\ nfilt' = nfilt - 1 /\ UNCHANGED <<m_cmd_waiting, results>>
    BY DEF PopCmd, bkendVars, resVars
  <1>3. cmdq # <<>> /\ n \in Nat \ {0}
    BY <1>1, EmptySeq
  <1>4. Head(cmdq) = cmdq[1] /\ Head(cmdq) \in Cmds
    BY <1>1, <1>3, HeadTailProperties
  <1>5. /\ cmdq' \in Seq(Cmds) /\ Len(cmdq') = n - 1
        /\ \A i \in 1 .. n - 1 : cmdq'[i] = cmdq[i + 1]
    BY <1>1, <1>2, <1>3, HeadTailProperties
  <1> HIDE DEF n
  <1>6. \A i \in 1 .. n - 1 : i + 1 \in 1 .. n
    BY <1>3
  <1>7. QueueType'
    <2>1. nfilt' \in 0 .. Len(cmdq')
      BY <1>1, <1>2, <1>5
    <2> QED BY <2>1, <1>2, <1>5 DEF QueueType
  <1>8. GoodCmds'
    BY <1>5, <1>6 DEF GoodCmds, n
  <1>9. ResultIsForWaiting'
    <2>1. CASE m_cmd_waiting
      <3>1. nfilt < n
        BY <2>1 DEF ResultIsForWaiting, n
      <3>2. nfilt' < n - 1 /\ nfilt' + 1 \in 1 .. n - 1 /\ (nfilt' + 1) + 1 = nfilt + 1
        BY <3>1, <1>1, <1>2
      <3>3. cmdq'[nfilt' + 1] = cmdq[nfilt + 1]
        BY <3>2, <1>5
      <3> QED BY <2>1, <3>2, <3>3, <1>2, <1>5 DEF ResultIsForWaiting
    <2>2. CASE ~ m_cmd_waiting
      BY <2>2, <1>2 DEF ResultIsForWaiting
    <2> QED BY <2>1, <2>2
  <1>10. Head(cmdq).kind # "reset" => Head(cmdq).op \in Ops
    <2>1. 1 \in 1 .. n
      BY <1>3
    <2> QED BY <2>1, <1>4 DEF GoodCmds, n
  <1>11. ASSUME NEW o \in Ops, NEW i \in 1 .. n, cmdq[i].kind = "get", cmdq[i].op = o, i # 1
         PROVE  Queried(o)'
    <2>1. i - 1 \in 1 .. n - 1 /\ (i - 1) + 1 = i
      BY <1>11, <1>3
    <2>2. cmdq'[i - 1] = cmdq[i]
      BY <2>1, <1>5
    <2> QED BY <2>1, <2>2, <1>5, <1>11 DEF Queried
  <1>12. ASSUME NEW o \in Ops, Queried(o)
         PROVE  Queried(o)' \/ (Head(cmdq).kind = "get" /\ Head(cmdq).op = o)
    <2>1. PICK i \in 1 .. n : cmdq[i].kind = "get" /\ cmdq[i].op = o
      BY <1>12 DEF Queried, n
    <2> QED BY <2>1, <1>4, <1>11
  <1> QED BY <1>4, <1>7, <1>8, <1>9, <1>10, <1>12

\* try_get_result: the waiting command gets its value and is finished.
LEMMA TakeResultStep ==
  ASSUME QueueInv, TakeResult
  PROVE  QueueInv' /\ \A o \in Ops : Queried(o) => Queried(o)'
  <1> DEFINE n == Len(cmdq)
             j == nfilt + 1
             v == Head(results)[2]
             new == [cmdq[j] EXCEPT !.val = v]
  <1> USE DEF QueueInv
  <1>1. cmdq \in Seq(Cmds) /\ nfilt \in 0 .. n /\ n \in Nat
    BY LenProperties DEF QueueType
  <1>2. m_cmd_waiting /\ results # <<>> /\ results \in Seq(Ops \X (0 .. Off))
    BY DEF TakeResult, QueueType
  <1>3. nfilt < n /\ Len(results) = 1
    BY <1>2 DEF ResultIsForWaiting
  <1>4. Head(results) \in Ops \X (0 .. Off) /\ Tail(results) \in Seq(Ops \X (0 .. Off))
        /\ Len(Tail(results)) = 0
    BY <1>2, <1>3, HeadTailProperties
  <1>5. j \in 1 .. n /\ cmdq[j] \in Cmds /\ v \in 0 .. Off
    <2>1. j \in 1 .. n
      BY <1>1, <1>3
    <2> QED BY <2>1, <1>1, <1>4, ElementOfSeq
  <1>6. new \in Cmds /\ new.kind = cmdq[j].kind /\ new.op = cmdq[j].op
    BY <1>5 DEF Cmds
  <1>7. cmdq' = [cmdq EXCEPT ![j] = new]
    BY DEF TakeResult
  <1>8. results' = Tail(results) /\ m_cmd_waiting' = FALSE /\ nfilt' = j
    BY DEF TakeResult
  <1> HIDE DEF v, new, n
  <1>9. /\ cmdq' \in Seq(Cmds) /\ Len(cmdq') = n
        /\ \A i \in 1 .. n : cmdq'[i] = IF i = j THEN new ELSE cmdq[i]
    BY <1>1, <1>5, <1>6, <1>7, ExceptSeq DEF n
  <1>10. \A i \in 1 .. n : cmdq'[i].kind = cmdq[i].kind /\ cmdq'[i].op = cmdq[i].op
    BY <1>6, <1>9
  <1>11. QueueType'
    <2>1. nfilt' \in 0 .. Len(cmdq')
      BY <1>5, <1>8, <1>9
    <2> HIDE DEF j
    <2> QED BY <2>1, <1>4, <1>8, <1>9 DEF QueueType
  <1>12. GoodCmds'
    BY <1>9, <1>10 DEF GoodCmds, n
  <1>13. ResultIsForWaiting'
    <2>1. Tail(results) = <<>>
      BY <1>4, EmptySeq
    <2> QED BY <2>1, <1>8 DEF ResultIsForWaiting
  <1>14. \A o \in Ops : Queried(o) => Queried(o)'
    BY <1>9, <1>10 DEF Queried, n
  <1> QED BY <1>11, <1>12, <1>13, <1>14

-----------------------------------------------------------------------------
(* The registers.                                                          *)

\* What reaches a register, and what an override keeps of it, is in range.
LEMMA ToRegType ==
  ASSUME NEW op \in Ops, NEW val \in 0 .. Off
  PROVE  /\ ToReg(op, val) \in 0 .. Off
         /\ op # "freq" => ToReg(op, val) \in 0 .. W16 - 1
         /\ ToOvr(op, ToReg(op, val)) \in 0 .. Off
  <1>1. val % 4 \in 0 .. 3 /\ (val % 4) % 2 \in 0 .. 1
    OBVIOUS
  <1> QED BY <1>1 DEF ToReg, ToOvr

\* Writing a register that no override pins, or that the override is set to.
LEMMA WriteStep ==
  ASSUME RegInv, NEW op \in Ops, NEW val \in 0 .. Off, Write(op, val),
         \/ m_dds_ovr[op] = Off /\ UNCHANGED m_dds_ovr
         \/ m_dds_ovr' = [m_dds_ovr EXCEPT ![op] = ToOvr(op, ToReg(op, val))],
         m_dds_pending_reset' \in BOOLEAN, UNCHANGED boardVars
  PROVE  RegInv'
  <1> USE DEF RegInv
  <1> DEFINE reg == ToReg(op, val)
             ovr == ToOvr(op, reg)
  <1>1. reg \in 0 .. Off /\ (op # "freq" => reg \in 0 .. W16 - 1) /\ ovr \in 0 .. Off
    BY ToRegType
  <1>2. /\ m_dds_phase' = IF op = "phase" THEN reg ELSE m_dds_phase
        /\ board = "out" => hw' = hw /\ lost' = lost
        /\ board # "out" => hw' = [hw EXCEPT ![op] = reg] /\ lost' = lost \ {op}
        /\ board' = board /\ m_dds_exist' = m_dds_exist
    BY DEF Write, boardVars
  <1>3. \/ m_dds_ovr[op] = Off /\ m_dds_ovr' = m_dds_ovr
        \/ m_dds_ovr' = [m_dds_ovr EXCEPT ![op] = ovr]
    OBVIOUS
  <1>4. ovr = ToOvr(op, reg)
    OBVIOUS
  <1> HIDE DEF reg, ovr
  <1>5. RegType'
    <2>1. m_dds_ovr' \in [Ops -> 0 .. Off] /\ hw' \in [Ops -> 0 .. Off]
      BY <1>1, <1>2, <1>3 DEF RegType
    <2>2. m_dds_phase' \in 0 .. W16 - 1
      BY <1>1, <1>2 DEF RegType
    <2>3. lost' \subseteq Ops
      BY <1>2 DEF RegType
    <2>4. board' \in {"ready", "blank", "out"} /\ m_dds_exist' \in BOOLEAN
      BY <1>2 DEF RegType
    <2> QED BY <2>1, <2>2, <2>3, <2>4 DEF RegType
  <1>6. CASE board = "out"
    BY <1>2, <1>5, <1>6 DEF OutIsLost, OverrideHolds
  <1>7. CASE board # "out"
    <2>1. ASSUME NEW o \in Ops \ lost', m_dds_ovr'[o] # Off
          PROVE  ToOvr(o, hw'[o]) = m_dds_ovr'[o]
      <3>1. CASE o = op
        <4>1. m_dds_ovr'[op] = ovr /\ hw'[op] = reg
          BY <2>1, <3>1, <1>2, <1>3, <1>7 DEF RegType
        <4> QED BY <4>1, <3>1, <1>4
      <3>2. CASE o # op
        <4>1. m_dds_ovr'[o] = m_dds_ovr[o] /\ hw'[o] = hw[o] /\ o \notin lost
          BY <2>1, <3>2, <1>2, <1>3, <1>7 DEF RegType
        <4> QED BY <4>1, <2>1 DEF OverrideHolds
      <3> QED BY <3>1, <3>2
    <2>2. "phase" \in Ops \ lost' => m_dds_phase' = hw'["phase"]
      BY <1>2, <1>7 DEF OverrideHolds, RegType
    <2>3. OutIsLost'
      BY <1>2, <1>7 DEF OutIsLost
    <2> QED BY <1>5, <2>1, <2>2, <2>3 DEF OverrideHolds
  <1> QED BY <1>6, <1>7

\* run_cmd of a command that is not a get: a set, an override or a reset.
LEMMA RunCmdRegs ==
  ASSUME RegInv, NEW c \in Cmds, c.kind # "reset" => c.op \in Ops, RunCmd(c)
  PROVE  RegInv'
  <1> DEFINE op == c.op
             val == c.val
  <1> USE DEF RegInv
  <1>1. c.kind \in {"set", "ovr", "get", "reset"} /\ val \in 0 .. Off
    BY DEF Cmds
  <1>2. CASE c.kind = "reset"
    <2>1. m_dds_pending_reset' = TRUE /\ UNCHANGED <<m_dds_ovr, regVars, boardVars>>
      BY <1>2 DEF RunCmd
    <2> QED BY <2>1 DEF regVars, boardVars, RegType, OutIsLost, OverrideHolds
  <1>3. CASE c.kind = "get"
    <2>1. UNCHANGED ddsVars
      BY <1>3 DEF RunCmd
    <2> QED BY <2>1 DEF ddsVars, regVars, boardVars, RegType, OutIsLost, OverrideHolds
  <1>4. CASE c.kind = "ovr" \/ (c.kind = "set" /\ m_dds_ovr[op] # Off)
    <2>1. op \in Ops
      BY <1>4
    <2>2. RunOvr(op, val) /\ m_dds_pending_reset' = m_dds_pending_reset /\ UNCHANGED boardVars
      BY <1>4 DEF RunCmd
    <2>3. \/ UNCHANGED <<m_dds_ovr, regVars>>
          \/ /\ m_dds_ovr' = [m_dds_ovr EXCEPT ![op] = Off]
             /\ UNCHANGED regVars
          \/ /\ m_dds_ovr' = [m_dds_ovr EXCEPT ![op] = ToOvr(op, ToReg(op, val))]
             /\ Write(op, val)
      BY <2>2 DEF RunOvr
    <2> HIDE DEF op, val
    <2>4. CASE UNCHANGED <<m_dds_ovr, regVars>>
      BY <2>2, <2>4 DEF regVars, boardVars, RegType, OutIsLost, OverrideHolds
    <2>5. CASE m_dds_ovr' = [m_dds_ovr EXCEPT ![op] = Off] /\ UNCHANGED regVars
      BY <2>1, <2>2, <2>5 DEF regVars, boardVars, RegType, OutIsLost, OverrideHolds
    <2>6. CASE /\ m_dds_ovr' = [m_dds_ovr EXCEPT ![op] = ToOvr(op, ToReg(op, val))]
               /\ Write(op, val)
      <3>1. m_dds_pending_reset' \in BOOLEAN
        BY <2>2 DEF RegType
      <3> QED BY <1>1, <2>1, <2>2, <2>6, <3>1, WriteStep
    <2> QED BY <2>3, <2>4, <2>5, <2>6
  <1>5. CASE c.kind = "set" /\ m_dds_ovr[op] = Off
    <2>1. op \in Ops
      BY <1>5
    <2>2. Write(op, val) /\ UNCHANGED <<m_dds_ovr, m_dds_pending_reset, boardVars>>
      BY <1>5 DEF RunCmd
    <2>3. m_dds_pending_reset' \in BOOLEAN
      BY <2>2 DEF RegType
    <2> HIDE DEF op, val
    <2> QED BY <1>1, <1>5, <2>1, <2>2, <2>3, WriteStep
  <1> QED BY <1>1, <1>2, <1>3, <1>4, <1>5

\* check_dds: a reset clears what pinned the registers with the registers; without one a
\* board that has to be initialised loses them all.
LEMMA CheckDdsStep ==
  ASSUME RegInv, CheckDds, m_dds_exist' \in BOOLEAN PROVE RegInv'
  <1> USE DEF RegInv
  <1>1. CASE m_dds_pending_reset
    <2>1. /\ m_dds_ovr' = [o \in Ops |-> Off] /\ m_dds_phase' = 0
          /\ m_dds_pending_reset' = FALSE /\ InitDds(TRUE)
      BY <1>1 DEF CheckDds
    <2>2. hw' = [o \in Ops |-> 0] /\ lost' = IF board # "out" THEN {} ELSE Ops
      BY <2>1 DEF InitDds
    <2>3. board' = IF board = "out" THEN "out" ELSE "ready"
      BY <2>1 DEF InitDds
    <2>4. RegType'
      <3>1. m_dds_ovr' \in [Ops -> 0 .. Off] /\ hw' \in [Ops -> 0 .. Off]
        BY <2>1, <2>2
      <3>2. m_dds_phase' \in 0 .. W16 - 1
        BY <2>1
      <3>3. m_dds_pending_reset' \in BOOLEAN /\ lost' \subseteq Ops
        BY <2>1, <2>2
      <3>4. board' \in {"ready", "blank", "out"}
        BY <2>3
      <3> QED BY <3>1, <3>2, <3>3, <3>4 DEF RegType
    <2>5. OutIsLost'
      BY <2>2, <2>3 DEF OutIsLost
    <2>6. OverrideHolds'
      BY <2>1, <2>2 DEF OverrideHolds
    <2> QED BY <2>4, <2>5, <2>6
  <1>2. CASE ~ m_dds_pending_reset /\ board # "ready"
    <2>1. UNCHANGED <<m_dds_ovr, m_dds_phase>> /\ m_dds_pending_reset' = FALSE /\ InitDds(FALSE)
      BY <1>2 DEF CheckDds
    <2>2. hw' = [o \in Ops |-> 0] /\ lost' = Ops
      BY <2>1 DEF InitDds
    <2>3. board' \in {"ready", "blank", "out"}
      BY <2>1 DEF InitDds
    <2>4. hw' \in [Ops -> 0 .. Off]
      BY <2>2
    <2>5. RegType'
      BY <2>1, <2>2, <2>3, <2>4 DEF RegType
    <2> QED BY <2>2, <2>5 DEF OutIsLost, OverrideHolds
  <1>3. CASE ~ m_dds_pending_reset /\ board = "ready"
    <2>1. UNCHANGED <<m_dds_ovr, regVars, board>> /\ m_dds_pending_reset' = FALSE
      BY <1>3 DEF CheckDds
    <2> QED BY <2>1 DEF regVars, RegType, OutIsLost, OverrideHolds
  <1> QED BY <1>1, <1>2, <1>3

\* detect_dds, with the board there or not.
LEMMA DetectDdsStep == RegInv /\ DetectDds => RegInv'
  <1> SUFFICES ASSUME RegInv, DetectDds PROVE RegInv'
    OBVIOUS
  <1>1. CASE /\ m_dds_exist' = FALSE /\ m_dds_pending_reset' = FALSE
             /\ UNCHANGED <<m_dds_ovr, regVars, board>>
    BY <1>1 DEF RegInv, regVars, RegType, OutIsLost, OverrideHolds
  <1>2. CASE m_dds_exist' = TRUE /\ CheckDds
    BY <1>2, CheckDdsStep
  <1>3. CASE UNCHANGED ddsVars
    BY <1>3 DEF ddsVars, regVars, boardVars, RegInv, RegType, OutIsLost, OverrideHolds
  <1> QED BY <1>1, <1>2, <1>3 DEF DetectDds

-----------------------------------------------------------------------------
(* Steps.                                                                  *)

\* process_reqcmd runs the first command that is not forwarded, if none waits.  A get has
\* its result on the way, and nothing else has.
LEMMA NextCmdStep ==
  ASSUME QueueInv, RegInv, NextCmd
  PROVE  QueueInv' /\ RegInv' /\ \A o \in Ops : Queried(o) => Queried(o)'
  <1> DEFINE n == Len(cmdq)
             j == nfilt + 1
             c == cmdq[j]
  <1>1. /\ cmdq \in Seq(Cmds) /\ nfilt \in 0 .. n /\ n \in Nat
        /\ ~ m_cmd_waiting /\ nfilt < n /\ cmdq' = cmdq
    BY LenProperties DEF QueueInv, QueueType, NextCmd
  <1>2. results = <<>>
    BY <1>1 DEF QueueInv, ResultIsForWaiting
  <1>3. j \in 1 .. n
    BY <1>1
  <1>4. c \in Cmds /\ (c.kind # "reset" => c.op \in Ops)
    BY <1>1, <1>3, ElementOfSeq DEF QueueInv, GoodCmds
  <1>5. /\ RunCmd(c) /\ m_cmd_waiting' = (c.kind = "get")
        /\ nfilt' = IF c.kind = "get" THEN nfilt ELSE nfilt + 1
    BY DEF NextCmd
  <1> HIDE DEF c
  <1>6. RegInv'
    BY <1>4, <1>5, RunCmdRegs
  <1>7. nfilt' \in 0 .. n
    BY <1>1, <1>5
  <1>8. GoodCmds' /\ \A o \in Ops : Queried(o) => Queried(o)'
    BY <1>1 DEF QueueInv, GoodCmds, Queried
  <1>9. CASE c.kind = "get"
    <2>1. results' = Append(results, <<c.op, hw[c.op]>>)
      BY <1>5, <1>9 DEF RunCmd
    <2>2. c.op \in Ops /\ hw[c.op] \in 0 .. Off
      BY <1>4, <1>9 DEF RegInv, RegType
    <2>3. /\ results' \in Seq(Ops \X (0 .. Off)) /\ Len(results') = 1
          /\ results'[1] = <<c.op, hw[c.op]>>
      BY <1>2, <2>1, <2>2
    <2>4. QueueType'
      BY <2>3, <1>1, <1>5, <1>7 DEF QueueType
    <2>5. ResultIsForWaiting'
      <3>1. m_cmd_waiting' /\ nfilt' = nfilt /\ cmdq'[nfilt' + 1] = c
        BY <1>1, <1>5, <1>9 DEF c
      <3>2. nfilt' < Len(cmdq')
        BY <3>1, <1>1
      <3>3. results'[1][1] = c.op
        BY <2>3
      <3> QED BY <3>1, <3>2, <3>3, <2>3, <1>9 DEF ResultIsForWaiting
    <2> QED BY <1>6, <1>8, <2>4, <2>5 DEF QueueInv
  <1>10. CASE c.kind # "get"
    <2>1. results' = results
      <3>1. c.kind \in {"set", "ovr", "reset"}
        BY <1>4, <1>10 DEF Cmds
      <3> QED BY <3>1, <1>5 DEF RunCmd
    <2>2. m_cmd_waiting' = FALSE
      BY <1>5, <1>10
    <2>3. QueueType'
      BY <2>1, <2>2, <1>1, <1>7 DEF QueueInv, QueueType
    <2>4. ResultIsForWaiting'
      BY <2>1, <2>2, <1>2 DEF ResultIsForWaiting
    <2> QED BY <1>6, <1>8, <2>3, <2>4 DEF QueueInv
  <1> QED BY <1>9, <1>10

\* One call of process_reqcmd.
LEMMA ProcessStep ==
  ASSUME QueueInv, RegInv, ProcessReqCmd
  PROVE  QueueInv' /\ RegInv' /\ \A o \in Ops : Queried(o) => Queried(o)'
  <1>1. CASE TakeResult /\ UNCHANGED ddsVars
    <2>1. RegInv'
      BY <1>1 DEF ddsVars, regVars, boardVars, RegInv, RegType, OutIsLost, OverrideHolds
    <2> QED BY <2>1, <1>1, TakeResultStep
  <1>2. CASE NextCmd
    BY <1>2, NextCmdStep
  <1>3. CASE NothingToDo
    BY <1>3 DEF NothingToDo, ddsVars, regVars, boardVars, resVars, QueueInv, QueueType, GoodCmds,
                ResultIsForWaiting, RegInv, RegType, OutIsLost, OverrideHolds, Queried
  <1> QED BY <1>1, <1>2, <1>3 DEF ProcessReqCmd

\* The state after the constructor.
LEMMA DdsInit == Init => DdsInv
  <1> SUFFICES ASSUME Init PROVE DdsInv
    OBVIOUS
  <1> USE DEF Init
  <1>1. CacheInv
    <2>1. CacheType
      BY DEF CacheType
    <2>2. Unasked /\ OneReplyPerGet
      BY DEF Unasked, OneReplyPerGet
    <2> QED BY <2>1, <2>2 DEF CacheInv
  <1>2. QueueInv
    <2>1. Len(cmdq) = 0 /\ cmdq \in Seq(Cmds) /\ results \in Seq(Ops \X (0 .. Off))
      BY EmptySeq
    <2>2. m_cmd_waiting \in BOOLEAN
      OBVIOUS
    <2>3. QueueType /\ GoodCmds
      BY <2>1, <2>2 DEF QueueType, GoodCmds
    <2>4. ResultIsForWaiting
      BY DEF ResultIsForWaiting
    <2> QED BY <2>3, <2>4 DEF QueueInv
  <1>3. RegInv
    <2>1. m_dds_ovr \in [Ops -> 0 .. Off] /\ hw \in [Ops -> 0 .. Off]
      OBVIOUS
    <2>2. m_dds_phase \in 0 .. W16 - 1
      OBVIOUS
    <2>3. m_dds_pending_reset \in BOOLEAN /\ m_dds_exist \in BOOLEAN
      OBVIOUS
    <2>4. board = "ready" /\ lost = {}
      OBVIOUS
    <2> QED BY <2>1, <2>2, <2>3, <2>4 DEF RegInv, RegType, OutIsLost, OverrideHolds
  <1>4. CountType /\ LoopType /\ PendingHasQuery
    BY DEF CountType, LoopType, PendingHasQuery
  <1> QED BY <1>1, <1>2, <1>3, <1>4 DEF DdsInv

\* PendingHasQuery, by entry, before and after a step.
LEMMA PendingIsQueried ==
  /\ PendingHasQuery <=> \A o \in Ops : cbs[o] # {} => Queried(o)
  /\ PendingHasQuery' <=> \A o \in Ops : cbs'[o] # {} => Queried(o)'
  BY DEF PendingHasQuery, Queried

\* A set_dds, override_dds or reset_dds request.
LEMMA CmdRequestStep ==
  ASSUME DdsInv, NEW c \in Cmds, c.kind # "reset" => c.op \in Ops, SendCmd(c),
         UNCHANGED <<bkendVars, nloss>>, CountType', CacheInv',
         \A o \in Ops : cbs'[o] # {} => cbs[o] # {}
  PROVE  DdsInv'
  <1> USE DEF DdsInv, bkendVars
  <1>1. QueueInv' /\ \A o \in Ops : Queried(o) => Queried(o)'
    BY SendCmdStep
  <1>2. PendingHasQuery'
    BY <1>1, PendingIsQueried
  <1>3. RegInv' /\ LoopType'
    BY DEF ddsVars, regVars, boardVars, RegInv, RegType, OutIsLost, OverrideHolds, LoopType
  <1> QED BY <1>1, <1>2, <1>3

\* A get_dds request.  A parameter that gets a callback and no query had one before, and
\* with it a query.
LEMMA GetDdsStep ==
  ASSUME DdsInv, NEW r \in Reqs, NEW os \in SUBSET Ops, GetDds(r, os) PROVE DdsInv'
  <1> DEFINE parked == {o \in os : ~ fresh[o]}
             q == Queries(os)
  <1> USE DEF DdsInv
  <1>1. CacheInv'
    BY GetDdsCache
  <1>2. /\ cmdq' = cmdq \o q /\ UNCHANGED <<nfilt, bkendVars, nloss>>
        /\ cbs' = [o \in Ops |-> IF o \in parked THEN cbs[o] \cup {r} ELSE cbs[o]]
        /\ fpc' = "pop" /\ UNCHANGED <<nset, nreset>>
    BY DEF GetDds
  <1>3. /\ q \in Seq(Cmds)
        /\ \A i \in 1 .. Len(q) : q[i].kind = "get" /\ q[i].op \in Ops
        /\ \A o \in NeedQuery(os) : \E i \in 1 .. Len(q) : q[i].kind = "get" /\ q[i].op = o
    BY QueriesProperties
  <1> HIDE DEF q
  <1>4. UNCHANGED resVars
    BY <1>2 DEF bkendVars
  <1>5. /\ QueueInv' /\ \A o \in Ops : Queried(o) => Queried(o)'
        /\ \A o \in Ops : (\E i \in 1 .. Len(q) : q[i].kind = "get" /\ q[i].op = o)
                            => Queried(o)'
    BY <1>2, <1>3, <1>4, QueueGrows
  <1>6. PendingHasQuery'
    <2> SUFFICES ASSUME NEW o \in Ops, cbs'[o] # {} PROVE Queried(o)'
      BY PendingIsQueried
    <2>1. CASE cbs[o] # {}
      BY <2>1, <1>5, PendingIsQueried
    <2>2. CASE cbs[o] = {}
      <3>1. o \in NeedQuery(os)
        BY <2>2, <1>2 DEF NeedQuery
      <3> QED BY <3>1, <1>3, <1>5
    <2> QED BY <2>1, <2>2
  <1>7. RegInv' /\ LoopType' /\ CountType'
    BY <1>2 DEF bkendVars, ddsVars, regVars, boardVars, RegInv, RegType, OutIsLost,
                OverrideHolds, LoopType, CountType
  <1> QED BY <1>1, <1>5, <1>6, <1>7

\* run_frontend pops a command; the result of a get goes to the callbacks that wait for it.
LEMMA PopCmdStep == DdsInv /\ PopCmd => DdsInv'
  <1> SUFFICES ASSUME DdsInv, PopCmd PROVE DdsInv'
    OBVIOUS
  <1> USE DEF DdsInv
  <1> DEFINE c == Head(cmdq)
  <1>1. /\ QueueInv' /\ c \in Cmds
        /\ c.kind # "reset" => c.op \in Ops
        /\ \A o \in Ops : Queried(o) => Queried(o)' \/ (c.kind = "get" /\ c.op = o)
    BY PopQueue
  <1>2. UNCHANGED <<fpc, nset, nreset, bkendVars, nloss>>
    BY DEF PopCmd
  <1>3. IF c.kind = "get" THEN CacheSet(c.op, c.val) ELSE UNCHANGED <<cacheVars, reqVars>>
    BY DEF PopCmd
  <1> HIDE DEF c
  <1>4. RegInv' /\ LoopType' /\ CountType'
    BY <1>2 DEF bkendVars, ddsVars, regVars, boardVars, RegInv, RegType, OutIsLost,
                OverrideHolds, LoopType, CountType
  <1>5. CASE c.kind = "get"
    <2>1. c.op \in Ops /\ c.val \in 0 .. Off
      BY <1>1, <1>5 DEF Cmds
    <2>2. CacheInv' /\ cbs'[c.op] = {} /\ \A o \in Ops \ {c.op} : cbs'[o] = cbs[o]
      BY <2>1, <1>3, <1>5, CacheSetStep
    <2>3. PendingHasQuery'
      BY <2>2, <1>1, PendingIsQueried
    <2> QED BY <2>2, <2>3, <1>1, <1>4
  <1>6. CASE c.kind # "get"
    <2>1. UNCHANGED <<cacheVars, reqVars>>
      BY <1>3, <1>6
    <2>2. CacheInv'
      BY <2>1 DEF cacheVars, reqVars, CacheInv, CacheType, Unasked, OneReplyPerGet
    <2>3. PendingHasQuery'
      BY <2>1, <1>1, <1>6, PendingIsQueried DEF cacheVars
    <2> QED BY <2>2, <2>3, <1>1, <1>4
  <1> QED BY <1>5, <1>6
-----------------------------------------------------------------------------
\* Every step keeps the invariant.
LEMMA DdsStep == DdsInv /\ [Next]_vars => DdsInv'
  <1> SUFFICES ASSUME DdsInv, [Next]_vars PROVE DdsInv'
    OBVIOUS
  <1> USE DEF DdsInv
  <1>cache. UNCHANGED <<cacheVars, reqVars>> => CacheInv'
    BY DEF cacheVars, reqVars, CacheInv, CacheType, Unasked, OneReplyPerGet
  <1>count. UNCHANGED <<fpc, nset, nreset>> => CountType'
    BY DEF CountType
  <1>queue. UNCHANGED <<cmdq, nfilt, resVars>> =>
              QueueInv' /\ \A o \in Ops : Queried(o) => Queried(o)'
    BY DEF resVars, QueueInv, QueueType, GoodCmds, ResultIsForWaiting, Queried
  <1>regs. UNCHANGED ddsVars => RegInv'
    BY DEF ddsVars, regVars, boardVars, RegInv, RegType, OutIsLost, OverrideHolds
  <1>pending. /\ \A o \in Ops : cbs'[o] # {} => cbs[o] # {}
              /\ \A o \in Ops : Queried(o) => Queried(o)'
              => PendingHasQuery'
    BY PendingIsQueried
  <1>ftend. UNCHANGED ftendVars => CacheInv' /\ CountType' /\ cbs' = cbs
    BY <1>cache, <1>count DEF ftendVars, cacheVars
  <1>1. ASSUME NEW op \in Ops, NEW val \in Vals, SetDds(op, val) PROVE DdsInv'
    <2> USE <1>1 DEF SetDds
    <2> DEFINE c == Cmd(op, "set", val)
    <2>1. c \in Cmds /\ c.op \in Ops /\ val \in 0 .. Off
      BY DEF Cmd, Cmds
    <2>2. CacheInv' /\ \A o \in Ops : cbs'[o] # {} => cbs[o] # {}
      BY <2>1, CacheSetStep
    <2>3. CountType'
      BY DEF CountType
    <2> HIDE DEF c
    <2>4. SendCmd(c) /\ UNCHANGED <<bkendVars, nloss>>
      BY DEF c
    <2> QED BY <2>1, <2>2, <2>3, <2>4, CmdRequestStep
  <1>2. ASSUME NEW op \in Ops, NEW val \in Vals \cup {Off}, SetDdsOvr(op, val) PROVE DdsInv'
    <2> USE <1>2 DEF SetDdsOvr
    <2> DEFINE c == Cmd(op, "ovr", val)
    <2>1. c \in Cmds /\ c.op \in Ops /\ val \in 0 .. Off
      BY DEF Cmd, Cmds
    <2>2. CacheInv' /\ cbs' = cbs
      BY <2>1 DEF reqVars, CacheInv, CacheType, Unasked, OneReplyPerGet
    <2>3. CountType'
      BY DEF CountType
    <2> HIDE DEF c
    <2>4. SendCmd(c) /\ UNCHANGED <<bkendVars, nloss>>
      BY DEF c
    <2> QED BY <2>1, <2>2, <2>3, <2>4, CmdRequestStep
  <1>3. CASE ResetDds
    <2> USE <1>3 DEF ResetDds
    <2> DEFINE c == Cmd("none", "reset", 0)
    <2>1. c \in Cmds /\ c.kind = "reset"
      BY DEF Cmd, Cmds
    <2>2. CacheInv' /\ cbs' = cbs
      BY DEF reqVars, CacheInv, CacheType, Unasked, OneReplyPerGet
    <2>3. CountType'
      BY DEF CountType
    <2> HIDE DEF c
    <2>4. SendCmd(c) /\ UNCHANGED <<bkendVars, nloss>>
      BY DEF c
    <2> QED BY <2>1, <2>2, <2>3, <2>4, CmdRequestStep
  <1>4. ASSUME NEW r \in Reqs, NEW os \in Lists, GetDds(r, os) PROVE DdsInv'
    <2>1. os \in SUBSET Ops
      OBVIOUS
    <2> QED BY <1>4, <2>1, GetDdsStep
  <1>5. CASE NoRequest \/ PopDone
    <2>1. UNCHANGED <<cacheVars, reqVars, nset, nreset, cmdq, nfilt, bkendVars, nloss>>
      BY <1>5 DEF NoRequest, PopDone
    <2>2. CountType'
      BY <1>5 DEF NoRequest, PopDone, CountType
    <2>3. PendingHasQuery'
      BY <2>1, <1>queue, <1>pending DEF cacheVars, bkendVars
    <2> QED BY <2>1, <2>2, <2>3, <1>cache, <1>queue, <1>regs DEF bkendVars, LoopType
  <1>6. ASSUME NEW op \in Ops, Expire(op) PROVE DdsInv'
    <2> USE <1>6 DEF Expire
    <2>1. CacheInv' /\ cbs' = cbs
      BY DEF reqVars, CacheInv, CacheType, Unasked, OneReplyPerGet
    <2>2. UNCHANGED <<fpc, nset, nreset, cmdq, nfilt, bkendVars, nloss>>
      OBVIOUS
    <2>3. PendingHasQuery'
      BY <2>1, <2>2, <1>queue, <1>pending DEF bkendVars
    <2> QED BY <2>1, <2>2, <2>3, <1>count, <1>queue, <1>regs DEF bkendVars, LoopType
  <1>7. CASE PopCmd
    BY <1>7, PopCmdStep
  <1>8. CASE BeginSeq
    <2>1. UNCHANGED <<ftendVars, cmdq, nfilt, ddsVars, resVars>> /\ LoopType'
      BY <1>8 DEF BeginSeq, LoopType
    <2> QED BY <2>1, <1>ftend, <1>queue, <1>regs, <1>pending
  <1>9. CASE DetectFirst \/ EndSeq \/ DetectAfter
    <2>1. UNCHANGED <<ftendVars, cmdq, nfilt, resVars>> /\ LoopType'
      BY <1>9 DEF DetectFirst, EndSeq, DetectAfter, LoopType
    <2>2. CASE DetectDds
      BY <2>1, <2>2, DetectDdsStep, <1>ftend, <1>queue, <1>pending
    <2>3. CASE CheckDds /\ UNCHANGED m_dds_exist
      <3>1. m_dds_exist' \in BOOLEAN
        BY <2>3 DEF RegInv, RegType
      <3>2. RegInv'
        BY <2>3, <3>1, CheckDdsStep
      <3> QED BY <2>1, <3>2, <1>ftend, <1>queue, <1>pending
    <2>4. CASE UNCHANGED ddsVars
      BY <2>1, <2>4, <1>ftend, <1>queue, <1>regs, <1>pending
    <2>5. DetectDds \/ (CheckDds /\ UNCHANGED m_dds_exist) \/ UNCHANGED ddsVars
      BY <1>9 DEF DetectFirst, EndSeq, DetectAfter
    <2> QED BY <2>2, <2>3, <2>4, <2>5
  <1>10. CASE DrainResult
    <2>1. TakeResult /\ UNCHANGED <<ftendVars, ddsVars>> /\ LoopType'
      BY <1>10 DEF DrainResult, LoopType
    <2>2. QueueInv' /\ \A o \in Ops : Queried(o) => Queried(o)'
      BY <2>1, TakeResultStep
    <2> QED BY <2>1, <2>2, <1>ftend, <1>regs, <1>pending
  <1>11. CASE StartSeq
    <2>1. /\ UNCHANGED <<ftendVars, cmdq, nfilt, ddsVars, m_cmd_waiting>> /\ LoopType'
          /\ ~ m_cmd_waiting /\ results' = <<>>
      BY <1>11 DEF StartSeq, LoopType
    <2>2. results = <<>>
      BY <2>1 DEF QueueInv, ResultIsForWaiting
    <2>3. UNCHANGED resVars
      BY <2>1, <2>2 DEF resVars
    <2> QED BY <2>1, <2>3, <1>ftend, <1>queue, <1>regs, <1>pending
  <1>12. ASSUME NEW op \in Ops, NEW val \in SeqVals, SeqWrite(op, val) PROVE DdsInv'
    <2>1. /\ Write(op, val) /\ m_dds_ovr[op] = Off
          /\ UNCHANGED <<ftendVars, cmdq, nfilt, m_dds_ovr, m_dds_pending_reset, boardVars,
                         resVars>>
          /\ LoopType'
      BY <1>12 DEF SeqWrite, LoopType
    <2>2. val \in 0 .. Off
      OBVIOUS
    <2>3. m_dds_pending_reset' \in BOOLEAN
      BY <2>1 DEF RegInv, RegType
    <2>4. RegInv'
      BY <2>1, <2>2, <2>3, WriteStep
    <2> QED BY <2>1, <2>4, <1>ftend, <1>queue, <1>pending
  <1>13. CASE SeqProcess \/ IdleProcess
    <2>1. ProcessReqCmd /\ UNCHANGED ftendVars /\ LoopType'
      BY <1>13 DEF SeqProcess, IdleProcess, LoopType
    <2>2. QueueInv' /\ RegInv' /\ \A o \in Ops : Queried(o) => Queried(o)'
      BY <2>1, ProcessStep
    <2> QED BY <2>1, <2>2, <1>ftend, <1>pending
  <1>14. CASE PullBoard \/ PlugBoard
    <2>1. /\ UNCHANGED <<ftendVars, cmdq, nfilt, m_dds_ovr, m_dds_phase, m_dds_pending_reset,
                         m_dds_exist, resVars>>
          /\ LoopType'
      BY <1>14 DEF PullBoard, PlugBoard, regVars, LoopType
    <2>2. /\ board' \in {"blank", "out"}
          /\ \/ hw' = hw /\ lost' = lost /\ board' = "blank"
             \/ hw' = [o \in Ops |-> 0] /\ lost' = Ops
      BY <1>14 DEF PullBoard, PlugBoard, regVars
    <2>3. RegInv'
      <3>1. hw' \in [Ops -> 0 .. Off] /\ lost' \subseteq Ops
        BY <2>2 DEF RegInv, RegType
      <3>2. RegType'
        BY <2>1, <2>2, <3>1 DEF RegInv, RegType
      <3>3. OutIsLost' /\ OverrideHolds'
        BY <2>1, <2>2 DEF RegInv, OutIsLost, OverrideHolds
      <3> QED BY <3>2, <3>3 DEF RegInv
    <2> QED BY <2>1, <2>3, <1>ftend, <1>queue, <1>pending
  <1>15. CASE UNCHANGED vars
    <2>1. UNCHANGED <<ftendVars, cmdq, nfilt, ddsVars, resVars>> /\ LoopType'
      BY <1>15 DEF vars, bkendVars, LoopType
    <2> QED BY <2>1, <1>ftend, <1>queue, <1>regs, <1>pending
  <1> QED
    BY <1>1, <1>2, <1>3, <1>4, <1>5, <1>6, <1>7, <1>8, <1>9, <1>10, <1>11, <1>12, <1>13, <1>14,
       <1>15
    DEF Next, Frontend, Request, Loop

-----------------------------------------------------------------------------
(* Theorems.                                                               *)

\* Whatever the requests, the sequences and the resets: the cache, the queue and the
\* registers are as described above.
THEOREM DdsInvariant == Spec => []DdsInv
  <1>1. Init => DdsInv
    BY DdsInit
  <1>2. DdsInv /\ [Next]_vars => DdsInv'
    BY DdsStep
  <1> QED BY <1>1, <1>2, PTL DEF Spec

\* The types.
THEOREM DdsTypes == Spec => []TypeOK
  <1>1. DdsInv => TypeOK
    BY DEF DdsInv, CacheInv, CacheType, CountType, QueueInv, QueueType, RegInv, RegType,
           LoopType, TypeOK
  <1> QED BY <1>1, DdsInvariant, PTL

\* A callback that waits in an entry of CmdCache has a query on its way, so that
\* CmdCache::get may leave out the second one.
THEOREM CallbacksHaveQueries == Spec => []PendingHasQuery
  <1>1. DdsInv => PendingHasQuery
    BY DEF DdsInv
  <1> QED BY <1>1, DdsInvariant, PTL

\* A get_dds request is replied to once, when it has all its values.
THEOREM GetsRepliedOnce == Spec => []OneReplyPerGet
  <1>1. DdsInv => OneReplyPerGet
    BY DEF DdsInv, CacheInv
  <1> QED BY <1>1, DdsInvariant, PTL

\* try_get_result hands each result to the command that asked for it.
THEOREM ResultsReachTheirCommand == Spec => []ResultIsForWaiting
  <1>1. DdsInv => ResultIsForWaiting
    BY DEF DdsInv, QueueInv
  <1> QED BY <1>1, DdsInvariant, PTL

\* The DDS has the value of an override as long as that is on, and m_dds_phase its phase,
\* except for the registers that the board lost and that were not written since.
THEOREM OverridesHold == Spec => []OverrideHolds
  <1>1. DdsInv => OverrideHolds
    BY DEF DdsInv, RegInv
  <1> QED BY <1>1, DdsInvariant, PTL
=============================================================================
