----------------------------- MODULE TtlProofs ------------------------------
(***************************************************************************)
(* Proofs about Ttl, for any banks, channels, masks and bounds.            *)
(*                                                                         *)
(* A bank is followed through the pipeline: the worker's m_ttl is the last *)
(* value sent, and each instruction on its way differs from the one before *)
(* only in channels of its own.  In a sequence that rests on the preserved *)
(* channels being those of m_ttl, but for the sequence's own channels;     *)
(* run_cmd sees to that with update_preserve_ttl after a stand-alone       *)
(* command.                                                                *)
(***************************************************************************)
EXTENDS Ttl, SequenceTheorems, TLAPS

\* ttl1 is used where the bank it computes is the right one.
Ttl1InBank0 == Ttl1Chns \subseteq {0} \X Chns

\* x and y differ only in channels of s.
Within(x, y, s) == \A c \in Chns \ s : c \in x <=> c \in y

\* What bank b is before instruction i of its pipe, and after the last.
Before(b, i) == IF i = 1 THEN cur[b] ELSE pipe[b][i - 1].val
Last(b) == IF pipe[b] = <<>> THEN cur[b] ELSE pipe[b][Len(pipe[b])].val

Tracked == \A b \in Banks : m_ttl[b] = Last(b)

Chained ==
  \A b \in Banks : \A i \in 1 .. Len(pipe[b]) :
    Within(pipe[b][i].val, Before(b, i), pipe[b][i].may)

Preserved ==
  wpc # "top" => \A b \in Banks : /\ m_ttlmask[b] \subseteq own[b]
                                 /\ Within(m_preserve_ttl[b], m_ttl[b], own[b])

TtlInv == TypeOK /\ Tracked /\ Chained /\ Preserved

USE TtlConstants

-----------------------------------------------------------------------------
\* The outputs the constructor has read.
LEMMA TtlInit == Init => TtlInv
  <1> SUFFICES ASSUME Init PROVE TtlInv
    OBVIOUS
  <1> USE DEF Init
  <1>1. TypeOK
    BY DEF TypeOK, Ttls, Cmds, Instrs
  <1>2. Tracked /\ Chained /\ Preserved
    BY DEF Tracked, Chained, Preserved, Last
  <1> QED BY <1>1, <1>2 DEF TtlInv

\* Sending an instruction that differs from m_ttl in its own channels only.
LEMMA SendStep ==
  ASSUME TtlInv, NEW b \in Banks, NEW val \in SUBSET Chns, NEW may \in SUBSET Chns,
         Within(val, m_ttl[b], may), Send(b, val, may)
  PROVE  /\ m_ttl' \in Ttls /\ pipe' \in [Banks -> Seq(Instrs)]
         /\ Tracked' /\ Chained'
  <1> DEFINE new == [val |-> val, may |-> may]
  <1>1. new \in Instrs
    BY DEF Instrs
  <1>2. pipe \in [Banks -> Seq(Instrs)] /\ m_ttl \in Ttls
    BY DEF TtlInv, TypeOK
  <1>3. /\ pipe' = [pipe EXCEPT ![b] = Append(pipe[b], new)]
        /\ m_ttl' = [m_ttl EXCEPT ![b] = val]
        /\ cur' = cur
    BY DEF Send
  <1> HIDE DEF new
  <1>4. pipe' \in [Banks -> Seq(Instrs)]
    <2>1. Append(pipe[b], new) \in Seq(Instrs)
      BY <1>1, <1>2
    <2> QED BY <2>1, <1>2, <1>3
  <1>5. m_ttl' \in Ttls
    BY <1>2, <1>3 DEF Ttls
  <1>6. /\ Len(pipe'[b]) = Len(pipe[b]) + 1
        /\ pipe'[b][Len(pipe[b]) + 1] = new
        /\ \A i \in 1 .. Len(pipe[b]) : pipe'[b][i] = pipe[b][i]
        /\ Len(pipe[b]) \in Nat
        /\ pipe[b] = <<>> <=> Len(pipe[b]) = 0
        /\ pipe'[b] # <<>>
    <2> DEFINE s == pipe[b]
    <2>1. s \in Seq(Instrs) /\ pipe'[b] = Append(s, new)
      BY <1>2, <1>3
    <2> HIDE DEF s
    <2>2. /\ Append(s, new) # <<>> /\ Len(Append(s, new)) = Len(s) + 1
          /\ \A i \in 1 .. Len(s) : Append(s, new)[i] = s[i]
          /\ Append(s, new)[Len(s) + 1] = new
      BY <2>1, <1>1, AppendProperties
    <2>3. Len(s) \in Nat /\ (s = <<>> <=> Len(s) = 0)
      BY <2>1, EmptySeq, LenProperties
    <2> QED BY <2>1, <2>2, <2>3 DEF s
  <1>7. \A a \in Banks \ {b} : pipe'[a] = pipe[a] /\ m_ttl'[a] = m_ttl[a]
    BY <1>2, <1>3 DEF Ttls
  <1>8. m_ttl'[b] = val /\ new.val = val /\ new.may = may
    BY <1>2, <1>3 DEF Ttls, new
  <1>9. Tracked'
    <2>1. m_ttl'[b] = Last(b)'
      BY <1>6, <1>8 DEF Last
    <2>2. \A a \in Banks \ {b} : m_ttl'[a] = Last(a)'
      BY <1>3, <1>7 DEF TtlInv, Tracked, Last
    <2> QED BY <2>1, <2>2 DEF Tracked
  <1>10. Chained'
    <2> SUFFICES ASSUME NEW a \in Banks, NEW i \in 1 .. Len(pipe'[a])
                 PROVE  Within(pipe'[a][i].val, Before(a, i)', pipe'[a][i].may)
      BY DEF Chained, Within
    <2>1. CASE a # b
      BY <2>1, <1>3, <1>7 DEF TtlInv, Chained, Before
    <2>2. CASE a = b /\ i <= Len(pipe[b])
      <3>1. i \in 1 .. Len(pipe[b]) /\ (i # 1 => i - 1 \in 1 .. Len(pipe[b]))
        BY <2>2, <1>6
      <3>2. pipe'[a][i] = pipe[b][i] /\ Before(a, i)' = Before(b, i)
        BY <3>1, <2>2, <1>3, <1>6 DEF Before
      <3> QED BY <3>1, <3>2 DEF TtlInv, Chained
    <2>3. CASE a = b /\ i > Len(pipe[b])
      <3>1. i = Len(pipe[b]) + 1
        BY <2>3, <1>6
      <3>2. pipe'[a][i] = new
        BY <3>1, <2>3, <1>6
      <3>3. Before(a, i)' = Last(b)
        BY <3>1, <2>3, <1>3, <1>6 DEF Before, Last
      <3>4. Last(b) = m_ttl[b]
        BY DEF TtlInv, Tracked
      <3> QED BY <3>2, <3>3, <3>4, <1>8
    <2> QED BY <2>1, <2>2, <2>3, <1>6
  <1> QED BY <1>4, <1>5, <1>9, <1>10

-----------------------------------------------------------------------------
\* run_cmd of a stand-alone TTL command, inside a sequence or outside.
LEMMA CmdStep == TtlInv /\ RunTtlCmd => TtlInv'
  <1> SUFFICES ASSUME TtlInv, RunTtlCmd PROVE TtlInv'
    OBVIOUS
  <1> USE DEF TtlInv
  <1> DEFINE c == Head(cmdq)
             b == c.bank
             val == IF c.on THEN m_ttl[b] \cup c.val ELSE m_ttl[b] \ c.val
  <1>1. cmdq \in Seq(Cmds) /\ cmdq # <<>>
    BY DEF TypeOK, RunTtlCmd
  <1>2. c \in Cmds /\ Tail(cmdq) \in Seq(Cmds)
    BY <1>1
  <1>3. b \in Banks /\ c.val \in SUBSET Chns /\ m_ttl[b] \in SUBSET Chns
    BY <1>2 DEF Cmds, TypeOK, Ttls
  <1>4. val \in SUBSET Chns /\ Within(val, m_ttl[b], c.val)
    BY <1>3 DEF Within
  <1>5. Send(b, val, c.val)
    BY DEF RunTtlCmd
  <1>6. /\ m_preserve_ttl' =
             IF wpc = "top" THEN m_preserve_ttl
             ELSE [m_preserve_ttl EXCEPT ![b] = m_ttl'[b] \ m_ttlmask[b]]
        /\ cmdq' = Tail(cmdq)
        /\ UNCHANGED <<m_ttlmask, wpc, histVars>> /\ own' = own
    BY DEF RunTtlCmd, histVars, seqHist
  <1>7. m_ttl' = [m_ttl EXCEPT ![b] = val] /\ UNCHANGED <<lomask, himask, cur>>
    BY <1>5 DEF Send
  <1> HIDE DEF c, b, val
  <1>8. m_ttl' \in Ttls /\ pipe' \in [Banks -> Seq(Instrs)] /\ Tracked' /\ Chained'
    BY <1>3, <1>4, <1>5, SendStep
  <1>9. m_preserve_ttl' \in Ttls
    BY <1>3, <1>6, <1>8 DEF TypeOK, Ttls
  <1>10. TypeOK'
    BY <1>2, <1>6, <1>7, <1>8, <1>9 DEF TypeOK, histVars, seqHist
  <1>11. Preserved'
    <2> SUFFICES ASSUME wpc # "top", NEW a \in Banks
                 PROVE  /\ m_ttlmask[a] \subseteq own[a]
                        /\ Within(m_preserve_ttl'[a], m_ttl'[a], own[a])
      BY <1>6 DEF Preserved
    <2>1. m_ttlmask[a] \subseteq own[a] /\ Within(m_preserve_ttl[a], m_ttl[a], own[a])
      BY DEF Preserved
    <2>2. CASE a = b
      <3>1. m_preserve_ttl'[a] = m_ttl'[a] \ m_ttlmask[a]
        BY <1>3, <1>6, <2>2 DEF TypeOK, Ttls
      <3> QED BY <2>1, <3>1 DEF Within
    <2>3. CASE a # b
      <3>1. m_preserve_ttl'[a] = m_preserve_ttl[a] /\ m_ttl'[a] = m_ttl[a]
        BY <1>3, <1>6, <1>7, <2>3 DEF TypeOK, Ttls
      <3> QED BY <2>1, <3>1
    <2> QED BY <2>2, <2>3
  <1> QED BY <1>8, <1>10, <1>11

\* A TTL instruction of the sequence that names channels and keeps those that are
\* not the sequence's own.
LEMMA RunnerStep ==
  ASSUME TtlInv, NEW b \in Banks, NEW val \in SUBSET Chns, NEW chns \in SUBSET Chns,
         wpc = "seq", Name(b, chns),
         Within(val, m_ttl[b], own[b] \cup chns),
         Send(b, val, own'[b]), UNCHANGED <<cmdq, runnerVars, wpc>>
  PROVE  TtlInv'
  <1> USE DEF TtlInv
  <1>1. /\ own' \in Ttls /\ used' \in Ttls /\ own'[b] = own[b] \cup chns
        /\ \A a \in Banks \ {b} : own'[a] = own[a]
    BY DEF Name, TypeOK, Ttls
  <1>2. Within(val, m_ttl[b], own'[b]) /\ own'[b] \in SUBSET Chns
    BY <1>1 DEF Ttls
  <1>3. m_ttl' \in Ttls /\ pipe' \in [Banks -> Seq(Instrs)] /\ Tracked' /\ Chained'
    BY <1>1, <1>2, SendStep
  <1>4. m_ttl' = [m_ttl EXCEPT ![b] = val] /\ UNCHANGED <<lomask, himask, cur>>
    BY DEF Send
  <1>5. TypeOK'
    BY <1>1, <1>3, <1>4 DEF TypeOK, Name, runnerVars
  <1>6. Preserved'
    <2> SUFFICES ASSUME NEW a \in Banks
                 PROVE  /\ m_ttlmask[a] \subseteq own'[a]
                        /\ Within(m_preserve_ttl[a], m_ttl'[a], own'[a])
      BY DEF Preserved, runnerVars
    <2>1. m_ttlmask[a] \subseteq own[a] /\ Within(m_preserve_ttl[a], m_ttl[a], own[a])
      BY DEF Preserved
    <2>2. CASE a = b
      <3>1. m_ttl'[a] = val
        BY <1>4, <2>2 DEF TypeOK, Ttls
      <3> QED BY <1>1, <1>2, <2>1, <2>2, <3>1 DEF Within
    <2>3. CASE a # b
      <3>1. m_ttl'[a] = m_ttl[a] /\ own'[a] = own[a]
        BY <1>1, <1>4, <2>3 DEF TypeOK, Ttls
      <3> QED BY <2>1, <3>1
    <2> QED BY <2>2, <2>3
  <1> QED BY <1>3, <1>5, <1>6

\* Runner::ttl: what it sends differs from m_ttl in own or named channels only.
LEMMA SeqTtlWithin ==
  ASSUME TtlInv, NEW b \in Banks, NEW val \in SUBSET Chns, wpc = "seq"
  PROVE  /\ val \cup m_preserve_ttl[b] \in SUBSET Chns
         /\ Within(val \cup m_preserve_ttl[b], m_ttl[b], own[b] \cup val)
  <1>1. Within(m_preserve_ttl[b], m_ttl[b], own[b]) /\ m_preserve_ttl[b] \in SUBSET Chns
    BY DEF TtlInv, Preserved, TypeOK, Ttls
  <1> QED BY <1>1 DEF Within

\* Runner::ttl1, in bank 0.
LEMMA SeqTtl1Within ==
  ASSUME TtlInv, NEW c \in Chns, wpc = "seq", NEW val \in SUBSET Chns,
         \A x \in Chns \ {c} : x \in val <=> x \in m_ttl[0]
  PROVE  /\ val \cup m_preserve_ttl[0] \in SUBSET Chns
         /\ Within(val \cup m_preserve_ttl[0], m_ttl[0], own[0] \cup {c})
  <1>1. Within(m_preserve_ttl[0], m_ttl[0], own[0]) /\ m_preserve_ttl[0] \in SUBSET Chns
    BY DEF TtlInv, Preserved, TypeOK, Ttls
  <1> QED BY <1>1 DEF Within

\* The hardware takes the first instruction of a bank.
LEMMA ExecuteStep == ASSUME TtlInv, NEW b \in Banks, Execute(b) PROVE TtlInv'
  <1> USE DEF TtlInv
  <1>1. pipe \in [Banks -> Seq(Instrs)] /\ pipe[b] # <<>>
    BY DEF TypeOK, Execute
  <1>2. /\ cur' = [cur EXCEPT ![b] = Head(pipe[b]).val]
        /\ pipe' = [pipe EXCEPT ![b] = Tail(pipe[b])]
        /\ UNCHANGED <<cmdq, m_ttl, runnerVars, wpc, lomask, himask, histVars>>
    BY DEF Execute
  <1>3. /\ Len(pipe[b]) \in Nat \ {0}
        /\ Head(pipe[b]) = pipe[b][1] /\ Head(pipe[b]) \in Instrs
        /\ Tail(pipe[b]) \in Seq(Instrs)
        /\ Len(Tail(pipe[b])) = Len(pipe[b]) - 1
        /\ Tail(pipe[b]) = <<>> <=> Len(pipe[b]) = 1
        /\ \A i \in 1 .. Len(pipe[b]) - 1 : Tail(pipe[b])[i] = pipe[b][i + 1]
    <2> DEFINE s == pipe[b]
    <2>1. s \in Seq(Instrs) /\ s # <<>>
      BY <1>1
    <2> HIDE DEF s
    <2>2. Len(s) \in Nat \ {0} /\ Head(s) = s[1] /\ Head(s) \in Instrs
      BY <2>1, HeadTailProperties, EmptySeq, LenProperties
    <2>3. /\ Tail(s) \in Seq(Instrs) /\ Len(Tail(s)) = Len(s) - 1
          /\ \A i \in 1 .. Len(Tail(s)) : Tail(s)[i] = s[i + 1]
      BY <2>1, HeadTailProperties
    <2>4. Tail(s) = <<>> <=> Len(s) = 1
      <3>1. Tail(s) = <<>> <=> Len(Tail(s)) = 0
        BY <2>3, EmptySeq
      <3>2. Len(s) - 1 = 0 <=> Len(s) = 1
        BY <2>2
      <3> QED BY <2>3, <3>1, <3>2
    <2> QED BY <2>2, <2>3, <2>4 DEF s
  <1>4. pipe' \in [Banks -> Seq(Instrs)] /\ cur' \in Ttls
    BY <1>1, <1>2, <1>3 DEF TypeOK, Ttls, Instrs
  <1>5. TypeOK'
    BY <1>2, <1>4 DEF TypeOK, runnerVars, histVars, seqHist
  <1>6. /\ pipe'[b] = Tail(pipe[b]) /\ cur'[b] = pipe[b][1].val
        /\ \A a \in Banks \ {b} : pipe'[a] = pipe[a] /\ cur'[a] = cur[a]
    BY <1>1, <1>2, <1>3 DEF TypeOK, Ttls
  <1>7. Tracked'
    <2>1. Last(b)' = Last(b)
      BY <1>1, <1>3, <1>6 DEF Last
    <2>2. \A a \in Banks \ {b} : Last(a)' = Last(a)
      BY <1>6 DEF Last
    <2> QED BY <2>1, <2>2, <1>2 DEF Tracked
  <1>8. Chained'
    <2> SUFFICES ASSUME NEW a \in Banks, NEW i \in 1 .. Len(pipe'[a])
                 PROVE  Within(pipe'[a][i].val, Before(a, i)', pipe'[a][i].may)
      BY DEF Chained, Within
    <2>1. CASE a # b
      BY <2>1, <1>6 DEF Chained, Before
    <2>2. CASE a = b
      <3>1. i + 1 \in 1 .. Len(pipe[b]) /\ i \in 1 .. Len(pipe[b]) - 1
        BY <2>2, <1>3, <1>6
      <3>2. pipe'[a][i] = pipe[b][i + 1]
        BY <3>1, <2>2, <1>3, <1>6
      <3>3. Before(a, i)' = Before(b, i + 1)
        BY <3>1, <2>2, <1>3, <1>6 DEF Before
      <3> QED BY <3>1, <3>2, <3>3 DEF Chained
    <2> QED BY <2>1, <2>2
  <1>9. Preserved'
    BY <1>2 DEF Preserved, runnerVars, histVars, seqHist
  <1> QED BY <1>5, <1>7, <1>8, <1>9

-----------------------------------------------------------------------------
\* Every step keeps the invariant.
LEMMA TtlStep == Ttl1InBank0 /\ TtlInv /\ [Next]_vars => TtlInv'
  <1> SUFFICES ASSUME Ttl1InBank0, TtlInv, [Next]_vars PROVE TtlInv'
    OBVIOUS
  <1> USE DEF TtlInv
  <1>1. ASSUME NEW b \in Banks, NEW lo \in SUBSET Chns, NEW hi \in SUBSET Chns, SetTtl(b, lo, hi)
        PROVE  TtlInv'
    <2> USE <1>1 DEF SetTtl, hwVars, runnerVars, seqHist
    <2>1. SetCmd(b, lo, FALSE) \in Seq(Cmds) /\ SetCmd(b, hi, TRUE) \in Seq(Cmds)
      <3>1. ASSUME NEW m \in SUBSET Chns, NEW on \in BOOLEAN PROVE SetCmd(b, m, on) \in Seq(Cmds)
        <4>1. CASE m = {}
          BY <4>1 DEF SetCmd
        <4>2. CASE m # {}
          <5>1. [bank |-> b, on |-> on, val |-> m] \in Cmds
            BY <4>2 DEF Cmds
          <5> QED BY <5>1, <4>2 DEF SetCmd
        <4> QED BY <4>1, <4>2
      <3> QED BY <3>1
    <2>2. cmdq' \in Seq(Cmds)
      <3>1. cmdq \in Seq(Cmds)
        BY DEF TypeOK
      <3>2. cmdq \o SetCmd(b, lo, FALSE) \in Seq(Cmds)
        BY <3>1, <2>1, ConcatProperties
      <3>3. (cmdq \o SetCmd(b, lo, FALSE)) \o SetCmd(b, hi, TRUE) \in Seq(Cmds)
        BY <3>2, <2>1, ConcatProperties
      <3> QED BY <3>3
    <2>3. user' \in Ttls /\ nset' \in 0 .. MaxSets
      BY DEF TypeOK, Ttls
    <2>4. TypeOK'
      BY <2>2, <2>3 DEF TypeOK
    <2> QED BY <2>4 DEF Tracked, Chained, Preserved, Last, Before
  <1>2. ASSUME NEW b \in Banks, NEW lo \in SUBSET Chns, NEW hi \in SUBSET Chns,
               NEW normal \in SUBSET Chns, OverrideTtl(b, lo, hi, normal)
        PROVE  TtlInv'
    <2> USE <1>2 DEF OverrideTtl, runnerVars, seqHist
    <2>1. TypeOK'
      BY DEF TypeOK, Ttls
    <2> QED BY <2>1 DEF Tracked, Chained, Preserved, Last, Before
  <1>3. CASE RunTtlCmd
    BY <1>3, CmdStep
  <1>4. ASSUME Finished, m_ttl' = cur, UNCHANGED hwVars
        PROVE  m_ttl' \in Ttls /\ Tracked' /\ Chained'
    BY <1>4 DEF TypeOK, hwVars, Finished, Tracked, Chained, Last, Before
  <1>5. CASE SyncTtl
    <2> USE <1>5 DEF SyncTtl
    <2>1. m_ttl' \in Ttls /\ Tracked' /\ Chained'
      BY <1>4
    <2>2. TypeOK' /\ Preserved'
      BY <2>1 DEF TypeOK, Preserved, runnerVars, hwVars, histVars, seqHist
    <2> QED BY <2>1, <2>2
  <1>6. ASSUME NEW mask \in TtlMasks, BeginSeq(mask)
        PROVE  TtlInv'
    <2> USE <1>6 DEF BeginSeq
    <2>1. m_ttl' \in Ttls /\ Tracked' /\ Chained'
      BY <1>4
    <2>2. mask \in Ttls /\ m_preserve_ttl' \in Ttls /\ own' \in Ttls /\ used' \in Ttls
      BY DEF TypeOK, Ttls
    <2>3. TypeOK'
      BY <2>1, <2>2 DEF TypeOK, hwVars
    <2>4. Preserved'
      BY DEF Preserved, Within, Ttls
    <2> QED BY <2>1, <2>3, <2>4
  <1>7. ASSUME NEW b \in Banks, NEW val \in SUBSET Chns, SeqTtl(b, val)
        PROVE  TtlInv'
    <2> DEFINE new == val \cup m_preserve_ttl[b]
    <2>1. /\ wpc = "seq" /\ Name(b, val) /\ Send(b, new, own'[b])
          /\ UNCHANGED <<cmdq, runnerVars, wpc>>
      BY <1>7 DEF SeqTtl
    <2>2. new \in SUBSET Chns /\ Within(new, m_ttl[b], own[b] \cup val)
      BY <2>1, SeqTtlWithin
    <2> HIDE DEF new
    <2> QED BY <2>1, <2>2, RunnerStep
  <1>8. ASSUME NEW bc \in Ttl1Chns, NEW on \in BOOLEAN, SeqTtl1(bc[1], bc[2], on)
        PROVE  TtlInv'
    <2> DEFINE val == IF on THEN m_ttl[0] \cup {bc[2]} ELSE m_ttl[0] \ {bc[2]}
               new == val \cup m_preserve_ttl[0]
    <2>1. /\ wpc = "seq" /\ Name(bc[1], {bc[2]}) /\ Send(0, new, own'[0])
          /\ UNCHANGED <<cmdq, runnerVars, wpc>>
      BY <1>8 DEF SeqTtl1
    <2>2. bc[1] = 0 /\ bc[2] \in Chns /\ 0 \in Banks
      BY DEF Ttl1InBank0
    <2>3. new \in SUBSET Chns /\ Within(new, m_ttl[0], own[0] \cup {bc[2]})
      <3>1. m_ttl[0] \in SUBSET Chns
        BY <2>2 DEF TtlInv, TypeOK, Ttls
      <3>2. val \in SUBSET Chns /\ \A x \in Chns \ {bc[2]} : x \in val <=> x \in m_ttl[0]
        BY <2>2, <3>1
      <3> HIDE DEF val
      <3> QED BY <2>1, <2>2, <3>2, SeqTtl1Within
    <2> HIDE DEF new, val
    <2>4. Name(0, {bc[2]}) /\ {bc[2]} \in SUBSET Chns
      BY <2>1, <2>2
    <2> QED BY <2>1, <2>2, <2>3, <2>4, RunnerStep
  <1>9. CASE EndSeq
    <2>1. wpc' \in {"top", "post", "tail"} /\ (wpc' # "top" => wpc # "top")
      BY <1>9 DEF EndSeq
    <2>2. UNCHANGED <<cmdq, m_ttl, runnerVars, hwVars, histVars>>
      BY <1>9 DEF EndSeq
    <2> QED BY <2>1, <2>2 DEF TypeOK, Tracked, Chained, Preserved, Last, Before,
                              runnerVars, hwVars, histVars, seqHist
  <1>10. ASSUME NEW b \in Banks, Execute(b) PROVE TtlInv'
    BY <1>10, ExecuteStep
  <1>11. CASE UNCHANGED vars
    BY <1>11 DEF vars, TypeOK, Tracked, Chained, Preserved, Last, Before,
                 runnerVars, hwVars, histVars, seqHist
  <1>12. ASSUME NEW b \in Banks, NEW lo \in OvrMasks, NEW hi \in OvrMasks,
                NEW normal \in OvrMasks, OverrideTtl(b, lo, hi, normal)
         PROVE  TtlInv'
    BY <1>2, <1>12
  <1> QED BY <1>1, <1>3, <1>5, <1>6, <1>7, <1>8, <1>9, <1>10, <1>11, <1>12 DEF Next

-----------------------------------------------------------------------------
\* The invariant, as long as ttl1 is used in bank 0 only: m_ttl follows the outputs
\* through the pipeline, each instruction on its way differs from the one before in its
\* own channels only, and the runner preserves what is not its sequence's own.
THEOREM TtlInvariant == Ttl1InBank0 /\ Spec => []TtlInv
  <1> SUFFICES ASSUME Ttl1InBank0 PROVE Spec => []TtlInv
    OBVIOUS
  <1>1. Init => TtlInv
    BY TtlInit
  <1>2. TtlInv /\ [Next]_vars => TtlInv'
    BY TtlStep
  <1> QED BY <1>1, <1>2, PTL DEF Spec

\* sync_ttl never finds a difference: when the pulser has finished, m_ttl is what
\* the outputs are.
THEOREM SyncNeverNeeded == Ttl1InBank0 /\ Spec => []SyncUnneeded
  <1>1. TtlInv => SyncUnneeded
    BY DEF TtlInv, TypeOK, Ttls, Tracked, Last, SyncUnneeded, Finished
  <1> QED BY <1>1, TtlInvariant, PTL

\* An instruction changes, as it is executed, only the channels of its command, or of
\* its sequence: those of the mask and those the sequence has named.  ttl1 is used in
\* bank 0 only; nothing is assumed about the values that sequences send.
THEOREM OnlyOwnChannels == Ttl1InBank0 /\ Spec => ChangesOnlyItsOwn
  <1> DEFINE Own == \A b \in Banks : cur'[b] # cur[b] =>
                      \A c \in Chns \ Head(pipe[b]).may : c \in cur'[b] <=> c \in cur[b]
  <1>1. ASSUME TtlInv, Next PROVE Own
    <2>1. ASSUME NEW b \in Banks, Execute(b) PROVE Own
      <3>1. /\ pipe[b] \in Seq(Instrs) /\ pipe[b] # <<>>
            /\ cur' = [cur EXCEPT ![b] = Head(pipe[b]).val] /\ cur \in [Banks -> SUBSET Chns]
        BY <1>1, <2>1 DEF TtlInv, TypeOK, Execute, Ttls
      <3>2. 1 \in 1 .. Len(pipe[b]) /\ Head(pipe[b]) = pipe[b][1]
        BY <3>1
      <3>3. Within(pipe[b][1].val, cur[b], pipe[b][1].may)
        BY <3>2, <1>1 DEF TtlInv, Chained, Before
      <3> QED BY <3>1, <3>2, <3>3 DEF Within
    <2>2. ASSUME UNCHANGED cur PROVE Own
      BY <2>2
    <2> QED BY <1>1, <2>1, <2>2 DEF Next, SetTtl, OverrideTtl, RunTtlCmd, SyncTtl, BeginSeq,
                                    SeqTtl, SeqTtl1, EndSeq, Send, hwVars
  <1>2. TtlInv /\ [Next]_vars => [Own]_vars
    BY <1>1
  <1> HIDE DEF Own
  <1>3. Ttl1InBank0 /\ Spec => [][Own]_vars
    BY <1>2, TtlInvariant, PTL DEF Spec
  <1> QED BY <1>3 DEF Own, ChangesOnlyItsOwn

-----------------------------------------------------------------------------
(* Requests are kept: a channel that no sequence has used is as requests   *)
(* want it, once the commands that are queued have been run.               *)

\* Command i of q sets channel c of bank b.
Touches(q, i, b, c) == q[i].bank = b /\ c \in q[i].val

\* The last command of q that sets a channel outside s leaves it as in u; if there is
\* none it is so in m.
Wants(q, m, u, s) ==
  \A b \in Banks : \A c \in Chns \ s[b] :
    /\ (\A i \in 1 .. Len(q) : ~Touches(q, i, b, c)) => (c \in m[b] <=> c \in u[b])
    /\ \A i \in 1 .. Len(q) :
         Touches(q, i, b, c) /\ (\A j \in 1 .. Len(q) : j > i => ~Touches(q, j, b, c)) =>
           (q[i].on <=> c \in u[b])

KeepInv ==
  /\ wpc # "top" => \A b \in Banks : own[b] \subseteq used[b]
  /\ Wants(cmdq, m_ttl, user, used)

\* A request adds a command and changes what is wanted.
LEMMA SetWants ==
  ASSUME NEW q \in Seq(Cmds), NEW m \in Ttls, NEW u \in Ttls, NEW s, Wants(q, m, u, s),
         NEW b \in Banks, NEW mask \in SUBSET Chns, NEW on \in BOOLEAN
  PROVE  /\ q \o SetCmd(b, mask, on) \in Seq(Cmds)
         /\ Wants(q \o SetCmd(b, mask, on), m,
                  [u EXCEPT ![b] = IF on THEN @ \cup mask ELSE @ \ mask], s)
  <1> DEFINE new == IF on THEN u[b] \cup mask ELSE u[b] \ mask
             v == [u EXCEPT ![b] = new]
  <1>1. v \in Ttls /\ v[b] = new /\ \A a \in Banks \ {b} : v[a] = u[a]
    BY DEF Ttls
  <1>2. \A c \in mask : c \in new <=> on
    OBVIOUS
  <1>3. \A c \in Chns \ mask : c \in new <=> c \in u[b]
    OBVIOUS
  <1> HIDE DEF new
  <1>4. CASE mask = {}
    <2>1. q \o SetCmd(b, mask, on) = q
      BY <1>4 DEF SetCmd
    <2>2. Wants(q, m, v, s)
      BY <1>1, <1>3, <1>4 DEF Wants
    <2> HIDE DEF v
    <2> QED BY <2>1, <2>2 DEF v, new
  <1>5. CASE mask # {}
    <2> DEFINE x == [bank |-> b, on |-> on, val |-> mask]
               r == Append(q, x)
    <2>1. x \in Cmds /\ x.bank = b /\ x.on = on /\ x.val = mask
      BY <1>5 DEF Cmds
    <2> HIDE DEF x
    <2>2. q \o SetCmd(b, mask, on) = r
      BY <1>5, <2>1, AppendIsConcat DEF SetCmd, x
    <2>3. /\ r \in Seq(Cmds) /\ Len(r) = Len(q) + 1 /\ Len(q) \in Nat
          /\ \A i \in 1 .. Len(q) : r[i] = q[i]
          /\ r[Len(q) + 1] = x
      BY <2>1, AppendProperties
    <2> HIDE DEF r, v
    <2>4. \A i \in 1 .. Len(r) : i \in 1 .. Len(q) \/ i = Len(q) + 1
      BY <2>3
    <2>5. \A i \in 1 .. Len(q) : i \in 1 .. Len(r) /\ Len(q) + 1 > i
      BY <2>3
    <2>6. Len(q) + 1 \in 1 .. Len(r)
      BY <2>3
    <2>7. Wants(r, m, v, s)
      <3> SUFFICES ASSUME NEW a \in Banks, NEW c \in Chns \ s[a]
                   PROVE  /\ (\A i \in 1 .. Len(r) : ~Touches(r, i, a, c)) =>
                               (c \in m[a] <=> c \in v[a])
                          /\ \A i \in 1 .. Len(r) :
                               Touches(r, i, a, c) /\
                               (\A j \in 1 .. Len(r) : j > i => ~Touches(r, j, a, c)) =>
                                 (r[i].on <=> c \in v[a])
        BY DEF Wants
      <3>1. \A i \in 1 .. Len(q) : Touches(r, i, a, c) <=> Touches(q, i, a, c)
        BY <2>3 DEF Touches
      <3>2. Touches(r, Len(q) + 1, a, c) <=> a = b /\ c \in mask
        BY <2>1, <2>3 DEF Touches
      <3>3. CASE a = b /\ c \in mask
        <4>1. Touches(r, Len(q) + 1, a, c)
          BY <3>2, <3>3
        <4>2. r[Len(q) + 1].on <=> c \in v[a]
          BY <1>1, <1>2, <2>1, <2>3, <3>3
        <4> QED BY <2>4, <2>5, <2>6, <4>1, <4>2
      <3>4. CASE ~(a = b /\ c \in mask)
        <4>1. c \in v[a] <=> c \in u[a]
          BY <1>1, <1>3, <3>4
        <4>2. ~Touches(r, Len(q) + 1, a, c)
          BY <3>2, <3>4
        <4>3. ASSUME \A i \in 1 .. Len(r) : ~Touches(r, i, a, c) PROVE c \in m[a] <=> c \in v[a]
          BY <2>5, <3>1, <4>1, <4>3 DEF Wants
        <4>4. ASSUME NEW i \in 1 .. Len(r), Touches(r, i, a, c),
                     \A j \in 1 .. Len(r) : j > i => ~Touches(r, j, a, c)
              PROVE  r[i].on <=> c \in v[a]
          <5>1. i \in 1 .. Len(q) /\ r[i] = q[i] /\ Touches(q, i, a, c)
            BY <2>3, <2>4, <3>1, <4>2, <4>4
          <5>2. \A j \in 1 .. Len(q) : j > i => ~Touches(q, j, a, c)
            BY <2>5, <3>1, <4>4
          <5> QED BY <4>1, <5>1, <5>2 DEF Wants
        <4> QED BY <4>3, <4>4
      <3> QED BY <3>3, <3>4
    <2> QED BY <2>2, <2>3, <2>7 DEF v, new
  <1> QED BY <1>4, <1>5

\* A command is run: if it was the last for a channel the channel is now as wanted.
LEMMA RunWants ==
  ASSUME NEW q \in Seq(Cmds), q # <<>>, NEW m \in Ttls, NEW n \in Ttls, NEW u \in Ttls,
         NEW s, Wants(q, m, u, s), \A a \in Banks \ {Head(q).bank} : n[a] = m[a],
         n[Head(q).bank] = IF Head(q).on THEN m[Head(q).bank] \cup Head(q).val
                           ELSE m[Head(q).bank] \ Head(q).val
  PROVE  Wants(Tail(q), n, u, s)
  <1> DEFINE x == Head(q)
             r == Tail(q)
  <1>1. Len(q) \in Nat \ {0} /\ x = q[1] /\ x \in Cmds
    BY EmptySeq
  <1>2. /\ r \in Seq(Cmds) /\ Len(r) = Len(q) - 1
        /\ \A i \in 1 .. Len(r) : r[i] = q[i + 1]
    BY HeadTailProperties
  <1>3. x.bank \in Banks /\ x.val \in SUBSET Chns /\ x.on \in BOOLEAN
    BY <1>1 DEF Cmds
  <1>4. /\ \A a \in Banks \ {x.bank} : n[a] = m[a]
        /\ n[x.bank] = IF x.on THEN m[x.bank] \cup x.val ELSE m[x.bank] \ x.val
    OBVIOUS
  <1> HIDE DEF x, r
  <1>5. \A i \in 1 .. Len(r) : i + 1 \in 1 .. Len(q) /\ i + 1 > 1
    BY <1>1, <1>2
  <1>6. \A i \in 1 .. Len(q) : i = 1 \/ (i - 1 \in 1 .. Len(r) /\ (i - 1) + 1 = i)
    BY <1>1, <1>2
  <1>7. 1 \in 1 .. Len(q) /\ ~(1 > 1)
    BY <1>1
  <1>8. ASSUME NEW a \in Banks, NEW c \in Chns \ s[a]
        PROVE  /\ (\A i \in 1 .. Len(r) : ~Touches(r, i, a, c)) => (c \in n[a] <=> c \in u[a])
               /\ \A i \in 1 .. Len(r) :
                    Touches(r, i, a, c) /\ (\A j \in 1 .. Len(r) : j > i => ~Touches(r, j, a, c)) =>
                      (r[i].on <=> c \in u[a])
    <2>1. \A i \in 1 .. Len(r) : Touches(r, i, a, c) <=> Touches(q, i + 1, a, c)
      BY <1>2 DEF Touches
    <2>2. Touches(q, 1, a, c) <=> a = x.bank /\ c \in x.val
      BY <1>1 DEF Touches
    <2>3. ASSUME \A i \in 1 .. Len(r) : ~Touches(r, i, a, c) PROVE c \in n[a] <=> c \in u[a]
      <3>1. \A i \in 1 .. Len(q) : i > 1 => ~Touches(q, i, a, c)
        <4> SUFFICES ASSUME NEW i \in 1 .. Len(q), i > 1 PROVE ~Touches(q, i, a, c)
          OBVIOUS
        <4>1. i - 1 \in 1 .. Len(r) /\ (i - 1) + 1 = i
          BY <1>6
        <4>2. Touches(r, i - 1, a, c) <=> Touches(q, (i - 1) + 1, a, c)
          BY <2>1, <4>1
        <4> QED BY <2>3, <4>1, <4>2
      <3>2. CASE a = x.bank /\ c \in x.val
        <4>1. q[1].on <=> c \in u[a]
          BY <1>7, <2>2, <3>1, <3>2 DEF Wants
        <4> QED BY <1>1, <1>4, <3>2, <4>1
      <3>3. CASE ~(a = x.bank /\ c \in x.val)
        <4>1. \A i \in 1 .. Len(q) : ~Touches(q, i, a, c)
          <5>1. ~Touches(q, 1, a, c)
            BY <2>2, <3>3
          <5>2. \A i \in 1 .. Len(q) : i = 1 \/ i > 1
            OBVIOUS
          <5> QED BY <3>1, <5>1, <5>2
        <4>2. c \in m[a] <=> c \in u[a]
          BY <4>1 DEF Wants
        <4> QED BY <1>4, <3>3, <4>2
      <3> QED BY <3>2, <3>3
    <2>4. ASSUME NEW i \in 1 .. Len(r), Touches(r, i, a, c),
                 \A j \in 1 .. Len(r) : j > i => ~Touches(r, j, a, c)
          PROVE  r[i].on <=> c \in u[a]
      <3>1. i + 1 \in 1 .. Len(q) /\ r[i] = q[i + 1] /\ Touches(q, i + 1, a, c)
        BY <1>2, <1>5, <2>1, <2>4
      <3>2. ASSUME NEW j \in 1 .. Len(q), j > i + 1 PROVE ~Touches(q, j, a, c)
        <4>1. j - 1 \in 1 .. Len(r) /\ (j - 1) + 1 = j /\ j - 1 > i
          BY <1>1, <1>2, <3>2
        <4> QED BY <2>1, <2>4, <4>1
      <3> QED BY <3>1, <3>2 DEF Wants
    <2> QED BY <2>3, <2>4
  <1>9. Wants(r, n, u, s)
    BY <1>8 DEF Wants
  <1> QED BY <1>9 DEF r

\* Naming more channels asks for less.
LEMMA LessWants ==
  ASSUME NEW q, NEW m, NEW u, NEW s, NEW t, \A b \in Banks : s[b] \subseteq t[b],
         Wants(q, m, u, s)
  PROVE  Wants(q, m, u, t)
  BY DEF Wants

\* An instruction of the sequence leaves the channels that no sequence has used alone.
LEMMA SeqWants ==
  ASSUME TtlInv, KeepInv, wpc = "seq", NEW b \in Banks, NEW val \in SUBSET Chns,
         NEW chns \in SUBSET Chns, Name(b, chns), Within(val, m_ttl[b], own[b] \cup chns),
         m_ttl' = [m_ttl EXCEPT ![b] = val], UNCHANGED <<cmdq, wpc>>
  PROVE  KeepInv'
  <1>0. own \in Ttls /\ used \in Ttls /\ m_ttl \in Ttls
    BY DEF TtlInv, TypeOK
  <1>1. /\ own'[b] = own[b] \cup chns /\ used'[b] = used[b] \cup chns
        /\ \A a \in Banks \ {b} : own'[a] = own[a] /\ used'[a] = used[a]
        /\ user' = user
    BY <1>0 DEF Name, Ttls
  <1>2. \A a \in Banks : own'[a] \subseteq used'[a] /\ used[a] \subseteq used'[a]
    BY <1>1 DEF KeepInv
  <1>3. \A c \in Chns \ used'[b] : c \in val <=> c \in m_ttl[b]
    BY <1>1, <1>2 DEF Within
  <1>4. m_ttl'[b] = val /\ \A a \in Banks \ {b} : m_ttl'[a] = m_ttl[a]
    BY <1>0 DEF Ttls
  <1>5. \A a \in Banks : \A c \in Chns \ used'[a] : c \in m_ttl'[a] <=> c \in m_ttl[a]
    BY <1>3, <1>4
  <1>6. Wants(cmdq, m_ttl, user, used')
    BY <1>2, LessWants DEF KeepInv
  <1>7. Wants(cmdq, m_ttl', user, used')
    BY <1>5, <1>6 DEF Wants
  <1> QED BY <1>1, <1>2, <1>7 DEF KeepInv

\* Every step keeps what requests want.
LEMMA KeepStep ==
  ASSUME Ttl1InBank0, TtlInv, KeepInv, [Next]_vars PROVE KeepInv'
  <1>0. cmdq \in Seq(Cmds) /\ m_ttl \in Ttls /\ user \in Ttls /\ Wants(cmdq, m_ttl, user, used)
    BY DEF TtlInv, TypeOK, KeepInv
  <1>1. ASSUME NEW b \in Banks, NEW lo \in SUBSET Chns, NEW hi \in SUBSET Chns, SetTtl(b, lo, hi)
        PROVE  KeepInv'
    <2> DEFINE q == cmdq \o SetCmd(b, lo, FALSE)
               u == [user EXCEPT ![b] = user[b] \ lo]
    <2>1. q \in Seq(Cmds) /\ Wants(q, m_ttl, u, used)
      BY <1>0, SetWants
    <2>2. u \in Ttls
      BY <1>0 DEF Ttls
    <2>3. /\ cmdq' = q \o SetCmd(b, hi, TRUE) /\ user' = [u EXCEPT ![b] = u[b] \cup hi]
          /\ UNCHANGED <<m_ttl, own, used, wpc>>
      BY <1>0, <1>1 DEF SetTtl, Ttls, seqHist
    <2> HIDE DEF q, u
    <2>4. Wants(q \o SetCmd(b, hi, TRUE), m_ttl, [u EXCEPT ![b] = u[b] \cup hi], used)
      BY <1>0, <2>1, <2>2, SetWants
    <2> QED BY <2>3, <2>4 DEF KeepInv
  <1>2. CASE RunTtlCmd
    <2> DEFINE c == Head(cmdq)
    <2>1. cmdq # <<>> /\ cmdq' = Tail(cmdq) /\ UNCHANGED <<m_ttlmask, wpc, histVars>>
      BY <1>2 DEF RunTtlCmd
    <2>2. m_ttl' = [m_ttl EXCEPT ![c.bank] = IF c.on THEN m_ttl[c.bank] \cup c.val
                                             ELSE m_ttl[c.bank] \ c.val]
      BY <1>2 DEF RunTtlCmd, Send
    <2>3. c.bank \in Banks /\ m_ttl' \in Ttls
      <3>0. c \in Cmds
        BY <1>0, <2>1
      <3> HIDE DEF c
      <3>1. c.bank \in Banks
        BY <3>0 DEF Cmds
      <3> QED BY <1>2, <3>1, CmdStep DEF TtlInv, TypeOK
    <2>4. /\ \A a \in Banks \ {c.bank} : m_ttl'[a] = m_ttl[a]
          /\ m_ttl'[c.bank] = IF c.on THEN m_ttl[c.bank] \cup c.val ELSE m_ttl[c.bank] \ c.val
      BY <1>0, <2>2, <2>3 DEF Ttls
    <2>5. Wants(Tail(cmdq), m_ttl', user, used)
      BY <1>0, <2>1, <2>3, <2>4, RunWants
    <2> QED BY <2>1, <2>5 DEF KeepInv, histVars, seqHist
  <1>3. ASSUME Finished PROVE m_ttl = cur
    BY <1>3 DEF TtlInv, TypeOK, Ttls, Tracked, Last, Finished
  <1>4. CASE SyncTtl
    BY <1>3, <1>4 DEF SyncTtl, KeepInv, histVars, seqHist
  <1>5. ASSUME NEW mask \in TtlMasks, BeginSeq(mask) PROVE KeepInv'
    <2>1. m_ttl' = m_ttl /\ cmdq' = cmdq /\ user' = user
      BY <1>3, <1>5 DEF BeginSeq
    <2>2. \A b \in Banks : own'[b] \subseteq used'[b] /\ used[b] \subseteq used'[b]
      BY <1>5 DEF BeginSeq
    <2>3. Wants(cmdq, m_ttl, user, used')
      BY <1>0, <2>2, LessWants
    <2> QED BY <2>1, <2>2, <2>3 DEF KeepInv
  <1>6. ASSUME NEW b \in Banks, NEW val \in SUBSET Chns, SeqTtl(b, val) PROVE KeepInv'
    <2> DEFINE new == val \cup m_preserve_ttl[b]
    <2>1. /\ wpc = "seq" /\ Name(b, val) /\ m_ttl' = [m_ttl EXCEPT ![b] = new]
          /\ UNCHANGED <<cmdq, wpc>>
      BY <1>6 DEF SeqTtl, Send
    <2>2. new \in SUBSET Chns /\ Within(new, m_ttl[b], own[b] \cup val)
      BY <2>1, SeqTtlWithin
    <2> HIDE DEF new
    <2> QED BY <2>1, <2>2, SeqWants
  <1>7. ASSUME NEW bc \in Ttl1Chns, NEW on \in BOOLEAN, SeqTtl1(bc[1], bc[2], on)
        PROVE  KeepInv'
    <2> DEFINE val == IF on THEN m_ttl[0] \cup {bc[2]} ELSE m_ttl[0] \ {bc[2]}
               new == val \cup m_preserve_ttl[0]
    <2>1. /\ wpc = "seq" /\ Name(bc[1], {bc[2]}) /\ m_ttl' = [m_ttl EXCEPT ![0] = new]
          /\ UNCHANGED <<cmdq, wpc>>
      BY <1>7 DEF SeqTtl1, Send
    <2>2. bc[1] = 0 /\ bc[2] \in Chns /\ 0 \in Banks
      BY DEF Ttl1InBank0
    <2>3. new \in SUBSET Chns /\ Within(new, m_ttl[0], own[0] \cup {bc[2]})
      <3>1. m_ttl[0] \in SUBSET Chns
        BY <2>2 DEF TtlInv, TypeOK, Ttls
      <3>2. val \in SUBSET Chns /\ \A x \in Chns \ {bc[2]} : x \in val <=> x \in m_ttl[0]
        BY <2>2, <3>1
      <3> HIDE DEF val
      <3> QED BY <2>1, <2>2, <3>2, SeqTtl1Within
    <2> HIDE DEF new, val
    <2>4. Name(0, {bc[2]}) /\ {bc[2]} \in SUBSET Chns
      BY <2>1, <2>2
    <2> QED BY <2>1, <2>2, <2>3, <2>4, SeqWants
  <1>8. CASE EndSeq
    <2>1. (wpc' # "top" => wpc # "top") /\ UNCHANGED <<cmdq, m_ttl, histVars>>
      BY <1>8 DEF EndSeq
    <2> QED BY <2>1 DEF KeepInv, histVars, seqHist
  <1>9. ASSUME UNCHANGED <<cmdq, m_ttl, seqHist, wpc, user>> PROVE KeepInv'
    BY <1>9 DEF KeepInv, seqHist
  <1> QED BY <1>1, <1>2, <1>4, <1>5, <1>6, <1>7, <1>8, <1>9
          DEF Next, OverrideTtl, Execute, histVars, vars

\* A channel that no sequence has had in its mask or named is, once all has been
\* executed, as the last set_ttl request left it, also when that came in the middle of a
\* sequence.  ttl1 is used in bank 0 only.
THEOREM RequestsAreKept == Ttl1InBank0 /\ Spec => []SetsAreKept
  <1> SUFFICES ASSUME Ttl1InBank0 PROVE Spec => []SetsAreKept
    OBVIOUS
  <1>1. Init => KeepInv
    BY EmptySeq DEF Init, KeepInv, Wants
  <1>2. TtlInv /\ KeepInv /\ [Next]_vars => KeepInv'
    BY KeepStep
  <1>3. TtlInv /\ KeepInv => SetsAreKept
    <2> SUFFICES ASSUME TtlInv, KeepInv, cmdq = <<>>, Finished, NEW b \in Banks
                 PROVE  cur[b] \ used[b] = user[b] \ used[b]
      BY DEF SetsAreKept
    <2>1. m_ttl[b] = cur[b] /\ cur[b] \in SUBSET Chns /\ user[b] \in SUBSET Chns
      BY DEF TtlInv, TypeOK, Ttls, Tracked, Last, Finished
    <2>2. \A c \in Chns \ used[b] : c \in m_ttl[b] <=> c \in user[b]
      BY EmptySeq DEF KeepInv, Wants
    <2> QED BY <2>1, <2>2
  <1>4. Spec => []TtlInv
    BY TtlInvariant
  <1> QED BY <1>1, <1>2, <1>3, <1>4, PTL DEF Spec
=============================================================================
