--------------------------------- MODULE Ttl ---------------------------------
(***************************************************************************)
(* The TTL outputs: set_ttl and override_ttl requests (lib/server.cpp),    *)
(* the frontend's commands (lib/ctrl_iface.cpp), and the worker, which     *)
(* keeps m_ttl, its own idea of the outputs, and shares each bank between  *)
(* stand-alone commands and the sequence it runs (lib/controller.cpp).     *)
(*                                                                         *)
(* A bank's value is the set of its channels that are on.                  *)
(***************************************************************************)
EXTENDS Integers, Sequences

CONSTANTS
  Banks,             \* 0 .. NUM_TTL_BANKS - 1
  Chns,              \* the channels of a bank
  TtlMasks,          \* the ttl_masks sequences come with
  Ttl1Chns,          \* <<bank, channel>> of ttl1 instructions
  OvrMasks,          \* the masks that override_ttl requests come with
  MaxSets, MaxOvrs, MaxSeqs, MaxPipe   \* bounds

Ttls == [Banks -> SUBSET Chns]

ASSUME TtlConstants ==
  /\ 0 \in Banks
  /\ TtlMasks \subseteq Ttls
  /\ Ttl1Chns \subseteq Banks \X Chns
  /\ OvrMasks \subseteq SUBSET Chns
  /\ MaxSets \in Nat /\ MaxOvrs \in Nat /\ MaxSeqs \in Nat /\ MaxPipe \in Nat

VARIABLES
  cmdq,              \* m_cmd_queue, the TTL commands not yet run
  m_ttl,             \* per bank, the last value the worker sent
  m_ttlmask, m_preserve_ttl,           \* of the Runner
  wpc,               \* "top", or in run_seq: "seq", "post", "tail"
  (* hardware *)
  lomask, himask,    \* override registers
  pipe,              \* per bank, the TTL instructions not yet executed
  cur,               \* cur_ttl
  (* history *)
  user,              \* per bank, what requests have set
  own,               \* what the sequence is about: its mask and what it named
  used,              \* the same for all sequences so far
  nset, novr, nseq   \* counts, for the bounds

runnerVars == <<m_ttlmask, m_preserve_ttl>>
hwVars == <<lomask, himask, pipe, cur>>
seqHist == <<own, used>>
histVars == <<user, seqHist, nset, novr, nseq>>
vars == <<cmdq, m_ttl, runnerVars, wpc, hwVars, histVars>>

\* A command to switch channels on or off, and an instruction with the channels
\* its origin is about.
Cmds == [bank : Banks, on : BOOLEAN, val : (SUBSET Chns) \ {{}}]
Instrs == [val : SUBSET Chns, may : SUBSET Chns]

TypeOK ==
  /\ cmdq \in Seq(Cmds)
  /\ m_ttl \in Ttls /\ m_ttlmask \in Ttls /\ m_preserve_ttl \in Ttls
  /\ wpc \in {"top", "seq", "post", "tail"}
  /\ lomask \in Ttls /\ himask \in Ttls /\ cur \in Ttls
  /\ pipe \in [Banks -> Seq(Instrs)]
  /\ user \in Ttls /\ own \in Ttls /\ used \in Ttls
  /\ nset \in 0 .. MaxSets /\ novr \in 0 .. MaxOvrs /\ nseq \in 0 .. MaxSeqs

\* The outputs have been left in any state, with no override; the constructor
\* has read them.  (Overrides left by an earlier run are an OverrideTtl away.)
Init ==
  /\ cmdq = <<>> /\ wpc = "top"
  /\ cur \in Ttls /\ m_ttl = cur
  /\ m_ttlmask = [b \in Banks |-> {}] /\ m_preserve_ttl = [b \in Banks |-> {}]
  /\ lomask = [b \in Banks |-> {}] /\ himask = [b \in Banks |-> {}]
  /\ pipe = [b \in Banks |-> <<>>]
  /\ user = cur /\ own = [b \in Banks |-> {}] /\ used = [b \in Banks |-> {}]
  /\ nset = 0 /\ novr = 0 /\ nseq = 0

-----------------------------------------------------------------------------
(* Requests *)

\* The command of set_ttl(bank, mask, on): none for an empty mask.
SetCmd(b, mask, on) ==
  IF mask = {} THEN <<>> ELSE <<[bank |-> b, on |-> on, val |-> mask]>>

\* A set_ttl request: a command to switch off, then one to switch on.  The reply
\* is made at once and changes nothing.
SetTtl(b, lo, hi) ==
  /\ nset < MaxSets /\ nset' = nset + 1
  /\ cmdq' = cmdq \o SetCmd(b, lo, FALSE) \o SetCmd(b, hi, TRUE)
  /\ user' = [user EXCEPT ![b] = (@ \ lo) \cup hi]
  /\ UNCHANGED <<m_ttl, runnerVars, wpc, hwVars, seqHist, novr, nseq>>

\* An override_ttl request: three concurrent_sets, in this order.
OverrideTtl(b, lo, hi, normal) ==
  /\ novr < MaxOvrs /\ novr' = novr + 1
  /\ lomask' = [lomask EXCEPT ![b] = ((@ \cup lo) \ hi) \ normal]
  /\ himask' = [himask EXCEPT ![b] = ((@ \ lo) \cup hi) \ normal]
  /\ UNCHANGED <<cmdq, m_ttl, runnerVars, wpc, pipe, cur, user, seqHist, nset, nseq>>

-----------------------------------------------------------------------------
(* Worker *)

Finished == \A b \in Banks : pipe[b] = <<>>

\* Mutant: what was sent for a sequence is not remembered.
SendUntracked(b, val, may) ==
  /\ Len(pipe[b]) < MaxPipe
  /\ m_ttl' = IF wpc = "seq" THEN m_ttl ELSE [m_ttl EXCEPT ![b] = val]
  /\ pipe' = [pipe EXCEPT ![b] = Append(@, [val |-> val, may |-> may])]
  /\ UNCHANGED <<lomask, himask, cur>>

\* The worker sends val to bank b.
Send(b, val, may) ==
  /\ Len(pipe[b]) < MaxPipe
  /\ m_ttl' = [m_ttl EXCEPT ![b] = val]
  /\ pipe' = [pipe EXCEPT ![b] = Append(@, [val |-> val, may |-> may])]
  /\ UNCHANGED <<lomask, himask, cur>>

\* Mutant: the runner is not told.
RunTtlCmdAlone ==
  /\ cmdq # <<>> /\ cmdq' = Tail(cmdq)
  /\ LET c == Head(cmdq)
     IN  Send(c.bank, IF c.on THEN m_ttl[c.bank] \cup c.val ELSE m_ttl[c.bank] \ c.val, c.val)
  /\ UNCHANGED <<runnerVars, wpc, histVars>>

\* run_cmd of a TTL command, from the worker's loop, from a wait of the
\* sequence, or after it.  A runner is told of the new value.
RunTtlCmd ==
  /\ cmdq # <<>> /\ cmdq' = Tail(cmdq)
  /\ LET c == Head(cmdq)
     IN  Send(c.bank, IF c.on THEN m_ttl[c.bank] \cup c.val ELSE m_ttl[c.bank] \ c.val, c.val)
  /\ m_preserve_ttl' =
       IF wpc = "top" THEN m_preserve_ttl
       ELSE LET b == Head(cmdq).bank
            IN  [m_preserve_ttl EXCEPT ![b] = m_ttl'[b] \ m_ttlmask[b]]
  /\ UNCHANGED <<m_ttlmask, wpc, histVars>>

\* sync_ttl in the worker's loop.
SyncTtl ==
  /\ wpc = "top" /\ Finished
  /\ m_ttl' = cur
  /\ UNCHANGED <<cmdq, runnerVars, wpc, hwVars, histVars>>

\* Mutant: nothing is preserved.
BeginSeqPreservesNone(mask) ==
  /\ wpc = "top" /\ Finished /\ nseq < MaxSeqs /\ nseq' = nseq + 1
  /\ m_ttl' = cur
  /\ m_ttlmask' = mask
  /\ m_preserve_ttl' = [b \in Banks |-> {}]
  /\ wpc' = "seq"
  /\ own' = mask /\ used' = [b \in Banks |-> used[b] \cup mask[b]]
  /\ UNCHANGED <<cmdq, hwVars, user, nset, novr>>

\* run_seq waits for earlier instructions, syncs and makes a Runner.
BeginSeq(mask) ==
  /\ wpc = "top" /\ Finished /\ nseq < MaxSeqs /\ nseq' = nseq + 1
  /\ m_ttl' = cur
  /\ m_ttlmask' = mask
  /\ m_preserve_ttl' = [b \in Banks |-> cur[b] \ mask[b]]
  /\ wpc' = "seq"
  /\ own' = mask /\ used' = [b \in Banks |-> used[b] \cup mask[b]]
  /\ UNCHANGED <<cmdq, hwVars, user, nset, novr>>

\* History: the sequence names channels of bank b.
Name(b, chns) ==
  /\ own' = [own EXCEPT ![b] = @ \cup chns]
  /\ used' = [used EXCEPT ![b] = @ \cup chns]
  /\ UNCHANGED <<user, nset, novr, nseq>>

\* Runner::ttl: a bank gets the sequence's value and the preserved channels.  The
\* value is not compared with the mask: it may switch on any channel.
SeqTtl(b, val) ==
  /\ wpc = "seq"
  /\ Name(b, val)
  /\ Send(b, val \cup m_preserve_ttl[b], own'[b])
  /\ UNCHANGED <<cmdq, runnerVars, wpc>>

\* Runner::ttl1: the number within the bank is taken first, and the bank is
\* computed from that, so it is always bank 0.
SeqTtl1(b, c, on) ==
  /\ wpc = "seq"
  /\ Name(b, {c})
  /\ LET val == IF on THEN m_ttl[0] \cup {c} ELSE m_ttl[0] \ {c}
     IN  Send(0, val \cup m_preserve_ttl[0], own'[0])
  /\ UNCHANGED <<cmdq, runnerVars, wpc>>

\* The rest of run_seq: flushed, finished, returned.
EndSeq ==
  /\ \/ wpc = "seq" /\ wpc' = "post"
     \/ wpc = "post" /\ Finished /\ wpc' = "tail"
     \/ wpc = "tail" /\ wpc' = "top"
  /\ UNCHANGED <<cmdq, m_ttl, runnerVars, hwVars, histVars>>

\* The hardware executes an instruction.
Execute(b) ==
  /\ pipe[b] # <<>>
  /\ cur' = [cur EXCEPT ![b] = Head(pipe[b]).val]
  /\ pipe' = [pipe EXCEPT ![b] = Tail(@)]
  /\ UNCHANGED <<cmdq, m_ttl, runnerVars, wpc, lomask, himask, histVars>>

Next ==
  \/ \E b \in Banks, lo, hi \in SUBSET Chns : SetTtl(b, lo, hi)
  \/ \E b \in Banks, lo, hi, normal \in OvrMasks : OverrideTtl(b, lo, hi, normal)
  \/ RunTtlCmd \/ SyncTtl
  \/ \E mask \in TtlMasks : BeginSeq(mask)
  \/ \E b \in Banks, val \in SUBSET Chns : SeqTtl(b, val)
  \/ \E bc \in Ttl1Chns, on \in BOOLEAN : SeqTtl1(bc[1], bc[2], on)
  \/ EndSeq
  \/ \E b \in Banks : Execute(b)

Spec == Init /\ [][Next]_vars

-----------------------------------------------------------------------------
(* Properties *)

\* The comment in sync_ttl: "This function shouldn't be necessary if we did
\* everything correctly."  Whenever the pulser has finished, m_ttl, kept by
\* commands and sequences, is what the outputs are.
SyncUnneeded == Finished => m_ttl = cur

\* ReqSeq::ttl_mask: "Only these TTL's will be changed in the sequence."  As it
\* is executed, an instruction changes only channels that its command is about,
\* or its sequence: those of the mask, and those that the sequence itself has
\* named, since the code leaves it to whoever made the sequence that its values
\* keep to the mask.  No other channel is switched on or off, whatever commands
\* ran during the sequence.
ChangesOnlyItsOwn ==
  [][\A b \in Banks : cur'[b] # cur[b] =>
       \A c \in Chns \ Head(pipe[b]).may : c \in cur'[b] <=> c \in cur[b]]_vars

\* A channel no sequence has had in its mask or named is, once all has been
\* executed, as the last set_ttl request left it, also when that came in the middle
\* of a sequence.
SetsAreKept ==
  cmdq = <<>> /\ Finished => \A b \in Banks : cur[b] \ used[b] = user[b] \ used[b]
=============================================================================
