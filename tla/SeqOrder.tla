------------------------------ MODULE SeqOrder ------------------------------
(***************************************************************************)
(* What CtrlIFace promises the code that schedules sequences, without      *)
(* threads, queues or events: sequences are accepted one after the other,  *)
(* and their owners are told of progress strictly in the order in which    *)
(* the sequences were accepted.  A sequence is cancelled only before it    *)
(* was reported started, it only moves forward, and after its last report  *)
(* nothing more is said about it.                                          *)
(***************************************************************************)
EXTENDS Integers

CONSTANT MaxSeq

VARIABLES accepted,  \* number of sequences scheduled
          told       \* told[i]: last state reported for sequence i

vars == <<accepted, told>>

Ids == 1 .. MaxSeq
Cancelled == -1
Nothing == 0
Done == 3
Over == {Cancelled, Done}

Init ==
  /\ accepted = 0
  /\ told = [i \in Ids |-> Nothing]

Accept ==
  /\ accepted < MaxSeq
  /\ accepted' = accepted + 1
  /\ UNCHANGED told

\* The owner of sequence i is told that it reached s.
Tell(i, s) ==
  /\ i <= accepted
  /\ \A j \in 1 .. i - 1 : told[j] \in Over
  /\ told[i] \notin Over
  /\ IF s = Cancelled THEN told[i] = Nothing ELSE s > told[i]
  /\ told' = [told EXCEPT ![i] = s]
  /\ UNCHANGED accepted

Next == Accept \/ \E i \in Ids, s \in Cancelled .. Done : Tell(i, s)

Spec == Init /\ [][Next]_vars
=============================================================================
