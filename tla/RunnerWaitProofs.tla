-------------------------- MODULE RunnerWaitProofs --------------------------
(***************************************************************************)
(* Proofs about RunnerWait, for any width of the clock, any thresholds in  *)
(* the order of the code's, and any waits, commands and times.             *)
(*                                                                         *)
(* PiecesFit is what output_wait's arithmetic gives for each argument.     *)
(* ReleaseAssert rests on the slack: when a part of the wait goes out,     *)
(* more than the slack is left, also with min_seqt computed modulo W,      *)
(* because the division by F keeps the sum with the slack below W.         *)
(* WaitLength needs two things more: that the instructions of output_wait  *)
(* add up to its argument, an induction over them by way of the least      *)
(* number where a running sum would be wrong; and that in the loop all     *)
(* that was put out so far is what the release and commands took, so that  *)
(* t cannot wrap as long as they fit.                                      *)
(***************************************************************************)
EXTENDS RunnerWait, WellFoundedInduction, TLAPS

-----------------------------------------------------------------------------
(* Arithmetic *)

\* The constants, one by one.
LEMMA Sizes ==
  /\ W \in Nat /\ F \in Nat /\ Lead \in Nat /\ Short \in Nat /\ Slack \in Nat
  /\ MinChunk \in Nat /\ MinT \in Nat /\ MaxWait \in Nat /\ Margin \in Nat
  /\ EndWait \in Nat /\ MaxNow \in Nat
  /\ Lead < Short /\ Short < Slack /\ Slack < MinChunk
  /\ 2 * Margin < MaxWait /\ Short < MaxWait /\ MaxWait < W
  /\ F > 1 /\ 2 * MinChunk < W /\ MaxNow < W
  /\ EndWait >= Short /\ EndWait < W
  BY RunnerConstants

USE Sizes

\* Quotient and rest of a number that is not negative.
LEMMA Quotient ==
  ASSUME NEW a \in Nat, NEW m \in Nat, m > 0
  PROVE  /\ a \div m \in Nat
         /\ m * (a \div m) <= a /\ a < m * (a \div m) + m
  OBVIOUS

\* Every sum or difference of times is a time again.
LEMMA Wraps == \A a \in Int : a % W \in Time
  BY DEF Time

\* The maximum of two numbers.
LEMMA MaxOfTwo ==
  ASSUME NEW a \in Int, NEW b \in Int
  PROVE  (Max({a, b}) = a \/ Max({a, b}) = b) /\ Max({a, b}) >= a /\ Max({a, b}) >= b
  <1>1. \E x \in {a, b} : \A y \in {a, b} : x >= y
    BY DEF Max
  <1> QED BY <1>1 DEF Max

-----------------------------------------------------------------------------
(* Sums of instructions *)

\* The least-number principle, with which induction over a list is done.
LEMMA LeastNumber ==
  ASSUME NEW T, T \subseteq Nat, T # {} PROVE \E x \in T : \A y \in T : x <= y
  <1> DEFINE R == OpToRel(<, Nat)
  <1>1. IsWellFoundedOn(R, Nat)
    BY NatLessThanWellFounded
  <1>2. \A x, y \in Nat : <<y, x>> \in R <=> y < x
    BY DEF OpToRel
  <1> HIDE DEF R
  <1>3. \E x \in T : \A y \in T : ~ (<<y, x>> \in R)
    BY <1>1, WFMin
  <1>4. PICK x \in T : \A y \in T : ~ (<<y, x>> \in R)
    BY <1>3
  <1>5. ASSUME NEW y \in T PROVE x <= y
    <2>1. x \in Nat /\ y \in Nat
      OBVIOUS
    <2>2. ~ (y < x)
      BY <1>2, <1>4, <2>1
    <2> QED BY <2>1, <2>2
  <1> QED BY <1>5

\* TotalTime is what any running sum of the list ends with.
LEMMA SumIs ==
  ASSUME NEW s \in Seq(Nat), NEW g \in [0 .. Len(s) -> Nat],
         g[0] = 0, \A i \in 1 .. Len(s) : g[i] = g[i - 1] + s[i]
  PROVE  TotalTime(s) = g[Len(s)]
  <1> DEFINE D == 0 .. Len(s)
             B(f) == [i \in D |-> IF i = 0 THEN 0 ELSE f[i - 1] + s[i]]
             h == CHOOSE f : f = B(f)
  <1>1. g = B(g)
    OBVIOUS
  <1>2. h = B(h)
    BY <1>1
  <1>3. TotalTime(s) = h[Len(s)]
    BY DEF TotalTime
  <1> HIDE DEF h
  <1>4. h[0] = 0 /\ \A i \in 1 .. Len(s) : h[i] = h[i - 1] + s[i]
    <2> SUFFICES ASSUME NEW i \in D PROVE h[i] = B(h)[i]
      OBVIOUS
    <2> HIDE DEF B
    <2> QED BY <1>2
  <1> DEFINE T == {i \in D : h[i] # g[i]}
  <1>5. T = {}
    <2> SUFFICES ASSUME T # {} PROVE FALSE
      OBVIOUS
    <2>0. T \subseteq Nat
      OBVIOUS
    <2>1. PICK x \in T : \A y \in T : x <= y
      <3> HIDE DEF T
      <3> QED BY <2>0, LeastNumber
    <2>2. x \in 1 .. Len(s)
      BY <1>4
    <2>3. x - 1 \in D /\ x - 1 \notin T
      BY <2>1, <2>2
    <2> QED BY <1>4, <2>1, <2>2, <2>3
  <1> QED BY <1>3, <1>5

\* Full instructions and up to two more.
LEMMA FullsAndRest ==
  ASSUME NEW s \in Seq(Nat), NEW full \in Nat, NEW k \in {0, 1, 2}, Len(s) = full + k,
         \A i \in 1 .. full : s[i] = MaxWait
  PROVE  TotalTime(s) = full * MaxWait + (IF k = 0 THEN 0 ELSE s[full + 1])
                                       + (IF k = 2 THEN s[full + 2] ELSE 0)
  <1> DEFINE a == IF k = 0 THEN 0 ELSE s[full + 1]
             b == IF k = 2 THEN s[full + 2] ELSE 0
             g == [i \in 0 .. Len(s) |-> IF i <= full THEN i * MaxWait
                                        ELSE IF i = full + 1 THEN full * MaxWait + a
                                        ELSE full * MaxWait + a + b]
  <1>1. a \in Nat /\ b \in Nat /\ k \in Nat
    OBVIOUS
  <1>2. \A i \in Nat : i * MaxWait \in Nat
    OBVIOUS
  <1>3. g \in [0 .. Len(s) -> Nat] /\ g[0] = 0
    <2> HIDE DEF a, b
    <2> QED BY <1>1, <1>2
  <1>4. ASSUME NEW i \in 1 .. Len(s) PROVE g[i] = g[i - 1] + s[i]
    <2>1. CASE i <= full
      <3>1. i * MaxWait = (i - 1) * MaxWait + MaxWait
        OBVIOUS
      <3>2. g[i] = i * MaxWait /\ g[i - 1] = (i - 1) * MaxWait /\ s[i] = MaxWait
        BY <2>1
      <3> QED BY <3>1, <3>2
    <2>2. CASE i = full + 1
      <3>1. s[i] = a
        BY <2>2
      <3> HIDE DEF a, b
      <3>2. g[i] = full * MaxWait + a /\ g[i - 1] = full * MaxWait
        BY <2>2
      <3> QED BY <3>1, <3>2
    <2>3. CASE i = full + 2
      <3>1. s[i] = b
        BY <2>3
      <3> HIDE DEF a, b
      <3>2. g[i] = full * MaxWait + a + b /\ g[i - 1] = full * MaxWait + a
        BY <2>3
      <3> QED BY <3>1, <3>2
    <2>4. i <= full \/ i = full + 1 \/ i = full + 2
      OBVIOUS
    <2> QED BY <2>1, <2>2, <2>3, <2>4
  <1>5. g[Len(s)] = full * MaxWait + a + b
    OBVIOUS
  <1> HIDE DEF g, a, b
  <1>6. TotalTime(s) = full * MaxWait + a + b
    BY <1>3, <1>4, <1>5, SumIs
  <1> QED BY <1>6 DEF a, b

\* The three cases of it.
LEMMA SumOfPieces ==
  ASSUME NEW s \in Seq(Nat), NEW full \in Nat, \A i \in 1 .. full : s[i] = MaxWait
  PROVE  /\ Len(s) = full     => TotalTime(s) = full * MaxWait
         /\ Len(s) = full + 1 => TotalTime(s) = full * MaxWait + s[full + 1]
         /\ Len(s) = full + 2 => TotalTime(s) = full * MaxWait + s[full + 1] + s[full + 2]
  <1>1. full * MaxWait \in Nat
    OBVIOUS
  <1>2. ASSUME Len(s) = full PROVE TotalTime(s) = full * MaxWait
    <2>1. Len(s) = full + 0 /\ 0 \in {0, 1, 2}
      BY <1>2
    <2>2. TotalTime(s) = full * MaxWait + (IF 0 = 0 THEN 0 ELSE s[full + 1])
                                        + (IF 0 = 2 THEN s[full + 2] ELSE 0)
      BY <2>1, FullsAndRest, Zenon
    <2> QED BY <1>1, <2>2
  <1>3. ASSUME Len(s) = full + 1 PROVE TotalTime(s) = full * MaxWait + s[full + 1]
    <2>1. Len(s) = full + 1 /\ 1 \in {0, 1, 2} /\ s[full + 1] \in Nat
      BY <1>3
    <2>2. TotalTime(s) = full * MaxWait + (IF 1 = 0 THEN 0 ELSE s[full + 1])
                                        + (IF 1 = 2 THEN s[full + 2] ELSE 0)
      BY <2>1, FullsAndRest, Zenon
    <2> QED BY <1>1, <2>1, <2>2
  <1>4. ASSUME Len(s) = full + 2
        PROVE  TotalTime(s) = full * MaxWait + s[full + 1] + s[full + 2]
    <2>1. Len(s) = full + 2 /\ 2 \in {0, 1, 2}
      BY <1>4
    <2>2. TotalTime(s) = full * MaxWait + (IF 2 = 0 THEN 0 ELSE s[full + 1])
                                        + (IF 2 = 2 THEN s[full + 2] ELSE 0)
      BY <2>1, FullsAndRest, Zenon
    <2> QED BY <2>2
  <1> QED BY <1>2, <1>3, <1>4

-----------------------------------------------------------------------------
(* What output_wait puts out *)

\* PiecesFit, of a list of instructions.
Fit(s) == \A i \in DOMAIN s : s[i] <= MaxWait /\ (Len(s) > 1 => s[i] > Margin)

\* No instruction of output_wait(d) is too long, none of several is as short as the margin,
\* and together they take d.
LEMMA OutputFits ==
  ASSUME NEW d \in Time
  PROVE  OutputWait(d) \in Seq(Time) /\ Fit(OutputWait(d)) /\ TotalTime(OutputWait(d)) = d
  <1> DEFINE full == IF d > MaxWait + Margin THEN (d - Margin - 1) \div MaxWait ELSE 0
             rest == d - full * MaxWait
             half == rest \div 2
             fulls == [i \in 1 .. full |-> MaxWait]
             tail == IF rest > MaxWait THEN <<half, rest - half>>
                     ELSE IF rest > 0 THEN <<rest>> ELSE <<>>
  <1>1. d \in Nat /\ MaxWait \in Nat /\ Margin \in Nat /\ W \in Nat /\ d < W /\ MaxWait < W
        /\ 2 * Margin < MaxWait
    BY DEF Time
  <1>2. /\ full \in Nat /\ rest \in Nat /\ rest <= MaxWait + Margin
        /\ full > 0 => rest > Margin
    <2>1. CASE d > MaxWait + Margin
      <3>1. d - Margin - 1 \in Nat /\ full = (d - Margin - 1) \div MaxWait
        BY <1>1, <2>1
      <3>2. /\ full \in Nat
            /\ MaxWait * full <= d - Margin - 1
            /\ d - Margin - 1 < MaxWait * full + MaxWait
        BY <1>1, <3>1, Quotient
      <3> HIDE DEF full
      <3>3. full * MaxWait = MaxWait * full /\ MaxWait * full \in Nat
        BY <1>1, <3>2
      <3> QED BY <1>1, <3>2, <3>3
    <2>2. CASE ~(d > MaxWait + Margin)
      <3>1. full = 0 /\ rest = d
        BY <1>1, <2>2
      <3> QED BY <1>1, <2>2, <3>1
    <2> QED BY <2>1, <2>2
  <1>3. full * MaxWait \in Nat /\ full * MaxWait + rest = d
    <2> HIDE DEF full
    <2> QED BY <1>1, <1>2
  <1> HIDE DEF full, rest
  <1>4. CASE rest > MaxWait
    <2>1. /\ half \in Nat /\ rest - half \in Nat
          /\ half > Margin /\ half <= MaxWait /\ rest - half > Margin /\ rest - half <= MaxWait
      BY <1>1, <1>2, <1>4
    <2>2. tail = <<half, rest - half>>
      BY <1>4
    <2> HIDE DEF half, tail
    <2> DEFINE s == fulls \o tail
    <2>3. /\ s \in Seq(Time) /\ Len(s) = full + 2
          /\ \A i \in 1 .. full : s[i] = MaxWait
          /\ s[full + 1] = half /\ s[full + 2] = rest - half
      BY <1>1, <1>2, <2>1, <2>2 DEF Time
    <2> HIDE DEF s, fulls
    <2>4. \A i \in 1 .. full + 2 : i \in 1 .. full \/ i = full + 1 \/ i = full + 2
      BY <1>2
    <2>5. MaxWait > Margin
      BY <1>1
    <2>6. DOMAIN s = 1 .. full + 2
      BY <2>3
    <2>7. Fit(s)
      <3> SUFFICES ASSUME NEW i \in 1 .. full + 2 PROVE s[i] <= MaxWait /\ s[i] > Margin
        BY <2>6 DEF Fit
      <3>1. s[i] = MaxWait \/ s[i] = half \/ s[i] = rest - half
        BY <2>3, <2>4
      <3> QED BY <1>1, <2>1, <2>5, <3>1
    <2>8. OutputWait(d) = s
      BY DEF OutputWait, s, fulls, tail, half, rest, full
    <2>9. s \in Seq(Nat)
      BY <2>3 DEF Time
    <2>10. TotalTime(s) = full * MaxWait + half + (rest - half)
      BY <1>2, <2>3, <2>9, SumOfPieces
    <2> QED BY <1>1, <1>2, <1>3, <2>1, <2>3, <2>7, <2>8, <2>10
  <1>5. CASE rest > 0 /\ rest <= MaxWait
    <2>1. tail = <<rest>>
      BY <1>1, <1>2, <1>5
    <2> HIDE DEF half, tail
    <2> DEFINE s == fulls \o tail
    <2>2. /\ s \in Seq(Time) /\ Len(s) = full + 1
          /\ \A i \in 1 .. full : s[i] = MaxWait
          /\ s[full + 1] = rest
      BY <1>1, <1>2, <1>5, <2>1 DEF Time
    <2> HIDE DEF s, fulls
    <2>3. \A i \in 1 .. full + 1 : i \in 1 .. full \/ i = full + 1
      BY <1>2
    <2>4. MaxWait > Margin /\ (Len(s) > 1 => rest > Margin)
      BY <1>1, <1>2, <2>2
    <2>5. DOMAIN s = 1 .. full + 1
      BY <2>2
    <2>6. Fit(s)
      <3> SUFFICES ASSUME NEW i \in 1 .. full + 1
                   PROVE  s[i] <= MaxWait /\ (Len(s) > 1 => s[i] > Margin)
        BY <2>5 DEF Fit
      <3>1. s[i] = MaxWait \/ s[i] = rest
        BY <2>2, <2>3
      <3> QED BY <1>1, <1>5, <2>4, <3>1
    <2>7. OutputWait(d) = s
      BY DEF OutputWait, s, fulls, tail, half, rest, full
    <2>8. s \in Seq(Nat)
      BY <2>2 DEF Time
    <2>9. TotalTime(s) = full * MaxWait + rest
      BY <1>2, <2>2, <2>8, SumOfPieces
    <2> QED BY <1>3, <2>2, <2>6, <2>7, <2>9
  <1>6. CASE rest = 0
    <2>1. full = 0 /\ tail = <<>>
      BY <1>1, <1>2, <1>6
    <2> HIDE DEF half, tail
    <2> DEFINE s == fulls \o tail
    <2>2. s = <<>>
      BY <2>1
    <2> HIDE DEF s, fulls
    <2>3. OutputWait(d) = s
      BY DEF OutputWait, s, fulls, tail, half, rest, full
    <2>4. TotalTime(s) = 0
      <3>1. s \in Seq(Nat) /\ Len(s) = full /\ \A i \in 1 .. full : s[i] = MaxWait
        BY <2>1, <2>2
      <3>2. TotalTime(s) = full * MaxWait
        BY <1>2, <3>1, SumOfPieces
      <3> QED BY <2>1, <3>2
    <2>5. d = 0
      BY <1>1, <1>6, <1>3, <2>1
    <2> QED BY <2>2, <2>3, <2>4, <2>5 DEF Fit
  <1> QED BY <1>2, <1>4, <1>5, <1>6

-----------------------------------------------------------------------------
(* The inductive invariant *)

\* The numbers wait computes with are uint64_t, the real time is within its bound, and the
\* two properties.
WaitInv ==
  /\ m_released \in BOOLEAN /\ pc \in {"seq", "loop"}
  /\ m_t \in Time /\ m_start_t \in Time /\ t \in Time /\ tnow \in 0 .. MaxNow
  /\ pieces \in Seq(Time)
  /\ PiecesFit /\ ReleaseAssert

\* min_seqt with the slack does not wrap.
LEMMA MinSeqTFits ==
  ASSUME WaitInv
  PROVE  MinSeqT \in Nat /\ MinSeqT + Slack < W /\ (MinSeqT + Slack) % W = MinSeqT + Slack
  <1> DEFINE a == (SeqRt - ThreshRt) % W
             q == a \div F
  <1>1. SeqRt \in Time /\ ThreshRt \in Time
    <2>1. m_start_t + m_t * F \in Int /\ tnow + MinT \in Int
      BY DEF WaitInv, Time
    <2> QED BY <2>1, Wraps DEF SeqRt, ThreshRt
  <1>2. a \in Time
    BY <1>1, Wraps DEF Time
  <1> HIDE DEF a
  <1>3. q \in Nat /\ F * q <= a
    BY <1>2, Quotient DEF Time
  <1> HIDE DEF q
  <1>4. 2 * q <= F * q
    BY <1>3
  <1>5. q + Slack < W
    BY <1>2, <1>3, <1>4 DEF Time
  <1>6. MinChunk \in Nat /\ MinChunk + Slack < W
    OBVIOUS
  <1>7. MinSeqT = q \/ MinSeqT = MinChunk
    <2>1. MinSeqT = Max({q, MinChunk})
      BY DEF MinSeqT, q, a
    <2>2. q \in Int /\ MinChunk \in Int
      BY <1>3, <1>6
    <2>3. Max({q, MinChunk}) = q \/ Max({q, MinChunk}) = MinChunk
      BY <2>2, MaxOfTwo
    <2> QED BY <2>1, <2>3
  <1>8. MinSeqT \in Nat /\ MinSeqT + Slack < W
    BY <1>3, <1>5, <1>6, <1>7
  <1> HIDE DEF MinSeqT
  <1> QED BY <1>8

\* Every step of the sequence, of the loop and of the environment keeps the invariant.
LEMMA WaitStep == WaitInv /\ [Next]_vars => WaitInv'
  <1> SUFFICES ASSUME WaitInv, [Next]_vars PROVE WaitInv'
    OBVIOUS
  <1>0. /\ m_released \in BOOLEAN /\ pc \in {"seq", "loop"}
        /\ m_t \in Time /\ m_start_t \in Time /\ t \in Time /\ tnow \in 0 .. MaxNow
        /\ pieces \in Seq(Time) /\ Fit(pieces)
        /\ (pc = "loop" /\ ~ m_released => t >= Short)
    BY DEF WaitInv, PiecesFit, Fit, ReleaseAssert
  <1> DEFINE Rest == /\ pieces' \in Seq(Time) /\ Fit(pieces')
                     /\ (pc' = "loop" /\ ~ m_released' => t' >= Short)
             Nums == /\ m_released' \in BOOLEAN /\ pc' \in {"seq", "loop"}
                     /\ m_t' \in Time /\ m_start_t' \in Time /\ t' \in Time
                     /\ tnow' \in 0 .. MaxNow
  <1>a. ASSUME Nums, Rest PROVE WaitInv'
    BY <1>a DEF WaitInv, PiecesFit, Fit, ReleaseAssert
  <1>b. \A d \in Time : (m_t + d) % W \in Time
    <2> SUFFICES ASSUME NEW d \in Time PROVE (m_t + d) % W \in Time
      OBVIOUS
    <2>1. m_t + d \in Int
      BY <1>0 DEF Time
    <2> QED BY <2>1, Wraps
  <1>c. Waits \subseteq Time /\ Instrs \subseteq Time /\ StepTimes \subseteq Time
        /\ EndWait \in Time /\ Lead \in Time /\ 0 \in Time /\ 0 .. MaxNow \subseteq Time
    BY RunnerConstants DEF Time
  <1>d. <<>> \in Seq(Time) /\ Fit(<<>>)
    BY DEF Fit
  <1> USE DEF Op
  <1>1. ASSUME NEW d \in Instrs, Instr(d) PROVE WaitInv'
    <2>1. Nums
      BY <1>0, <1>1, <1>b, <1>c DEF Instr
    <2>2. Rest
      BY <1>0, <1>1 DEF Instr
    <2> QED BY <1>a, <2>1, <2>2
  <1>2. CASE WaitTrigger
    <2>1. Nums
      BY <1>0, <1>2, <1>c DEF WaitTrigger
    <2>2. Rest
      BY <1>0, <1>2 DEF WaitTrigger
    <2> QED BY <1>a, <2>1, <2>2
  <1>3. ASSUME NEW d \in Waits, WaitAtOnce(d) PROVE WaitInv'
    <2>1. Nums
      BY <1>0, <1>3, <1>b, <1>c DEF WaitAtOnce
    <2>2. d \in Time /\ (~ m_process_cmd \/ d < Short) /\ pc' = "seq"
          /\ pieces' = IF m_process_cmd THEN <<d>> ELSE OutputWait(d)
      BY <1>0, <1>3, <1>c DEF WaitAtOnce
    <2>3. ASSUME pieces' = OutputWait(d) PROVE Rest
      BY <2>2, <2>3, OutputFits
    <2>4. ASSUME pieces' = <<d>>, d < Short PROVE Rest
      <3>1. d <= MaxWait
        BY <2>2, <2>4 DEF Time
      <3>2. <<d>> \in Seq(Time) /\ Len(<<d>>) = 1 /\ DOMAIN <<d>> = {1} /\ <<d>>[1] = d
        BY <2>2
      <3>3. Fit(<<d>>)
        BY <3>1, <3>2 DEF Fit
      <3> QED BY <2>2, <2>4, <3>2, <3>3
    <2>5. Rest
      BY <2>2, <2>3, <2>4
    <2> QED BY <1>a, <2>1, <2>5
  <1>4. ASSUME NEW d \in Waits, WaitLoop(d) PROVE WaitInv'
    <2>1. Nums
      BY <1>0, <1>4, <1>c DEF WaitLoop
    <2>2. Rest
      BY <1>4, <1>d DEF WaitLoop
    <2> QED BY <1>a, <2>1, <2>2
  <1>5. CASE EndSeq
    <2>1. Nums
      BY <1>0, <1>5, <1>c DEF EndSeq
    <2>2. Rest
      BY <1>5, <1>d DEF EndSeq
    <2> QED BY <1>a, <2>1, <2>2
  <1>6. CASE OutputRest
    <2>1. Nums
      BY <1>0, <1>6, <1>b DEF OutputRest, Output
    <2>2. pieces' = OutputWait(t) /\ pc' = "seq"
      BY <1>6 DEF OutputRest, Output
    <2>3. Rest
      BY <1>0, <2>2, OutputFits
    <2> QED BY <1>a, <2>1, <2>3
  <1>7. CASE OutputSome
    <2>1. /\ MinSeqT \in Nat /\ MinSeqT + Slack < W
          /\ (MinSeqT + Slack) % W = MinSeqT + Slack
      BY MinSeqTFits
    <2>2. /\ ~ (t <= MinSeqT + Slack)
          /\ m_t' = (m_t + MinSeqT) % W /\ pieces' = OutputWait(MinSeqT)
          /\ t' = (t - MinSeqT) % W
          /\ UNCHANGED <<m_released, m_start_t, tnow, pc>>
      BY <1>7, <2>1 DEF OutputSome, Output
    <2> HIDE DEF MinSeqT
    <2>3. MinSeqT \in Time /\ t - MinSeqT \in Time /\ t - MinSeqT >= Short
      BY <1>0, <2>1, <2>2 DEF Time
    <2>4. t' = t - MinSeqT
      BY <2>2, <2>3 DEF Time
    <2>5. Nums
      BY <1>0, <1>b, <2>2, <2>3, <2>4
    <2>6. Rest
      BY <2>2, <2>3, <2>4, OutputFits
    <2> QED BY <1>a, <2>5, <2>6
  <1>8. ASSUME NEW step \in StepTimes, ProcessCmd(step) PROVE WaitInv'
    <2> DEFINE lead == IF m_released THEN 0 ELSE Lead
               used == IF queued > 0 THEN step ELSE 0
    <2>1. lead \in Int /\ used \in Int
      BY <1>c DEF Time
    <2>2. /\ m_t' = (m_t + lead + used) % W /\ t' = (t - lead - used) % W
          /\ m_released' = TRUE /\ UNCHANGED <<m_start_t, tnow, pc, pieces>>
      BY <1>8 DEF ProcessCmd
    <2> HIDE DEF lead, used
    <2>3. m_t + lead + used \in Int /\ t - lead - used \in Int
      BY <1>0, <2>1 DEF Time
    <2>4. m_t' \in Time /\ t' \in Time
      BY <2>2, <2>3, Wraps
    <2>5. Nums
      BY <1>0, <2>2, <2>4
    <2>6. Rest
      BY <1>0, <2>2
    <2> QED BY <1>a, <2>5, <2>6
  <1>9. CASE Tick
    <2>1. tnow' \in 0 .. MaxNow
      BY <1>0, <1>9 DEF Tick
    <2>2. UNCHANGED <<m_released, m_t, m_start_t, t, pc, pieces>>
      BY <1>9 DEF Tick
    <2> QED BY <1>0, <1>a, <2>1, <2>2
  <1>10. CASE SendCmd
    BY <1>0, <1>10, <1>a DEF SendCmd
  <1>11. CASE UNCHANGED vars
    BY <1>0, <1>11, <1>a DEF vars
  <1> HIDE DEF Rest, Nums, Op
  <1> QED BY <1>1, <1>2, <1>3, <1>4, <1>5, <1>6, <1>7, <1>8, <1>9, <1>10, <1>11 DEF Next

\* The inductive invariant of the waits: clock arithmetic stays in uint64_t, and the two
\* properties below.
THEOREM WaitInvariant == Spec => []WaitInv
  <1>1. Init => WaitInv
    <2> SUFFICES ASSUME Init PROVE WaitInv
      OBVIOUS
    <2>1. 0 \in Time /\ 0 \in 0 .. MaxNow /\ <<>> \in Seq(Time) /\ DOMAIN <<>> = {}
      BY DEF Time
    <2> QED BY <2>1 DEF Init, WaitInv, PiecesFit, ReleaseAssert
  <1>2. WaitInv /\ [Next]_vars => WaitInv'
    BY WaitStep
  <1> QED BY <1>1, <1>2, PTL DEF Spec

\* The assert in Pulser::wait holds for every instruction that output_wait or wait puts
\* out, and no instruction of a split wait is as short as the margin.
THEOREM EveryPieceFits == Spec => []PiecesFit
  <1>1. WaitInv => PiecesFit
    BY DEF WaitInv
  <1> QED BY <1>1, WaitInvariant, PTL

\* The assert at the release of the hold: in wait's loop, as long as the hold was not
\* released, at least 2000 of the wait is left.
THEOREM ReleaseHasTime == Spec => []ReleaseAssert
  <1>1. WaitInv => ReleaseAssert
    BY DEF WaitInv
  <1> QED BY <1>1, WaitInvariant, PTL

-----------------------------------------------------------------------------
(* The length of a wait *)

\* What a wait has put out, as long as commands have not taken more than it is long: in the
\* loop only the release and commands, all of which was taken from t.
Account ==
  took <= asked => IF pc = "loop" THEN put = took /\ t = asked - took ELSE put = asked

LengthInv ==
  /\ TypeOK
  /\ queued <= ncmd
  /\ pc = "loop" => asked \in Waits \cup {EndWait}
  /\ Account

\* Unless commands have taken more than the whole wait, all that is left of it is below
\* min_seqt, which is computed from a difference that is negative: nothing is left over.
LEMMA NeverInParts ==
  ASSUME WaitInv, LengthInv, pc = "loop", SeqRt < ThreshRt, took <= asked
  PROVE  t <= (MinSeqT + Slack) % W
  <1> DEFINE a == (SeqRt - ThreshRt) % W
             q == a \div F
             r == W - MaxNow - MinT
             c == r \div F
  <1>1. tnow + MinT \in Nat /\ tnow + MinT <= MaxNow + MinT /\ MaxNow + MinT < W
    BY ClockIsWide DEF WaitInv
  <1>2. ThreshRt = tnow + MinT
    BY <1>1 DEF ThreshRt
  <1>3. SeqRt \in Time
    <2>1. m_start_t + m_t * F \in Int
      BY DEF WaitInv, Time
    <2> QED BY <2>1, Wraps DEF SeqRt
  <1> HIDE DEF SeqRt, ThreshRt
  <1>4. a = W + (SeqRt - ThreshRt)
    BY <1>1, <1>2, <1>3 DEF Time
  <1>5. a \in Nat /\ r \in Nat /\ r <= a
    BY <1>1, <1>2, <1>3, <1>4 DEF Time
  <1> HIDE DEF a, r
  <1>6. /\ q \in Nat /\ a < F * q + F
        /\ c \in Nat /\ F * c <= r
    BY <1>5, Quotient
  <1> HIDE DEF q, c
  <1>7. c <= q
    <2> SUFFICES ASSUME c > q PROVE FALSE
      BY <1>6
    <2>1. F * (q + 1) <= F * c
      BY <1>6
    <2>2. F * (q + 1) = F * q + F
      BY <1>6
    <2> QED BY <1>5, <1>6, <2>1, <2>2
  <1>8. MinSeqT >= q
    <2>1. MinSeqT = Max({q, MinChunk})
      BY DEF MinSeqT, q, a
    <2>2. q \in Int /\ MinChunk \in Int
      BY <1>6
    <2> QED BY <2>1, <2>2, MaxOfTwo
  <1>9. asked <= c
    BY ClockIsWide DEF LengthInv, c, r
  <1>10. t <= asked
    BY DEF LengthInv, TypeOK, Account, Time
  <1>11. MinSeqT \in Nat /\ (MinSeqT + Slack) % W = MinSeqT + Slack
    BY MinSeqTFits
  <1> HIDE DEF MinSeqT
  <1>12. t \in Nat /\ asked \in Nat
    BY DEF LengthInv, TypeOK, Time
  <1> QED BY <1>6, <1>7, <1>8, <1>9, <1>10, <1>11, <1>12

\* Every step keeps the account.
LEMMA LengthStep == WaitInv /\ LengthInv /\ [Next]_vars => LengthInv'
  <1> SUFFICES ASSUME WaitInv, LengthInv, [Next]_vars PROVE LengthInv'
    OBVIOUS
  <1>0. WaitInv'
    BY WaitStep
  <1>1. /\ m_process_cmd \in BOOLEAN /\ queued \in Nat /\ ncmd \in Nat /\ queued <= ncmd
        /\ ncmd <= MaxCmds /\ MaxCmds \in Nat /\ MaxOps \in Nat /\ ops \in 0 .. MaxOps
        /\ asked \in Time /\ put \in 0 .. Put /\ took \in 0 .. Put /\ t \in Time
        /\ pc \in {"seq", "loop"} /\ Put \in Nat /\ Put > W
        /\ pc = "loop" => asked \in Waits \cup {EndWait}
    BY RunnerConstants DEF LengthInv, TypeOK, Put
  <1> DEFINE Queue == /\ m_process_cmd' \in BOOLEAN /\ ops' \in 0 .. MaxOps
                      /\ queued' \in Nat /\ ncmd' \in Nat
                      /\ queued' <= ncmd' /\ ncmd' <= MaxCmds
             Sums == /\ asked' \in Time /\ put' \in 0 .. Put /\ took' \in 0 .. Put
                     /\ pc' = "loop" => asked' \in Waits \cup {EndWait}
  <1>2. ASSUME Queue, Sums, Account' PROVE LengthInv'
    <2>1. queued' \in 0 .. MaxCmds /\ ncmd' \in 0 .. MaxCmds
      BY <1>1, <1>2
    <2>2. TypeOK'
      BY <1>0, <1>2, <2>1 DEF TypeOK, WaitInv, Time
    <2> QED BY <1>2, <2>2 DEF LengthInv
  <1>3. Waits \subseteq Time /\ EndWait \in Time /\ StepTimes \subseteq Time /\ 0 \in Time
    BY RunnerConstants DEF Time
  <1>4. \A d \in Time : d \in 0 .. Put
    BY <1>1 DEF Time
  <1>5. 0 \in 0 .. Put
    BY <1>1
  <1>6. \A n \in Nat : Capped(n) \in 0 .. Put /\ (n <= Put => Capped(n) = n)
                        /\ Capped(n) <= n /\ (Capped(n) < W => Capped(n) = n)
    BY <1>1 DEF Capped
  <1>7. ASSUME UNCHANGED <<pc, asked, put, took, t>> PROVE Sums /\ Account'
    BY <1>1, <1>7 DEF LengthInv, Account
  <1>8. ASSUME UNCHANGED <<m_process_cmd, queued, ncmd>>, ops' \in 0 .. MaxOps PROVE Queue
    BY <1>1, <1>8
  <1>9. ASSUME Op PROVE ops' \in 0 .. MaxOps /\ pc = "seq"
    BY <1>1, <1>9 DEF Op
  <1>10. ASSUME NEW d \in Instrs, Instr(d) PROVE LengthInv'
    BY <1>2, <1>7, <1>8, <1>9, <1>10 DEF Instr
  <1>11. CASE WaitTrigger
    BY <1>2, <1>7, <1>8, <1>9, <1>11 DEF WaitTrigger
  <1>12. ASSUME NEW d \in Waits, WaitAtOnce(d) PROVE LengthInv'
    <2>1. /\ d \in Time /\ pc = "seq" /\ Queue
          /\ pieces' = IF m_process_cmd THEN <<d>> ELSE OutputWait(d)
          /\ put' = TotalTime(pieces') /\ took' = 0 /\ asked' = d /\ pc' = pc
      BY <1>3, <1>8, <1>9, <1>12 DEF WaitAtOnce
    <2>2. TotalTime(<<d>>) = d
      <3>1. <<d>> \in Seq(Nat) /\ Len(<<d>>) = 0 + 1 /\ <<d>>[0 + 1] = d /\ d \in Nat
            /\ \A i \in 1 .. 0 : <<d>>[i] = MaxWait
        BY <2>1 DEF Time
      <3> DEFINE s == <<d>>
      <3> HIDE DEF s
      <3>2. TotalTime(s) = 0 * MaxWait + s[0 + 1]
        BY <3>1, SumOfPieces DEF s
      <3>3. 0 * MaxWait = 0
        OBVIOUS
      <3> QED BY <3>1, <3>2, <3>3 DEF s
    <2>3. put' = d
      BY <2>1, <2>2, OutputFits
    <2>4. Sums /\ Account'
      BY <1>4, <1>5, <2>1, <2>3 DEF Account
    <2> QED BY <1>2, <2>1, <2>4
  <1>13. ASSUME NEW d \in Waits \cup {EndWait}, Queue, pc' = "loop",
                t' = d, asked' = d, put' = 0, took' = 0
         PROVE  LengthInv'
    <2>1. d \in Time
      BY <1>3
    <2>2. Sums /\ Account'
      BY <1>5, <1>13, <2>1 DEF Account, Time
    <2> QED BY <1>2, <1>13, <2>2
  <1>14. ASSUME NEW d \in Waits, WaitLoop(d) PROVE LengthInv'
    <2>1. Queue
      BY <1>8, <1>9, <1>14 DEF WaitLoop
    <2> QED BY <1>13, <1>14, <2>1 DEF WaitLoop
  <1>15. CASE EndSeq
    <2>1. /\ m_process_cmd' = TRUE /\ ops' = MaxOps /\ queued' \in 0 .. queued /\ ncmd' = ncmd
          /\ pc' = "loop" /\ t' = EndWait /\ asked' = EndWait /\ put' = 0 /\ took' = 0
      BY <1>15 DEF EndSeq
    <2>2. Queue
      BY <1>1, <2>1
    <2> QED BY <1>13, <2>1, <2>2
  <1>16. CASE OutputRest
    <2>1. /\ put' = Capped(put + TotalTime(OutputWait(t))) /\ pc = "loop" /\ pc' = "seq"
          /\ UNCHANGED <<m_process_cmd, queued, ncmd, ops, asked, took>>
      BY <1>16 DEF OutputRest, Output
    <2>2. put' = Capped(put + t) /\ put + t \in Nat
      BY <1>1, <2>1, OutputFits DEF Time
    <2>3. Queue
      BY <1>1, <1>8, <2>1
    <2>4. Sums
      BY <1>1, <1>6, <2>1, <2>2
    <2>5. Account'
      <3> SUFFICES ASSUME took <= asked PROVE put' = asked
        BY <2>1 DEF Account
      <3>1. put + t = asked /\ asked <= Put
        BY <1>1, <2>1 DEF LengthInv, Account, Time
      <3> QED BY <1>6, <2>2, <3>1
    <2> QED BY <1>2, <2>3, <2>4, <2>5
  <1>17. CASE OutputSome
    <2>1. /\ put' = Capped(put + TotalTime(OutputWait(MinSeqT))) /\ pc = "loop"
          /\ ~ (t <= (MinSeqT + Slack) % W) /\ SeqRt < ThreshRt
          /\ UNCHANGED <<m_process_cmd, queued, ncmd, ops, asked, took, pc>>
      BY <1>17 DEF OutputSome, Output
    <2>2. ~ (took <= asked)
      BY <2>1, NeverInParts
    <2>3. MinSeqT \in Nat /\ MinSeqT < W
      <3>1. MinSeqT \in Nat /\ MinSeqT + Slack < W
        BY MinSeqTFits
      <3> HIDE DEF MinSeqT
      <3> QED BY <3>1
    <2> HIDE DEF MinSeqT
    <2>4. MinSeqT \in Time
      BY <2>3 DEF Time
    <2>5. put' = Capped(put + MinSeqT) /\ put + MinSeqT \in Nat
      BY <1>1, <2>1, <2>3, <2>4, OutputFits
    <2>6. Queue
      BY <1>1, <1>8, <2>1
    <2>7. Sums
      BY <1>1, <1>6, <2>1, <2>5
    <2>8. Account'
      BY <2>1, <2>2 DEF Account
    <2> QED BY <1>2, <2>6, <2>7, <2>8
  <1>18. ASSUME NEW step \in StepTimes, ProcessCmd(step) PROVE LengthInv'
    <2> DEFINE lead == IF m_released THEN 0 ELSE Lead
               used == IF queued > 0 THEN step ELSE 0
    <2>1. lead \in Nat /\ used \in Nat
      BY <1>3 DEF Time
    <2>2. /\ pc = "loop" /\ t' = (t - lead - used) % W
          /\ put' = Capped(put + lead + used) /\ took' = Capped(took + lead + used)
          /\ queued' = IF queued > 0 THEN queued - 1 ELSE 0
          /\ UNCHANGED <<m_process_cmd, ncmd, pc, ops, asked>>
      BY <1>18 DEF ProcessCmd
    <2> HIDE DEF lead, used
    <2>3. put + lead + used \in Nat /\ took + lead + used \in Nat
      BY <1>1, <2>1
    <2>4. Queue
      BY <1>1, <2>2
    <2>5. Sums
      BY <1>1, <1>6, <2>2, <2>3
    <2>6. Account'
      <3> SUFFICES ASSUME took' <= asked PROVE put' = took' /\ t' = asked - took'
        BY <2>2 DEF Account
      <3>1. took' = took + lead + used
        BY <1>1, <1>6, <2>2, <2>3 DEF Time
      <3>2. took <= asked
        BY <1>1, <2>1, <3>1 DEF Time
      <3>3. put = took /\ t = asked - took
        BY <2>2, <3>2 DEF LengthInv, Account
      <3>4. put' = took'
        BY <2>2, <3>3
      <3>5. t - lead - used = asked - took' /\ t - lead - used \in Time
        BY <1>1, <2>1, <3>1, <3>3 DEF Time
      <3>6. t' = t - lead - used
        BY <2>2, <3>5 DEF Time
      <3> QED BY <3>4, <3>5, <3>6
    <2> QED BY <1>2, <2>4, <2>5, <2>6
  <1>19. CASE Tick
    BY <1>1, <1>2, <1>7, <1>8, <1>19 DEF Tick
  <1>20. CASE SendCmd
    <2>1. Queue
      BY <1>1, <1>20 DEF SendCmd
    <2> QED BY <1>2, <1>7, <1>20, <2>1 DEF SendCmd
  <1>21. CASE UNCHANGED vars
    BY <1>1, <1>2, <1>7, <1>8, <1>21 DEF vars
  <1> HIDE DEF Queue, Sums
  <1> QED BY <1>10, <1>11, <1>12, <1>14, <1>15, <1>16, <1>17, <1>18, <1>19, <1>20, <1>21 DEF Next

\* The inductive invariant of the length of waits, on top of WaitInv.
THEOREM LengthInvariant == Spec => [](WaitInv /\ LengthInv)
  <1>1. Init => LengthInv
    <2> SUFFICES ASSUME Init PROVE LengthInv
      OBVIOUS
    <2>1. /\ 0 \in Time /\ 0 \in 0 .. MaxNow /\ 0 \in 0 .. MaxCmds /\ 0 \in 0 .. MaxOps
          /\ 0 \in 0 .. Put /\ <<>> \in Seq(0 .. W - 1)
      BY RunnerConstants DEF Time, Put
    <2>2. TypeOK
      BY <2>1 DEF Init, TypeOK
    <2> QED BY <2>2 DEF Init, LengthInv, Account
  <1>2. WaitInv /\ LengthInv /\ [Next]_vars => LengthInv'
    BY LengthStep
  <1> QED BY <1>1, <1>2, WaitInvariant, PTL DEF Spec

\* Type correctness of Runner::wait, with every time in the range of uint64_t.
THEOREM RunnerTypes == Spec => []TypeOK
  <1>1. LengthInv => TypeOK
    BY DEF LengthInv
  <1> QED BY <1>1, LengthInvariant, PTL

\* A wait of a sequence takes exactly the time it was asked to take, with the release of
\* the hold and the commands that run inside it, as long as those fit.
THEOREM WaitsAreExact == Spec => []WaitLength
  <1>1. LengthInv => WaitLength
    BY DEF LengthInv, Account, WaitLength
  <1> QED BY <1>1, LengthInvariant, PTL

\* The branch of wait that puts out only a part is taken in no wait that commands have not
\* overrun: min_seqt is then never below what is left.
THEOREM PartIsDead == Spec => [][OutputSome => took > asked]_vars
  <1>1. WaitInv /\ LengthInv => (OutputSome => took > asked)
    <2> SUFFICES ASSUME WaitInv, LengthInv, OutputSome PROVE took > asked
      OBVIOUS
    <2>1. ~ (took <= asked)
      BY NeverInParts DEF OutputSome
    <2>2. took \in Int /\ asked \in Int
      BY DEF LengthInv, TypeOK, Put, Time
    <2> QED BY <2>1, <2>2
  <1> QED BY <1>1, LengthInvariant, PTL
=============================================================================
