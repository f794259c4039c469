----------------------------- MODULE BootProofs -----------------------------
(***************************************************************************)
(* Proofs about Boot, for any number of boards, starts and sequences.      *)
(*                                                                         *)
(* Once clear_results has found nothing queued, or a sequence has cleared  *)
(* what was left, only one thread uses the FPGA, and what is in flight is  *)
(* its own: as many answers, come or to come, as it will still read.       *)
(* A reset that is noted was asked for (Dues).                             *)
(***************************************************************************)
EXTENDS Boot, SequenceTheorems, TLAPS

\* Where the two threads can be: the worker starts after clear_results, and runs
\* sequences once the constructor is done.
Places ==
  /\ pc["c"] \notin {"seq", "rel", "seen"}
  /\ pc["w"] # "clear"
  /\ pc["c"] \in {"off", "clear"} => pc["w"] = "off"
  /\ pc["w"] \in {"seq", "rel", "seen"} \/ look = "seq" => pc["c"] = "done"

\* Nothing of an earlier server is left.
Settled == leftover = "none" /\ pc["c"] \notin {"off", "clear"}

Asking == {"ask0", "ask1", "chk", "dump"}

\* How many results a thread will read before it sends anything else.
Owed(p) == IF p = "res0" THEN 2 ELSE IF p \in {"res1", "bad", "chk", "dump"} THEN 1 ELSE 0

\* The answers come last and are as many as are to be read.
Balance(th) ==
  /\ Len(results) <= Owed(pc[th]) /\ Owed(pc[th]) <= Len(queue) + Len(results)
  /\ \A k \in 1 .. Len(queue) :
       queue[k].op \in Asking <=> k + Owed(pc[th]) > Len(queue) + Len(results)
  /\ results # <<>> \/ pc[th] \in {"res1", "bad", "check", "seen", "chk"} =>
       Owed(pc[th]) = Len(queue) + Len(results)

\* What is in flight belongs to the thread.
Own(th) ==
  /\ \A k \in 1 .. Len(queue) : queue[k].by = <<boots, th>>
  /\ \A k \in 1 .. Len(results) : results[k].by = <<boots, th>>

\* The answer to check_dds is about the thread's board, and if it says that the magic bytes
\* are missing they still are.
Magic(th) ==
  pc[th] = "chk" =>
    /\ \A k \in 1 .. Len(queue) : queue[k].op = "chk" /\ queue[k].chn = chn[th]
    /\ \A k \in 1 .. Len(results) : results[k].val \/ ~board[chn[th]].magic

InFlight(th) == Balance(th) /\ Own(th) /\ Magic(th)

\* The worker uses the FPGA once the constructor is done, and the constructor before that,
\* unless a hold that an earlier server has left keeps it from getting any answer.
Flight ==
  Settled =>
    IF pc["c"] = "done" THEN InFlight("w")
    ELSE IF hold THEN /\ results = <<>> /\ pc["c"] \in {"detect", "res0"}
                      /\ pc["w"] \in {"off", "done", "detect", "res0"}
    ELSE pc["w"] = "off" /\ InFlight("c")

Foreign == OwnResults /\ (pc["c"] = "clear" => ~foreign)

\* A reset that is noted was asked for, or is on its way, or is the constructor's next.
Noted(i) ==
  \/ i \in due
  \/ \E th \in Threads : chn[th] = i /\ (pc[th] = "magic" \/ (th = "c" /\ pc[th] = "check"))

\* The boards the constructor has still to reset or to find missing.
ToCome ==
  IF pc["c"] \in {"detect", "res0", "res1", "bad", "check"} THEN chn["c"] .. NDDS
  ELSE chn["c"] + 1 .. NDDS

Dues ==
  /\ pc["c"] = "clear" => due = Boards
  /\ pc["c"] # "off" => \A i \in Boards : m_dds_pending_reset[i] => Noted(i)
  /\ Settled /\ pc["c"] # "done" => ToCome \subseteq due

BootInv == TypeOK /\ Places /\ Flight /\ Foreign /\ Dues

USE ConstantsAssumption DEF Threads

Labels == {"off", "clear", "detect", "res0", "res1", "bad", "check", "chk", "magic", "dump",
           "done", "seq", "rel", "seen"}
BoardType == [there : BOOLEAN, byte : 0 .. 1, magic : BOOLEAN]

-----------------------------------------------------------------------------
(* Sending, reading and the boards.                                        *)

\* An instruction is added at the end.
LEMMA Sent1 ==
  ASSUME TypeOK, NEW th \in Threads, NEW op \in Ops, Send(th, <<op>>)
  PROVE  /\ queue' \in Seq(Instrs) /\ Len(queue) \in Nat /\ Len(queue') = Len(queue) + 1
         /\ \A k \in 1 .. Len(queue) : queue'[k] = queue[k]
         /\ queue'[Len(queue) + 1] = Instr(th, op, chn[th])
  <1> DEFINE s == [k \in 1 .. Len(<<op>>) |-> Instr(th, <<op>>[k], chn[th])]
  <1>1. Instr(th, op, chn[th]) \in Instrs
    BY DEF Instr, Instrs, TypeOK
  <1>2. s = <<Instr(th, op, chn[th])>>
    OBVIOUS
  <1>3. queue' = queue \o <<Instr(th, op, chn[th])>> /\ queue \in Seq(Instrs)
    BY <1>2 DEF Send, TypeOK
  <1>4. queue' = Append(queue, Instr(th, op, chn[th]))
    BY <1>1, <1>3, AppendIsConcat
  <1> QED BY <1>1, <1>3, <1>4, AppendProperties

\* Two of them.
LEMMA Sent2 ==
  ASSUME TypeOK, NEW th \in Threads, NEW a \in Ops, NEW b \in Ops, Send(th, <<a, b>>)
  PROVE  /\ queue' \in Seq(Instrs) /\ Len(queue) \in Nat /\ Len(queue') = Len(queue) + 2
         /\ \A k \in 1 .. Len(queue) : queue'[k] = queue[k]
         /\ queue'[Len(queue) + 1] = Instr(th, a, chn[th])
         /\ queue'[Len(queue) + 2] = Instr(th, b, chn[th])
  <1> DEFINE x == Instr(th, a, chn[th])
             y == Instr(th, b, chn[th])
  <1>1. x \in Instrs /\ y \in Instrs
    BY DEF Instr, Instrs, TypeOK
  <1>2. [k \in 1 .. Len(<<a, b>>) |-> Instr(th, <<a, b>>[k], chn[th])] = <<x, y>>
    <2>1. Len(<<a, b>>) = 2 /\ 1 .. 2 = {1, 2}
      OBVIOUS
    <2> QED BY <2>1
  <1>3. queue' = queue \o <<x, y>> /\ queue \in Seq(Instrs)
    BY <1>2 DEF Send, TypeOK
  <1> HIDE DEF x, y
  <1>4. <<x, y>> \in Seq(Instrs) /\ Len(<<x, y>>) = 2 /\ <<x, y>>[1] = x /\ <<x, y>>[2] = y
    BY <1>1
  <1>5. /\ queue' \in Seq(Instrs) /\ Len(queue') = Len(queue) + 2 /\ Len(queue) \in Nat
        /\ \A k \in 1 .. Len(queue') :
             queue'[k] = IF k <= Len(queue) THEN queue[k] ELSE <<x, y>>[k - Len(queue)]
    BY <1>3, <1>4, ConcatProperties
  <1>6. queue'[Len(queue) + 1] = <<x, y>>[1] /\ queue'[Len(queue) + 2] = <<x, y>>[2]
    BY <1>5
  <1> QED BY <1>4, <1>5, <1>6 DEF x, y

\* A result is read.
LEMMA Got ==
  ASSUME TypeOK, NEW th \in Threads, GetResult(th)
  PROVE  /\ results # <<>> /\ Len(results) \in Nat \ {0} /\ 1 \in 1 .. Len(results)
         /\ Head(results) = results[1] /\ results[1] \in Answers
         /\ results' \in Seq(Answers) /\ Len(results') = Len(results) - 1
         /\ \A k \in 1 .. Len(results') :
              k + 1 \in 1 .. Len(results) /\ results'[k] = results[k + 1]
         /\ foreign' = (foreign \/ results[1].by # <<boots, th>>)
  <1> DEFINE n == Len(results)
  <1>1. results # <<>> /\ results' = Tail(results) /\ results \in Seq(Answers)
    BY DEF GetResult, TypeOK
  <1>2. n \in Nat \ {0}
    BY <1>1, EmptySeq
  <1>3. /\ Head(results) \in Answers /\ results' \in Seq(Answers) /\ Len(results') = n - 1
        /\ \A k \in 1 .. Len(results') : results'[k] = results[k + 1]
    BY <1>1, HeadTailProperties
  <1>4. Head(results) = results[1]
    BY <1>1
  <1> HIDE DEF n
  <1>5. 1 \in 1 .. n /\ \A k \in 1 .. n - 1 : k + 1 \in 1 .. n
    BY <1>2
  <1> QED BY <1>1, <1>2, <1>3, <1>4, <1>5 DEF n, GetResult

\* What the FPGA does with the first of its queue.
LEMMA Executed ==
  ASSUME TypeOK, Execute
  PROVE  /\ queue # <<>> /\ Len(queue) \in Nat \ {0} /\ 1 \in 1 .. Len(queue)
         /\ Head(queue) = queue[1] /\ Head(queue) \in Instrs
         /\ queue' \in Seq(Instrs) /\ Len(queue') = Len(queue) - 1
         /\ \A k \in 1 .. Len(queue') : k + 1 \in 1 .. Len(queue) /\ queue'[k] = queue[k + 1]
         /\ board' = [board EXCEPT ![Head(queue).chn] =
                                     Effect(Head(queue), board[Head(queue).chn])]
         /\ results' = IF Head(queue).op \in Asking
                         THEN Append(results, Answer(Head(queue), board'[Head(queue).chn]))
                         ELSE results
  <1> DEFINE n == Len(queue)
  <1>1. queue # <<>> /\ queue' = Tail(queue) /\ queue \in Seq(Instrs)
    BY DEF Execute, TypeOK
  <1>2. n \in Nat \ {0}
    BY <1>1, EmptySeq
  <1>3. /\ Head(queue) \in Instrs /\ queue' \in Seq(Instrs) /\ Len(queue') = n - 1
        /\ \A k \in 1 .. Len(queue') : queue'[k] = queue[k + 1]
    BY <1>1, HeadTailProperties
  <1>4. Head(queue) = queue[1]
    BY <1>1
  <1>5. board' = [board EXCEPT ![Head(queue).chn] =
                                 Effect(Head(queue), board[Head(queue).chn])]
    BY DEF Execute
  <1>6. results' = IF Head(queue).op \in Asking
                     THEN Append(results, Answer(Head(queue), board'[Head(queue).chn]))
                     ELSE results
    BY DEF Execute, Asking
  <1> HIDE DEF n
  <1>7. 1 \in 1 .. n /\ \A k \in 1 .. n - 1 : k + 1 \in 1 .. n
    BY <1>2
  <1> QED BY <1>1, <1>2, <1>3, <1>4, <1>5, <1>6, <1>7 DEF n

\* A board stays a board, and a read leaves it alone.
LEMMA EffectType ==
  ASSUME NEW c \in Instrs, NEW b \in BoardType
  PROVE  Effect(c, b) \in BoardType /\ (c.op = "chk" => Effect(c, b) = b)
  <1> USE DEF BoardType
  <1>1. Fresh \in BoardType
    BY DEF Fresh
  <1>2. /\ [b EXCEPT !.byte = 0] \in BoardType /\ [b EXCEPT !.byte = 1] \in BoardType
        /\ [b EXCEPT !.magic = TRUE] \in BoardType
    <2>1. \A x \in BOOLEAN : [b EXCEPT !.magic = x] \in BoardType
      OBVIOUS
    <2>2. \A x \in 0 .. 1 : [b EXCEPT !.byte = x] \in BoardType
      OBVIOUS
    <2>3. TRUE \in BOOLEAN /\ 0 \in 0 .. 1 /\ 1 \in 0 .. 1
      OBVIOUS
    <2> HIDE DEF BoardType
    <2> QED BY <2>1, <2>2, <2>3
  <1> HIDE DEF BoardType
  <1> QED BY <1>1, <1>2 DEF Effect

\* A thread goes on to the next board, or is done.
LEMMA NextBoardMoves ==
  ASSUME TypeOK, NEW th \in Threads, NextBoard(th)
  PROVE  /\ pc' \in [Threads -> Labels] /\ chn' \in [Threads -> Boards]
         /\ pc'[th] \in {"seen", "detect", "done"}
         /\ pc'[th] = "seen" => th = "w" /\ look = "seq"
         /\ \A o \in Threads \ {th} : pc'[o] = pc[o] /\ chn'[o] = chn[o]
  <1>1. pc \in [Threads -> Labels] /\ chn \in [Threads -> Boards] /\ chn[th] \in Boards
    BY DEF TypeOK, Labels
  <1>2. CASE chn[th] < NDDS
    <2> DEFINE label == IF th = "w" /\ look = "seq" THEN "seen" ELSE "detect"
    <2>1. pc' = [pc EXCEPT ![th] = label] /\ chn' = [chn EXCEPT ![th] = chn[th] + 1]
      BY <1>2 DEF NextBoard, Goto
    <2>2. label \in {"seen", "detect"} /\ (label = "seen" => th = "w" /\ look = "seq")
      OBVIOUS
    <2>3. chn[th] + 1 \in Boards
      BY <1>1, <1>2 DEF Boards
    <2> HIDE DEF label
    <2> QED BY <1>1, <2>1, <2>2, <2>3 DEF Labels
  <1>3. CASE ~(chn[th] < NDDS)
    <2>1. pc' = [pc EXCEPT ![th] = "done"] /\ chn' = [chn EXCEPT ![th] = 1] /\ 1 \in Boards
      BY <1>3 DEF NextBoard, Goto, Boards
    <2> QED BY <1>1, <2>1 DEF Labels
  <1> QED BY <1>2, <1>3

\* A thread goes on to another place.
LEMMA GotoMoves ==
  ASSUME TypeOK, NEW th \in Threads, NEW label \in Labels, Goto(th, label)
  PROVE  /\ pc' \in [Threads -> Labels] /\ pc'[th] = label
         /\ \A o \in Threads \ {th} : pc'[o] = pc[o]
  BY DEF TypeOK, Labels, Goto

-----------------------------------------------------------------------------
(* Types.                                                                  *)

\* The steps of detect_dds.
LEMMA DetectTypes == ASSUME TypeOK, NEW th \in Threads, DetectDds(th) PROVE TypeOK'
  <1>0. /\ pc \in [Threads -> Labels] /\ chn \in [Threads -> Boards] /\ chn[th] \in Boards
        /\ queue \in Seq(Instrs) /\ results \in Seq(Answers) /\ foreign \in BOOLEAN
        /\ m_dds_exist \in [Boards -> BOOLEAN] /\ m_dds_pending_reset \in [Boards -> BOOLEAN]
    BY DEF TypeOK, Labels
  <1>1. SUFFICES /\ pc' \in [Threads -> Labels] /\ chn' \in [Threads -> Boards]
                 /\ queue' \in Seq(Instrs) /\ results' \in Seq(Answers) /\ foreign' \in BOOLEAN
                 /\ m_dds_exist' \in [Boards -> BOOLEAN]
                 /\ m_dds_pending_reset' \in [Boards -> BOOLEAN]
    <2>1. UNCHANGED <<hold, board, look, boots, nplug, leftover>>
      BY DEF DetectDds, SendProbe, ReadRes0, ReadRes1, CheckDds, ForceInit, CheckMagic, InitDds,
             DumpDds, ghostVars
    <2>2. due' \subseteq due
      BY DEF DetectDds, SendProbe, ReadRes0, ReadRes1, Present, Absent, CheckDds, ForceInit,
             CheckMagic, SendReset, InitDds, DumpDds, ghostVars
    <2> QED BY <1>1, <2>1, <2>2 DEF TypeOK, Labels
  <1>2. {"ask0", "ask1", "chk", "reset", "magic", "dump"} \subseteq Ops
    BY DEF Ops
  <1>3. {"res0", "res1", "bad", "chk", "magic", "dump", "check"} \subseteq Labels
    BY DEF Labels
  <1>4. CASE SendProbe(th)
    <2>1. Send(th, <<"ask0", "ask1">>) /\ Goto(th, "res0")
          /\ UNCHANGED <<results, chn, ctrlVars, foreign>>
      BY <1>4 DEF SendProbe, ghostVars
    <2> QED BY <2>1, <1>0, <1>2, <1>3, Sent2, GotoMoves DEF ctrlVars
  <1>5. CASE ReadRes0(th)
    <2> DEFINE label == IF Head(results).val THEN "bad" ELSE "res1"
    <2>1. GetResult(th) /\ Goto(th, label) /\ UNCHANGED <<queue, chn, ctrlVars>>
      BY <1>5 DEF ReadRes0
    <2>2. label \in Labels
      BY <1>3
    <2> HIDE DEF label
    <2>3. foreign' \in BOOLEAN
      BY <2>1 DEF GetResult
    <2> QED BY <2>1, <2>2, <2>3, <1>0, Got, GotoMoves DEF ctrlVars
  <1>6. CASE ReadRes1(th)
    <2>1. GetResult(th) /\ UNCHANGED queue /\ (Present(th) \/ Absent(th))
      BY <1>6 DEF ReadRes1
    <2>2. results' \in Seq(Answers) /\ foreign' \in BOOLEAN
      BY <2>1, Got DEF GetResult
    <2>3. CASE Present(th)
      <3>1. m_dds_exist' \in [Boards -> BOOLEAN] /\ m_dds_pending_reset' \in [Boards -> BOOLEAN]
        BY <1>0, <2>3 DEF Present
      <3> QED BY <3>1, <2>1, <2>2, <2>3, <1>0, <1>3, GotoMoves DEF Present
    <2>4. CASE Absent(th)
      <3>1. m_dds_exist' \in [Boards -> BOOLEAN] /\ m_dds_pending_reset' \in [Boards -> BOOLEAN]
        BY <1>0, <2>4 DEF Absent
      <3> QED BY <3>1, <2>1, <2>2, <2>4, <1>0, NextBoardMoves DEF Absent
    <2> QED BY <2>1, <2>3, <2>4
  <1>7. CASE CheckDds(th)
    <2>1. Send(th, <<"chk">>) /\ Goto(th, "chk") /\ UNCHANGED <<results, chn, ctrlVars, foreign>>
      BY <1>7 DEF CheckDds, ghostVars
    <2> QED BY <2>1, <1>0, <1>2, <1>3, Sent1, GotoMoves DEF ctrlVars
  <1>8. CASE ForceInit(th)
    <2>1. Send(th, <<"reset">>) /\ Goto(th, "magic")
          /\ UNCHANGED <<results, chn, ctrlVars, foreign>>
      BY <1>8 DEF ForceInit, SendReset
    <2> QED BY <2>1, <1>0, <1>2, <1>3, Sent1, GotoMoves DEF ctrlVars
  <1>9. CASE CheckMagic(th)
    <2>1. GetResult(th) /\ UNCHANGED ctrlVars
      BY <1>9 DEF CheckMagic
    <2>2. results' \in Seq(Answers) /\ foreign' \in BOOLEAN
      BY <2>1, Got DEF GetResult
    <2>3. CASE Head(results).val
      BY <2>1, <2>2, <2>3, <1>0, <1>9, NextBoardMoves DEF CheckMagic, ctrlVars
    <2>4. CASE ~Head(results).val
      <3>1. Send(th, <<"reset">>) /\ Goto(th, "magic") /\ UNCHANGED chn
        BY <1>9, <2>4 DEF CheckMagic, SendReset
      <3> QED BY <3>1, <2>1, <2>2, <1>0, <1>2, <1>3, Sent1, GotoMoves DEF ctrlVars
    <2> QED BY <2>3, <2>4
  <1>10. CASE InitDds(th)
    <2>1. UNCHANGED <<results, m_dds_exist, foreign>>
      BY <1>10 DEF InitDds, ghostVars
    <2>2. m_dds_pending_reset' \in [Boards -> BOOLEAN]
      BY <1>0, <1>10 DEF InitDds
    <2>3. CASE Dumps(th)
      <3>1. Send(th, <<"magic", "dump">>) /\ Goto(th, "dump") /\ UNCHANGED chn
        BY <1>10, <2>3 DEF InitDds
      <3> QED BY <3>1, <2>1, <2>2, <1>0, <1>2, <1>3, Sent2, GotoMoves
    <2>4. CASE ~Dumps(th)
      <3>1. Send(th, <<"magic">>) /\ NextBoard(th)
        BY <1>10, <2>4 DEF InitDds
      <3> QED BY <3>1, <2>1, <2>2, <1>0, <1>2, Sent1, NextBoardMoves
    <2> QED BY <2>3, <2>4
  <1>11. CASE DumpDds(th)
    <2>1. GetResult(th) /\ NextBoard(th) /\ UNCHANGED <<queue, ctrlVars>>
      BY <1>11 DEF DumpDds
    <2>2. results' \in Seq(Answers) /\ foreign' \in BOOLEAN
      BY <2>1, Got DEF GetResult
    <2> QED BY <2>1, <2>2, <1>0, NextBoardMoves DEF ctrlVars
  <1> QED BY <1>4, <1>5, <1>6, <1>7, <1>8, <1>9, <1>10, <1>11 DEF DetectDds

\* The hardware.
LEMMA HardwareTypes ==
  ASSUME TypeOK, Execute \/ \E i \in Boards : Pull(i) \/ Plug(i)
  PROVE  TypeOK'
  <1>0. board \in [Boards -> BoardType] /\ queue \in Seq(Instrs) /\ results \in Seq(Answers)
    BY DEF TypeOK, BoardType
  <1>1. CASE Execute
    <2>1. /\ queue' \in Seq(Instrs) /\ Head(queue) \in Instrs
          /\ board' = [board EXCEPT ![Head(queue).chn] =
                                     Effect(Head(queue), board[Head(queue).chn])]
          /\ results' = IF Head(queue).op \in Asking
                         THEN Append(results, Answer(Head(queue), board'[Head(queue).chn]))
                         ELSE results
      BY <1>1, Executed
    <2>2. Head(queue).chn \in Boards /\ Head(queue).by \in Nat \X Threads
      BY <2>1 DEF Instrs
    <2>3. Effect(Head(queue), board[Head(queue).chn]) \in BoardType
      BY <1>0, <2>1, <2>2, EffectType
    <2>4. board' \in [Boards -> BoardType] /\ board'[Head(queue).chn] \in BoardType
      BY <1>0, <2>1, <2>2, <2>3
    <2>5. Answer(Head(queue), board'[Head(queue).chn]) \in Answers
      <3> DEFINE b == board'[Head(queue).chn]
      <3>1. b.magic \in BOOLEAN /\ (b.byte = 1) \in BOOLEAN
        BY <2>4 DEF BoardType
      <3> HIDE DEF b
      <3>2. (IF Head(queue).op = "chk" THEN b.magic ELSE b.byte = 1) \in BOOLEAN
        BY <3>1
      <3>3. Answer(Head(queue), b) \in Answers
        BY <2>2, <3>2 DEF Answer, Answers
      <3> QED BY <3>3 DEF b
    <2>6. results' \in Seq(Answers)
      BY <1>0, <2>1, <2>5, AppendProperties
    <2> QED BY <1>1, <2>1, <2>4, <2>6 DEF Execute, TypeOK, BoardType, ctrlVars, ghostVars
  <1>2. ASSUME NEW i \in Boards, Pull(i) \/ Plug(i) PROVE TypeOK'
    <2>1. Fresh \in BoardType /\ \A byte \in 0 .. 1 : Gone(byte) \in BoardType
      BY DEF Fresh, Gone, BoardType
    <2>2. board' \in [Boards -> BoardType]
      BY <1>0, <1>2, <2>1 DEF Pull, Plug
    <2>3. nplug' \in Nat
      BY <1>2 DEF Pull, Plug, TypeOK
    <2>4. UNCHANGED <<queue, results, hold, pc, chn, look, ctrlVars, boots, ghostVars>>
      BY <1>2 DEF Pull, Plug
    <2> QED BY <2>2, <2>3, <2>4 DEF TypeOK, BoardType, ctrlVars, ghostVars
  <1> QED BY <1>1, <1>2

\* The state of every variable, for the steps that change few of them.
LEMMA ServerTypes ==
  ASSUME TypeOK,
         \/ Start \/ ClearResults \/ Worker \/ ReleaseHold \/ EndSeq \/ CheckSeen
         \/ WorkerDetect \/ BeginSeq \/ SeqOut \/ Crash
         \/ \E i \in Boards : ResetDds(i)
         \/ UNCHANGED vars
  PROVE  TypeOK'
  <1>0. /\ pc \in [Threads -> Labels] /\ chn \in [Threads -> Boards]
        /\ queue \in Seq(Instrs) /\ results \in Seq(Answers)
        /\ {"off", "clear", "detect", "done", "check", "seq", "rel", "seen"} \subseteq Labels
    BY DEF TypeOK, Labels
  <1>1. CASE Start
    <2> USE <1>1 DEF Start
    <2>1. pc' \in [Threads -> Labels]
      BY <1>0, GotoMoves
    <2>2. boots' \in 0 .. MaxBoots
      BY DEF TypeOK
    <2>3. m_dds_exist' \in [Boards -> BOOLEAN] /\ m_dds_pending_reset' \in [Boards -> BOOLEAN]
      OBVIOUS
    <2>4. leftover' = "none" /\ foreign' \in BOOLEAN /\ UNCHANGED <<hwVars, chn, look, nplug>>
          /\ due' = Boards
      OBVIOUS
    <2> HIDE DEF Start
    <2> QED BY <2>1, <2>2, <2>3, <2>4 DEF TypeOK, Labels, hwVars
  <1>2. CASE ClearResults
    <2>1. UNCHANGED <<queue, hold, board, chn, look, ctrlVars, boots, nplug, foreign, due>>
      BY <1>2 DEF ClearResults
    <2>2. pc' \in [Threads -> Labels]
      BY <1>0, <1>2 DEF ClearResults
    <2>3. leftover' \in {"none", "some", "slow"}
      BY <1>2 DEF ClearResults, Leftover, TypeOK
    <2>4. results' \in Seq(Answers)
      BY <1>0, <1>2, HeadTailProperties DEF ClearResults
    <2> QED BY <2>1, <2>2, <2>3, <2>4 DEF TypeOK, Labels, ctrlVars
  <1>3. CASE Worker
    <2>1. pc' \in [Threads -> Labels]
      BY <1>0, <1>3, GotoMoves DEF Worker
    <2> QED BY <1>3, <2>1 DEF Worker, TypeOK, Labels, hwVars, ctrlVars, ghostVars
  <1>4. CASE ReleaseHold
    <2>1. pc' \in [Threads -> Labels]
      BY <1>0, <1>4, GotoMoves DEF ReleaseHold
    <2>2. hold' \in BOOLEAN
      BY <1>4 DEF ReleaseHold
    <2> QED BY <1>4, <2>1, <2>2 DEF ReleaseHold, TypeOK, Labels, ctrlVars, ghostVars
  <1>5. CASE EndSeq
    <2>1. pc' \in [Threads -> Labels]
      BY <1>0, <1>5, GotoMoves DEF EndSeq
    <2> QED BY <1>5, <2>1 DEF EndSeq, TypeOK, Labels, hwVars, ctrlVars, ghostVars
  <1>6. CASE CheckSeen
    <2>1. pc' \in [Threads -> Labels] /\ chn' \in [Threads -> Boards]
      BY <1>0, <1>6, GotoMoves, NextBoardMoves DEF CheckSeen
    <2> QED BY <1>6, <2>1 DEF CheckSeen, TypeOK, Labels, hwVars, ctrlVars, ghostVars
  <1>7. CASE WorkerDetect
    <2>1. pc' \in [Threads -> Labels]
      BY <1>0, <1>7, GotoMoves DEF WorkerDetect
    <2> QED BY <1>7, <2>1 DEF WorkerDetect, TypeOK, Labels, hwVars, ctrlVars, ghostVars
  <1>8. CASE BeginSeq
    <2>1. pc' \in [Threads -> Labels]
      BY <1>0, <1>8, GotoMoves DEF BeginSeq
    <2>2. results' \in Seq(Answers) /\ hold' \in BOOLEAN /\ foreign' \in BOOLEAN
          /\ leftover' = "none"
      BY <1>8, EmptySeq DEF BeginSeq
    <2>3. UNCHANGED <<queue, board, chn, look, ctrlVars, boots, nplug, due>>
      BY <1>8 DEF BeginSeq
    <2> QED BY <2>1, <2>2, <2>3 DEF TypeOK, Labels, ctrlVars
  <1>9. CASE SeqOut
    <2>1. queue' \in Seq(Instrs)
      BY <1>9, Sent1 DEF SeqOut, Ops
    <2> QED BY <1>9, <2>1 DEF SeqOut, TypeOK, ctrlVars, ghostVars
  <1>10. CASE Crash
    <2>1. pc' \in [Threads -> Labels] /\ chn' \in [Threads -> Boards] /\ look' = "detect"
      BY <1>10 DEF Crash, Labels, Boards
    <2> QED BY <1>10, <2>1 DEF Crash, TypeOK, Labels, hwVars, ctrlVars, ghostVars
  <1>11. ASSUME NEW i \in Boards, ResetDds(i) PROVE TypeOK'
    <2>1. m_dds_pending_reset' \in [Boards -> BOOLEAN]
      BY <1>11 DEF ResetDds, TypeOK
    <2>2. due' \subseteq Boards
      BY <1>11 DEF ResetDds, TypeOK
    <2> QED BY <1>11, <2>1, <2>2 DEF ResetDds, TypeOK, hwVars
  <1>12. CASE UNCHANGED vars
    BY <1>12 DEF vars, TypeOK, hwVars, ctrlVars, ghostVars
  <1> QED BY <1>1, <1>2, <1>3, <1>4, <1>5, <1>6, <1>7, <1>8, <1>9, <1>10, <1>11, <1>12

\* Every step keeps the types.
LEMMA TypesStep == ASSUME TypeOK, [Next]_vars PROVE TypeOK'
  BY DetectTypes, HardwareTypes, ServerTypes DEF Next, CtorStep, WorkerStep

-----------------------------------------------------------------------------
(* Where the threads are.                                                  *)

Detecting == {"detect", "res0", "res1", "bad", "check", "chk", "magic", "dump"}

\* The steps of detect_dds move one thread.
LEMMA DetectMoves ==
  ASSUME TypeOK, NEW th \in Threads, DetectDds(th)
  PROVE  /\ pc[th] \in Detecting /\ pc'[th] \in Detecting \union {"done", "seen"}
         /\ pc'[th] = "seen" => th = "w" /\ look = "seq"
         /\ \A o \in Threads \ {th} : pc'[o] = pc[o]
         /\ UNCHANGED <<hold, board, look, boots, leftover>>
  <1> USE DEF Detecting
  <1>1. Detecting \subseteq Labels
    BY DEF Labels
  <1>2. UNCHANGED <<hold, board, look, boots, leftover>>
    BY DEF DetectDds, SendProbe, ReadRes0, ReadRes1, CheckDds, ForceInit, CheckMagic, InitDds,
           DumpDds, ghostVars
  <1>3. pc[th] \in Detecting
    BY DEF DetectDds, SendProbe, ReadRes0, ReadRes1, CheckDds, ForceInit, CheckMagic, InitDds,
           DumpDds
  <1>4. NextBoard(th) \/ \E label \in Detecting : Goto(th, label)
    BY DEF DetectDds, SendProbe, ReadRes0, ReadRes1, Present, Absent, CheckDds, ForceInit,
           CheckMagic, SendReset, InitDds, DumpDds
  <1>5. CASE NextBoard(th)
    BY <1>2, <1>3, <1>5, NextBoardMoves
  <1>6. ASSUME NEW label \in Detecting, Goto(th, label)
        PROVE  pc'[th] = label /\ \A o \in Threads \ {th} : pc'[o] = pc[o]
    BY <1>1, <1>6, GotoMoves
  <1> QED BY <1>2, <1>3, <1>4, <1>5, <1>6

\* Every step keeps the threads in their places.
LEMMA PlacesStep == ASSUME TypeOK, Places, [Next]_vars PROVE Places'
  <1>0. /\ pc \in [Threads -> Labels]
        /\ {"off", "clear", "detect", "done", "check", "seq", "rel", "seen"} \subseteq Labels
    BY DEF TypeOK, Labels
  <1>1. ASSUME NEW th \in Threads, DetectDds(th) PROVE Places'
    <2>1. /\ pc[th] \in Detecting /\ pc'[th] \in Detecting \union {"done", "seen"}
          /\ pc'[th] = "seen" => th = "w" /\ look = "seq"
          /\ \A o \in Threads \ {th} : pc'[o] = pc[o]
          /\ look' = look
      BY <1>1, DetectMoves
    <2>2. CASE th = "c"
      BY <2>1, <2>2 DEF Places, Detecting
    <2>3. CASE th = "w"
      BY <2>1, <2>3 DEF Places, Detecting
    <2> QED BY <2>2, <2>3
  <1>2. CASE Execute \/ \E i \in Boards : Pull(i) \/ Plug(i)
    BY <1>2 DEF Execute, Pull, Plug, Places
  <1>3. CASE Start
    BY <1>0, <1>3 DEF Start, Goto, Places
  <1>4. CASE ClearResults
    BY <1>0, <1>4 DEF ClearResults, Places
  <1>5. CASE Worker \/ WorkerDetect
    BY <1>0, <1>5 DEF Worker, WorkerStart, WorkerDetect, Goto, Places
  <1>6. CASE ReleaseHold \/ EndSeq
    BY <1>0, <1>6 DEF ReleaseHold, EndSeq, Goto, Places
  <1>7. CASE CheckSeen
    <2>1. /\ pc["w"] = "seen" /\ look' = look /\ pc'["c"] = pc["c"]
          /\ pc'["w"] \in {"check", "seen", "detect", "done"}
      BY <1>0, <1>7, GotoMoves, NextBoardMoves DEF CheckSeen
    <2> QED BY <2>1 DEF Places
  <1>8. CASE BeginSeq
    BY <1>0, <1>8 DEF BeginSeq, Up, Goto, Places
  <1>9. CASE SeqOut \/ \E i \in Boards : ResetDds(i)
    BY <1>9 DEF SeqOut, ResetDds, Places
  <1>10. CASE Crash
    BY <1>10 DEF Crash, Places
  <1>11. CASE UNCHANGED vars
    BY <1>11 DEF vars, Places
  <1> QED BY <1>1, <1>2, <1>3, <1>4, <1>5, <1>6, <1>7, <1>8, <1>9, <1>10, <1>11
          DEF Next, CtorStep, WorkerStep

-----------------------------------------------------------------------------
(* What is in flight.                                                      *)

\* The lengths, and which sequences are empty.
LEMMA Lengths ==
  ASSUME TypeOK
  PROVE  /\ Len(queue) \in Nat /\ Len(results) \in Nat
         /\ queue = <<>> <=> Len(queue) = 0
         /\ results = <<>> <=> Len(results) = 0
  BY EmptySeq DEF TypeOK

\* A thread in detect_dds keeps the balance; when it goes on to the next board after it has
\* read something, nothing is in flight.
LEMMA DetectFlight ==
  ASSUME TypeOK, TypeOK', NEW th \in Threads, InFlight(th), DetectDds(th)
  PROVE  /\ Balance(th)' /\ Own(th)' /\ Magic(th)'
         /\ th = "c" /\ pc'[th] = "done" => queue' = <<>> /\ results' = <<>>
  <1>0. /\ Len(queue) \in Nat /\ Len(results) \in Nat
        /\ queue = <<>> <=> Len(queue) = 0
        /\ results = <<>> <=> Len(results) = 0
        /\ queue' = <<>> <=> Len(queue') = 0
        /\ results' = <<>> <=> Len(results') = 0
    <2>1. ASSUME TypeOK' PROVE /\ queue' = <<>> <=> Len(queue') = 0
                               /\ results' = <<>> <=> Len(results') = 0
      BY <2>1, EmptySeq DEF TypeOK
    <2> QED BY <2>1, Lengths
  <1>1. boots' = boots /\ board' = board
    BY DetectMoves
  <1>2. {"ask0", "ask1", "chk", "reset", "magic", "dump"} \subseteq Ops
    BY DEF Ops
  <1>3. {"res0", "res1", "bad", "chk", "magic", "dump", "check"} \subseteq Labels
    BY DEF Labels
  <1>4. \A op \in Ops : /\ Instr(th, op, chn[th]).op = op /\ Instr(th, op, chn[th]).chn = chn[th]
                        /\ Instr(th, op, chn[th]).by = <<boots, th>>
    BY DEF Instr
  <1> USE DEF InFlight
  <1>5. CASE SendProbe(th)
    <2>1. pc[th] = "detect" /\ Send(th, <<"ask0", "ask1">>) /\ Goto(th, "res0") /\ results' = results
      BY <1>5 DEF SendProbe
    <2>2. pc'[th] = "res0"
      BY <2>1, <1>3, GotoMoves
    <2>3. /\ Len(queue') = Len(queue) + 2 /\ \A k \in 1 .. Len(queue) : queue'[k] = queue[k]
          /\ queue'[Len(queue) + 1] = Instr(th, "ask0", chn[th])
          /\ queue'[Len(queue) + 2] = Instr(th, "ask1", chn[th])
      BY <2>1, <1>2, Sent2
    <2>4. \A k \in 1 .. Len(queue') :
            k \in 1 .. Len(queue) \/ k = Len(queue) + 1 \/ k = Len(queue) + 2
      BY <1>0, <2>3
    <2>5. Owed(pc[th]) = 0 /\ Owed(pc'[th]) = 2
      BY <2>1, <2>2 DEF Owed
    <2>6. Balance(th)'
      BY <1>0, <1>2, <1>4, <2>1, <2>2, <2>3, <2>4, <2>5 DEF Balance, Asking
    <2>7. Own(th)'
      BY <1>1, <1>2, <1>4, <2>1, <2>3, <2>4 DEF Own
    <2> QED BY <2>2, <2>6, <2>7 DEF Magic
  <1>6. CASE ReadRes0(th)
    <2> DEFINE label == IF Head(results).val THEN "bad" ELSE "res1"
    <2>1. pc[th] = "res0" /\ GetResult(th) /\ Goto(th, label) /\ queue' = queue
      BY <1>6 DEF ReadRes0
    <2>2. label \in {"bad", "res1"}
      OBVIOUS
    <2> HIDE DEF label
    <2>3. pc'[th] = label
      BY <2>1, <2>2, <1>3, GotoMoves
    <2>4. /\ results # <<>> /\ Len(results') = Len(results) - 1
          /\ \A k \in 1 .. Len(results') :
               k + 1 \in 1 .. Len(results) /\ results'[k] = results[k + 1]
      BY <2>1, Got
    <2>5. Owed(pc[th]) = 2 /\ Owed(pc'[th]) = 1
      BY <2>1, <2>2, <2>3 DEF Owed
    <2>6. Balance(th)'
      BY <1>0, <2>1, <2>4, <2>5 DEF Balance
    <2>7. Own(th)'
      BY <1>1, <2>1, <2>4 DEF Own
    <2> QED BY <2>2, <2>3, <2>6, <2>7 DEF Magic
  <1>7. CASE ReadRes1(th)
    <2>1. pc[th] \in {"res1", "bad"} /\ GetResult(th) /\ queue' = queue /\ (Present(th) \/ Absent(th))
      BY <1>7 DEF ReadRes1
    <2>2. pc'[th] \in {"check", "seen", "detect", "done"}
      BY <2>1, <1>3, GotoMoves, NextBoardMoves DEF Present, Absent
    <2>3. results # <<>> /\ Len(results') = Len(results) - 1
      BY <2>1, Got
    <2>4. Owed(pc[th]) = 1 /\ Owed(pc'[th]) = 0
      BY <2>1, <2>2 DEF Owed
    <2>5. Len(queue') = 0 /\ Len(results') = 0
      BY <1>0, <2>1, <2>3, <2>4 DEF Balance
    <2>6. Balance(th)' /\ Own(th)'
      BY <1>0, <2>4, <2>5 DEF Balance, Own
    <2> QED BY <1>0, <2>2, <2>5, <2>6 DEF Magic
  <1>8. CASE CheckDds(th)
    <2>1. /\ pc[th] = "check" /\ Send(th, <<"chk">>) /\ Goto(th, "chk") /\ results' = results
          /\ chn' = chn
      BY <1>8 DEF CheckDds
    <2>2. pc'[th] = "chk"
      BY <2>1, <1>3, GotoMoves
    <2>3. Owed(pc[th]) = 0 /\ Owed(pc'[th]) = 1
      BY <2>1, <2>2 DEF Owed
    <2>4. Len(queue) = 0 /\ Len(results) = 0
      BY <1>0, <2>1, <2>3 DEF Balance
    <2>5. Len(queue') = 1 /\ queue'[1] = Instr(th, "chk", chn[th])
      BY <2>1, <2>4, <1>2, Sent1
    <2>6. \A k \in 1 .. Len(queue') : k = 1
      BY <2>5
    <2>7. \A k \in 1 .. Len(queue') :
            queue'[k].op = "chk" /\ queue'[k].chn = chn[th] /\ queue'[k].by = <<boots, th>>
      BY <2>5, <2>6, <1>2, <1>4
    <2>8. Balance(th)'
      BY <1>0, <2>1, <2>3, <2>4, <2>5, <2>6, <2>7 DEF Balance, Asking
    <2>9. Own(th)'
      BY <1>1, <2>1, <2>4, <2>7 DEF Own
    <2>10. Magic(th)'
      BY <2>1, <2>4, <2>7 DEF Magic
    <2> QED BY <2>2, <2>8, <2>9, <2>10
  <1>9. CASE ForceInit(th)
    <2>1. pc[th] = "check" /\ Send(th, <<"reset">>) /\ Goto(th, "magic") /\ results' = results
      BY <1>9 DEF ForceInit, SendReset
    <2>2. pc'[th] = "magic"
      BY <2>1, <1>3, GotoMoves
    <2>3. Owed(pc[th]) = 0 /\ Owed(pc'[th]) = 0
      BY <2>1, <2>2 DEF Owed
    <2>4. Len(queue) = 0 /\ Len(results) = 0
      BY <1>0, <2>1, <2>3 DEF Balance
    <2>5. Len(queue') = 1 /\ queue'[1] = Instr(th, "reset", chn[th])
      BY <2>1, <2>4, <1>2, Sent1
    <2>6. \A k \in 1 .. Len(queue') : k = 1 /\ queue'[k].op = "reset" /\ queue'[k].by = <<boots, th>>
      BY <2>5, <1>2, <1>4
    <2>7. Balance(th)'
      BY <1>0, <2>1, <2>2, <2>3, <2>4, <2>5, <2>6 DEF Balance, Asking
    <2>8. Own(th)'
      BY <1>1, <2>1, <2>4, <2>6 DEF Own
    <2> QED BY <2>2, <2>7, <2>8 DEF Magic
  <1>10. CASE CheckMagic(th)
    <2>1. pc[th] = "chk" /\ GetResult(th) /\ chn[th] \in Boards
      BY <1>10 DEF CheckMagic, TypeOK
    <2>2. results # <<>> /\ Len(results') = Len(results) - 1
      BY <2>1, Got
    <2>3. Owed(pc[th]) = 1
      BY <2>1 DEF Owed
    <2>4. Len(queue) = 0 /\ Len(results') = 0
      BY <1>0, <2>1, <2>2, <2>3 DEF Balance
    <2>5. CASE Head(results).val
      <3>1. queue' = queue /\ pc'[th] \in {"seen", "detect", "done"}
        BY <1>10, <2>5, NextBoardMoves DEF CheckMagic
      <3>2. Owed(pc'[th]) = 0
        BY <3>1 DEF Owed
      <3>3. Balance(th)' /\ Own(th)'
        BY <1>0, <2>4, <3>1, <3>2 DEF Balance, Own
      <3> QED BY <1>0, <2>4, <3>1, <3>3 DEF Magic
    <2>6. CASE ~Head(results).val
      <3>1. Send(th, <<"reset">>) /\ Goto(th, "magic")
        BY <1>10, <2>6 DEF CheckMagic, SendReset
      <3>2. pc'[th] = "magic"
        BY <3>1, <1>3, GotoMoves
      <3>3. Owed(pc'[th]) = 0
        BY <3>2 DEF Owed
      <3>4. Len(queue') = 1 /\ queue'[1] = Instr(th, "reset", chn[th])
        BY <3>1, <2>4, <1>2, Sent1
      <3>5. \A k \in 1 .. Len(queue') : k = 1 /\ queue'[k].op = "reset" /\ queue'[k].by = <<boots, th>>
        BY <3>4, <1>2, <1>4
      <3>6. Balance(th)'
        BY <1>0, <2>4, <3>2, <3>3, <3>4, <3>5 DEF Balance, Asking
      <3>7. Own(th)'
        BY <1>1, <2>4, <3>5 DEF Own
      <3> QED BY <3>2, <3>6, <3>7 DEF Magic
    <2> QED BY <2>5, <2>6
  <1>11. CASE InitDds(th)
    <2>1. pc[th] = "magic" /\ results' = results
      BY <1>11 DEF InitDds
    <2>2. Owed(pc[th]) = 0
      BY <2>1 DEF Owed
    <2>3. Len(results) = 0
      BY <1>0, <2>2 DEF Balance
    <2>4. CASE Dumps(th)
      <3>1. Send(th, <<"magic", "dump">>) /\ Goto(th, "dump")
        BY <1>11, <2>4 DEF InitDds
      <3>2. pc'[th] = "dump"
        BY <3>1, <1>3, GotoMoves
      <3>3. Owed(pc'[th]) = 1
        BY <3>2 DEF Owed
      <3>4. /\ Len(queue') = Len(queue) + 2 /\ \A k \in 1 .. Len(queue) : queue'[k] = queue[k]
            /\ queue'[Len(queue) + 1] = Instr(th, "magic", chn[th])
            /\ queue'[Len(queue) + 2] = Instr(th, "dump", chn[th])
        BY <3>1, <1>2, Sent2
      <3>5. \A k \in 1 .. Len(queue') :
              k \in 1 .. Len(queue) \/ k = Len(queue) + 1 \/ k = Len(queue) + 2
        BY <1>0, <3>4
      <3>6. Balance(th)'
        BY <1>0, <1>2, <1>4, <2>1, <2>2, <2>3, <3>2, <3>3, <3>4, <3>5 DEF Balance, Asking
      <3>7. Own(th)'
        BY <1>1, <1>2, <1>4, <2>1, <3>4, <3>5 DEF Own
      <3> QED BY <3>2, <3>6, <3>7 DEF Magic
    <2>5. CASE ~Dumps(th)
      <3>1. Send(th, <<"magic">>) /\ NextBoard(th) /\ th = "w" /\ look # "seq"
        BY <1>11, <2>5 DEF InitDds, Dumps
      <3>2. pc'[th] \in {"detect", "done"}
        BY <3>1, NextBoardMoves
      <3>3. Owed(pc'[th]) = 0
        BY <3>2 DEF Owed
      <3>4. /\ Len(queue') = Len(queue) + 1 /\ \A k \in 1 .. Len(queue) : queue'[k] = queue[k]
            /\ queue'[Len(queue) + 1] = Instr(th, "magic", chn[th])
        BY <3>1, <1>2, Sent1
      <3>5. \A k \in 1 .. Len(queue') : k \in 1 .. Len(queue) \/ k = Len(queue) + 1
        BY <1>0, <3>4
      <3>6. Balance(th)'
        BY <1>0, <1>2, <1>4, <2>1, <2>2, <2>3, <3>2, <3>3, <3>4, <3>5 DEF Balance, Asking
      <3>7. Own(th)'
        BY <1>1, <1>2, <1>4, <2>1, <3>4, <3>5 DEF Own
      <3> QED BY <3>1, <3>2, <3>6, <3>7 DEF Magic
    <2> QED BY <2>4, <2>5
  <1>12. CASE DumpDds(th)
    <2>1. pc[th] = "dump" /\ GetResult(th) /\ NextBoard(th) /\ queue' = queue
      BY <1>12 DEF DumpDds
    <2>2. pc'[th] \in {"seen", "detect", "done"}
      BY <2>1, NextBoardMoves
    <2>3. results # <<>> /\ Len(results') = Len(results) - 1
      BY <2>1, Got
    <2>4. Owed(pc[th]) = 1 /\ Owed(pc'[th]) = 0
      BY <2>1, <2>2 DEF Owed
    <2>5. Len(queue') = 0 /\ Len(results') = 0
      BY <1>0, <2>1, <2>3, <2>4 DEF Balance
    <2>6. Balance(th)' /\ Own(th)'
      BY <1>0, <2>4, <2>5 DEF Balance, Own
    <2> QED BY <1>0, <2>2, <2>5, <2>6 DEF Magic
  <1> QED BY <1>5, <1>6, <1>7, <1>8, <1>9, <1>10, <1>11, <1>12 DEF DetectDds

\* An instruction is executed: if it asks, all that are queued do.
LEMMA ExecuteFlight ==
  ASSUME TypeOK, NEW th \in Threads, InFlight(th), Execute
  PROVE  Balance(th)' /\ Own(th)' /\ Magic(th)'
  <1> DEFINE c == Head(queue)
  <1> USE DEF InFlight
  <1>0. /\ Len(queue) \in Nat /\ Len(results) \in Nat
        /\ results = <<>> <=> Len(results) = 0
    BY Lengths
  <1>1. /\ Len(queue) \in Nat \ {0} /\ 1 \in 1 .. Len(queue) /\ c = queue[1] /\ c \in Instrs
        /\ Len(queue') = Len(queue) - 1
        /\ \A k \in 1 .. Len(queue') : k + 1 \in 1 .. Len(queue) /\ queue'[k] = queue[k + 1]
        /\ board' = [board EXCEPT ![c.chn] = Effect(c, board[c.chn])]
        /\ results' = IF c.op \in Asking THEN Append(results, Answer(c, board'[c.chn]))
                      ELSE results
    BY Executed
  <1>2. pc' = pc /\ chn' = chn /\ boots' = boots
    BY DEF Execute
  <1>3. c.by = <<boots, th>> /\ c.chn \in Boards
    BY <1>1 DEF Own, Instrs
  <1>4. Owed(pc'[th]) = Owed(pc[th]) /\ Owed(pc[th]) \in Nat
    BY <1>2 DEF Owed
  <1>5. CASE c.op \in Asking
    <2>1. Owed(pc[th]) = Len(queue) + Len(results)
      BY <1>0, <1>1, <1>4, <1>5 DEF Balance
    <2>2. /\ Len(results') = Len(results) + 1
          /\ \A k \in 1 .. Len(results) : results'[k] = results[k]
          /\ results'[Len(results) + 1] = Answer(c, board'[c.chn])
      <3>1. results \in Seq(Answers) /\ results' = Append(results, Answer(c, board'[c.chn]))
        BY <1>1, <1>5 DEF TypeOK
      <3>2. results \in Seq(Answers \union {Answer(c, board'[c.chn])})
        BY <3>1
      <3> QED BY <3>1, <3>2, AppendProperties
    <2>3. \A k \in 1 .. Len(results') : k \in 1 .. Len(results) \/ k = Len(results) + 1
      BY <1>0, <2>2
    <2>4. Balance(th)'
      <3> HIDE DEF c
      <3>1. \A k \in 1 .. Len(queue') : queue'[k].op \in Asking
        <4> SUFFICES ASSUME NEW k \in 1 .. Len(queue') PROVE queue'[k].op \in Asking
          OBVIOUS
        <4>1. k + 1 \in 1 .. Len(queue) /\ queue'[k] = queue[k + 1]
          BY <1>1
        <4>2. (k + 1) + Owed(pc[th]) > Len(queue) + Len(results)
          BY <1>0, <1>4, <2>1
        <4> QED BY <4>1, <4>2 DEF Balance
      <3>2. Len(queue') + Len(results') = Owed(pc[th])
        BY <1>0, <1>1, <2>1, <2>2
      <3>3. Len(queue') \in Nat /\ Len(results') \in Nat
        BY <1>0, <1>1, <2>2
      <3>4. \A k \in 1 .. Len(queue') : k + Owed(pc[th]) > Len(queue') + Len(results')
        BY <1>4, <3>2, <3>3
      <3> QED BY <1>2, <1>4, <3>1, <3>2, <3>3, <3>4 DEF Balance
    <2>5. Answer(c, board'[c.chn]).by = <<boots, th>>
      BY <1>3 DEF Answer
    <2>6. Own(th)'
      BY <1>1, <1>2, <2>2, <2>3, <2>5 DEF Own
    <2>7. Magic(th)'
      <3> SUFFICES ASSUME pc[th] = "chk"
                   PROVE  /\ \A k \in 1 .. Len(queue') :
                               queue'[k].op = "chk" /\ queue'[k].chn = chn[th]
                          /\ \A k \in 1 .. Len(results') :
                               results'[k].val \/ ~board'[chn[th]].magic
        BY <1>2 DEF Magic
      <3>1. c.op = "chk" /\ c.chn = chn[th]
        BY <1>1 DEF Magic
      <3>2. Len(results) = 0
        <4>1. Owed(pc[th]) = 1
          BY DEF Owed
        <4> QED BY <4>1, <1>0, <1>1, <2>1
      <3>3. \A k \in 1 .. Len(results') : results'[k] = Answer(c, board'[c.chn])
        BY <2>2, <2>3, <3>2
      <3>4. Answer(c, board'[c.chn]).val = board'[c.chn].magic
        BY <3>1 DEF Answer
      <3>5. \A k \in 1 .. Len(queue') : queue'[k].op = "chk" /\ queue'[k].chn = chn[th]
        BY <1>1 DEF Magic
      <3> HIDE DEF c
      <3> QED BY <3>1, <3>3, <3>4, <3>5
    <2> QED BY <2>4, <2>6, <2>7
  <1>6. CASE c.op \notin Asking
    <2>1. results' = results
      BY <1>1, <1>6
    <2>2. Owed(pc[th]) # Len(queue) + Len(results)
      BY <1>0, <1>1, <1>4, <1>6 DEF Balance
    <2>3. results = <<>> /\ pc[th] \notin {"res1", "bad", "check", "seen", "chk"}
      BY <2>2 DEF Balance
    <2>4. Balance(th)'
      <3> HIDE DEF c
      <3>1. Owed(pc[th]) <= Len(queue') + Len(results')
        BY <1>0, <1>1, <1>4, <2>1, <2>2 DEF Balance
      <3>2. \A k \in 1 .. Len(queue') :
              queue'[k].op \in Asking <=> k + Owed(pc[th]) > Len(queue') + Len(results')
        <4> SUFFICES ASSUME NEW k \in 1 .. Len(queue')
                     PROVE  queue'[k].op \in Asking <=>
                              k + Owed(pc[th]) > Len(queue') + Len(results')
          OBVIOUS
        <4>1. k + 1 \in 1 .. Len(queue) /\ queue'[k] = queue[k + 1]
          BY <1>1
        <4>2. queue[k + 1].op \in Asking <=> (k + 1) + Owed(pc[th]) > Len(queue) + Len(results)
          BY <4>1 DEF Balance
        <4>3. (k + 1) + Owed(pc[th]) > Len(queue) + Len(results) <=>
                k + Owed(pc[th]) > Len(queue') + Len(results')
          BY <1>0, <1>1, <1>4, <2>1
        <4> QED BY <4>1, <4>2, <4>3
      <3> QED BY <1>2, <1>4, <2>1, <2>3, <3>1, <3>2 DEF Balance
    <2>5. Own(th)'
      BY <1>1, <1>2, <2>1 DEF Own
    <2> QED BY <1>2, <2>3, <2>4, <2>5 DEF Magic
  <1> QED BY <1>5, <1>6

\* Nothing is in flight and nothing will be read.
LEMMA EmptyFlight ==
  ASSUME NEW th \in Threads, Len(queue') = 0, Len(results') = 0, results' = <<>>,
         pc'[th] \in {"off", "detect", "check", "seen", "seq", "done"}
  PROVE  Balance(th)' /\ Own(th)' /\ Magic(th)'
  <1>1. Owed(pc'[th]) = 0
    BY DEF Owed
  <1> QED BY <1>1 DEF Balance, Own, Magic

\* A thread goes on without sending or reading.
LEMMA MovedFlight ==
  ASSUME NEW th \in Threads, InFlight(th), UNCHANGED <<queue, results, boots>>,
         pc[th] \in {"off", "done", "detect", "seq", "rel"},
         pc'[th] \in {"off", "done", "detect", "seq", "rel"}
  PROVE  Balance(th)' /\ Own(th)' /\ Magic(th)'
  <1>1. Owed(pc'[th]) = 0 /\ Owed(pc[th]) = 0
    BY DEF Owed
  <1> QED BY <1>1 DEF InFlight, Balance, Own, Magic

\* A board is pulled or plugged in: it has no magic bytes then.
LEMMA PlugFlight ==
  ASSUME TypeOK, NEW th \in Threads, InFlight(th), NEW i \in Boards, Pull(i) \/ Plug(i)
  PROVE  Balance(th)' /\ Own(th)' /\ Magic(th)'
  <1>1. UNCHANGED <<queue, results, pc, chn, boots>>
    BY DEF Pull, Plug
  <1>2. PICK b : b.magic = FALSE /\ board' = [board EXCEPT ![i] = b]
    BY DEF Pull, Plug, Gone, Fresh
  <1>3. \A j \in Boards : board'[j].magic => board[j].magic
    BY <1>2 DEF TypeOK
  <1>4. chn[th] \in Boards
    BY DEF TypeOK
  <1> QED BY <1>1, <1>3, <1>4 DEF InFlight, Balance, Own, Magic

\* Before the first result nobody gets any further: a thread can only ask.
LEMMA HeldUp ==
  ASSUME TypeOK, NEW th \in Threads, DetectDds(th), results = <<>>, pc[th] \in {"detect", "res0"}
  PROVE  SendProbe(th) /\ pc'[th] = "res0" /\ UNCHANGED <<results, chn, ctrlVars, ghostVars>>
  <1>1. ~GetResult(th)
    BY DEF GetResult
  <1>2. SendProbe(th)
    BY <1>1 DEF DetectDds, ReadRes0, ReadRes1, CheckDds, ForceInit, CheckMagic, InitDds, DumpDds
  <1>3. "res0" \in Labels
    BY DEF Labels
  <1> QED BY <1>2, <1>3, GotoMoves DEF SendProbe

\* Every step keeps what is in flight the user's own.
LEMMA FlightStep == ASSUME BootInv, [Next]_vars PROVE Flight'
  <1> USE DEF BootInv, Settled
  <1>0. /\ TypeOK' /\ pc \in [Threads -> Labels]
        /\ {"off", "clear", "detect", "done", "check", "seq", "rel", "seen"} \subseteq Labels
    BY TypesStep DEF TypeOK, Labels
  <1>1. /\ Len(queue) \in Nat /\ Len(results) \in Nat
        /\ queue = <<>> <=> Len(queue) = 0
        /\ results = <<>> <=> Len(results) = 0
    BY Lengths
  <1>2. ASSUME NEW th \in Threads, DetectDds(th) PROVE Flight'
    <2>1. /\ pc[th] \in Detecting /\ \A o \in Threads \ {th} : pc'[o] = pc[o]
          /\ hold' = hold /\ leftover' = leftover
      BY <1>2, DetectMoves
    <2> SUFFICES ASSUME Settled' PROVE Flight'
      BY DEF Flight
    <2>2. Settled
      BY <2>1 DEF Detecting
    <2>3. CASE pc["c"] = "done"
      <3>1. th = "w" /\ pc'["c"] = "done"
        BY <2>1, <2>3 DEF Detecting
      <3>2. InFlight("w")
        BY <2>2, <2>3 DEF Flight
      <3>3. Balance("w")' /\ Own("w")' /\ Magic("w")'
        BY <1>0, <1>2, <3>1, <3>2, DetectFlight
      <3> QED BY <3>1, <3>3 DEF Flight, InFlight
    <2>4. CASE pc["c"] # "done" /\ hold
      <3>1. /\ results = <<>> /\ pc["c"] \in {"detect", "res0"}
            /\ pc["w"] \in {"off", "done", "detect", "res0"}
        BY <2>2, <2>4 DEF Flight
      <3>2. pc[th] \in {"detect", "res0"}
        BY <2>1, <3>1 DEF Detecting
      <3>3. results' = <<>> /\ pc'[th] = "res0"
        BY <1>2, <3>1, <3>2, HeldUp
      <3> QED BY <2>1, <2>4, <3>1, <3>3 DEF Flight
    <2>5. CASE pc["c"] # "done" /\ ~hold
      <3>1. pc["w"] = "off" /\ InFlight("c")
        BY <2>2, <2>5 DEF Flight
      <3>2. th = "c" /\ pc'["w"] = "off"
        BY <2>1, <3>1 DEF Detecting
      <3>3. /\ Balance("c")' /\ Own("c")' /\ Magic("c")'
            /\ pc'["c"] = "done" => queue' = <<>> /\ results' = <<>>
        BY <1>0, <1>2, <3>1, <3>2, DetectFlight
      <3>4. ASSUME pc'["c"] = "done" PROVE Balance("w")' /\ Own("w")' /\ Magic("w")'
        BY <3>2, <3>3, <3>4, EmptyFlight, EmptySeq
      <3> QED BY <2>1, <2>5, <3>2, <3>3, <3>4 DEF Flight, InFlight
    <2> QED BY <2>3, <2>4, <2>5
  <1>3. CASE Execute
    <2>1. pc' = pc /\ hold' = hold /\ leftover' = leftover /\ ~hold
      BY <1>3 DEF Execute, ghostVars
    <2>2. ASSUME NEW th \in Threads, InFlight(th) PROVE Balance(th)' /\ Own(th)' /\ Magic(th)'
      BY <1>3, <2>2, ExecuteFlight
    <2> QED BY <2>1, <2>2 DEF Flight, InFlight
  <1>4. ASSUME NEW i \in Boards, Pull(i) \/ Plug(i) PROVE Flight'
    <2>1. pc' = pc /\ hold' = hold /\ leftover' = leftover /\ results' = results
      BY <1>4 DEF Pull, Plug, ghostVars
    <2>2. ASSUME NEW th \in Threads, InFlight(th) PROVE Balance(th)' /\ Own(th)' /\ Magic(th)'
      BY <1>4, <2>2, PlugFlight
    <2> QED BY <2>1, <2>2 DEF Flight, InFlight
  <1>5. CASE Start \/ Crash
    <2>1. pc'["c"] \in {"off", "clear"}
      BY <1>0, <1>5 DEF Start, Crash, Goto
    <2> QED BY <2>1 DEF Flight
  <1>6. CASE ClearResults
    <2>1. CASE results # <<>>
      BY <1>6, <2>1 DEF ClearResults, Flight
    <2>2. CASE results = <<>>
      <3>1. /\ pc["c"] = "clear" /\ pc' = [pc EXCEPT !["c"] = "detect"] /\ leftover' = Leftover
            /\ UNCHANGED <<results, queue, hold>>
        BY <1>6, <2>2 DEF ClearResults
      <3>2. pc'["c"] = "detect" /\ pc'["w"] = "off"
        BY <1>0, <3>1 DEF Places
      <3>3. ASSUME leftover' = "none" PROVE Balance("c")' /\ Own("c")' /\ Magic("c")'
        <4>1. queue = <<>>
          BY <3>1, <3>3 DEF Leftover
        <4> QED BY <1>1, <2>2, <3>1, <3>2, <4>1, EmptyFlight
      <3> QED BY <2>2, <3>1, <3>2, <3>3 DEF Flight, InFlight
    <2> QED BY <2>1, <2>2
  <1>7. CASE Worker \/ WorkerDetect
    <2>1. /\ pc["w"] \in {"off", "done"} /\ pc'["w"] \in {"done", "detect"} /\ pc'["c"] = pc["c"]
          /\ UNCHANGED <<queue, results, hold, leftover, boots>>
      BY <1>0, <1>7 DEF Worker, WorkerStart, WorkerDetect, Goto, hwVars, ghostVars
    <2>2. leftover = "none" => pc["c"] = "done" \/ hold \/ pc["w"] # "off"
      BY <1>7 DEF Worker, WorkerStart, WorkerDetect
    <2>3. ASSUME InFlight("w") PROVE Balance("w")' /\ Own("w")' /\ Magic("w")'
      BY <2>1, <2>3, MovedFlight
    <2> QED BY <2>1, <2>2, <2>3 DEF Flight, InFlight
  <1>8. CASE ReleaseHold
    <2>1. /\ pc["w"] = "seq" /\ pc'["w"] = "rel" /\ pc'["c"] = pc["c"]
          /\ UNCHANGED <<queue, results, leftover, boots>>
      BY <1>0, <1>8 DEF ReleaseHold, Goto, ghostVars
    <2>2. pc["c"] = "done"
      BY <2>1 DEF Places
    <2>3. ASSUME InFlight("w") PROVE Balance("w")' /\ Own("w")' /\ Magic("w")'
      BY <2>1, <2>3, MovedFlight
    <2> QED BY <2>1, <2>2, <2>3 DEF Flight, InFlight
  <1>9. CASE EndSeq \/ CheckSeen
    <2>1. /\ pc["w"] \in {"rel", "seen"} /\ pc'["w"] \in {"check", "seen", "detect", "done"}
          /\ pc'["c"] = pc["c"]
      BY <1>0, <1>9, GotoMoves, NextBoardMoves DEF EndSeq, CheckSeen
    <2>2. UNCHANGED <<queue, results, leftover>> /\ (pc["w"] = "rel" => queue = <<>>)
      BY <1>9 DEF EndSeq, CheckSeen, hwVars, ghostVars
    <2>3. pc["c"] = "done"
      BY <2>1 DEF Places
    <2>4. ASSUME InFlight("w") PROVE Balance("w")' /\ Own("w")' /\ Magic("w")'
      <3>1. Owed(pc["w"]) = 0
        BY <2>1 DEF Owed
      <3>2. Len(queue) = 0 /\ Len(results) = 0
        BY <1>1, <2>1, <2>2, <2>4, <3>1 DEF InFlight, Balance
      <3> QED BY <1>1, <2>1, <2>2, <3>2, EmptyFlight
    <2> QED BY <2>1, <2>2, <2>3, <2>4 DEF Flight, InFlight
  <1>10. CASE BeginSeq
    <2>1. pc'["c"] = "done" /\ pc'["w"] = "seq" /\ queue' = <<>> /\ results' = <<>>
      BY <1>0, <1>10 DEF BeginSeq, Up, Goto
    <2>2. Balance("w")' /\ Own("w")' /\ Magic("w")'
      BY <2>1, EmptyFlight, EmptySeq
    <2> QED BY <2>1, <2>2 DEF Flight, InFlight
  <1>11. CASE SeqOut
    <2>1. /\ pc["w"] = "seq" /\ Send("w", <<"out">>) /\ "out" \in Ops
          /\ UNCHANGED <<pc, results, leftover, boots>>
      BY <1>11 DEF SeqOut, Ops, ghostVars
    <2>2. pc["c"] = "done"
      BY <2>1 DEF Places
    <2>3. /\ Len(queue') = Len(queue) + 1 /\ \A k \in 1 .. Len(queue) : queue'[k] = queue[k]
          /\ queue'[Len(queue) + 1] = Instr("w", "out", chn["w"])
      BY <2>1, Sent1
    <2>4. \A k \in 1 .. Len(queue') : k \in 1 .. Len(queue) \/ k = Len(queue) + 1
      BY <1>1, <2>3
    <2>5. Instr("w", "out", chn["w"]).op = "out" /\ Instr("w", "out", chn["w"]).by = <<boots, "w">>
      BY DEF Instr
    <2>6. Owed(pc["w"]) = 0 /\ Owed(pc'["w"]) = 0
      BY <2>1 DEF Owed
    <2>7. ASSUME InFlight("w") PROVE Balance("w")' /\ Own("w")' /\ Magic("w")'
      <3> USE DEF InFlight
      <3>1. Balance("w")'
        BY <1>1, <2>1, <2>3, <2>4, <2>5, <2>6, <2>7 DEF Balance, Asking
      <3>2. Own("w")'
        BY <2>1, <2>3, <2>4, <2>5, <2>7 DEF Own
      <3> QED BY <2>1, <3>1, <3>2 DEF Magic
    <2> QED BY <2>1, <2>2, <2>7 DEF Flight, InFlight
  <1>12. CASE UNCHANGED vars \/ \E i \in Boards : ResetDds(i)
    <2>1. UNCHANGED <<queue, results, hold, board, pc, chn, leftover, boots>>
      BY <1>12 DEF ResetDds, vars, hwVars, ghostVars
    <2> QED BY <2>1 DEF Flight, InFlight, Balance, Own, Magic
  <1> QED BY <1>2, <1>3, <1>4, <1>5, <1>6, <1>7, <1>8, <1>9, <1>10, <1>11, <1>12
          DEF Next, CtorStep, WorkerStep

-----------------------------------------------------------------------------
(* Resets that are asked for.                                              *)

Ahead(p) == p \in {"detect", "res0", "res1", "bad", "check"}

\* What a step of detect_dds does to the resets: a board that is taken off due, or whose
\* reset is no longer noted, is the thread's own.
LEMMA DetectDue ==
  ASSUME TypeOK, NEW th \in Threads, DetectDds(th)
  PROVE  /\ due' \subseteq due /\ due \ {chn[th]} \subseteq due'
         /\ \A i \in Boards \ {chn[th]} : m_dds_pending_reset'[i] = m_dds_pending_reset[i]
         /\ \A o \in Threads \ {th} : pc'[o] = pc[o] /\ chn'[o] = chn[o]
         /\ m_dds_pending_reset'[chn[th]] =>
              \/ chn'[th] = chn[th] /\ (pc'[th] = "magic" \/ (th = "c" /\ pc'[th] = "check"))
              \/ /\ m_dds_pending_reset[chn[th]] /\ due' = due
                 /\ pc[th] # "magic" /\ (th = "c" => pc[th] # "check")
         /\ pc'[th] # "done" /\ Ahead(pc'[th]) =>
              \/ chn'[th] = chn[th] /\ Ahead(pc[th]) /\ due' = due
              \/ chn'[th] = chn[th] + 1 \/ th = "w"
         /\ ~Ahead(pc'[th]) /\ pc'[th] # "done" => chn'[th] = chn[th] \/ th = "w"
  <1>0. /\ pc \in [Threads -> Labels] /\ chn \in [Threads -> Boards] /\ chn[th] \in Boards
        /\ m_dds_pending_reset \in [Boards -> BOOLEAN]
        /\ {"res0", "res1", "bad", "chk", "magic", "dump", "check"} \subseteq Labels
    BY DEF TypeOK, Labels
  <1>1. ASSUME NextBoard(th)
        PROVE  /\ pc'[th] \in {"seen", "detect", "done"} /\ (pc'[th] = "seen" => th = "w")
               /\ \A o \in Threads \ {th} : pc'[o] = pc[o] /\ chn'[o] = chn[o]
               /\ pc'[th] # "done" => chn'[th] = chn[th] + 1
    <2>1. pc'[th] # "done" => chn'[th] = chn[th] + 1
      BY <1>0, <1>1 DEF NextBoard, Goto
    <2> QED BY <1>1, <2>1, NextBoardMoves
  <1>2. ASSUME NEW label \in Labels, Goto(th, label)
        PROVE  pc'[th] = label /\ \A o \in Threads \ {th} : pc'[o] = pc[o]
    BY <1>2, GotoMoves
  <1> USE DEF Ahead
  <1>3. CASE SendProbe(th)
    BY <1>0, <1>2, <1>3 DEF SendProbe, ctrlVars, ghostVars
  <1>4. CASE ReadRes0(th)
    <2> DEFINE label == IF Head(results).val THEN "bad" ELSE "res1"
    <2>1. pc[th] = "res0" /\ Goto(th, label) /\ UNCHANGED <<chn, ctrlVars, due>>
      BY <1>4 DEF ReadRes0
    <2>2. label \in {"bad", "res1"}
      OBVIOUS
    <2> HIDE DEF label
    <2>3. pc'[th] = label /\ \A o \in Threads \ {th} : pc'[o] = pc[o]
      BY <1>0, <1>2, <2>1, <2>2
    <2> QED BY <1>0, <2>1, <2>2, <2>3 DEF ctrlVars
  <1>5. CASE ReadRes1(th) /\ Present(th)
    <2>1. /\ pc[th] \in {"res1", "bad"} /\ UNCHANGED <<chn, due>> /\ pc'[th] = "check"
          /\ \A o \in Threads \ {th} : pc'[o] = pc[o]
      BY <1>0, <1>2, <1>5 DEF ReadRes1, Present
    <2>2. /\ \A i \in Boards \ {chn[th]} : m_dds_pending_reset'[i] = m_dds_pending_reset[i]
          /\ m_dds_pending_reset'[chn[th]] => m_dds_pending_reset[chn[th]] \/ th = "c"
      BY <1>0, <1>5 DEF Present
    <2> QED BY <2>1, <2>2
  <1>6. CASE ReadRes1(th) /\ Absent(th)
    <2>1. due' = due \ {chn[th]} /\ NextBoard(th)
      BY <1>6 DEF Absent
    <2>2. /\ \A i \in Boards \ {chn[th]} : m_dds_pending_reset'[i] = m_dds_pending_reset[i]
          /\ ~m_dds_pending_reset'[chn[th]]
      BY <1>0, <1>6 DEF Absent
    <2> QED BY <1>1, <2>1, <2>2
  <1>7. CASE CheckDds(th)
    BY <1>0, <1>2, <1>7 DEF CheckDds, ctrlVars, ghostVars
  <1>8. CASE SendReset(th) /\ UNCHANGED ctrlVars
    BY <1>0, <1>2, <1>8 DEF SendReset, ctrlVars
  <1>9. CASE CheckMagic(th) /\ NextBoard(th) /\ due' = due
    BY <1>0, <1>1, <1>9 DEF CheckMagic, ctrlVars
  <1>10. CASE InitDds(th)
    <2>1. /\ \A i \in Boards \ {chn[th]} : m_dds_pending_reset'[i] = m_dds_pending_reset[i]
          /\ ~m_dds_pending_reset'[chn[th]] /\ due' = due
      BY <1>0, <1>10 DEF InitDds, ghostVars
    <2>2. NextBoard(th) \/ (Goto(th, "dump") /\ UNCHANGED chn)
      BY <1>10 DEF InitDds
    <2> QED BY <1>0, <1>1, <1>2, <2>1, <2>2
  <1>11. CASE DumpDds(th)
    BY <1>0, <1>1, <1>11 DEF DumpDds, ctrlVars
  <1> QED BY <1>3, <1>4, <1>5, <1>6, <1>7, <1>8, <1>9, <1>10, <1>11
          DEF DetectDds, ReadRes1, ForceInit, CheckMagic

\* A step of detect_dds: what is noted was asked for, and the constructor's boards wait.
LEMMA DetectDues == ASSUME BootInv, NEW th \in Threads, DetectDds(th) PROVE Dues'
  <1> USE DEF BootInv
  <1>1. /\ pc[th] \in Detecting /\ pc'[th] \in Detecting \union {"done", "seen"}
        /\ \A o \in Threads \ {th} : pc'[o] = pc[o]
        /\ UNCHANGED <<hold, leftover>>
    BY DetectMoves
  <1>2. /\ due' \subseteq due /\ due \ {chn[th]} \subseteq due'
        /\ \A i \in Boards \ {chn[th]} : m_dds_pending_reset'[i] = m_dds_pending_reset[i]
        /\ \A o \in Threads \ {th} : pc'[o] = pc[o] /\ chn'[o] = chn[o]
        /\ m_dds_pending_reset'[chn[th]] =>
             \/ chn'[th] = chn[th] /\ (pc'[th] = "magic" \/ (th = "c" /\ pc'[th] = "check"))
             \/ /\ m_dds_pending_reset[chn[th]] /\ due' = due
                /\ pc[th] # "magic" /\ (th = "c" => pc[th] # "check")
    BY DetectDue
  <1>3. pc["c"] \notin {"off", "clear"} /\ pc'["c"] \notin {"off", "clear"}
    BY <1>1 DEF Places, Detecting
  <1>4. ASSUME NEW i \in Boards, m_dds_pending_reset'[i] PROVE Noted(i)'
    <2>1. CASE i # chn[th]
      <3>1. Noted(i)
        BY <1>2, <1>3, <1>4, <2>1 DEF Dues
      <3> QED BY <1>2, <2>1, <3>1 DEF Noted
    <2>2. CASE i = chn[th]
      <3>1. CASE chn'[th] = chn[th] /\ (pc'[th] = "magic" \/ (th = "c" /\ pc'[th] = "check"))
        BY <2>2, <3>1 DEF Noted
      <3>2. CASE /\ m_dds_pending_reset[chn[th]] /\ due' = due
                 /\ pc[th] # "magic" /\ (th = "c" => pc[th] # "check")
        <4>1. Noted(i)
          BY <1>3, <2>2, <3>2 DEF Dues
        <4> QED BY <1>2, <2>2, <3>2, <4>1 DEF Noted
      <3> QED BY <1>2, <1>4, <2>2, <3>1, <3>2
    <2> QED BY <2>1, <2>2
  <1>5. ASSUME Settled', pc'["c"] # "done" PROVE ToCome' \subseteq due'
    <2>1. Settled /\ (th = "c" \/ pc["c"] # "done")
      BY <1>1, <1>3, <1>5 DEF Settled
    <2>2. pc["c"] # "done" /\ ToCome \subseteq due
      BY <1>1, <2>1 DEF Dues, Detecting
    <2>3. CASE hold
      <3>1. /\ results = <<>> /\ pc["c"] \in {"detect", "res0"}
            /\ pc["w"] \in {"off", "done", "detect", "res0"}
        BY <2>1, <2>2, <2>3 DEF Flight
      <3>2. pc[th] \in {"detect", "res0"}
        BY <1>1, <3>1 DEF Detecting
      <3>3. pc'[th] = "res0" /\ UNCHANGED <<chn, ghostVars>>
        BY <3>1, <3>2, HeldUp
      <3>4. pc'["c"] \in {"detect", "res0"}
        BY <1>1, <3>1, <3>3
      <3> QED BY <2>2, <3>1, <3>3, <3>4 DEF ToCome, ghostVars
    <2>4. CASE ~hold
      <3>1. th = "c"
        BY <1>1, <2>1, <2>2, <2>4 DEF Flight, Detecting
      <3>2. /\ due' \subseteq due /\ due \ {chn[th]} \subseteq due'
            /\ Ahead(pc'[th]) =>
                 \/ chn'[th] = chn[th] /\ Ahead(pc[th]) /\ due' = due
                 \/ chn'[th] = chn[th] + 1
            /\ ~Ahead(pc'[th]) => chn'[th] = chn[th]
        BY <1>5, <3>1, DetectDue
      <3>3. chn[th] \in Nat /\ NDDS \in Nat
        BY DEF TypeOK, Boards
      <3>4. chn[th] + 1 .. NDDS \subseteq due'
        <4>1. chn[th] + 1 .. NDDS \subseteq ToCome
          BY <3>1, <3>3 DEF ToCome
        <4>2. chn[th] \notin chn[th] + 1 .. NDDS
          BY <3>3
        <4> QED BY <2>2, <3>2, <4>1, <4>2
      <3>5. CASE ~Ahead(pc'[th]) \/ chn'[th] = chn[th] + 1
        <4>1. ToCome' \subseteq chn[th] + 1 .. NDDS
          BY <3>1, <3>2, <3>3, <3>5 DEF ToCome, Ahead
        <4> QED BY <3>4, <4>1
      <3>6. CASE Ahead(pc'[th]) /\ chn'[th] = chn[th] /\ Ahead(pc[th]) /\ due' = due
        BY <2>2, <3>1, <3>6 DEF ToCome, Ahead
      <3> QED BY <3>2, <3>5, <3>6
    <2> QED BY <2>3, <2>4
  <1> QED BY <1>3, <1>4, <1>5 DEF Dues

\* Every step.
LEMMA DuesStep == ASSUME BootInv, [Next]_vars PROVE Dues'
  <1> USE DEF BootInv
  <1>0. /\ pc \in [Threads -> Labels] /\ chn \in [Threads -> Boards]
        /\ m_dds_pending_reset \in [Boards -> BOOLEAN] /\ due \subseteq Boards
        /\ {"off", "clear", "detect", "done", "check", "seq", "rel", "seen"} \subseteq Labels
    BY DEF TypeOK, Labels
  <1>1. ASSUME NEW th \in Threads, DetectDds(th) PROVE Dues'
    BY <1>1, DetectDues
  <1>2. CASE UNCHANGED <<pc, chn, m_dds_pending_reset, due, leftover>>
    BY <1>2 DEF Dues, Noted, ToCome, Settled
  <1>3. CASE Execute \/ SeqOut \/ UNCHANGED vars \/ \E i \in Boards : Pull(i) \/ Plug(i)
    BY <1>2, <1>3 DEF Execute, SeqOut, Pull, Plug, vars, ctrlVars, ghostVars
  <1>4. ASSUME NEW i \in Boards, ResetDds(i) PROVE Dues'
    <2>1. /\ pc["c"] = "done" /\ UNCHANGED <<pc, chn, leftover>> /\ due' = due \union {i}
          /\ \A j \in Boards \ {i} : m_dds_pending_reset'[j] = m_dds_pending_reset[j]
      BY <1>0, <1>4 DEF ResetDds
    <2> QED BY <2>1 DEF Dues, Noted
  <1>5. CASE Start
    <2>1. pc'["c"] = "clear" /\ due' = Boards
      BY <1>0, <1>5 DEF Start, Goto
    <2>2. \A i \in Boards : ~m_dds_pending_reset'[i]
      BY <1>5 DEF Start
    <2> QED BY <2>1, <2>2 DEF Dues, Settled
  <1>6. CASE Crash
    <2>1. pc'["c"] = "off"
      BY <1>6 DEF Crash
    <2> QED BY <2>1 DEF Dues, Settled
  <1>7. CASE ClearResults
    <2>1. /\ pc["c"] = "clear" /\ UNCHANGED <<chn, m_dds_pending_reset, due>> /\ due = Boards
          /\ pc'["c"] \in {"clear", "detect"} /\ pc'["w"] = pc["w"]
      BY <1>0, <1>7 DEF ClearResults, ctrlVars, Dues
    <2>2. \A i \in Boards : Noted(i)'
      BY <2>1 DEF Noted
    <2>3. Settled' => pc'["c"] = "detect"
      BY <2>1 DEF Settled
    <2>4. chn["c"] \in Boards
      BY <1>0
    <2>5. chn["c"] .. NDDS \subseteq Boards
      BY <2>4 DEF Boards
    <2> QED BY <2>1, <2>2, <2>3, <2>5 DEF Dues, ToCome
  <1>8. CASE Worker \/ WorkerDetect \/ ReleaseHold \/ EndSeq
    <2>1. /\ pc'["c"] = pc["c"] /\ pc["w"] \in {"off", "done", "seq", "rel"}
          /\ UNCHANGED <<chn, m_dds_pending_reset, due, leftover>>
      BY <1>0, <1>8 DEF Worker, WorkerStart, WorkerDetect, ReleaseHold, EndSeq, Goto, ctrlVars,
                        ghostVars
    <2> QED BY <2>1 DEF Dues, Noted, ToCome, Settled
  <1>9. CASE CheckSeen \/ BeginSeq
    <2>1. /\ pc'["c"] = pc["c"] /\ chn'["c"] = chn["c"] /\ pc["w"] \in {"seen", "done"}
          /\ UNCHANGED <<m_dds_pending_reset, due>>
      BY <1>0, <1>9, GotoMoves, NextBoardMoves
         DEF CheckSeen, BeginSeq, Goto, Up, ctrlVars, ghostVars
    <2>2. pc["c"] = "done"
      BY <1>9, <2>1 DEF BeginSeq, Up, CheckSeen, Places
    <2> QED BY <2>1, <2>2 DEF Dues, Noted
  <1> QED BY <1>1, <1>3, <1>4, <1>5, <1>6, <1>7, <1>8, <1>9 DEF Next, CtorStep, WorkerStep

-----------------------------------------------------------------------------
(* Results and what follows.                                               *)

\* A thread that finds a result is the one that uses the FPGA.
LEMMA ReaderOwns ==
  ASSUME BootInv, NEW th \in Threads, pc[th] \in Detecting, results # <<>>, leftover = "none"
  PROVE  InFlight(th)
  <1>1. Settled
    BY DEF BootInv, Places, Settled, Detecting
  <1>2. CASE th = "c"
    BY <1>1, <1>2 DEF BootInv, Flight, Detecting
  <1>3. CASE th = "w"
    BY <1>1, <1>3 DEF BootInv, Flight, Detecting
  <1> QED BY <1>2, <1>3

\* No step reads what somebody else has asked for.
LEMMA ForeignStep == ASSUME BootInv, [Next]_vars PROVE Foreign'
  <1> USE DEF BootInv, Foreign, OwnResults
  <1>0. pc \in [Threads -> Labels] /\ TypeOK
    BY DEF TypeOK, Labels
  <1>1. ASSUME NEW th \in Threads, DetectDds(th) PROVE Foreign'
    <2>1. /\ pc[th] \in Detecting /\ pc'[th] \in Detecting \union {"done", "seen"}
          /\ \A o \in Threads \ {th} : pc'[o] = pc[o] /\ leftover' = leftover
      BY <1>1, DetectMoves
    <2>2. pc'["c"] # "clear"
      BY <2>1 DEF Places, Detecting
    <2>3. GetResult(th) \/ foreign' = foreign
      BY <1>1 DEF DetectDds, SendProbe, ReadRes0, ReadRes1, CheckDds, ForceInit, CheckMagic,
                  InitDds, DumpDds, ghostVars
    <2>4. CASE foreign' = foreign
      BY <2>1, <2>2, <2>4
    <2>5. CASE GetResult(th) /\ leftover = "none"
      <3>1. /\ results # <<>> /\ 1 \in 1 .. Len(results)
            /\ foreign' = (foreign \/ results[1].by # <<boots, th>>)
        BY <1>0, <2>5, Got
      <3>2. results[1].by = <<boots, th>>
        BY <2>1, <2>5, <3>1, ReaderOwns DEF InFlight, Own
      <3> QED BY <2>1, <2>2, <2>5, <3>1, <3>2
    <2>6. CASE leftover # "none"
      BY <2>1, <2>2, <2>6
    <2> QED BY <2>3, <2>4, <2>5, <2>6
  <1>2. CASE Execute \/ \E i \in Boards : Pull(i) \/ Plug(i) \/ ResetDds(i)
    BY <1>2 DEF Execute, Pull, Plug, ResetDds, ghostVars
  <1>3. CASE Start \/ BeginSeq
    BY <1>3 DEF Start, BeginSeq
  <1>4. CASE ClearResults
    BY <1>0, <1>4 DEF ClearResults
  <1>5. CASE Worker \/ WorkerDetect \/ ReleaseHold \/ EndSeq \/ SeqOut
    BY <1>0, <1>5 DEF Worker, WorkerDetect, ReleaseHold, EndSeq, SeqOut, Goto, ghostVars
  <1>6. CASE CheckSeen
    <2>1. pc'["c"] = pc["c"]
      BY <1>0, <1>6, NextBoardMoves DEF CheckSeen, Goto
    <2> QED BY <1>6, <2>1 DEF CheckSeen, ghostVars
  <1>7. CASE Crash
    BY <1>7 DEF Crash, ghostVars
  <1>8. CASE UNCHANGED vars
    BY <1>8 DEF vars, ghostVars
  <1> QED BY <1>1, <1>2, <1>3, <1>4, <1>5, <1>6, <1>7, <1>8 DEF Next, CtorStep, WorkerStep

\* A machine that was just switched on.
LEMMA BootInit == Init => BootInv
  <1> SUFFICES ASSUME Init PROVE BootInv
    OBVIOUS
  <1> USE DEF Init
  <1>1. board \in [Boards -> BoardType]
    <2>1. Fresh \in BoardType /\ Gone(1) \in BoardType
      BY DEF Fresh, Gone, BoardType
    <2> QED BY <2>1
  <1>2. TypeOK
    <2>1. queue \in Seq(Instrs) /\ results \in Seq(Answers)
      BY EmptySeq
    <2>2. pc \in [Threads -> Labels] /\ chn \in [Threads -> Boards]
      BY DEF Labels, Boards
    <2>3. m_dds_exist \in [Boards -> BOOLEAN] /\ m_dds_pending_reset \in [Boards -> BOOLEAN]
      OBVIOUS
    <2>4. hold \in BOOLEAN /\ foreign \in BOOLEAN
      OBVIOUS
    <2>5. boots \in 0 .. MaxBoots /\ nplug \in Nat
      OBVIOUS
    <2>6. look \in {"detect", "seq"} /\ leftover \in {"none", "some", "slow"} /\ due \subseteq Boards
      OBVIOUS
    <2> HIDE DEF Init
    <2> QED BY <1>1, <2>1, <2>2, <2>3, <2>4, <2>5, <2>6 DEF TypeOK, Labels, BoardType
  <1>3. Places /\ Flight /\ Foreign /\ Dues
    BY DEF Places, Flight, Settled, Foreign, OwnResults, Dues
  <1> QED BY <1>2, <1>3 DEF BootInv

\* The invariant holds in every state of the machine.
THEOREM BootInvariant == Spec => []BootInv
  <1>1. Init => BootInv
    BY BootInit
  <1>2. BootInv /\ [Next]_vars => BootInv'
    BY TypesStep, PlacesStep, FlightStep, ForeignStep, DuesStep DEF BootInv
  <1> QED BY <1>1, <1>2, PTL DEF Spec

\* Every variable keeps its type.
THEOREM BootTypes == Spec => []TypeOK
  <1>1. BootInv => TypeOK
    BY DEF BootInv
  <1> QED BY <1>1, BootInvariant, PTL

\* Every result is read by the thread and the server that asked for it, unless instructions
\* of an earlier server were still to be executed when clear_results was done.
THEOREM ResultsAreOwn == Spec => []OwnResults
  <1>1. BootInv => OwnResults
    BY DEF BootInv, Foreign
  <1> QED BY <1>1, BootInvariant, PTL

\* A board is reset once for each start of the server and for each reset_dds, and apart
\* from that by check_dds when its magic bytes are gone, as long as no instructions of an
\* earlier server are in the way.
THEOREM ResetsAreNeeded == Spec => ResetOnlyIfNeeded
  <1> DEFINE Needed == \A th \in Threads :
               pc[th] # "magic" /\ pc'[th] = "magic" /\ leftover = "none" =>
                 chn[th] \in due \/ ~board[chn[th]].magic
  <1>1. ASSUME BootInv, [Next]_vars PROVE Needed
    <2> SUFFICES ASSUME NEW th \in Threads, pc[th] # "magic", pc'[th] = "magic", leftover = "none"
                 PROVE  chn[th] \in due \/ ~board[chn[th]].magic
      OBVIOUS
    <2>0. /\ TypeOK /\ pc \in [Threads -> Labels] /\ chn[th] \in Boards
          /\ {"clear", "done", "check", "detect", "seq", "rel", "seen"} \subseteq Labels
      BY <1>1 DEF BootInv, TypeOK, Labels
    <2>1. DetectDds(th)
      <3>1. ASSUME NEW o \in Threads, DetectDds(o) PROVE o = th
        BY <3>1, <2>0, DetectMoves
      <3>2. CASE pc' = pc
        BY <3>2
      <3>3. ~(Start \/ Crash \/ ClearResults)
        BY <2>0 DEF Start, Crash, ClearResults, Goto
      <3>4. ~(Worker \/ WorkerDetect \/ ReleaseHold \/ EndSeq \/ BeginSeq)
        BY <2>0 DEF Worker, WorkerStart, WorkerDetect, ReleaseHold, EndSeq, BeginSeq, Up, Goto
      <3>5. ~CheckSeen
        BY <2>0, GotoMoves, NextBoardMoves DEF CheckSeen
      <3>6. pc' = pc \/ \E o \in Threads : DetectDds(o)
        BY <1>1, <3>3, <3>4, <3>5 DEF Next, CtorStep, WorkerStep, Execute, Pull, Plug, ResetDds,
                                      SeqOut, vars
      <3> QED BY <3>1, <3>2, <3>6
    <2>2. pc[th] \in Detecting /\ Settled
      BY <1>1, <2>0, <2>1, DetectMoves DEF BootInv, Places, Settled, Detecting
    <2>3. CASE CheckMagic(th)
      <3>1. NextBoard(th) => pc'[th] # "magic"
        BY <2>0, NextBoardMoves
      <3>2. ~Head(results).val /\ pc[th] = "chk"
        BY <2>3, <3>1 DEF CheckMagic
      <3>3. results # <<>> /\ Head(results) = results[1] /\ 1 \in 1 .. Len(results)
        BY <2>0, <2>3, Got DEF CheckMagic
      <3>4. InFlight(th)
        BY <1>1, <3>2, <3>3, ReaderOwns DEF Detecting
      <3> QED BY <3>2, <3>3, <3>4 DEF InFlight, Magic
    <2>4. CASE ForceInit(th)
      <3>1. pc[th] = "check" /\ m_dds_pending_reset[chn[th]]
        BY <2>4 DEF ForceInit
      <3>2. CASE th = "c"
        <4>1. ToCome \subseteq due
          BY <1>1, <2>2, <3>1, <3>2 DEF BootInv, Dues
        <4>2. chn["c"] \in ToCome
          BY <2>0, <3>1, <3>2 DEF ToCome, Boards
        <4> QED BY <3>2, <4>1, <4>2
      <3>3. CASE th = "w"
        <4>1. pc["c"] = "done"
          BY <1>1, <2>2, <3>1, <3>3 DEF BootInv, Flight
        <4>2. Noted(chn[th])
          BY <1>1, <2>0, <3>1, <4>1 DEF BootInv, Dues
        <4> QED BY <3>1, <3>3, <4>1, <4>2 DEF Noted
      <3> QED BY <3>2, <3>3
    <2>5. CheckMagic(th) \/ ForceInit(th)
      <3>1. \A label \in Labels : Goto(th, label) => pc'[th] = label
        BY <2>0, GotoMoves
      <3>2. NextBoard(th) => pc'[th] # "magic"
        BY <2>0, NextBoardMoves
      <3>3. {"res0", "res1", "bad", "check", "chk", "dump"} \subseteq Labels
        BY DEF Labels
      <3> QED BY <2>1, <3>1, <3>2, <3>3
              DEF DetectDds, SendProbe, ReadRes0, ReadRes1, Present, Absent, CheckDds, InitDds,
                  DumpDds
    <2> QED BY <2>3, <2>4, <2>5
  <1> QED BY <1>1, BootInvariant, PTL DEF Spec, ResetOnlyIfNeeded
=============================================================================
