----------------------------- MODULE RunnerWait -----------------------------
(***************************************************************************)
(* Controller::Runner::wait (lib/controller.cpp): how a sequence's waits   *)
(* are put out and how, in a long sequence, stand-alone commands are run   *)
(* in between.                                                             *)
(*                                                                         *)
(* Times are uint64_t in the code and numbers modulo W here.  Sequence     *)
(* time is in steps of 10ns, real time in ns; the factor is F.  The other  *)
(* numbers of the code are constants, to be given small values in the same *)
(* order:  Lead (1000) < Short (2000) < Slack (3000) < MinChunk (10000)    *)
(*         < m_min_t (0.5s) and 2 * Margin (100) < MaxWait (2^24-1).       *)
(***************************************************************************)
EXTENDS Integers, Sequences, FiniteSetsExt

CONSTANTS
  W, F, Lead, Short, Slack, MinChunk, MinT, MaxWait, Margin,
  Waits,             \* the arguments of wait in the sequence
  EndWait,           \* the wait after the sequence (10ms)
  Instrs,            \* how long other instructions of the sequence take
  StepTimes,         \* how long a stand-alone command takes
  MaxCmds,           \* bound on the commands sent
  MaxNow,            \* bound on the real time
  MaxOps             \* bound on the operations of the sequence

ASSUME RunnerConstants ==
  /\ {W, F, Lead, Short, Slack, MinChunk, MinT, MaxWait, Margin, EndWait, MaxCmds, MaxNow,
      MaxOps} \subseteq Nat
  /\ Lead < Short /\ Short < Slack /\ Slack < MinChunk /\ MinChunk < MinT
  /\ 2 * Margin < MaxWait /\ Short < MaxWait /\ MaxWait < W
  /\ F > 1 /\ 2 * MinChunk < W /\ MaxNow < W
  /\ EndWait >= Short /\ EndWait < W
  /\ Waits \cup Instrs \cup StepTimes \subseteq 0 .. W - 1

\* Real time and every wait, in real time, are far from the end of the clock (584 years).
ASSUME ClockIsWide ==
  /\ MaxNow + MinT < W
  /\ \A d \in Waits \cup {EndWait} : d <= (W - MaxNow - MinT) \div F

VARIABLES
  m_process_cmd, m_released, m_t, m_start_t,
  t,                 \* wait's own t: what is left to put out
  tnow,              \* the coarse clock
  queued,            \* commands in m_cmd_queue
  ncmd,              \* commands sent so far
  pc,                \* "seq" between two operations, "loop" in wait's loop
  ops,               \* operations so far
  (* history *)
  asked,             \* the argument of the last wait
  put,               \* how much time was put out for it, at most Put
  took,              \* how much of that for the release and for commands
  pieces             \* the wait instructions of the last output_wait

vars == <<m_process_cmd, m_released, m_t, m_start_t, t, tnow, queued, ncmd, pc, ops,
          asked, put, took, pieces>>

Put == 3 * W         \* put is counted up to here
Time == 0 .. W - 1   \* uint64_t

TypeOK ==
  /\ m_process_cmd \in BOOLEAN /\ m_released \in BOOLEAN
  /\ m_t \in Time /\ m_start_t \in Time /\ t \in Time
  /\ tnow \in 0 .. MaxNow
  /\ queued \in 0 .. MaxCmds /\ ncmd \in 0 .. MaxCmds
  /\ pc \in {"seq", "loop"}
  /\ ops \in 0 .. MaxOps
  /\ asked \in Time /\ put \in 0 .. Put /\ took \in 0 .. Put
  /\ pieces \in Seq(0 .. W - 1)

\* m_process_cmd: whether the sequence is longer than a second.
Init ==
  /\ m_process_cmd \in BOOLEAN
  /\ m_released = FALSE /\ m_t = 0 /\ m_start_t = 0
  /\ t = 0 /\ tnow = 0 /\ queued = 0 /\ ncmd = 0 /\ pc = "seq" /\ ops = 0
  /\ asked = 0 /\ put = 0 /\ took = 0 /\ pieces = <<>>

-----------------------------------------------------------------------------
(* Putting out *)

\* How long these instructions take.
TotalTime(s) ==
  LET sum[i \in 0 .. Len(s)] == IF i = 0 THEN 0 ELSE sum[i - 1] + s[i] IN sum[Len(s)]

\* Mutant: the rest goes out as one instruction.
OutputWaitOneRest(d) ==
  LET full == IF d > MaxWait + Margin
              THEN (d - Margin - 1) \div MaxWait ELSE 0
      rest == d - full * MaxWait
  IN  [i \in 1 .. full |-> MaxWait] \o (IF rest > 0 THEN <<rest>> ELSE <<>>)

\* The wait instructions of output_wait(d): full ones while more than one and
\* the margin is left, then one, or two halves, so that the last is not short.
OutputWait(d) ==
  LET full == IF d > MaxWait + Margin
              THEN (d - Margin - 1) \div MaxWait ELSE 0
      rest == d - full * MaxWait
      half == rest \div 2
  IN  [i \in 1 .. full |-> MaxWait] \o
      (IF rest > MaxWait THEN <<half, rest - half>>
       ELSE IF rest > 0 THEN <<rest>> ELSE <<>>)

Capped(n) == IF n > Put THEN Put ELSE n

\* d of sequence time goes out, in these instructions.
Output(d, instrs) ==
  /\ m_t' = (m_t + d) % W
  /\ put' = Capped(put + TotalTime(instrs))
  /\ pieces' = instrs

-----------------------------------------------------------------------------
(* The sequence *)

Op == pc = "seq" /\ ops < MaxOps /\ ops' = ops + 1

\* Any other instruction: ttl, DDS, dac, clock.
Instr(d) ==
  /\ Op
  /\ m_t' = (m_t + d) % W
  /\ UNCHANGED <<m_process_cmd, m_released, m_start_t, t, tnow, queued, ncmd, pc,
                 asked, put, took, pieces>>

\* wait_trigger restarts the sequence's clock.
WaitTrigger ==
  /\ Op
  /\ m_t' = 0 /\ m_start_t' = tnow
  /\ UNCHANGED <<m_process_cmd, m_released, t, tnow, queued, ncmd, pc, asked, put, took,
                 pieces>>

\* wait(d) in a short sequence, or a short wait: put out at once.
WaitAtOnce(d) ==
  /\ Op
  /\ ~ m_process_cmd \/ d < Short
  /\ m_t' = (m_t + d) % W
  /\ pieces' = IF m_process_cmd THEN <<d>> ELSE OutputWait(d)
  /\ put' = TotalTime(pieces') /\ took' = 0
  /\ asked' = d
  /\ UNCHANGED <<m_process_cmd, m_released, m_start_t, t, tnow, queued, ncmd, pc>>

\* Mutant: the loop is entered whenever the hold still has to be released.
WaitLoopToRelease(d) ==
  /\ Op
  /\ m_process_cmd /\ (d >= Short \/ ~ m_released)
  /\ t' = d /\ asked' = d /\ put' = 0 /\ took' = 0 /\ pieces' = <<>>
  /\ pc' = "loop"
  /\ UNCHANGED <<m_process_cmd, m_released, m_t, m_start_t, tnow, queued, ncmd>>

\* wait(d) enters its loop.
WaitLoop(d) ==
  /\ Op
  /\ m_process_cmd /\ d >= Short
  /\ t' = d /\ asked' = d /\ put' = 0 /\ took' = 0 /\ pieces' = <<>>
  /\ pc' = "loop"
  /\ UNCHANGED <<m_process_cmd, m_released, m_t, m_start_t, tnow, queued, ncmd>>

\* After the sequence has ended (commands were run meanwhile, their time not
\* counted), run_seq enables the processing of commands and waits once more.
EndSeq ==
  /\ pc = "seq" /\ ops < MaxOps /\ ops' = MaxOps
  /\ m_process_cmd' = TRUE
  /\ queued' \in 0 .. queued
  /\ t' = EndWait /\ asked' = EndWait /\ put' = 0 /\ took' = 0 /\ pieces' = <<>>
  /\ pc' = "loop"
  /\ UNCHANGED <<m_released, m_t, m_start_t, tnow, ncmd>>

-----------------------------------------------------------------------------
(* The loop *)

\* Current sequence time in real time, and the time to put out to before
\* commands are processed.
SeqRt == (m_start_t + m_t * F) % W
ThreshRt == (tnow + MinT) % W

\* min_seqt, computed in uint64_t.
MinSeqT == Max({((SeqRt - ThreshRt) % W) \div F, MinChunk})

\* All that is left goes out, wait returns.
OutputRest ==
  /\ pc = "loop" /\ SeqRt < ThreshRt
  /\ t <= (MinSeqT + Slack) % W
  /\ Output(t, OutputWait(t))
  /\ pc' = "seq"
  /\ UNCHANGED <<m_process_cmd, m_released, m_start_t, t, tnow, queued, ncmd, ops, asked, took>>

\* Some of it goes out, and the loop goes on.
OutputSome ==
  /\ pc = "loop" /\ SeqRt < ThreshRt
  /\ ~ (t <= (MinSeqT + Slack) % W)
  /\ Output(MinSeqT, OutputWait(MinSeqT))
  /\ t' = (t - MinSeqT) % W
  /\ UNCHANGED <<m_process_cmd, m_released, m_start_t, tnow, queued, ncmd, pc, ops, asked, took>>

\* Mutant: the time of the release is not taken out of the wait.
ProcessCmdLeadExtra(step) ==
  /\ pc = "loop" /\ SeqRt >= ThreshRt
  /\ LET lead == IF m_released THEN 0 ELSE Lead
         used == IF queued > 0 THEN step ELSE 0
     IN  /\ m_t' = (m_t + lead + used) % W
         /\ t' = (t - used) % W
         /\ put' = Capped(put + lead + used)
         /\ took' = Capped(took + lead + used)
  /\ m_released' = TRUE
  /\ queued' = IF queued > 0 THEN queued - 1 ELSE 0
  /\ UNCHANGED <<m_process_cmd, m_start_t, tnow, ncmd, pc, ops, asked, pieces>>

\* The time is there: the hold is released if it was not, and a command is
\* processed if there is one.  It takes step of the wait's time.
ProcessCmd(step) ==
  /\ pc = "loop" /\ SeqRt >= ThreshRt
  /\ LET lead == IF m_released THEN 0 ELSE Lead
         used == IF queued > 0 THEN step ELSE 0
     IN  /\ m_t' = (m_t + lead + used) % W
         /\ t' = (t - lead - used) % W
         /\ put' = Capped(put + lead + used)
         /\ took' = Capped(took + lead + used)
  /\ m_released' = TRUE
  /\ queued' = IF queued > 0 THEN queued - 1 ELSE 0
  /\ UNCHANGED <<m_process_cmd, m_start_t, tnow, ncmd, pc, ops, asked, pieces>>

-----------------------------------------------------------------------------
(* Environment *)

Tick ==
  /\ tnow < MaxNow /\ tnow' = tnow + 1
  /\ UNCHANGED <<m_process_cmd, m_released, m_t, m_start_t, t, queued, ncmd, pc, ops,
                 asked, put, took, pieces>>

SendCmd ==
  /\ ncmd < MaxCmds /\ ncmd' = ncmd + 1 /\ queued' = queued + 1
  /\ UNCHANGED <<m_process_cmd, m_released, m_t, m_start_t, t, tnow, pc, ops, asked, put,
                 took, pieces>>

Next ==
  \/ \E d \in Instrs : Instr(d)
  \/ WaitTrigger
  \/ \E d \in Waits : WaitAtOnce(d) \/ WaitLoop(d)
  \/ EndSeq
  \/ OutputRest \/ OutputSome
  \/ \E step \in StepTimes : ProcessCmd(step)
  \/ Tick \/ SendCmd

Spec == Init /\ [][Next]_vars

-----------------------------------------------------------------------------
(* Properties *)

\* assert(t <= max_wait_t) in Pulser::wait, and when a wait is split no piece is
\* as short as the margin: what the margin and the halving are for.
PiecesFit ==
  \A i \in DOMAIN pieces :
    /\ pieces[i] <= MaxWait
    /\ Len(pieces) > 1 => pieces[i] > Margin

\* assert(t >= 2000) where the hold is released: the case distinction in the
\* comment above it is right.
ReleaseAssert == pc = "loop" /\ ~ m_released => t >= Short

\* Stand-alone commands "can happen concurrently with a currently running
\* sequence" (ctrl_iface.h): commands run inside a wait are taken out of its
\* time, so as long as they fit it lasts as long as the sequence asked for.
WaitLength == pc = "seq" /\ took <= asked => put = asked

\* "We need to output to this time before processing commands" (controller.cpp):
\* what goes out at once in a long sequence is what that needs, or the minimum
\* chunk, and the slack, so that the web page does not wait for a long wait.
Needed == Max({(ThreshRt - SeqRt) \div F, MinChunk})
StaysResponsive ==
  [][pc = "loop" /\ SeqRt < ThreshRt /\ m_t' # m_t => TotalTime(pieces') <= Needed + Slack]_vars
=============================================================================
