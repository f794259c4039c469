CONSTANTS
  W = 256
  F = 2
  Lead = 1
  Short = 2
  Slack = 3
  MinChunk = 4
  MinT = 5
  MaxWait = 7
  Margin = 2
  Waits = {1, 2, 3, 8, 9, 10, 20}
  EndWait = 6
  Instrs = {4}
  StepTimes = {0, 1, 2}
  MaxCmds = 2
  MaxNow = 12
  MaxOps = 2
SPECIFICATION Spec
INVARIANTS PiecesFit ReleaseAssert WaitLength
CHECK_DEADLOCK FALSE
