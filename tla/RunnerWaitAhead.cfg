CONSTANTS
  W = 128
  F = 2
  Lead = 1
  Short = 2
  Slack = 3
  MinChunk = 4
  MinT = 5
  MaxWait = 7
  Margin = 2
  Waits = {20}
  EndWait = 6
  Instrs = {4}
  StepTimes = {0, 1, 2}
  MaxCmds = 1
  MaxNow = 4
  MaxOps = 3
SPECIFICATION Spec
PROPERTY StaysResponsive
CHECK_DEADLOCK FALSE
