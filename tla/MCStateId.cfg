CONSTANTS
  Clients = {c1, c2}
  MaxValue = 2
  MaxSeq = 1
  MaxQueue = 2
SYMMETRY ClientSymmetry
SPECIFICATION Spec
INVARIANT QuietFetchStaysCurrent
PROPERTY IdsMoveForward
