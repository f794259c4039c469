CONSTANTS
  NChn = 2
  MaxStartups = 3
  MaxNames = 2
  MaxBoots = 3
  MaxFails = 1
SPECIFICATION Spec
INVARIANTS StartupNotLost TextIsCode NamesSurvive SameIdSameNames
