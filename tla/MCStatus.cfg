SPECIFICATION Spec
CONSTANTS
  Ports = {0, 1}
  InQueue = 2
  OutQueue = 1
  MaxIn <- MCIn
  MaxLost <- MCLost
  MaxOut <- MCOut
  MaxRepeats = 1
INVARIANTS
  TypeOK
  TotalsAdd
  NothingInvented
PROPERTIES
  LogCatchesUp
  KnownGrows
  GroundLearns
