SPECIFICATION Spec
CONSTANTS
  NumBlocks = 2
  NumFecBlocks = 1
  MaxBlockSize = 6
  SeqMod = 8
  Lengths = {1}
  Ids = {1, 2, 3, 4, 5, 6}
  StartSeq = 6
  OutBound = 0
  MaxMessages = 4
  Relay = TRUE
  RelayBound = 1
INVARIANTS
  OneGroupHeld
PROPERTIES
  GarbageNeedsMixture
\* Every bounded run ends when all messages have been sent.
CHECK_DEADLOCK FALSE
