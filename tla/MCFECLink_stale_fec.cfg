SPECIFICATION Spec
CONSTANTS
  NumBlocks = 3
  NumFecBlocks = 2
  MaxBlockSize = 6
  SeqMod = 8
  Lengths = {1}
  Ids = {1, 2, 3, 4, 5, 6}
  StartSeq = 6
  OutBound = 0
  MaxMessages = 5
  Relay = FALSE
  RelayBound = 0
INVARIANTS
  NoGarbage
\* Every bounded run ends when all messages have been sent.
CHECK_DEADLOCK FALSE
