SPECIFICATION Spec
CONSTANTS
  coded = coded
  plain = plain
  NoLink = NoLink
  Links <- MCLinks
  NumBlocks <- MCNumBlocks
  NumFecBlocks <- MCNumFecBlocks
  MaxQueue = 3
  MaxRestarts = 1
INVARIANTS
  TypeOK
  NothingLeftBehind
PROPERTIES
  FlushedWhenQuiet
