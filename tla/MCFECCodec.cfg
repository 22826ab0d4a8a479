SPECIFICATION Spec
CONSTANTS
  GF_BITS = 3
  Pp = {0, 1}
  UNROLL = 2
  Groups <- MCGroups
  Buffers <- MCBuffers
  SeqLimit = 3
  MaxInits = 2
  MaxBuffers = 3
INVARIANTS
  TablesRight
  OnlyZerosDisturbed
  SingularWhenRepeated
  LostRebuilt
  BufferRestored
\* The test program ends after its last buffer.
CHECK_DEADLOCK FALSE
