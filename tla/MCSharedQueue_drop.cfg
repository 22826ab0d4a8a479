SPECIFICATION Spec
CONSTANTS
  Writers = {w1, w2}
  Readers = {r1, r2}
  Pollers = {p}
  Items = {a, b}
  MaxSize = 2
  ClearOnFull = FALSE
  MaxPushes = 5
INVARIANTS
  TypeOK
  NoLostWakeup
PROPERTIES
  ImplementsDropQueue
  EventuallyDrained
