SPECIFICATION Spec
CONSTANTS
  both = both
  rel = rel
  Devices <- MCDevices
  Type <- MCType
  EventTags <- MCEventTags
  MaxQueue = 1
  MaxChanges = 2
  MaxErrors = 1
  MaxFailures = 1
  InitialCards <- MCDevices
INVARIANTS
  TypeOK
  JoinSafe
PROPERTIES
  StopCompletes
  CardsNoticed
  StartsUp
