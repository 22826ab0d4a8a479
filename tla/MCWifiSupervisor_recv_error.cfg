SPECIFICATION Spec
CONSTANTS
  both = both
  rel = rel
  Devices <- MCDevices
  Type <- MCType
  EventTags <- MCEventTags
  MaxQueue = 1
  MaxChanges = 0
  MaxErrors = 1
  MaxFailures = 0
  InitialCards <- MCDevices
PROPERTIES
  Reconnects
