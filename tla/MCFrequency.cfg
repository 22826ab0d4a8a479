SPECIFICATION Spec
CONSTANTS
  c1 = c1
  c2 = c2
  Devices <- MCDevices
  Threads = {"t1", "t2"}
  NChannels = 3
  Supports <- MCSupports
  ConfFreqs <- MCConfFreqs
  MaxConfigs = 2
INVARIANTS
  CommonNeverRefused
  SettledAgrees
PROPERTIES
  RequestsEnd
