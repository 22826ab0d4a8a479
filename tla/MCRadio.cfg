SPECIFICATION Spec
CONSTANTS
  Bridges <- MCBridges
  Cards <- MCCards
  GlobalMode <- MCGlobalMode
  Reach <- MCReach
  LinkTypes <- MCLinkTypes
  Traffic <- MCTraffic
  Mtu = 40
  Lengths = {8, 10}
  SeqMod = 4
  MaxConfigs = 4
  RelayBound = 1
INVARIANTS
  TypeOK
  OtherSideSamePort
  WholeIfItFits
  GapsExact
\* The bounded packets are used up.
CHECK_DEADLOCK FALSE
