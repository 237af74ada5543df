CONSTANTS
  Slots = {0, 1}
  MaxCycles = 2
SPECIFICATION FairSpec
INVARIANTS
  OneCycle
  RefsCountHolders
  NoTornHarvest
  IdleNotLost
  QuietAfterShutdown
PROPERTIES
  CyclesEnd
  ShutdownReturns
