SPECIFICATION ManaSpec
CONSTANTS
  Base = 8
  NbColors = 2
  MaxNumber = 8
  MaxSymbols = 2
INVARIANTS
  PoolTypeOK
  EnoughIffPayable
PROPERTY PaysTheCost
CHECK_DEADLOCK FALSE
