SPECIFICATION Spec
CONSTANTS
  MaxTyped = 1
  Opponents = {"opponent1"}
  OthersHand = 2
  Lines <- MCLines
  Cards = 3
  Creatures = 2
  Powers <- MCPowers
  Resolutions <- MCResolutions
CHECK_DEADLOCK FALSE
INVARIANTS
  TypeOK
  DamageWithinPower
  PlayersMatchWho
  WindowsKeepApart
PROPERTIES
  ChecklistReturnsMarked
