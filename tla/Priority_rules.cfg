SPECIFICATION FairSpec
CONSTANTS
  N = 3
  Lands = {l1, l2}
  Instants = {}
  Sorceries = {s1}
  Targets = {t}
  MaxAbilities = 1
INVARIANTS
  TypeOK
  SorceriesAreTheActivePlayers
  SorcerySpeedIsSpent
  OverIffWon
PROPERTIES
  ImplementsRules
  ChoicephaseReturns
CHECK_DEADLOCK FALSE
