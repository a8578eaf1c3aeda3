SPECIFICATION FairSpec
CONSTANTS
  l1 = l1  l2 = l2  c1 = c1  k1 = k1  m1 = m1  c2 = c2  c3 = c3
  N = 2
  Lands = {l1, l2, m1}
  Instants = {k1}
  Sorceries = {c1, c2, c3}
  Creatures = {c1, c2, c3}
  OtherPermanents = {}
  Owner <- mcOwner
  CostOf <- mcCostOf
  EffectOf <- mcEffectOf
  AbilityOf <- mcAbilityOf
  AbilityCost <- mcAbilityCost
  Power <- mcPower
  Toughness <- mcToughness
  InitialLife = 2
  OpeningHand = 2
  Amount = 1
  MaxAbilities = 1
INVARIANTS
  TypeOK
  CardsConserved
  LandsPerTurn
  DeathsNoticedInTime
  CombatEnds
PROPERTY GameEnds
CHECK_DEADLOCK FALSE
