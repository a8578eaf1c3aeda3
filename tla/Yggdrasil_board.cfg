SPECIFICATION Spec
CONSTANTS
  land = land
  walker = walker
  c1 = c1
  c2 = c2
  c3 = c3
  Permanents = {land, walker, c1, c2, c3}
  Table <- MCTable
INVARIANTS
  TypeOK
  LoopsComeToEachOnce
PROPERTIES
  ImplementsBattlefield
  LoopsEnd
