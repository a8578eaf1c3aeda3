SPECIFICATION FairSpec
CONSTANTS
  Cards = {forest, bear, shock, wolf}
  NbAddresses = 4
  HandSize = 2
  MaxWire = 3
INVARIANTS
  TypeOK
  InStep
  ClientKnowsItsHand
PROPERTY AnswerComes
CHECK_DEADLOCK FALSE
