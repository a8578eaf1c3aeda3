SPECIFICATION FairSpec
CONSTANTS
  NbAgents = 2
  Clients = {c1, c2, c3}
  Nobody = Nobody
  DeckPackets = 2
INVARIANTS
  OneClientPerAgent
  NothingLostOnTheWay
  PlaysWithDecks
PROPERTY GameStarts
CHECK_DEADLOCK FALSE
