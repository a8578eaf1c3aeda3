SPECIFICATION OracleSpec
CONSTANTS
  Decks <- MCDecks
  Names = {"Ismaru", "Plains"}
  Database = {"Plains"}
  Costs = {"0", "1", "2", "W"}
  CostSize = 12
INVARIANTS
  OracleTypeOK
  ReaderMeansText
  ClientSeesTheCard
PROPERTIES
  ReadingEnds
CHECK_DEADLOCK FALSE
