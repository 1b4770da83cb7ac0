SPECIFICATION HalfSpec
CONSTANTS
  Row = {1, 2, 3, 4}
  Nobody = Nobody
  Step = 8
  Tight = 5
  MaxMoves = 3
  Screens = {"cards", "assets", "headings", "lists", "documents", "pictures"}
  Watched = {1, 2, 3}
  MostDrops = 2
  MostChanges = 2
CONSTRAINT Explored
INVARIANTS
  PositionsAreDistinct
  ScreensSettle
PROPERTIES
  LandsWhereAsked
  OthersKeepTheirOrder
  LandsWhereShown
CHECK_DEADLOCK FALSE
