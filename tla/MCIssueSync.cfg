SPECIFICATION Spec
CONSTANTS
  MaxCards = 3
  MaxIssues = 3
  MaxActs = 3
  MaxStops = 1
  PageSize = 9
  OpenOnly = FALSE
  Interrupts = {TRUE, FALSE}
  Private = {}
  Arriving = Arriving
  Middle = Middle
  Finishing = Finishing
  NoLabel = NoLabel
INVARIANTS
  OneCardPerIssue
  InStep
  DeletedIsNotMadeAgain
PROPERTIES
  OnlyTheForgeRewordsIt
CHECK_DEADLOCK FALSE
