SPECIFICATION Spec
CONSTANTS
  here = here
  card = card
  face = face
  File = {file}
  Place = {card, asset, face}
  Project = {here}
  Tab = {tab}
  NoProject = NoProject
  At <- MCAt
  Kind <- MCKind
  On <- MCOn
  Picture = {file}
  BatchSize = 2
  MostWaiting = 3
  MostCrashes = 1
INVARIANTS
  ScreensAreInStep
PROPERTIES
  PicturesAreMadeSmall
CHECK_DEADLOCK FALSE
