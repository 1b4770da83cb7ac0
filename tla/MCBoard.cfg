SPECIFICATION Spec
CONSTANTS
  backlog = backlog
  done = done
  doing = doing
  Card = {k1, k2, k3}
  List = {backlog, done, doing}
  User = {u1, u2}
  FirstLists <- MCFirstLists
  WipLimits = {1}
  NoLimit = NoLimit
  Nowhere = Nowhere
  NotStarted = NotStarted
  Uses <- EitherUse
SYMMETRY BoardSymmetry
INVARIANTS
  ClosedMeansFinished
  OpenCardsAreOnTheBoard
PROPERTIES
  ArrivalsRespectTheLimit
CHECK_DEADLOCK FALSE
