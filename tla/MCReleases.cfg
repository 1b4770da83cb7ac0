SPECIFICATION Spec
CONSTANTS
  Release = {r1, r2, r3}
  LastIssued = 2
  Tag = {v1, v2}
  Words = {plain, corrected}
  Person = {u1}
  Hand = Hand
  Nothing = Nothing
  Refused = Refused
  MostReleases = 2
  MostBinned = 1
SYMMETRY ReleasesSymmetry
INVARIANTS
  HandsStopNoSync
PROPERTIES
  ASyncDestroysNoWriting
  ASyncLandsWhatItRead
CHECK_DEADLOCK FALSE
