SPECIFICATION DeliverySpec
CONSTANTS
  d1 = d1
  d2 = d2
  d3 = d3
  bad = bad
  pull = pull
  other = other
  Delivery = {d1, d2, d3, bad}
  Link = {pull, other}
  LinkOf <- MCLinkOf
  WantsSync = {d2, d3}
  Poison = {bad}
  Worker = {w1}
  BatchSize = 2
  MaxCrashes = 2
  Unsaid = Unsaid
INVARIANTS
  AnnouncedOnce
PROPERTIES
  EveryDeliveryIsRead
CHECK_DEADLOCK FALSE
