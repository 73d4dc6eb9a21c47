\* Reservations: two workers race each other and releases by hand, each listing
\* shorter than the list of what has expired; and the contract of the stock pool.
CONSTANTS
  va = va  vb = vb  wa = wa  wb = wb
  Variants <- TwoVariants
  Workers <- TwoWorkers
  NOrders = 1
  NBatches = 1
  NReservations = 2
  MaxQty = 1
  MaxTime = 3
  TTLs = {1, 2}
  BatchLimit = 1
SPECIFICATION LiveSpec
INVARIANTS ReservedAccounted
PROPERTIES ImplementsContract ExpiredReleased
