\* Two cleanups list the same reservation.
CONSTANTS
  va = va  vb = vb  wa = wa  wb = wb
  Variants <- TwoVariants
  Workers <- TwoWorkers
  NOrders = 1
  NBatches = 1
  NReservations = 2
  MaxQty = 2
  MaxTime = 2
  TTLs = {1}
  BatchLimit = 1
SPECIFICATION Spec
INVARIANT ExpiredMetricExact
