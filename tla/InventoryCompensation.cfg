\* The reply of the commit of Tx 2 is lost.
CONSTANTS
  va = va  vb = vb  wa = wa  wb = wb
  Variants <- TwoVariants
  Workers <- NoWorkers
  NOrders = 2
  NBatches = 2
  NReservations = 1
  MaxQty = 2
  MaxTime = 0
  TTLs = {1}
  BatchLimit = 1
SPECIFICATION Spec
INVARIANT CompensationLogExact
