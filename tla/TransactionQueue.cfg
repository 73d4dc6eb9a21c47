\* Two orders for one SKU, with units for both, and nobody else but a receipt's
\* goods: the session that has sold is the only one that has committed.
CONSTANTS
  va = va  vb = vb
  Variants <- OneVariant
  NSessions = 2
  NBatches = 1
  NReservations = 1
  MaxLines = 1
  MaxQty = 3
SPECIFICATION Spec
PROPERTY OrdersQueueBehindLock
CHECK_DEADLOCK FALSE
