\* Every pair of requests of up to two lines, and a receipt at any time.
CONSTANTS
  va = va  vb = vb
  Variants <- TwoVariants
  NSessions = 2
  NBatches = 1
  NReservations = 2
  MaxLines = 2
  MaxQty = 1
SPECIFICATION LiveSpec
INVARIANTS TypeOK NoDoubleDeduction
PROPERTIES ImplementsContract SessionsEnd
CHECK_DEADLOCK FALSE
