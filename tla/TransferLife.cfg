\* Two requests for the status of one transfer from any status, an edit, and the
\* other writers of the stock.
CONSTANTS
  wa = wa  wb = wb  va = va
  Warehouses <- TwoWarehouses
  Variants <- OneVariant
  NTransfers = 1
  NCalls = 2
  NEdits = 1
  NConnections = 3
  MaxQty = 1
SPECIFICATION LiveSpec
INVARIANTS TypeOK StatusTellsStock NoLostWrite
PROPERTIES TransitionsEnd
