\* Two requests for the status of one transfer.
CONSTANTS
  wa = wa  wb = wb  va = va
  Warehouses <- TwoWarehouses
  Variants <- OneVariant
  NTransfers = 1
  NCalls = 2
  NEdits = 0
  NConnections = 3
  MaxQty = 1
SPECIFICATION Spec
PROPERTY CompletedNeverCancelled
