\* One variant, one channel: a price is set, expires, and is set again.
SPECIFICATION VariantsSpec
CHECK_DEADLOCK FALSE
CONSTANTS
  NVariants = 1  NVariantEdits = 1  Colors = {}  Urls = {}
  Channels = {1}  FirstChannel = 1  MaxPrice = 1
INVARIANTS
  SetPriceReplaces
