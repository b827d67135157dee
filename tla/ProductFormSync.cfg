\* A call still under way overwrites what was typed meanwhile.
SPECIFICATION ProductFormSpec
CONSTANTS
  Combination = {b1, b2}
  Job = {j1, j2}
  MaxWork = 2
  MaxSyncs = 2
PROPERTY SyncKeepsPrices
CHECK_DEADLOCK FALSE
