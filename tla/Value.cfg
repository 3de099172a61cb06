\* Small widths for the integers; numbers from 3 on need an exponent.
CONSTANTS
  IntBits = 2
  LongBits = 4
  Large = 3
  Documents <- MCDocuments
SPECIFICATION Spec
PROPERTIES ReadsBack TornIsRefused RewritingIsStable
