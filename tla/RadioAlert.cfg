\* A PTT_ON between the return of tr_switch and the protection flag.
SPECIFICATION TxRxSpec
CONSTANTS
  PeakRemoval = 1
  KeyEnabled = TRUE
INVARIANT TxShutAtAlert
