\* The PTT key, a client's PTT commands and the SWR protection together, at any
\* time and with any delay.
SPECIFICATION TxRxSpec
CONSTANTS
  PeakRemoval = 1
  KeyEnabled = TRUE
INVARIANTS TxRxTypeOK LineFollowsState
PROPERTY LineSwitchedCold
