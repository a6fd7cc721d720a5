\* The reset of the control thread beside one writer and one reader.
SPECIFICATION Spec
CONSTANTS
  Max = 3
  MaxChunk = 2
  Writers = {uucico_read}
  Readers = {data_tx}
  MaxWritten = 4
  MaxPassed = 4
  MaxResets = 1
INVARIANT SizeCountsStored
\* The writers may have nothing more to put.
CHECK_DEADLOCK FALSE
