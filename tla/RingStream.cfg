\* One writer and one reader, no reset: a ring of 4 with chunks of up to 3.
SPECIFICATION FairSpec
CONSTANTS
  Max = 4
  MaxChunk = 3
  Writers = {uucico_read}
  Readers = {data_tx}
  MaxWritten = 9
  MaxPassed = 9
  MaxResets = 0
INVARIANTS TypeOK SizeCountsStored InOrder
PROPERTY ImplementsStream
\* The writers may have nothing more to put.
CHECK_DEADLOCK FALSE
