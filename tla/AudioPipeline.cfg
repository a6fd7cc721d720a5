\* Buffers of one block, half a block to a period, two flushes.
SPECIFICATION FairSpec
CONSTANTS
  Capacity = 2
  Period = 1
  Block = 2
  MaxSwitches = 1
INVARIANTS TypeOK TestedCallsNeverBlock ReadersSleepForCause
PROPERTY SoundFlows
