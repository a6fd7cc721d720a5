\* Two sessions, buffers and pipes of two, one byte from the first child and three
\* from the second, a fork that fails.
SPECIFICATION FairSpec
CONSTANTS
  Capacity = 2
  Buffer = 2
  PipeSize = 2
  MaxSessions = 2
  MaxOutput <- MCMaxOutput
  MaxForkFails = 1
INVARIANTS TypeOK ServedBothWays SessionsInOrder
PROPERTY SessionEnds
\* After the last bounded call nothing more need happen.
CHECK_DEADLOCK FALSE
