\* VARA or ARDOP, chunks of up to two bytes for a modem that takes two.
SPECIFICATION FairSpec
CONSTANTS
  Modems = {"vara", "ardop"}
  MaxBuffer = 2
  Capacity = 2
  BufferSize = 2
  MaxPacket = 1
  MaxEvents = 4
  MaxUnread <- Unread
INVARIANTS TypeOK Counted CountsAreTrue OldBytesEmptied
PROPERTIES NotOverfilled ChunkGoesOut
\* The modem may never be called.
CHECK_DEADLOCK FALSE
