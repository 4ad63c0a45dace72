SPECIFICATION FairSpec
CONSTANTS
  recv = recv
  send = send
  Reader <- Readers
  Base = 2
  MaxDigits = 2
  BufLen <- Buffers
  Type <- Types
  Length <- Lengths
  Payload <- Payloads
  MaxUnread = 2
  MaxAfter = 0
CHECK_DEADLOCK FALSE
INVARIANTS TypeOK BufferHolds LengthSurvives
PROPERTIES PacketsComeWhole ReadsEnd
