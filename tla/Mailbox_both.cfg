SPECIFICATION FairSpec
CONSTANTS
  p1 = p1
  p2 = p2
  f1 = f1
  f2 = f2
  a = a
  b = b
  Signal = Signal
  Poster <- Posters
  Fetcher <- Fetchers
  Priority <- Priorities
  Msg <- Messages
  MailboxSize = 2
INVARIANTS TypeOK MessagesAttended RoomAttended
PROPERTIES ImplementsFifo TimedFetchReturns
