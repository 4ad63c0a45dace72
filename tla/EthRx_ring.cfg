CONSTANTS
  NumDesc = 3
  MailboxSize = 2
  PbufsRunOut = TRUE
  MaxFrames = 6
SPECIFICATION FairSpec
INVARIANTS TypeOK Drained
PROPERTIES InOrder TakenUnlessRefused
CHECK_DEADLOCK FALSE
