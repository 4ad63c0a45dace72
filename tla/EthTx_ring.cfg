CONSTANTS
  Sender <- TwoSenders
  NumDesc = 2
  MaxFrames = 5
SPECIFICATION FairSpec
INVARIANTS TypeOK OneInside
PROPERTIES ImplementsFifo Transmitted SemaphoreComesBack
CHECK_DEADLOCK FALSE
