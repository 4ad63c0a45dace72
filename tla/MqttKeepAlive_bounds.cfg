SPECIFICATION Spec
CONSTANTS
  Half = 2
  ReadWait = 4
  PingWait = 1
  QueueWait = 1
  TickModulus = 9
INVARIANTS TypeOK ExchangeInTime FailureNoticed
VIEW WithoutSilence
