CONSTANTS
  lwip_cyclic_timers <- TwoCyclic
  arp_timer = "arp_timer"
  tcp_timer = "tcp_tmr"
  Interval <- Intervals
  PoolSize = 5
  MaxTimeout = 7
  MaxDelay = 3
SPECIFICATION FairSpec
INVARIANTS TypeOK NothingForgotten NotTooLate
PROPERTIES ImplementsAlarms PeriodicGoOn
