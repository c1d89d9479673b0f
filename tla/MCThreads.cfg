SPECIFICATION MCSpec
CONSTANTS
  mainThread = mainThread
  other = other
  dispatcher = dispatcher
  noThread = noThread
  e1 = e1
  e2 = e2
  timer = timer
  c1 = c1
  c2 = c2
  c3 = c3
  w1 = w1
  w2 = w2
  Main = mainThread
  Producers <- MCProducers
  Dispatcher = dispatcher
  NoThread = noThread
  Events <- MCEvents
  TimerEvent = timer
  MaxPending = 2
  MaxStarts = 2
  Conns <- MCConns
  None = None
  MaxReady = 2
  Workers <- MCWorkers
  MaxRequests = 2
CHECK_DEADLOCK FALSE
INVARIANTS
  HandOff
  TimerChain
  LineSound
  Accounted
PROPERTIES
  StopReturns
  ImplementsBus
  BusDrains
  OpenIsPinged
  StopSettles
  ImplementsLink
  LineReturns
  Answered
  PoolEnds
