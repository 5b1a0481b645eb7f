CONSTANTS
  Caller = {c1, c2, c3}
  Task = {t1, t2}
  NoCaller = NoCaller
  NoTask = NoTask
  IdleShutdown = TRUE
  Extensions = TRUE
  MaxLeaked = 1
SPECIFICATION PoolSpec
INVARIANTS
  PoolTypeOK
  ActiveCoversHeld
  LeaksOnlyByRaise
  NoTabLost
  TimersOwned
  IdleArmed
PROPERTIES
  ImplementsLease
  IdleShutsDown
  CallsEnd
