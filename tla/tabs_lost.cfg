CONSTANTS
  Caller = {c1, c2, sweeper}
  Sweeper = sweeper
  Task = {t1, t2}
  NoCaller = NoCaller
  NoTask = NoTask
  IdleShutdown = TRUE
  Extensions = FALSE
  MaxLeaked = 0
  MaxTabs = 2
  Methods = {"create", "fetch", "delete", "reset"}
SPECIFICATION LifeSafe
INVARIANT RegisteredTabKept
