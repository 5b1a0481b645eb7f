CONSTANTS
  Caller = {c1, c2, sweeper}
  Sweeper = sweeper
  Task = {t1, t2}
  NoCaller = NoCaller
  NoTask = NoTask
  IdleShutdown = TRUE
  Extensions = FALSE
  MaxLeaked = 1
  MaxTabs = 2
  Methods = {"create", "fetch", "delete", "reset"}
SPECIFICATION LifeSafe
SYMMETRY Symmetry
INVARIANTS
  LifeTypeOK
  
  ResidueOwned
  CountedUnlessTwice
PROPERTIES
  OnlyOwnerClosesTwice
  
