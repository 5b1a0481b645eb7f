CONSTANTS
  Caller = {c1, c2, sweeper}
  Sweeper = sweeper
  Task = {t1, t2}
  NoCaller = NoCaller
  NoTask = NoTask
  IdleShutdown = FALSE
  Extensions = FALSE
  MaxLeaked = 0
  MaxTabs = 2
  Methods = {"create", "fetch"}
SPECIFICATION LifeSpec
PROPERTIES
  RequestsAnswered
  IdleTabGoes
  StaysUp
