CONSTANTS
  Tab = {a, b}
  Guid = {g1, g2}
  Client = {x1, x2}
  Nobody = Nobody
  OneTab = a
  OneGuid = g1
SPECIFICATION DownSpec
CONSTRAINT Small
SYMMETRY Symmetry
CHECK_DEADLOCK FALSE
INVARIANTS
  TypeGivenOnce
  EndIsFinal
  NothingKept
  StaysDeleted
