CONSTANTS
  Request = {d1, d2, s1}
  Doc = {d1, d2}
  NoLoader = NoLoader
  Modes = {"no_copy", "copy", "copy_and_retain"}
  MaxHops = 2
SPECIFICATION RecSpec
CHECK_DEADLOCK FALSE
INVARIANTS
  RecTypeOK
  PageRecorded
  Pruned
  CarriesItsRequest
  BuffersAsTold
PROPERTIES
  NoBodyAfterPrune
