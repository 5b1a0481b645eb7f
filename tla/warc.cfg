CONSTANTS
  Request = {d1, d2}
  Doc = {d1, d2}
  NoLoader = NoLoader
  Modes = {"no_copy", "copy", "copy_and_retain"}
  MaxHops = 0
  Reader = {x1, x2}
  NoReader = NoReader
  Jobs = {"rendered", "body", "other"}
SPECIFICATION ExportSafe
SYMMETRY Symmetry
CHECK_DEADLOCK FALSE
INVARIANTS
  BufferedServed
PROPERTIES
  ArchiveComplete
  
  RendersItsDocument
