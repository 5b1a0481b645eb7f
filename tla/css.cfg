CONSTANTS
  Root = root
  Style = {s1, s2}
  Host = {h1, h2}
  Closed = {h2}
  Plain = {}
  Readable = {s1}
  Adopting = {root, h1}
  MaxAttempts = {0, 2}
  MaxElements = 3
  NoDocument = NoDocument
SPECIFICATION FoldSpec
CHECK_DEADLOCK FALSE
INVARIANTS
  StylesInPlace
  
