CONSTANTS
  Goto = {g1, g2}
  Creator = c
  Frame = {f}
  Nothing = Nothing
  MaxDownloads = 1
SPECIFICATION NavSafe
CHECK_DEADLOCK FALSE
INVARIANT NavTypeOK
PROPERTIES
  FreshReply
  
