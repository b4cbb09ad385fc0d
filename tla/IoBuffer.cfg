SPECIFICATION FairSpec
CONSTANTS
  Size = 4
  Byte <- MCByte
  Shapes <- MCShapes
  Unread = Unread
  NoByte = NoByte
INVARIANTS TypeOK NothingForgotten
PROPERTIES LastWriteLands SyncsAgain ImplementsView
