SPECIFICATION Spec
CONSTANTS
  Size = 2
  Byte <- MCByte
  Shapes <- MCOverlapping
  Unread = Unread
  NoByte = NoByte
PROPERTIES LastWriteLands
