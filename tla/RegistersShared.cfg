SPECIFICATION Spec
CONSTANTS
  Addr = {191}
  Byte <- MCByte
  Bit <- MCBit
  Unread = Unread
  Param <- MCParam
  Order <- MCOrder
  RegOf <- MCRegOf
  Mask <- MCMask
  Value = {"off", "on"}
  Code <- MCCode
  FirstValue = "off"
  Invalid = Invalid
  NotSaved = NotSaved
PROPERTIES OnlyOwnWrites
