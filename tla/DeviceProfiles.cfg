SPECIFICATION Spec
CONSTANTS
  NoNumber = NoNumber
  NotANumber = NotANumber
  None = None
  EmptyId = ""
  Size = 256
  Tracked = {113, 191, 212}
  MaxAuditEntries = 2
  MaxAttempts = 3
  Unsafe = FALSE
  Firmwares = {"fw1", "fw3"}
  RawId = {"mine", "mi ne", " "}
  MaxEvents = 2
  Defaults <- MCDefaults
  Builtin <- MCBuiltin
  NormalId <- MCNormalId
  Requests <- MCRequests
  Blocks <- MCBlocks
  BitWrites <- MCBitWrites
INVARIANTS
  MemoryTypeOK
  AuditIsNewest
  InForceIsSelection
  UserListIsOnDisk
  PolicyOfProfile
  TelemetryNeverEdited
  ProfilesAgree
  LayoutsSound
PROPERTY ImplementsStore
CHECK_DEADLOCK FALSE
