------------------------------ MODULE EcMemory ------------------------------
(***************************************************************************)
(* Raw access to the EC memory over the bus: service/ecmemoryservice.cpp   *)
(* behind the endpoint of dbusendpoints.cpp, with the allowlist and the    *)
(* audit log of ecwritepolicy.cpp.  The ranges allowed are those of the    *)
(* device profile in force; DeviceProfiles sets them.                      *)
(***************************************************************************)
EXTENDS ProfileLayout, FiniteSets

CONSTANTS Size,            \* of the EC memory
          Tracked,         \* the addresses whose cells are followed
          MaxAuditEntries, \* maxAuditEntries of the policy
          MaxAttempts,     \* bound: raw writes that pass validation
          Blocks,          \* the writes of bytes asked for: offset, bytes
          BitWrites,       \* the writes of bits asked for: offset, mask, value
          Unsafe,          \* MSICONTROLLER_ALLOW_UNSAFE_EC_WRITES is set
          NotANumber       \* an argument that is no int, or no byte

ASSUME SizeAssumption == Size \in Nat /\ Tracked \subseteq 0 .. Size - 1
ASSUME AuditAssumption == MaxAuditEntries \in Nat \ {0} /\ MaxAttempts \in Nat
ASSUME UnsafeAssumption == Unsafe \in BOOLEAN
ASSUME ArgumentsAssumption ==
    /\ NotANumber \notin Int
    /\ \A w \in Blocks : /\ w.offset \in Int \union {NotANumber}
                         /\ w.bytes \in Seq((SUBSET (0 .. 7)) \union {NotANumber})
    /\ \A w \in BitWrites : w.offset \in Int \union {NotANumber}

VARIABLES loaded,   \* the shadow of the EC memory has been read (else its size is 0)
          cell,     \* its tracked cells, as sets of bits
          allowed,  \* mAllowedRanges
          audit,    \* mAuditLog
          attempts, \* history: every raw write that passed validation
          edited    \* history: the tracked cells raw writes reached under these ranges

mvars == <<loaded, cell, allowed, audit, attempts, edited>>

Byte == SUBSET (0 .. 7)
BufferSize == IF loaded THEN Size ELSE 0

-----------------------------------------------------------------------------
(* extractInt and variantListToBytes of the endpoint *)
Extracted(arguments) == \A i \in DOMAIN arguments : arguments[i] # NotANumber

ValidRange(offset, length) ==
    /\ offset >= 0 /\ length >= 0
    /\ offset <= BufferSize /\ length <= BufferSize - offset

PolicyAllowsFirst(offset, length) == Unsafe \/ Allows(allowed, offset, 1) \* mutant
PolicyAllows(offset, length) == Unsafe \/ Allows(allowed, offset, length)

RecordKeepsAll(log, entry) == Append(log, entry) \* mutant: no limit
RecordDropsFirst(log, entry) == \* mutant: drops an entry before the log is full
    IF Len(log) + 1 >= MaxAuditEntries THEN Append(Tail(log), entry) ELSE Append(log, entry)
(* recordWrite keeps the newest maxAuditEntries. *)
Recorded(log, entry) ==
    IF Len(log) = MaxAuditEntries THEN Append(Tail(log), entry) ELSE Append(log, entry)

(* Both writes end here: refused and recorded, or queued and recorded. *)
Attempt(operation, offset, length, written) ==
    LET reached == Tracked \cap (offset .. offset + length - 1)
        ok      == PolicyAllows(offset, length)
        entry   == [operation |-> operation, offset |-> offset, length |-> length, ok |-> ok]
    IN  /\ Len(attempts) < MaxAttempts
        /\ audit' = Recorded(audit, entry)
        /\ attempts' = Append(attempts, entry)
        /\ cell' = IF ok THEN [a \in Tracked |-> IF a \in reached THEN written[a] ELSE cell[a]]
                         ELSE cell
        /\ edited' = IF ok THEN edited \union reached ELSE edited
        /\ UNCHANGED <<loaded, allowed>>

-----------------------------------------------------------------------------
MemoryInit ==
    /\ loaded = FALSE
    /\ cell = [a \in Tracked |-> {}]
    /\ allowed = {}
    /\ audit = <<>> /\ attempts = <<>> /\ edited = {}

WriteMemory(offset, bytes) ==
    /\ Extracted(<<offset>>) /\ Extracted(bytes)
    /\ ValidRange(offset, Len(bytes))
    /\ Attempt("writeBytes", offset, Len(bytes),
               [a \in Tracked \cap (offset .. offset + Len(bytes) - 1) |-> bytes[a - offset + 1]])

(* Read-modify-write of the shadow. *)
WriteMemoryBits(offset, mask, value) ==
    /\ Extracted(<<offset, mask, value>>)
    /\ ValidRange(offset, 1)
    /\ mask \in Byte /\ value \in Byte
    /\ Attempt("writeBits", offset, 1,
               [a \in Tracked \cap {offset} |-> (cell[a] \ mask) \union (value \cap mask)])

(* The shadow is read, perhaps for the first time; firmware or parameters   *)
(* changed a cell.                                                          *)
Poll(a, byte) ==
    /\ loaded' = TRUE
    /\ cell' = [cell EXCEPT ![a] = byte]
    /\ UNCHANGED <<allowed, audit, attempts, edited>>

-----------------------------------------------------------------------------
MemoryTypeOK ==
    /\ loaded \in BOOLEAN
    /\ cell \in [Tracked -> Byte]
    /\ edited \subseteq Tracked
    /\ Len(audit) <= MaxAuditEntries /\ Len(attempts) <= MaxAttempts

(* The log at its limit: it holds the newest attempts, refused ones too, in *)
(* their order and without a gap, and everything while there is room.       *)
AuditIsNewest ==
    LET kept == IF Len(attempts) < MaxAuditEntries THEN Len(attempts) ELSE MaxAuditEntries
    IN  audit = SubSeq(attempts, Len(attempts) - kept + 1, Len(attempts))
=============================================================================
