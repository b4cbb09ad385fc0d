------------------------ MODULE DeviceProfilesProofs ------------------------
(***************************************************************************)
(* Proofs about DeviceProfiles, for every set of built-in profiles, of     *)
(* edits asked for and of raw writes, and every size of the log: the       *)
(* profile in force is the one the file selects, the write policy is its   *)
(* own and never lets raw writes reach telemetry, the log is complete, and *)
(* the client comes to show what the service has.                          *)
(***************************************************************************)
EXTENDS DeviceProfiles, SequenceTheorems, TLAPS

Entry == [operation : {"writeBytes", "writeBits"}, offset : Int, length : Nat, ok : BOOLEAN]

(* The file is a record, so that its fields can be set one by one. *)
DiskIsFile == disk = [readable |-> disk.readable, profiles |-> disk.profiles]

PolicyInForce == allowed = IF inForce = NoConfig THEN {} ELSE RangesOf(inForce)

LogsTyped == audit \in Seq(Entry) /\ attempts \in Seq(Entry)

TelemetryKept ==
    ~Unsafe /\ TelemetrySafe(inForce)
      => edited \cap {r.address : r \in Telemetry(inForce)} = {}

Repository == DiskIsFile /\ UserListIsOnDisk /\ InForceIsSelection
Log == LogsTyped /\ MemoryTypeOK /\ AuditIsNewest
IInv == Repository /\ PolicyInForce /\ TelemetryKept /\ Log

-----------------------------------------------------------------------------
(* The layout: what the parameters of a profile write, its policy allows.  *)

LEMMA NumbersKey ==
  ASSUME NEW config, NEW key, NEW max \in Nat, NEW a \in Numbers(config, key, max)
  PROVE  key \in DOMAIN config /\ config[key] = a /\ a \in 0 .. max
BY Zenon DEF Numbers

(* A configuration's key of the policy is a range of its own. *)
LEMMA KeyAllowed ==
  ASSUME NEW config, NEW key \in PolicyKeys, NEW a \in Addresses(config, key)
  PROVE  Allows(RangesOf(config), a, 1)
<1>1. key \in DOMAIN config /\ config[key] = a /\ a \in 0 .. 65535
  <2> DEFINE max == 65535
  <2>1. a \in Numbers(config, key, max)
    BY DEF Addresses
  <2>2. max \in Nat
    OBVIOUS
  <2> HIDE DEF max
  <2>3. key \in DOMAIN config /\ config[key] = a /\ a \in 0 .. max
    BY <2>1, <2>2, NumbersKey
  <2> QED
    BY <2>3 DEF max
<1>2. AddressRange(config[key], 1, key) \in RangesOf(config)
  <2>1. key \in {k \in PolicyKeys \cap DOMAIN config : config[k] \in Int}
    BY <1>1
  <2> QED
    BY <2>1, Zenon DEF RangesOf
<1> DEFINE range == AddressRange(a, 1, key)
<1>3. range.offset = a /\ range.length = 1
  BY DEF AddressRange
<1>4. range \in RangesOf(config)
  BY <1>1, <1>2
<1> HIDE DEF range
<1>5. /\ a \in Int
      /\ a >= range.offset /\ a + 1 <= range.offset + range.length
  BY <1>1, <1>3
<1> QED
  BY <1>4, <1>5 DEF Allows

LEMMA RegisterFields ==
  ASSUME NEW name, NEW a, NEW mask, NEW codes
  PROVE  Register(name, a, mask, codes).address = a
BY DEF Register

LEMMA RegistersAt ==
  ASSUME NEW name, NEW addresses, NEW mask, NEW codes,
         NEW r \in {Register(name, a, mask, codes) : a \in addresses}
  PROVE  r.address \in addresses
<1>1. PICK a \in addresses : r = Register(name, a, mask, codes)
  OBVIOUS
<1> QED
  BY <1>1, RegisterFields

LEMMA CurvePointsAt ==
  ASSUME NEW name, NEW first \in Int, NEW points \in Int, NEW max,
         NEW r \in CurvePoints(name, first, points, max)
  PROVE  r.address \in first .. first + points - 1
<1> DEFINE codes == [v \in {0, max} |-> v]
<1>1. r \in {Register(<<name, i>>, first + i, 255, codes) : i \in 0 .. points - 1}
  BY DEF CurvePoints
<1> HIDE DEF codes
<1>2. PICK i \in 0 .. points - 1 : r = Register(<<name, i>>, first + i, 255, codes)
  BY <1>1
<1>3. r.address = first + i
  BY <1>2, RegisterFields
<1> QED
  BY <1>3

(* The fixed ranges are those of the points of the curves. *)
LEMMA CurvesAllowed ==
  ASSUME NEW config, NEW r \in FanCurves
  PROVE  Allows(RangesOf(config), r.address, 1)
<1>1. ASSUME NEW first \in Nat, NEW length \in Nat, NEW label,
             AddressRange(first, length, label) \in RangesOf(config),
             r.address \in first .. first + length - 1
      PROVE  Allows(RangesOf(config), r.address, 1)
  <2> DEFINE range == AddressRange(first, length, label)
  <2>1. range \in RangesOf(config) /\ range.offset = first /\ range.length = length
    BY <1>1 DEF AddressRange
  <2>2. r.address >= range.offset /\ r.address + 1 <= range.offset + range.length
    BY <1>1, <2>1
  <2> QED
    BY <2>1, <2>2 DEF Allows
<1>2. CASE r \in CurvePoints("FanSetSpeedCpu", 114, 7, 150)
  <2>1. r.address \in 114 .. 114 + 7 - 1
    BY <1>2, CurvePointsAt
  <2>2. AddressRange(114, 7, "CPU speeds") \in RangesOf(config)
    BY DEF RangesOf
  <2> QED
    BY <1>1, <2>1, <2>2
<1>3. CASE r \in CurvePoints("FanSetSpeedGpu", 138, 7, 150)
  <2>1. r.address \in 138 .. 138 + 7 - 1
    BY <1>3, CurvePointsAt
  <2>2. AddressRange(138, 7, "GPU speeds") \in RangesOf(config)
    BY DEF RangesOf
  <2> QED
    BY <1>1, <2>1, <2>2
<1>4. CASE r \in CurvePoints("FanSetTempCpu", 106, 6, 100)
  <2>1. r.address \in 106 .. 106 + 6 - 1
    BY <1>4, CurvePointsAt
  <2>2. AddressRange(106, 6, "CPU temperatures") \in RangesOf(config)
    BY DEF RangesOf
  <2> QED
    BY <1>1, <2>1, <2>2
<1>5. CASE r \in CurvePoints("FanSetTempGpu", 130, 6, 100)
  <2>1. r.address \in 130 .. 130 + 6 - 1
    BY <1>5, CurvePointsAt
  <2>2. AddressRange(130, 6, "GPU temperatures") \in RangesOf(config)
    BY DEF RangesOf
  <2> QED
    BY <1>1, <2>1, <2>2
<1> QED
  BY <1>2, <1>3, <1>4, <1>5 DEF FanCurves

(* A setting's register lies at the address of a key of the policy. *)
LEMMA OneOfSeven ==
  ASSUME NEW A, NEW B, NEW C, NEW D, NEW E, NEW F, NEW G, NEW r \in UNION {A, B, C, D, E, F, G}
  PROVE  r \in A \/ r \in B \/ r \in C \/ r \in D \/ r \in E \/ r \in F \/ r \in G
BY Zenon

LEMMA SwitchKey ==
  ASSUME NEW config, NEW r \in Switches(config)
  PROVE  \E key \in PolicyKeys : r.address \in Addresses(config, key)
<1>1. ASSUME NEW key, NEW maskKey, NEW off, NEW on, r \in Enable(config, key, maskKey, off, on)
      PROVE  r.address \in Addresses(config, key)
  BY <1>1, RegisterFields DEF Enable
<1>2. \/ r \in Enable(config, "UsbPowerShareEc", "", 8, 40)
      \/ r \in Enable(config, "CoolerBoostEc", "CoolerBoostMask", 0, 128)
      \/ r \in Enable(config, "WebCamEc", "WebCamMask", 0, 255)
      \/ r \in Enable(config, "WebCamBlockEc", "WebCamMask", 0, 255)
      \/ r \in Enable(config, "SuperBatteryEc", "SuperBatteryMask", 0, 255)
      \/ r \in Enable(config, "MicMuteEc", "LedsMask", 0, 255)
      \/ r \in Enable(config, "MuteLedEc", "LedsMask", 0, 255)
  <2> DEFINE A == Enable(config, "UsbPowerShareEc", "", 8, 40)
             B == Enable(config, "CoolerBoostEc", "CoolerBoostMask", 0, 128)
             C == Enable(config, "WebCamEc", "WebCamMask", 0, 255)
             D == Enable(config, "WebCamBlockEc", "WebCamMask", 0, 255)
             E == Enable(config, "SuperBatteryEc", "SuperBatteryMask", 0, 255)
             F == Enable(config, "MicMuteEc", "LedsMask", 0, 255)
             G == Enable(config, "MuteLedEc", "LedsMask", 0, 255)
  <2>1. r \in UNION {A, B, C, D, E, F, G}
    BY DEF Switches
  <2> HIDE DEF A, B, C, D, E, F, G
  <2>2. r \in A \/ r \in B \/ r \in C \/ r \in D \/ r \in E \/ r \in F \/ r \in G
    BY <2>1, OneOfSeven
  <2> QED
    BY <2>2 DEF A, B, C, D, E, F, G
<1>3. \/ r.address \in Addresses(config, "UsbPowerShareEc")
      \/ r.address \in Addresses(config, "CoolerBoostEc")
      \/ r.address \in Addresses(config, "WebCamEc")
      \/ r.address \in Addresses(config, "WebCamBlockEc")
      \/ r.address \in Addresses(config, "SuperBatteryEc")
      \/ r.address \in Addresses(config, "MicMuteEc")
      \/ r.address \in Addresses(config, "MuteLedEc")
  <2>1. CASE r \in Enable(config, "UsbPowerShareEc", "", 8, 40)
    BY <1>1, <2>1, Zenon
  <2>2. CASE r \in Enable(config, "CoolerBoostEc", "CoolerBoostMask", 0, 128)
    BY <1>1, <2>2, Zenon
  <2>3. CASE r \in Enable(config, "WebCamEc", "WebCamMask", 0, 255)
    BY <1>1, <2>3, Zenon
  <2>4. CASE r \in Enable(config, "WebCamBlockEc", "WebCamMask", 0, 255)
    BY <1>1, <2>4, Zenon
  <2>5. CASE r \in Enable(config, "SuperBatteryEc", "SuperBatteryMask", 0, 255)
    BY <1>1, <2>5, Zenon
  <2>6. CASE r \in Enable(config, "MicMuteEc", "LedsMask", 0, 255)
    BY <1>1, <2>6, Zenon
  <2>7. CASE r \in Enable(config, "MuteLedEc", "LedsMask", 0, 255)
    BY <1>1, <2>7, Zenon
  <2> QED
    BY <1>2, <2>1, <2>2, <2>3, <2>4, <2>5, <2>6, <2>7, Zenon
<1> QED
  BY <1>3 DEF PolicyKeys

LEMMA ModeKey ==
  ASSUME NEW config, NEW key, NEW available, NEW r \in Modes(config, key, available)
  PROVE  r.address \in Addresses(config, key)
<1> DEFINE codes == [mode \in {m \in DOMAIN config[available] : config[available][m] \in 0 .. 255}
                        |-> config[available][mode]]
<1>1. r \in {Register(key, a, 255, codes) : a \in Addresses(config, key)}
  BY DEF Modes
<1> HIDE DEF codes
<1> QED
  BY <1>1, RegistersAt

LEMMA SettingKey ==
  ASSUME NEW config, NEW r \in Settings(config)
  PROVE  \E key \in PolicyKeys : r.address \in Addresses(config, key)
<1>1. CASE r \in BatteryThreshold(config)
  <2> DEFINE codes == [v \in {50, 70, 90} |-> v]
  <2>1. r \in {Register("BatteryThresholdEc", a, 127, codes)
                  : a \in Addresses(config, "BatteryThresholdEc")}
    BY <1>1 DEF BatteryThreshold
  <2> HIDE DEF codes
  <2>2. r.address \in Addresses(config, "BatteryThresholdEc")
    BY <2>1, RegistersAt
  <2> QED
    BY <2>2 DEF PolicyKeys
<1>2. CASE r \in KeyboardBacklightMode(config)
  <2>1. r.address \in Addresses(config, "KeyboardBacklightModeEc")
    BY <1>2, RegisterFields DEF KeyboardBacklightMode
  <2> QED
    BY <2>1 DEF PolicyKeys
<1>3. CASE r \in KeyboardBacklight(config)
  <2> DEFINE start == IF Numbers(config, "KeyboardBacklightStartState", 255) = {} THEN 0
                      ELSE config["KeyboardBacklightStartState"]
             codes == [i \in 0 .. 3 |-> (start + i) % 256]
  <2>1. r \in {Register("KeyboardBacklightEc", a, 255, codes)
                  : a \in Addresses(config, "KeyboardBacklightEc")}
    BY <1>3 DEF KeyboardBacklight
  <2> HIDE DEF codes
  <2>2. r.address \in Addresses(config, "KeyboardBacklightEc")
    BY <2>1, RegistersAt
  <2> QED
    BY <2>2 DEF PolicyKeys
<1>4. CASE r \in FnSuperSwap(config)
  <2>1. r.address \in Addresses(config, "FnSuperSwapEc")
    BY <1>4, RegisterFields DEF FnSuperSwap
  <2> QED
    BY <2>1 DEF PolicyKeys
<1>5. CASE r \in Modes(config, "FanModeEc", "FanModeAvailable")
  <2>1. r.address \in Addresses(config, "FanModeEc")
    BY <1>5, ModeKey
  <2> QED
    BY <2>1 DEF PolicyKeys
<1>6. CASE r \in Modes(config, "ShiftModeEc", "ShiftModeAvailable")
  <2>1. r.address \in Addresses(config, "ShiftModeEc")
    BY <1>6, ModeKey
  <2> QED
    BY <2>1 DEF PolicyKeys
<1> QED
  BY <1>1, <1>2, <1>3, <1>4, <1>5, <1>6 DEF Settings

(* The factory and the policy agree on every configuration, whatever its    *)
(* texts: each register a parameter writes may be written raw too           *)
(* (ecparameterfactory.cpp:216-365, ecwritepolicy.cpp:130-165).             *)
THEOREM FactoryAndPolicyAgree ==
  ASSUME NEW config
  PROVE  SameReach(config)
<1> SUFFICES ASSUME NEW r \in Writable(config)
             PROVE  Allows(RangesOf(config), r.address, 1)
  BY DEF SameReach
<1>1. r \notin Telemetry(config)
  <2>1. ~r.readOnly
    BY Zenon DEF Writable
  <2>2. \A key : r \in SimpleRange(config, key) => r.readOnly
    BY DEF SimpleRange, ReadOnlyRegister
  <2> QED
    BY <2>1, <2>2, Zenon DEF Telemetry
<1>2. r \in Switches(config) \union Settings(config) \union FanCurves
  BY <1>1, Zenon DEF Writable, ProfileParameters
<1>3. CASE r \in Switches(config)
  BY <1>3, SwitchKey, KeyAllowed
<1>4. CASE r \in Settings(config)
  BY <1>4, SettingKey, KeyAllowed
<1>5. CASE r \in FanCurves
  BY <1>5, CurvesAllowed
<1> QED
  BY <1>2, <1>3, <1>4, <1>5

(* Where a block of bytes may be written, each of them may be. *)
LEMMA BytesAllowed ==
  ASSUME NEW config, NEW offset \in Int, NEW length \in Nat,
         Allows(RangesOf(config), offset, length), NEW a \in offset .. offset + length - 1
  PROVE  Allows(RangesOf(config), a, 1)
<1>1. ASSUME NEW range \in RangesOf(config) PROVE range.offset \in Int /\ range.length \in Int
  <2>1. \/ range \in {AddressRange(config[key], 1, key) :
                         key \in {k \in PolicyKeys \cap DOMAIN config : config[k] \in Int}}
        \/ range = AddressRange(106, 6, "CPU temperatures")
        \/ range = AddressRange(114, 7, "CPU speeds")
        \/ range = AddressRange(130, 6, "GPU temperatures")
        \/ range = AddressRange(138, 7, "GPU speeds")
    BY Zenon DEF RangesOf
  <2>2. ASSUME NEW o \in Int, NEW l \in Int, NEW label, range = AddressRange(o, l, label)
        PROVE  range.offset \in Int /\ range.length \in Int
    BY <2>2 DEF AddressRange
  <2>3. CASE range \in {AddressRange(config[key], 1, key) :
                            key \in {k \in PolicyKeys \cap DOMAIN config : config[k] \in Int}}
    <3>1. PICK key \in {k \in PolicyKeys \cap DOMAIN config : config[k] \in Int} :
                   range = AddressRange(config[key], 1, key)
      BY <2>3
    <3>2. config[key] \in Int /\ 1 \in Int
      OBVIOUS
    <3> QED
      BY <3>1, <3>2, <2>2
  <2>4. CASE range = AddressRange(106, 6, "CPU temperatures")
    <3>1. range.offset = 106 /\ range.length = 6
      BY <2>4 DEF AddressRange
    <3> QED
      BY <3>1
  <2>5. CASE range = AddressRange(114, 7, "CPU speeds")
    <3>1. range.offset = 114 /\ range.length = 7
      BY <2>5 DEF AddressRange
    <3> QED
      BY <3>1
  <2>6. CASE range = AddressRange(130, 6, "GPU temperatures")
    <3>1. range.offset = 130 /\ range.length = 6
      BY <2>6 DEF AddressRange
    <3> QED
      BY <3>1
  <2>7. CASE range = AddressRange(138, 7, "GPU speeds")
    <3>1. range.offset = 138 /\ range.length = 7
      BY <2>7 DEF AddressRange
    <3> QED
      BY <3>1
  <2> QED
    BY <2>1, <2>3, <2>4, <2>5, <2>6, <2>7
<1>2. PICK range \in RangesOf(config) : /\ offset >= range.offset
                                        /\ offset + length <= range.offset + range.length
  BY DEF Allows
<1>3. a >= range.offset /\ a + 1 <= range.offset + range.length
  BY <1>1, <1>2
<1> QED
  BY <1>3 DEF Allows

(* A configuration always has the keys of the defaults. *)
LEMMA ConfigIsSome ==
  ASSUME NEW profile
  PROVE  Config(profile) # NoConfig
<1>1. DOMAIN Config(profile) = DOMAIN Defaults \union DOMAIN profile.values
  BY DEF Config
<1>2. DOMAIN NoConfig = {}
  BY DEF NoConfig
<1> QED
  BY <1>1, <1>2, DefaultsAssumption
-----------------------------------------------------------------------------
(* The steps that leave the invariant's variables alone. *)
Untouched == UNCHANGED <<disk, user, running, applier, active, inForce, allowed,
                         edited, loaded, cell, audit, attempts, fw>>

LEMMA QuietStep ==
  ASSUME IInv, Untouched
  PROVE  IInv'
<1> USE DEF Untouched
<1>1. Repository'
  BY DEF IInv, Repository, DiskIsFile, UserListIsOnDisk, InForceIsSelection, Selected, Matching
<1>2. PolicyInForce' /\ TelemetryKept'
  BY DEF IInv, PolicyInForce, TelemetryKept
<1>3. Log'
  BY DEF IInv, Log, LogsTyped, MemoryTypeOK, AuditIsNewest
<1> QED
  BY <1>1, <1>2, <1>3 DEF IInv

(* Which profile the lists select depends on the machine's firmware only. *)
LEMMA SameSelection ==
  ASSUME fw' = fw, NEW users
  PROVE  Selected(users)' = Selected(users)
BY DEF Selected, Matching

(* A save or a removal: the file and the lists change together or not at   *)
(* all, and what is applied is selected from the new lists.                *)
LEMMA ChangedKeeps ==
  ASSUME IInv, NEW users, NEW asked, Changed(users, asked),
         UNCHANGED <<fw, running, applier, loaded, memoryRest>>
  PROVE  IInv'
<1> USE DEF IInv
<1>1. CASE Written(users) /\ Applied(users)
  <2>1. disk' = [readable |-> TRUE, profiles |-> users] /\ user' = users
    BY <1>1 DEF Written
  <2>2. DiskIsFile' /\ UserListIsOnDisk'
    BY <2>1 DEF DiskIsFile, UserListIsOnDisk
  <2>3. CASE Applies(users)
    <3>1. /\ active' = <<Selected(users).id, Selected(users).source>>
          /\ inForce' = Config(Selected(users))
          /\ allowed' = RangesOf(Config(Selected(users)))
          /\ edited' = {}
      BY <1>1, <2>3 DEF Applied
    <3>2. InForceIsSelection'
      BY <2>1, <3>1 DEF InForceIsSelection, Selected, Matching
    <3>3. PolicyInForce' /\ TelemetryKept'
      BY <3>1, ConfigIsSome DEF PolicyInForce, TelemetryKept
    <3>4. Log'
      BY <3>1 DEF Log, LogsTyped, MemoryTypeOK, AuditIsNewest, memoryRest
    <3> QED
      BY <2>2, <3>2, <3>3, <3>4 DEF Repository
  <2>4. CASE ~Applies(users)
    <3>1. UNCHANGED force
      BY <1>1, <2>4 DEF Applied
    <3>2. InForceIsSelection'
      BY <2>1, <2>4 DEF InForceIsSelection, Applies, Selected, Matching
    <3>3. PolicyInForce' /\ TelemetryKept'
      BY <3>1 DEF PolicyInForce, TelemetryKept, force
    <3>4. Log'
      BY <3>1 DEF Log, LogsTyped, MemoryTypeOK, AuditIsNewest, memoryRest, force
    <3> QED
      BY <2>2, <3>2, <3>3, <3>4 DEF Repository
  <2> QED
    BY <2>3, <2>4
<1>2. CASE NotWritten(users) /\ UNCHANGED force
  <2>1. disk' = disk /\ user' = Loaded
    BY <1>2 DEF NotWritten
  <2>2. DiskIsFile' /\ UserListIsOnDisk'
    BY <2>1 DEF Repository, DiskIsFile, UserListIsOnDisk, Loaded
  <2>3. InForceIsSelection'
    BY <1>2, <2>1 DEF Repository, InForceIsSelection, force, Selected, Matching
  <2>4. PolicyInForce' /\ TelemetryKept'
    BY <1>2 DEF PolicyInForce, TelemetryKept, force
  <2>5. Log'
    BY <1>2 DEF Log, LogsTyped, MemoryTypeOK, AuditIsNewest, memoryRest, force
  <2> QED
    BY <2>2, <2>3, <2>4, <2>5 DEF Repository
<1> QED
  BY <1>1, <1>2 DEF Changed

LEMMA RefusedKeeps ==
  ASSUME IInv, UNCHANGED <<repo, force>>, UNCHANGED <<fw, running, applier, loaded, memoryRest>>
  PROVE  IInv'
<1>1. Untouched
  BY DEF Untouched, repo, force, memoryRest
<1> QED
  BY <1>1, QuietStep

LEMMA EditKeeps ==
  ASSUME IInv, NEW request, NEW asked,
         SaveProfile(request, asked) \/ RemoveProfile(request, asked),
         UNCHANGED <<fw, running, applier, loaded, memoryRest>>
  PROVE  IInv'
<1>1. CASE SaveProfile(request, asked)
  <2>1. \/ Refused(asked)
        \/ Changed(Saved(UserProfile(NormalId[request.id], request.firmware, request.values)), asked)
    BY <1>1 DEF SaveProfile
  <2> QED
    BY <2>1, ChangedKeeps, RefusedKeeps DEF Refused
<1>2. CASE RemoveProfile(request, asked)
  <2>1. Refused(asked) \/ Changed(Removed(NormalId[request.id]), asked)
    BY <1>2 DEF RemoveProfile
  <2> QED
    BY <2>1, ChangedKeeps, RefusedKeeps DEF Refused
<1> QED
  BY <1>1, <1>2

-----------------------------------------------------------------------------
(* The log: dropping the first entry of a full one keeps the newest. *)
Newest(s) == LET kept == IF Len(s) < MaxAuditEntries THEN Len(s) ELSE MaxAuditEntries
             IN  SubSeq(s, Len(s) - kept + 1, Len(s))

LEMMA NewestKept ==
  ASSUME NEW s \in Seq(Entry), NEW e \in Entry
  PROVE  /\ Recorded(Newest(s), e) = Newest(Append(s, e))
         /\ Recorded(Newest(s), e) \in Seq(Entry)
         /\ Len(Newest(s)) <= MaxAuditEntries
<1> DEFINE n == Len(s)
           t == Append(s, e)
<1>1. n \in Nat /\ t \in Seq(Entry) /\ Len(t) = n + 1 /\ MaxAuditEntries \in Nat \ {0}
  BY AppendProperties, LenProperties, AuditAssumption
<1>2. (\A i \in 1 .. n : t[i] = s[i] /\ s[i] \in Entry) /\ t[n + 1] = e
  BY AppendProperties, ElementOfSeq
<1>3. CASE n < MaxAuditEntries
  <2>1. Newest(s) = s
    <3>1. Newest(s) = SubSeq(s, 1, n)
      BY <1>1, <1>3 DEF Newest
    <3> QED
      BY <3>1, SubSeqFull
  <2>2. Newest(t) = t
    <3>1. Newest(t) = SubSeq(t, 1, Len(t))
      <4>1. (IF Len(t) < MaxAuditEntries THEN Len(t) ELSE MaxAuditEntries) = Len(t)
        BY <1>1, <1>3
      <4>2. Len(t) - Len(t) + 1 = 1
        BY <1>1
      <4> HIDE DEF t
      <4> QED
        BY <4>1, <4>2 DEF Newest
    <3> QED
      BY <1>1, <3>1, SubSeqFull
  <2>3. Recorded(s, e) = t
    BY <1>1, <1>3 DEF Recorded
  <2> QED
    BY <1>1, <1>3, <2>1, <2>2, <2>3
<1>4. CASE n >= MaxAuditEntries
  <2> DEFINE first == n - MaxAuditEntries + 1
             log == Newest(s)
  <2>1. log = SubSeq(s, first, n)
    <3>1. ~(n < MaxAuditEntries)
      BY <1>1, <1>4
    <3> QED
      BY <3>1 DEF Newest
  <2>2. first \in 1 .. n
    BY <1>1, <1>4
  <2>3. /\ log \in Seq(Entry) /\ Len(log) = MaxAuditEntries
        /\ \A i \in 1 .. MaxAuditEntries : log[i] = s[first + i - 1]
    <3>1. \A i \in first .. n : s[i] \in Entry
      BY <1>1, <1>2, <2>2
    <3>2. /\ SubSeq(s, first, n) \in Seq(Entry)
          /\ Len(SubSeq(s, first, n)) = IF first <= n THEN n - first + 1 ELSE 0
          /\ \A i \in 1 .. n - first + 1 : SubSeq(s, first, n)[i] = s[first + i - 1]
      BY <1>1, <2>2, <3>1, SubSeqProperties
    <3>3. n - first + 1 = MaxAuditEntries /\ first <= n
      BY <1>1, <2>2
    <3> QED
      BY <2>1, <3>2, <3>3
  <2>4. log # <<>>
    BY <1>1, <2>3
  <2>5. /\ Tail(log) \in Seq(Entry) /\ Len(Tail(log)) = MaxAuditEntries - 1
        /\ \A i \in 1 .. MaxAuditEntries - 1 : Tail(log)[i] = log[i + 1]
    BY <2>3, <2>4, HeadTailProperties
  <2> DEFINE new == Append(Tail(log), e)
  <2>6. Recorded(log, e) = new
    BY <2>3 DEF Recorded
  <2>7. /\ new \in Seq(Entry) /\ Len(new) = MaxAuditEntries
        /\ \A i \in 1 .. MaxAuditEntries - 1 : new[i] = log[i + 1]
        /\ new[MaxAuditEntries] = e
    <3> HIDE DEF log
    <3>1. /\ Append(Tail(log), e) \in Seq(Entry)
          /\ Len(Append(Tail(log), e)) = Len(Tail(log)) + 1
          /\ \A i \in 1 .. Len(Tail(log)) : Append(Tail(log), e)[i] = Tail(log)[i]
          /\ Append(Tail(log), e)[Len(Tail(log)) + 1] = e
      BY <2>5, AppendProperties
    <3>2. MaxAuditEntries - 1 + 1 = MaxAuditEntries
      BY <1>1
    <3> QED
      BY <2>5, <3>1, <3>2
  <2>8. Newest(t) = SubSeq(t, first + 1, n + 1)
    <3>1. ~(n + 1 < MaxAuditEntries) /\ (n + 1) - MaxAuditEntries + 1 = first + 1
      BY <1>1, <1>4
    <3> QED
      BY <1>1, <3>1 DEF Newest
  <2>9. /\ Newest(t) \in Seq(Entry) /\ Len(Newest(t)) = MaxAuditEntries
        /\ \A i \in 1 .. MaxAuditEntries : Newest(t)[i] = t[first + i]
    <3> DEFINE a == first + 1
               b == n + 1
    <3>1. \A i \in a .. b : t[i] \in Entry
      BY <1>1, <1>2, <2>2
    <3>2. a \in Int /\ b \in Int
      BY <1>1, <2>2
    <3>3. b - a + 1 = MaxAuditEntries /\ a <= b
      BY <1>1, <2>2
    <3>4. \A i \in 1 .. MaxAuditEntries : a + i - 1 = first + i
      BY <1>1, <2>2
    <3>5. Newest(t) = SubSeq(t, a, b)
      BY <2>8
    <3> HIDE DEF a, b, t, first
    <3>6. /\ SubSeq(t, a, b) \in Seq(Entry)
          /\ Len(SubSeq(t, a, b)) = IF a <= b THEN b - a + 1 ELSE 0
          /\ \A i \in 1 .. b - a + 1 : SubSeq(t, a, b)[i] = t[a + i - 1]
      BY <3>1, <3>2, SubSeqProperties
    <3> QED
      BY <3>3, <3>4, <3>5, <3>6
  <2>10. ASSUME NEW i \in 1 .. MaxAuditEntries PROVE new[i] = Newest(t)[i]
    <3>1. CASE i = MaxAuditEntries
      <4>1. first + i = n + 1
        BY <1>1, <3>1
      <4> QED
        BY <1>2, <2>7, <2>9, <3>1, <4>1
    <3>2. CASE i # MaxAuditEntries
      <4>1. i \in 1 .. MaxAuditEntries - 1 /\ i + 1 \in 1 .. MaxAuditEntries
        BY <1>1, <3>2
      <4>2. first + (i + 1) - 1 = first + i /\ first + i \in 1 .. n
        BY <1>1, <2>2, <4>1
      <4>3. new[i] = s[first + i]
        BY <2>3, <2>7, <4>1, <4>2
      <4> QED
        BY <1>2, <2>9, <4>2, <4>3
    <3> QED
      BY <3>1, <3>2
  <2>11. new = Newest(t)
    <3> HIDE DEF new
    <3> QED
      BY <2>7, <2>9, <2>10, SeqEqual
  <2>12. MaxAuditEntries <= MaxAuditEntries
    BY <1>1
  <2> QED
    BY <2>3, <2>6, <2>7, <2>11, <2>12
<1> QED
  BY <1>1, <1>3, <1>4
-----------------------------------------------------------------------------
(* A raw write: what it reaches, the policy allows byte for byte. *)
LEMMA AttemptKeeps ==
  ASSUME IInv,
         NEW operation \in {"writeBytes", "writeBits"}, NEW offset \in Int, NEW length \in Nat, NEW written,
         \A a \in Tracked \cap (offset .. offset + length - 1) : written[a] \in Byte,
         Attempt(operation, offset, length, written),
         UNCHANGED <<repo, running, applier, active, inForce, fw>>
  PROVE  IInv'
<1> DEFINE reached == Tracked \cap (offset .. offset + length - 1)
           ok == PolicyAllows(offset, length)
           entry == [operation |-> operation, offset |-> offset, length |-> length, ok |-> ok]
<1>1. /\ Len(attempts) < MaxAttempts
      /\ audit' = Recorded(audit, entry)
      /\ attempts' = Append(attempts, entry)
      /\ cell' = IF ok THEN [a \in Tracked |-> IF a \in reached THEN written[a] ELSE cell[a]]
                       ELSE cell
      /\ edited' = IF ok THEN edited \union reached ELSE edited
      /\ UNCHANGED <<loaded, allowed>>
  BY DEF Attempt
<1>2. Repository'
  BY DEF IInv, Repository, DiskIsFile, UserListIsOnDisk, InForceIsSelection, Selected, Matching, repo
<1>3. PolicyInForce'
  BY <1>1 DEF IInv, PolicyInForce
<1>4. entry \in Entry
  <2>1. ok \in BOOLEAN
    BY UnsafeAssumption, Zenon DEF PolicyAllows, Allows
  <2> HIDE DEF ok
  <2> QED
    BY <2>1 DEF Entry
<1>5. TelemetryKept'
  <2> SUFFICES ASSUME ~Unsafe, TelemetrySafe(inForce)
               PROVE  edited' \cap {r.address : r \in Telemetry(inForce)} = {}
    BY DEF TelemetryKept
  <2>1. edited \cap {r.address : r \in Telemetry(inForce)} = {}
    BY DEF IInv, TelemetryKept
  <2>2. CASE ~ok
    BY <1>1, <2>1, <2>2
  <2>3. CASE ok
    <3>1. Allows(allowed, offset, length)
      BY <2>3 DEF PolicyAllows
    <3>2. Allows(RangesOf(inForce), offset, length)
      <4>1. allowed # {}
        BY <3>1 DEF Allows
      <4> QED
        BY <3>1, <4>1 DEF IInv, PolicyInForce
    <3>3. ASSUME NEW a \in reached PROVE a \notin {r.address : r \in Telemetry(inForce)}
      <4>1. Allows(RangesOf(inForce), a, 1)
        BY <3>2, BytesAllowed
      <4> QED
        BY <4>1 DEF TelemetrySafe
    <3> QED
      BY <1>1, <2>1, <2>3, <3>3
  <2> QED
    BY <2>2, <2>3
<1>6. attempts \in Seq(Entry) /\ audit = Newest(attempts)
  BY DEF IInv, Log, LogsTyped, AuditIsNewest, Newest
<1>7. attempts' \in Seq(Entry) /\ Len(attempts') = Len(attempts) + 1
  BY <1>1, <1>4, <1>6, AppendProperties
<1>8. audit' = Newest(attempts') /\ audit' \in Seq(Entry) /\ Len(audit') <= MaxAuditEntries
  <2> HIDE DEF entry
  <2>1. audit' = Newest(attempts') /\ audit' \in Seq(Entry)
    BY <1>1, <1>4, <1>6, NewestKept
  <2>2. Len(Newest(attempts')) <= MaxAuditEntries
    BY <1>4, <1>7, NewestKept
  <2> QED
    BY <2>1, <2>2
<1>9. cell' \in [Tracked -> Byte]
  <2>1. cell \in [Tracked -> Byte]
    BY DEF IInv, Log, MemoryTypeOK
  <2> HIDE DEF ok
  <2> QED
    BY <1>1, <2>1
<1>10. edited' \subseteq Tracked
  <2>1. edited \subseteq Tracked
    BY DEF IInv, Log, MemoryTypeOK
  <2> HIDE DEF ok
  <2> QED
    BY <1>1, <2>1
<1>11. Len(attempts') <= MaxAttempts
  BY <1>1, <1>6, <1>7, LenProperties, AuditAssumption
<1>12. Log'
  <2>1. loaded' \in BOOLEAN
    BY <1>1 DEF IInv, Log, MemoryTypeOK
  <2> QED
    BY <1>7, <1>8, <1>9, <1>10, <1>11, <2>1 DEF Log, LogsTyped, MemoryTypeOK, AuditIsNewest, Newest
<1> QED
  BY <1>2, <1>3, <1>5, <1>12 DEF IInv

LEMMA WriteKeeps ==
  ASSUME IInv, NEW w \in Blocks, RawWrites(w.offset, w.bytes)
  PROVE  IInv'
<1> DEFINE written == [a \in Tracked \cap (w.offset .. w.offset + Len(w.bytes) - 1) |->
                          w.bytes[a - w.offset + 1]]
<1>1. /\ WriteMemory(w.offset, w.bytes)
      /\ UNCHANGED <<repo, running, applier, active, inForce, fw>>
  BY DEF RawWrites, Raw, bounds
<1>2. w.offset \in Int
  <2>1. w.offset # NotANumber
    BY <1>1 DEF WriteMemory, Extracted
  <2> QED
    BY <2>1, ArgumentsAssumption
<1>3. /\ w.bytes \in Seq(Byte \union {NotANumber}) /\ Len(w.bytes) \in Nat
      /\ DOMAIN w.bytes = 1 .. Len(w.bytes)
  BY ArgumentsAssumption, LenProperties DEF Byte
<1>4. \A i \in 1 .. Len(w.bytes) : w.bytes[i] \in Byte
  <2>1. \A i \in 1 .. Len(w.bytes) : w.bytes[i] \in Byte \union {NotANumber}
    BY <1>3, ElementOfSeq
  <2> QED
    BY <1>1, <1>3, <2>1 DEF WriteMemory, Extracted
<1>5. \A a \in Tracked \cap (w.offset .. w.offset + Len(w.bytes) - 1) : written[a] \in Byte
  <2> TAKE a \in Tracked \cap (w.offset .. w.offset + Len(w.bytes) - 1)
  <2>1. a - w.offset + 1 \in 1 .. Len(w.bytes)
    BY <1>2, <1>3
  <2> QED
    BY <1>4, <2>1
<1>6. Attempt("writeBytes", w.offset, Len(w.bytes), written)
  BY <1>1 DEF WriteMemory
<1> HIDE DEF written
<1>7. "writeBytes" \in {"writeBytes", "writeBits"}
  OBVIOUS
<1> QED
  BY <1>1, <1>2, <1>3, <1>5, <1>6, <1>7, AttemptKeeps

LEMMA WriteBitsKeeps ==
  ASSUME IInv, NEW w \in BitWrites, RawWritesBits(w.offset, w.mask, w.value)
  PROVE  IInv'
<1> DEFINE written == [a \in Tracked \cap {w.offset} |->
                          (cell[a] \ w.mask) \union (w.value \cap w.mask)]
<1>1. /\ WriteMemoryBits(w.offset, w.mask, w.value)
      /\ UNCHANGED <<repo, running, applier, active, inForce, fw>>
  BY DEF RawWritesBits, Raw, bounds
<1>2. w.offset \in Int
  <2>1. <<w.offset, w.mask, w.value>>[1] # NotANumber
    BY <1>1 DEF WriteMemoryBits, Extracted
  <2> QED
    BY <2>1, ArgumentsAssumption
<1>3. cell \in [Tracked -> Byte]
  BY DEF IInv, Log, MemoryTypeOK
<1>4. w.mask \in Byte /\ w.value \in Byte
  BY <1>1 DEF WriteMemoryBits
<1>5. w.offset .. w.offset + 1 - 1 = {w.offset}
  BY <1>2
<1>6. \A a \in Tracked \cap (w.offset .. w.offset + 1 - 1) : written[a] \in Byte
  BY <1>3, <1>4, <1>5 DEF Byte
<1>7. Attempt("writeBits", w.offset, 1, written)
  BY <1>1 DEF WriteMemoryBits
<1> HIDE DEF written
<1>8. 1 \in Nat /\ "writeBits" \in {"writeBytes", "writeBits"}
  OBVIOUS
<1> QED
  BY <1>1, <1>2, <1>6, <1>7, <1>8, AttemptKeeps

LEMMA PollKeeps ==
  ASSUME IInv, NEW a \in Tracked, NEW byte \in {{}, {4}}, Polled(a, byte)
  PROVE  IInv'
<1>1. /\ Poll(a, byte)
      /\ UNCHANGED <<disk, user, running, applier, active, inForce, fw>>
  BY DEF Polled, Raw, bounds, repo
<1>2. byte \in Byte
  BY DEF Byte
<1>3. Repository'
  BY <1>1 DEF IInv, Repository, DiskIsFile, UserListIsOnDisk, InForceIsSelection, Selected, Matching
<1>4. PolicyInForce' /\ TelemetryKept'
  BY <1>1 DEF IInv, PolicyInForce, TelemetryKept, Poll
<1>5. Log'
  BY <1>1, <1>2 DEF IInv, Log, LogsTyped, MemoryTypeOK, AuditIsNewest, Poll
<1> QED
  BY <1>3, <1>4, <1>5 DEF IInv

-----------------------------------------------------------------------------
(* The empty log is complete. *)
LEMMA EmptyLog ==
  /\ <<>> \in Seq(Entry) /\ Len(<<>>) = 0 /\ Newest(<<>>) = <<>>
  /\ 0 <= MaxAuditEntries /\ 0 <= MaxAttempts
<1>1. <<>> \in Seq(Entry) /\ Len(<<>>) = 0
  BY EmptySeq
<1>2. MaxAuditEntries \in Nat \ {0} /\ MaxAttempts \in Nat
  BY AuditAssumption
<1>3. Newest(<<>>) = SubSeq(<<>>, 1, 0)
  BY <1>1, <1>2 DEF Newest
<1>4. SubSeq(<<>>, 1, 0) = <<>>
  BY SubSeqEmpty
<1> QED
  BY <1>1, <1>2, <1>3, <1>4

LEMMA EmptyLogKept ==
  ASSUME audit = <<>>, attempts = <<>>, edited = {}, loaded \in BOOLEAN, cell \in [Tracked -> Byte]
  PROVE  Log
<1>1. LogsTyped /\ MemoryTypeOK
  BY EmptyLog DEF LogsTyped, MemoryTypeOK
<1>2. AuditIsNewest <=> audit = Newest(attempts)
  BY DEF AuditIsNewest, Newest
<1>3. AuditIsNewest
  BY <1>2, EmptyLog
<1> QED
  BY <1>1, <1>3 DEF Log

LEMMA InitInductive == ProfilesInit => IInv
<1> SUFFICES ASSUME ProfilesInit PROVE IInv
  OBVIOUS
<1> USE DEF ProfilesInit, MemoryInit
<1>1. Repository
  BY DEF Repository, DiskIsFile, UserListIsOnDisk, InForceIsSelection
<1>2. PolicyInForce /\ TelemetryKept
  BY DEF PolicyInForce, TelemetryKept
<1>3. cell \in [Tracked -> Byte]
  BY DEF Byte
<1>4. Log
  BY <1>3, EmptyLogKept
<1> QED
  BY <1>1, <1>2, <1>4 DEF IInv

(* main: the lists are those of the file, and what they select is applied. *)
LEMMA StartKeeps ==
  ASSUME IInv, Start
  PROVE  IInv'
<1>1. /\ user' = Loaded /\ disk' = disk /\ fw' = fw
      /\ applier' \in BOOLEAN /\ loaded' \in BOOLEAN
      /\ Applied(user') /\ UNCHANGED <<cell, audit, attempts>>
  BY DEF Start, memoryRest, bounds
<1>2. DiskIsFile' /\ UserListIsOnDisk'
  BY <1>1 DEF IInv, Repository, DiskIsFile, UserListIsOnDisk, Loaded
<1>3. CASE Applies(user')
  <2>1. /\ active' = <<Selected(user').id, Selected(user').source>>
        /\ inForce' = Config(Selected(user'))
        /\ allowed' = RangesOf(Config(Selected(user')))
        /\ edited' = {}
    BY <1>1, <1>3 DEF Applied
  <2>2. InForceIsSelection'
    BY <1>1, <2>1 DEF InForceIsSelection, Selected, Matching, Loaded
  <2>3. PolicyInForce' /\ TelemetryKept'
    BY <2>1, ConfigIsSome DEF PolicyInForce, TelemetryKept
  <2>4. Log'
    BY <1>1, <2>1 DEF IInv, Log, LogsTyped, MemoryTypeOK, AuditIsNewest
  <2> QED
    BY <1>2, <2>2, <2>3, <2>4 DEF IInv, Repository
<1>4. CASE ~Applies(user')
  <2>1. UNCHANGED <<active, inForce, allowed, edited>>
    BY <1>1, <1>4 DEF Applied, force
  <2>2. InForceIsSelection'
    BY <1>1, <1>4 DEF InForceIsSelection, Applies, Selected, Matching, Loaded
  <2>3. PolicyInForce' /\ TelemetryKept'
    BY <2>1 DEF IInv, PolicyInForce, TelemetryKept
  <2>4. Log'
    BY <1>1, <2>1 DEF IInv, Log, LogsTyped, MemoryTypeOK, AuditIsNewest
  <2> QED
    BY <1>2, <2>2, <2>3, <2>4 DEF IInv, Repository
<1> QED
  BY <1>3, <1>4

LEMMA CrashKeeps ==
  ASSUME IInv, Crash
  PROVE  IInv'
<1>1. Repository'
  BY DEF IInv, Repository, DiskIsFile, UserListIsOnDisk, InForceIsSelection, Crash
<1>2. PolicyInForce' /\ TelemetryKept'
  BY DEF PolicyInForce, TelemetryKept, Crash
<1>3. Log'
  <2>1. /\ audit' = <<>> /\ attempts' = <<>> /\ edited' = {} /\ loaded' = FALSE
        /\ cell' = cell
    BY DEF Crash
  <2>2. cell \in [Tracked -> Byte]
    BY DEF IInv, Log, MemoryTypeOK
  <2>3. LogsTyped' /\ MemoryTypeOK'
    BY <2>1, <2>2, EmptyLog DEF LogsTyped, MemoryTypeOK
  <2>4. AuditIsNewest' <=> audit' = Newest(attempts')
    BY DEF AuditIsNewest, Newest
  <2> QED
    BY <2>1, <2>3, <2>4, EmptyLog DEF Log
<1> QED
  BY <1>1, <1>2, <1>3 DEF IInv

LEMMA UnreadableKeeps ==
  ASSUME IInv, FileUnreadable
  PROVE  IInv'
<1> USE DEF FileUnreadable
<1>1. disk' = [readable |-> FALSE, profiles |-> disk.profiles]
  BY DEF IInv, Repository, DiskIsFile
<1>2. Repository'
  BY <1>1 DEF Repository, DiskIsFile, UserListIsOnDisk, InForceIsSelection
<1>3. PolicyInForce' /\ TelemetryKept'
  BY DEF IInv, PolicyInForce, TelemetryKept, force
<1>4. Log'
  BY DEF IInv, Log, LogsTyped, MemoryTypeOK, AuditIsNewest, force, memoryRest
<1> QED
  BY <1>2, <1>3, <1>4 DEF IInv

LEMMA NextInductive == IInv /\ [Next]_vars => IInv'
<1> SUFFICES ASSUME IInv, [Next]_vars PROVE IInv'
  OBVIOUS
<1>1. CASE Start
  BY <1>1, StartKeeps
<1>2. CASE Crash
  BY <1>2, CrashKeeps
<1>3. CASE FileUnreadable
  BY <1>3, UnreadableKeeps
<1>4. CASE Serve
  <2>1. UNCHANGED <<fw, running, applier, loaded, memoryRest>>
    BY <1>4 DEF Serve, bounds
  <2>2. CASE \E request : SaveProfile(request, TRUE) \/ RemoveProfile(request, TRUE)
    BY <2>1, <2>2, EditKeeps
  <2>3. CASE UNCHANGED <<repo, force>>
    BY <2>1, <2>3, RefusedKeeps
  <2> QED
    BY <1>4, <2>2, <2>3 DEF Serve
<1>5. CASE Receive
  <2>1. Untouched
    BY <1>5 DEF Receive, Untouched, repo, force, memoryRest, bounds
  <2> QED
    BY <2>1, QuietStep
<1>6. ASSUME NEW request \in Requests, AskEdit(request) PROVE IInv'
  <2>1. Untouched
    BY <1>6 DEF AskEdit, Untouched, repo, force, memoryRest
  <2> QED
    BY <2>1, QuietStep
<1>7. ASSUME NEW request \in Requests, OtherEdits(request) PROVE IInv'
  <2>1. UNCHANGED <<fw, running, applier, loaded, memoryRest>>
    BY <1>7 DEF OtherEdits
  <2>2. SaveProfile(request, FALSE) \/ RemoveProfile(request, FALSE)
    BY <1>7 DEF OtherEdits
  <2> QED
    BY <2>1, <2>2, EditKeeps
<1>8. CASE UNCHANGED vars
  <2>1. Untouched
    BY <1>8 DEF vars, Untouched, repo, force, memoryRest, bounds
  <2> QED
    BY <2>1, QuietStep
<1> QED
  BY <1>1, <1>2, <1>3, <1>4, <1>5, <1>6, <1>7, <1>8, WriteKeeps, WriteBitsKeeps, PollKeeps DEF Next

LEMMA Inductive == Spec => []IInv
BY InitInductive, NextInductive, PTL DEF Spec

-----------------------------------------------------------------------------
(* The types of the raw memory's state, and that both logs keep their      *)
(* bounds, whatever is written (ecmemoryservice.cpp, ecwritepolicy.cpp).   *)
THEOREM MemoryTypeCorrect == Spec => []MemoryTypeOK
<1>1. IInv => MemoryTypeOK
  BY DEF IInv, Log
<1> QED
  BY <1>1, Inductive, PTL

(* The audit log is exactly the newest attempts, in order and without a    *)
(* gap (ecwritepolicy.cpp:111-128).                                        *)
THEOREM AuditLogComplete == Spec => []AuditIsNewest
<1>1. IInv => AuditIsNewest
  BY DEF IInv, Log
<1> QED
  BY <1>1, Inductive, PTL

(* A failed save or removal leaves no trace in the lists                   *)
(* (supportconfig.cpp:125-191).                                            *)
THEOREM NothingUnsavedServed == Spec => []UserListIsOnDisk
<1>1. IInv => UserListIsOnDisk
  BY DEF IInv, Repository
<1> QED
  BY <1>1, Inductive, PTL

(* What is in force is what a restart would put in force                   *)
(* (deviceprofileservice.cpp:25-98, deviceprofileapplier.cpp:19-46).       *)
THEOREM SelectionInForce == Spec => []InForceIsSelection
<1>1. IInv => InForceIsSelection
  BY DEF IInv, Repository
<1> QED
  BY <1>1, Inductive, PTL

(* The policy is always the one of the parameters registered, and allows   *)
(* every register they write (deviceprofileapplier.cpp:19-46).             *)
THEOREM PolicyFollowsProfile == Spec => []PolicyOfProfile
<1>1. IInv => PolicyOfProfile
  BY FactoryAndPolicyAgree DEF IInv, PolicyInForce, PolicyOfProfile, SameReach
<1> QED
  BY <1>1, Inductive, PTL

(* No sequence of raw writes reaches a cell of the telemetry, whatever     *)
(* profiles come and go (ecwritepolicy.cpp:87-109).                        *)
THEOREM RawWritesSpareTelemetry == Spec => []TelemetryNeverEdited
<1>1. IInv => TelemetryNeverEdited
  BY DEF IInv, TelemetryKept, TelemetryNeverEdited
<1> QED
  BY <1>1, Inductive, PTL

-----------------------------------------------------------------------------
(* The client and the service agree when nothing is on its way.  The        *)
(* invariant says of the messages what their order guarantees: whatever is  *)
(* no longer true is followed by a reason to ask again.                     *)

IsLine(s) == Len(s) \in Nat /\ s = [i \in 1 .. Len(s) |-> s[i]]
Kinds(s) == {s[i].kind : i \in DOMAIN s}
Followed(s, kind, by) ==
    \A i \in DOMAIN s : s[i].kind = kind => \E j \in DOMAIN s : i < j /\ s[j].kind = by
Preceded(s, kind, by) ==
    \A i \in DOMAIN s : s[i].kind = kind => \E j \in DOMAIN s : j < i /\ s[j].kind = by
Separated(s, kind, by) ==
    \A i, j \in DOMAIN s : i < j /\ s[i].kind = kind /\ s[j].kind = kind
       => \E k \in DOMAIN s : i < k /\ k < j /\ s[k].kind = by

(* The service comes and goes in turns, and the client hears of each. *)
Turns == /\ Separated(toClient, "up", "gone")
         /\ connected => Preceded(toClient, "up", "gone")
Link == IF running THEN /\ connected \/ "up" \in Kinds(toClient)
                        /\ Followed(toClient, "gone", "up")
        ELSE /\ ~connected \/ "gone" \in Kinds(toClient)
             /\ Followed(toClient, "up", "gone")

(* A message after which the client knows the truth or asks for it, and one *)
(* after which it does not know it.                                         *)
Renews(m, subject, answer, truth) ==
    m.kind \in {"up", subject} \/ (m.kind = answer /\ m.value = truth)
Spoils(m, answer, truth) == m.kind = "gone" \/ (m.kind = answer /\ m.value # truth)
Renewed(s, subject, answer, truth) ==
    \E i \in DOMAIN s : Renews(s[i], subject, answer, truth)
Mended(s, subject, answer, truth) ==
    \A i \in DOMAIN s : Spoils(s[i], answer, truth)
       => \E j \in DOMAIN s : i < j /\ Renews(s[j], subject, answer, truth)

Settles(requests, messages, subject, answer, truth, belief) ==
    \/ subject \in Kinds(requests)
    \/ /\ Mended(messages, subject, answer, truth)
       /\ belief = truth \/ Renewed(messages, subject, answer, truth)

Settling ==
    /\ Settles(toService, toClient, "list", "listed", user, list)
    /\ Settles(toService, toClient, "active", "activeIs", active, shown)

AgreementInv ==
    /\ IsLine(toService) /\ IsLine(toClient)
    /\ clientRuns => Turns /\ Link
    /\ clientRuns /\ running => Settling

-----------------------------------------------------------------------------
(* Lines of requests or messages, whatever these hold. *)
LEMMA LineIsSeq ==
  ASSUME NEW s, IsLine(s)
  PROVE  /\ Len(s) \in Nat /\ DOMAIN s = 1 .. Len(s)
         /\ s \in Seq({s[i] : i \in DOMAIN s})
<1> DEFINE S == {s[i] : i \in DOMAIN s}
<1>1. Len(s) \in Nat /\ s = [i \in 1 .. Len(s) |-> s[i]]
  BY DEF IsLine
<1>2. DOMAIN s = 1 .. Len(s)
  BY <1>1, Zenon
<1>3. s \in [1 .. Len(s) -> S]
  BY <1>1, <1>2, Zenon
<1> HIDE DEF S
<1>4. s \in Seq(S)
  BY <1>1, <1>3, SeqDef, Zenon
<1> QED
  BY <1>1, <1>2, <1>4 DEF S

LEMMA SeqIsLine ==
  ASSUME NEW S, NEW s \in Seq(S)
  PROVE  IsLine(s)
<1>1. Len(s) \in Nat /\ s \in [1 .. Len(s) -> S]
  BY LenProperties
<1> QED
  BY <1>1, Zenon DEF IsLine

LEMMA Joined ==
  ASSUME NEW s, NEW t, IsLine(s), IsLine(t)
  PROVE  /\ IsLine(s \o t)
         /\ Len(s) \in Nat /\ DOMAIN s = 1 .. Len(s)
         /\ Len(t) \in Nat /\ DOMAIN t = 1 .. Len(t)
         /\ DOMAIN (s \o t) = 1 .. Len(s) + Len(t)
         /\ \A i \in DOMAIN s : i \in DOMAIN (s \o t) /\ (s \o t)[i] = s[i]
         /\ \A i \in DOMAIN t : i + Len(s) \in DOMAIN (s \o t) /\ (s \o t)[i + Len(s)] = t[i]
<1> DEFINE S == {s[i] : i \in DOMAIN s}
           T == {t[i] : i \in DOMAIN t}
<1>1. s \in Seq(S) /\ t \in Seq(T)
  BY LineIsSeq
<1>2. /\ Len(s) \in Nat /\ DOMAIN s = 1 .. Len(s)
      /\ Len(t) \in Nat /\ DOMAIN t = 1 .. Len(t)
  BY LineIsSeq
<1> HIDE DEF S, T
<1>3. s \in Seq(S \union T) /\ t \in Seq(S \union T)
  <2>1. S \subseteq S \union T /\ T \subseteq S \union T
    OBVIOUS
  <2> QED
    BY <1>1, <2>1, SeqMonotonic
<1>4. /\ s \o t \in Seq(S \union T)
      /\ Len(s \o t) = Len(s) + Len(t)
      /\ \A i \in 1 .. Len(s) + Len(t) :
            (s \o t)[i] = IF i <= Len(s) THEN s[i] ELSE t[i - Len(s)]
  BY <1>3, ConcatProperties
<1>5. DOMAIN (s \o t) = 1 .. Len(s) + Len(t)
  BY <1>4, LenProperties
<1>6. IsLine(s \o t)
  BY <1>4, SeqIsLine
<1> HIDE DEF IsLine
<1>7. \A i \in DOMAIN s : i \in DOMAIN (s \o t) /\ (s \o t)[i] = s[i]
  BY <1>2, <1>4, <1>5
<1>8. \A i \in DOMAIN t : i + Len(s) \in DOMAIN (s \o t) /\ (s \o t)[i + Len(s)] = t[i]
  <2> TAKE i \in DOMAIN t
  <2>1. i + Len(s) \in 1 .. Len(s) + Len(t) /\ ~(i + Len(s) <= Len(s)) /\ i + Len(s) - Len(s) = i
    BY <1>2
  <2> QED
    BY <1>4, <1>5, <2>1
<1> QED
  BY <1>2, <1>5, <1>6, <1>7, <1>8

LEMMA JoinedBehind ==
  ASSUME NEW s, NEW t, IsLine(s), IsLine(t), NEW i \in DOMAIN t
  PROVE  i + Len(s) \in DOMAIN (s \o t) /\ (s \o t)[i + Len(s)] = t[i]
BY Joined

LEMMA JoinedAt ==
  ASSUME NEW s, NEW t, IsLine(s), IsLine(t), NEW i \in DOMAIN (s \o t)
  PROVE  \/ i \in DOMAIN s /\ (s \o t)[i] = s[i]
         \/ i \notin DOMAIN s /\ i - Len(s) \in DOMAIN t /\ (s \o t)[i] = t[i - Len(s)]
<1> DEFINE u == s \o t
<1>1. /\ Len(s) \in Nat /\ DOMAIN s = 1 .. Len(s)
      /\ Len(t) \in Nat /\ DOMAIN t = 1 .. Len(t)
      /\ DOMAIN u = 1 .. Len(s) + Len(t)
  BY Joined
<1>2. \A k \in DOMAIN s : u[k] = s[k]
  BY Joined
<1> HIDE DEF u
<1>4. i \in DOMAIN u
  BY DEF u
<1>5. CASE i \in DOMAIN s
  BY <1>2, <1>5 DEF u
<1>6. CASE i \notin DOMAIN s
  <2>1. i - Len(s) \in DOMAIN t /\ i - Len(s) + Len(s) = i
    BY <1>1, <1>4, <1>6
  <2>2. u[i - Len(s) + Len(s)] = t[i - Len(s)]
    BY <2>1, JoinedBehind DEF u
  <2> QED
    BY <1>6, <2>1, <2>2 DEF u
<1> QED
  BY <1>5, <1>6

LEMMA Rest ==
  ASSUME NEW s, IsLine(s), s # <<>>
  PROVE  /\ IsLine(Tail(s)) /\ Head(s) = s[1] /\ 1 \in DOMAIN s
         /\ Len(s) \in Nat \ {0} /\ DOMAIN s = 1 .. Len(s)
         /\ DOMAIN Tail(s) = 1 .. Len(s) - 1
         /\ \A i \in DOMAIN Tail(s) : i + 1 \in DOMAIN s /\ Tail(s)[i] = s[i + 1]
         /\ \A i \in DOMAIN s : i # 1 => i - 1 \in DOMAIN Tail(s) /\ Tail(s)[i - 1] = s[i]
<1> DEFINE S == {s[i] : i \in DOMAIN s}
<1>1. s \in Seq(S) /\ DOMAIN s = 1 .. Len(s)
  BY LineIsSeq
<1> HIDE DEF S
<1>2. Len(s) \in Nat \ {0}
  BY <1>1, EmptySeq
<1>3. /\ Tail(s) \in Seq(S) /\ Len(Tail(s)) = Len(s) - 1
      /\ \A i \in 1 .. Len(Tail(s)) : Tail(s)[i] = s[i + 1]
  BY <1>1, HeadTailProperties
<1>4. IsLine(Tail(s)) /\ DOMAIN Tail(s) = 1 .. Len(s) - 1
  BY <1>3, SeqIsLine, LenProperties
<1>5. Head(s) = s[1]
  BY <1>1, <1>2
<1> HIDE DEF IsLine
<1>6. \A i \in DOMAIN Tail(s) : i + 1 \in DOMAIN s /\ Tail(s)[i] = s[i + 1]
  BY <1>1, <1>2, <1>3, <1>4
<1>7. \A i \in DOMAIN s : i # 1 => i - 1 \in DOMAIN Tail(s) /\ Tail(s)[i - 1] = s[i]
  <2> SUFFICES ASSUME NEW i \in DOMAIN s, i # 1
               PROVE  i - 1 \in DOMAIN Tail(s) /\ Tail(s)[i - 1] = s[i]
    OBVIOUS
  <2>1. i - 1 \in 1 .. Len(s) - 1 /\ i - 1 + 1 = i
    BY <1>1, <1>2
  <2> QED
    BY <1>3, <1>4, <2>1
<1>8. 1 \in DOMAIN s
  BY <1>1, <1>2
<1> QED
  BY <1>1, <1>2, <1>4, <1>5, <1>6, <1>7, <1>8

LEMMA KindsJoined ==
  ASSUME NEW s, NEW t, IsLine(s), IsLine(t)
  PROVE  Kinds(s \o t) = Kinds(s) \union Kinds(t)
<1>1. ASSUME NEW k \in Kinds(s) PROVE k \in Kinds(s \o t)
  BY Joined DEF Kinds
<1>2. ASSUME NEW k \in Kinds(t) PROVE k \in Kinds(s \o t)
  <2>1. PICK i \in DOMAIN t : k = t[i].kind
    BY DEF Kinds
  <2>2. i + Len(s) \in DOMAIN (s \o t) /\ (s \o t)[i + Len(s)] = t[i]
    BY Joined
  <2> QED
    BY <2>1, <2>2, Zenon DEF Kinds
<1>3. ASSUME NEW k \in Kinds(s \o t) PROVE k \in Kinds(s) \union Kinds(t)
  <2>1. PICK i \in DOMAIN (s \o t) : k = (s \o t)[i].kind
    BY DEF Kinds
  <2>2. CASE i \in DOMAIN s /\ (s \o t)[i] = s[i]
    BY <2>1, <2>2, Zenon DEF Kinds
  <2>3. CASE i - Len(s) \in DOMAIN t /\ (s \o t)[i] = t[i - Len(s)]
    BY <2>1, <2>3, Zenon DEF Kinds
  <2> QED
    BY <2>2, <2>3, JoinedAt
<1> QED
  BY <1>1, <1>2, <1>3

LEMMA KindsRest ==
  ASSUME NEW s, IsLine(s), s # <<>>
  PROVE  Kinds(s) = {Head(s).kind} \union Kinds(Tail(s))
<1>1. ASSUME NEW k \in Kinds(Tail(s)) PROVE k \in Kinds(s)
  <2>1. PICK i \in DOMAIN Tail(s) : k = Tail(s)[i].kind
    BY DEF Kinds
  <2>2. i + 1 \in DOMAIN s /\ Tail(s)[i] = s[i + 1]
    BY Rest
  <2> QED
    BY <2>1, <2>2, Zenon DEF Kinds
<1>2. ASSUME NEW k \in Kinds(s), k # Head(s).kind PROVE k \in Kinds(Tail(s))
  <2>1. PICK i \in DOMAIN s : k = s[i].kind
    BY DEF Kinds
  <2>2. i # 1
    BY <1>2, <2>1, Rest
  <2>3. i - 1 \in DOMAIN Tail(s) /\ Tail(s)[i - 1] = s[i]
    BY <2>2, Rest
  <2> QED
    BY <2>1, <2>3, Zenon DEF Kinds
<1>3. Head(s).kind \in Kinds(s)
  BY Rest, Zenon DEF Kinds
<1> QED
  BY <1>1, <1>2, <1>3, Zenon

LEMMA FollowedJoined ==
  ASSUME NEW s, NEW t, IsLine(s), IsLine(t), NEW kind, NEW by,
         Followed(s, kind, by) \/ by \in Kinds(t), kind \notin Kinds(t)
  PROVE  Followed(s \o t, kind, by)
<1> SUFFICES ASSUME NEW i \in DOMAIN (s \o t), (s \o t)[i].kind = kind
             PROVE  \E j \in DOMAIN (s \o t) : i < j /\ (s \o t)[j].kind = by
  BY DEF Followed
<1>1. i \in DOMAIN s /\ s[i].kind = kind
  <2>1. CASE i - Len(s) \in DOMAIN t /\ (s \o t)[i] = t[i - Len(s)]
    BY <2>1, Zenon DEF Kinds
  <2> QED
    BY <2>1, JoinedAt
<1>2. CASE Followed(s, kind, by)
  <2>1. PICK j \in DOMAIN s : i < j /\ s[j].kind = by
    BY <1>1, <1>2 DEF Followed
  <2> QED
    BY <2>1, Joined
<1>3. CASE by \in Kinds(t)
  <2>1. PICK j \in DOMAIN t : t[j].kind = by
    BY <1>3 DEF Kinds
  <2>2. j + Len(s) \in DOMAIN (s \o t) /\ (s \o t)[j + Len(s)] = t[j]
    BY JoinedBehind
  <2>3. i < j + Len(s)
    BY <1>1, Joined
  <2> QED
    BY <2>1, <2>2, <2>3
<1> QED
  BY <1>2, <1>3

LEMMA FollowedRest ==
  ASSUME NEW s, IsLine(s), s # <<>>, NEW kind, NEW by, Followed(s, kind, by)
  PROVE  /\ Followed(Tail(s), kind, by)
         /\ Head(s).kind = kind => by \in Kinds(Tail(s))
<1>1. ASSUME NEW i \in DOMAIN s, s[i].kind = kind
      PROVE  \E j \in DOMAIN Tail(s) : i < j + 1 /\ Tail(s)[j].kind = by
  <2>1. PICK j \in DOMAIN s : i < j /\ s[j].kind = by
    BY <1>1 DEF Followed
  <2>2. j # 1 /\ j \in Int /\ i \in Int
    BY <2>1, Rest
  <2>3. j - 1 \in DOMAIN Tail(s) /\ Tail(s)[j - 1] = s[j] /\ i < (j - 1) + 1
    BY <2>1, <2>2, Rest
  <2> QED
    BY <2>1, <2>3
<1>2. Followed(Tail(s), kind, by)
  <2> SUFFICES ASSUME NEW i \in DOMAIN Tail(s), Tail(s)[i].kind = kind
               PROVE  \E j \in DOMAIN Tail(s) : i < j /\ Tail(s)[j].kind = by
    BY DEF Followed
  <2>1. i + 1 \in DOMAIN s /\ s[i + 1].kind = kind
    BY Rest
  <2>2. PICK j \in DOMAIN Tail(s) : i + 1 < j + 1 /\ Tail(s)[j].kind = by
    BY <1>1, <2>1
  <2>3. i < j
    BY <2>2, Rest
  <2> QED
    BY <2>2, <2>3
<1>3. ASSUME Head(s).kind = kind PROVE by \in Kinds(Tail(s))
  <2>1. 1 \in DOMAIN s /\ s[1].kind = kind
    BY <1>3, Rest
  <2>2. PICK j \in DOMAIN Tail(s) : Tail(s)[j].kind = by
    BY <1>1, <2>1
  <2> QED
    BY <2>2, Zenon DEF Kinds
<1> QED
  BY <1>2, <1>3

LEMMA PrecededJoined ==
  ASSUME NEW s, NEW t, IsLine(s), IsLine(t), NEW kind, NEW by,
         Preceded(s, kind, by), kind \notin Kinds(t) \/ by \in Kinds(s)
  PROVE  Preceded(s \o t, kind, by)
<1> SUFFICES ASSUME NEW i \in DOMAIN (s \o t), (s \o t)[i].kind = kind
             PROVE  \E j \in DOMAIN (s \o t) : j < i /\ (s \o t)[j].kind = by
  BY DEF Preceded
<1>1. CASE i \in DOMAIN s
  <2>1. s[i].kind = kind
    BY <1>1, Joined
  <2>2. PICK j \in DOMAIN s : j < i /\ s[j].kind = by
    BY <1>1, <2>1 DEF Preceded
  <2> QED
    BY <2>2, Joined
<1>2. CASE i \notin DOMAIN s /\ i - Len(s) \in DOMAIN t /\ (s \o t)[i] = t[i - Len(s)]
  <2>1. kind \in Kinds(t)
    BY <1>2, Zenon DEF Kinds
  <2>2. PICK j \in DOMAIN s : s[j].kind = by
    BY <2>1 DEF Kinds
  <2>3. j < i
    BY <1>2, Joined
  <2> QED
    BY <2>2, <2>3, Joined
<1> QED
  BY <1>1, <1>2, JoinedAt

LEMMA PrecededRest ==
  ASSUME NEW s, IsLine(s), s # <<>>, NEW kind, NEW by, Preceded(s, kind, by)
  PROVE  /\ Head(s).kind # kind
         /\ Head(s).kind # by => Preceded(Tail(s), kind, by)
<1>1. Head(s).kind # kind
  <2> SUFFICES ASSUME s[1].kind = kind PROVE FALSE
    BY Rest
  <2>1. PICK j \in DOMAIN s : j < 1
    BY Rest DEF Preceded
  <2> QED
    BY <2>1, Rest
<1>2. ASSUME Head(s).kind # by, NEW i \in DOMAIN Tail(s), Tail(s)[i].kind = kind
      PROVE  \E j \in DOMAIN Tail(s) : j < i /\ Tail(s)[j].kind = by
  <2>1. i + 1 \in DOMAIN s /\ s[i + 1].kind = kind
    BY <1>2, Rest
  <2>2. PICK j \in DOMAIN s : j < i + 1 /\ s[j].kind = by
    BY <2>1 DEF Preceded
  <2>3. j # 1
    BY <1>2, <2>2, Rest
  <2>4. j - 1 \in DOMAIN Tail(s) /\ Tail(s)[j - 1] = s[j] /\ j - 1 < i
    BY <2>2, <2>3, Rest
  <2> QED
    BY <2>2, <2>4
<1> QED
  BY <1>1, <1>2 DEF Preceded

LEMMA SeparatedJoined ==
  ASSUME NEW s, NEW t, IsLine(s), IsLine(t), NEW kind, NEW by, Separated(s, kind, by),
         kind \notin Kinds(t) \/ (Followed(s, kind, by) /\ \A i \in DOMAIN t : t[i].kind = kind => i = 1)
  PROVE  Separated(s \o t, kind, by)
<1> SUFFICES ASSUME NEW i \in DOMAIN (s \o t), NEW j \in DOMAIN (s \o t), i < j,
                    (s \o t)[i].kind = kind, (s \o t)[j].kind = kind
             PROVE  \E k \in DOMAIN (s \o t) : i < k /\ k < j /\ (s \o t)[k].kind = by
  BY DEF Separated
<1>1. CASE j \in DOMAIN s
  <2>1. i \in DOMAIN s
    BY <1>1, Joined
  <2>2. s[i].kind = kind /\ s[j].kind = kind
    BY <1>1, <2>1, Joined
  <2>3. PICK k \in DOMAIN s : i < k /\ k < j /\ s[k].kind = by
    BY <1>1, <2>1, <2>2 DEF Separated
  <2> QED
    BY <2>3, Joined
<1>2. CASE j \notin DOMAIN s /\ j - Len(s) \in DOMAIN t /\ (s \o t)[j] = t[j - Len(s)]
  <2>1. kind \in Kinds(t)
    BY <1>2, Zenon DEF Kinds
  <2>2. j - Len(s) = 1
    BY <1>2, <2>1
  <2>3. i \in DOMAIN s
    BY <1>2, <2>2, Joined
  <2>4. s[i].kind = kind
    BY <2>3, Joined
  <2>5. PICK k \in DOMAIN s : i < k /\ s[k].kind = by
    BY <2>1, <2>3, <2>4 DEF Followed
  <2>6. k < j
    BY <1>2, <2>2, Joined
  <2> QED
    BY <2>5, <2>6, Joined
<1> QED
  BY <1>1, <1>2, JoinedAt

LEMMA SeparatedRest ==
  ASSUME NEW s, IsLine(s), s # <<>>, NEW kind, NEW by, Separated(s, kind, by)
  PROVE  /\ Separated(Tail(s), kind, by)
         /\ Head(s).kind = kind => Preceded(Tail(s), kind, by)
<1>1. ASSUME NEW i \in DOMAIN s, NEW j \in DOMAIN Tail(s), i < j + 1,
             s[i].kind = kind, Tail(s)[j].kind = kind
      PROVE  \E k \in DOMAIN Tail(s) : i < k + 1 /\ k < j /\ Tail(s)[k].kind = by
  <2>1. j + 1 \in DOMAIN s /\ s[j + 1].kind = kind
    BY <1>1, Rest
  <2>2. PICK k \in DOMAIN s : i < k /\ k < j + 1 /\ s[k].kind = by
    BY <1>1, <2>1 DEF Separated
  <2>3. k # 1
    BY <2>2, Rest
  <2>4. k - 1 \in DOMAIN Tail(s) /\ Tail(s)[k - 1] = s[k] /\ i < (k - 1) + 1 /\ k - 1 < j
    BY <2>2, <2>3, Rest
  <2> QED
    BY <2>2, <2>4
<1>2. Separated(Tail(s), kind, by)
  <2> SUFFICES ASSUME NEW i \in DOMAIN Tail(s), NEW j \in DOMAIN Tail(s), i < j,
                      Tail(s)[i].kind = kind, Tail(s)[j].kind = kind
               PROVE  \E k \in DOMAIN Tail(s) : i < k /\ k < j /\ Tail(s)[k].kind = by
    BY DEF Separated
  <2>1. i + 1 \in DOMAIN s /\ s[i + 1].kind = kind /\ i + 1 < j + 1
    BY Rest
  <2>2. PICK k \in DOMAIN Tail(s) : i + 1 < k + 1 /\ k < j /\ Tail(s)[k].kind = by
    BY <1>1, <2>1
  <2>3. i < k
    BY <2>2, Rest
  <2> QED
    BY <2>2, <2>3
<1>3. ASSUME Head(s).kind = kind, NEW j \in DOMAIN Tail(s), Tail(s)[j].kind = kind
      PROVE  \E k \in DOMAIN Tail(s) : k < j /\ Tail(s)[k].kind = by
  <2>1. 1 \in DOMAIN s /\ s[1].kind = kind /\ 1 < j + 1
    BY <1>3, Rest
  <2> QED
    BY <1>1, <1>3, <2>1
<1> QED
  BY <1>2, <1>3 DEF Preceded

-----------------------------------------------------------------------------
(* Settling, of one subject: new messages that spoil nothing, and that renew *)
(* it if the truth changes or the question was answered.                     *)
LEMMA SettlesSaid ==
  ASSUME NEW s, NEW t, IsLine(s), IsLine(t), NEW subject, NEW answer,
         NEW truth, NEW newTruth, NEW belief, NEW requests, NEW newRequests,
         \A i \in DOMAIN t : ~Spoils(t[i], answer, newTruth),
         Settles(requests, s, subject, answer, truth, belief),
         \/ Renewed(t, subject, answer, newTruth)
         \/ newTruth = truth /\ (subject \in Kinds(requests) => subject \in Kinds(newRequests))
  PROVE  Settles(newRequests, s \o t, subject, answer, newTruth, belief)
<1>1. ASSUME NEW i \in DOMAIN (s \o t), Spoils((s \o t)[i], answer, newTruth)
      PROVE  i \in DOMAIN s /\ Spoils(s[i], answer, newTruth)
  BY <1>1, JoinedAt
<1>2. ASSUME NEW i \in DOMAIN s, Renews(s[i], subject, answer, newTruth)
      PROVE  i \in DOMAIN (s \o t) /\ Renews((s \o t)[i], subject, answer, newTruth)
  BY <1>2, Joined
<1>3. CASE Renewed(t, subject, answer, newTruth)
  <2>1. PICK k \in DOMAIN t : Renews(t[k], subject, answer, newTruth)
    BY <1>3 DEF Renewed
  <2>2. k + Len(s) \in DOMAIN (s \o t) /\ Renews((s \o t)[k + Len(s)], subject, answer, newTruth)
    BY <2>1, JoinedBehind
  <2>3. ASSUME NEW i \in DOMAIN s PROVE i < k + Len(s)
    BY <2>1, Joined
  <2>4. Mended(s \o t, subject, answer, newTruth)
    BY <1>1, <2>2, <2>3 DEF Mended
  <2> QED
    BY <2>2, <2>4 DEF Settles, Renewed
<1>4. CASE /\ newTruth = truth
           /\ Mended(s, subject, answer, truth)
           /\ belief = truth \/ Renewed(s, subject, answer, truth)
  <2>1. Mended(s \o t, subject, answer, newTruth)
    <3> SUFFICES ASSUME NEW i \in DOMAIN (s \o t), Spoils((s \o t)[i], answer, newTruth)
                 PROVE  \E j \in DOMAIN (s \o t) :
                            i < j /\ Renews((s \o t)[j], subject, answer, newTruth)
      BY DEF Mended
    <3>1. PICK j \in DOMAIN s : i < j /\ Renews(s[j], subject, answer, newTruth)
      BY <1>1, <1>4 DEF Mended
    <3> QED
      BY <1>2, <3>1
  <2>2. belief = newTruth \/ Renewed(s \o t, subject, answer, newTruth)
    BY <1>2, <1>4 DEF Renewed
  <2> QED
    BY <2>1, <2>2 DEF Settles
<1>5. CASE subject \in Kinds(newRequests)
  BY <1>5 DEF Settles
<1> QED
  BY <1>3, <1>4, <1>5 DEF Settles

(* The client has taken a message. *)
LEMMA SettlesHeard ==
  ASSUME NEW s, IsLine(s), s # <<>>, NEW subject, NEW answer,
         NEW truth, NEW belief, NEW newBelief, NEW requests, NEW newRequests,
         Settles(requests, s, subject, answer, truth, belief),
         subject \in Kinds(requests) => subject \in Kinds(newRequests),
         Renews(Head(s), subject, answer, truth)
           => \/ subject \in Kinds(newRequests) \/ newBelief = truth
              \/ Renewed(Tail(s), subject, answer, truth),
         Renews(Head(s), subject, answer, truth) \/ Spoils(Head(s), answer, truth)
           \/ newBelief = belief
  PROVE  Settles(newRequests, Tail(s), subject, answer, truth, newBelief)
<1> SUFFICES ASSUME subject \notin Kinds(newRequests)
             PROVE  /\ Mended(Tail(s), subject, answer, truth)
                    /\ newBelief = truth \/ Renewed(Tail(s), subject, answer, truth)
  BY DEF Settles
<1>1. /\ Mended(s, subject, answer, truth)
      /\ belief = truth \/ Renewed(s, subject, answer, truth)
  BY DEF Settles
<1>2. ASSUME NEW i \in DOMAIN s, Spoils(s[i], answer, truth)
      PROVE  \E j \in DOMAIN Tail(s) : i < j + 1 /\ Renews(Tail(s)[j], subject, answer, truth)
  <2>1. PICK j \in DOMAIN s : i < j /\ Renews(s[j], subject, answer, truth)
    BY <1>1, <1>2 DEF Mended
  <2>2. j # 1 /\ j - 1 + 1 = j
    BY <2>1, Rest
  <2>3. j - 1 \in DOMAIN Tail(s) /\ Tail(s)[j - 1] = s[j]
    BY <2>2, Rest
  <2> QED
    BY <2>1, <2>2, <2>3
<1>3. Mended(Tail(s), subject, answer, truth)
  <2> SUFFICES ASSUME NEW i \in DOMAIN Tail(s), Spoils(Tail(s)[i], answer, truth)
               PROVE  \E j \in DOMAIN Tail(s) : i < j /\ Renews(Tail(s)[j], subject, answer, truth)
    BY DEF Mended
  <2>1. i + 1 \in DOMAIN s /\ Spoils(s[i + 1], answer, truth)
    BY Rest
  <2>2. PICK j \in DOMAIN Tail(s) : i + 1 < j + 1 /\ Renews(Tail(s)[j], subject, answer, truth)
    BY <1>2, <2>1
  <2>3. i < j
    BY <2>2, Rest
  <2> QED
    BY <2>2, <2>3
<1>4. CASE Spoils(Head(s), answer, truth)
  <2>1. 1 \in DOMAIN s /\ Spoils(s[1], answer, truth)
    BY <1>4, Rest
  <2>2. Renewed(Tail(s), subject, answer, truth)
    BY <1>2, <2>1 DEF Renewed
  <2> QED
    BY <1>3, <2>2
<1>5. CASE Renews(Head(s), subject, answer, truth)
  BY <1>3, <1>5
<1>6. CASE newBelief = belief /\ ~Renews(Head(s), subject, answer, truth)
  <2>1. CASE belief = truth
    BY <1>3, <1>6, <2>1
  <2>2. CASE Renewed(s, subject, answer, truth)
    <3>1. PICK i \in DOMAIN s : Renews(s[i], subject, answer, truth)
      BY <2>2 DEF Renewed
    <3>2. i # 1
      BY <1>6, <3>1, Rest
    <3>3. i - 1 \in DOMAIN Tail(s) /\ Tail(s)[i - 1] = s[i]
      BY <3>2, Rest
    <3>4. Renewed(Tail(s), subject, answer, truth)
      BY <3>1, <3>3 DEF Renewed
    <3> QED
      BY <1>3, <3>4
  <2> QED
    BY <1>1, <2>1, <2>2
<1> QED
  BY <1>4, <1>5, <1>6

LEMMA KindRenews ==
  ASSUME NEW t, NEW subject, NEW answer, NEW truth, NEW kind \in {"up", subject}, kind \in Kinds(t)
  PROVE  Renewed(t, subject, answer, truth)
<1>1. PICK i \in DOMAIN t : t[i].kind = kind
  BY DEF Kinds
<1> QED
  BY <1>1, Zenon DEF Renewed, Renews

LEMMA KindsSpareIt ==
  ASSUME NEW t, NEW answer, NEW truth, Kinds(t) \cap {"gone", answer} = {}, NEW i \in DOMAIN t
  PROVE  ~Spoils(t[i], answer, truth)
<1>1. t[i].kind \in Kinds(t)
  BY Zenon DEF Kinds
<1> QED
  BY <1>1, Zenon DEF Spoils

(* Lines the service and the client make. *)
LEMMA OneLine ==
  ASSUME NEW m
  PROVE  IsLine(<<m>>) /\ Kinds(<<m>>) = {m.kind}
<1>1. <<m>> \in Seq({m}) /\ Len(<<m>>) = 1 /\ <<m>>[1] = m /\ DOMAIN <<m>> = {1}
  OBVIOUS
<1>2. IsLine(<<m>>)
  BY <1>1, SeqIsLine
<1> QED
  BY <1>1, <1>2 DEF Kinds

LEMMA NoLine == IsLine(<<>>) /\ Kinds(<<>>) = {}
<1>1. <<>> \in Seq({}) /\ DOMAIN <<>> = {}
  OBVIOUS
<1> QED
  BY <1>1, SeqIsLine DEF Kinds

LEMMA ErrorsLine ==
  ASSUME NEW requests, IsLine(requests)
  PROVE  LET errors == [i \in DOMAIN requests |-> Reply("error", requests[i].kind)]
         IN  IsLine(errors) /\ Kinds(errors) \subseteq {"error"}
<1> DEFINE errors == [i \in DOMAIN requests |-> Reply("error", requests[i].kind)]
           E == {Reply("error", requests[i].kind) : i \in DOMAIN requests}
<1>1. Len(requests) \in Nat /\ DOMAIN requests = 1 .. Len(requests)
  BY LineIsSeq
<1>2. errors \in [1 .. Len(requests) -> E]
  BY <1>1, Zenon
<1>3. errors \in Seq(E)
  <2> HIDE DEF errors, E
  <2>1. Seq(E) = UNION {[1 .. n -> E] : n \in Nat}
    BY SeqDef
  <2> QED
    BY <1>1, <1>2, <2>1
<1>4. ASSUME NEW i \in DOMAIN errors PROVE errors[i].kind = "error"
  BY <1>4 DEF Reply
<1> HIDE DEF errors
<1>5. IsLine(errors) /\ Kinds(errors) \subseteq {"error"}
  BY <1>3, <1>4, SeqIsLine, Zenon DEF Kinds
<1> QED
  BY <1>5 DEF errors

-----------------------------------------------------------------------------
(* The steps of the service.  What it tells the client while it runs. *)
LEMMA TellsKeeps ==
  ASSUME AgreementInv, running, UNCHANGED <<running, clientRuns, client>>, IsLine(toService'),
         NEW t, IsLine(t), Deliver(t), Kinds(t) \cap {"up", "gone"} = {},
         \A i \in DOMAIN t : ~Spoils(t[i], "listed", user') /\ ~Spoils(t[i], "activeIs", active'),
         \/ Renewed(t, "list", "listed", user')
         \/ user' = user /\ ("list" \in Kinds(toService) => "list" \in Kinds(toService')),
         \/ Renewed(t, "active", "activeIs", active')
         \/ active' = active /\ ("active" \in Kinds(toService) => "active" \in Kinds(toService'))
  PROVE  AgreementInv'
<1>1. IsLine(toService) /\ IsLine(toClient)
  BY DEF AgreementInv
<1>2. /\ running' = running /\ clientRuns' = clientRuns /\ connected' = connected
      /\ list' = list /\ shown' = shown
  BY DEF client
<1>3. CASE ~clientRuns
  BY <1>1, <1>2, <1>3 DEF AgreementInv, Deliver
<1>4. CASE clientRuns
  <2>1. toClient' = toClient \o t
    BY <1>4 DEF Deliver
  <2>2. IsLine(toClient') /\ Kinds(toClient') = Kinds(toClient) \union Kinds(t)
    BY <1>1, <2>1, Joined, KindsJoined
  <2>3. Turns /\ Link /\ Settling
    BY <1>4 DEF AgreementInv
  <2>4. Turns'
    <3>1. Separated(toClient', "up", "gone")
      BY <1>1, <2>1, <2>3, SeparatedJoined DEF Turns
    <3>2. connected => Preceded(toClient', "up", "gone")
      BY <1>1, <2>1, <2>3, PrecededJoined DEF Turns
    <3> QED
      BY <1>2, <3>1, <3>2 DEF Turns
  <2>5. Link'
    <3>1. Followed(toClient', "gone", "up")
      BY <1>1, <2>1, <2>3, FollowedJoined DEF Link
    <3> QED
      BY <1>2, <2>2, <2>3, <3>1 DEF Link
  <2>6. Settles(toService', toClient', "list", "listed", user', list)
    BY <1>1, <2>1, <2>3, SettlesSaid DEF Settling
  <2>7. Settles(toService', toClient', "active", "activeIs", active', shown)
    BY <1>1, <2>1, <2>3, SettlesSaid DEF Settling
  <2> QED
    BY <1>2, <2>2, <2>4, <2>5, <2>6, <2>7 DEF AgreementInv, Settling
<1> QED
  BY <1>3, <1>4

LEMMA SignalsLine ==
  ASSUME NEW users
  PROVE  /\ IsLine(Signals(users)) /\ Kinds(Signals(users)) \subseteq {"active", "list"}
         /\ Applies(users) => "active" \in Kinds(Signals(users))
<1> DEFINE A == [kind |-> "active"]
           L == [kind |-> "list"]
<1>2. A.kind = "active" /\ L.kind = "list"
  OBVIOUS
<1>3. IsLine(<<A, L>>) /\ Kinds(<<A, L>>) = {"active", "list"}
  <2> HIDE DEF A, L
  <2>1. /\ <<A, L>> \in Seq({A, L}) /\ DOMAIN <<A, L>> = {1, 2}
        /\ <<A, L>>[1] = A /\ <<A, L>>[2] = L
    OBVIOUS
  <2>2. IsLine(<<A, L>>)
    BY <2>1, SeqIsLine
  <2>3. Kinds(<<A, L>>) = {A.kind, L.kind}
    BY <2>1 DEF Kinds
  <2> QED
    BY <1>2, <2>2, <2>3
<1>4. Signals(users) = IF Applies(users) THEN <<A, L>> ELSE <<>>
  BY DEF Signals
<1> HIDE DEF A, L
<1> QED
  BY <1>3, <1>4, NoLine

LEMMA AnswerLine ==
  ASSUME NEW asked, NEW ok
  PROVE  IsLine(Answer(asked, ok)) /\ Kinds(Answer(asked, ok)) \subseteq {"edited"}
<1>1. Reply("edited", ok).kind = "edited"
  BY DEF Reply
<1>2. IsLine(<<Reply("edited", ok)>>) /\ Kinds(<<Reply("edited", ok)>>) = {"edited"}
  BY <1>1, OneLine
<1> QED
  BY <1>2, NoLine DEF Answer

(* Whatever a save or a removal changes, it tells. *)
LEMMA EditTells ==
  ASSUME NEW request, NEW asked, SaveProfile(request, asked) \/ RemoveProfile(request, asked)
  PROVE  \E t : /\ IsLine(t) /\ Deliver(t) /\ Kinds(t) \subseteq {"list", "active", "edited"}
                /\ user' = user \/ "list" \in Kinds(t)
                /\ active' = active \/ "active" \in Kinds(t)
<1> DEFINE L == <<[kind |-> "list"]>>
<1>1. IsLine(L) /\ Kinds(L) = {"list"}
  <2>1. [kind |-> "list"].kind = "list"
    OBVIOUS
  <2> QED
    BY <2>1, OneLine
<1>2. CASE Refused(asked)
  <2>1. UNCHANGED <<repo, force>> /\ Deliver(Answer(asked, FALSE))
    BY <1>2, Zenon DEF Refused
  <2>3. user' = user /\ active' = active
    BY <2>1 DEF repo, force
  <2>2. IsLine(Answer(asked, FALSE)) /\ Kinds(Answer(asked, FALSE)) \subseteq {"edited"}
    BY AnswerLine
  <2> QED
    BY <2>1, <2>2, <2>3
<1>3. ASSUME NEW users, Changed(users, asked)
      PROVE  \E t : /\ IsLine(t) /\ Deliver(t) /\ Kinds(t) \subseteq {"list", "active", "edited"}
                    /\ user' = user \/ "list" \in Kinds(t)
                    /\ active' = active \/ "active" \in Kinds(t)
  <2>1. CASE Applied(users) /\ Deliver(L \o Signals(users) \o Answer(asked, Applies(users)))
    <3> DEFINE S == Signals(users)
               R == Answer(asked, Applies(users))
    <3>1. /\ IsLine(S) /\ Kinds(S) \subseteq {"active", "list"}
          /\ Applies(users) => "active" \in Kinds(S)
          /\ IsLine(R) /\ Kinds(R) \subseteq {"edited"}
      BY SignalsLine, AnswerLine
    <3>2. active' = active \/ Applies(users)
      BY <2>1 DEF Applied, force
    <3> HIDE DEF S, R, L
    <3>3. IsLine(L \o S) /\ Kinds(L \o S) = Kinds(L) \union Kinds(S)
      BY <1>1, <3>1, Joined, KindsJoined
    <3>4. /\ IsLine(L \o S \o R)
          /\ Kinds(L \o S \o R) = Kinds(L) \union Kinds(S) \union Kinds(R)
      BY <3>1, <3>3, Joined, KindsJoined
    <3>5. Deliver(L \o S \o R)
      BY <2>1 DEF S, R
    <3> QED
      BY <1>1, <3>1, <3>2, <3>4, <3>5
  <2>2. CASE UNCHANGED force /\ Deliver(L \o Answer(asked, FALSE))
    <3> DEFINE R == Answer(asked, FALSE)
    <3>1. IsLine(R) /\ Kinds(R) \subseteq {"edited"}
      BY AnswerLine
    <3>2. active' = active
      BY <2>2 DEF force
    <3>3. Deliver(L \o R)
      BY <2>2
    <3> HIDE DEF R, L
    <3>4. IsLine(L \o R) /\ Kinds(L \o R) = Kinds(L) \union Kinds(R)
      BY <1>1, <3>1, Joined, KindsJoined
    <3> QED
      BY <1>1, <3>1, <3>2, <3>3, <3>4
  <2> QED
    BY <1>3, <2>1, <2>2 DEF Changed
<1>4. Refused(asked) \/ \E users : Changed(users, asked)
  BY DEF SaveProfile, RemoveProfile
<1> QED
  BY <1>2, <1>3, <1>4

(* A caller's edit, the client's or another's: the calls of the client left *)
(* to be served still ask what they asked.                                  *)
LEMMA EditAgrees ==
  ASSUME AgreementInv, running, UNCHANGED <<running, clientRuns, client>>, IsLine(toService'),
         Kinds(toService) \cap {"list", "active"} \subseteq Kinds(toService'),
         NEW request, NEW asked, SaveProfile(request, asked) \/ RemoveProfile(request, asked)
  PROVE  AgreementInv'
<1>1. PICK t : /\ IsLine(t) /\ Deliver(t) /\ Kinds(t) \subseteq {"list", "active", "edited"}
               /\ user' = user \/ "list" \in Kinds(t)
               /\ active' = active \/ "active" \in Kinds(t)
  BY EditTells
<1>2. Kinds(t) \cap {"up", "gone"} = {}
  BY <1>1
<1>3. \A i \in DOMAIN t : ~Spoils(t[i], "listed", user') /\ ~Spoils(t[i], "activeIs", active')
  <2>1. Kinds(t) \cap {"gone", "listed"} = {} /\ Kinds(t) \cap {"gone", "activeIs"} = {}
    BY <1>1
  <2> QED
    BY <2>1, KindsSpareIt
<1>4. \/ Renewed(t, "list", "listed", user')
      \/ user' = user /\ ("list" \in Kinds(toService) => "list" \in Kinds(toService'))
  BY <1>1, KindRenews
<1>5. \/ Renewed(t, "active", "activeIs", active')
      \/ active' = active /\ ("active" \in Kinds(toService) => "active" \in Kinds(toService'))
  BY <1>1, KindRenews
<1> QED
  BY <1>1, <1>2, <1>3, <1>4, <1>5, TellsKeeps

LEMMA ServeAgrees ==
  ASSUME AgreementInv, Serve
  PROVE  AgreementInv'
<1>1. /\ running /\ toService # <<>> /\ toService' = Tail(toService)
      /\ UNCHANGED <<running, clientRuns, client>>
  BY DEF Serve, bounds
<1>2. /\ IsLine(toService) /\ IsLine(toService')
      /\ Kinds(toService) = {Head(toService).kind} \union Kinds(toService')
  BY <1>1, Rest, KindsRest DEF AgreementInv
<1>3. ASSUME NEW request, SaveProfile(request, TRUE) \/ RemoveProfile(request, TRUE),
             request = Head(toService), request.kind \in {"save", "remove"}
      PROVE  AgreementInv'
  <2>1. Kinds(toService) \cap {"list", "active"} \subseteq Kinds(toService')
    BY <1>2, <1>3
  <2> QED
    BY <1>1, <1>2, <1>3, <2>1, EditAgrees
<1>4. CASE Head(toService).kind = "list" /\ Deliver(<<Reply("listed", user)>>)
           /\ UNCHANGED <<repo, force>>
  <2> DEFINE t == <<Reply("listed", user)>>
  <2>1. user' = user /\ active' = active
    BY <1>4 DEF repo, force
  <2>2. Reply("listed", user).kind = "listed" /\ Reply("listed", user).value = user
    BY DEF Reply
  <2>3. IsLine(t) /\ Kinds(t) = {"listed"} /\ DOMAIN t = {1} /\ t[1] = Reply("listed", user)
    BY <2>2, OneLine
  <2>4. Deliver(t)
    BY <1>4
  <2> HIDE DEF t
  <2>5. \A i \in DOMAIN t : ~Spoils(t[i], "listed", user') /\ ~Spoils(t[i], "activeIs", active')
    BY <2>1, <2>2, <2>3 DEF Spoils
  <2>6. Renewed(t, "list", "listed", user')
    BY <2>1, <2>2, <2>3 DEF Renewed, Renews
  <2>7. "active" \in Kinds(toService) => "active" \in Kinds(toService')
    BY <1>2, <1>4
  <2>8. Kinds(t) \cap {"up", "gone"} = {}
    BY <2>3
  <2> QED
    BY <1>1, <1>2, <2>1, <2>3, <2>4, <2>5, <2>6, <2>7, <2>8, TellsKeeps
<1>5. CASE Head(toService).kind = "active" /\ Deliver(<<Reply("activeIs", active)>>)
           /\ UNCHANGED <<repo, force>>
  <2> DEFINE t == <<Reply("activeIs", active)>>
  <2>1. user' = user /\ active' = active
    BY <1>5 DEF repo, force
  <2>2. Reply("activeIs", active).kind = "activeIs" /\ Reply("activeIs", active).value = active
    BY DEF Reply
  <2>3. IsLine(t) /\ Kinds(t) = {"activeIs"} /\ DOMAIN t = {1} /\ t[1] = Reply("activeIs", active)
    BY <2>2, OneLine
  <2>4. Deliver(t)
    BY <1>5
  <2> HIDE DEF t
  <2>5. \A i \in DOMAIN t : ~Spoils(t[i], "listed", user') /\ ~Spoils(t[i], "activeIs", active')
    BY <2>1, <2>2, <2>3 DEF Spoils
  <2>6. Renewed(t, "active", "activeIs", active')
    BY <2>1, <2>2, <2>3 DEF Renewed, Renews
  <2>7. "list" \in Kinds(toService) => "list" \in Kinds(toService')
    BY <1>2, <1>5
  <2>8. Kinds(t) \cap {"up", "gone"} = {}
    BY <2>3
  <2> QED
    BY <1>1, <1>2, <2>1, <2>3, <2>4, <2>5, <2>6, <2>7, <2>8, TellsKeeps
<1> QED
  BY <1>3, <1>4, <1>5 DEF Serve

(* main tells that the name is taken before it tells what was applied. *)
LEMMA StartAgrees ==
  ASSUME AgreementInv, Start
  PROVE  AgreementInv'
<1> DEFINE U == [kind |-> "up"]
           S == Signals(user')
           t == <<U>> \o S
<1>1. /\ ~running /\ running' /\ Deliver(t)
      /\ toService' = toService /\ clientRuns' = clientRuns
      /\ connected' = connected /\ list' = list /\ shown' = shown
  BY DEF Start, client, bounds
<1>2. /\ IsLine(<<U>>) /\ Kinds(<<U>>) = {"up"} /\ DOMAIN <<U>> = {1} /\ <<U>>[1] = U
      /\ IsLine(S) /\ Kinds(S) \subseteq {"active", "list"}
  BY OneLine, SignalsLine
<1>3. IsLine(t) /\ Kinds(t) = {"up"} \union Kinds(S)
  <2> HIDE DEF U, S
  <2> QED
    BY <1>2, Joined, KindsJoined
<1>4. \A i \in DOMAIN t : t[i].kind = "up" => i = 1
  <2> HIDE DEF U, S
  <2> SUFFICES ASSUME NEW i \in DOMAIN t, t[i].kind = "up", i \notin DOMAIN <<U>>
               PROVE  FALSE
    BY <1>2
  <2>1. i - Len(<<U>>) \in DOMAIN S /\ t[i] = S[i - Len(<<U>>)]
    BY <1>2, JoinedAt
  <2>2. t[i].kind \in Kinds(S)
    BY <2>1, Zenon DEF Kinds
  <2> QED
    BY <1>2, <2>2
<1> HIDE DEF U, S, t
<1>5. IsLine(toService) /\ IsLine(toClient)
  BY DEF AgreementInv
<1>6. CASE ~clientRuns
  BY <1>1, <1>5, <1>6 DEF AgreementInv, Deliver
<1>7. CASE clientRuns
  <2>1. toClient' = toClient \o t /\ Turns /\ Link
    BY <1>1, <1>7 DEF Deliver, AgreementInv
  <2>2. IsLine(toClient') /\ Kinds(toClient') = Kinds(toClient) \union Kinds(t)
    BY <1>3, <1>5, <2>1, Joined, KindsJoined
  <2>3. /\ ~connected \/ "gone" \in Kinds(toClient)
        /\ Followed(toClient, "up", "gone")
    BY <1>1, <2>1 DEF Link
  <2>4. Turns'
    <3>1. Separated(toClient', "up", "gone")
      BY <1>3, <1>4, <1>5, <2>1, <2>3, SeparatedJoined DEF Turns
    <3>2. connected => Preceded(toClient', "up", "gone")
      BY <1>3, <1>5, <2>1, <2>3, PrecededJoined DEF Turns
    <3> QED
      BY <1>1, <3>1, <3>2 DEF Turns
  <2>5. Link'
    <3>1. Followed(toClient', "gone", "up")
      <4>1. "up" \in Kinds(t) /\ "gone" \notin Kinds(t)
        BY <1>2, <1>3
      <4> QED
        BY <1>3, <1>5, <2>1, <4>1, FollowedJoined
    <3> QED
      BY <1>1, <1>3, <2>2, <3>1 DEF Link
  <2>6. ASSUME NEW subject, NEW answer \in {"listed", "activeIs"}, NEW truth, NEW belief
        PROVE  Settles(toService', toClient', subject, answer, truth, belief)
    <3>1. \A i \in DOMAIN t : ~Spoils(t[i], answer, truth)
      <4>1. Kinds(t) \cap {"gone", answer} = {}
        BY <1>2, <1>3
      <4> QED
        BY <4>1, KindsSpareIt
    <3>2. Renewed(t, subject, answer, truth)
      <4>1. "up" \in Kinds(t) /\ "up" \in {"up", subject}
        BY <1>3
      <4> QED
        BY <4>1, KindRenews
    <3>3. PICK k \in DOMAIN t : Renews(t[k], subject, answer, truth)
      BY <3>2 DEF Renewed
    <3>4. k + Len(toClient) \in DOMAIN (toClient \o t)
          /\ Renews((toClient \o t)[k + Len(toClient)], subject, answer, truth)
      BY <1>3, <1>5, <3>3, JoinedBehind
    <3>5. ASSUME NEW i \in DOMAIN (toClient \o t), Spoils((toClient \o t)[i], answer, truth)
          PROVE  i < k + Len(toClient)
      <4>1. i \in DOMAIN toClient
        BY <1>3, <1>5, <3>1, <3>5, JoinedAt
      <4> QED
        BY <1>3, <1>5, <3>3, <4>1, Joined
    <3>6. Mended(toClient', subject, answer, truth) /\ Renewed(toClient', subject, answer, truth)
      BY <2>1, <3>4, <3>5 DEF Mended, Renewed
    <3> QED
      BY <3>6 DEF Settles
  <2>7. Settling'
    BY <2>6 DEF Settling
  <2> QED
    BY <1>1, <1>5, <2>2, <2>4, <2>5, <2>7 DEF AgreementInv
<1> QED
  BY <1>6, <1>7

(* The end of the process: the client hears of it before anything else. *)
LEMMA CrashAgrees ==
  ASSUME AgreementInv, Crash
  PROVE  AgreementInv'
<1> DEFINE errors == [i \in DOMAIN toService |-> Reply("error", toService[i].kind)]
           gone == <<[kind |-> "gone"]>>
<1>1. /\ ~running' /\ toService' = <<>>
      /\ Deliver(gone \o errors) \/ Deliver(errors \o gone)
      /\ clientRuns' = clientRuns /\ connected' = connected
  BY DEF Crash, client
<1>2. IsLine(toService) /\ IsLine(toClient)
  BY DEF AgreementInv
<1>3. IsLine(gone) /\ Kinds(gone) = {"gone"}
  <2>1. [kind |-> "gone"].kind = "gone"
    OBVIOUS
  <2> QED
    BY <2>1, OneLine
<1>4. IsLine(errors) /\ Kinds(errors) \subseteq {"error"}
  BY <1>2, ErrorsLine
<1> HIDE DEF errors, gone
<1>5. \E t : Deliver(t) /\ IsLine(t) /\ "gone" \in Kinds(t) /\ "up" \notin Kinds(t)
  <2>1. IsLine(gone \o errors) /\ Kinds(gone \o errors) = Kinds(gone) \union Kinds(errors)
    BY <1>3, <1>4, Joined, KindsJoined
  <2>2. IsLine(errors \o gone) /\ Kinds(errors \o gone) = Kinds(errors) \union Kinds(gone)
    BY <1>3, <1>4, Joined, KindsJoined
  <2> QED
    BY <1>1, <1>3, <1>4, <2>1, <2>2
<1>6. PICK t : Deliver(t) /\ IsLine(t) /\ "gone" \in Kinds(t) /\ "up" \notin Kinds(t)
  BY <1>5
<1>7. CASE ~clientRuns
  BY <1>1, <1>2, <1>6, <1>7, NoLine DEF AgreementInv, Deliver
<1>8. CASE clientRuns
  <2>1. toClient' = toClient \o t /\ Turns
    BY <1>6, <1>8 DEF Deliver, AgreementInv
  <2>2. IsLine(toClient') /\ Kinds(toClient') = Kinds(toClient) \union Kinds(t)
    BY <1>2, <1>6, <2>1, Joined, KindsJoined
  <2>3. Separated(toClient', "up", "gone") /\ (connected => Preceded(toClient', "up", "gone"))
    BY <1>2, <1>6, <2>1, SeparatedJoined, PrecededJoined DEF Turns
  <2>4. Followed(toClient', "up", "gone")
    BY <1>2, <1>6, <2>1, FollowedJoined
  <2>5. Turns' /\ Link'
    BY <1>1, <1>6, <2>2, <2>3, <2>4 DEF Turns, Link
  <2> QED
    BY <1>1, <2>2, <2>5, NoLine DEF AgreementInv
<1> QED
  BY <1>7, <1>8

-----------------------------------------------------------------------------
(* The steps of the client.  Its calls, and the errors a service that is    *)
(* gone answers them with.                                                   *)
LEMMA CallsMade ==
  ASSUME AgreementInv, toClient # <<>>, NEW r, IsLine(r), Calls(r)
  PROVE  \E e : /\ IsLine(e) /\ Kinds(e) \subseteq {"error"}
                /\ toClient' = Tail(toClient) \o e /\ IsLine(toClient')
                /\ IsLine(toService')
                /\ running => toClient' = Tail(toClient)
                              /\ Kinds(toService') = Kinds(toService) \union Kinds(r)
<1> DEFINE errors == [i \in DOMAIN r |-> Reply("error", r[i].kind)]
<1>1. IsLine(toService) /\ IsLine(toClient) /\ IsLine(Tail(toClient))
  BY Rest DEF AgreementInv
<1>2. CASE running
  <2>1. toService' = toService \o r /\ toClient' = Tail(toClient)
    BY <1>2 DEF Calls
  <2>2. IsLine(toService') /\ Kinds(toService') = Kinds(toService) \union Kinds(r)
    BY <1>1, <2>1, Joined, KindsJoined
  <2>3. Tail(toClient) = Tail(toClient) \o <<>>
    BY <1>1, LineIsSeq, ConcatEmptySeq
  <2>4. IsLine(<<>>) /\ Kinds(<<>>) \subseteq {"error"}
    BY NoLine
  <2> QED
    BY <1>1, <2>1, <2>2, <2>3, <2>4
<1>3. CASE ~running
  <2>1. toService' = toService /\ toClient' = Tail(toClient) \o errors
    BY <1>3 DEF Calls
  <2>2. IsLine(errors) /\ Kinds(errors) \subseteq {"error"}
    BY ErrorsLine
  <2> HIDE DEF errors
  <2>3. IsLine(toClient')
    BY <1>1, <2>1, <2>2, Joined
  <2> QED
    BY <1>1, <1>3, <2>1, <2>2, <2>3
<1> QED
  BY <1>2, <1>3

(* The client hears of the service's comings and goings in turn. *)
LEMMA LinkHeard ==
  ASSUME AgreementInv, clientRuns, toClient # <<>>, running' = running,
         NEW e, IsLine(e), Kinds(e) \subseteq {"error"}, toClient' = Tail(toClient) \o e,
         Head(toClient).kind = "up" => connected',
         Head(toClient).kind = "gone" => ~connected',
         Head(toClient).kind \notin {"up", "gone"} => connected' = connected
  PROVE  /\ Turns' /\ Link'
         /\ connected => Head(toClient).kind # "up"
<1> DEFINE s == toClient
           t == Tail(toClient)
<1>1. IsLine(s) /\ IsLine(t) /\ Turns /\ Link
  BY Rest DEF AgreementInv
<1>2. /\ Separated(t, "up", "gone")
      /\ Head(s).kind = "up" => Preceded(t, "up", "gone")
      /\ connected => /\ Head(s).kind # "up"
                      /\ Head(s).kind # "gone" => Preceded(t, "up", "gone")
  BY <1>1, SeparatedRest, PrecededRest DEF Turns
<1>3. Kinds(s) = {Head(s).kind} \union Kinds(t)
  BY <1>1, KindsRest
<1>4. IF running THEN /\ connected \/ "up" \in Kinds(s)
                      /\ Followed(t, "gone", "up") /\ (Head(s).kind = "gone" => "up" \in Kinds(t))
      ELSE /\ ~connected \/ "gone" \in Kinds(s)
           /\ Followed(t, "up", "gone") /\ (Head(s).kind = "up" => "gone" \in Kinds(t))
  BY <1>1, FollowedRest DEF Link
<1> HIDE DEF s, t
<1>5. toClient' = t \o e
  BY DEF t
<1>6. Kinds(toClient') = Kinds(t) \union Kinds(e)
  BY <1>1, <1>5, KindsJoined
<1>7. /\ Separated(toClient', "up", "gone")
      /\ Preceded(t, "up", "gone") => Preceded(toClient', "up", "gone")
      /\ Followed(t, "gone", "up") => Followed(toClient', "gone", "up")
      /\ Followed(t, "up", "gone") => Followed(toClient', "up", "gone")
  <2>1. "up" \notin Kinds(e) /\ "gone" \notin Kinds(e)
    OBVIOUS
  <2> QED
    BY <1>1, <1>2, <1>5, <2>1, SeparatedJoined, PrecededJoined, FollowedJoined
<1>8. Head(s).kind = Head(toClient).kind
  BY DEF s
<1>9. Turns'
  BY <1>2, <1>7, <1>8 DEF Turns
<1>10. Link'
  <2>1. CASE running
    BY <1>3, <1>4, <1>6, <1>7, <1>8, <2>1 DEF Link
  <2>2. CASE ~running
    BY <1>3, <1>4, <1>6, <1>7, <1>8, <2>2 DEF Link
  <2> QED
    BY <2>1, <2>2
<1> QED
  BY <1>2, <1>8, <1>9, <1>10

(* What every step of the client that takes a message has to show: that a   *)
(* message that renews a subject leads to a question or to the truth.       *)
Learns(subject, answer, truth, believed, newBelief) ==
    /\ Renews(Head(toClient), subject, answer, truth)
          => \/ subject \in Kinds(toService') \/ newBelief = truth
             \/ Renewed(toClient', subject, answer, truth)
    /\ Renews(Head(toClient), subject, answer, truth) \/ Spoils(Head(toClient), answer, truth)
          \/ newBelief = believed

LEMMA HeardKeeps ==
  ASSUME AgreementInv, toClient # <<>>, NEW r, IsLine(r), Calls(r),
         UNCHANGED <<running, clientRuns, user, active>>,
         Head(toClient).kind = "up" => connected',
         Head(toClient).kind = "gone" => ~connected',
         Head(toClient).kind \notin {"up", "gone"} => connected' = connected,
         clientRuns /\ running => /\ Learns("list", "listed", user, list, list')
                                  /\ Learns("active", "activeIs", active, shown, shown')
  PROVE  AgreementInv'
<1>1. PICK e : /\ IsLine(e) /\ Kinds(e) \subseteq {"error"}
               /\ toClient' = Tail(toClient) \o e /\ IsLine(toClient')
               /\ IsLine(toService')
               /\ running => toClient' = Tail(toClient)
                             /\ Kinds(toService') = Kinds(toService) \union Kinds(r)
  BY CallsMade
<1>2. CASE ~clientRuns
  BY <1>1, <1>2 DEF AgreementInv
<1>3. CASE clientRuns /\ ~running
  BY <1>1, <1>3, LinkHeard DEF AgreementInv
<1>4. CASE clientRuns /\ running
  <2>1. Turns' /\ Link'
    BY <1>1, <1>4, LinkHeard
  <2>2. IsLine(toClient) /\ Settling
    BY <1>4 DEF AgreementInv
  <2>3. toClient' = Tail(toClient) /\ Kinds(toService) \subseteq Kinds(toService')
    BY <1>1, <1>4
  <2>4. Settles(toService', toClient', "list", "listed", user, list')
    BY <1>4, <2>2, <2>3, SettlesHeard DEF Learns, Settling
  <2>5. Settles(toService', toClient', "active", "activeIs", active, shown')
    BY <1>4, <2>2, <2>3, SettlesHeard DEF Learns, Settling
  <2> QED
    BY <1>1, <1>4, <2>1, <2>4, <2>5 DEF AgreementInv, Settling
<1> QED
  BY <1>2, <1>3, <1>4

(* A message that is no news of a subject. *)
LEMMA NothingLearnt ==
  ASSUME NEW subject, NEW answer, NEW truth, NEW believed,
         Head(toClient).kind \notin {"up", subject, answer}
  PROVE  Learns(subject, answer, truth, believed, believed)
BY Zenon DEF Learns, Renews, Spoils

LEMMA ClientLines ==
  /\ IsLine(RefreshList) /\ Kinds(RefreshList) = {"list"}
  /\ IsLine(RefreshActive) /\ Kinds(RefreshActive) = {"active"}
  /\ IsLine(RefreshList \o RefreshActive)
  /\ Kinds(RefreshList \o RefreshActive) = {"list", "active"}
<1>1. [kind |-> "list"].kind = "list" /\ [kind |-> "active"].kind = "active"
  OBVIOUS
<1>2. /\ IsLine(RefreshList) /\ Kinds(RefreshList) = {"list"}
      /\ IsLine(RefreshActive) /\ Kinds(RefreshActive) = {"active"}
  BY <1>1, OneLine DEF RefreshList, RefreshActive
<1>3. /\ IsLine(RefreshList \o RefreshActive)
      /\ Kinds(RefreshList \o RefreshActive) = {"list"} \union {"active"}
  BY <1>2, Joined, KindsJoined
<1> QED
  BY <1>2, <1>3

LEMMA CallsReach ==
  ASSUME AgreementInv, toClient # <<>>, running, NEW r, IsLine(r), Calls(r)
  PROVE  Kinds(r) \subseteq Kinds(toService') /\ toClient' = Tail(toClient)
BY CallsMade

(* A signal of a subject's change: the client asks, or will when it hears   *)
(* that the service is back.                                                *)
LEMMA SignalLearnt ==
  ASSUME AgreementInv, clientRuns, running, toClient # <<>>,
         NEW r, IsLine(r), Calls(r), NEW subject \in {"list", "active"},
         Head(toClient).kind = subject, connected => subject \in Kinds(r),
         NEW answer \in {"listed", "activeIs"}, NEW truth, NEW believed
  PROVE  Learns(subject, answer, truth, believed, believed)
<1>1. Kinds(r) \subseteq Kinds(toService') /\ toClient' = Tail(toClient)
  BY CallsReach
<1>2. CASE connected
  <2>1. subject \in Kinds(toService')
    BY <1>1, <1>2
  <2> QED
    BY <2>1, Zenon DEF Learns
<1>3. CASE ~connected
  <2>1. IsLine(toClient) /\ "up" \in Kinds(toClient)
    BY <1>3 DEF AgreementInv, Link
  <2>2. "up" \in Kinds(Tail(toClient))
    BY <2>1, KindsRest
  <2>3. Renewed(toClient', subject, answer, truth)
    BY <1>1, <2>2, KindRenews
  <2> QED
    BY <2>3, Zenon DEF Learns
<1> QED
  BY <1>2, <1>3

LEMMA ConnectsAgrees ==
  ASSUME AgreementInv, toClient # <<>>, Connects,
         UNCHANGED <<running, clientRuns, user, active>>
  PROVE  AgreementInv'
<1> DEFINE r == IF connected THEN <<>> ELSE RefreshList \o RefreshActive
<1>1. /\ Head(toClient).kind = "up" /\ connected' = TRUE /\ Calls(r)
      /\ list' = list /\ shown' = shown
  BY DEF Connects
<1>2. IsLine(r)
  BY ClientLines, NoLine
<1>3. ASSUME clientRuns, running
      PROVE  /\ Learns("list", "listed", user, list, list')
             /\ Learns("active", "activeIs", active, shown, shown')
  <2>1. ~connected
    <3>1. IsLine(toClient) /\ (connected => Preceded(toClient, "up", "gone"))
      BY <1>3 DEF AgreementInv, Turns
    <3> QED
      BY <1>1, <3>1, PrecededRest
  <2>2. Kinds(r) = {"list", "active"}
    BY <2>1, ClientLines
  <2> HIDE DEF r
  <2>3. Kinds(r) \subseteq Kinds(toService')
    BY <1>1, <1>2, <1>3, CallsReach
  <2>4. "list" \in Kinds(toService') /\ "active" \in Kinds(toService')
    BY <2>2, <2>3
  <2> QED
    BY <1>1, <2>4, Zenon DEF Learns
<1> HIDE DEF r
<1> QED
  BY <1>1, <1>2, <1>3, HeardKeeps

LEMMA DisconnectsAgrees ==
  ASSUME AgreementInv, toClient # <<>>, Disconnects,
         UNCHANGED <<running, clientRuns, user, active>>
  PROVE  AgreementInv'
<1>1. Head(toClient).kind = "gone" /\ connected' = FALSE /\ Calls(<<>>)
  BY DEF Disconnects
<1>2. ASSUME NEW subject \in {"list", "active"}, NEW answer \in {"listed", "activeIs"},
             NEW truth, NEW believed, NEW newBelief
      PROVE  Learns(subject, answer, truth, believed, newBelief)
  <2>1. Spoils(Head(toClient), answer, truth) /\ ~Renews(Head(toClient), subject, answer, truth)
    BY <1>1 DEF Spoils, Renews
  <2> QED
    BY <2>1, Zenon DEF Learns
<1> QED
  BY <1>1, <1>2, NoLine, HeardKeeps

LEMMA ListChangedAgrees ==
  ASSUME AgreementInv, toClient # <<>>, ListChanged,
         UNCHANGED <<running, clientRuns, user, active>>
  PROVE  AgreementInv'
<1> DEFINE r == IF connected THEN RefreshList ELSE <<>>
<1>1. /\ Head(toClient).kind = "list" /\ Calls(r) /\ connected' = connected
      /\ list' = list /\ shown' = shown
  BY DEF ListChanged, client
<1>2. IsLine(r) /\ (connected => "list" \in Kinds(r))
  BY ClientLines, NoLine
<1> HIDE DEF r
<1>3. clientRuns /\ running => Learns("list", "listed", user, list, list)
  BY <1>1, <1>2, SignalLearnt
<1>4. Learns("active", "activeIs", active, shown, shown)
  <2>1. Head(toClient).kind \notin {"up", "active", "activeIs"}
    BY <1>1
  <2> QED
    BY <2>1, NothingLearnt
<1>5. Head(toClient).kind # "up" /\ Head(toClient).kind # "gone"
  BY <1>1
<1> QED
  BY <1>1, <1>2, <1>3, <1>4, <1>5, HeardKeeps

LEMMA ActiveChangedAgrees ==
  ASSUME AgreementInv, toClient # <<>>, ActiveChanged,
         UNCHANGED <<running, clientRuns, user, active>>
  PROVE  AgreementInv'
<1> DEFINE r == IF connected THEN RefreshActive ELSE <<>>
<1>1. /\ Head(toClient).kind = "active" /\ Calls(r) /\ connected' = connected
      /\ list' = list /\ shown' = shown
  BY DEF ActiveChanged, client
<1>2. IsLine(r) /\ (connected => "active" \in Kinds(r))
  BY ClientLines, NoLine
<1> HIDE DEF r
<1>3. clientRuns /\ running => Learns("active", "activeIs", active, shown, shown)
  BY <1>1, <1>2, SignalLearnt
<1>4. Learns("list", "listed", user, list, list)
  <2>1. Head(toClient).kind \notin {"up", "list", "listed"}
    BY <1>1
  <2> QED
    BY <2>1, NothingLearnt
<1>5. Head(toClient).kind # "up" /\ Head(toClient).kind # "gone"
  BY <1>1
<1> QED
  BY <1>1, <1>2, <1>3, <1>4, <1>5, HeardKeeps

LEMMA ListedAgrees ==
  ASSUME AgreementInv, toClient # <<>>, Listed,
         UNCHANGED <<running, clientRuns, user, active>>
  PROVE  AgreementInv'
<1>1. /\ Head(toClient).kind = "listed" /\ list' = Head(toClient).value
      /\ Calls(<<>>) /\ connected' = connected /\ shown' = shown
  BY DEF Listed
<1>2. Learns("list", "listed", user, list, list')
  <2>1. CASE list' = user
    <3>1. Renews(Head(toClient), "list", "listed", user)
      BY <1>1, <2>1 DEF Renews
    <3> QED
      BY <2>1, <3>1, Zenon DEF Learns
  <2>2. CASE list' # user
    <3>1. /\ Spoils(Head(toClient), "listed", user)
          /\ ~Renews(Head(toClient), "list", "listed", user)
      BY <1>1, <2>2 DEF Spoils, Renews
    <3> QED
      BY <3>1, Zenon DEF Learns
  <2> QED
    BY <2>1, <2>2
<1>3. Learns("active", "activeIs", active, shown, shown)
  <2>1. Head(toClient).kind \notin {"up", "active", "activeIs"}
    BY <1>1
  <2> QED
    BY <2>1, NothingLearnt
<1>4. Head(toClient).kind # "up" /\ Head(toClient).kind # "gone"
  BY <1>1
<1> QED
  BY <1>1, <1>2, <1>3, <1>4, NoLine, HeardKeeps

LEMMA ActiveIsAgrees ==
  ASSUME AgreementInv, toClient # <<>>, ActiveIs,
         UNCHANGED <<running, clientRuns, user, active>>
  PROVE  AgreementInv'
<1>1. /\ Head(toClient).kind = "activeIs" /\ shown' = Head(toClient).value
      /\ Calls(<<>>) /\ connected' = connected /\ list' = list
  BY DEF ActiveIs
<1>2. Learns("active", "activeIs", active, shown, shown')
  <2>1. CASE shown' = active
    <3>1. Renews(Head(toClient), "active", "activeIs", active)
      BY <1>1, <2>1 DEF Renews
    <3> QED
      BY <2>1, <3>1, Zenon DEF Learns
  <2>2. CASE shown' # active
    <3>1. /\ Spoils(Head(toClient), "activeIs", active)
          /\ ~Renews(Head(toClient), "active", "activeIs", active)
      BY <1>1, <2>2 DEF Spoils, Renews
    <3> QED
      BY <3>1, Zenon DEF Learns
  <2> QED
    BY <2>1, <2>2
<1>3. Learns("list", "listed", user, list, list)
  <2>1. Head(toClient).kind \notin {"up", "list", "listed"}
    BY <1>1
  <2> QED
    BY <2>1, NothingLearnt
<1>4. Head(toClient).kind # "up" /\ Head(toClient).kind # "gone"
  BY <1>1
<1> QED
  BY <1>1, <1>2, <1>3, <1>4, NoLine, HeardKeeps

LEMMA AnsweredAgrees ==
  ASSUME AgreementInv, toClient # <<>>, Edited \/ RefreshFailed,
         UNCHANGED <<running, clientRuns, user, active>>
  PROVE  AgreementInv'
<1>1. Head(toClient).kind \in {"edited", "error"}
  BY DEF Edited, RefreshFailed
<1>2. connected' = connected /\ list' = list /\ shown' = shown
  BY DEF Edited, RefreshFailed
<1>3. PICK r : IsLine(r) /\ Calls(r)
  <2>1. CASE Edited
    <3> DEFINE q == IF connected THEN RefreshList \o RefreshActive ELSE <<>>
    <3>1. Calls(q)
      BY <2>1 DEF Edited
    <3>2. IsLine(q)
      BY ClientLines, NoLine
    <3> QED
      BY <3>1, <3>2
  <2>2. CASE RefreshFailed
    BY <2>2, NoLine DEF RefreshFailed
  <2> QED
    BY <2>1, <2>2
<1>4. /\ Learns("list", "listed", user, list, list)
      /\ Learns("active", "activeIs", active, shown, shown)
  <2>1. /\ Head(toClient).kind \notin {"up", "list", "listed"}
        /\ Head(toClient).kind \notin {"up", "active", "activeIs"}
    BY <1>1
  <2> QED
    BY <2>1, NothingLearnt
<1>5. Head(toClient).kind # "up" /\ Head(toClient).kind # "gone"
  BY <1>1
<1> QED
  BY <1>2, <1>3, <1>4, <1>5, HeardKeeps

LEMMA AskEditAgrees ==
  ASSUME AgreementInv, NEW request, AskEdit(request)
  PROVE  AgreementInv'
<1>1. UNCHANGED <<running, clientRuns, user, active, connected, list, shown>>
  BY DEF AskEdit, repo, force
<1>2. IsLine(toService) /\ IsLine(toClient)
  BY DEF AgreementInv
<1>3. ASSUME NEW s, IsLine(s), NEW m PROVE Append(s, m) = s \o <<m>>
  BY <1>3, LineIsSeq, AppendIsConcat
<1>4. CASE UNCHANGED <<toService, toClient>>
  BY <1>1, <1>4 DEF AgreementInv, Turns, Link, Settling
<1>5. CASE running /\ toService' = Append(toService, request) /\ toClient' = toClient
  <2>1. toService' = toService \o <<request>> /\ IsLine(<<request>>)
    BY <1>2, <1>3, <1>5, OneLine
  <2>2. IsLine(toService') /\ Kinds(toService) \subseteq Kinds(toService')
    BY <1>2, <2>1, Joined, KindsJoined
  <2>3. Settling => Settling'
    BY <1>1, <1>5, <2>2 DEF Settling, Settles
  <2>4. Turns' <=> Turns
    BY <1>1, <1>5 DEF Turns
  <2>5. Link' <=> Link
    BY <1>1, <1>5 DEF Link
  <2> QED
    BY <1>1, <1>2, <1>5, <2>2, <2>3, <2>4, <2>5 DEF AgreementInv
<1>6. CASE ~running /\ toClient' = Append(toClient, Reply("error", request.kind))
           /\ toService' = toService
  <2> DEFINE t == <<Reply("error", request.kind)>>
  <2>1. toClient' = toClient \o t
    BY <1>2, <1>3, <1>6
  <2>2. IsLine(t) /\ Kinds(t) = {"error"}
    <3>1. Reply("error", request.kind).kind = "error"
      BY DEF Reply
    <3> QED
      BY <3>1, OneLine
  <2> HIDE DEF t
  <2>3. IsLine(toClient') /\ Kinds(toClient') = Kinds(toClient) \union {"error"}
    BY <1>2, <2>1, <2>2, Joined, KindsJoined
  <2>4. ASSUME clientRuns PROVE Turns' /\ Link'
    <3>1. Turns /\ Link
      BY <2>4 DEF AgreementInv
    <3>2. Separated(toClient', "up", "gone") /\ (connected => Preceded(toClient', "up", "gone"))
      BY <1>2, <2>1, <2>2, <3>1, SeparatedJoined, PrecededJoined DEF Turns
    <3>3. Followed(toClient', "up", "gone")
      BY <1>2, <1>6, <2>1, <2>2, <3>1, FollowedJoined DEF Link
    <3>4. ~connected \/ "gone" \in Kinds(toClient')
      BY <1>6, <2>3, <3>1 DEF Link
    <3> QED
      BY <1>1, <1>6, <3>2, <3>3, <3>4 DEF Turns, Link
  <2> QED
    BY <1>1, <1>2, <1>6, <2>3, <2>4 DEF AgreementInv
<1> QED
  BY <1>4, <1>5, <1>6, Zenon DEF AskEdit, bus

-----------------------------------------------------------------------------
LEMMA ElsewhereAgrees ==
  ASSUME AgreementInv,
         UNCHANGED <<toService, toClient, clientRuns, running, connected, list, shown, user, active>>
  PROVE  AgreementInv'
BY DEF AgreementInv, Turns, Link, Settling

LEMMA InitAgrees == ProfilesInit => AgreementInv
<1> SUFFICES ASSUME ProfilesInit PROVE AgreementInv
  OBVIOUS
<1>1. toService = <<>> /\ toClient = <<>> /\ running = FALSE /\ connected = FALSE
  BY DEF ProfilesInit
<1>2. DOMAIN toClient = {}
  BY <1>1
<1>3. IsLine(toService) /\ IsLine(toClient)
  BY <1>1, NoLine
<1>4. Turns /\ Link
  BY <1>1, <1>2 DEF Turns, Link, Separated, Followed
<1> QED
  BY <1>1, <1>3, <1>4 DEF AgreementInv

LEMMA NextAgrees == AgreementInv /\ [Next]_vars => AgreementInv'
<1> SUFFICES ASSUME AgreementInv, [Next]_vars PROVE AgreementInv'
  OBVIOUS
<1>1. CASE Start
  BY <1>1, StartAgrees
<1>2. CASE Crash
  BY <1>2, CrashAgrees
<1>3. CASE FileUnreadable
  BY <1>3, ElsewhereAgrees DEF FileUnreadable, force, client, bus, bounds
<1>4. CASE Serve
  BY <1>4, ServeAgrees
<1>5. CASE Receive
  <2>1. toClient # <<>> /\ UNCHANGED <<running, clientRuns, user, active>>
    BY <1>5 DEF Receive, repo, force, bounds
  <2>2. \/ Connects \/ Disconnects \/ ListChanged \/ ActiveChanged
        \/ Listed \/ ActiveIs \/ Edited \/ RefreshFailed
    BY <1>5 DEF Receive
  <2> QED
    BY <2>1, <2>2, ConnectsAgrees, DisconnectsAgrees, ListChangedAgrees, ActiveChangedAgrees,
       ListedAgrees, ActiveIsAgrees, AnsweredAgrees
<1>6. ASSUME NEW request \in Requests, AskEdit(request) PROVE AgreementInv'
  BY <1>6, AskEditAgrees
<1>7. ASSUME NEW request \in Requests, OtherEdits(request) PROVE AgreementInv'
  <2>1. running /\ UNCHANGED <<running, clientRuns, client, toService>>
    BY <1>7 DEF OtherEdits
  <2>2. SaveProfile(request, FALSE) \/ RemoveProfile(request, FALSE)
    BY <1>7 DEF OtherEdits
  <2>3. IsLine(toService') /\ Kinds(toService) \cap {"list", "active"} \subseteq Kinds(toService')
    BY <2>1 DEF AgreementInv
  <2> QED
    BY <2>1, <2>2, <2>3, EditAgrees
<1>8. CASE UNCHANGED <<repo, running, applier, active, inForce, client, bus, bounds>>
  BY <1>8, ElsewhereAgrees DEF repo, client, bus, bounds
<1>9. CASE UNCHANGED vars
  BY <1>9, ElsewhereAgrees DEF vars, repo, force, client, bus, bounds
<1>10. CASE \/ \E w \in Blocks : RawWrites(w.offset, w.bytes)
            \/ \E w \in BitWrites : RawWritesBits(w.offset, w.mask, w.value)
            \/ \E a \in Tracked, byte \in {{}, {4}} : Polled(a, byte)
  BY <1>8, <1>10, Zenon DEF RawWrites, RawWritesBits, Polled, Raw
<1> QED
  BY <1>1, <1>2, <1>3, <1>4, <1>5, <1>6, <1>7, <1>9, <1>10, Zenon DEF Next

(* When nothing is on its way the client shows the profiles and the active  *)
(* profile of the service, whatever was saved, removed, lost or restarted   *)
(* before (deviceprofileclient.cpp:78-238, deviceprofileservice.cpp:25-98). *)
THEOREM ClientShowsProfiles == Spec => []ProfilesAgree
<1>1. AgreementInv => ProfilesAgree
  <2> SUFFICES ASSUME AgreementInv, clientRuns, toService = <<>>, toClient = <<>>, running
               PROVE  connected /\ list = user /\ shown = active
    BY DEF ProfilesAgree
  <2>1. Kinds(toService) = {} /\ Kinds(toClient) = {} /\ DOMAIN toClient = {}
    BY NoLine
  <2>2. connected
    BY <2>1 DEF AgreementInv, Link
  <2>3. list = user /\ shown = active
    BY <2>1 DEF AgreementInv, Settling, Settles, Renewed
  <2> QED
    BY <2>2, <2>3
<1> QED
  BY <1>1, InitAgrees, NextAgrees, PTL DEF Spec

-----------------------------------------------------------------------------
(* The file and the list read from it refine one list.  What reaches the   *)
(* list was asked for: the calls on the bus are edits asked for or plain   *)
(* questions.                                                               *)
Known(s) == \A i \in DOMAIN s : s[i] \in Requests \/ s[i].kind \in {"list", "active"}
Asked == Known(toService)

LEMMA KnownJoined ==
  ASSUME NEW s, NEW t, IsLine(s), IsLine(t), Known(s), Known(t)
  PROVE  Known(s \o t)
<1> DEFINE u == s \o t
<1>1. ASSUME NEW i \in DOMAIN u PROVE u[i] \in Requests \/ u[i].kind \in {"list", "active"}
  <2>1. \/ i \in DOMAIN s /\ u[i] = s[i]
        \/ i - Len(s) \in DOMAIN t /\ u[i] = t[i - Len(s)]
    BY <1>1, JoinedAt
  <2> QED
    BY <2>1 DEF Known
<1> QED
  BY <1>1 DEF Known

LEMMA KnownRest ==
  ASSUME NEW s, IsLine(s), s # <<>>, Known(s)
  PROVE  Known(Tail(s)) /\ (Head(s) \in Requests \/ Head(s).kind \in {"list", "active"})
BY Rest DEF Known

LEMMA KnownOne ==
  ASSUME NEW m, m \in Requests \/ m.kind \in {"list", "active"}
  PROVE  Known(<<m>>)
BY DEF Known

LEMMA RefreshKnown ==
  /\ Known(<<>>) /\ Known(RefreshList) /\ Known(RefreshActive)
  /\ Known(RefreshList \o RefreshActive)
<1>1. [kind |-> "list"].kind = "list" /\ [kind |-> "active"].kind = "active"
  OBVIOUS
<1>2. Known(RefreshList) /\ Known(RefreshActive)
  BY <1>1, KnownOne DEF RefreshList, RefreshActive
<1>3. Known(RefreshList \o RefreshActive)
  BY <1>2, ClientLines, KnownJoined
<1>4. Known(<<>>)
  BY DEF Known
<1> QED
  BY <1>2, <1>3, <1>4

LEMMA CallsKnown ==
  ASSUME AgreementInv, Asked, NEW r, IsLine(r), Known(r), Calls(r)
  PROVE  Asked'
<1>1. toService' = toService \o r \/ toService' = toService
  BY DEF Calls
<1>2. Known(toService \o r)
  BY KnownJoined DEF AgreementInv, Asked
<1>3. Known(toService')
  BY <1>1, <1>2 DEF Asked
<1> QED
  BY <1>3 DEF Asked, Known

LEMMA ReceiveAsked ==
  ASSUME AgreementInv, Asked, Receive
  PROVE  Asked'
<1>1. IsLine(<<>>) /\ Known(<<>>)
  BY NoLine, RefreshKnown
<1>2. CASE Connects
  <2>1. Calls(<<>>) \/ Calls(RefreshList \o RefreshActive)
    BY <1>2 DEF Connects
  <2> QED
    BY <1>1, <2>1, ClientLines, RefreshKnown, CallsKnown
<1>3. CASE ListChanged
  <2>1. Calls(<<>>) \/ Calls(RefreshList)
    BY <1>3 DEF ListChanged
  <2> QED
    BY <1>1, <2>1, ClientLines, RefreshKnown, CallsKnown
<1>4. CASE ActiveChanged
  <2>1. Calls(<<>>) \/ Calls(RefreshActive)
    BY <1>4 DEF ActiveChanged
  <2> QED
    BY <1>1, <2>1, ClientLines, RefreshKnown, CallsKnown
<1>5. CASE Edited
  <2>1. Calls(<<>>) \/ Calls(RefreshList \o RefreshActive)
    BY <1>5 DEF Edited
  <2> QED
    BY <1>1, <2>1, ClientLines, RefreshKnown, CallsKnown
<1>6. CASE Disconnects \/ Listed \/ ActiveIs \/ RefreshFailed
  <2>1. Calls(<<>>)
    BY <1>6 DEF Disconnects, Listed, ActiveIs, RefreshFailed
  <2> QED
    BY <1>1, <2>1, CallsKnown
<1> QED
  BY <1>2, <1>3, <1>4, <1>5, <1>6 DEF Receive

LEMMA AskEditAsked ==
  ASSUME AgreementInv, Asked, NEW request \in Requests, AskEdit(request)
  PROVE  Asked'
<1>1. CASE UNCHANGED toService
  BY <1>1 DEF Asked, Known
<1>2. CASE toService' = Append(toService, request)
  <2>1. toService' = toService \o <<request>>
    BY <1>2, LineIsSeq, AppendIsConcat DEF AgreementInv
  <2>2. IsLine(<<request>>) /\ Known(<<request>>)
    BY OneLine, KnownOne
  <2>3. Known(toService')
    BY <2>1, <2>2, KnownJoined DEF AgreementInv, Asked
  <2> QED
    BY <2>3 DEF Asked, Known
<1> QED
  BY <1>1, <1>2 DEF AskEdit, bus

LEMMA NextAsked == AgreementInv /\ Asked /\ [Next]_vars => Asked'
<1> SUFFICES ASSUME AgreementInv, Asked, [Next]_vars PROVE Asked'
  OBVIOUS
<1>1. CASE UNCHANGED toService
  BY <1>1 DEF Asked, Known
<1>2. CASE Crash
  <2>1. toService' = <<>>
    BY <1>2 DEF Crash
  <2>2. Known(toService')
    BY <2>1, RefreshKnown
  <2> QED
    BY <2>2 DEF Asked, Known
<1>3. CASE Serve
  <2>1. toService # <<>> /\ toService' = Tail(toService)
    BY <1>3 DEF Serve
  <2>2. Known(toService')
    BY <2>1, KnownRest DEF AgreementInv, Asked
  <2> QED
    BY <2>2 DEF Asked, Known
<1>4. ASSUME NEW request \in Requests, AskEdit(request) PROVE Asked'
  BY <1>4, AskEditAsked
<1>5. CASE Start \/ FileUnreadable
  BY <1>1, <1>5 DEF Start, FileUnreadable, bus
<1>6. ASSUME NEW request \in Requests, OtherEdits(request) PROVE Asked'
  BY <1>1, <1>6 DEF OtherEdits
<1>7. CASE UNCHANGED bus
  BY <1>1, <1>7 DEF bus
<1>8. CASE \/ \E w \in Blocks : RawWrites(w.offset, w.bytes)
           \/ \E w \in BitWrites : RawWritesBits(w.offset, w.mask, w.value)
           \/ \E a \in Tracked, byte \in {{}, {4}} : Polled(a, byte)
  BY <1>7, <1>8, Zenon DEF RawWrites, RawWritesBits, Polled, Raw
<1>9. CASE UNCHANGED vars
  BY <1>7, <1>9 DEF vars
<1> QED
  BY <1>2, <1>3, <1>4, <1>5, <1>6, <1>8, <1>9, ReceiveAsked, Zenon DEF Next

LEMMA InitAsked == ProfilesInit => Asked
BY DEF ProfilesInit, Asked, Known

-----------------------------------------------------------------------------
(* The one list of ProfileStore, and what it selects: the same as the code. *)
Held == IF running THEN user ELSE Loaded

LEMMA SameChoice ==
  ASSUME NEW users
  PROVE  /\ Store!Selects(users) <=> (Matching(users) # {} \/ Matching(Builtin) # {})
         /\ Store!Selects(users) => Store!Choice(users) = Selected(users)
BY DEF Store!Selects, Store!Choice, Selected, Store!Matching, Matching, Store!FirstOf, FirstOf

LEMMA SameEffect ==
  ASSUME NEW profile
  PROVE  Store!Effect(profile) = << <<profile.id, profile.source>>, Config(profile) >>
BY DEF Store!Effect, Config

LEMMA AppliedForces ==
  ASSUME NEW users, Applied(users), applier'
  PROVE  Store!PutInForce(users)
<1>1. CASE Store!Selects(users)
  <2>1. Applies(users) /\ Store!Choice(users) = Selected(users)
    BY <1>1, SameChoice DEF Applies
  <2>2. active' = <<Selected(users).id, Selected(users).source>> /\ inForce' = Config(Selected(users))
    BY <2>1 DEF Applied
  <2> QED
    BY <1>1, <2>1, <2>2, SameEffect DEF Store!PutInForce
<1>2. CASE ~Store!Selects(users)
  <2>1. ~Applies(users)
    BY <1>2, SameChoice DEF Applies
  <2> QED
    BY <1>2, <2>1 DEF Store!PutInForce, Applied, force
<1> QED
  BY <1>1, <1>2

LEMMA NotApplied ==
  ASSUME NEW users, Applied(users), ~applier'
  PROVE  UNCHANGED <<active, inForce>>
BY DEF Applied, Applies, force

(* What the file holds is what the list of the running service is. *)
LEMMA KeptOnDisk ==
  ASSUME IInv
  PROVE  Store!Kept = Loaded
<1>1. UserListIsOnDisk
  BY DEF IInv, Repository
<1> QED
  BY <1>1 DEF Store!Kept, Loaded, UserListIsOnDisk

-----------------------------------------------------------------------------
(* The steps: an edit replaces the list or fails. *)
LEMMA ChangedRefines ==
  ASSUME IInv, running, NEW users, NEW asked, Changed(users, asked),
         UNCHANGED <<fw, running, applier>>
  PROVE  Store!Becomes(users) \/ Store!EditFails
<1>1. CASE Written(users) /\ Applied(users)
  <2>1. Held' = users /\ disk'.readable = TRUE
    BY <1>1 DEF Held, Written
  <2>2. IF applier THEN Store!PutInForce(users) ELSE UNCHANGED <<active, inForce>>
    BY <1>1, AppliedForces, NotApplied
  <2> QED
    BY <2>1, <2>2 DEF Store!Becomes, Held
<1>2. CASE NotWritten(users) /\ UNCHANGED force
  <2>1. Held' = Store!Kept /\ UNCHANGED <<disk, active, inForce>>
    BY <1>2, KeptOnDisk DEF Held, NotWritten, force
  <2> QED
    BY <2>1 DEF Store!EditFails, Held
<1> QED
  BY <1>1, <1>2 DEF Changed

LEMMA SaysNothingNew ==
  ASSUME UNCHANGED <<fw, repo, running, applier, active, inForce>>
  PROVE  UNCHANGED Store!avars
BY DEF Store!avars, repo, Loaded

LEMMA SavedIsWith ==
  ASSUME running, NEW p
  PROVE  Store!With(Held, p) = Saved(p)
<1>1. Held = user
  BY DEF Held
<1>2. Store!With(user, p) = Saved(p)
  BY DEF Store!With, Saved, Store!FirstOf, FirstOf
<1> QED
  BY <1>1, <1>2

LEMMA RemovedIsWithout ==
  ASSUME running, NEW id
  PROVE  Store!Without(Held, id) = Removed(id)
<1>1. Held = user
  BY DEF Held
<1>2. Store!Without(user, id) = Removed(id)
  BY DEF Store!Without, Removed
<1> QED
  BY <1>1, <1>2

LEMMA EditRefines ==
  ASSUME IInv, running, NEW request \in Requests, NEW asked,
         \/ request.kind = "save" /\ SaveProfile(request, asked)
         \/ request.kind = "remove" /\ RemoveProfile(request, asked),
         UNCHANGED <<fw, running, applier>>
  PROVE  [Store!ANext]_Store!avars
<1>1. CASE Refused(asked)
  BY <1>1, SaysNothingNew DEF Refused, force
<1>2. CASE request.kind = "save" /\ SaveProfile(request, asked) /\ ~Refused(asked)
  <2> DEFINE p == UserProfile(NormalId[request.id], request.firmware, request.values)
  <2>1. Stored(request) /\ Changed(Saved(p), asked)
    BY <1>2 DEF SaveProfile, Stored
  <2>2. p \in {UserProfile(NormalId[r.id], r.firmware, r.values) : r \in {q \in Requests : Stored(q)}}
    BY <2>1
  <2>3. Store!Becomes(Store!With(Held, p)) \/ Store!EditFails
    BY <2>1, ChangedRefines, SavedIsWith
  <2>4. Store!Put(p) \/ Store!EditFails
    BY <2>3 DEF Store!Put, Held
  <2> QED
    BY <2>2, <2>4 DEF Store!ANext
<1>3. CASE request.kind = "remove" /\ RemoveProfile(request, asked) /\ ~Refused(asked)
  <2> DEFINE id == NormalId[request.id]
  <2>1. Changed(Removed(id), asked)
    BY <1>3 DEF RemoveProfile
  <2>2. id \in {NormalId[r.id] : r \in Requests}
    OBVIOUS
  <2>3. Store!Becomes(Store!Without(Held, id)) \/ Store!EditFails
    BY <2>1, ChangedRefines, RemovedIsWithout
  <2>4. Store!Drop(id) \/ Store!EditFails
    BY <2>3 DEF Store!Drop, Held
  <2> QED
    BY <2>2, <2>4 DEF Store!ANext
<1> QED
  BY <1>1, <1>2, <1>3

(* An answered call: edits are those asked for, questions change nothing. *)
LEMMA ServeRefines ==
  ASSUME IInv, AgreementInv, Asked, Serve
  PROVE  [Store!ANext]_Store!avars
<1> DEFINE request == Head(toService)
<1>1. /\ running /\ UNCHANGED <<fw, running, applier>>
      /\ request \in Requests \/ request.kind \in {"list", "active"}
  BY KnownRest DEF Serve, bounds, AgreementInv, Asked
<1>2. CASE UNCHANGED <<repo, force>>
  BY <1>1, <1>2, SaysNothingNew DEF force
<1>3. CASE \/ request.kind = "save" /\ SaveProfile(request, TRUE)
           \/ request.kind = "remove" /\ RemoveProfile(request, TRUE)
  <2>1. request \in Requests
    BY <1>1, <1>3
  <2> HIDE DEF request
  <2> QED
    BY <1>1, <1>3, <2>1, EditRefines
<1> QED
  BY <1>2, <1>3 DEF Serve

LEMMA StartRefines ==
  ASSUME IInv, Start
  PROVE  Store!Begin
<1>1. /\ running = FALSE \/ ~running
      /\ running' = TRUE /\ user' = Loaded /\ applier' \in BOOLEAN
      /\ Applied(Loaded) /\ UNCHANGED <<disk, fw>>
  BY DEF Start, bounds
<1>2. Held = Loaded /\ Held' = Loaded
  BY <1>1 DEF Held, Start
<1>3. IF applier' THEN Store!PutInForce(Held) ELSE UNCHANGED <<active, inForce>>
  BY <1>1, <1>2, AppliedForces, NotApplied
<1> QED
  BY <1>1, <1>2, <1>3 DEF Store!Begin, Held, Start

LEMMA CrashRefines ==
  ASSUME IInv, Crash
  PROVE  Store!End
<1>1. /\ running /\ running' = FALSE /\ applier' = FALSE
      /\ active' = None /\ inForce' = NoConfig /\ UNCHANGED <<disk, fw>>
  BY DEF Crash
<1>2. Held' = Store!Kept
  BY <1>1, KeptOnDisk DEF Held, Loaded
<1> QED
  BY <1>1, <1>2 DEF Store!End, Held

LEMMA UnreadableRefines ==
  ASSUME IInv, FileUnreadable
  PROVE  Store!Damage
<1>1. /\ disk.readable /\ disk' = [disk EXCEPT !.readable = FALSE]
      /\ UNCHANGED <<user, running, applier, active, inForce, fw>>
  BY DEF FileUnreadable, force, bounds
<1>2. disk'.readable = FALSE
  BY <1>1 DEF IInv, Repository, DiskIsFile
<1>3. Held' = IF running THEN Held ELSE <<>>
  BY <1>1, <1>2 DEF Held, Loaded
<1> QED
  BY <1>1, <1>2, <1>3 DEF Store!Damage, Held

LEMMA NextRefines ==
  IInv /\ AgreementInv /\ Asked /\ [Next]_vars => [Store!ANext]_Store!avars
<1> SUFFICES ASSUME IInv, AgreementInv, Asked, [Next]_vars
             PROVE  [Store!ANext]_Store!avars
  OBVIOUS
<1>1. CASE Start
  BY <1>1, StartRefines DEF Store!ANext
<1>2. CASE Crash
  BY <1>2, CrashRefines DEF Store!ANext
<1>3. CASE FileUnreadable
  BY <1>3, UnreadableRefines DEF Store!ANext
<1>4. CASE Serve
  BY <1>4, ServeRefines
<1>5. CASE UNCHANGED <<fw, repo, running, applier, active, inForce>>
  BY <1>5, SaysNothingNew
<1>6. CASE Receive
  BY <1>5, <1>6 DEF Receive, force, bounds
<1>7. ASSUME NEW request \in Requests, AskEdit(request)
      PROVE  [Store!ANext]_Store!avars
  BY <1>5, <1>7 DEF AskEdit, force
<1>8. ASSUME NEW request \in Requests, OtherEdits(request)
      PROVE  [Store!ANext]_Store!avars
  <2>1. running /\ UNCHANGED <<fw, running, applier>>
    BY <1>8 DEF OtherEdits
  <2>2. \/ request.kind = "save" /\ SaveProfile(request, FALSE)
        \/ request.kind = "remove" /\ RemoveProfile(request, FALSE)
    BY <1>8 DEF OtherEdits
  <2> QED
    BY <2>1, <2>2, EditRefines
<1>9. CASE \/ \E w \in Blocks : RawWrites(w.offset, w.bytes)
           \/ \E w \in BitWrites : RawWritesBits(w.offset, w.mask, w.value)
           \/ \E a \in Tracked, byte \in {{}, {4}} : Polled(a, byte)
  <2>1. UNCHANGED <<repo, running, applier, active, inForce, client, bus, bounds>>
    BY <1>9, Zenon DEF RawWrites, RawWritesBits, Polled, Raw
  <2> QED
    BY <1>5, <2>1 DEF bounds
<1>10. CASE UNCHANGED vars
  BY <1>5, <1>10 DEF vars, force, bounds
<1> QED
  BY <1>1, <1>2, <1>3, <1>4, <1>6, <1>7, <1>8, <1>9, <1>10, Zenon DEF Next

(* The file and the list read from it are one list to those who edit        *)
(* profiles: what a save or a removal that is accepted did outlives the     *)
(* process and is what a restart applies, one that fails leaves no trace    *)
(* (supportconfig.cpp:125-191, deviceprofileservice.cpp:25-98,              *)
(* ecsysregistrar.cpp:50-94), whatever the order of callers and ends.       *)
THEOREM FileAndListAreOne == Spec => ImplementsStore
<1>1. ProfilesInit => Store!AInit
  <2> SUFFICES ASSUME ProfilesInit PROVE Store!AInit
    OBVIOUS
  <2>1. /\ disk = [readable |-> TRUE, profiles |-> <<>>]
        /\ running = FALSE /\ applier = FALSE
        /\ active = None /\ inForce = NoConfig
    BY DEF ProfilesInit
  <2> QED
    BY <2>1 DEF Store!AInit, Loaded
<1>2. IInv /\ AgreementInv /\ Asked /\ [Next]_vars => [Store!ANext]_Store!avars
  BY NextRefines
<1> QED
  BY <1>1, <1>2, InitInductive, NextInductive, InitAgrees, NextAgrees, InitAsked, NextAsked, PTL
  DEF Spec, ImplementsStore, Store!ASpec
=============================================================================
