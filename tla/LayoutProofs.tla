---------------------------- MODULE LayoutProofs ----------------------------
(***************************************************************************)
(* What a device profile must satisfy for its parameters to be sound, for  *)
(* every configuration: which masks and codes make every register read     *)
(* back what was written, which addresses keep raw writes off telemetry,   *)
(* and when two settings share a bit.  The known families are instances.   *)
(***************************************************************************)
EXTENDS MCDeviceProfiles, DeviceProfilesProofs, FiniteSetTheorems

-----------------------------------------------------------------------------
(* The bits of a number. *)
LEMMA Powers ==
  /\ 2^0 = 1 /\ 2^1 = 2 /\ 2^2 = 4 /\ 2^3 = 8
  /\ 2^4 = 16 /\ 2^5 = 32 /\ 2^6 = 64 /\ 2^7 = 128
OBVIOUS

LEMMA BitOf ==
  ASSUME NEW n, NEW b \in 0 .. 7
  PROVE  b \in Bits(n) <=> \/ b = 0 /\ (n \div 1) % 2 = 1
                           \/ b = 1 /\ (n \div 2) % 2 = 1
                           \/ b = 2 /\ (n \div 4) % 2 = 1
                           \/ b = 3 /\ (n \div 8) % 2 = 1
                           \/ b = 4 /\ (n \div 16) % 2 = 1
                           \/ b = 5 /\ (n \div 32) % 2 = 1
                           \/ b = 6 /\ (n \div 64) % 2 = 1
                           \/ b = 7 /\ (n \div 128) % 2 = 1
<1>1. b \in Bits(n) <=> (n \div 2^b) % 2 = 1
  BY DEF Bits
<1>2. b = 0 \/ b = 1 \/ b = 2 \/ b = 3 \/ b = 4 \/ b = 5 \/ b = 6 \/ b = 7
  OBVIOUS
<1>3. CASE b = 0
  BY <1>1, <1>3, Powers
<1>4. CASE b = 1
  BY <1>1, <1>4, Powers
<1>5. CASE b = 2
  BY <1>1, <1>5, Powers
<1>6. CASE b = 3
  BY <1>1, <1>6, Powers
<1>7. CASE b = 4
  BY <1>1, <1>7, Powers
<1>8. CASE b = 5
  BY <1>1, <1>8, Powers
<1>9. CASE b = 6
  BY <1>1, <1>9, Powers
<1>10. CASE b = 7
  BY <1>1, <1>10, Powers
<1> QED
  BY <1>2, <1>3, <1>4, <1>5, <1>6, <1>7, <1>8, <1>9, <1>10

LEMMA InByte ==
  ASSUME NEW n
  PROVE  Bits(n) \subseteq 0 .. 7
BY DEF Bits

LEMMA KnownBits == Bits(255) = 0 .. 7 /\ Bits(0) = {} /\ Bits(128) = {7} /\ Bits(16) = {4}
<1>1. Bits(255) = 0 .. 7
  BY BitOf, InByte
<1>2. Bits(0) = {}
  BY BitOf, InByte
<1>3. Bits(128) = {7}
  BY BitOf, InByte
<1>4. Bits(16) = {4}
  BY BitOf, InByte
<1> QED
  BY <1>1, <1>2, <1>3, <1>4

LEMMA PercentFits == \A v \in {50, 70, 90} : Bits(v) \subseteq Bits(127)
BY BitOf, InByte

-----------------------------------------------------------------------------
(* Which configurations make every register decodable: the masks cover the *)
(* fixed codes and are not empty, the modes' codes differ.  A key without a *)
(* name is dropped when profiles are read (sanitizeValues).                 *)
Distinct(given) ==
    \A m, n \in DOMAIN given : given[m] \in 0 .. 255 /\ given[m] = given[n] => m = n
CodesFit(config) ==
    /\ "" \notin DOMAIN config
    /\ 7 \in Bits(MaskOf(config, "CoolerBoostMask"))
    /\ 4 \in Bits(MaskOf(config, "FnSuperSwapMask"))
    /\ \A key \in {"WebCamMask", "SuperBatteryMask", "LedsMask"} : MaskOf(config, key) # 0
    /\ \A key \in {"FanModeAvailable", "ShiftModeAvailable"} \cap DOMAIN config :
          Distinct(config[key])
    /\ LET pair == config["KeyboardBacklightMode"]
       IN  /\ "KeyboardBacklightMode" \in DOMAIN config
           /\ pair \in Seq(0 .. 255) /\ Len(pair) = 2
           => pair[1] # pair[2]

LEMMA DecodableRegister ==
  ASSUME NEW name, NEW a, NEW mask, NEW codes,
         \A v \in DOMAIN codes : Bits(codes[v]) \subseteq Bits(mask),
         \A v, w \in DOMAIN codes : codes[v] = codes[w] => v = w
  PROVE  Decodable(Register(name, a, mask, codes))
<1>1. /\ Register(name, a, mask, codes).mask = Bits(mask)
      /\ Register(name, a, mask, codes).codes = codes
  BY DEF Register
<1> HIDE DEF Register
<1> QED
  BY <1>1 DEF Decodable

LEMMA DecodableSet ==
  ASSUME NEW name, NEW addresses, NEW mask, NEW codes,
         \A v \in DOMAIN codes : Bits(codes[v]) \subseteq Bits(mask),
         \A v, w \in DOMAIN codes : codes[v] = codes[w] => v = w,
         NEW r \in {Register(name, a, mask, codes) : a \in addresses}
  PROVE  Decodable(r)
<1>1. PICK a \in addresses : r = Register(name, a, mask, codes)
  OBVIOUS
<1> QED
  BY <1>1, DecodableRegister

LEMMA EnableDecodable ==
  ASSUME NEW config, NEW key, NEW maskKey, NEW off, NEW on,
         Bits(off) \subseteq Bits(MaskOf(config, maskKey)),
         on # 255 => Bits(on) \subseteq Bits(MaskOf(config, maskKey)),
         off # IF on = 255 THEN MaskOf(config, maskKey) ELSE on,
         NEW r \in Enable(config, key, maskKey, off, on)
  PROVE  Decodable(r)
<1> DEFINE mask == MaskOf(config, maskKey)
           codes == [Off |-> off, On |-> IF on = 255 THEN mask ELSE on]
<1>1. r \in {Register(key, a, mask, codes) : a \in Addresses(config, key)}
  BY DEF Enable
<1>2. DOMAIN codes = {"Off", "On"} /\ codes["Off"] = off
      /\ codes["On"] = IF on = 255 THEN mask ELSE on
  OBVIOUS
<1> HIDE DEF mask, codes
<1>3. \A v \in DOMAIN codes : Bits(codes[v]) \subseteq Bits(mask)
  BY <1>2 DEF mask
<1>4. \A v, w \in DOMAIN codes : codes[v] = codes[w] => v = w
  BY <1>2 DEF mask
<1> QED
  BY <1>1, <1>3, <1>4, DecodableSet

LEMMA SwitchesDecodable ==
  ASSUME NEW config, CodesFit(config), NEW r \in Switches(config)
  PROVE  Decodable(r)
<1> DEFINE A == Enable(config, "UsbPowerShareEc", "", 8, 40)
           B == Enable(config, "CoolerBoostEc", "CoolerBoostMask", 0, 128)
           C == Enable(config, "WebCamEc", "WebCamMask", 0, 255)
           D == Enable(config, "WebCamBlockEc", "WebCamMask", 0, 255)
           E == Enable(config, "SuperBatteryEc", "SuperBatteryMask", 0, 255)
           F == Enable(config, "MicMuteEc", "LedsMask", 0, 255)
           G == Enable(config, "MuteLedEc", "LedsMask", 0, 255)
<1>1. r \in UNION {A, B, C, D, E, F, G}
  BY DEF Switches
<1>2. ASSUME NEW key, NEW maskKey \in {"WebCamMask", "SuperBatteryMask", "LedsMask"},
             r \in Enable(config, key, maskKey, 0, 255)
      PROVE  Decodable(r)
  <2>1. Bits(0) \subseteq Bits(MaskOf(config, maskKey))
    BY KnownBits
  <2>2. 0 # IF 255 = 255 THEN MaskOf(config, maskKey) ELSE 255
    BY DEF CodesFit
  <2> QED
    BY <1>2, <2>1, <2>2, EnableDecodable
<1>3. CASE r \in A
  <2>1. Bits(MaskOf(config, "")) = 0 .. 7
    <3>1. {""} \cap DOMAIN config = {}
      BY DEF CodesFit
    <3>2. Numbers(config, "", 255) = {}
      BY <3>1, Zenon DEF Numbers
    <3>3. MaskOf(config, "") = 255
      BY <3>2 DEF MaskOf
    <3> QED
      BY <3>3, KnownBits
  <2>2. Bits(8) \subseteq Bits(MaskOf(config, "")) /\ Bits(40) \subseteq Bits(MaskOf(config, ""))
    BY <2>1, InByte
  <2>3. 8 # IF 40 = 255 THEN MaskOf(config, "") ELSE 40
    OBVIOUS
  <2> QED
    BY <1>3, <2>2, <2>3, EnableDecodable
<1>4. CASE r \in B
  <2>1. /\ Bits(0) \subseteq Bits(MaskOf(config, "CoolerBoostMask"))
        /\ Bits(128) \subseteq Bits(MaskOf(config, "CoolerBoostMask"))
    BY KnownBits DEF CodesFit
  <2>2. 0 # IF 128 = 255 THEN MaskOf(config, "CoolerBoostMask") ELSE 128
    OBVIOUS
  <2> QED
    BY <1>4, <2>1, <2>2, EnableDecodable
<1>5. CASE r \in C \/ r \in D \/ r \in E \/ r \in F \/ r \in G
  BY <1>2, <1>5
<1> HIDE DEF A, B, C, D, E, F, G
<1>6. r \in A \/ r \in B \/ r \in C \/ r \in D \/ r \in E \/ r \in F \/ r \in G
  BY <1>1, Zenon
<1> QED
  BY <1>3, <1>4, <1>5, <1>6

LEMMA FullMaskDecodable ==
  ASSUME NEW name, NEW addresses, NEW codes,
         \A v, w \in DOMAIN codes : codes[v] = codes[w] => v = w,
         NEW r \in {Register(name, a, 255, codes) : a \in addresses}
  PROVE  Decodable(r)
<1>1. \A v \in DOMAIN codes : Bits(codes[v]) \subseteq Bits(255)
  BY KnownBits, InByte
<1> DEFINE mask == 255
<1>2. r \in {Register(name, a, mask, codes) : a \in addresses}
  OBVIOUS
<1>3. \A v \in DOMAIN codes : Bits(codes[v]) \subseteq Bits(mask)
  BY <1>1
<1> HIDE DEF mask
<1> QED
  BY <1>2, <1>3, DecodableSet

LEMMA ModesDecodable ==
  ASSUME NEW config, CodesFit(config), NEW key,
         NEW available \in {"FanModeAvailable", "ShiftModeAvailable"},
         NEW r \in Modes(config, key, available)
  PROVE  Decodable(r)
<1> DEFINE given == config[available]
           valid == {m \in DOMAIN given : given[m] \in 0 .. 255}
           codes == [mode \in valid |-> given[mode]]
<1>1. available \in DOMAIN config /\ r \in {Register(key, a, 255, codes) : a \in Addresses(config, key)}
  BY DEF Modes
<1>2. \A m, n \in DOMAIN given : given[m] \in 0 .. 255 /\ given[m] = given[n] => m = n
  BY <1>1 DEF CodesFit, Distinct
<1>3. \A v, w \in DOMAIN codes : codes[v] = codes[w] => v = w
  BY <1>2
<1> HIDE DEF codes
<1> QED
  BY <1>1, <1>3, FullMaskDecodable

LEMMA SettingsDecodable ==
  ASSUME NEW config, CodesFit(config), NEW r \in Settings(config)
  PROVE  Decodable(r)
<1>1. CASE r \in BatteryThreshold(config)
  <2> DEFINE codes == [v \in {50, 70, 90} |-> v]
             mask == 127
  <2>1. r \in {Register("BatteryThresholdEc", a, mask, codes)
                  : a \in Addresses(config, "BatteryThresholdEc")}
    BY <1>1 DEF BatteryThreshold
  <2>2. \A v \in DOMAIN codes : Bits(codes[v]) \subseteq Bits(mask)
    BY PercentFits
  <2>3. \A v, w \in DOMAIN codes : codes[v] = codes[w] => v = w
    OBVIOUS
  <2> HIDE DEF codes, mask
  <2> QED
    BY <2>1, <2>2, <2>3, DecodableSet
<1>2. CASE r \in KeyboardBacklightMode(config)
  <2> DEFINE given == IF "KeyboardBacklightMode" \in DOMAIN config
                      THEN config["KeyboardBacklightMode"] ELSE <<>>
             pair == IF given \in Seq(0 .. 255) /\ Len(given) = 2 THEN given ELSE <<8, 0>>
             codes == [Off |-> pair[1], On |-> pair[2]]
  <2>1. r \in {Register("KeyboardBacklightModeEc", a, 255, codes)
                  : a \in Addresses(config, "KeyboardBacklightModeEc")}
    BY <1>2 DEF KeyboardBacklightMode
  <2>2. pair[1] # pair[2]
    <3>1. CASE given \in Seq(0 .. 255) /\ Len(given) = 2 /\ "KeyboardBacklightMode" \in DOMAIN config
      BY <3>1 DEF CodesFit
    <3>2. CASE ~(given \in Seq(0 .. 255) /\ Len(given) = 2)
      BY <3>2
    <3>3. CASE "KeyboardBacklightMode" \notin DOMAIN config
      BY <3>3
    <3> QED
      BY <3>1, <3>2, <3>3
  <2> HIDE DEF pair
  <2>3. DOMAIN codes = {"Off", "On"} /\ codes["Off"] = pair[1] /\ codes["On"] = pair[2]
    OBVIOUS
  <2> HIDE DEF codes
  <2>4. \A v, w \in DOMAIN codes : codes[v] = codes[w] => v = w
    BY <2>2, <2>3
  <2> QED
    BY <2>1, <2>4, FullMaskDecodable
<1>3. CASE r \in KeyboardBacklight(config)
  <2> DEFINE start == IF Numbers(config, "KeyboardBacklightStartState", 255) = {} THEN 0
                      ELSE config["KeyboardBacklightStartState"]
             codes == [i \in 0 .. 3 |-> (start + i) % 256]
  <2>1. r \in {Register("KeyboardBacklightEc", a, 255, codes)
                  : a \in Addresses(config, "KeyboardBacklightEc")}
    BY <1>3 DEF KeyboardBacklight
  <2>2. start \in 0 .. 255
    <3> DEFINE ns == Numbers(config, "KeyboardBacklightStartState", 255)
    <3>1. ASSUME NEW n \in ns PROVE config["KeyboardBacklightStartState"] = n /\ n \in 0 .. 255
      BY <3>1, Zenon DEF Numbers
    <3> HIDE DEF ns
    <3>2. ns # {} => config["KeyboardBacklightStartState"] \in 0 .. 255
      BY <3>1
    <3> QED
      BY <3>2 DEF ns
  <2> HIDE DEF start
  <2>3. \A i, j \in 0 .. 3 : (start + i) % 256 = (start + j) % 256 => i = j
    BY <2>2
  <2>4. \A v, w \in DOMAIN codes : codes[v] = codes[w] => v = w
    BY <2>3
  <2> HIDE DEF codes
  <2> QED
    BY <2>1, <2>4, FullMaskDecodable
<1>4. CASE r \in FnSuperSwap(config)
  <2> DEFINE inverted == "FnWinSwapInvert" \in DOMAIN config /\ config["FnWinSwapInvert"]
             codes == IF inverted THEN [Right |-> 16, Left |-> 0] ELSE [Right |-> 0, Left |-> 16]
             mask == MaskOf(config, "FnSuperSwapMask")
  <2>1. r \in {Register("FnSuperSwapEc", a, mask, codes) : a \in Addresses(config, "FnSuperSwapEc")}
    BY <1>4 DEF FnSuperSwap
  <2>2. Bits(16) \subseteq Bits(mask) /\ Bits(0) \subseteq Bits(mask)
    BY KnownBits DEF CodesFit
  <2> HIDE DEF mask, inverted
  <2>3. \/ DOMAIN codes = {"Right", "Left"} /\ codes["Right"] = 16 /\ codes["Left"] = 0
        \/ DOMAIN codes = {"Right", "Left"} /\ codes["Right"] = 0 /\ codes["Left"] = 16
    OBVIOUS
  <2> HIDE DEF codes
  <2>4. \A v \in DOMAIN codes : Bits(codes[v]) \subseteq Bits(mask)
    BY <2>2, <2>3
  <2>5. \A v, w \in DOMAIN codes : codes[v] = codes[w] => v = w
    BY <2>3
  <2> QED
    BY <2>1, <2>4, <2>5, DecodableSet
<1>5. CASE r \in Modes(config, "FanModeEc", "FanModeAvailable")
  BY <1>5, ModesDecodable
<1>6. CASE r \in Modes(config, "ShiftModeEc", "ShiftModeAvailable")
  BY <1>6, ModesDecodable
<1> QED
  BY <1>1, <1>2, <1>3, <1>4, <1>5, <1>6 DEF Settings

LEMMA CurvesDecodable ==
  ASSUME NEW r \in FanCurves
  PROVE  Decodable(r)
<1>1. ASSUME NEW name, NEW first, NEW points, NEW max, r \in CurvePoints(name, first, points, max)
      PROVE  Decodable(r)
  <2> DEFINE codes == [v \in {0, max} |-> v]
  <2>1. PICK i \in 0 .. points - 1 : r = Register(<<name, i>>, first + i, 255, codes)
    BY <1>1 DEF CurvePoints
  <2> DEFINE point == <<name, i>>
             addresses == {first + i}
  <2>2. r \in {Register(point, a, 255, codes) : a \in addresses}
    BY <2>1
  <2>3. \A v, w \in DOMAIN codes : codes[v] = codes[w] => v = w
    OBVIOUS
  <2> HIDE DEF codes, point, addresses
  <2> QED
    BY <2>2, <2>3, FullMaskDecodable
<1>2. \/ r \in CurvePoints("FanSetSpeedCpu", 114, 7, 150)
      \/ r \in CurvePoints("FanSetSpeedGpu", 138, 7, 150)
      \/ r \in CurvePoints("FanSetTempCpu", 106, 6, 100)
      \/ r \in CurvePoints("FanSetTempGpu", 130, 6, 100)
  BY DEF FanCurves
<1>3. CASE r \in CurvePoints("FanSetSpeedCpu", 114, 7, 150)
  BY <1>1, <1>3, Zenon
<1>4. CASE r \in CurvePoints("FanSetSpeedGpu", 138, 7, 150)
  BY <1>1, <1>4, Zenon
<1>5. CASE r \in CurvePoints("FanSetTempCpu", 106, 6, 100)
  BY <1>1, <1>5, Zenon
<1>6. CASE r \in CurvePoints("FanSetTempGpu", 130, 6, 100)
  BY <1>1, <1>6, Zenon
<1> QED
  BY <1>2, <1>3, <1>4, <1>5, <1>6

LEMMA SettingKind ==
  ASSUME NEW config, NEW r \in Writable(config)
  PROVE  r \in Switches(config) \union Settings(config) \union FanCurves
<1>1. ~r.readOnly
  BY Zenon DEF Writable
<1>2. \A key : r \in SimpleRange(config, key) => r.readOnly
  BY DEF SimpleRange, ReadOnlyRegister
<1>3. r \notin Telemetry(config)
  BY <1>1, <1>2, Zenon DEF Telemetry
<1> QED
  BY <1>3, Zenon DEF Writable, ProfileParameters

(* Every register a parameter can write decodes what was written to it: no  *)
(* two values share a code and no code leaves its mask, for every           *)
(* configuration whose masks cover the fixed codes and whose modes' codes   *)
(* differ (ecparameterfactory.cpp:80-100, 136-205, 216-365).                *)
THEOREM RegistersDecodable ==
  ASSUME NEW config, CodesFit(config)
  PROVE  \A r \in Writable(config) : Decodable(r)
BY SettingKind, SwitchesDecodable, SettingsDecodable, CurvesDecodable

-----------------------------------------------------------------------------
(* Which addresses raw writes reach: the bytes of the curves and the        *)
(* addresses under the keys of the policy, nothing else.                    *)
CurveBytes == (106 .. 111) \union (114 .. 120) \union (130 .. 135) \union (138 .. 144)
KeysOf(config) == PolicyKeys \cap DOMAIN config

LEMMA AllowedAddress ==
  ASSUME NEW config, NEW a \in Int, Allows(RangesOf(config), a, 1)
  PROVE  a \in CurveBytes \/ \E key \in KeysOf(config) : config[key] = a
<1> DEFINE keyed == {AddressRange(config[key], 1, key) :
                        key \in {k \in PolicyKeys \cap DOMAIN config : config[k] \in Int}}
<1>1. PICK range \in RangesOf(config) : a >= range.offset /\ a + 1 <= range.offset + range.length
  BY DEF Allows
<1>2. \/ range \in keyed
      \/ range = AddressRange(106, 6, "CPU temperatures")
      \/ range = AddressRange(114, 7, "CPU speeds")
      \/ range = AddressRange(130, 6, "GPU temperatures")
      \/ range = AddressRange(138, 7, "GPU speeds")
  BY Zenon DEF RangesOf
<1>3. CASE range \in keyed
  <2>1. PICK key \in {k \in PolicyKeys \cap DOMAIN config : config[k] \in Int} :
            range = AddressRange(config[key], 1, key)
    BY <1>3
  <2>2. range.offset = config[key] /\ range.length = 1
    BY <2>1 DEF AddressRange
  <2>3. config[key] = a
    BY <1>1, <2>1, <2>2
  <2> QED
    BY <2>1, <2>3 DEF KeysOf
<1>4. CASE range = AddressRange(106, 6, "CPU temperatures")
  <2>1. range.offset = 106 /\ range.length = 6
    BY <1>4 DEF AddressRange
  <2> QED
    BY <1>1, <2>1 DEF CurveBytes
<1>5. CASE range = AddressRange(114, 7, "CPU speeds")
  <2>1. range.offset = 114 /\ range.length = 7
    BY <1>5 DEF AddressRange
  <2> QED
    BY <1>1, <2>1 DEF CurveBytes
<1>6. CASE range = AddressRange(130, 6, "GPU temperatures")
  <2>1. range.offset = 130 /\ range.length = 6
    BY <1>6 DEF AddressRange
  <2> QED
    BY <1>1, <2>1 DEF CurveBytes
<1>7. CASE range = AddressRange(138, 7, "GPU speeds")
  <2>1. range.offset = 138 /\ range.length = 7
    BY <1>7 DEF AddressRange
  <2> QED
    BY <1>1, <2>1 DEF CurveBytes
<1> QED
  BY <1>2, <1>3, <1>4, <1>5, <1>6, <1>7

TelemetryKeys == {"CpuTempEc", "GpuTempEc", "BatteryChargeEc", "BatteryChargingStatusEc",
                  "FanCpuEc", "FanGpuEc"}
Apart(config) ==
    /\ \A t \in TelemetryKeys : \A a \in Addresses(config, t) :
          a \notin CurveBytes /\ \A key \in KeysOf(config) : config[key] # a
    /\ \A key \in KeysOf(config) : config[key] \notin FirmwareBytes

(* What the policy protects is what the profile's own keys leave alone: a   *)
(* profile that gives telemetry and firmware bytes to no setting and no     *)
(* point of a curve is safe, whatever its texts (ecwritepolicy.cpp:130-165, *)
(* ecparameterfactory.cpp:216-365).                                         *)
THEOREM ApartIsSafe ==
  ASSUME NEW config, Apart(config)
  PROVE  TelemetrySafe(config)
<1> SUFFICES ASSUME NEW a \in {r.address : r \in Telemetry(config)} \union FirmwareBytes,
                    Allows(RangesOf(config), a, 1)
             PROVE  FALSE
  BY DEF TelemetrySafe
<1>1. CASE a \in FirmwareBytes
  <2>1. a \in Int /\ a \notin CurveBytes
    BY <1>1 DEF FirmwareBytes, CurveBytes
  <2> QED
    BY <1>1, <2>1, AllowedAddress DEF Apart
<1>2. CASE a \in {r.address : r \in Telemetry(config)}
  <2>1. PICK r \in Telemetry(config) : a = r.address
    BY <1>2
  <2>2. PICK t \in TelemetryKeys : r \in SimpleRange(config, t)
    BY <2>1 DEF Telemetry, TelemetryKeys
  <2>3. a \in Addresses(config, t)
    BY <2>1, <2>2 DEF SimpleRange, ReadOnlyRegister
  <2>4. a \in Int
    <3> DEFINE max == 65535
    <3>1. a \in Numbers(config, t, max) /\ max \in Nat
      BY <2>3 DEF Addresses
    <3> HIDE DEF max
    <3>2. a \in 0 .. max
      BY <3>1, NumbersKey
    <3> QED
      BY <3>1, <3>2
  <2> QED
    BY <2>2, <2>3, <2>4, AllowedAddress DEF Apart
<1> QED
  BY <1>1, <1>2

-----------------------------------------------------------------------------
(* Which settings share a bit: only those whose keys name one address.      *)
Named(config, r) == r.name \in PolicyKeys /\ r.address \in Addresses(config, r.name)

LEMMA NamedByKey ==
  ASSUME NEW config, NEW key \in PolicyKeys, NEW mask, NEW codes,
         NEW r \in {Register(key, a, mask, codes) : a \in Addresses(config, key)}
  PROVE  Named(config, r)
<1>1. PICK a \in Addresses(config, key) : r = Register(key, a, mask, codes)
  OBVIOUS
<1>2. r.name = key /\ r.address = a
  BY <1>1 DEF Register
<1> QED
  BY <1>2 DEF Named

LEMMA SwitchNamed ==
  ASSUME NEW config, NEW r \in Switches(config)
  PROVE  Named(config, r)
<1> DEFINE A == Enable(config, "UsbPowerShareEc", "", 8, 40)
           B == Enable(config, "CoolerBoostEc", "CoolerBoostMask", 0, 128)
           C == Enable(config, "WebCamEc", "WebCamMask", 0, 255)
           D == Enable(config, "WebCamBlockEc", "WebCamMask", 0, 255)
           E == Enable(config, "SuperBatteryEc", "SuperBatteryMask", 0, 255)
           F == Enable(config, "MicMuteEc", "LedsMask", 0, 255)
           G == Enable(config, "MuteLedEc", "LedsMask", 0, 255)
<1>1. r \in UNION {A, B, C, D, E, F, G}
  BY DEF Switches
<1>2. ASSUME NEW key \in PolicyKeys, NEW maskKey, NEW off, NEW on,
             r \in Enable(config, key, maskKey, off, on)
      PROVE  Named(config, r)
  <2> DEFINE mask == MaskOf(config, maskKey)
             codes == [Off |-> off, On |-> IF on = 255 THEN mask ELSE on]
  <2>1. r \in {Register(key, a, mask, codes) : a \in Addresses(config, key)}
    BY <1>2 DEF Enable
  <2> HIDE DEF mask, codes
  <2> QED
    BY <2>1, NamedByKey
<1>3. /\ "UsbPowerShareEc" \in PolicyKeys /\ "CoolerBoostEc" \in PolicyKeys
      /\ "WebCamEc" \in PolicyKeys /\ "WebCamBlockEc" \in PolicyKeys
      /\ "SuperBatteryEc" \in PolicyKeys
      /\ "MicMuteEc" \in PolicyKeys /\ "MuteLedEc" \in PolicyKeys
  BY DEF PolicyKeys
<1>4. r \in A => Named(config, r)
  BY <1>2, <1>3, Zenon
<1>5. r \in B => Named(config, r)
  BY <1>2, <1>3, Zenon
<1>6. r \in C => Named(config, r)
  BY <1>2, <1>3, Zenon
<1>7. r \in D => Named(config, r)
  BY <1>2, <1>3, Zenon
<1>8. r \in E => Named(config, r)
  BY <1>2, <1>3, Zenon
<1>9. r \in F => Named(config, r)
  BY <1>2, <1>3, Zenon
<1>10. r \in G => Named(config, r)
  BY <1>2, <1>3, Zenon
<1> HIDE DEF A, B, C, D, E, F, G
<1> QED
  BY <1>1, <1>4, <1>5, <1>6, <1>7, <1>8, <1>9, <1>10, OneOfSeven

LEMMA ModeNamed ==
  ASSUME NEW config, NEW key \in PolicyKeys, NEW available, NEW r \in Modes(config, key, available)
  PROVE  Named(config, r)
<1> DEFINE codes == [mode \in {m \in DOMAIN config[available] : config[available][m] \in 0 .. 255}
                        |-> config[available][mode]]
           mask == 255
<1>1. r \in {Register(key, a, mask, codes) : a \in Addresses(config, key)}
  BY DEF Modes
<1> HIDE DEF codes, mask
<1> QED
  BY <1>1, NamedByKey

LEMMA SettingNamed ==
  ASSUME NEW config, NEW r \in Settings(config)
  PROVE  Named(config, r)
<1>1. CASE r \in BatteryThreshold(config)
  <2> DEFINE codes == [v \in {50, 70, 90} |-> v]
             mask == 127
             key == "BatteryThresholdEc"
  <2>1. r \in {Register(key, a, mask, codes) : a \in Addresses(config, key)}
    BY <1>1 DEF BatteryThreshold
  <2>2. key \in PolicyKeys
    BY DEF PolicyKeys
  <2> HIDE DEF codes, mask, key
  <2> QED
    BY <2>1, <2>2, NamedByKey
<1>2. CASE r \in KeyboardBacklightMode(config)
  <2> DEFINE given == IF "KeyboardBacklightMode" \in DOMAIN config
                      THEN config["KeyboardBacklightMode"] ELSE <<>>
             pair == IF given \in Seq(0 .. 255) /\ Len(given) = 2 THEN given ELSE <<8, 0>>
             codes == [Off |-> pair[1], On |-> pair[2]]
             mask == 255
             key == "KeyboardBacklightModeEc"
  <2>1. r \in {Register(key, a, mask, codes) : a \in Addresses(config, key)}
    BY <1>2 DEF KeyboardBacklightMode
  <2>2. key \in PolicyKeys
    BY DEF PolicyKeys
  <2> HIDE DEF codes, mask, key
  <2> QED
    BY <2>1, <2>2, NamedByKey
<1>3. CASE r \in KeyboardBacklight(config)
  <2> DEFINE start == IF Numbers(config, "KeyboardBacklightStartState", 255) = {} THEN 0
                      ELSE config["KeyboardBacklightStartState"]
             codes == [i \in 0 .. 3 |-> (start + i) % 256]
             mask == 255
             key == "KeyboardBacklightEc"
  <2>1. r \in {Register(key, a, mask, codes) : a \in Addresses(config, key)}
    BY <1>3 DEF KeyboardBacklight
  <2>2. key \in PolicyKeys
    BY DEF PolicyKeys
  <2> HIDE DEF codes, mask, key
  <2> QED
    BY <2>1, <2>2, NamedByKey
<1>4. CASE r \in FnSuperSwap(config)
  <2> DEFINE inverted == "FnWinSwapInvert" \in DOMAIN config /\ config["FnWinSwapInvert"]
             codes == IF inverted THEN [Right |-> 16, Left |-> 0] ELSE [Right |-> 0, Left |-> 16]
             mask == MaskOf(config, "FnSuperSwapMask")
             key == "FnSuperSwapEc"
  <2>1. r \in {Register(key, a, mask, codes) : a \in Addresses(config, key)}
    BY <1>4 DEF FnSuperSwap
  <2>2. key \in PolicyKeys
    BY DEF PolicyKeys
  <2> HIDE DEF codes, mask, key
  <2> QED
    BY <2>1, <2>2, NamedByKey
<1>5. CASE r \in Modes(config, "FanModeEc", "FanModeAvailable")
  <2>1. "FanModeEc" \in PolicyKeys
    BY DEF PolicyKeys
  <2> QED
    BY <1>5, <2>1, ModeNamed
<1>6. CASE r \in Modes(config, "ShiftModeEc", "ShiftModeAvailable")
  <2>1. "ShiftModeEc" \in PolicyKeys
    BY DEF PolicyKeys
  <2> QED
    BY <1>6, <2>1, ModeNamed
<1> QED
  BY <1>1, <1>2, <1>3, <1>4, <1>5, <1>6 DEF Settings

LEMMA WritableAreSettings ==
  ASSUME NEW config, NEW r \in Writable(config), r \notin FanCurves
  PROVE  Named(config, r)
BY SettingKind, SwitchNamed, SettingNamed

(* Two settings write the same bit of a byte only where the profile gives   *)
(* their keys the same address: then what one wrote the other reads, and a  *)
(* write of one changes the other (ecparameterfactory.cpp:216-365).         *)
THEOREM SharedBitsShareAddress ==
  ASSUME NEW config, NEW pair \in Overlaps(config)
  PROVE  \E k, l \in KeysOf(config) : pair = {k, l} /\ config[k] = config[l]
<1> DEFINE settings == Writable(config) \ FanCurves
           Shares(r, s) == r.address = s.address /\ r.mask \intersect s.mask # {}
<1>1. PICK p \in {q \in settings \X settings : Shares(q[1], q[2])} : pair = {p[1].name, p[2].name}
  BY DEF Overlaps
<1>2. p[1] \in settings /\ p[2] \in settings /\ p[1].address = p[2].address
  BY <1>1
<1>3. Named(config, p[1]) /\ Named(config, p[2])
  BY <1>2, WritableAreSettings
<1>4. ASSUME NEW r, Named(config, r)
      PROVE  r.name \in KeysOf(config) /\ config[r.name] = r.address
  <2> DEFINE max == 65535
  <2>1. r.address \in Numbers(config, r.name, max) /\ max \in Nat
    BY <1>4 DEF Named, Addresses
  <2> HIDE DEF max
  <2>2. r.name \in DOMAIN config /\ config[r.name] = r.address
    BY <2>1, NumbersKey
  <2> QED
    BY <1>4, <2>2 DEF Named, KeysOf
<1> QED
  BY <1>1, <1>2, <1>3, <1>4

-----------------------------------------------------------------------------
(* Of every setting there is one parameter, and bytes are told apart by    *)
(* their bits: a profile without overlaps is a layout of fields.           *)
LEMMA ByteOfBits ==
  ASSUME NEW n \in 0 .. 255
  PROVE  n = ((n \div 1) % 2) + 2 * ((n \div 2) % 2) + 4 * ((n \div 4) % 2)
             + 8 * ((n \div 8) % 2) + 16 * ((n \div 16) % 2) + 32 * ((n \div 32) % 2)
             + 64 * ((n \div 64) % 2) + 128 * ((n \div 128) % 2)
<1>1. /\ n \div 1 = n /\ n \div 4 = (n \div 2) \div 2 /\ n \div 8 = (n \div 4) \div 2
      /\ n \div 16 = (n \div 8) \div 2 /\ n \div 32 = (n \div 16) \div 2
      /\ n \div 64 = (n \div 32) \div 2 /\ n \div 128 = (n \div 64) \div 2
  OBVIOUS
<1>2. \A m \in Nat : m = 2 * (m \div 2) + (m % 2)
  OBVIOUS
<1>3. /\ n \in Nat /\ n \div 2 \in Nat /\ n \div 4 \in Nat /\ n \div 8 \in Nat /\ n \div 16 \in Nat
      /\ n \div 32 \in Nat /\ n \div 64 \in Nat /\ n \div 128 \in 0 .. 1
  OBVIOUS
<1>4. (n \div 128) % 2 = n \div 128
  BY <1>3
<1> QED
  BY <1>1, <1>2, <1>3, <1>4

LEMMA BitsTell ==
  ASSUME NEW m \in 0 .. 255, NEW n \in 0 .. 255, Bits(m) = Bits(n)
  PROVE  m = n
<1>1. /\ (m \div 1) % 2 = 1 <=> (n \div 1) % 2 = 1
      /\ (m \div 2) % 2 = 1 <=> (n \div 2) % 2 = 1
      /\ (m \div 4) % 2 = 1 <=> (n \div 4) % 2 = 1
      /\ (m \div 8) % 2 = 1 <=> (n \div 8) % 2 = 1
      /\ (m \div 16) % 2 = 1 <=> (n \div 16) % 2 = 1
      /\ (m \div 32) % 2 = 1 <=> (n \div 32) % 2 = 1
      /\ (m \div 64) % 2 = 1 <=> (n \div 64) % 2 = 1
      /\ (m \div 128) % 2 = 1 <=> (n \div 128) % 2 = 1
  BY BitOf
<1>2. /\ (m \div 1) % 2 = (n \div 1) % 2 /\ (m \div 2) % 2 = (n \div 2) % 2
      /\ (m \div 4) % 2 = (n \div 4) % 2 /\ (m \div 8) % 2 = (n \div 8) % 2
      /\ (m \div 16) % 2 = (n \div 16) % 2 /\ (m \div 32) % 2 = (n \div 32) % 2
      /\ (m \div 64) % 2 = (n \div 64) % 2 /\ (m \div 128) % 2 = (n \div 128) % 2
  BY <1>1
<1> QED
  BY <1>2, ByteOfBits

LEMMA MaskIsByte ==
  ASSUME NEW config, NEW key
  PROVE  MaskOf(config, key) \in 0 .. 255
<1> DEFINE max == 255
<1>1. ASSUME NEW n \in Numbers(config, key, max) PROVE config[key] \in 0 .. max
  <2>1. max \in Nat
    OBVIOUS
  <2> HIDE DEF max
  <2> QED
    BY <1>1, <2>1, NumbersKey
<1>2. Numbers(config, key, max) # {} => config[key] \in 0 .. max
  BY <1>1
<1> QED
  BY <1>2 DEF MaskOf

(* The parameters of one key: at every address the key gives, one mask and  *)
(* one table of codes that are bytes.                                       *)
IsByte(n) == n \in 0 .. 255
IsFamily(config, key, family) ==
    \E mask, codes : /\ \A v \in DOMAIN codes : IsByte(codes[v])
                     /\ family = {Register(key, a, mask, codes) : a \in Addresses(config, key)}
Families(config) ==
    [UsbPowerShareEc         |-> Enable(config, "UsbPowerShareEc", "", 8, 40),
     CoolerBoostEc           |-> Enable(config, "CoolerBoostEc", "CoolerBoostMask", 0, 128),
     WebCamEc                |-> Enable(config, "WebCamEc", "WebCamMask", 0, 255),
     WebCamBlockEc           |-> Enable(config, "WebCamBlockEc", "WebCamMask", 0, 255),
     SuperBatteryEc          |-> Enable(config, "SuperBatteryEc", "SuperBatteryMask", 0, 255),
     MicMuteEc               |-> Enable(config, "MicMuteEc", "LedsMask", 0, 255),
     MuteLedEc               |-> Enable(config, "MuteLedEc", "LedsMask", 0, 255),
     BatteryThresholdEc      |-> BatteryThreshold(config),
     KeyboardBacklightModeEc |-> KeyboardBacklightMode(config),
     KeyboardBacklightEc     |-> KeyboardBacklight(config),
     FnSuperSwapEc           |-> FnSuperSwap(config),
     FanModeEc               |-> Modes(config, "FanModeEc", "FanModeAvailable"),
     ShiftModeEc             |-> Modes(config, "ShiftModeEc", "ShiftModeAvailable")]

LEMMA EnableFamily ==
  ASSUME NEW config, NEW key, NEW maskKey, NEW off, NEW on, IsByte(off), IsByte(on)
  PROVE  IsFamily(config, key, Enable(config, key, maskKey, off, on))
<1> DEFINE mask == MaskOf(config, maskKey)
           codes == [Off |-> off, On |-> IF on = 255 THEN mask ELSE on]
<1>1. Enable(config, key, maskKey, off, on)
        = {Register(key, a, mask, codes) : a \in Addresses(config, key)}
  BY DEF Enable
<1>2. mask \in 0 .. 255
  BY MaskIsByte
<1> HIDE DEF mask
<1>3. \A v \in DOMAIN codes : IsByte(codes[v])
  BY <1>2 DEF IsByte
<1> HIDE DEF codes
<1> QED
  BY <1>1, <1>3 DEF IsFamily

LEMMA ModesFamily ==
  ASSUME NEW config, NEW key, NEW available
  PROVE  IsFamily(config, key, Modes(config, key, available))
         \/ Modes(config, key, available) = {}
<1> DEFINE given == config[available]
           valid == {m \in DOMAIN given : given[m] \in 0 .. 255}
           codes == [mode \in valid |-> given[mode]]
           mask  == 255
<1>1. CASE available \notin DOMAIN config
  BY <1>1 DEF Modes
<1>2. CASE available \in DOMAIN config
  <2>1. Modes(config, key, available)
          = {Register(key, a, mask, codes) : a \in Addresses(config, key)}
    BY <1>2 DEF Modes
  <2>2. \A v \in DOMAIN codes : IsByte(codes[v])
    BY DEF IsByte
  <2> HIDE DEF codes, mask
  <2> QED
    BY <2>1, <2>2 DEF IsFamily
<1> QED
  BY <1>1, <1>2

LEMMA PairOf ==
  ASSUME NEW S, NEW pair \in Seq(S), Len(pair) = 2
  PROVE  pair[1] \in S /\ pair[2] \in S
OBVIOUS

LEMMA SettingFamilies ==
  ASSUME NEW config
  PROVE  /\ IsFamily(config, "BatteryThresholdEc", BatteryThreshold(config))
         /\ IsFamily(config, "KeyboardBacklightModeEc", KeyboardBacklightMode(config))
         /\ IsFamily(config, "KeyboardBacklightEc", KeyboardBacklight(config))
         /\ IsFamily(config, "FnSuperSwapEc", FnSuperSwap(config))
<1>1. IsFamily(config, "BatteryThresholdEc", BatteryThreshold(config))
  <2> DEFINE codes == [v \in {50, 70, 90} |-> v]
             mask == 127
  <2>1. BatteryThreshold(config)
          = {Register("BatteryThresholdEc", a, mask, codes)
                : a \in Addresses(config, "BatteryThresholdEc")}
    BY DEF BatteryThreshold
  <2>2. \A v \in DOMAIN codes : IsByte(codes[v])
    BY DEF IsByte
  <2> HIDE DEF codes, mask
  <2> QED
    BY <2>1, <2>2 DEF IsFamily
<1>2. IsFamily(config, "KeyboardBacklightModeEc", KeyboardBacklightMode(config))
  <2> DEFINE given == IF "KeyboardBacklightMode" \in DOMAIN config
                      THEN config["KeyboardBacklightMode"] ELSE <<>>
             pair == IF given \in Seq(0 .. 255) /\ Len(given) = 2 THEN given ELSE <<8, 0>>
             codes == [Off |-> pair[1], On |-> pair[2]]
             mask == 255
  <2>1. KeyboardBacklightMode(config)
          = {Register("KeyboardBacklightModeEc", a, mask, codes)
                : a \in Addresses(config, "KeyboardBacklightModeEc")}
    BY DEF KeyboardBacklightMode
  <2> HIDE DEF given
  <2>2. pair[1] \in 0 .. 255 /\ pair[2] \in 0 .. 255
    <3>1. CASE given \in Seq(0 .. 255) /\ Len(given) = 2
      <4>1. pair = given
        BY <3>1
      <4>2. given[1] \in 0 .. 255 /\ given[2] \in 0 .. 255
        BY <3>1, PairOf
      <4> HIDE DEF pair
      <4> QED
        BY <4>1, <4>2
    <3>2. CASE ~(given \in Seq(0 .. 255) /\ Len(given) = 2)
      <4>1. pair = <<8, 0>>
        BY <3>2
      <4> HIDE DEF pair
      <4> QED
        BY <4>1
    <3> QED
      BY <3>1, <3>2
  <2> HIDE DEF pair
  <2>3. \A v \in DOMAIN codes : IsByte(codes[v])
    BY <2>2 DEF IsByte
  <2> HIDE DEF codes, mask
  <2> QED
    BY <2>1, <2>3 DEF IsFamily
<1>3. IsFamily(config, "KeyboardBacklightEc", KeyboardBacklight(config))
  <2> DEFINE given == Numbers(config, "KeyboardBacklightStartState", 255)
             start == IF given = {} THEN 0 ELSE config["KeyboardBacklightStartState"]
             codes == [i \in 0 .. 3 |-> (start + i) % 256]
             mask == 255
  <2>1. KeyboardBacklight(config)
          = {Register("KeyboardBacklightEc", a, mask, codes)
                : a \in Addresses(config, "KeyboardBacklightEc")}
    BY DEF KeyboardBacklight
  <2>2. start \in Int
    <3>1. ASSUME NEW n \in given PROVE config["KeyboardBacklightStartState"] \in Int
      BY <3>1 DEF Numbers
    <3> QED
      BY <3>1
  <2> HIDE DEF start
  <2>3. \A v \in DOMAIN codes : IsByte(codes[v])
    BY <2>2 DEF IsByte
  <2> HIDE DEF codes, mask
  <2> QED
    BY <2>1, <2>3 DEF IsFamily
<1>4. IsFamily(config, "FnSuperSwapEc", FnSuperSwap(config))
  <2> DEFINE inverted == "FnWinSwapInvert" \in DOMAIN config /\ config["FnWinSwapInvert"]
             codes == IF inverted THEN [Right |-> 16, Left |-> 0] ELSE [Right |-> 0, Left |-> 16]
             mask == MaskOf(config, "FnSuperSwapMask")
  <2>1. FnSuperSwap(config)
          = {Register("FnSuperSwapEc", a, mask, codes) : a \in Addresses(config, "FnSuperSwapEc")}
    BY DEF FnSuperSwap
  <2> HIDE DEF inverted
  <2>2. \A v \in DOMAIN codes : IsByte(codes[v])
    BY DEF IsByte
  <2> HIDE DEF codes, mask
  <2> QED
    BY <2>1, <2>2 DEF IsFamily
<1> QED
  BY <1>1, <1>2, <1>3, <1>4

LEMMA SwitchFamilies ==
  ASSUME NEW config
  PROVE  /\ IsFamily(config, "UsbPowerShareEc", Enable(config, "UsbPowerShareEc", "", 8, 40))
         /\ IsFamily(config, "CoolerBoostEc", Enable(config, "CoolerBoostEc", "CoolerBoostMask", 0, 128))
         /\ IsFamily(config, "WebCamEc", Enable(config, "WebCamEc", "WebCamMask", 0, 255))
         /\ IsFamily(config, "WebCamBlockEc", Enable(config, "WebCamBlockEc", "WebCamMask", 0, 255))
         /\ IsFamily(config, "SuperBatteryEc", Enable(config, "SuperBatteryEc", "SuperBatteryMask", 0, 255))
         /\ IsFamily(config, "MicMuteEc", Enable(config, "MicMuteEc", "LedsMask", 0, 255))
         /\ IsFamily(config, "MuteLedEc", Enable(config, "MuteLedEc", "LedsMask", 0, 255))
<1>1. IsByte(0) /\ IsByte(8) /\ IsByte(40) /\ IsByte(128) /\ IsByte(255)
  BY DEF IsByte
<1>2. IsFamily(config, "UsbPowerShareEc", Enable(config, "UsbPowerShareEc", "", 8, 40))
  BY <1>1, EnableFamily, Zenon
<1>3. IsFamily(config, "CoolerBoostEc", Enable(config, "CoolerBoostEc", "CoolerBoostMask", 0, 128))
  BY <1>1, EnableFamily, Zenon
<1>4. IsFamily(config, "WebCamEc", Enable(config, "WebCamEc", "WebCamMask", 0, 255))
  BY <1>1, EnableFamily, Zenon
<1>5. IsFamily(config, "WebCamBlockEc", Enable(config, "WebCamBlockEc", "WebCamMask", 0, 255))
  BY <1>1, EnableFamily, Zenon
<1>6. IsFamily(config, "SuperBatteryEc", Enable(config, "SuperBatteryEc", "SuperBatteryMask", 0, 255))
  BY <1>1, EnableFamily, Zenon
<1>7. IsFamily(config, "MicMuteEc", Enable(config, "MicMuteEc", "LedsMask", 0, 255))
  BY <1>1, EnableFamily, Zenon
<1>8. IsFamily(config, "MuteLedEc", Enable(config, "MuteLedEc", "LedsMask", 0, 255))
  BY <1>1, EnableFamily, Zenon
<1> QED
  BY <1>2, <1>3, <1>4, <1>5, <1>6, <1>7, <1>8

LEMMA ModeFamilies ==
  ASSUME NEW config
  PROVE  LET fan   == Modes(config, "FanModeEc", "FanModeAvailable")
             shift == Modes(config, "ShiftModeEc", "ShiftModeAvailable")
         IN  /\ IsFamily(config, "FanModeEc", fan) \/ fan = {}
             /\ IsFamily(config, "ShiftModeEc", shift) \/ shift = {}
BY ModesFamily, Zenon

LEMMA KeysHaveFamilies ==
  ASSUME NEW config, NEW key \in PolicyKeys
  PROVE  IsFamily(config, key, Families(config)[key]) \/ Families(config)[key] = {}
<1> DEFINE families == Families(config)
           family == families[key]
<1>1. CASE key = "UsbPowerShareEc"
  <2>1. family = Enable(config, "UsbPowerShareEc", "", 8, 40)
    BY <1>1 DEF Families
  <2>2. IsFamily(config, "UsbPowerShareEc", Enable(config, "UsbPowerShareEc", "", 8, 40))
    BY SwitchFamilies, Zenon
  <2> HIDE DEF family
  <2> QED
    BY <1>1, <2>1, <2>2, Zenon DEF family
<1>2. CASE key = "CoolerBoostEc"
  <2>1. family = Enable(config, "CoolerBoostEc", "CoolerBoostMask", 0, 128)
    BY <1>2 DEF Families
  <2>2. IsFamily(config, "CoolerBoostEc", Enable(config, "CoolerBoostEc", "CoolerBoostMask", 0, 128))
    BY SwitchFamilies, Zenon
  <2> HIDE DEF family
  <2> QED
    BY <1>2, <2>1, <2>2, Zenon DEF family
<1>3. CASE key = "WebCamEc"
  <2>1. family = Enable(config, "WebCamEc", "WebCamMask", 0, 255)
    BY <1>3 DEF Families
  <2>2. IsFamily(config, "WebCamEc", Enable(config, "WebCamEc", "WebCamMask", 0, 255))
    BY SwitchFamilies, Zenon
  <2> HIDE DEF family
  <2> QED
    BY <1>3, <2>1, <2>2, Zenon DEF family
<1>4. CASE key = "WebCamBlockEc"
  <2>1. family = Enable(config, "WebCamBlockEc", "WebCamMask", 0, 255)
    BY <1>4 DEF Families
  <2>2. IsFamily(config, "WebCamBlockEc", Enable(config, "WebCamBlockEc", "WebCamMask", 0, 255))
    BY SwitchFamilies, Zenon
  <2> HIDE DEF family
  <2> QED
    BY <1>4, <2>1, <2>2, Zenon DEF family
<1>5. CASE key = "SuperBatteryEc"
  <2>1. family = Enable(config, "SuperBatteryEc", "SuperBatteryMask", 0, 255)
    BY <1>5 DEF Families
  <2>2. IsFamily(config, "SuperBatteryEc", Enable(config, "SuperBatteryEc", "SuperBatteryMask", 0, 255))
    BY SwitchFamilies, Zenon
  <2> HIDE DEF family
  <2> QED
    BY <1>5, <2>1, <2>2, Zenon DEF family
<1>6. CASE key = "MicMuteEc"
  <2>1. family = Enable(config, "MicMuteEc", "LedsMask", 0, 255)
    BY <1>6 DEF Families
  <2>2. IsFamily(config, "MicMuteEc", Enable(config, "MicMuteEc", "LedsMask", 0, 255))
    BY SwitchFamilies, Zenon
  <2> HIDE DEF family
  <2> QED
    BY <1>6, <2>1, <2>2, Zenon DEF family
<1>7. CASE key = "MuteLedEc"
  <2>1. family = Enable(config, "MuteLedEc", "LedsMask", 0, 255)
    BY <1>7 DEF Families
  <2>2. IsFamily(config, "MuteLedEc", Enable(config, "MuteLedEc", "LedsMask", 0, 255))
    BY SwitchFamilies, Zenon
  <2> HIDE DEF family
  <2> QED
    BY <1>7, <2>1, <2>2, Zenon DEF family
<1>8. CASE key = "BatteryThresholdEc"
  <2>1. family = BatteryThreshold(config)
    BY <1>8 DEF Families
  <2>2. IsFamily(config, "BatteryThresholdEc", BatteryThreshold(config))
    BY SettingFamilies, Zenon
  <2> HIDE DEF family
  <2> QED
    BY <1>8, <2>1, <2>2, Zenon DEF family
<1>9. CASE key = "KeyboardBacklightModeEc"
  <2>1. family = KeyboardBacklightMode(config)
    BY <1>9 DEF Families
  <2>2. IsFamily(config, "KeyboardBacklightModeEc", KeyboardBacklightMode(config))
    BY SettingFamilies, Zenon
  <2> HIDE DEF family
  <2> QED
    BY <1>9, <2>1, <2>2, Zenon DEF family
<1>10. CASE key = "KeyboardBacklightEc"
  <2>1. family = KeyboardBacklight(config)
    BY <1>10 DEF Families
  <2>2. IsFamily(config, "KeyboardBacklightEc", KeyboardBacklight(config))
    BY SettingFamilies, Zenon
  <2> HIDE DEF family
  <2> QED
    BY <1>10, <2>1, <2>2, Zenon DEF family
<1>11. CASE key = "FnSuperSwapEc"
  <2>1. family = FnSuperSwap(config)
    BY <1>11 DEF Families
  <2>2. IsFamily(config, "FnSuperSwapEc", FnSuperSwap(config))
    BY SettingFamilies, Zenon
  <2> HIDE DEF family
  <2> QED
    BY <1>11, <2>1, <2>2, Zenon DEF family
<1>12. CASE key = "FanModeEc"
  <2>1. family = Modes(config, "FanModeEc", "FanModeAvailable")
    BY <1>12 DEF Families
  <2>2. IsFamily(config, "FanModeEc", Modes(config, "FanModeEc", "FanModeAvailable"))
        \/ Modes(config, "FanModeEc", "FanModeAvailable") = {}
    BY ModeFamilies, Zenon
  <2> HIDE DEF family
  <2> QED
    BY <1>12, <2>1, <2>2, Zenon DEF family
<1>13. CASE key = "ShiftModeEc"
  <2>1. family = Modes(config, "ShiftModeEc", "ShiftModeAvailable")
    BY <1>13 DEF Families
  <2>2. IsFamily(config, "ShiftModeEc", Modes(config, "ShiftModeEc", "ShiftModeAvailable"))
        \/ Modes(config, "ShiftModeEc", "ShiftModeAvailable") = {}
    BY ModeFamilies, Zenon
  <2> HIDE DEF family
  <2> QED
    BY <1>13, <2>1, <2>2, Zenon DEF family
<1> QED
  BY <1>1, <1>2, <1>3, <1>4, <1>5, <1>6, <1>7,
     <1>8, <1>9, <1>10, <1>11, <1>12, <1>13 DEF PolicyKeys

LEMMA SettingsHaveFamilies ==
  ASSUME NEW config, NEW r \in Switches(config) \union Settings(config)
  PROVE  \E key \in PolicyKeys : r \in Families(config)[key]
<1> DEFINE A == Enable(config, "UsbPowerShareEc", "", 8, 40)
           B == Enable(config, "CoolerBoostEc", "CoolerBoostMask", 0, 128)
           C == Enable(config, "WebCamEc", "WebCamMask", 0, 255)
           D == Enable(config, "WebCamBlockEc", "WebCamMask", 0, 255)
           E == Enable(config, "SuperBatteryEc", "SuperBatteryMask", 0, 255)
           F == Enable(config, "MicMuteEc", "LedsMask", 0, 255)
           G == Enable(config, "MuteLedEc", "LedsMask", 0, 255)
           families == Families(config)
<1>1. CASE r \in Switches(config)
  <2>1. r \in UNION {A, B, C, D, E, F, G}
    BY <1>1 DEF Switches
  <2>2. /\ families["UsbPowerShareEc"] = A /\ families["CoolerBoostEc"] = B
        /\ families["WebCamEc"] = C /\ families["WebCamBlockEc"] = D
        /\ families["SuperBatteryEc"] = E /\ families["MicMuteEc"] = F
        /\ families["MuteLedEc"] = G
    BY DEF Families
  <2> HIDE DEF A, B, C, D, E, F, G
  <2>3. r \in A \/ r \in B \/ r \in C \/ r \in D \/ r \in E \/ r \in F \/ r \in G
    BY <2>1, OneOfSeven
  <2> HIDE DEF families
  <2>4. \E key \in PolicyKeys : r \in families[key]
    BY <2>2, <2>3 DEF PolicyKeys
  <2> QED
    BY <2>4 DEF families
<1>2. CASE r \in Settings(config)
  <2>1. /\ families["BatteryThresholdEc"] = BatteryThreshold(config)
        /\ families["KeyboardBacklightModeEc"] = KeyboardBacklightMode(config)
        /\ families["KeyboardBacklightEc"] = KeyboardBacklight(config)
        /\ families["FnSuperSwapEc"] = FnSuperSwap(config)
        /\ families["FanModeEc"] = Modes(config, "FanModeEc", "FanModeAvailable")
        /\ families["ShiftModeEc"] = Modes(config, "ShiftModeEc", "ShiftModeAvailable")
    BY DEF Families
  <2> HIDE DEF families
  <2>2. \E key \in PolicyKeys : r \in families[key]
    BY <1>2, <2>1 DEF Settings, PolicyKeys
  <2> QED
    BY <2>2 DEF families
<1> QED
  BY <1>1, <1>2

LEMMA FamilyMember ==
  ASSUME NEW config, NEW key \in PolicyKeys, NEW r \in Families(config)[key]
  PROVE  /\ r.name = key
         /\ \A v \in DOMAIN r.codes : IsByte(r.codes[v])
         /\ \A s \in Families(config)[key] : s = r
<1>1. PICK mask, codes :
        /\ \A v \in DOMAIN codes : IsByte(codes[v])
        /\ Families(config)[key] = {Register(key, a, mask, codes) : a \in Addresses(config, key)}
  BY KeysHaveFamilies DEF IsFamily
<1>2. PICK a \in Addresses(config, key) : r = Register(key, a, mask, codes)
  BY <1>1
<1>3. r.name = key /\ r.codes = codes
  BY <1>2 DEF Register
<1>4. ASSUME NEW s \in Families(config)[key] PROVE s = r
  <2> DEFINE max == 65535
  <2>1. PICK b \in Addresses(config, key) : s = Register(key, b, mask, codes)
    BY <1>1
  <2>2. a \in Numbers(config, key, max) /\ b \in Numbers(config, key, max) /\ max \in Nat
    BY DEF Addresses
  <2> HIDE DEF max
  <2>3. a = b
    BY <2>2, NumbersKey
  <2> QED
    BY <1>2, <2>1, <2>3
<1> QED
  BY <1>1, <1>3, <1>4

(* What the theorems about parameters assume of a layout (DisjointFields,   *)
(* DecodableCodes of RegistersProofs) holds for the settings of a profile   *)
(* without overlaps whose codes fit: no two own a bit, the codes lie in     *)
(* their masks, and each has bits of its own (ecparameterfactory.cpp:80-100,*)
(* 134-190, 216-365; ioparameterimpl.h:34-70).                              *)
THEOREM SettingsAreFields ==
  ASSUME NEW config, CodesFit(config),
         \A pair \in Overlaps(config) : Cardinality(pair) = 1
  PROVE  \A r \in Writable(config) \ FanCurves :
           /\ \A s \in Writable(config) \ FanCurves :
                 r # s /\ r.address = s.address => r.mask \cap s.mask = {}
           /\ \A v, w \in DOMAIN r.codes :
                 /\ Bits(r.codes[v]) \subseteq r.mask
                 /\ Bits(r.codes[v]) = Bits(r.codes[w]) => v = w
<1> DEFINE settings == Writable(config) \ FanCurves
           Shares(p, q) == p.address = q.address /\ p.mask \intersect q.mask # {}
<1>1. ASSUME NEW r \in settings
      PROVE  \E key \in PolicyKeys : r \in Families(config)[key]
  BY SettingsHaveFamilies, SettingKind
<1>2. ASSUME NEW r \in settings, NEW s \in settings, r.name = s.name
      PROVE  r = s
  BY <1>1, <1>2, FamilyMember
<1>3. ASSUME NEW r \in settings, NEW s \in settings, r # s, r.address = s.address
      PROVE  r.mask \cap s.mask = {}
  <2> SUFFICES ASSUME r.mask \cap s.mask # {} PROVE FALSE
    OBVIOUS
  <2>1. <<r, s>> \in {q \in settings \X settings : Shares(q[1], q[2])}
    BY <1>3
  <2>2. {r.name, s.name} \in Overlaps(config)
    BY <2>1 DEF Overlaps
  <2>3. Cardinality({r.name, s.name}) = 1
    BY <2>2
  <2>4. r.name = s.name
    <3>1. IsFiniteSet({r.name} \union {s.name})
      BY FS_Singleton, FS_AddElement
    <3>2. {r.name} \union {s.name} = {r.name, s.name}
      OBVIOUS
    <3>3. PICK x : {r.name, s.name} = {x}
      BY <2>3, <3>1, <3>2, FS_Singleton
    <3> QED
      BY <3>3
  <2> QED
    BY <1>2, <1>3, <2>4
<1>4. ASSUME NEW r \in settings, NEW v \in DOMAIN r.codes, NEW w \in DOMAIN r.codes
      PROVE  /\ Bits(r.codes[v]) \subseteq r.mask
             /\ Bits(r.codes[v]) = Bits(r.codes[w]) => v = w
  <2>1. Decodable(r)
    BY RegistersDecodable
  <2>2. r.codes[v] \in 0 .. 255 /\ r.codes[w] \in 0 .. 255
    BY <1>1, FamilyMember DEF IsByte
  <2> QED
    BY <2>1, <2>2, BitsTell DEF Decodable
<1> QED
  BY <1>3, <1>4

-----------------------------------------------------------------------------
(* The known families: their configurations with the defaults, key by key. *)
SharesKnown(config) ==
    \A k, l \in KeysOf(config) : config[k] = config[l] => k = l \/ {k, l} \in KnownOverlaps
Has(config, key, value) == key \in DOMAIN config /\ config[key] = value

LEMMA SoundLayout ==
  ASSUME NEW config, CodesFit(config), Apart(config), SharesKnown(config)
  PROVE  Sound(config)
<1>1. ASSUME NEW pair \in Overlaps(config)
      PROVE  pair \in KnownOverlaps \/ Cardinality(pair) = 1
  <2>1. PICK k, l \in KeysOf(config) : pair = {k, l} /\ config[k] = config[l]
    BY SharedBitsShareAddress
  <2>2. k = l \/ pair \in KnownOverlaps
    BY <2>1 DEF SharesKnown
  <2>3. CASE k = l
    <3>1. pair = {k}
      BY <2>1, <2>3
    <3> QED
      BY <3>1, FS_Singleton
  <2> QED
    BY <2>2, <2>3
<1> QED
  BY <1>1, RegistersDecodable, ApartIsSafe, FactoryAndPolicyAgree DEF Sound

LEMMA ModesDiffer == Distinct(FanModes) /\ Distinct(ShiftModes)
BY DEF Distinct, FanModes, ShiftModes

LEMMA MaskIs ==
  ASSUME NEW config, NEW key, NEW mask \in 0 .. 255, Has(config, key, mask)
  PROVE  MaskOf(config, key) = mask
<1>1. config[key] \in {config[k] : k \in {key} \cap DOMAIN config}
  BY DEF Has
<1>2. config[key] \in Numbers(config, key, 255)
  BY <1>1 DEF Has, Numbers
<1> QED
  BY <1>2 DEF MaskOf, Has

LEMMA NoMask ==
  ASSUME NEW config, NEW key, key \notin DOMAIN config
  PROVE  MaskOf(config, key) = 255
<1>1. {key} \cap DOMAIN config = {}
  OBVIOUS
<1>2. Numbers(config, key, 255) = {}
  BY <1>1, Zenon DEF Numbers
<1> QED
  BY <1>2 DEF MaskOf

(* The codes of both families: the masks they give, the modes they list. *)
FamilyMasks(config) ==
    /\ "" \notin DOMAIN config
    /\ Has(config, "CoolerBoostMask", 128) /\ Has(config, "FnSuperSwapMask", 16)
    /\ Has(config, "WebCamMask", 2)
    /\ Has(config, "LedsMask", 2) \/ Has(config, "LedsMask", 4)
    /\ "SuperBatteryMask" \notin DOMAIN config \/ Has(config, "SuperBatteryMask", 15)
FamilyModes(config) ==
    /\ config["FanModeAvailable"] = FanModes /\ config["ShiftModeAvailable"] = ShiftModes
    /\ \/ "KeyboardBacklightMode" \notin DOMAIN config
       \/ config["KeyboardBacklightMode"] = <<0, 8>>

LEMMA MaskGiven ==
  ASSUME NEW config, NEW key, NEW mask \in 1 .. 255, Has(config, key, mask)
  PROVE  MaskOf(config, key) # 0
<1>1. mask \in 0 .. 255
  OBVIOUS
<1>2. MaskOf(config, key) = mask
  BY <1>1, MaskIs
<1> QED
  BY <1>2

LEMMA FamilyMasksFit ==
  ASSUME NEW config, FamilyMasks(config)
  PROVE  /\ MaskOf(config, "CoolerBoostMask") = 128 /\ MaskOf(config, "FnSuperSwapMask") = 16
         /\ \A key \in {"WebCamMask", "SuperBatteryMask", "LedsMask"} : MaskOf(config, key) # 0
<1>1. /\ 128 \in 0 .. 255 /\ 16 \in 0 .. 255
      /\ 2 \in 1 .. 255 /\ 4 \in 1 .. 255 /\ 15 \in 1 .. 255 /\ 255 # 0
  OBVIOUS
<1>2. MaskOf(config, "CoolerBoostMask") = 128 /\ MaskOf(config, "FnSuperSwapMask") = 16
  BY <1>1, MaskIs, Zenon DEF FamilyMasks
<1>3. MaskOf(config, "WebCamMask") # 0
  BY <1>1, MaskGiven, Zenon DEF FamilyMasks
<1>4. MaskOf(config, "LedsMask") # 0
  BY <1>1, MaskGiven, Zenon DEF FamilyMasks
<1>5. MaskOf(config, "SuperBatteryMask") # 0
  BY <1>1, MaskGiven, NoMask, Zenon DEF FamilyMasks
<1> QED
  BY <1>2, <1>3, <1>4, <1>5

LEMMA FamilyModesFit ==
  ASSUME NEW config, FamilyModes(config)
  PROVE  /\ \A key \in {"FanModeAvailable", "ShiftModeAvailable"} : Distinct(config[key])
         /\ "KeyboardBacklightMode" \in DOMAIN config
              => config["KeyboardBacklightMode"][1] # config["KeyboardBacklightMode"][2]
<1> DEFINE pair == <<0, 8>>
<1>1. pair[1] # pair[2]
  OBVIOUS
<1> HIDE DEF pair
<1>2. "KeyboardBacklightMode" \in DOMAIN config => config["KeyboardBacklightMode"] = pair
  BY Zenon DEF FamilyModes, pair
<1>3. Distinct(config["FanModeAvailable"]) /\ Distinct(config["ShiftModeAvailable"])
  BY ModesDiffer, Zenon DEF FamilyModes
<1> QED
  BY <1>1, <1>2, <1>3

LEMMA FamilyCodes ==
  ASSUME NEW config, FamilyMasks(config), FamilyModes(config)
  PROVE  CodesFit(config)
<1>1. "" \notin DOMAIN config
  BY DEF FamilyMasks
<1>2. /\ 7 \in Bits(MaskOf(config, "CoolerBoostMask"))
      /\ 4 \in Bits(MaskOf(config, "FnSuperSwapMask"))
  <2>1. MaskOf(config, "CoolerBoostMask") = 128 /\ MaskOf(config, "FnSuperSwapMask") = 16
    BY FamilyMasksFit
  <2>2. 7 \in Bits(128) /\ 4 \in Bits(16)
    BY KnownBits
  <2> QED
    BY <2>1, <2>2
<1>3. \A key \in {"WebCamMask", "SuperBatteryMask", "LedsMask"} : MaskOf(config, key) # 0
  BY FamilyMasksFit
<1>4. /\ \A key \in {"FanModeAvailable", "ShiftModeAvailable"} : Distinct(config[key])
      /\ "KeyboardBacklightMode" \in DOMAIN config
           => config["KeyboardBacklightMode"][1] # config["KeyboardBacklightMode"][2]
  BY FamilyModesFit
<1> QED
  BY <1>1, <1>2, <1>3, <1>4, Zenon DEF CodesFit

LEMMA FirstSound ==
  ASSUME Defaults = MCDefaults
  PROVE  Sound(Config([values |-> First]))
<1> DEFINE c == Config([values |-> First])
<1> SUFFICES Sound(c)
  OBVIOUS
<1>1. DOMAIN c =
        {"BatteryChargeEc", "BatteryChargingStatusEc", "BatteryThresholdEc",
         "CoolerBoostEc", "CoolerBoostMask", "CpuTempEc", "FanCpuEc", "FanGpuEc",
         "FanModeAvailable", "FanModeEc", "FnSuperSwapEc", "FnSuperSwapMask",
         "FnWinSwapInvert", "GpuTempEc", "KeyboardBacklightEc",
         "KeyboardBacklightStartState", "LedsMask", "MicMuteEc", "MuteLedEc",
         "ShiftModeAvailable", "ShiftModeEc", "UsbPowerShareEc", "WebCamBlockEc",
         "WebCamEc", "WebCamMask"}
  BY DEF Config, First, Extended, Common, MCDefaults
<1>2. /\ c["CoolerBoostMask"] = 128 /\ c["FnSuperSwapMask"] = 16 /\ c["WebCamMask"] = 2
      /\ c["LedsMask"] = 4 /\ c["FanModeAvailable"] = FanModes
      /\ c["ShiftModeAvailable"] = ShiftModes
  BY DEF Config, First, Extended, Common, MCDefaults
<1>3. /\ c["BatteryThresholdEc"] = 239 /\ c["KeyboardBacklightEc"] = 243
      /\ c["UsbPowerShareEc"] = 191 /\ c["CoolerBoostEc"] = 152 /\ c["WebCamEc"] = 46
      /\ c["WebCamBlockEc"] = 47 /\ c["FnSuperSwapEc"] = 191 /\ c["FanModeEc"] = 244
      /\ c["ShiftModeEc"] = 242 /\ c["MicMuteEc"] = 43 /\ c["MuteLedEc"] = 44
  BY DEF Config, First, Extended, Common, MCDefaults
<1>4. /\ c["CpuTempEc"] = 104 /\ c["GpuTempEc"] = 128 /\ c["BatteryChargeEc"] = 66
      /\ c["BatteryChargingStatusEc"] = 49 /\ c["FanCpuEc"] = 113 /\ c["FanGpuEc"] = 137
  BY DEF Config, First, Extended, Common, MCDefaults
<1> HIDE DEF c
<1>5. CodesFit(c)
  <2>1. FamilyMasks(c)
    BY <1>1, <1>2 DEF FamilyMasks, Has
  <2>2. FamilyModes(c)
    BY <1>1, <1>2 DEF FamilyModes
  <2> QED
    BY <2>1, <2>2, FamilyCodes
<1>6. KeysOf(c) =
        {"BatteryThresholdEc", "KeyboardBacklightEc", "UsbPowerShareEc",
         "CoolerBoostEc", "WebCamEc", "WebCamBlockEc", "FnSuperSwapEc", "FanModeEc",
         "ShiftModeEc", "MicMuteEc", "MuteLedEc"}
  BY <1>1 DEF KeysOf, PolicyKeys
<1>7. Apart(c)
  <2>1. ASSUME NEW key \in KeysOf(c)
        PROVE  c[key] \in {43, 44, 46, 47, 152, 191, 239, 242, 243, 244}
    BY <1>3, <1>6, <2>1
  <2>2. ASSUME NEW t \in TelemetryKeys, NEW a \in Addresses(c, t)
        PROVE  a \in {49, 66, 104, 113, 128, 137}
    <3> DEFINE max == 65535
    <3>1. a \in Numbers(c, t, max) /\ max \in Nat
      BY <2>2 DEF Addresses
    <3> HIDE DEF max
    <3>2. c[t] = a
      BY <3>1, NumbersKey
    <3> QED
      BY <1>4, <2>2, <3>2 DEF TelemetryKeys
  <2>3. ASSUME NEW t \in TelemetryKeys, NEW a \in Addresses(c, t)
        PROVE  a \notin CurveBytes /\ \A key \in KeysOf(c) : c[key] # a
    <3>1. a \in {49, 66, 104, 113, 128, 137}
      BY <2>2, <2>3
    <3>2. a \notin CurveBytes
      BY <3>1 DEF CurveBytes
    <3> QED
      BY <2>1, <3>1, <3>2
  <2>4. ASSUME NEW key \in KeysOf(c) PROVE c[key] \notin FirmwareBytes
    BY <2>1, <2>4 DEF FirmwareBytes
  <2> QED
    BY <2>3, <2>4 DEF Apart
<1>8. SharesKnown(c)
  BY <1>3, <1>6 DEF SharesKnown, KnownOverlaps
<1> QED
  BY <1>5, <1>7, <1>8, SoundLayout

LEMMA SecondConditions ==
  ASSUME Defaults = MCDefaults
  PROVE  LET c == Config([values |-> Second])
         IN  /\ CodesFit(c) /\ Apart(c)
             /\ \A k, l \in KeysOf(c) : c[k] = c[l] => k = l
<1> DEFINE c == Config([values |-> Second])
<1>1. DOMAIN c =
        {"BatteryChargeEc", "BatteryChargingStatusEc", "BatteryThresholdEc",
         "CoolerBoostEc", "CoolerBoostMask", "CpuTempEc", "FanCpuEc", "FanGpuEc",
         "FanModeAvailable", "FanModeEc", "FnSuperSwapEc", "FnSuperSwapMask",
         "FnWinSwapInvert", "GpuTempEc", "KeyboardBacklightEc",
         "KeyboardBacklightStartState", "LedsMask", "MicMuteEc", "MuteLedEc",
         "ShiftModeAvailable", "ShiftModeEc", "SuperBatteryEc", "SuperBatteryMask",
         "UsbPowerShareEc", "WebCamBlockEc", "WebCamEc", "WebCamMask"}
  BY DEF Config, Second, Extended, Common, MCDefaults
<1>2. /\ c["CoolerBoostMask"] = 128 /\ c["FnSuperSwapMask"] = 16 /\ c["WebCamMask"] = 2
      /\ c["LedsMask"] = 2 /\ c["FanModeAvailable"] = FanModes
      /\ c["ShiftModeAvailable"] = ShiftModes
      /\ c["SuperBatteryMask"] = 15
  BY DEF Config, Second, Extended, Common, MCDefaults
<1>3. /\ c["BatteryThresholdEc"] = 215 /\ c["KeyboardBacklightEc"] = 211
      /\ c["UsbPowerShareEc"] = 191 /\ c["CoolerBoostEc"] = 152 /\ c["WebCamEc"] = 46
      /\ c["WebCamBlockEc"] = 47 /\ c["FnSuperSwapEc"] = 232 /\ c["FanModeEc"] = 212
      /\ c["ShiftModeEc"] = 210 /\ c["SuperBatteryEc"] = 235 /\ c["MicMuteEc"] = 44
      /\ c["MuteLedEc"] = 45
  BY DEF Config, Second, Extended, Common, MCDefaults
<1>4. /\ c["CpuTempEc"] = 104 /\ c["GpuTempEc"] = 128 /\ c["BatteryChargeEc"] = 66
      /\ c["BatteryChargingStatusEc"] = 49 /\ c["FanCpuEc"] = 113 /\ c["FanGpuEc"] = 137
  BY DEF Config, Second, Extended, Common, MCDefaults
<1> HIDE DEF c
<1>5. CodesFit(c)
  <2>1. FamilyMasks(c)
    BY <1>1, <1>2 DEF FamilyMasks, Has
  <2>2. FamilyModes(c)
    BY <1>1, <1>2 DEF FamilyModes
  <2> QED
    BY <2>1, <2>2, FamilyCodes
<1>6. KeysOf(c) =
        {"BatteryThresholdEc", "KeyboardBacklightEc", "UsbPowerShareEc",
         "CoolerBoostEc", "WebCamEc", "WebCamBlockEc", "FnSuperSwapEc", "FanModeEc",
         "ShiftModeEc", "SuperBatteryEc", "MicMuteEc", "MuteLedEc"}
  BY <1>1 DEF KeysOf, PolicyKeys
<1>7. Apart(c)
  <2>1. ASSUME NEW key \in KeysOf(c)
        PROVE  c[key] \in {44, 45, 46, 47, 152, 191, 210, 211, 212, 215, 232, 235}
    BY <1>3, <1>6, <2>1
  <2>2. ASSUME NEW t \in TelemetryKeys, NEW a \in Addresses(c, t)
        PROVE  a \in {49, 66, 104, 113, 128, 137}
    <3> DEFINE max == 65535
    <3>1. a \in Numbers(c, t, max) /\ max \in Nat
      BY <2>2 DEF Addresses
    <3> HIDE DEF max
    <3>2. c[t] = a
      BY <3>1, NumbersKey
    <3> QED
      BY <1>4, <2>2, <3>2 DEF TelemetryKeys
  <2>3. ASSUME NEW t \in TelemetryKeys, NEW a \in Addresses(c, t)
        PROVE  a \notin CurveBytes /\ \A key \in KeysOf(c) : c[key] # a
    <3>1. a \in {49, 66, 104, 113, 128, 137}
      BY <2>2, <2>3
    <3>2. a \notin CurveBytes
      BY <3>1 DEF CurveBytes
    <3> QED
      BY <2>1, <3>1, <3>2
  <2>4. ASSUME NEW key \in KeysOf(c) PROVE c[key] \notin FirmwareBytes
    BY <2>1, <2>4 DEF FirmwareBytes
  <2> QED
    BY <2>3, <2>4 DEF Apart
<1>8. \A k, l \in KeysOf(c) : c[k] = c[l] => k = l
  BY <1>3, <1>6
<1> QED
  BY <1>5, <1>7, <1>8 DEF c

LEMMA SecondSound ==
  ASSUME Defaults = MCDefaults
  PROVE  Sound(Config([values |-> Second]))
<1> DEFINE c == Config([values |-> Second])
<1>1. CodesFit(c) /\ Apart(c) /\ \A k, l \in KeysOf(c) : c[k] = c[l] => k = l
  BY SecondConditions
<1> HIDE DEF c
<1>2. SharesKnown(c)
  BY <1>1 DEF SharesKnown
<1>3. Sound(c)
  BY <1>1, <1>2, SoundLayout
<1> QED
  BY <1>3 DEF c

(* The second family is such a profile: its settings are fields as the      *)
(* theorems about parameters assume.  The first is not: UsbPowerShareEc and *)
(* FnSuperSwapEc are both in register 0xbf (ecparameterfactory.cpp:216-365).*)
THEOREM SecondFamilyHasNoOverlaps ==
  ASSUME Defaults = MCDefaults
  PROVE  LET c == Config([values |-> Second])
         IN  CodesFit(c) /\ \A pair \in Overlaps(c) : Cardinality(pair) = 1
<1> DEFINE c == Config([values |-> Second])
<1>1. CodesFit(c) /\ \A k, l \in KeysOf(c) : c[k] = c[l] => k = l
  BY SecondConditions
<1> HIDE DEF c
<1>2. ASSUME NEW pair \in Overlaps(c) PROVE Cardinality(pair) = 1
  <2>1. PICK k, l \in KeysOf(c) : pair = {k, l} /\ c[k] = c[l]
    BY <1>2, SharedBitsShareAddress
  <2>2. pair = {k}
    BY <1>1, <2>1
  <2> QED
    BY <2>2, FS_Singleton
<1> QED
  BY <1>1, <1>2 DEF c

LEMMA WithBacklightModeSound ==
  ASSUME Defaults = MCDefaults
  PROVE  Sound(Config([values |-> WithBacklightMode]))
<1> DEFINE c == Config([values |-> WithBacklightMode])
<1> SUFFICES Sound(c)
  OBVIOUS
<1>1. DOMAIN c =
        {"BatteryChargeEc", "BatteryChargingStatusEc", "BatteryThresholdEc",
         "CoolerBoostEc", "CoolerBoostMask", "CpuTempEc", "FanCpuEc", "FanGpuEc",
         "FanModeAvailable", "FanModeEc", "FnSuperSwapEc", "FnSuperSwapMask",
         "FnWinSwapInvert", "GpuTempEc", "KeyboardBacklightEc",
         "KeyboardBacklightMode", "KeyboardBacklightModeEc",
         "KeyboardBacklightStartState", "LedsMask", "MicMuteEc", "MuteLedEc",
         "ShiftModeAvailable", "ShiftModeEc", "UsbPowerShareEc", "WebCamBlockEc",
         "WebCamEc", "WebCamMask"}
  BY DEF Config, WithBacklightMode, First, Extended, Common, MCDefaults
<1>2. /\ c["CoolerBoostMask"] = 128 /\ c["FnSuperSwapMask"] = 16 /\ c["WebCamMask"] = 2
      /\ c["LedsMask"] = 4 /\ c["FanModeAvailable"] = FanModes
      /\ c["ShiftModeAvailable"] = ShiftModes
      /\ c["KeyboardBacklightMode"] = <<0, 8>>
  BY DEF Config, WithBacklightMode, First, Extended, Common, MCDefaults
<1>3. /\ c["BatteryThresholdEc"] = 239 /\ c["KeyboardBacklightModeEc"] = 44
      /\ c["KeyboardBacklightEc"] = 243 /\ c["UsbPowerShareEc"] = 191
      /\ c["CoolerBoostEc"] = 152 /\ c["WebCamEc"] = 46 /\ c["WebCamBlockEc"] = 47
      /\ c["FnSuperSwapEc"] = 191 /\ c["FanModeEc"] = 244 /\ c["ShiftModeEc"] = 242
      /\ c["MicMuteEc"] = 43 /\ c["MuteLedEc"] = 44
  BY DEF Config, WithBacklightMode, First, Extended, Common, MCDefaults
<1>4. /\ c["CpuTempEc"] = 104 /\ c["GpuTempEc"] = 128 /\ c["BatteryChargeEc"] = 66
      /\ c["BatteryChargingStatusEc"] = 49 /\ c["FanCpuEc"] = 113 /\ c["FanGpuEc"] = 137
  BY DEF Config, WithBacklightMode, First, Extended, Common, MCDefaults
<1> HIDE DEF c
<1>5. CodesFit(c)
  <2>1. FamilyMasks(c)
    BY <1>1, <1>2 DEF FamilyMasks, Has
  <2>2. FamilyModes(c)
    BY <1>1, <1>2 DEF FamilyModes
  <2> QED
    BY <2>1, <2>2, FamilyCodes
<1>6. KeysOf(c) =
        {"BatteryThresholdEc", "KeyboardBacklightModeEc", "KeyboardBacklightEc",
         "UsbPowerShareEc", "CoolerBoostEc", "WebCamEc", "WebCamBlockEc",
         "FnSuperSwapEc", "FanModeEc", "ShiftModeEc", "MicMuteEc", "MuteLedEc"}
  BY <1>1 DEF KeysOf, PolicyKeys
<1>7. Apart(c)
  <2>1. ASSUME NEW key \in KeysOf(c)
        PROVE  c[key] \in {43, 44, 46, 47, 152, 191, 239, 242, 243, 244}
    BY <1>3, <1>6, <2>1
  <2>2. ASSUME NEW t \in TelemetryKeys, NEW a \in Addresses(c, t)
        PROVE  a \in {49, 66, 104, 113, 128, 137}
    <3> DEFINE max == 65535
    <3>1. a \in Numbers(c, t, max) /\ max \in Nat
      BY <2>2 DEF Addresses
    <3> HIDE DEF max
    <3>2. c[t] = a
      BY <3>1, NumbersKey
    <3> QED
      BY <1>4, <2>2, <3>2 DEF TelemetryKeys
  <2>3. ASSUME NEW t \in TelemetryKeys, NEW a \in Addresses(c, t)
        PROVE  a \notin CurveBytes /\ \A key \in KeysOf(c) : c[key] # a
    <3>1. a \in {49, 66, 104, 113, 128, 137}
      BY <2>2, <2>3
    <3>2. a \notin CurveBytes
      BY <3>1 DEF CurveBytes
    <3> QED
      BY <2>1, <3>1, <3>2
  <2>4. ASSUME NEW key \in KeysOf(c) PROVE c[key] \notin FirmwareBytes
    BY <2>1, <2>4 DEF FirmwareBytes
  <2> QED
    BY <2>3, <2>4 DEF Apart
<1>8. SharesKnown(c)
  BY <1>3, <1>6 DEF SharesKnown, KnownOverlaps
<1> QED
  BY <1>5, <1>7, <1>8, SoundLayout

(* The layouts of the known families are sound, with the defaults of        *)
(* supported-devices.json: each parameter reads back what it wrote, raw     *)
(* writes reach the parameters and no telemetry, and no settings share a    *)
(* bit but the known ones (ecparameterfactory.cpp:216-365,                  *)
(* ecwritepolicy.cpp:130-165).  It follows from the theorems above.         *)
THEOREM KnownLayoutsSound ==
  ASSUME Defaults = MCDefaults
  PROVE  Spec => []LayoutsSound
<1>1. LayoutsSound
  BY FirstSound, SecondSound, WithBacklightModeSound DEF LayoutsSound, BuiltinValues
<1> QED
  BY <1>1, PTL
=============================================================================
