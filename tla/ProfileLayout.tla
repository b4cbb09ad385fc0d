--------------------------- MODULE ProfileLayout ---------------------------
(***************************************************************************)
(* Which registers of the EC a device profile turns into parameters        *)
(* (service/ecparameterfactory.cpp) and which addresses it lets raw writes *)
(* reach (service/ecwritepolicy.cpp).  The two read the same configuration *)
(* with code of their own, so that they agree is a property.               *)
(*                                                                         *)
(* A configuration is a function from the keys present to what their texts *)
(* stand for: a number, NoNumber, a Boolean, or for the lists of modes a   *)
(* function from the modes to numbers.                                     *)
(***************************************************************************)
EXTENDS Integers, Sequences

CONSTANT NoNumber   \* a text that is no hexadecimal number

ASSUME NoNumberAssumption == NoNumber \notin Int

Bits(n) == {b \in 0 .. 7 : (n \div 2^b) % 2 = 1}

-----------------------------------------------------------------------------
(* The factory: numbers parsed unsigned and bounded by the width.  The set  *)
(* is empty if the key is missing or its text is refused.                   *)
Numbers(config, key, max) ==
    {config[k] : k \in {key} \cap DOMAIN config} \cap (0 .. max)
Addresses(config, key) == Numbers(config, key, 65535)
MaskOf(config, key) ==
    IF Numbers(config, key, 255) = {} THEN 255 ELSE config[key]

(* IOParameter: codes gives the byte of every value it can be set to. *)
Register(name, a, mask, codes) ==
    [name |-> name, address |-> a, mask |-> Bits(mask), codes |-> codes, readOnly |-> FALSE]
ReadOnlyRegister(name, a) ==
    [name |-> name, address |-> a, mask |-> 0 .. 7, codes |-> <<>>, readOnly |-> TRUE]

SimpleRange(config, key) == {ReadOnlyRegister(key, a) : a \in Addresses(config, key)}

(* registerEnableParameter: the code 0xff stands for the mask itself. *)
Enable(config, key, maskKey, off, on) ==
    LET mask == MaskOf(config, maskKey)
    IN  {Register(key, a, mask, [Off |-> off, On |-> IF on = 255 THEN mask ELSE on])
            : a \in Addresses(config, key)}

(* registerFanMode, registerShiftMode: only the modes whose code is a number. *)
Modes(config, key, available) ==
    IF available \notin DOMAIN config THEN {}
    ELSE LET list  == config[available]
             valid == {mode \in DOMAIN list : list[mode] \in 0 .. 255}
         IN  {Register(key, a, 255, [mode \in valid |-> list[mode]])
                 : a \in Addresses(config, key)}

BatteryThreshold(config) ==
    {Register("BatteryThresholdEc", a, 127, [v \in {50, 70, 90} |-> v])
        : a \in Addresses(config, "BatteryThresholdEc")}

(* The pair of codes is taken only if both are numbers. *)
KeyboardBacklightMode(config) ==
    LET given == IF "KeyboardBacklightMode" \in DOMAIN config
                 THEN config["KeyboardBacklightMode"] ELSE <<>>
        codes == IF given \in Seq(0 .. 255) /\ Len(given) = 2 THEN given ELSE <<8, 0>>
    IN  {Register("KeyboardBacklightModeEc", a, 255, [Off |-> codes[1], On |-> codes[2]])
            : a \in Addresses(config, "KeyboardBacklightModeEc")}

(* Four codes from the start state on, in a byte. *)
KeyboardBacklight(config) ==
    LET key   == "KeyboardBacklightStartState"
        start == IF Numbers(config, key, 255) = {} THEN 0 ELSE config[key]
    IN  {Register("KeyboardBacklightEc", a, 255, [i \in 0 .. 3 |-> (start + i) % 256])
            : a \in Addresses(config, "KeyboardBacklightEc")}

FnSuperSwap(config) ==
    LET inverted == "FnWinSwapInvert" \in DOMAIN config /\ config["FnWinSwapInvert"]
        codes    == IF inverted THEN [Right |-> 16, Left |-> 0]
                                ELSE [Right |-> 0, Left |-> 16]
    IN  {Register("FnSuperSwapEc", a, MaskOf(config, "FnSuperSwapMask"), codes)
            : a \in Addresses(config, "FnSuperSwapEc")}

(* registerFanCurveParameters: speeds of 7 points and temperatures of 6; of  *)
(* a range of numbers the ends stand for all.                               *)
CurvePoints(name, first, points, max) ==
    {Register(<<name, i>>, first + i, 255, [v \in {0, max} |-> v]) : i \in 0 .. points - 1}
FanCurves ==
    CurvePoints("FanSetSpeedCpu", 114, 7, 150) \union CurvePoints("FanSetSpeedGpu", 138, 7, 150)
      \union CurvePoints("FanSetTempCpu", 106, 6, 100)
      \union CurvePoints("FanSetTempGpu", 130, 6, 100)

(* registerFirmwareParameters: three texts, whatever the profile. *)
FirmwareBytes == 160 .. 187

Telemetry(config) ==
    UNION {SimpleRange(config, key) : key \in {"CpuTempEc", "GpuTempEc", "BatteryChargeEc",
                                               "BatteryChargingStatusEc", "FanCpuEc", "FanGpuEc"}}

(* registerProfileParameters *)
Switches(config) ==
    UNION {Enable(config, "UsbPowerShareEc", "", 8, 40),
           Enable(config, "CoolerBoostEc", "CoolerBoostMask", 0, 128),
           Enable(config, "WebCamEc", "WebCamMask", 0, 255),
           Enable(config, "WebCamBlockEc", "WebCamMask", 0, 255),
           Enable(config, "SuperBatteryEc", "SuperBatteryMask", 0, 255),
           Enable(config, "MicMuteEc", "LedsMask", 0, 255),
           Enable(config, "MuteLedEc", "LedsMask", 0, 255)}
Settings(config) ==
    UNION {BatteryThreshold(config), KeyboardBacklightMode(config),
           KeyboardBacklight(config), FnSuperSwap(config),
           Modes(config, "FanModeEc", "FanModeAvailable"),
           Modes(config, "ShiftModeEc", "ShiftModeAvailable")}
ProfileParameters(config) ==
    Telemetry(config) \union Switches(config) \union Settings(config) \union FanCurves

-----------------------------------------------------------------------------
(* The write policy: signed numbers of any size, one byte for every key. *)
PolicyKeys == {"BatteryThresholdEc", "KeyboardBacklightModeEc", "KeyboardBacklightEc",
               "UsbPowerShareEc", "CoolerBoostEc", "WebCamEc", "WebCamBlockEc",
               "FnSuperSwapEc", "FanModeEc", "ShiftModeEc", "SuperBatteryEc",
               "MicMuteEc", "MuteLedEc"}
AddressRange(offset, length, label) == [offset |-> offset, length |-> length, label |-> label]

RangesLonger(config) == \* mutant: one byte too many for the temperatures
    {AddressRange(config[key], 1, key) : key \in {k \in PolicyKeys \cap DOMAIN config : config[k] \in Int}}
      \union {AddressRange(106, 8, "CPU temperatures"), AddressRange(114, 7, "CPU speeds"),
              AddressRange(130, 6, "GPU temperatures"), AddressRange(138, 7, "GPU speeds")}
(* rangesFromProfileConfig *)
RangesOf(config) ==
    {AddressRange(config[key], 1, key) : key \in {k \in PolicyKeys \cap DOMAIN config : config[k] \in Int}}
      \union {AddressRange(106, 6, "CPU temperatures"), AddressRange(114, 7, "CPU speeds"),
              AddressRange(130, 6, "GPU temperatures"), AddressRange(138, 7, "GPU speeds")}

Allows(ranges, offset, length) ==
    /\ length > 0
    /\ \E r \in ranges : offset >= r.offset /\ offset + length <= r.offset + r.length

-----------------------------------------------------------------------------
(* The registers the parameters of a profile write can be reached by the    *)
(* raw writes it allows, and no raw write of those reaches the telemetry or *)
(* the firmware's version, the reason for an allowlist at all.              *)
Writable(config) == {r \in ProfileParameters(config) : ~r.readOnly}
SameReach(config) == \A r \in Writable(config) : Allows(RangesOf(config), r.address, 1)
TelemetrySafe(config) ==
    LET kept == {r.address : r \in Telemetry(config)} \union FirmwareBytes
    IN  \A a \in kept : ~Allows(RangesOf(config), a, 1)

(* A value is the only one with its code, and a write of it reads back. *)
Decodable(r) ==
    LET value == DOMAIN r.codes
    IN  /\ \A v \in value : Bits(r.codes[v]) \subseteq r.mask
        /\ \A v, w \in value : r.codes[v] = r.codes[w] => v = w
(* The pairs of settings that write some bit of a register both. *)
Overlaps(config) ==
    LET settings == Writable(config) \ FanCurves
        Shares(r, s) == r.address = s.address /\ r.mask \intersect s.mask # {}
    IN  {{p[1].name, p[2].name} : p \in {q \in settings \X settings : Shares(q[1], q[2])}}
=============================================================================
