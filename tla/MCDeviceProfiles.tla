--------------------------- MODULE MCDeviceProfiles ---------------------------
(* Two machines, one of them known to the built-in profiles; the client's   *)
(* saves and removals race with those of another caller, or raw writes of   *)
(* other callers race with theirs.                                          *)
EXTENDS DeviceProfiles

MCDefaults == [BatteryChargeEc |-> 66, BatteryChargingStatusEc |-> 49, UsbPowerShareEc |-> 191]

FanModes == [Auto |-> 13, Silent |-> 29, Basic |-> 77, Advanced |-> 141]
ShiftModes == [Eco |-> 194, Comfort |-> 193, Sport |-> 192, Turbo |-> 196]
Common == [WebCamEc |-> 46, WebCamBlockEc |-> 47, WebCamMask |-> 2, FnSuperSwapMask |-> 16,
           CoolerBoostEc |-> 152, CoolerBoostMask |-> 128, CpuTempEc |-> 104, FanCpuEc |-> 113,
           GpuTempEc |-> 128, FanGpuEc |-> 137,
           FanModeAvailable |-> FanModes, ShiftModeAvailable |-> ShiftModes]
Extended(base, own) ==
    [key \in DOMAIN base \union DOMAIN own |-> IF key \in DOMAIN own THEN own[key] ELSE base[key]]
(* The two families of supported-devices.json, every optional key present. *)
First == Extended(Common, [BatteryThresholdEc |-> 239, FnSuperSwapEc |-> 191, FnWinSwapInvert |-> FALSE,
           ShiftModeEc |-> 242, FanModeEc |-> 244, MicMuteEc |-> 43, MuteLedEc |-> 44, LedsMask |-> 4,
           KeyboardBacklightEc |-> 243, KeyboardBacklightStartState |-> 128])
Second == Extended(Common, [BatteryThresholdEc |-> 215, FnSuperSwapEc |-> 232, FnWinSwapInvert |-> TRUE,
           ShiftModeEc |-> 210, FanModeEc |-> 212, MicMuteEc |-> 44, MuteLedEc |-> 45, LedsMask |-> 2,
           SuperBatteryEc |-> 235, SuperBatteryMask |-> 15,
           KeyboardBacklightEc |-> 211, KeyboardBacklightStartState |-> 128])
WithBacklightMode ==
    Extended(First, [KeyboardBacklightModeEc |-> 44, KeyboardBacklightMode |-> <<0, 8>>])
BuiltinValues == {First, Second, WithBacklightMode}

MCBuiltin == << [id |-> "CONF_A", source |-> "builtin", firmware |-> {"fw1", "fw2"}, values |-> First],
                [id |-> "CONF_B", source |-> "builtin", firmware |-> {"fw2"}, values |-> Second] >>

(* A profile of the user with texts that are no numbers or out of range. *)
Odd == [FanModeEc |-> 212, FanModeAvailable |-> [Auto |-> 12, Basic |-> NoNumber],
        CoolerBoostEc |-> NoNumber, CoolerBoostMask |-> 256, MuteLedEc |-> 65536, CpuTempEc |-> 104]
SaveOf(id, firmwares, values) ==
    [kind |-> "save", id |-> id, firmware |-> firmwares, values |-> values]
MCRequests == {SaveOf("mine", {"fw1", "fw3"}, Odd), SaveOf("mi ne", {"fw2", "fw3"}, Second),
               SaveOf(" ", {"fw1"}, Odd), [kind |-> "remove", id |-> "mine"]}
MCNormalId == [id \in {"mine", "mi ne", " "} |-> IF id = " " THEN "" ELSE "mine"]

MCBlocks == {[offset |-> 111, bytes |-> <<{1}, {1}, {1}>>], [offset |-> 112, bytes |-> <<{1}, {1}, {2}>>],
             [offset |-> 255, bytes |-> <<{1}, {1}>>], [offset |-> 212, bytes |-> <<{2}>>]}
MCBitWrites == {[offset |-> 191, mask |-> {4}, value |-> {3, 4}],
                [offset |-> 191, mask |-> NotANumber, value |-> {}]}

(* Of the layout of every family: values are decodable and keep to their    *)
(* mask; raw writes reach what the parameters write and no telemetry; no    *)
(* two parameters share a bit but the known ones.                           *)
KnownOverlaps == {{"UsbPowerShareEc", "FnSuperSwapEc"},
                  {"KeyboardBacklightModeEc", "MuteLedEc"}}
Sound(config) ==
    /\ \A r \in Writable(config) : Decodable(r)
    /\ TelemetrySafe(config) /\ SameReach(config)
    /\ \A pair \in Overlaps(config) : pair \in KnownOverlaps \/ Cardinality(pair) = 1
LayoutsSound ==
    ~running => \A values \in BuiltinValues : Sound(Config([values |-> values]))
=============================================================================
