------------------------------ MODULE FanTarget ------------------------------
(***************************************************************************)
(* The service's fan target controller (service/fantargetcontroller.cpp).  *)
(* In target mode it keeps the fans on a curve generated from the target   *)
(* and the temperature of each side, over the user's own curves, which it  *)
(* backed up when the mode was entered and writes back when it is left.    *)
(*                                                                         *)
(* `apply` runs inside the change signals of the parameters, so the record *)
(* `fan` goes through the same sequence of changes as the handler makes,   *)
(* one operator for each.  Writes of the curve parameters themselves are   *)
(* those of Registers: accepted, saved and restored.                       *)
(***************************************************************************)
EXTENDS Integers, Sequences, SequencesExt

CONSTANTS Sides,         \* FanSide, as the sequence <<"Cpu", "Gpu">> or a part of it
          UserCurve,     \* curves users draw
          TargetTemp,    \* target temperatures users choose
          DefaultTarget, \* per side: the SoftwareParameter's default
          Reading,       \* temperatures measured, per side: 0 without a sensor
          CurveFor,     \* target -> temperature -> curve: that of FanCurve
          FanMode,       \* FanModeEc's available values
          Advanced,      \* the mode in which the firmware follows the curves
          ZeroMode,      \* the value-initialised FanMode
          None           \* unpublished, not saved, not yet generated, unknown

Side == ToSet(Sides)
Mode == {"Curve", "Target"}
MinTargetTemp == 50
MaxTargetTemp == 95
Targets == TargetTemp \union {DefaultTarget[s] : s \in Side}
Temps == {r[s] : r \in Reading, s \in Side}

ASSUME SidesAssumption == Sides \in Seq(Side) /\ Side \intersect {"registers", "mode"} = {}
ASSUME TargetAssumption == Targets \subseteq MinTargetTemp .. MaxTargetTemp

VARIABLES fan,       \* see Fan
          restoring, \* zero-delay timers left since the parameters were made
          wish       \* history: the curves and the fan mode the user last chose
                     \* in curve mode, None where that is lost (see WriteMode)

vars == <<fan, restoring, wish>>

ZeroCurve == [speeds |-> [i \in 1 .. 7 |-> 0], temps |-> [i \in 1 .. 6 |-> 0]]
Curves == UserCurve \union {ZeroCurve}
          \union {CurveFor[t][c] : t \in Targets \union {MinTargetTemp}, c \in Temps}
Modes == FanMode \union {ZeroMode, Advanced}
Backup == [curve : [Side -> Curves], fanMode : Modes]

ASSUME NoneAssumption ==
    /\ None \notin Mode /\ None \notin Targets
    /\ None \notin Curves /\ None \notin Modes /\ None \notin Backup

Fan == [mode : Mode \union {None},     \* FanControlMode, as published
        target : [Side -> Targets \union {None}],
        known : BOOLEAN,               \* the EC parameters are published
        temp : Reading,                \* what they hold once they are:
        curve : [Side -> Curves],      \*   telemetry, curves and mode
        fanMode : Modes,
        seen : BOOLEAN,                \* mHasSeenMode
        last : Mode,                   \* mLastMode
        signature : [Side -> Curves \union {None}], \* mLastCpuCurve, mLastGpuCurve
        backup : Backup \union {None},
        savedMode : Mode \union {None},             \* the settings file
        savedTarget : [Side -> TargetTemp \union {None}]]

Order == <<"registers", "mode">> \o Sides
NoCurves == [s \in Side |-> None]

-----------------------------------------------------------------------------
ControlMode(f) == IF f.mode = None THEN "Curve" ELSE f.mode

(* An unpublished parameter reads as 0, which is bounded below. *)
TargetOf(f, s) == IF f.target[s] = None THEN MinTargetTemp ELSE f.target[s]
CurrentTemp(f, s) == IF f.known THEN f.temp[s] ELSE 0
ReadCurve(f, s) == IF f.known THEN f.curve[s] ELSE ZeroCurve
ReadFanMode(f) == IF f.known THEN f.fanMode ELSE ZeroMode

BackedUp(f) ==
    [f EXCEPT !.backup = [curve |-> [s \in Side |-> ReadCurve(f, s)],
                          fanMode |-> ReadFanMode(f)]]

Unsigned(f) == [f EXCEPT !.signature = NoCurves]

RestoredCurves(f) == \* mutant: forgets the fan mode
    IF f.backup = None THEN Unsigned(f)
    ELSE [Unsigned(f) EXCEPT !.curve = f.backup.curve, !.known = TRUE]
(* restoreCurveBackup: a write publishes every EC parameter. *)
Restored(f) ==
    IF f.backup = None THEN Unsigned(f)
    ELSE [Unsigned(f) EXCEPT !.curve = f.backup.curve,
                             !.fanMode = f.backup.fanMode, !.known = TRUE]

SwitchedRaw(f) == \* mutant: remembers the published value, which may be none
    [f EXCEPT !.seen = TRUE, !.last = f.mode]
(* The first half of apply: has the mode changed since the last time? *)
Switched(f) ==
    LET mode == ControlMode(f)
        entered == mode = "Target" /\ IF f.seen THEN f.last # "Target" ELSE f.backup = None
        left == mode = "Curve" /\ f.seen /\ f.last = "Target"
        g == IF entered THEN BackedUp(f) ELSE IF left THEN Restored(f) ELSE f
    IN  [g EXCEPT !.seen = TRUE, !.last = mode]

(* forceAdvancedFanMode *)
Forced(f) ==
    IF Advanced \in FanMode /\ ReadFanMode(f) # Advanced
    THEN [f EXCEPT !.fanMode = Advanced, !.known = TRUE] ELSE f

TargetAppliedSpeeds(f) == \* mutant: compares the speeds only
    LET g == Forced(f)
        new == [s \in Side |-> CurveFor[TargetOf(g, s)][CurrentTemp(g, s)]]
        due == {s \in Side : CurrentTemp(g, s) > 0 /\
                   (g.signature[s] = None \/ g.signature[s].speeds # new[s].speeds)}
    IN  [g EXCEPT !.curve = [s \in Side |-> IF s \in due THEN new[s] ELSE @[s]],
                  !.signature = [s \in Side |-> IF s \in due THEN new[s] ELSE @[s]]]
(* applyCurve for every side: a side whose temperature is unknown, or whose
   generated curve is the last one written, is left alone. *)
TargetApplied(f) ==
    LET g == Forced(f)
        new == [s \in Side |-> CurveFor[TargetOf(g, s)][CurrentTemp(g, s)]]
        due == {s \in Side : CurrentTemp(g, s) > 0 /\ new[s] # g.signature[s]}
    IN  [g EXCEPT !.curve = [s \in Side |-> IF s \in due THEN new[s] ELSE @[s]],
                  !.signature = [s \in Side |-> IF s \in due THEN new[s] ELSE @[s]]]

Applied(f) ==
    LET g == Switched(f)
    IN  IF ControlMode(g) = "Target" THEN TargetApplied(g) ELSE g

(* The change signal of FanControlMode. *)
ModePublished(f, mode) ==
    IF mode = f.mode THEN f ELSE Applied([Unsigned(f) EXCEPT !.mode = mode])

(* The change signal of a target. *)
TargetPublished(f, s, t) ==
    IF t = f.target[s] THEN f ELSE Applied([f EXCEPT !.target[s] = t])

(* The change signals of the temperatures, if the EC parameters were not
   published before; they are published by any write of one of them. *)
Known(f) == IF f.known THEN f ELSE Applied([f EXCEPT !.known = TRUE])

-----------------------------------------------------------------------------
Init ==
    /\ fan \in [mode : {None}, target : {[s \in Side |-> None]}, known : {FALSE},
                temp : Reading, curve : [Side -> UserCurve], fanMode : FanMode,
                seen : {FALSE}, last : {"Curve"}, signature : {NoCurves},
                backup : {None}, savedMode : {None}, savedTarget : {[s \in Side |-> None]}]
    /\ restoring = Order
    /\ wish = [curve |-> fan.curve, fanMode |-> fan.fanMode]

Lost == [curve |-> NoCurves, fanMode |-> None]

(* A client chooses the mode.  What the user had is lost if the EC parameters
   are not published yet: zeros are backed up, or an older backup is kept. *)
WriteMode(mode) ==
    /\ mode # fan.mode
    /\ fan' = ModePublished([fan EXCEPT !.savedMode = mode], mode)
    /\ wish' = IF mode = "Target" /\ ~fan.known THEN Lost ELSE wish
    /\ UNCHANGED restoring

WriteTarget(s, t) ==
    /\ t # fan.target[s]
    /\ fan' = TargetPublished([fan EXCEPT !.savedTarget[s] = t], s, t)
    /\ UNCHANGED <<restoring, wish>>

(* The user draws a curve, which the window allows in curve mode only. *)
EditCurve(s, c) ==
    /\ fan.mode = "Curve"
    /\ fan' = Known([fan EXCEPT !.curve[s] = c])
    /\ wish' = [wish EXCEPT !.curve[s] = c]
    /\ UNCHANGED restoring

(* The user, or a behaviour profile, chooses a fan mode; in target mode that
   lasts until the next apply. *)
SelectFanMode(mode) ==
    /\ fan' = Known([fan EXCEPT !.fanMode = mode])
    /\ wish' = IF ControlMode(fan) = "Curve" THEN [wish EXCEPT !.fanMode = mode] ELSE wish
    /\ UNCHANGED restoring

(* The poll of the EC publishes what it holds. *)
TemperaturesRead(temp) ==
    /\ temp # fan.temp \/ ~fan.known
    /\ fan' = Applied([fan EXCEPT !.temp = temp, !.known = TRUE])
    /\ UNCHANGED <<restoring, wish>>

TickForgets == \* mutant: the timer only looks for a change of mode
    fan' = Switched(fan) /\ UNCHANGED <<restoring, wish>>
(* The timers of 1.5 and 2.5 seconds. *)
Tick ==
    /\ fan' = Applied(fan)
    /\ UNCHANGED <<restoring, wish>>

Restoring(what) == restoring # <<>> /\ Head(restoring) = what /\ restoring' = Tail(restoring)

(* The timers of the EC parameters, which come first: their saved values are
   the ones the registers hold (Registers), but writing them publishes all. *)
RestoreRegisters ==
    /\ Restoring("registers")
    /\ fan' \in {fan, Known(fan)}
    /\ UNCHANGED wish

(* The two timers of FanControlMode: the saved mode, or else the default. *)
RestoreMode ==
    /\ Restoring("mode")
    /\ LET mode == IF fan.savedMode # None THEN fan.savedMode
                   ELSE IF fan.mode # None THEN fan.mode ELSE "Curve"
       IN  fan' = ModePublished(fan, mode)
    /\ UNCHANGED wish

RestoreTarget(s) ==
    /\ Restoring(s)
    /\ LET t == IF fan.savedTarget[s] # None THEN fan.savedTarget[s]
                ELSE IF fan.target[s] # None THEN fan.target[s] ELSE DefaultTarget[s]
       IN  fan' = TargetPublished(fan, s, t)
    /\ UNCHANGED wish

(* The parameters and the controller are made anew, when the service restarts
   or a profile is applied.  In target mode that loses what the user had: see
   the hazards. *)
RegisterProfile ==
    /\ fan' = [Unsigned(fan) EXCEPT !.mode = None, !.target = [s \in Side |-> None],
                                    !.known = FALSE, !.seen = FALSE, !.last = "Curve"]
    /\ restoring' = Order
    /\ wish' = IF fan.savedMode = "Target" THEN Lost ELSE wish

Next == \/ \E mode \in Mode : WriteMode(mode)
        \/ \E s \in Side, t \in TargetTemp : WriteTarget(s, t)
        \/ \E s \in Side, c \in UserCurve : EditCurve(s, c)
        \/ \E mode \in FanMode : SelectFanMode(mode)
        \/ \E temp \in Reading : TemperaturesRead(temp)
        \/ Tick \/ RegisterProfile
        \/ RestoreRegisters \/ RestoreMode \/ \E s \in Side : RestoreTarget(s)

(* The event loop runs its timers. *)
Fairness == WF_vars(Tick)

Spec == Init /\ [][Next]_vars
FairSpec == Spec /\ Fairness

-----------------------------------------------------------------------------
TypeOK ==
    /\ fan \in Fan
    /\ restoring \in Seq(ToSet(Order))
    /\ wish \in [curve : [Side -> UserCurve \union {None}], fanMode : FanMode \union {None}]

(* Out of target mode the fans are on the curves and in the mode the user last
   chose out of it, however often the mode was switched, temperatures and
   targets changed and profiles were applied (fantargetcontroller.cpp:114-119). *)
UserCurveReturns ==
    fan.mode = "Curve" =>
        /\ \A s \in Side : wish.curve[s] \in {None, fan.curve[s]}
        /\ wish.fanMode \in {None, fan.fanMode}

(* In target mode the curve in force is the one for the target and the
   temperature of the moment, although it is written only when it differs from
   the last one generated (fantargetcontroller.cpp:181-184). *)
TargetInForce ==
    fan.mode = "Target" =>
        \A s \in Side : CurrentTemp(fan, s) > 0 =>
            fan.curve[s] = CurveFor[TargetOf(fan, s)][fan.temp[s]]

(* A fan mode in which the firmware ignores the curves does not last in target
   mode (fantargetcontroller.cpp:209). *)
TargetTakesOver == fan.mode = "Target" ~> fan.fanMode = Advanced \/ fan.mode # "Target"
=============================================================================
