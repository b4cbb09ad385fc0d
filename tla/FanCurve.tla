------------------------------- MODULE FanCurve -------------------------------
(***************************************************************************)
(* The fan curve the service generates for a target temperature            *)
(* (FanTargetController::applyCurve): seven speeds and the six temperatures*)
(* between them, from the target and the temperature measured.             *)
(*                                                                         *)
(* The loops carry the previous point along: they are recursive functions  *)
(* on the index, 0 standing for the value before the loop.                 *)
(***************************************************************************)
EXTENDS Integers

Bound(low, x, high) == IF x < low THEN low ELSE IF x > high THEN high ELSE x

MinTargetTemp == 50
MaxTargetTempHigh == 100 \* mutant
MaxTargetTemp == 95

TempOffsets == <<-24, -16, -10, -5, 0, 5>>
BaseSpeeds == <<18, 30, 42, 56, 72, 90, 110>>
HotSpeeds == <<0, 0, 0, 0, 0, 112, 132>>

CurveTemps(target) ==
    LET point[i \in 0 .. 6] ==
            IF i = 0 THEN 0
            ELSE LET p == Bound(20, target + TempOffsets[i], 100)
                     q == IF p <= point[i - 1] THEN point[i - 1] + 1 ELSE p
                 IN  IF q > 100 THEN 100 ELSE q
    IN  [i \in 1 .. 6 |-> point[i]]

(* qRound of a third of the difference, which is never half-way between two
   integers; \div rounds down. *)
Bucket(target, temp) == Bound(-3, (temp - target + 1) \div 3, 7)

RisingSpeeds(target, temp) ==
    LET speed[i \in 0 .. 7] ==
            IF i = 0 THEN 0
            ELSE LET s == Bound(0, BaseSpeeds[i] + 5 * Bucket(target, temp), 150)
                 IN  IF s < speed[i - 1] THEN speed[i - 1] ELSE s
    IN  [i \in 1 .. 7 |-> speed[i]]

SpeedsFlipped(target, temp) == \* mutant: the comparison the wrong way round
    LET rising == RisingSpeeds(target, temp)
    IN  [i \in 1 .. 7 |->
            IF temp <= target + 8 /\ rising[i] < HotSpeeds[i]
            THEN HotSpeeds[i] ELSE rising[i]]
(* Eight degrees above the target the last two speeds have a floor. *)
Speeds(target, temp) ==
    LET rising == RisingSpeeds(target, temp)
    IN  [i \in 1 .. 7 |->
            IF temp >= target + 8 /\ rising[i] < HotSpeeds[i]
            THEN HotSpeeds[i] ELSE rising[i]]

Generated(target, temp) == [speeds |-> Speeds(target, temp), temps |-> CurveTemps(target)]

-----------------------------------------------------------------------------
(* A curve the firmware and the parameters accept (ecparameterfactory.cpp:
   registerFanCurveParameters): speeds within 0..150 that never fall, at
   temperatures within 20..100 that rise strictly. *)
WellFormed(curve) ==
    /\ curve.speeds \in [1 .. 7 -> 0 .. 150]
    /\ curve.temps \in [1 .. 6 -> 20 .. 100]
    /\ \A i \in 1 .. 6 : curve.speeds[i] <= curve.speeds[i + 1]
    /\ \A i \in 1 .. 5 : curve.temps[i] < curve.temps[i + 1]

(* Curve d cools at least as much as curve c at every temperature: no speed is
   lower and no speed starts later. *)
NoWeaker(c, d) ==
    /\ \A i \in 1 .. 7 : c.speeds[i] <= d.speeds[i]
    /\ \A i \in 1 .. 6 : d.temps[i] <= c.temps[i]
=============================================================================
