------------------------------ MODULE MCFanTarget ------------------------------
(* One side, two curves the user draws, two targets and two temperatures, one
   of them so low that both targets call for the same speeds; the sensor may be
   off. *)
EXTENDS FanTarget

Curve == INSTANCE FanCurve

MCSides == <<"Cpu">>
MCCurve(n) == [speeds |-> [i \in 1 .. 7 |-> n + 10 * i],
               temps |-> [i \in 1 .. 6 |-> n + 30 + 10 * i]]
MCUserCurve == {MCCurve(0), MCCurve(5)}
MCTargetTemp == {60, 80}
MCTemp == {0, 40, 90}
MCReading == [{"Cpu"} -> MCTemp]
MCDefault == [s \in {"Cpu"} |-> 80]
MCCurveFor == [t \in {50} \union MCTargetTemp |-> [c \in MCTemp |-> Curve!Generated(t, c)]]
================================================================================
