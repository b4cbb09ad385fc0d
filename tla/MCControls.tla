------------------------------ MODULE MCControls ------------------------------
(* Five components that share no state, one run for all: each behaviour is    *)
(* of one of them, the part, and the others rest in an initial state.         *)
EXTENDS CpuControl, GpuControl, AutoProfile, GraphAnimation, FanCurve

VARIABLES part, target, temp
sweepVars == <<target, temp>>

MCNormal == [g \in Governor \union {""} |-> IF g = "powersave" THEN "power-saver" ELSE g]
MCUnreadable == {<<1, "max">>, <<1, "governor">>}
MCControlsOf == [card0 |-> {"powerLimitWatts", "persistenceMode"},
                 card1 |-> {"performanceLevel"}]

(* Every target the service accepts and every temperature a register holds,   *)
(* a degree at a time.                                                        *)
SweepInit == IF part = "curve" THEN target \in MinTargetTemp .. MaxTargetTemp /\ temp \in 1 .. 255
                               ELSE target = MaxTargetTemp /\ temp = 1
Warms == temp < 255 /\ temp' = temp + 1 /\ UNCHANGED target
TargetLowered == target > MinTargetTemp /\ target' = target - 1 /\ UNCHANGED temp
SweepNext == Warms \/ TargetLowered

CpuRests == daemon = [there |-> TRUE, profile |-> "balanced"]
Init ==
    /\ part \in {"cpu", "gpu", "auto", "graph", "curve"}
    /\ CpuInit /\ (part # "cpu" => CpuRests)
    /\ GpuInit /\ (part # "gpu" => devices = <<>>)
    /\ AutoInit /\ (part # "auto" => mode = "Comfort" /\ ~automatic)
    /\ GraphInit /\ (part # "graph" => ~visible)
    /\ SweepInit

CpuStep == part = "cpu" /\ CpuNext /\ UNCHANGED <<part, gpuVars, autoVars, graphVars, sweepVars>>
GpuStep == part = "gpu" /\ GpuNext /\ UNCHANGED <<part, cpuVars, autoVars, graphVars, sweepVars>>
AutoStep == part = "auto" /\ AutoNext /\ UNCHANGED <<part, cpuVars, gpuVars, graphVars, sweepVars>>
GraphStep == part = "graph" /\ GraphNext /\ UNCHANGED <<part, cpuVars, gpuVars, autoVars, sweepVars>>
SweepStep == part = "curve" /\ SweepNext /\ UNCHANGED <<part, cpuVars, gpuVars, autoVars, graphVars>>
Next == CpuStep \/ GpuStep \/ AutoStep \/ GraphStep \/ SweepStep

all == <<part, cpuVars, gpuVars, autoVars, graphVars, sweepVars>>
RestOfAuto == part = "auto" /\ UNCHANGED <<part, cpuVars, gpuVars, graphVars, sweepVars>>
RestOfGraph == part = "graph" /\ UNCHANGED <<part, cpuVars, gpuVars, autoVars, sweepVars>>
(* The fairness of AutoSpec and GraphSpec. *)
Fairness ==
    /\ WF_all(RestOfAuto /\ ReadMode) /\ WF_all(RestOfAuto /\ Tick)
    /\ WF_all(RestOfAuto /\ WriteMode) /\ WF_all(RestOfAuto /\ EndConfirmation)
    /\ WF_all(RestOfAuto /\ Notified) /\ WF_all(RestOfGraph /\ OnFrame)
Spec == Init /\ [][Next]_all /\ Fairness

ControlsTypeOK == CpuTypeOK /\ GpuTypeOK /\ AutoTypeOK /\ GraphTypeOK

(* Whatever is measured, applyCurve writes a curve of the ranges of its       *)
(* parameters (fantargetcontroller.cpp:141-174, ecparameterfactory.cpp:97).   *)
CurveWellFormed == WellFormed(Generated(target, temp))

(* A degree more, or a target a degree lower, never makes the fans slower,    *)
(* across the rounding, the clamping and the floor of the last two speeds     *)
(* (fantargetcontroller.cpp:155-174).                                         *)
HotterNeverWeaker ==
    [][part = "curve" => NoWeaker(Generated(target, temp), Generated(target', temp'))]_<<target, temp>>
=============================================================================
