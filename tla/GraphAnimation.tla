--------------------------- MODULE GraphAnimation ---------------------------
(***************************************************************************)
(* The animation of the CPU graph (client/gpucpuperformancegraph.cpp): the *)
(* bars on display ease towards the last telemetry, frame by frame, and    *)
(* the frame timer stops when they have arrived or nobody sees them.  The  *)
(* unit of a norm is the distance at which an easing bar snaps to its      *)
(* target; it eases by a part of the way left, bounded from below, so that *)
(* it comes nearer by a unit in a bounded number of frames and never       *)
(* arrives but by snapping.                                                *)
(***************************************************************************)
EXTENDS Integers, Sequences

CONSTANTS Kind,       \* vectors of bars: frequencies, usages, limits
          Top,        \* the norm of a full bar
          Epsilon,    \* changeEpsilon: smaller changes start no animation
          NoNorm,     \* an element that is no finite number
          MaxBars,    \* bound: bars of a vector
          MaxUpdates  \* bound: changes of telemetry and of visibility

ASSUME GraphAssumption == Top \in Nat /\ Epsilon \in Nat /\ Epsilon > 1 /\ MaxBars \in Nat

VARIABLES targets, display, \* Kind -> vector of norms
          visible, complete, \* of the item
          frameTimer,        \* m_frameTimer is active
          missed,            \* history: targets moved, or an animation ended
                             \* early, and none has started since
          updates            \* counted
graphVars == <<targets, display, visible, complete, frameTimer, missed, updates>>

Norm == 0 .. Top
Vectors(element) == UNION {[1 .. n -> element] : n \in 0 .. MaxBars}
Distance(a, b) == IF a > b THEN a - b ELSE b - a
Count == updates < MaxUpdates /\ updates' = updates + 1

(* numericValues, with clamp01. *)
NumericValues(values) ==
    [i \in DOMAIN values |-> CASE values[i] = NoNorm -> 0
                               [] values[i] # NoNorm /\ values[i] < 0 -> 0
                               [] values[i] # NoNorm /\ values[i] > Top -> Top
                               [] OTHER -> values[i]]

MeaningfulChange(old, new) ==
    Len(old) # Len(new) \/ \E i \in DOMAIN old : Distance(old[i], new[i]) >= Epsilon

-----------------------------------------------------------------------------
GraphInit ==
    /\ targets = [k \in Kind |-> <<>>] /\ display = targets
    /\ visible \in BOOLEAN /\ complete = FALSE
    /\ frameTimer = FALSE /\ missed = FALSE /\ updates = 0

(* startAnimation *)
StartAnimation == frameTimer' = (frameTimer \/ (visible /\ complete))

(* setTargets, from the setters of the three vectors. *)
SetTargets ==
    /\ Count
    /\ \E k \in Kind, values \in Vectors({-1, NoNorm} \union 1 .. Top + 1) :
        LET next == NumericValues(values)
        IN  /\ targets' = [targets EXCEPT ![k] = next]
            /\ IF Len(display[k]) # Len(next) \/ Len(targets[k]) # Len(next)
               THEN /\ display' = [display EXCEPT ![k] = next]
                    /\ UNCHANGED <<frameTimer, missed>>
               ELSE /\ UNCHANGED display
                    /\ IF MeaningfulChange(targets[k], next) THEN StartAnimation
                                                             ELSE UNCHANGED frameTimer
                    /\ missed' = (~frameTimer' /\ (missed \/ targets[k] # next))
    /\ UNCHANGED <<visible, complete>>

(* componentComplete *)
Complete == ~complete /\ complete' = TRUE
            /\ UNCHANGED <<targets, display, visible, frameTimer, missed, updates>>

GoesOnHidden == UNCHANGED frameTimer /\ UNCHANGED missed \* mutant: the timer goes on
(* stopAnimation, of an item that is no longer visible. *)
StopHidden == frameTimer' = FALSE /\ missed' = (missed \/ frameTimer)
(* itemChange: nothing is started when the item is visible again. *)
Hide == /\ Count /\ visible /\ visible' = FALSE
        /\ StopHidden
        /\ UNCHANGED <<targets, display, complete>>
Show == /\ Count /\ ~visible /\ visible' = TRUE
        /\ UNCHANGED <<targets, display, complete, frameTimer, missed>>

NearerNoSnap(shown, target) == \* mutant: no bar snaps, it goes on within the last unit
    IF Distance(shown, target) <= 1 THEN {shown}
    ELSE {n \in Norm : (shown < n /\ n < target) \/ (target < n /\ n < shown)}
(* advanceVector: a bar no more than a unit away snaps to its target, the     *)
(* others come nearer, as far as the time since the last frame says.          *)
Nearer(shown, target) ==
    IF Distance(shown, target) <= 1 THEN {target}
    ELSE {n \in Norm : (shown < n /\ n < target) \/ (target < n /\ n < shown)}
Advance(shown, target) ==
    IF Len(shown) # Len(target) THEN {target}
    ELSE {v \in [DOMAIN shown -> Norm] : \A i \in DOMAIN shown : v[i] \in Nearer(shown[i], target[i])}

(* onFrame; timerEvent.  A frame changes something unless all bars are at     *)
(* their targets already, and the first that does not is the last.            *)
OnFrame ==
    /\ frameTimer
    /\ \/ ~visible /\ StopHidden /\ UNCHANGED display
       \/ /\ visible /\ UNCHANGED missed
          /\ display' \in {d \in [Kind -> Vectors(Norm)] :
                              \A k \in Kind : d[k] \in Advance(display[k], targets[k])}
          /\ frameTimer' = (display # targets)
    /\ UNCHANGED <<targets, visible, complete, updates>>

GraphNext == SetTargets \/ Complete \/ Hide \/ Show \/ OnFrame
GraphSpec == GraphInit /\ [][GraphNext]_graphVars /\ WF_graphVars(OnFrame)

-----------------------------------------------------------------------------
GraphTypeOK == /\ targets \in [Kind -> Vectors(Norm)] /\ display \in [Kind -> Vectors(Norm)]
               /\ {visible, complete, frameTimer, missed} \subseteq BOOLEAN

(* The timer runs for an item on the screen only, and when it does not run    *)
(* the bars are the telemetry's, but for what moved, too little or while the  *)
(* graph was hidden, since the last animation (lines 561-655).                *)
IdleShowsTargets ==
    /\ frameTimer => visible /\ complete
    /\ ~frameTimer /\ ~missed => display = targets

(* When the telemetry rests the frames end (lines 588-655).                   *)
AnimationEnds == <>[]~frameTimer
=============================================================================
