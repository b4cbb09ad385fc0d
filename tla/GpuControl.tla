----------------------------- MODULE GpuControl -----------------------------
(***************************************************************************)
(* The GPU controls (service/gpucontrolparameter.cpp, and setGpuControlValue*)
(* of client/parameterclient.cpp): the performance level, power limit and   *)
(* persistence mode of every GPU as one list.  The service writes what in a *)
(* list differs from a fresh reading; a reading may lack a control or a GPU *)
(* (a file unreadable, nvidia-smi late or without the value, a GPU asleep). *)
(***************************************************************************)
EXTENDS Integers

CONSTANTS Gpu,           \* ids, the names of the cards
          ControlsOf,    \* Gpu -> SUBSET Control, those its driver has
          Level,         \* performance levels
          Watts,         \* power limits a client asks for
          MinWatts, MaxWatts,
          MaxGpuOutside  \* bound: changes from outside

Control == {"performanceLevel", "powerLimitWatts", "persistenceMode"}
ASSUME GpuAssumption == ControlsOf \in [Gpu -> SUBSET Control] /\ "" \notin Level /\ Level # {}
ASSUME WattsAssumption == /\ MinWatts \in Nat \ {0} /\ MaxWatts \in Nat /\ MinWatts <= MaxWatts
                          /\ Watts \subseteq Nat

VARIABLES gpus,       \* the hardware: GPU -> control -> value
          devices,    \* mDevices, which is also the published value
          held,       \* the list shown by a client, its edits included
          gpuOutside  \* counted
gpuVars == <<gpus, devices, held, gpuOutside>>

Asked(control) == CASE control = "performanceLevel" -> Level
                    [] control = "powerLimitWatts" -> Watts
                    [] control = "persistenceMode" -> BOOLEAN
Real(control) == IF control = "powerLimitWatts" THEN MinWatts .. MaxWatts ELSE Asked(control)

-----------------------------------------------------------------------------
(* readGpuDevices, when only the controls in seen can be read: a GPU none of *)
(* whose controls can be set is not listed.                                  *)
Reading(seen) ==
    [g \in {s[1] : s \in seen} |-> [c \in {s[2] : s \in {t \in seen : t[1] = g}} |-> gpus[g][c]]]
AllControls == {s \in Gpu \X Control : s[2] \in ControlsOf[s[1]]}
Readings == {Reading(seen) : seen \in SUBSET AllControls}

WishPersistent(list, g, c) == \* mutant: a missing persistence mode asks for it
    IF c \in DOMAIN list[g] THEN list[g][c]
    ELSE CASE c = "performanceLevel" -> ""
           [] c = "powerLimitWatts" -> 0
           [] c = "persistenceMode" -> TRUE
(* QVariantMap::value: what a list without the control asks for. *)
Wish(list, g, c) ==
    IF c \in DOMAIN list[g] THEN list[g][c]
    ELSE CASE c = "performanceLevel" -> ""
           [] c = "powerLimitWatts" -> 0
           [] c = "persistenceMode" -> FALSE

Unclamped(c, value) == value \* mutant: the limit is written as asked
(* std::clamp in writeDevices, with one range for all GPUs.  A range that     *)
(* cannot be read is the limit in force: such a write moves nothing, as one   *)
(* that fails.                                                                *)
Clamped(c, value) ==
    IF c # "powerLimitWatts" THEN value
    ELSE CASE value < MinWatts -> MinWatts
           [] value > MaxWatts -> MaxWatts
           [] OTHER -> value

(* writeDevices: GPUs are matched by id against a fresh reading; each write  *)
(* may fail (one of no level always does), the others are tried all the same.*)
WriteDevices(desired) ==
    \E current \in Readings :
        LET differ == {w \in AllControls : /\ w[1] \in DOMAIN desired \intersect DOMAIN current
                                           /\ w[2] \in DOMAIN current[w[1]]
                                           /\ Wish(desired, w[1], w[2]) # current[w[1]][w[2]]}
            possible == {w \in differ : w[2] = "performanceLevel" => w[2] \in DOMAIN desired[w[1]]}
        IN  \E done \in SUBSET possible :
                gpus' = [g \in Gpu |-> [c \in ControlsOf[g] |->
                            IF <<g, c>> \in done THEN Clamped(c, Wish(desired, g, c))
                                                 ELSE gpus[g][c]]]

-----------------------------------------------------------------------------
GpuInit ==
    /\ gpus = [g \in Gpu |-> [c \in ControlsOf[g] |-> CHOOSE value \in Real(c) : TRUE]]
    /\ devices \in Readings
    /\ held = devices
    /\ gpuOutside = 0

(* setGpuControlValue of a client, and the write that follows: setValue of   *)
(* the service returns early when the list is the one it shows.              *)
SetGpuControl ==
    \E g \in DOMAIN held : \E c \in ControlsOf[g] : \E value \in Asked(c) :
        /\ c \in DOMAIN held[g] => held[g][c] # value
        /\ held' = [held EXCEPT ![g] = [k \in DOMAIN held[g] \union {c} |->
                                           IF k = c THEN value ELSE held[g][k]]]
        /\ \/ held' = devices /\ UNCHANGED gpus
           \/ held' # devices /\ WriteDevices(held')
        /\ UNCHANGED <<devices, gpuOutside>>

(* updateConfig, every 5 s. *)
UpdateDevices == devices' \in Readings /\ UNCHANGED <<gpus, held, gpuOutside>>

(* The client shows the published list: a notification, the end of a         *)
(* confirmation, a new connection.                                           *)
ShowDevices == held' = devices /\ UNCHANGED <<gpus, devices, gpuOutside>>

(* Another tool or another client. *)
GpuChangedOutside ==
    /\ gpuOutside < MaxGpuOutside /\ gpuOutside' = gpuOutside + 1
    /\ \E g \in Gpu : \E c \in ControlsOf[g] : \E value \in Real(c) :
          gpus' = [gpus EXCEPT ![g][c] = value]
    /\ UNCHANGED <<devices, held>>

GpuNext == SetGpuControl \/ UpdateDevices \/ ShowDevices \/ GpuChangedOutside
GpuSpec == GpuInit /\ [][GpuNext]_gpuVars

-----------------------------------------------------------------------------
GpuTypeOK == /\ \A g \in Gpu : DOMAIN gpus[g] = ControlsOf[g]
             /\ \A g \in Gpu : \A c \in ControlsOf[g] : gpus[g][c] \in Real(c)
             /\ DOMAIN held \subseteq Gpu /\ DOMAIN devices \subseteq Gpu

(* What a control moves to when a list shows this value: that value, or, for  *)
(* a power limit out of its range, the end of the range next to it.           *)
MovesTo(c, shown, value) ==
    \/ value = shown
    \/ /\ c = "powerLimitWatts"
       /\ (value = MinWatts /\ shown < MinWatts) \/ (value = MaxWatts /\ shown > MaxWatts)

(* The write of one control carries the whole list of the client, which may  *)
(* be old and lack values, and some of its writes may fail.  A control moves *)
(* only if that list names its GPU: to what the list shows of it; one the    *)
(* list does not show may be written all the same, a power limit as the      *)
(* lowest of its range and persistence mode as off, a level never            *)
(* (parameterclient.cpp:267-294, gpucontrolparameter.cpp:327-377).           *)
OnlyWhatIsShown ==
    [][gpuOutside' = gpuOutside =>
        \A g \in Gpu : \A c \in ControlsOf[g] : gpus'[g][c] # gpus[g][c] =>
            /\ g \in DOMAIN held'
            /\ c \in DOMAIN held'[g] => MovesTo(c, held'[g][c], gpus'[g][c])
            /\ c \notin DOMAIN held'[g] =>
                  \/ c = "powerLimitWatts" /\ gpus'[g][c] = MinWatts
                  \/ c = "persistenceMode" /\ ~gpus'[g][c]]_gpuVars
=============================================================================
