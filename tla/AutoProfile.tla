---------------------------- MODULE AutoProfile ----------------------------
(***************************************************************************)
(* The automatic and behaviour profiles of the client                      *)
(* (client/autoprofilecontroller.cpp, behaviorprofilecontroller.cpp) over  *)
(* the proxies of the shift mode, the fan mode and the telemetry           *)
(* (proxyparameter.cpp, parameterclient.cpp).  The controller is called    *)
(* back from inside the change signals of those proxies.                   *)
(***************************************************************************)
EXTENDS Integers, Sequences

CONSTANTS ShiftModes,   \* those the firmware offers
          FanModes,     \* likewise
          Percent, Degrees, \* what the battery and the sensors may read
          NoValue,      \* no mode, no valid telemetry
          MaxAutoEvents \* bound: what users, the firmware and the bus do

ASSUME AutoAssumption == /\ ShiftModes \subseteq {"Eco", "Comfort", "Sport", "Turbo"}
                         /\ NoValue \notin ShiftModes \union FanModes

VARIABLES mode,       \* ShiftModeEc of the service
          shown,      \* its proxy: the value,
          pending,    \*   an edit is queued, on its way or to be confirmed
          queued,     \* the edit: a mode, or NoValue when none is left to send
          news,       \* the service's notifications of mode on their way
          valid,      \* connected, and the proxies of both modes valid
          telemetry,  \* the proxies of battery and temperatures
          automatic,  \* mEnabled, and what the settings say
          active,     \* mActiveProfile
          fan,        \* the last fan mode edited
          swallowed,  \* history: shown was set while its write was suppressed
          autoEvents  \* counted
autoVars == <<mode, shown, pending, queued, news, valid, telemetry, automatic,
              active, fan, swallowed, autoEvents>>

Telemetry == [battery : Percent \union {NoValue}, discharging : {"yes", "no", NoValue},
              cpu : Degrees \union {NoValue}, gpu : Degrees \union {NoValue}]
NoTelemetry == [battery |-> NoValue, discharging |-> NoValue, cpu |-> NoValue, gpu |-> NoValue]
LowBattery == 35
HighTemperature == 86

Event == autoEvents < MaxAutoEvents /\ autoEvents' = autoEvents + 1

-----------------------------------------------------------------------------
Hot(t) == \E sensor \in {"cpu", "gpu"} : t[sensor] # NoValue /\ t[sensor] >= HighTemperature
Low(t) == t.battery # NoValue /\ t.battery <= LowBattery

(* desiredMode *)
DesiredMode(t) ==
    CASE t = NoTelemetry -> NoValue
      [] t.discharging = "yes" \/ Low(t) -> "Eco"
      [] Hot(t) -> "Turbo"
      [] OTHER -> "Comfort"

(* evaluate finds a mode to set. *)
Wants(on, t, value, isPending) ==
    /\ on /\ valid' /\ ~isPending
    /\ DesiredMode(t) \in ShiftModes \ {value}

EditNotPending(m) == \* mutant: the proxy is not marked
    shown' = m /\ queued' = m /\ pending' = pending /\ swallowed' = FALSE
(* ParameterClient::queueWrite, from an edit of the proxy. *)
Edit(m) == shown' = m /\ queued' = m /\ pending' = TRUE /\ swallowed' = FALSE

(* evaluate, called where writes are not suppressed. *)
Evaluate(on, t) ==
    IF Wants(on, t, shown, pending) THEN Edit(DesiredMode(t))
                                    ELSE UNCHANGED <<shown, queued, pending, swallowed>>

KeepsWaiting(on, t, m) == \* mutant: the confirmation is not taken off the proxy
    shown' = m /\ pending' = pending /\ swallowed' = FALSE /\ UNCHANGED queued
(* The end of a confirmation: evaluate, inside applyRemoteValue, finds the    *)
(* proxy still pending.                                                       *)
Confirm(on, t, m) ==
    shown' = m /\ pending' = FALSE /\ swallowed' = FALSE /\ UNCHANGED queued

(* applyRemoteValue for a notification: evaluate is called inside, and what   *)
(* it sets changes the proxy and is never sent.                               *)
ApplyRemote(on, t, m) ==
    /\ swallowed' = (m # shown /\ Wants(on, t, m, FALSE))
    /\ shown' = IF swallowed' THEN DesiredMode(t) ELSE m
    /\ UNCHANGED <<queued, pending>>

-----------------------------------------------------------------------------
AutoInit ==
    /\ mode \in ShiftModes /\ shown = NoValue
    /\ pending = FALSE /\ queued = NoValue /\ news = <<>> /\ valid = FALSE
    /\ telemetry = NoTelemetry
    /\ automatic \in BOOLEAN /\ active = "balanced"
    /\ fan = NoValue /\ swallowed = FALSE /\ autoEvents = 0

(* The first read after connecting: the value is applied while the proxy is   *)
(* not valid, and isValidChanged evaluates.                                   *)
ReadMode ==
    /\ ~valid /\ valid' = TRUE
    /\ IF Wants(automatic, telemetry, mode, FALSE)
       THEN Edit(DesiredMode(telemetry))
       ELSE shown' = mode /\ swallowed' = FALSE /\ UNCHANGED <<queued, pending>>
    /\ news' = <<>>
    /\ UNCHANGED <<mode, telemetry, automatic, active, fan, autoEvents>>

(* clearRuntimeState. *)
LoseConnection ==
    /\ Event /\ valid /\ valid' = FALSE
    /\ pending' = FALSE /\ queued' = NoValue /\ news' = <<>>
    /\ telemetry' = NoTelemetry
    /\ UNCHANGED <<mode, shown, automatic, active, fan, swallowed>>

(* A telemetry proxy gets a value, or another one: evaluate is called by its  *)
(* signals, with what is known of the others at that moment.                  *)
Measured(field) == CASE field = "battery" -> Percent
                     [] field = "discharging" -> {"yes", "no"}
                     [] OTHER -> Degrees
TelemetryChanges ==
    /\ valid /\ UNCHANGED valid
    /\ \E field \in DOMAIN telemetry : \E value \in Measured(field) :
          /\ telemetry' = [telemetry EXCEPT ![field] = value]
          /\ IF telemetry[field] = NoValue THEN UNCHANGED autoEvents ELSE Event
    /\ Evaluate(automatic, telemetry')
    /\ UNCHANGED <<mode, news, automatic, active, fan>>

(* The 10 s timer. *)
Tick ==
    /\ automatic /\ valid /\ UNCHANGED valid
    /\ Evaluate(automatic, telemetry)
    /\ UNCHANGED <<mode, news, telemetry, automatic, active, fan, autoEvents>>

(* setEnabled, from the settings page. *)
SetEnabled ==
    /\ Event /\ automatic' = ~automatic /\ UNCHANGED valid
    /\ Evaluate(automatic', telemetry)
    /\ UNCHANGED <<mode, news, telemetry, active, fan>>

(* The user chooses a mode by hand: a change of the proxy evaluates before   *)
(* its edit is queued, and the mode set there is the one edited.              *)
ChooseMode ==
    /\ Event /\ valid /\ UNCHANGED valid
    /\ \E m \in ShiftModes :
          IF m # shown /\ Wants(automatic, telemetry, m, pending)
          THEN Edit(DesiredMode(telemetry)) ELSE Edit(m)
    /\ UNCHANGED <<mode, news, telemetry, automatic, active, fan>>

(* definitions of the behaviour profiles. *)
Behaviours ==
    [silent |-> [shift |-> <<"Eco">>, fan |-> <<"Silent", "Auto">>, auto |-> FALSE],
     balanced |-> [shift |-> <<"Comfort", "Sport">>, fan |-> <<"Auto", "Basic">>, auto |-> FALSE],
     performance |-> [shift |-> <<"Turbo", "Sport">>, fan |-> <<"Advanced", "Basic">>, auto |-> FALSE],
     adaptive |-> [shift |-> <<>>, fan |-> <<>>, auto |-> TRUE]]
FirstAvailable(modes, available) ==
    LET known == {i \in DOMAIN modes : modes[i] \in available}
    IN  IF valid /\ known # {} THEN modes[CHOOSE i \in known : \A j \in known : i <= j]
                               ELSE NoValue

(* applyProfile: the automatic profile is switched first, whatever follows,   *)
(* and an evaluate there is before the modes of the profile are set.          *)
ApplyProfile ==
    /\ Event /\ UNCHANGED valid
    /\ \E id \in DOMAIN Behaviours :
        LET shift == FirstAvailable(Behaviours[id].shift, ShiftModes)
            newFan == FirstAvailable(Behaviours[id].fan, FanModes)
        IN  /\ automatic' = Behaviours[id].auto
            /\ IF shift # NoValue THEN Edit(shift)
               ELSE Evaluate(automatic' /\ ~automatic, telemetry)
            /\ fan' = IF newFan # NoValue THEN newFan ELSE fan
            /\ active' = IF shift # NoValue \/ newFan # NoValue \/ automatic' THEN id ELSE active
    /\ UNCHANGED <<mode, news, telemetry>>

-----------------------------------------------------------------------------
(* The batch with the edit reaches the service, or it or its effect is lost. *)
WriteMode ==
    /\ queued # NoValue /\ queued' = NoValue
    /\ \/ mode' = queued /\ UNCHANGED autoEvents
          /\ news' = IF mode = queued THEN news ELSE Append(news, queued)
       \/ Event /\ UNCHANGED <<mode, news>>
    /\ UNCHANGED <<shown, pending, valid, telemetry, automatic, active, fan, swallowed>>

(* The reply or a later read confirms the edit, or the confirmation expired. *)
EndConfirmation ==
    /\ pending /\ queued = NoValue
    /\ Confirm(automatic, telemetry, mode)
    /\ news' = <<>>
    /\ UNCHANGED <<mode, valid, telemetry, automatic, active, fan, autoEvents>>

(* A notification: dropped while an edit waits to be sent; while one is being *)
(* confirmed, it ends the confirmation if it is the mode edited or the time   *)
(* is over.                                                                   *)
Notified ==
    /\ news # <<>> /\ news' = Tail(news) /\ UNCHANGED valid
    /\ \/ /\ queued # NoValue \/ (pending /\ Head(news) # shown)
          /\ UNCHANGED <<shown, pending, queued, swallowed>>
       \/ pending /\ queued = NoValue /\ Confirm(automatic, telemetry, Head(news))
       \/ ~pending /\ ApplyRemote(automatic, telemetry, Head(news))
    /\ UNCHANGED <<mode, telemetry, automatic, active, fan, autoEvents>>

(* The firmware, by the keyboard, or another client sets the mode. *)
ModeChangesElsewhere ==
    /\ Event /\ mode' \in ShiftModes \ {mode} /\ news' = IF valid THEN Append(news, mode') ELSE news
    /\ UNCHANGED <<shown, pending, queued, valid, telemetry, automatic, active, fan, swallowed>>

AutoNext ==
    \/ ReadMode \/ LoseConnection \/ TelemetryChanges \/ Tick \/ SetEnabled \/ ChooseMode
    \/ ApplyProfile \/ WriteMode \/ EndConfirmation \/ Notified \/ ModeChangesElsewhere

AutoFairness == /\ WF_autoVars(ReadMode) /\ WF_autoVars(Tick) /\ WF_autoVars(WriteMode)
                /\ WF_autoVars(EndConfirmation) /\ WF_autoVars(Notified)
AutoSpec == AutoInit /\ [][AutoNext]_autoVars /\ AutoFairness

-----------------------------------------------------------------------------
AutoTypeOK ==
    /\ mode \in ShiftModes /\ shown \in ShiftModes \union {NoValue}
    /\ queued \in ShiftModes \union {NoValue} /\ fan \in FanModes \union {NoValue}
    /\ telemetry \in Telemetry /\ active \in DOMAIN Behaviours
    /\ news \in Seq(ShiftModes)
    /\ pending \in BOOLEAN /\ valid \in BOOLEAN
    /\ automatic \in BOOLEAN /\ swallowed \in BOOLEAN

(* With nothing on its way, the mode shown is the mode of the firmware, but   *)
(* for a mode the automatic profile set from inside a notification, which     *)
(* stays on the screen and is never sent (autoprofilecontroller.cpp:118,      *)
(* proxyparameter.cpp:20-29, parameterclient.cpp:314-323).                    *)
ShownModeIsReal ==
    valid /\ ~pending /\ news = <<>> => shown = mode \/ swallowed

(* Once users, the firmware and the bus are quiet, the automatic profile      *)
(* brings the firmware to the mode it wants, unless that one is the mode it   *)
(* set from inside a notification.                                            *)
AutoModeArrives ==
    <>[](automatic /\ valid => swallowed \/ mode = DesiredMode(telemetry)
                                    \/ DesiredMode(telemetry) \notin ShiftModes)
=============================================================================
