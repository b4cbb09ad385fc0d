-------------------------- MODULE ParameterClient --------------------------
(***************************************************************************)
(* The client's proxies of the service's parameters                        *)
(* (client/parameterclient.cpp): a user's edit is shown at once, queued,   *)
(* sent in a batch, and kept on screen until the service is seen to hold   *)
(* it or the confirmation expires.  The service (parameterregistry.cpp) is *)
(* on the other side of the system bus, which keeps the order of messages  *)
(* in each direction.                                                      *)
(*                                                                         *)
(* The client is single-threaded: every handler below is one step.  The    *)
(* 40, 140 and 2600 ms timers may fire at any time after they are started. *)
(***************************************************************************)
EXTENDS Integers, Sequences, SequencesExt

CONSTANTS Param,    \* parameters with a proxy
          Value,    \* values of a parameter
          Invalid,  \* an invalid QVariant: never published, or not registered
          None,     \* no entry in a map of the client
          MaxEvents \* bound: edits, publications, profiles applied, crashes

ASSUME ParamAssumption == IsFiniteSet(Param)
ASSUME MaxEventsAssumption == MaxEvents \in Nat

VARIABLES client,    \* per parameter: its proxy and its entries in the maps
          connected, \* mIsConnected
          flushing,  \* mWriteFlushTimer is active
          requests,  \* calls on their way to the service
          inbox,     \* replies, signals and bus notices on their way back
          up,        \* the service owns its bus name
          available, \* parameters registered with the service
          value,     \* their values
          received,  \* history: last value the service was asked to write
          wanted,    \* history: the last edit that no restart or profile
                     \* change has discarded, None if there is none
          stale,     \* history: parameters with an unanswered write the
                     \* client has forgotten
          events     \* number of events so far

clientVars == <<client, connected, flushing>>
serviceVars == <<up, available, value, received>>
history == <<wanted, stale>>
vars == <<clientVars, requests, inbox, serviceVars, history, events>>

Nothing == [p \in Param |-> None]
Unpublished == [p \in Param |-> Invalid]
Reading == Value \union {Invalid}

Confirmation == [expected : Reading, scheduled : BOOLEAN, expired : BOOLEAN]
ASSUME NoneAssumption == Invalid \notin Value /\ None \notin Reading \union Confirmation

Client == [shown : Reading, valid : BOOLEAN, pending : BOOLEAN,
           queued : Value \union {None}, inFlight : Value \union {None},
           confirming : Confirmation \union {None}, timers : Nat]

Batches == UNION {[S -> Value] : S \in SUBSET Param}
Readings == UNION {[S -> Reading] : S \in SUBSET Param}
Request == [op : {"list"}]
           \union [op : {"read"}, param : Param, refresh : BOOLEAN]
           \union [op : {"write"}, batch : Batches]
Message == [op : {"gone", "up", "profile"}]
           \union [op : {"listed"}, params : SUBSET Param]
           \union [op : {"value"}, param : Param, value : Reading]
           \union [op : {"changed"}, param : Param, value : Value]
           \union {m \in [op : {"written"}, names : SUBSET Param, values : Readings] :
                      DOMAIN m.values \subseteq m.names}
           \union [op : {"error"}, request : Request]

-----------------------------------------------------------------------------
(* What happens to the entry c of one parameter. *)

HasQueuedWrite(c) == c.queued # None \/ c.inFlight # None
HasWriteInProgress(c) == HasQueuedWrite(c) \/ c.confirming # None

Applied(c, v, markValid) == [c EXCEPT !.shown = v, !.valid = markValid \/ @]

(* scheduleConfirmationRefresh: one single-shot timer per confirmation. *)
ScheduledNever(c) == c \* mutant
Scheduled(c) ==
    IF ~connected \/ c.confirming = None THEN c
    ELSE IF c.confirming.scheduled THEN c
    ELSE [c EXCEPT !.confirming.scheduled = TRUE, !.timers = @ + 1]

(* handleRemoteValue: a value that is not the expected one is not shown before
   the confirmation has expired. *)
HandledAlways(c, v, markValid) == \* mutant: shown though an edit is queued
    Applied(c, v, markValid)
HandledMute(c, v, markValid) == \* mutant: an expired confirmation shows nothing
    CASE HasQueuedWrite(c) -> c
      [] ~HasQueuedWrite(c) /\ c.confirming = None -> Applied(c, v, markValid)
      [] OTHER ->
            IF c.confirming.expected # v /\ ~c.confirming.expired
            THEN Scheduled([c EXCEPT !.valid = markValid \/ @])
            ELSE [c EXCEPT !.confirming = None, !.pending = FALSE, !.valid = TRUE]
Handled(c, v, markValid) ==
    CASE HasQueuedWrite(c) -> c
      [] ~HasQueuedWrite(c) /\ c.confirming = None -> Applied(c, v, markValid)
      [] OTHER ->
            IF c.confirming.expected # v /\ ~c.confirming.expired
            THEN Scheduled([c EXCEPT !.valid = markValid \/ @])
            ELSE [Applied(c, v, markValid) EXCEPT !.confirming = None,
                                                  !.pending = FALSE]

(* mInFlightWrites.take and beginConfirmation: the expected value is whatever
   entry the map holds, an invalid value if it holds none. *)
ConfirmingEntry(c) == \* mutant: no value for an entry that is not there
    [c EXCEPT !.inFlight = None,
              !.confirming = [expected |-> c.inFlight, scheduled |-> FALSE,
                              expired |-> FALSE],
              !.pending = TRUE]
Confirming(c) ==
    [c EXCEPT !.inFlight = None,
              !.confirming =
                  [expected |-> IF c.inFlight = None THEN Invalid ELSE c.inFlight,
                   scheduled |-> FALSE, expired |-> FALSE],
              !.pending = TRUE]

(* A batch was answered for this parameter; a newer edit is still queued or
   the confirmation begins. *)
Answered(c) == IF c.queued # None THEN [c EXCEPT !.inFlight = None] ELSE Confirming(c)

(* A refresh failed. *)
RefreshFailed(c) ==
    LET d == IF HasQueuedWrite(c) \/ c.confirming = None THEN c
             ELSE IF c.confirming.expired THEN [c EXCEPT !.confirming = None]
             ELSE Scheduled(c)
    IN  [d EXCEPT !.pending = HasWriteInProgress(d)]

Cleared(c) == [c EXCEPT !.queued = None, !.inFlight = None, !.confirming = None,
                        !.pending = FALSE, !.valid = FALSE]

-----------------------------------------------------------------------------
(* Messages. *)

Read(p, refresh) == [op |-> "read", param |-> p, refresh |-> refresh]
Reads(S, refresh) == LET order == SetToSeq(S)
                     IN  [i \in 1 .. Len(order) |-> Read(order[i], refresh)]
Changes(S, values) == LET order == SetToSeq(S)
                      IN  [i \in 1 .. Len(order) |->
                              [op |-> "changed", param |-> order[i], value |-> values[order[i]]]]
Errors(reqs) == [i \in 1 .. Len(reqs) |-> [op |-> "error", request |-> reqs[i]]]

(* The client calls; `rest` is the inbox it leaves.  The bus answers for a
   service that is not there. *)
Call(reqs, rest) ==
    /\ requests' = IF up THEN requests \o reqs ELSE requests
    /\ inbox' = IF up THEN rest ELSE rest \o Errors(reqs)

(* init: ask for the parameters. *)
InitCalls == <<[op |-> "list"]>>

(* Writes of p that have not come back to the client. *)
Unanswered(p, calls, box) ==
    \/ \E i \in DOMAIN calls : calls[i].op = "write" /\ p \in DOMAIN calls[i].batch
    \/ \E i \in DOMAIN box :
          \/ box[i].op = "written" /\ p \in box[i].names
          \/ /\ box[i].op = "error" /\ box[i].request.op = "write"
             /\ p \in DOMAIN box[i].request.batch

(* clearRuntimeState: queued and unanswered edits are dropped. *)
Clear ==
    /\ client' = [p \in Param |-> Cleared(client[p])]
    /\ flushing' = FALSE
    /\ wanted' = Nothing
    /\ stale' = {p \in Param : Unanswered(p, requests, inbox)}

Received(op) == inbox # <<>> /\ Head(inbox).op = op

-----------------------------------------------------------------------------
(* A service that runs is found when the client connects to the bus. *)
Init ==
    /\ client = [p \in Param |->
                    [shown |-> Invalid, valid |-> FALSE, pending |-> FALSE,
                     queued |-> None, inFlight |-> None, confirming |-> None,
                     timers |-> 0]]
    /\ connected = FALSE
    /\ flushing = FALSE
    /\ requests = <<>>
    /\ up \in BOOLEAN
    /\ inbox = IF up THEN <<[op |-> "up"]>> ELSE <<>>
    /\ available \in SUBSET Param
    /\ value = Unpublished
    /\ received = Nothing
    /\ wanted = Nothing
    /\ stale = {}
    /\ events = 0

Event == events < MaxEvents /\ events' = events + 1

-----------------------------------------------------------------------------
(* Steps of the client. *)

(* The user, or a behaviour profile, sets a valid parameter: queueWrite. *)
Edit(p, v) ==
    /\ Event
    /\ client[p].valid /\ connected
    /\ client' = [client EXCEPT ![p].shown = v, ![p].queued = v,
                                ![p].confirming = None, ![p].pending = TRUE]
    /\ flushing' = TRUE
    /\ wanted' = IF up THEN [wanted EXCEPT ![p] = v] ELSE wanted
    /\ UNCHANGED <<connected, requests, inbox, serviceVars, stale>>

(* flushPendingWrites: a parameter with a write in flight waits. *)
FlushWaitless == \* mutant: entries that wait are dropped with the others
    LET batch == {p \in Param : client[p].queued # None /\ client[p].inFlight = None}
    IN  /\ flushing /\ flushing' = FALSE
        /\ client' = [p \in Param |->
               IF p \in batch
               THEN [client[p] EXCEPT !.inFlight = client[p].queued, !.queued = None]
               ELSE [client[p] EXCEPT !.queued = None]]
        /\ Call(IF batch = {} THEN <<>>
                ELSE <<[op |-> "write", batch |-> [p \in batch |-> client[p].queued]]>>,
                inbox)
        /\ UNCHANGED <<connected, serviceVars, history, events>>
FlushPendingWrites ==
    LET batch == {p \in Param : client[p].queued # None /\ client[p].inFlight = None}
    IN  /\ flushing /\ flushing' = FALSE
        /\ client' = [p \in Param |->
               IF p \in batch
               THEN [client[p] EXCEPT !.inFlight = client[p].queued, !.queued = None]
               ELSE client[p]]
        /\ Call(IF batch = {} THEN <<>>
                ELSE <<[op |-> "write", batch |-> [p \in batch |-> client[p].queued]]>>,
                inbox)
        /\ UNCHANGED <<connected, serviceVars, history, events>>

(* The retry timer of a confirmation: refreshParameter. *)
Retry(p) ==
    /\ client[p].timers > 0
    /\ LET c == [client[p] EXCEPT !.timers = @ - 1]
       IN  IF c.confirming = None \/ HasQueuedWrite(c)
           THEN /\ client' = [client EXCEPT ![p] = c]
                /\ UNCHANGED <<requests, inbox>>
           ELSE /\ client' = [client EXCEPT ![p] = [c EXCEPT !.confirming.scheduled = FALSE]]
                /\ Call(IF connected THEN <<Read(p, TRUE)>> ELSE <<>>, inbox)
    /\ UNCHANGED <<connected, flushing, serviceVars, history, events>>

(* 2600 ms have passed since the confirmation began. *)
Expire(p) ==
    /\ client[p].confirming # None
    /\ ~client[p].confirming.expired
    /\ client' = [client EXCEPT ![p].confirming.expired = TRUE]
    /\ UNCHANGED <<connected, flushing, requests, inbox, serviceVars, history, events>>

(* setConnected(false) and setConnected(true). *)
ServiceGone ==
    /\ Received("gone")
    /\ connected' = FALSE
    /\ inbox' = Tail(inbox)
    /\ Clear
    /\ UNCHANGED <<requests, serviceVars, events>>

ServiceUp ==
    /\ Received("up")
    /\ connected' = TRUE
    /\ Call(InitCalls, Tail(inbox))
    /\ UNCHANGED <<client, flushing, serviceVars, history, events>>

(* availableParametersChanged. *)
AvailableParametersChanged ==
    /\ Received("profile")
    /\ Clear
    /\ Call(IF connected THEN InitCalls ELSE <<>>, Tail(inbox))
    /\ UNCHANGED <<connected, serviceVars, events>>

(* The answer to init's first call.  (availableValues, asked for along with
   each value, only fills a list of choices.) *)
Listed ==
    /\ Received("listed")
    /\ LET S == Head(inbox).params
       IN  /\ client' = [p \in Param |->
                  IF p \in S THEN client[p]
                  ELSE [client[p] EXCEPT !.valid = FALSE, !.pending = FALSE]]
           /\ Call(Reads(S, FALSE), Tail(inbox))
    /\ UNCHANGED <<connected, flushing, serviceVars, history, events>>

(* The answer to a read, init's or a refresh. *)
ReadReply ==
    /\ Received("value")
    /\ LET m == Head(inbox)
       IN  client' = [client EXCEPT ![m.param] = Handled(@, m.value, TRUE)]
    /\ inbox' = Tail(inbox)
    /\ UNCHANGED <<connected, flushing, requests, serviceVars, history, events>>

ParameterChanged ==
    /\ Received("changed")
    /\ LET m == Head(inbox)
       IN  client' = [client EXCEPT ![m.param] = Handled(@, m.value, FALSE)]
    /\ inbox' = Tail(inbox)
    /\ UNCHANGED <<connected, flushing, requests, serviceVars, history, events>>

(* The answer to a batch: values for some of its names, none if it failed. *)
BatchAnswered(names, values) ==
    LET silent == names \ DOMAIN values
    IN  /\ client' = [p \in Param |->
               CASE p \in DOMAIN values -> Handled(Answered(client[p]), values[p], TRUE)
                 [] p \in silent -> Answered(client[p])
                 [] OTHER -> client[p]]
        /\ flushing' = (flushing \/ \E p \in Param : client[p].queued # None)
        /\ Call(IF connected
                THEN Reads({p \in silent : client[p].queued = None}, TRUE) ELSE <<>>,
                Tail(inbox))
        /\ stale' = {p \in stale : Unanswered(p, requests, Tail(inbox))}
        /\ UNCHANGED <<connected, serviceVars, wanted, events>>

WriteReply ==
    /\ Received("written")
    /\ BatchAnswered(Head(inbox).names, Head(inbox).values)

WriteFailed ==
    /\ Received("error")
    /\ Head(inbox).request.op = "write"
    /\ BatchAnswered(DOMAIN Head(inbox).request.batch, <<>>)

(* init's calls are not repeated; a refresh is, until it expires. *)
ReadFailed ==
    /\ Received("error")
    /\ Head(inbox).request.op # "write"
    /\ LET r == Head(inbox).request
       IN  client' = IF r.op = "read" /\ r.refresh
                     THEN [client EXCEPT ![r.param] = RefreshFailed(@)] ELSE client
    /\ inbox' = Tail(inbox)
    /\ UNCHANGED <<connected, flushing, requests, serviceVars, history, events>>

-----------------------------------------------------------------------------
(* Steps of the service and the bus. *)

Asked(op) == up /\ requests # <<>> /\ Head(requests).op = op

AvailableParameters ==
    /\ Asked("list")
    /\ requests' = Tail(requests)
    /\ inbox' = Append(inbox, [op |-> "listed", params |-> available])
    /\ UNCHANGED <<clientVars, serviceVars, history, events>>

(* An unknown name is answered too, with an invalid value. *)
ReadParameter ==
    /\ Asked("read")
    /\ requests' = Tail(requests)
    /\ LET p == Head(requests).param
       IN  inbox' = Append(inbox, [op |-> "value", param |-> p,
                                   value |-> IF p \in available THEN value[p] ELSE Invalid])
    /\ UNCHANGED <<clientVars, serviceVars, history, events>>

(* Each registered parameter takes its value or, if its write fails, keeps the
   one it had; those that changed are published before the reply. *)
WriteParameters ==
    /\ Asked("write")
    /\ requests' = Tail(requests)
    /\ LET batch == Head(requests).batch
           known == DOMAIN batch \intersect available
       IN  \E refused \in SUBSET known :
               LET new == [p \in Param |-> IF p \in known \ refused THEN batch[p] ELSE value[p]]
               IN  /\ value' = new
                   /\ inbox' = inbox
                          \o Changes({p \in Param : new[p] # value[p]}, new)
                          \o <<[op |-> "written", names |-> DOMAIN batch,
                                values |-> [p \in known |-> new[p]]]>>
                   /\ received' = [p \in Param |->
                          IF p \in DOMAIN batch THEN batch[p] ELSE received[p]]
    /\ UNCHANGED <<clientVars, up, available, history, events>>

(* Another client's write, or a value read from the EC. *)
Publish(p, v) ==
    /\ Event
    /\ up /\ p \in available /\ value[p] # v
    /\ value' = [value EXCEPT ![p] = v]
    /\ inbox' = Append(inbox, [op |-> "changed", param |-> p, value |-> v])
    /\ UNCHANGED <<clientVars, requests, up, available, received, history>>

(* A device profile is applied: its parameters are made anew, and what clients
   were about to write is theirs to write again. *)
ApplyProfile(S) ==
    /\ Event
    /\ up
    /\ available' = S
    /\ value' = Unpublished
    /\ inbox' = Append(inbox, [op |-> "profile"])
    /\ wanted' = Nothing
    /\ UNCHANGED <<clientVars, requests, up, received, stale>>

(* The process ends: the bus says so and fails the calls it did not answer. *)
Crash ==
    /\ Event
    /\ up /\ up' = FALSE
    /\ requests' = <<>>
    /\ \/ inbox' = inbox \o <<[op |-> "gone"]>> \o Errors(requests)
       \/ inbox' = inbox \o Errors(requests) \o <<[op |-> "gone"]>>
    /\ value' = Unpublished
    /\ received' = Nothing
    /\ wanted' = Nothing
    /\ UNCHANGED <<clientVars, available, stale>>

(* systemd starts it again; it owns its name before it registers parameters. *)
Start(S) ==
    /\ ~up /\ up' = TRUE
    /\ available' = S
    /\ inbox' = inbox \o <<[op |-> "up"], [op |-> "profile"]>>
    /\ UNCHANGED <<clientVars, requests, value, received, history, events>>

-----------------------------------------------------------------------------
ClientStep ==
    \/ FlushPendingWrites
    \/ ServiceGone \/ ServiceUp \/ AvailableParametersChanged
    \/ Listed \/ ReadReply \/ ParameterChanged
    \/ WriteReply \/ WriteFailed \/ ReadFailed

ServiceStep == AvailableParameters \/ ReadParameter \/ WriteParameters

Next == \/ ClientStep
        \/ ServiceStep
        \/ \E p \in Param : Retry(p) \/ Expire(p)
        \/ \E p \in Param, v \in Value : Edit(p, v) \/ Publish(p, v)
        \/ Crash
        \/ \E S \in SUBSET Param : ApplyProfile(S) \/ Start(S)

(* Both event loops run; timers fire; systemd restarts the service. *)
Fairness ==
    /\ WF_vars(ClientStep)
    /\ WF_vars(ServiceStep)
    /\ \A p \in Param : WF_vars(Retry(p)) /\ WF_vars(Expire(p))
    /\ WF_vars(\E S \in SUBSET Param : Start(S))

Spec == Init /\ [][Next]_vars
FairSpec == Spec /\ Fairness

-----------------------------------------------------------------------------
TypeOK ==
    /\ client \in [Param -> Client]
    /\ connected \in BOOLEAN
    /\ flushing \in BOOLEAN
    /\ requests \in Seq(Request)
    /\ inbox \in Seq(Message)
    /\ up \in BOOLEAN
    /\ available \subseteq Param
    /\ value \in [Param -> Reading]
    /\ received \in [Param -> Value \union {None}]
    /\ wanted \in [Param -> Value \union {None}]
    /\ stale \subseteq Param
    /\ events \in 0 .. MaxEvents

(* The newest write of p between the user and the service. *)
WritesOf(p) == {i \in DOMAIN requests :
                    requests[i].op = "write" /\ p \in DOMAIN requests[i].batch}
Newest(p) ==
    CASE client[p].queued # None -> client[p].queued
      [] client[p].queued = None /\ WritesOf(p) # {} ->
            LET last == CHOOSE i \in WritesOf(p) : \A j \in WritesOf(p) : j <= i
            IN  requests[last].batch[p]
      [] OTHER -> received[p]

(* Edits made while earlier ones are queued, in flight or answered are neither
   lost nor overtaken: the newest write on its way is the last edit. *)
LastEditTravels ==
    \A p \in Param : wanted[p] # None => Newest(p) = wanted[p]

(* Until the service has the last edit, the user sees it, whatever replies and
   signals about older values arrive meanwhile; but see stale. *)
EditStaysOnScreen ==
    \A p \in Param \ stale :
        wanted[p] # None /\ (client[p].queued # None \/ WritesOf(p) # {}) =>
            client[p].shown = wanted[p]

(* Nothing is on its way and nothing is waited for. *)
Quiet ==
    /\ up /\ connected /\ requests = <<>> /\ inbox = <<>> /\ ~flushing
    /\ \A p \in Param : client[p].timers = 0 /\ client[p].confirming = None

(* When all is quiet, what the user sees is what the service holds. *)
Agreement ==
    Quiet => \A p \in available :
                 /\ client[p].valid /\ ~client[p].pending
                 /\ ~HasQueuedWrite(client[p])
                 /\ client[p].shown = value[p]

(* Only parameters of the profile in force are offered to the user. *)
OnlyAvailableOffered ==
    Quiet => \A p \in Param : client[p].valid => p \in available

(* After the last disturbance the client and the service come to agree. *)
Settles ==
    <>[](up /\ connected /\ \A p \in available :
                                /\ client[p].valid /\ ~client[p].pending
                                /\ client[p].shown = value[p])
=============================================================================
