--------------------------- MODULE DeviceProfiles ---------------------------
(***************************************************************************)
(* Device profiles end to end: the files and the lists read from them      *)
(* (service/supportconfig.cpp), saving, removing and applying one          *)
(* (deviceprofileservice.cpp, deviceprofileapplier.cpp, ecsysregistrar.cpp)*)
(* and the client that shows them (client/deviceprofileclient.cpp).  The   *)
(* profile in force decides which parameters exist and which addresses raw *)
(* writes may reach (EcMemory).                                            *)
(*                                                                         *)
(* Messages between the two processes keep their order on the bus.  The    *)
(* built-in profiles never change and the client's copy of them is left    *)
(* out: a list is that of the user's profiles.                             *)
(***************************************************************************)
EXTENDS EcMemory

CONSTANTS Firmwares,  \* versions the EC of a machine may report
          Defaults,   \* the configuration every profile starts from
          Builtin,    \* the built-in profiles, a sequence
          RawId,      \* texts a caller passes as a profile's name
          NormalId,   \* normalizeId: RawId -> names
          EmptyId,    \* the empty name
          None,       \* no profile, no list, no status
          Requests,   \* the saves and removals callers ask for
          MaxEvents   \* bound: edits and ends of the process

ASSUME BuiltinAssumption ==
    \A i \in DOMAIN Builtin : DOMAIN Builtin[i] = {"id", "source", "firmware", "values"}

ASSUME NoneAssumption == \A i \in DOMAIN Builtin : None # Builtin[i]
ASSUME DefaultsAssumption == DOMAIN Defaults # {}

VARIABLES fw,         \* of this machine
          clientRuns, \* the client's process; raw writes come from other callers
          events, \* counted
          disk,      \* the user's file: readable or not, and its profiles
          running,   \* the service's process
          user,      \* mUserProfiles
          active,    \* mActiveProfileId and mActiveProfileSource
          applier,   \* the registrar installed the applier
          inForce,   \* configuration the registered parameters were made from
          connected, list, shown, \* client: mIsConnected, mDeviceProfiles, mActiveDeviceProfile
          status,    \* client: mStatus
          toService, toClient     \* the bus

repo   == <<disk, user>>
force  == <<active, inForce, allowed, edited>>
client == <<connected, list, shown, status>>
bus    == <<toService, toClient>>
bounds == <<fw, clientRuns, events>>
memoryRest == <<cell, audit, attempts>>
vars == <<repo, running, applier, force, client, bus, bounds, loaded, memoryRest>>

-----------------------------------------------------------------------------
(* supportconfig.cpp *)
UserProfile(id, firmware, values) ==
    [id |-> id, source |-> "user", firmware |-> firmware, values |-> values]

(* loadFile of the user's file: a file no parser accepts leaves none. *)
Loaded == IF disk.readable THEN disk.profiles ELSE <<>>

Matching(profiles) == {i \in DOMAIN profiles : fw \in profiles[i].firmware}
FirstOf(indices) == CHOOSE i \in indices : \A j \in indices : i <= j

(* configForFirmware: the user's profiles before the built-in ones. *)
Selected(users) ==
    IF Matching(users) # {} THEN users[FirstOf(Matching(users))]
    ELSE IF Matching(Builtin) # {} THEN Builtin[FirstOf(Matching(Builtin))] ELSE None

Config(profile) ==
    [key \in DOMAIN Defaults \union DOMAIN profile.values |->
        IF key \in DOMAIN profile.values THEN profile.values[key] ELSE Defaults[key]]

(* saveUserProfile replaces the first profile of that name or appends one. *)
SavedAppends(p) == Append(user, p) \* mutant: a profile saved again is there twice
Saved(p) ==
    LET same == {i \in DOMAIN user : user[i].id = p.id}
    IN  IF same = {} THEN Append(user, p) ELSE [user EXCEPT ![FirstOf(same)] = p]
Removed(id) == SelectSeq(user, LAMBDA p : p.id # id)

(* writeUserProfiles replaces the file as a whole or leaves it; then the    *)
(* lists are read again.                                                    *)
Written(users) == disk' = [readable |-> TRUE, profiles |-> users] /\ user' = users
NotWrittenKept(users) == UNCHANGED disk /\ user' = users \* mutant: no reload
NotWritten(users) == UNCHANGED disk /\ user' = Loaded

-----------------------------------------------------------------------------
(* DeviceProfileApplier::apply behind applySupportProfile, with the lists   *)
(* the action leaves: nothing changes unless a profile is found.            *)
Applies(users) == applier' /\ (Matching(users) # {} \/ Matching(Builtin) # {})
AppliedKeepsRanges(users) == \* mutant: the policy is left alone
    IF Applies(users)
    THEN LET p == Selected(users)
         IN  active' = <<p.id, p.source>> /\ inForce' = Config(p) /\ UNCHANGED <<allowed, edited>>
    ELSE UNCHANGED force
AppliedIfOther(users) == \* mutant: a profile of the same name is not applied again
    IF Applies(users) /\ active # <<Selected(users).id, Selected(users).source>>
    THEN LET p == Selected(users)
         IN  /\ active' = <<p.id, p.source>> /\ inForce' = Config(p)
             /\ allowed' = RangesOf(Config(p)) /\ edited' = {}
    ELSE UNCHANGED force
Applied(users) ==
    IF Applies(users)
    THEN LET p == Selected(users)
         IN  /\ active' = <<p.id, p.source>>
             /\ inForce' = Config(p)
             /\ allowed' = RangesOf(Config(p))
             /\ edited' = {}
    ELSE UNCHANGED force
(* Its signals: the set of parameters aside, the active profile and the list. *)
Signals(users) == IF Applies(users) THEN <<[kind |-> "active"], [kind |-> "list"]>> ELSE <<>>

Reply(kind, value) == [kind |-> kind, value |-> value]
Deliver(messages) == toClient' = IF clientRuns THEN toClient \o messages ELSE toClient

(* The result, for the client if it was the one to ask. *)
Answer(asked, ok) == IF asked THEN <<Reply("edited", ok)>> ELSE <<>>

(* saveProfile and removeProfile of the service: with the new lists, the    *)
(* file written or not, the profile applied, signals before the reply.      *)
Changed(users, asked) ==
    \/ /\ Written(users)
       /\ Applied(users)
       /\ Deliver(<<[kind |-> "list"]>> \o Signals(users) \o Answer(asked, Applies(users)))
    \/ /\ NotWritten(users)
       /\ UNCHANGED force
       /\ Deliver(<<[kind |-> "list"]>> \o Answer(asked, FALSE))
Refused(asked) == UNCHANGED <<repo, force>> /\ Deliver(Answer(asked, FALSE))

SaveProfile(request, asked) ==
    LET id == NormalId[request.id]
    IN  IF id = EmptyId \/ request.firmware = {} THEN Refused(asked)
        ELSE Changed(Saved(UserProfile(id, request.firmware, request.values)), asked)
RemoveProfile(request, asked) ==
    LET users == Removed(NormalId[request.id])
    IN  IF users = user THEN Refused(asked) ELSE Changed(users, asked)

(* An edit of another caller, whose answer this client never sees. *)
OtherEdits(request) ==
    /\ running /\ events < MaxEvents
    /\ events' = events + 1
    /\ UNCHANGED <<fw, clientRuns, running, applier, loaded, memoryRest, client, toService>>
    /\ \/ request.kind = "save" /\ SaveProfile(request, FALSE)
       \/ request.kind = "remove" /\ RemoveProfile(request, FALSE)

(* EcProfilesEndpoint, one call at a time. *)
Serve ==
    /\ running /\ toService # <<>>
    /\ toService' = Tail(toService)
    /\ UNCHANGED <<bounds, running, applier, loaded, memoryRest, client>>
    /\ LET request == Head(toService)
       IN  \/ request.kind = "save" /\ SaveProfile(request, TRUE)
           \/ request.kind = "remove" /\ RemoveProfile(request, TRUE)
           \/ /\ request.kind = "list"
              /\ Deliver(<<Reply("listed", user)>>)
              /\ UNCHANGED <<repo, force>>
           \/ /\ request.kind = "active"
              /\ Deliver(<<Reply("activeIs", active)>>)
              /\ UNCHANGED <<repo, force>>

-----------------------------------------------------------------------------
NoConfig == [key \in {} |-> NoNumber]

ProfilesInit ==
    /\ MemoryInit
    /\ disk = [readable |-> TRUE, profiles |-> <<>>]
    /\ running = FALSE /\ user = <<>> /\ applier = FALSE
    /\ active = None /\ inForce = NoConfig
    /\ connected = FALSE /\ list = None /\ shown = None /\ status = None
    /\ toService = <<>> /\ toClient = <<>>
    /\ fw \in Firmwares
    /\ clientRuns \in BOOLEAN /\ events = 0

(* main: the lists are read, the name is taken, and registerEcSys applies a *)
(* profile if the EC could be read; its calls are answered after that.      *)
Start ==
    /\ ~running /\ running' = TRUE
    /\ user' = Loaded
    /\ \E read \in BOOLEAN : applier' = read /\ loaded' = read
    /\ Applied(user')
    /\ Deliver(<<[kind |-> "up"]>> \o Signals(user'))
    /\ UNCHANGED <<disk, memoryRest, client, toService, bounds>>

(* The process ends: the bus reports its name gone after what it had sent,  *)
(* and answers the calls it had not answered with errors.                   *)
Crash ==
    /\ running /\ running' = FALSE
    /\ events < MaxEvents /\ events' = events + 1
    /\ LET errors == [i \in DOMAIN toService |-> Reply("error", toService[i].kind)]
           gone   == <<[kind |-> "gone"]>>
       IN  Deliver(gone \o errors) \/ Deliver(errors \o gone)
    /\ toService' = <<>>
    /\ user' = <<>> /\ applier' = FALSE /\ active' = None /\ inForce' = NoConfig
    /\ loaded' = FALSE /\ allowed' = {}
    /\ audit' = <<>> /\ attempts' = <<>> /\ edited' = {}
    /\ UNCHANGED <<disk, cell, client, fw, clientRuns>>

(* A version of the service with a newer schema, or an editor, leaves a     *)
(* file this one refuses.                                                   *)
FileUnreadable ==
    /\ disk.readable
    /\ disk' = [disk EXCEPT !.readable = FALSE]
    /\ UNCHANGED <<user, running, applier, force, loaded, memoryRest, client, bus, bounds>>

-----------------------------------------------------------------------------
(* The client.  Calls to a service that is gone are answered with errors.   *)
Calls(requests) ==
    IF running THEN toService' = toService \o requests /\ toClient' = Tail(toClient)
    ELSE /\ UNCHANGED toService
         /\ toClient' = Tail(toClient)
                          \o [i \in DOMAIN requests |-> Reply("error", requests[i].kind)]
RefreshList == <<[kind |-> "list"]>>
RefreshActive == <<[kind |-> "active"]>>

(* setConnected; the two signals; the handlers of replies. *)
Connects ==
    /\ Head(toClient).kind = "up"
    /\ connected' = TRUE
    /\ Calls(IF connected THEN <<>> ELSE RefreshList \o RefreshActive)
    /\ UNCHANGED <<list, shown, status>>
Disconnects ==
    /\ Head(toClient).kind = "gone"
    /\ connected' = FALSE /\ list' = None /\ shown' = None
    /\ Calls(<<>>)
    /\ UNCHANGED status
ListChanged ==
    /\ Head(toClient).kind = "list"
    /\ Calls(IF connected THEN RefreshList ELSE <<>>)
    /\ UNCHANGED client
ActiveChangedDropped == \* mutant: the signal is not connected
    /\ Head(toClient).kind = "active" /\ Calls(<<>>) /\ UNCHANGED client
ActiveChanged ==
    /\ Head(toClient).kind = "active"
    /\ Calls(IF connected THEN RefreshActive ELSE <<>>)
    /\ UNCHANGED client
Listed ==
    /\ Head(toClient).kind = "listed"
    /\ list' = Head(toClient).value
    /\ Calls(<<>>)
    /\ UNCHANGED <<connected, shown, status>>
ActiveIs ==
    /\ Head(toClient).kind = "activeIs"
    /\ shown' = Head(toClient).value
    /\ Calls(<<>>)
    /\ UNCHANGED <<connected, list, status>>
(* The answer to a save or a removal, an error included. *)
Edited ==
    /\ \/ Head(toClient).kind = "edited"
       \/ Head(toClient).kind = "error" /\ Head(toClient).value \in {"save", "remove"}
    /\ status' = IF Head(toClient).kind = "edited" /\ Head(toClient).value THEN "done" ELSE "failed"
    /\ Calls(IF connected THEN RefreshList \o RefreshActive ELSE <<>>)
    /\ UNCHANGED <<connected, list, shown>>
RefreshFailed ==
    /\ Head(toClient).kind = "error"
    /\ Head(toClient).value \in {"list", "active"}
    /\ status' = IF Head(toClient).value = "list" THEN "failed" ELSE status
    /\ Calls(<<>>)
    /\ UNCHANGED <<connected, list, shown>>

Receive ==
    /\ toClient # <<>>
    /\ \/ Connects \/ Disconnects \/ ListChanged \/ ActiveChanged
       \/ Listed \/ ActiveIs \/ Edited \/ RefreshFailed
    /\ UNCHANGED <<repo, running, force, applier, loaded, memoryRest, bounds>>

(* saveDeviceProfile and removeDeviceProfile of the client. *)
AskEdit(request) ==
    /\ clientRuns /\ events < MaxEvents
    /\ events' = events + 1
    /\ IF ~connected THEN status' = "failed" /\ UNCHANGED bus
       ELSE /\ UNCHANGED status
            /\ IF running THEN toService' = Append(toService, request) /\ UNCHANGED toClient
               ELSE toClient' = Append(toClient, Reply("error", request.kind)) /\ UNCHANGED toService
    /\ UNCHANGED <<repo, running, force, applier, loaded, memoryRest, connected, list, shown,
                   fw, clientRuns>>

-----------------------------------------------------------------------------
(* The raw accesses of EcMemory come from callers other than the client. *)
Raw(Access) == /\ running /\ ~clientRuns /\ Access
               /\ UNCHANGED <<repo, running, applier, active, inForce, client, bus, bounds>>
RawWrites(offset, bytes) == Raw(WriteMemory(offset, bytes))
RawWritesBits(offset, mask, value) == Raw(WriteMemoryBits(offset, mask, value))
Polled(a, byte) == Raw(Poll(a, byte))

Next == \/ Start \/ Crash \/ FileUnreadable \/ Serve \/ Receive
        \/ \E request \in Requests : AskEdit(request) \/ OtherEdits(request)
        \/ \E w \in Blocks : RawWrites(w.offset, w.bytes)
        \/ \E w \in BitWrites : RawWritesBits(w.offset, w.mask, w.value)
        \/ \E a \in Tracked, byte \in {{}, {4}} : Polled(a, byte)
Spec == ProfilesInit /\ [][Next]_vars

-----------------------------------------------------------------------------
(* What is in force is what a restart would put in force, through failed    *)
(* saves and removals, crashes and unreadable files: the profile selected   *)
(* from the file for this firmware, its configuration and its name.         *)
InForceIsSelection ==
    LET chosen == Selected(disk.profiles)
    IN  running /\ applier /\ disk.readable /\ chosen # None
          => /\ inForce = Config(chosen)
             /\ active = <<chosen.id, chosen.source>>

(* The service never works on lists the file does not hold: a failed save   *)
(* or removal leaves no trace, a successful one is on the disk.             *)
UserListIsOnDisk == running /\ disk.readable => user = disk.profiles

(* "validates raw writes against the active device profile": the policy is  *)
(* that of the parameters registered, and lets through what they write.     *)
PolicyOfProfile ==
    IF inForce = NoConfig THEN allowed = {}
    ELSE /\ allowed = RangesOf(inForce)
         /\ \A r \in Writable(inForce) : Allows(allowed, r.address, 1)

(* Raw writes never reach the cells the telemetry is read from, as long as  *)
(* the profiles keep their registers apart from them and no override is set.*)
TelemetryNeverEdited ==
    ~Unsafe /\ edited # {} /\ TelemetrySafe(inForce)
      => edited \cap {r.address : r \in Telemetry(inForce)} = {}

(* When nothing is on its way the client shows the service's profiles.      *)
ProfilesAgree ==
    clientRuns /\ toService = <<>> /\ toClient = <<>> /\ running
      => connected /\ list = user /\ shown = active

(* The file and the list read from it are one list: edits are on the disk   *)
(* and in force or leave no trace, whatever is on the bus.                  *)
Stored(r) == r.kind = "save" /\ NormalId[r.id] # EmptyId /\ r.firmware # {}
Store == INSTANCE ProfileStore
    WITH profiles <- IF running THEN user ELSE Loaded,
         serving  <- running,
         able     <- applier,
         intact   <- disk.readable,
         force    <- <<active, inForce>>,
         Nothing  <- <<None, NoConfig>>,
         Profile  <- {UserProfile(NormalId[r.id], r.firmware, r.values) :
                         r \in {q \in Requests : Stored(q)}},
         Name     <- {NormalId[r.id] : r \in Requests}
ImplementsStore == Store!ASpec
=============================================================================
