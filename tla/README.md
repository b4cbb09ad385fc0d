# TLA+ verification of MSI Control Center

MSI Control Center drives the embedded controller (EC) of a laptop: a kernel
module exposes the EC memory as a file, a root service keeps a shadow of it and
publishes fields of it as parameters on the system bus, and a user's client shows
and edits those parameters. This directory holds TLA+ modules of the parts that
carry the program's logic, TLC configurations that model-check them, and theorems
that TLAPS checks.

Paths below are relative to `src/src/` unless they begin with `src/`.

## 1. The system

    user ── client (Qt/QML) ── system bus ── service ── /sys/.../ec file ── kernel module ── EC
             ParameterClient                 registry, parameters,            msiecmodule.c
             profiles, history               IOBuffer, fan target

| Component | State it keeps | Operations | Interacts with |
|---|---|---|---|
| EC shadow, `service/iobuffer.cpp` | `mBuffer` (last known memory), `mDataCache` (queued writes by start address) | `writeBytes`, `startRead` (send the queue, read all back, requeue on failure), poll and zero-delay timers | backend below, parameters above (`bufferChanged`) |
| Backends, `service/ecmemorybackend.cpp` | none (file), canned memory (simulator) | `readAll(pendingWrites)` | kernel module's file |
| Parameters, `service/parameter.cpp`, `ioparameterimpl.h`, `softwareparameter.cpp`, `settingsstore.cpp` | `mValue`; the settings file | `setValue`, `update`, restore from a zero-delay timer | shadow (read-modify-write of bits), settings, registry |
| Registry and endpoints, `service/parameterregistry.cpp`, `dbusendpoints.cpp` | the registered parameters | list, read, write, batch write, change signals | parameters, bus |
| Factory, `service/ecparameterfactory.cpp`, `supported-devices.json` | the device profile | makes the parameters and their register layout | registry |
| Start-up, `service/main.cpp`, `ecsysregistrar.cpp` | whether a profile was applied | first read, firmware lookup, registration | all of the service |
| Fan target, `service/fantargetcontroller.cpp` | last mode seen, last generated curves, backup of the user's curves (a settings entry) | `apply`, from change signals and two timers | fan, temperature and mode parameters |
| Raw memory access, `service/ecmemoryservice.cpp`, `ecwritepolicy.cpp` | allowlist, audit log | read, write bytes, write bits | shadow, profile in force |
| Device profiles, `service/supportconfig.cpp`, `deviceprofileservice.cpp`, `deviceprofileapplier.cpp` | profile files, the lists read from them, the active profile | list, save, remove, apply live | factory, registry, write policy, the client's `deviceprofileclient.cpp` |
| CPU/GPU controls, `service/cpucontrolparameter.cpp`, `cpufiles.cpp`, `gpucontrolparameter.cpp` | last value read or written | writes of several sysfs files or tool calls, delayed and periodic read-back | sysfs, the power-profiles daemon, tools |
| Health, diagnostics | watchdog timer | notify systemd | systemd |
| Kernel module, `module/msiecmodule.c` | cached memory, interval | tick, file read/write, interval, unload | EC, service |
| Parameter client, `client/parameterclient.cpp`, `proxyparameter.cpp` | proxies; maps of queued, in-flight and confirming writes | edit, flush, replies, signals, refresh, connect/disconnect | bus, user interface, profiles |
| Automatic/behaviour profiles, `client/autoprofilecontroller.cpp`, `behaviorprofilecontroller.cpp` | enabled or not, the active profile | evaluate, apply | proxies, whose change signals call it |
| CPU graph, `client/gpucpuperformancegraph.cpp` | targets and displayed bars, frame timer | new telemetry, frame, hide, show | proxies, by bindings |
| Other clients (memory, diagnostics, history, settings) | lists and flags | one call each | bus |
| Rest of the user interface, doctor, scripts, packaging | - | presentation, one-shot checks | - |

What is hard here, and where each hazard is followed up (`PROJECT.json` lists them
by line):

* **Failure half-way.** The queue is sent entry by entry over a file that can fail
  at any byte, and everything, what did arrive included, is queued again.
* **Two stores.** A setting is saved when it is queued, before it is in the EC; a
  crash between must be repaired by the restore.
* **Shared registers.** Several parameters are fields of one byte and write it by
  read-modify-write of the shadow.
* **Asynchrony across the bus.** Edits, batch replies, change signals, refresh
  replies and retries, expiry, loss of the bus name and a change of profile meet in
  the client's maps in any order.
* **Re-entrancy and memory of modes.** The fan target controller runs inside the
  change signals of the parameters it writes, and must remember what the user had.
* **Firmware.** The EC changes cells on its own, between any two steps.
* **Remembered values.** CPU controls are written as differences to the value the
  service remembers, GPU controls from a list a client may hold for long; either can
  be out of date or half written.
* **Two readings of one file.** The parameters and the allowlist of raw writes are
  made from the same profile by separate code, and remade live.
* **Threads.** In the kernel module a periodic work, writers and readers of the file
  and the loading of the module share a cache and a mutex.

## 2. Modules

| Module | Models | Kind |
|---|---|---|
| `EcView` | what the EC shadow promises its callers | abstract specification |
| `IoBuffer` | `iobuffer.cpp` over `FileEcMemoryBackend` | component, implements `EcView` |
| `IoBufferProofs` | | proofs |
| `Registers` | `parameter.cpp`, `ioparameterimpl.h`, registrar, restart, live profile change | component, composed with `EcView` |
| `RegistersProofs` | | proofs |
| `ParameterClient` | `parameterclient.cpp` against `parameterregistry.cpp` across the bus | composition of two processes |
| `ParameterClientProofs` | | proofs |
| `FanCurve` | the curve of `FanTargetController::applyCurve` | pure operators |
| `FanTarget` | `fantargetcontroller.cpp` with the parameters it uses | component |
| `FanTargetProofs` | | proofs |
| `EcModule` | `module/msiecmodule.c` | component, threads around a mutex |
| `EcModuleProofs` | | proofs |
| `ProfileLayout` | `ecparameterfactory.cpp` and the ranges of `ecwritepolicy.cpp` | pure operators |
| `EcMemory` | `ecmemoryservice.cpp`, `ecwritepolicy.cpp` | component |
| `ProfileStore` | what the service promises to those who edit device profiles | abstract specification |
| `DeviceProfiles` | `supportconfig.cpp`, `deviceprofileservice.cpp`, `deviceprofileapplier.cpp`, `deviceprofileclient.cpp` | composition of two processes over `EcMemory`, implements `ProfileStore` |
| `DeviceProfilesProofs` | | proofs about the three components |
| `LayoutProofs` | | proofs about `ProfileLayout` and the families of `MCDeviceProfiles` |
| `CpuControl` | `cpucontrolparameter.cpp`, `cpufiles.cpp` | component |
| `GpuControl` | `gpucontrolparameter.cpp`, `setGpuControlValue` of the client | component |
| `AutoProfile` | `autoprofilecontroller.cpp`, `behaviorprofilecontroller.cpp` over a proxy | component |
| `GraphAnimation` | the animation of `gpucpuperformancegraph.cpp` | component |
| `ControlsProofs` | | proofs about `CpuControl`, `GpuControl`, `AutoProfile`, `GraphAnimation`, `FanCurve` and their instance `MCControls` |
| `MC*` | instances for TLC | |

`Registers` does not repeat the queue: each of its actions is an action of `EcView`
conjoined with what the parameters do in the same callback, and `IoBuffer` is shown
to implement `EcView`. `FanTarget` takes the generated curves as a constant
function, which `MCFanTarget` fills from `FanCurve`. `EcModule` lies below `IoBuffer`:
what `IoBuffer` calls `hw`, the memory behind the backend, is what the module's file
shows, and `EcModule` says how that relates to the EC (a write goes through at once;
a change the firmware makes shows after a refresh). `DeviceProfiles` extends
`EcMemory`, which extends `ProfileLayout`: the profile in force decides what raw
writes may reach. `MCControls` checks `CpuControl`, `GpuControl`, `AutoProfile`,
`GraphAnimation` and `FanCurve`, which share no state, in one run: the variable `part`
says which of them moves, and the others rest in one initial state, so that the state
space is the sum of theirs and not the product.

### IoBuffer and EcView

`buffer` is `mBuffer` (`Unread` while its size is 0), `pending` is `mDataCache`,
`taken` is the local `pendingWrites` of `startRead`, `hw` the memory behind the
backend. `WriteBytes` is `writeBytes` with its bounds check; a write with the same
start address replaces the queued one. `startRead` is three steps, because the
firmware runs beside it: `StartRead` (swap the queue), `WriteAll`/`WriteFails` (the
write loop, which may stop after any entry and any byte), `ReadAll`/`ReadFails`. A
failure puts the entries back. No caller runs inside `startRead`, so `WriteBytes` needs
`phase = "idle"` and nothing is queued during an attempt: the check for a newer entry of
the same address (`iobuffer.cpp:59`, in `PutBack`) is only a defence. Between two
attempts a write does replace an entry that was put back. `Restart` is the
end of the process: the queue was only in memory. `owed` is a history variable.

The early return of `startRead` for an unchanged buffer is no difference in
`IoBuffer`; the listeners it spares are modelled in `Registers!ReadBack`.

### Registers

`published` is `mValue`, `saved` the settings file, `toRestore` the zero-delay
timers left, in the order of registration. `SetValue` is `Parameter::setValue`: the
early return for the published value, read-modify-write (`Encode`), the
`bufferChanged` signal that makes every parameter of the profile publish, saving.
`Restore` is the timer, `ReadBack` the poll (the first one registers the
parameters), `FlushFails` a failed attempt (the first one means that no profile is
applied), `ApplyProfile` a live change that makes the parameters anew,
`RestartService` a restart at any moment. `drifted` is a history variable: the
parameters whose field the firmware changed since the start; a program cannot keep
a setting the firmware overrides, so the properties leave those out.

### ParameterClient

One record per parameter holds the proxy (`shown`, `valid`, `pending`) and its
entries in the client's maps (`queued`, `inFlight`, `confirming`), with the number
of retry timers started. `requests` and `inbox` are the two directions of the bus,
which keeps the order of messages in each. Each callback of `parameterclient.cpp`
is one action; 40, 140 and 2600 ms timers fire at any time. The service answers,
refuses any part of a batch, publishes values of its own, changes profile, dies
(with the notice and the errors of unanswered calls in either order) and is started
again with any parameters. `received`, `wanted` and `stale` are history variables.

### FanTarget and FanCurve

`apply` runs inside change signals, so the state of the controller and of the
parameters is one record `fan`, and each part of the handler is an operator from
record to record: `Switched` (has the mode changed: back up or restore), `Forced`
(advanced fan mode), `TargetApplied` (write the curve of each side whose generated
curve differs from `signature`, the last one generated), `Applied` the whole.
Actions are the change signals and timers that call it. `wish` is a history
variable: the curves and the fan mode the user last chose in curve mode, or `None`
where the code cannot have kept them (`Lost`: target mode chosen, or found saved at
a start, before the EC parameters are published; see the hazards at
`fantargetcontroller.cpp:111`).

`FanCurve` computes the seven speeds and six temperatures with the code's rounding,
clamping and floors; its loops are recursive functions over the index.

### EcModule

`ec` is the EC, `shadow` and `pos` are `ec_shadow` and `ec_shadow_pos`, `mutex` is
the holder of `ec_mutex`. Every EC transaction is a step and so is the assignment
that follows it: `Fetch` and `Keep` in the loops that read, `Put` and `Keep` in the
loop that writes, `FetchFails` and `PutFails` where the transaction fails (a write
that fails may have reached the EC or not). `thread` holds, per thread, the cells its
loop has left. `TickStops`, `TickSkips` and `TickLocks` are the three ways through
the head of `ec_cache_tick`, `TickDone` its end; `Load`, `FullRefresh`,
`FullRefreshed` the order of `mod_init`, in which the file is visible before the
first full refresh; `Unload` waits for a running tick (`cancel_delayed_work_sync`) and for
calls of the file (`sysfs_remove_bin_file` waits for them). A
reader copies the cache in one piece under the mutex, so what it can get is the cache
in the states `CanRead` describes. `known` and `held` are history variables: cells
refreshed or written since the module was loaded (the others are shown as zeros: for
a reader between the creation of the file and the full refresh at
`msiecmodule.c:153-154`, and where a cell could not be read), and the values a cell has had since it
was last written through the file.

### ProfileLayout, EcMemory and DeviceProfiles

`ProfileLayout` turns a configuration (the keys of a profile over the defaults) into
the registers of its parameters, as `registerProfileParameters` does with its
fallbacks for missing or malformed numbers, and into the ranges of the write policy,
as `rangesFromProfileConfig` does with a parser of its own.

In `EcMemory`, `cell` is the shadow of a few tracked addresses, `allowed` is
`mAllowedRanges`, `audit` is `mAuditLog`; `attempts` and `edited` are history
variables (every validated raw write, and the cells they reached under the present
ranges). A raw write goes through the endpoint's conversion, the range check and the
policy in the code's order; only those that pass the range check are recorded.

In `DeviceProfiles`, `disk` is the user's file, `user` is `mUserProfiles`, `active` the
active profile, `inForce` the configuration the registered parameters were made from
(the applier's copy), `applier` whether the registrar installed one. A save or removal
is one handler of the service: the list is changed, the file is written or not
(`Written`, `NotWritten` with its `reload`), the profile applied (`Applied`), the
signals sent before the reply. `toService` and `toClient` are the two directions of the
bus; the client's handlers are one action each (`Connects`, `Disconnects`,
`ListChanged`, `ActiveChanged`, `Listed`, `ActiveIs`, `Edited`, `RefreshFailed`).
`Start` and `Crash` are the life of the process, `OtherEdits` edits by another caller,
`FileUnreadable` a file this version refuses. When `clientRuns` is false the client is
left out and raw writes take its place; the two share nothing but the profile.

`ProfileStore` knows no file, no list read from it, no bus and no client: one list of
profiles, edits that succeed (`Put`, `Drop`) or leave no trace (`EditFails`), the life of
the process (`Begin`, `End`), and what is in force after each. `Damage` is what may
happen to the file from outside: from then on the list lasts only until the process ends
or an edit fails, unless an edit that succeeds saves it again. The refinement maps its
list to `user` while the service runs and to what loading the file would give while it
does not, `serving` to `running`, `able` to `applier`, `intact` to the file being
readable, and `force` to `active` with `inForce`. Its callers may put exactly what
`saveUserProfile` accepts (`Stored`). Steps of the client, of the bus and of the raw
accesses are stutters, and so is a request that is refused.

### CpuControl and GpuControl

`files` and `daemon` are sysfs and the power-profiles daemon, `own` and `published`
the two members called `mValue` (of `CpuControlParameter` and of `Parameter`).
`ReadControls(missing)` is a reading in which some files cannot be read: the code takes
them for a limit of 0 or a governor without a name (`Nameless`). `SetControls` is
`Parameter::setValue` down to `writeControls`: the early return, the
differences to `own` (`Batch`), each file write succeeding or failing while the rest is
still tried, and the value kept only if none failed (`Remember`). A 0 that was read is
remembered, shown, sent back, and may be written, which the kernel raises to the lowest
limit (`Taken`). `UpdateConfig` is the read-back, `Restart` a restart of the service or of
the machine, `ChangedOutside` other tools, the kernel's limits, and the daemon, which may
come, go or change its profile at any time, since each reading and each write asks anew.
`doubted` is a history variable: the controls that, since the last read-back, something
outside changed, or a write of which another part failed. `RememberedIsInForce` leaves
those out one by one and speaks of all others, also between a failed write and the next
read-back. It does not say that a governor the daemon does not offer is in force: such a
write succeeds, is kept, shown and saved, and nothing applies it (`cpufiles.cpp:219-228`);
what it says with the daemon is that the first profile it offers is the one in force.

`gpus` is the hardware, `devices` is `mDevices`, `held` the list a client shows. Any
reading may lack controls or GPUs. `SetGpuControl` is the edit of one control in the
client's whole list and the service's write of it against a fresh reading; `Wish` is
what `QVariantMap::value` makes of a key the list lacks: a limit of 0 W, which becomes
the lowest of the range, or persistence mode off. `OnlyWhatIsShown` names these two moves
and allows no others to controls the list lacks. All GPUs have one range; a range that
cannot be read is, in the code, the limit in force, and the write then moves nothing, as
one that fails.

### AutoProfile

`mode` is the shift mode of the service; `shown`, `pending` and `queued` are its proxy
and its entry in the client's queue; `news` are change signals on their way. `Evaluate`
is `evaluate` where it is called with signals free (timer, settings, telemetry),
`ApplyRemote` where it runs inside the change signal of a remote value: there the mode
it sets is never queued, which the history variable `swallowed` records. `Confirm` is
the end of a confirmation, in which `evaluate` finds the proxy still pending.
`ChooseMode` is an edit by hand, whose signal runs `evaluate` before the edit is queued,
so that with the automatic profile on the mode wanted is the one sent. `ApplyProfile` is
a behaviour profile, which switches the automatic one first.

### GraphAnimation

`targets` and `display` are the vectors of bars, `frameTimer` the frame timer,
`visible` and `complete` the item's. A norm is a multiple of the 0.001 at which a bar
snaps to its target; `Advance` is a frame. A bar further away than that comes to lie
strictly between where it was and its target: it never arrives but by snapping, and
without the snap the timer would run for ever, which is the mutation `AnimationEnds` is
tried with. `missed` is a history variable: the targets moved without an animation, or one
ended early, and none has started since.

## 3. What is checked with TLC

| Run | Distinct states | Shows |
|---|---|---|
| `IoBuffer` | 6,192 | no accepted byte is lost by a failure at any point (`NothingForgotten`); a completed write leaves the last accepted byte everywhere (`LastWriteLands`); shadow and EC agree again and again (`SyncsAgain`); the queue implements `EcView` (`ImplementsView`) |
| `IoBufferOverlap` | violation | with overlapping blocks `LastWriteLands` fails (section 5) |
| `Registers` | 16,956 | saved settings are shown, in the shadow and in the EC (`SettingsHonoured`), a write changes no other parameter (`OnlyOwnWrites`), saved settings reach the EC (`SettingsReachEc`) |
| `RegistersShared` | violation | `OnlyOwnWrites` fails for the layout of register `0xbf` (section 5) |
| `ParameterClient` | 2.75 million | the last edit is the newest write on its way (`LastEditTravels`), stays on screen until the service has it (`EditStaysOnScreen`), and client and service agree when all is quiet (`Agreement`) |
| `ParameterClientSettles` | 210,000 | after the last disturbance the client comes to show, confirmed, what the service holds (`Settles`) |
| `ParameterClientOffered` | violation | a late reply makes a parameter valid that the profile does not have (section 5) |
| `FanTarget` | 168,608 | the user's curves and fan mode come back (`UserCurveReturns`), the generated curve is in force (`TargetInForce`), a fan mode that ignores it does not last (`TargetTakesOver`) |
| `Controls` | 529,811 | what CPU controls are differences to is shown, and in force but for the controls and governors the property names (`RememberedIsInForce`); writing one GPU control moves others only to what the client's list shows, or, where the list lacks them, to the lowest limit and persistence off (`OnlyWhatIsShown`); the mode shown is the firmware's (`ShownModeIsReal`) and the automatic one arrives (`AutoModeArrives`); an idle graph shows its targets (`IdleShowsTargets`) and animations end (`AnimationEnds`); for every target and temperature the fan curve is one the firmware accepts (`CurveWellFormed`), and a hotter side or a lower target never gets a weaker one (`HotterNeverWeaker`) |
| `DeviceProfiles` | 354,869 | the profile in force is the one a restart would select (`InForceIsSelection`), the list is the file's (`UserListIsOnDisk`), the policy is that of the profile (`PolicyOfProfile`) and keeps raw writes off the telemetry (`TelemetryNeverEdited`), the log is complete up to its bound (`AuditIsNewest`), the client shows what the service has (`ProfilesAgree`), file, list and parameters are one store of profiles (`ImplementsStore`), and the layouts of the built-in families are decodable, within reach of raw writes and without unknown overlaps (`LayoutsSound`) |
| `EcModule` | 61,120 | a reader never gets a value from before the last write of a cell (`ReadsAreCurrent`); the cache catches up with the EC whatever calls of the file, failures and chunks come between (`CacheCatchesUp`) |
| `EcModuleInterval` | violation | after an interval of 0 there are no more ticks (section 5) |

Each module has one type invariant, checked in its first run: `TypeOK`, for
`DeviceProfiles` with `EcMemory` `MemoryTypeOK`, and `ControlsTypeOK` for the parts of
`Controls`.

### Bounds

* `IoBuffer`: four bytes with values 0 and 1; a two-byte block, two single bytes and
  a block that runs over the end. Two entries can be queued, in flight and put back,
  one can then be replaced before the next attempt, and a loop can fail inside a block.
  The theorems remove the bounds.
* `Registers`: one register with a field of one bit and one of two bits, two of
  whose patterns are the code of no value. Interference between parameters needs a
  shared register and two fields; the theorems remove the bounds.
* `ParameterClient`: two parameters (so that batches are answered in part) and two
  values, `MaxEvents = 3` edits, publications, profile changes and crashes
  together; retries, expiry, restarts and replies are not bounded. The late-reply
  race needs three events; one parameter with five events was explored by hand
  (33 million states) without another. `Settles` uses one parameter: confirmations
  of different parameters share only the flush timer. The runs set `CHECK_DEADLOCK
  FALSE` because a client with no events left and nothing on its way is done.
* `FanTarget`: one side, two user curves, targets 60 and 80, temperatures 0 (no
  sensor), 40 and 90, both fan modes. At 40 degrees the two targets give the same
  speeds with different temperatures, which is where the comparison with the
  signature could go wrong. `apply` treats the sides alike; two sides were explored
  by hand to two million states, and the theorems cover any number.
* `Controls`: the curve has no bound but the program's, targets 50 to 95 and one byte
  of temperature, swept a degree at a time (`CHECK_DEADLOCK FALSE`: the sweep and the
  bounded parts end). Two CPUs with two frequencies, a governor the daemon does not
  offer and two profiles, one by another name; one CPU whose highest limit and governor may be
  unreadable; two changes from outside, restarts or failed writes together, so that a
  change or a restart can meet a half-written value, with any number of other writes,
  restores and read-backs. Two GPUs with three controls between
  them, limits of 1 to 2 W of which 9 W are asked, two changes from outside. Three
  modes, temperatures and charges on both sides of the thresholds, three disturbances
  of the automatic profile. Vectors of up to one bar of norms 0 to 4, four updates:
  bars are advanced one by one, and two vectors share the timer.
* `DeviceProfiles`: two machines, one known to the built-in profiles; three saves, two of
  which normalise to one name and one to none, and a removal; two edits and crashes
  together, so that one save can fail or be followed by a crash or another caller's. Raw
  writes inside a range, over its end, over the end of the memory and with arguments
  that are no bytes, three attempts with a log of two. `LayoutsSound` looks at
  configurations with every optional key of the two families of
  `supported-devices.json`. The deadlocks excused are the bounds'. The theorems remove
  the bounds.
* `EcModule`: two cells, of values 0 and 1, two writers, of the whole memory or of its
  last cell, with counts that run over the end; chunks 0 and 3, which the code makes 1
  and 2, so that a tick refreshes part of the memory or wraps round. A race over a cell
  needs two threads and the firmware. The theorems remove the bounds.

### Fairness

* `IoBuffer`, `Registers`: the poll timer fires again and again (weak fairness of
  `StartRead`); the writing, reading and restoring steps are strongly fair, that is
  a backend that is tried for ever is not refused for ever, and a restart or a
  failure in between does not starve them. `SettingsReachEc` also assumes that
  profiles are not applied for ever: each application makes the timers anew.
* `ParameterClient`: weak fairness of the client's and of the service's event
  loops, of timers once started, and of systemd's restart (`Restart=on-failure`,
  `service/msi-ec-service.service.in:9`). Edits, publications, crashes, profile changes are never assumed to happen.
* `FanTarget`: weak fairness of `Tick`, the repeating timers.
* `Controls`: weak fairness of the client's timers, replies and notifications
  (`ReadMode`, `Tick`, `WriteMode`, `EndConfirmation`, `Notified`) and of the frame
  timer (`OnFrame`). Users, firmware and losses are bounded in number and never assumed.
* `DeviceProfiles` states safety only, `ProfilesAgree` for the states in which nothing is
  on its way.
* `EcModule`: threads run, so a loop goes on and a call of the file ends (weak). A tick
  does not find the mutex taken every time, nor does the first refresh wait for it for
  ever (strong), and no cell is unreadable every time it is tried (strong). Nothing is
  assumed of writers, of the firmware or of the module's parameters; `CacheCatchesUp`
  names its premises itself: the module stays loaded, the interval is never 0 and the
  firmware at last leaves the EC alone.

## 4. What is proved with TLAPS

For every value of the constants that satisfies the assumptions:

| Theorem | Module | Statement |
|---|---|---|
| `TypeCorrect` (`MemoryTypeCorrect`, `ClientTypeCorrect`, `CpuTypeCorrect`, `GpuTypeCorrect`, `AutoTypeCorrect`, `GraphTypeCorrect`, `ControlsTypesHold`) | each proof module | the type invariant holds |
| `AcceptedWritesKept` | `IoBufferProofs` | `Spec => []NothingForgotten` |
| `LastAcceptedWriteLands` | `IoBufferProofs` | `Spec => LastWriteLands` |
| `QueueImplementsView` | `IoBufferProofs` | `Spec => ImplementsView` |
| `SavedSettingsHonoured` | `RegistersProofs` | `Spec => []SettingsHonoured` |
| `WritesDoNotInterfere` | `RegistersProofs` | `Spec => OnlyOwnWrites` |
| `EditsTravel` | `ParameterClientProofs` | `Spec => []LastEditTravels` |
| `EditsStay` | `ParameterClientProofs` | `Spec => []EditStaysOnScreen` |
| `ClientAgrees` | `ParameterClientProofs` | `Spec => []Agreement` |
| `UserCurveComesBack` | `FanTargetProofs` | `Spec => []UserCurveReturns` |
| `TargetCurveInForce` | `FanTargetProofs` | `Spec => []TargetInForce` |
| `WritesNotUndone` | `EcModuleProofs` | `Spec => []ReadsAreCurrent` |
| `FactoryAndPolicyAgree` | `DeviceProfilesProofs` | `SameReach(config)`, for every configuration |
| `AuditLogComplete` | `DeviceProfilesProofs` | `Spec => []AuditIsNewest` |
| `NothingUnsavedServed` | `DeviceProfilesProofs` | `Spec => []UserListIsOnDisk` |
| `SelectionInForce` | `DeviceProfilesProofs` | `Spec => []InForceIsSelection` |
| `PolicyFollowsProfile` | `DeviceProfilesProofs` | `Spec => []PolicyOfProfile` |
| `RawWritesSpareTelemetry` | `DeviceProfilesProofs` | `Spec => []TelemetryNeverEdited` |
| `ClientShowsProfiles` | `DeviceProfilesProofs` | `Spec => []ProfilesAgree` |
| `FileAndListAreOne` | `DeviceProfilesProofs` | `Spec => ImplementsStore` |
| `RegistersDecodable` | `LayoutProofs` | every register a parameter can write is decodable, for every configuration with `CodesFit` |
| `ApartIsSafe` | `LayoutProofs` | `TelemetrySafe(config)`, for every configuration with `Apart` |
| `SharedBitsShareAddress` | `LayoutProofs` | settings that own a common bit have keys with one address, for every configuration |
| `SettingsAreFields`, `SecondFamilyHasNoOverlaps` | `LayoutProofs` | the settings of a profile without overlaps are the disjoint, decodable fields `RegistersProofs` assumes; the second family is one |
| `KnownLayoutsSound` | `LayoutProofs` | `Spec => []LayoutsSound`, with the defaults of `supported-devices.json` |
| `RememberedAlwaysInForce` | `ControlsProofs` | `CpuSpec => []RememberedIsInForce` |
| `WritesWhatIsShown` | `ControlsProofs` | `GpuSpec => OnlyWhatIsShown` |
| `ShownIsReal` | `ControlsProofs` | `AutoSpec => []ShownModeIsReal` |
| `IdleGraphShowsTargets` | `ControlsProofs` | `GraphSpec => []IdleShowsTargets` |
| `CurveIsAccepted` | `ControlsProofs` | `Spec => []CurveWellFormed` |
| `HotterCools` | `ControlsProofs` | `Spec => HotterNeverWeaker` |

Each proof rests on an inductive invariant (`IInv`; `CpuInv`, `GpuInv`, `AutoInv`,
`GraphInv`; `EditInv`, `ScreenInv` and `AgreementInv` where the subject has a queue),
checked by TLC first, with lemmas for the initial states and for each step.

* **IoBufferProofs** assumes `DisjointAssumption`: blocks that share an address are
  the same block. That is so for parameters, each of which writes one byte; the run
  `IoBufferOverlap` shows what happens without it. `NothingForgotten` is not
  inductive: that a queued byte is the one owed follows because *every* queued byte
  equals the shadow (`Agrees`), because the entries are in one place at a time
  (`OnePlace`), and because queued entries keep their shape (`Fits`), so that a
  replaced entry covers what the old one covered.
* **RegistersProofs** assumes `DisjointFields` and `DecodableCodes`: no two
  parameters own a bit, and the codes of a parameter lie in its mask and differ. The
  layout of register `0xbf` violates it (`RegistersShared`). The invariant adds that
  the published values are those of the view, that a clean register agrees with the
  EC up to drift, and what the stages allow.
* **ParameterClientProofs** assumes that there are finitely many parameters
  (`ParamAssumption`) and that the value of a parameter without one, `Invalid`, and the
  absence of an entry, `None`, are told from values and entries (`NoneAssumption`, as the
  code does with `QVariant::isValid` and with `contains` of its maps). None of the three
  properties is inductive: each speaks of what is shown or on its way, and every message
  may still be followed by others. The queues are described by what they hold, at most
  once, last, or followed by what (`Has`, `Once`, `Ends`, `Followed`), and each callback
  is shown to keep such descriptions when it takes the head and appends its calls.
  `EditInv`: the last edit is queued, or the last write of its parameter in `requests`
  carries it, or none is left and the service was asked for it. `ScreenInv`: a write in
  flight has one request or one answer and never both, unless the client forgot a write
  (`stale`), so that an answer cannot be that of an older write. `AgreementInv`: whoever
  waits has an end of the waiting on its way (`Waiting`); a running service is connected
  or will be found (`Link`); every list or value that is no longer true is followed by
  news (`NewsFollow`); and a parameter that is not shown as it is will be asked for,
  answered or reported (`Settling`). When all queues are empty that leaves agreement.
* **FanTargetProofs** makes no assumption but those of `FanTarget`: the sides have
  names, `None` is no value, targets are in range. The generated curves are an
  arbitrary function, so nothing depends on `FanCurve`. `UserCurveReturns` is not
  inductive: in target mode the curves are the generated ones, and the user's come
  back because the *backup* matches the wish, which holds because the mode remembered
  is the mode published (`Steady`) and so no change of mode is pending between
  handlers. `TargetInForce` needs that a signature, if there is one, is the curve the
  parameters hold (`Signed`).
* **EcModuleProofs** assumes what the module declares: a size of at least one cell, 0
  among the bytes, and threads that differ. `ReadsAreCurrent` is about states in which
  the mutex is free; between a transaction and its assignment the shadow is behind. The
  invariant says that a thread in a loop holds the mutex (`Exclusion`), that a byte on
  its way to the shadow is one the cell has held since it was written (`InStep`), and
  that a cell whose shadow is older is the one a writer is just at (`Kept`).
* **DeviceProfilesProofs** assumes that callers' arguments are numbers, bytes or neither
  and that the defaults are not empty. `FactoryAndPolicyAgree` compares the two readings of
  a configuration key by key; with it `PolicyOfProfile` follows from
  `allowed = RangesOf(inForce)` (`PolicyInForce`). For `TelemetryNeverEdited` the cells
  edited so far are kept apart from the telemetry by the *same* ranges, because applying a
  profile forgets them, and a block that is allowed is allowed byte by byte
  (`BytesAllowed`). `InForceIsSelection` and `UserListIsOnDisk` need each other: what is
  applied is selected from the list in memory. That the log is the newest part of all
  attempts is a lemma about sequences (`NewestKept`). `ProfilesAgree` needs an invariant
  about both queues (`AgreementInv`): the notices of a service that comes and goes
  alternate (`Turns`), a running service is known to run or will be (`Link`), and for the
  list and for the active profile either a question is on its way, or every message that
  makes the client's belief false is followed by one that renews it, and there is such a
  one unless the belief is true (`Settling`). `FileAndListAreOne` maps every action to
  one of `ProfileStore` or to a stutter (`NextRefines`, one lemma per action before it).
  It needs `UserListIsOnDisk` with its invariant, since a failed edit reads the file
  again and the store says that this changes nothing unless the file is damaged; and that
  every edit on the bus is one a caller asked for (`Asked`), which `AgreementInv` carries
  through the queues.
* **LayoutProofs** says which profiles have the layouts that other theorems assume.
  `CodesFit`: the masks cover the codes the code fixes (bit 7 for the cooler boost, bit 4
  for the Fn key, no mask of 0 where on is the mask itself), the codes of the available
  modes are bytes that differ, and so do the two of the keyboard's backlight. `Apart`: no
  key of a setting and no fan curve lies on an address of the telemetry or of the
  firmware's name. Both are conditions on the configuration alone, which a team can check
  before a profile is shipped; `RawWritesSpareTelemetry` assumes what `ApartIsSafe`
  concludes. The bits of a number are taken apart one by one (`BitOf`), which is how the
  provers can reason about masks. `SettingsAreFields` carries this over to sets of bits,
  which is how `Registers` sees a byte: the codes are bytes (`KeysHaveFamilies`), bytes
  with the same bits are the same (`BitsTell`), and a key has one parameter at most
  (`FamilyMember`), so that two settings that overlap have two names. `KnownLayoutsSound` shows that the configurations of the
  families meet the conditions; that only the known pairs of keys share an address
  (`SharesKnown`) and `SharedBitsShareAddress` give the clause about overlaps. It assumes
  `Defaults = MCDefaults`, which is what the run sets.
* **ControlsProofs**: for the CPUs the invariant is the property with the types, and the
  argument goes control by control. A reading agrees with what it read (`ReadInForce`).
  After a write of which nothing failed (`AllWritten`) a control holds what was asked for,
  either because it differed from the remembered value and was written, or because it did
  not and, with no doubt, was in force. After one that failed in part (`PartlyWritten`) the
  memory is the old one, the controls that were written are in doubt, and all others,
  those whose write failed included, hold what they held. For the GPUs the invariant says that every list, a client's included,
  holds values a control of that kind may have (`Listing`), so that what is written for
  one is in its range once clamped (`ClampedIsReal`).
  For the automatic profile a client that is not connected has nothing on its way
  (`Connected`), an edit on its way marks the proxy (`Marked`), and the last
  notification on its way tells the mode of the firmware (`LastIsNews`), which is why
  the last one delivered leaves the right mode. A frame that changes nothing stops the
  timer of the graph; that bars at their targets stay there is the lemma `ArrivedStays`. The loops of the fan curve are
  functions recursive on an index of at most 7: `SpeedLoopEnds` and `TempLoopEnds` give
  the unrolled loop as a function that satisfies the equation, from which `RisingSteps`
  and `TempSteps` read off one pass after the other. For the targets the service accepts
  no temperature is clamped (`TempsUnclamped`), so `WellFormed` is a matter of
  `RisingRises` and of the floor of the last two speeds; `RisingGrows` carries the
  comparison of two curves from the bucket (`BucketGrows`) through every pass.
  `HotterCurve` says it for any two targets and temperatures so ordered, the property for
  a degree at a time. A step of `MCControls` is one component's and leaves the others'
  variables alone (`ControlsSteps`), so the conjunction of the five invariants is one.

What stays with TLC: every liveness property (`SyncsAgain`, `SettingsReachEc`,
`Settles`, `TargetTakesOver`, `CacheCatchesUp`, `AutoModeArrives`, `AnimationEnds`), since
fairness and `ENABLED` are beyond the prover. Every other property of a passing run, the
two refinements included, is a theorem. The refinements are of safety: `EcView` and
`ProfileStore` are implemented step by step, and promise no progress of their own.

## 5. Disagreements found

1. **Overlapping writes** (`IoBufferOverlap`, `service/iobuffer.cpp:34`). Writes are
   keyed by start address and sent in ascending order. A block whose first byte is
   written again loses its rest, and a byte inside a queued block that is written
   again and then covered by a new block is sent last, though it is older.
2. **Register `0xbf`** (`RegistersShared`, `service/ecparameterfactory.cpp:294`).
   `UsbPowerShareEc` has no mask and owns the byte in which 13 of the 21 built-in
   profiles place `FnSuperSwapEc`: a write of one changes the other.
3. **Late batch reply** (`ParameterClientOffered`, `client/parameterclient.cpp:425`).
   A reply to a batch sent before a profile change takes an entry that is no longer
   in the map, expects an invalid value, has it confirmed by the read of a parameter
   that is not registered, and marks the parameter valid.
4. **Interval 0** (`EcModuleInterval`, `module/msiecmodule.c:45`). The parameter can be
   written at run time and its description says that 0 disables the periodic refresh.
   A tick that reads 0 is the last one: with any later interval there is no refresh
   until the module is loaded again, and a file that is only read shows old values.

Losses that no document rules out are listed as hazards with a note, and the
properties leave them out by name: settings that equal the published value are not
saved (`parameter.cpp:31`); a restart in target mode, or target mode chosen before
the parameters are published, replaces the backup of the user's curves
(`fantargetcontroller.cpp:43`, `:111`); a mode set by the automatic profile inside a
notification is shown and never sent (`autoprofilecontroller.cpp:118`); a governor the
power-profiles daemon does not offer is kept, shown and saved, and nothing applies it
(`cpufiles.cpp:221`); a limit that could not be read is remembered, saved and written as
0 (`cpufiles.cpp:186`); a removed
profile stays in force when no other matches (`deviceprofileservice.cpp:82`); a user
file that could not be read is replaced by the next save (`supportconfig.cpp:224`).

## 6. What is left out

* **Abstracted in the modules.** Texts, logging, D-Bus marshalling; time, but for
  the order of timers; the values of parameters beyond what their registers tell
  apart; two-byte big-endian and read-only registers; the simulator's telemetry; the
  composite CPU and GPU configurations of the client and their tolerant comparison.
  A crash inside one handler (between two entries of the settings file) is finer
  than the actions.
  In `DeviceProfiles` the sanitising of a profile's values; in `CpuControl` and
  `GpuControl` the parsing of what sysfs and tools say (not that it may be missing), and
  a range of power limits for each GPU (all have one).
* **Service health.** The watchdog is one repeating timer that notifies systemd. What
  could go wrong is a matter of durations (tools and D-Bus calls that block the event
  loop for longer than the deadline of 30 s): the models have no clock.
* **Diagnostics, memory, telemetry history and settings clients.** One call each, a
  list of 360 samples, files written and read.
* **The rest of the user interface** (layout, painting, QML, translations), the doctor,
  the script that generates profiles, packaging: presentation or one-shot I/O.
* **`cpuparameter.cpp`**, the CPU usage with the same controls in one parameter, which
  clients write only where `CpuControlConfig` is missing; the parsing of sysfs files and
  of the output of tools.

## 7. Plan

Done, in this order, the most important behaviour first: `EcView` and `IoBuffer`,
`Registers` on top of `EcView`, `ParameterClient`, `FanCurve`, `FanTarget`, `EcModule`
with the proofs of `IoBuffer`, `Registers`, `FanTarget` and `EcModule`; then
`ProfileLayout`, `EcMemory`, `DeviceProfiles`, `CpuControl`, `GpuControl`, `AutoProfile`,
`GraphAnimation` and the proofs of all of them; then the proofs of `ParameterClient`, of
`ProfilesAgree` and of `FanCurve`; then `ProfileStore` with its refinement, and which
configurations have sound layouts (`LayoutProofs`).

Left, in order:

1. Two-byte registers (fan speeds) and the software parameters in `Registers`.
2. Proofs: that the curves in force in target mode are well formed, by composing
   `FanTarget` with `FanCurve` (today `TargetInForce` and `CurveWellFormed` are separate).

## 8. Running it

    tlc -config IoBuffer.cfg MCIoBuffer.tla
    tlapm IoBufferProofs.tla

and likewise for the other runs; `PROJECT.json` lists which module each run checks,
which definition models which lines, and for each property a mutation of the code
that breaks it.
