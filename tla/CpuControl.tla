----------------------------- MODULE CpuControl -----------------------------
(***************************************************************************)
(* The CPU controls of the service (service/cpucontrolparameter.cpp over   *)
(* cpufiles.cpp and parameter.cpp): frequency limits and governors of all  *)
(* CPUs as one value, written as the differences to the value the service  *)
(* remembers, file by file, and read back later.  With a power-profiles    *)
(* daemon its profile stands in for the governors.  A file that cannot be  *)
(* read counts as a limit of 0 or a governor without a name.               *)
(***************************************************************************)
EXTENDS Integers

CONSTANTS Cpu,        \* the CPUs, in order
          Freq,       \* frequencies a client asks for
          Lowest, Highest, \* those of the hardware
          Governor,   \* names of governors and profiles
          Profiles,   \* those the daemon offers
          Normal,     \* normalizePowerProfile
          Unreadable, \* bound: the files a reading may miss
          NoCpuConfig,   \* an invalid value
          MaxOutside  \* bound: changes from outside, restarts and failures

ASSUME CpuAssumption == Cpu \subseteq Nat \ {0} /\ 1 \in Cpu
ASSUME FreqAssumption == Lowest \in Freq /\ Highest \in Freq
(* The governor read from a file that cannot be read. *)
Nameless == ""
(* A profile the daemon offers has a name, and is known by that name. *)
ASSUME ProfilesAssumption ==
    /\ Profiles \subseteq Governor /\ Nameless \notin Profiles
    /\ Normal \in [Governor \union {Nameless} -> Governor \union {Nameless}]
    /\ \A p \in Profiles : Normal[p] = p

(* What the files hold, and what may be read, remembered and saved of them. *)
CpuFiles == [Cpu -> [min : Freq, max : Freq, governor : Governor]]
CpuConfig == [Cpu -> [min : Freq \union {0}, max : Freq \union {0}, governor : Governor \union {Nameless}]]
ASSUME ConfigAssumption == NoCpuConfig \notin CpuConfig

VARIABLES files,     \* sysfs: the limits and governor of every CPU
          daemon,    \* the power-profiles daemon: there or not, its profile
          own,       \* mValue of CpuControlParameter
          published, \* mValue of Parameter, the value clients are shown
          savedCpu,  \* the settings file
          restoring, \* the zero-delay restore timer is pending
          doubted,   \* history: the controls changed since the last read-back
                     \* by something outside or by a write that failed in part
          outside    \* counted

cpuVars == <<files, daemon, own, published, savedCpu, restoring, doubted, outside>>

Limits == {"min", "max"}
Fields == Limits \union {"governor"}
SetProfile == <<0, "profile">>  \* the control of the daemon

-----------------------------------------------------------------------------
(* readControls, when the files in missing cannot be read: the daemon's      *)
(* profile is shown as every CPU's governor.                                  *)
ReadControls(missing) ==
    LET Frequency(c, f) == IF <<c, f>> \in missing THEN 0 ELSE files[c][f]
    IN  [c \in Cpu |-> [min |-> Frequency(c, "min"), max |-> Frequency(c, "max"),
                        governor |-> CASE daemon.there -> daemon.profile
                                       [] ~daemon.there /\ <<c, "governor">> \in missing -> Nameless
                                       [] OTHER -> files[c].governor]]

(* The profile of the first CPU whose governor the daemon offers, if any. *)
Offered(desired) == {c \in Cpu : Normal[desired[c].governor] \in Profiles}
Wanted(desired) ==
    {Normal[desired[c].governor] : c \in {f \in Offered(desired) : \A g \in Offered(desired) : f <= g}}

(* The files that differ from the remembered value; a governor without a     *)
(* name is never written.                                                    *)
FileWrites(desired) ==
    {w \in Cpu \X Fields :
        /\ desired[w[1]][w[2]] # own[w[1]][w[2]]
        /\ w[2] = "governor" => ~daemon.there /\ desired[w[1]].governor # Nameless}
ProfileWrites(desired) ==
    IF daemon.there /\ Wanted(desired) \ {daemon.profile} # {} THEN {SetProfile} ELSE {}

Outside == outside < MaxOutside /\ outside' = outside + 1
Batch(desired) == FileWrites(desired) \union ProfileWrites(desired)

(* The kernel raises a limit of 0 to the lowest of the hardware. *)
Taken(f, value) == IF f \in Limits /\ value = 0 THEN Lowest ELSE value
(* writeControls: every write is tried, whatever became of those before it; *)
(* one that fails leaves its control as it was.                             *)
WriteControls(desired, failed) ==
    LET done == Batch(desired) \ failed
        after(c, f) == IF <<c, f>> \in done THEN Taken(f, desired[c][f]) ELSE files[c][f]
    IN  /\ files' = [c \in Cpu |-> [min |-> after(c, "min"), max |-> after(c, "max"),
                                    governor |-> after(c, "governor")]]
        /\ daemon' = IF SetProfile \in done
                     THEN [daemon EXCEPT !.profile = CHOOSE p \in Wanted(desired) : TRUE]
                     ELSE daemon

RememberAll(desired, failed) == \* mutant: the value is kept although a write failed
    own' = desired /\ published' = desired /\ savedCpu' = desired
(* writeValue and setValue, after the writes. *)
Remember(desired, failed) ==
    IF failed = {} THEN own' = desired /\ published' = desired /\ savedCpu' = desired
                   ELSE UNCHANGED <<own, published, savedCpu>>

(* Parameter::setValue with writeValue. *)
SetControls(desired) ==
    \/ desired = published /\ UNCHANGED <<files, daemon, own, published, savedCpu, doubted, outside>>
    \/ /\ desired # published
       /\ \E failed \in SUBSET Batch(desired) :
            /\ WriteControls(desired, failed) /\ Remember(desired, failed)
            /\ IF failed = {}
               THEN doubted' = doubted \ (Batch(desired) \union {SetProfile}) /\ UNCHANGED outside
               ELSE doubted' = doubted \union (Batch(desired) \ failed) /\ Outside

-----------------------------------------------------------------------------
(* The kernel starts with the limits of the hardware and a default governor. *)
AtBoot == {[c \in Cpu |-> [min |-> Lowest, max |-> Highest, governor |-> g]] : g \in Governor \ Profiles}

CpuInit ==
    /\ files \in AtBoot
    /\ daemon \in [there : BOOLEAN, profile : Profiles]
    /\ own \in {ReadControls(missing) : missing \in SUBSET Unreadable} /\ published = own
    /\ savedCpu = NoCpuConfig
    /\ restoring = FALSE /\ doubted = {}
    /\ outside = 0

(* setCpuScalingMaxFrequencies and setCpuGovernor of the client send the    *)
(* whole value they were shown with one kind of control changed.            *)
MaxFrequencies(shown, freq) == [c \in Cpu |-> [shown[c] EXCEPT !.max = freq[c]]]
OneGovernor(shown, g) == [c \in Cpu |-> [shown[c] EXCEPT !.governor = g]]

WriteFrequencies == /\ \E freq \in [Cpu -> Freq] : SetControls(MaxFrequencies(published, freq))
                    /\ UNCHANGED restoring
WriteGovernor == /\ \E g \in Governor : SetControls(OneGovernor(published, g))
                 /\ UNCHANGED restoring

(* The restore of the saved value at the start. *)
RestoreControls ==
    /\ restoring /\ restoring' = FALSE
    /\ \/ savedCpu # NoCpuConfig /\ SetControls(savedCpu)
       \/ savedCpu = NoCpuConfig /\ UNCHANGED <<files, daemon, own, published, savedCpu, doubted, outside>>

(* updateConfig, from the periodic timer and the one started by a write. *)
UpdateConfig ==
    /\ own' \in {ReadControls(missing) : missing \in SUBSET Unreadable} /\ published' = own'
    /\ doubted' = {}
    /\ UNCHANGED <<files, daemon, savedCpu, restoring, outside>>

(* Tools, the kernel's thermal limits, the daemon's other clients; the daemon *)
(* itself comes or goes.                                                      *)
FileChanged ==
    /\ \E c \in Cpu :
          \/ /\ \E freq \in Freq : files' = [files EXCEPT ![c].max = freq]
             /\ doubted' = doubted \union {<<c, "max">>}
          \/ /\ \E g \in Governor : files' = [files EXCEPT ![c].governor = g]
             /\ doubted' = doubted \union {<<c, "governor">>}
    /\ UNCHANGED daemon
ProfileChanged ==
    /\ \E p \in Profiles : daemon' = [daemon EXCEPT !.profile = p]
    /\ doubted' = doubted \union {SetProfile} /\ UNCHANGED files
DaemonChanged ==
    /\ daemon' = [daemon EXCEPT !.there = ~daemon.there]
    /\ doubted' = doubted \union {SetProfile} \union (Cpu \X {"governor"})
    /\ UNCHANGED files
ChangedOutside ==
    /\ Outside
    /\ FileChanged \/ ProfileChanged \/ DaemonChanged
    /\ UNCHANGED <<own, published, savedCpu, restoring>>

(* The service starts again, alone or with the machine: then the controls   *)
(* are as at boot, and the daemon is there or not.                          *)
Restart ==
    /\ Outside
    /\ \/ files' \in AtBoot /\ daemon' \in [there : BOOLEAN, profile : Profiles]
       \/ UNCHANGED <<files, daemon>>
    /\ \E missing \in SUBSET Unreadable : own' = ReadControls(missing)'
    /\ published' = own' /\ restoring' = TRUE /\ doubted' = {}
    /\ UNCHANGED savedCpu

CpuNext == \/ WriteFrequencies \/ WriteGovernor \/ RestoreControls
           \/ UpdateConfig \/ ChangedOutside \/ Restart
CpuSpec == CpuInit /\ [][CpuNext]_cpuVars

-----------------------------------------------------------------------------
CpuTypeOK ==
    /\ files \in CpuFiles
    /\ daemon \in [there : BOOLEAN, profile : Profiles]
    /\ own \in CpuConfig /\ published \in CpuConfig
    /\ savedCpu \in CpuConfig \union {NoCpuConfig}
    /\ restoring \in BOOLEAN
    /\ doubted \subseteq (Cpu \X Fields) \union {SetProfile}

(* Only differences to the remembered value are written, so what is remembered *)
(* must be in force, and be what clients are shown: control by control, also   *)
(* when other writes of the same value failed (cpucontrolparameter.cpp:22-35), *)
(* but for a control changed since the last read-back from outside or by a     *)
(* write of which another part failed.  A file that could not be read is       *)
(* remembered as 0 or without a name.  With the daemon, in force is the        *)
(* profile of the first CPU whose governor it offers: another governor is      *)
(* remembered, shown and saved, and nothing applies it (cpufiles.cpp:219-228). *)
RememberedIsInForce ==
    /\ own = published
    /\ \A c \in Cpu, f \in Limits : <<c, f>> \notin doubted => own[c][f] \in {files[c][f], 0}
    /\ ~daemon.there => \A c \in Cpu : <<c, "governor">> \notin doubted =>
                                           own[c].governor \in {files[c].governor, Nameless}
    /\ daemon.there /\ SetProfile \notin doubted => Wanted(own) \subseteq {daemon.profile}
=============================================================================
