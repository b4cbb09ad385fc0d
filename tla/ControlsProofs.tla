---------------------------- MODULE ControlsProofs ----------------------------
(***************************************************************************)
(* Proofs about the components that MCControls puts side by side: the CPU  *)
(* and the GPU controls, the automatic profiles, the animation of the graph*)
(* and the generated fan curve.  They share no state and have an invariant *)
(* each, for every set of CPUs, GPUs, modes and values, every range of the *)
(* telemetry and every number of events.                                   *)
(***************************************************************************)
EXTENDS MCControls, SequenceTheorems, TLAPS

(* The CPU controls. *)
CpuInv == CpuTypeOK /\ RememberedIsInForce

Daemon == [there : BOOLEAN, profile : Profiles]

(* ReadControls and RememberedIsInForce with the state as an argument: the     *)
(* files, the daemon, the value remembered and the controls in doubt.          *)
ReadOf(f, d, missing) ==
    LET Frequency(c, k) == IF <<c, k>> \in missing THEN 0 ELSE f[c][k]
    IN  [c \in Cpu |-> [min |-> Frequency(c, "min"), max |-> Frequency(c, "max"),
                        governor |-> CASE d.there -> d.profile
                                       [] ~d.there /\ <<c, "governor">> \in missing -> Nameless
                                       [] OTHER -> f[c].governor]]
InForce(f, d, v, doubt) ==
    /\ \A c \in Cpu, k \in Limits : <<c, k>> \notin doubt => v[c][k] \in {f[c][k], 0}
    /\ ~d.there => \A c \in Cpu : <<c, "governor">> \notin doubt =>
                                      v[c].governor \in {f[c].governor, Nameless}
    /\ d.there /\ SetProfile \notin doubt => Wanted(v) \subseteq {d.profile}

-----------------------------------------------------------------------------
LEMMA ReadOfState ==
    ASSUME NEW missing
    PROVE  /\ ReadControls(missing) = ReadOf(files, daemon, missing)
           /\ ReadControls(missing)' = ReadOf(files', daemon', missing)
BY DEF ReadControls, ReadOf

LEMMA InForceOfState ==
    /\ RememberedIsInForce <=> own = published /\ InForce(files, daemon, own, doubted)
    /\ RememberedIsInForce' <=> own' = published' /\ InForce(files', daemon', own', doubted')
BY DEF RememberedIsInForce, InForce, Wanted, Offered

LEMMA AtBootType ==
    ASSUME NEW f \in AtBoot PROVE f \in CpuFiles
BY FreqAssumption DEF AtBoot, CpuFiles

(* Of several CPUs only one is the first. *)
LEMMA OneWanted ==
    ASSUME NEW v, NEW p \in Wanted(v), NEW q \in Wanted(v)
    PROVE  p = q
<1>1. PICK c \in Offered(v) : p = Normal[v[c].governor] /\ \A g \in Offered(v) : c <= g
  BY DEF Wanted
<1>2. PICK e \in Offered(v) : q = Normal[v[e].governor] /\ \A g \in Offered(v) : e <= g
  BY DEF Wanted
<1>3. c \in Nat /\ e \in Nat
  BY CpuAssumption DEF Offered
<1>4. c <= e /\ e <= c
  BY <1>1, <1>2
<1> QED
  BY <1>1, <1>2, <1>3, <1>4

LEMMA WantedType ==
    ASSUME NEW v PROVE Wanted(v) \subseteq Profiles
BY DEF Wanted, Offered

(* A reading has the types of a value, and agrees with what it read. *)
LEMMA ReadInForce ==
    ASSUME NEW f \in CpuFiles, NEW d \in Daemon, NEW missing
    PROVE  /\ ReadOf(f, d, missing) \in CpuConfig
           /\ InForce(f, d, ReadOf(f, d, missing), {})
<1> DEFINE v == ReadOf(f, d, missing)
           Entry == [min : Freq \union {0}, max : Freq \union {0}, governor : Governor \union {Nameless}]
<1>1. ASSUME NEW c \in Cpu
      PROVE  /\ v[c].min = (IF <<c, "min">> \in missing THEN 0 ELSE f[c].min)
             /\ v[c].max = (IF <<c, "max">> \in missing THEN 0 ELSE f[c].max)
             /\ d.there => v[c].governor = d.profile
             /\ ~d.there => v[c].governor \in {f[c].governor, Nameless}
  BY DEF ReadOf
<1>2. ASSUME NEW c \in Cpu
      PROVE  f[c].min \in Freq /\ f[c].max \in Freq /\ f[c].governor \in Governor
  BY DEF CpuFiles
<1>3. d.profile \in Profiles
  BY DEF Daemon
<1>4. d.profile \in Governor
  BY <1>3, ProfilesAssumption
<1>5. ASSUME NEW c \in Cpu PROVE v[c] \in Entry
  <2>1. v[c].min \in Freq \union {0} /\ v[c].max \in Freq \union {0}
    BY <1>1, <1>2
  <2>2. v[c].governor \in Governor \union {Nameless}
    BY <1>1, <1>2, <1>4
  <2> DEFINE low == v[c].min
             high == v[c].max
             name == v[c].governor
  <2>3. v[c] = [min |-> low, max |-> high, governor |-> name]
    BY DEF ReadOf
  <2> HIDE DEF low, high, name, v
  <2>4. low \in Freq \union {0} /\ high \in Freq \union {0} /\ name \in Governor \union {Nameless}
    BY <2>1, <2>2 DEF low, high, name
  <2> QED
    BY <2>3, <2>4
<1>6. v = [c \in Cpu |-> v[c]]
  BY DEF ReadOf
<1> HIDE DEF v
<1>7. v \in CpuConfig
  BY <1>5, <1>6 DEF CpuConfig
<1>8. ASSUME NEW c \in Cpu, NEW k \in Limits PROVE v[c][k] \in {f[c][k], 0}
  BY <1>1 DEF Limits
<1>9. ASSUME d.there PROVE Wanted(v) \subseteq {d.profile}
  <2>1. ASSUME NEW p \in Wanted(v) PROVE p = d.profile
    <3>1. PICK c \in Cpu : p = Normal[v[c].governor]
      BY DEF Wanted, Offered
    <3> QED
      BY <1>1, <1>3, <1>9, <3>1, ProfilesAssumption
  <2> QED
    BY <2>1
<1>10. InForce(f, d, v, {})
  BY <1>1, <1>8, <1>9 DEF InForce
<1> QED
  BY <1>7, <1>10 DEF v

-----------------------------------------------------------------------------
(* What a write leaves in every control. *)
LEMMA ProfileIsNoFile ==
    /\ \A w \in Cpu \X Fields : w # SetProfile
    /\ \A desired : SetProfile \in Batch(desired) <=> SetProfile \in ProfileWrites(desired)
    /\ \A desired : \A w \in Cpu \X Fields : w \in Batch(desired) <=> w \in FileWrites(desired)
<1>1. \A w \in Cpu \X Fields : w # SetProfile
  BY CpuAssumption DEF SetProfile
<1> QED
  BY <1>1 DEF Batch, FileWrites, ProfileWrites

LEMMA WrittenControls ==
    ASSUME files \in CpuFiles, NEW desired \in CpuConfig, NEW failed, WriteControls(desired, failed)
    PROVE  /\ files' \in CpuFiles
           /\ \A c \in Cpu, f \in Fields :
                 files'[c][f] = IF <<c, f>> \in Batch(desired) \ failed
                                THEN Taken(f, desired[c][f]) ELSE files[c][f]
<1> DEFINE After(c, f) == IF <<c, f>> \in Batch(desired) \ failed
                          THEN Taken(f, desired[c][f]) ELSE files[c][f]
<1>1. files' = [c \in Cpu |-> [min |-> After(c, "min"), max |-> After(c, "max"),
                               governor |-> After(c, "governor")]]
  BY DEF WriteControls
<1>2. ASSUME NEW c \in Cpu
      PROVE  After(c, "min") \in Freq /\ After(c, "max") \in Freq
  BY FreqAssumption DEF CpuFiles, CpuConfig, Taken, Limits
<1>3. ASSUME NEW c \in Cpu
      PROVE  After(c, "governor") \in Governor
  <2>1. CASE <<c, "governor">> \in Batch(desired) \ failed
    <3>1. <<c, "governor">> \in FileWrites(desired)
      BY <2>1, ProfileIsNoFile DEF Fields
    <3>2. desired[c].governor # Nameless
      BY <3>1 DEF FileWrites
    <3>3. desired[c].governor \in Governor
      BY <3>2 DEF CpuConfig
    <3>4. Taken("governor", desired[c].governor) = desired[c].governor
      BY DEF Taken, Limits
    <3> QED
      BY <2>1, <3>3, <3>4
  <2>2. CASE <<c, "governor">> \notin Batch(desired) \ failed
    BY <2>2 DEF CpuFiles
  <2> QED
    BY <2>1, <2>2
<1>4. \A c \in Cpu, f \in Fields : files'[c][f] = After(c, f)
  BY <1>1 DEF Fields, Limits
<1> HIDE DEF After
<1>5. files' \in CpuFiles
  BY <1>1, <1>2, <1>3 DEF CpuFiles
<1> QED
  BY <1>4, <1>5 DEF After

LEMMA WrittenProfile ==
    ASSUME daemon \in Daemon, NEW desired, NEW failed, WriteControls(desired, failed)
    PROVE  /\ daemon' \in Daemon /\ daemon'.there = daemon.there
           /\ SetProfile \notin Batch(desired) \ failed => daemon' = daemon
           /\ SetProfile \in Batch(desired) \ failed => Wanted(desired) \subseteq {daemon'.profile}
<1>1. CASE SetProfile \in Batch(desired) \ failed
  <2>1. SetProfile \in ProfileWrites(desired)
    BY <1>1, ProfileIsNoFile
  <2>2. Wanted(desired) # {}
    BY <2>1 DEF ProfileWrites
  <2> DEFINE q == CHOOSE p \in Wanted(desired) : TRUE
  <2>3. q \in Wanted(desired)
    BY <2>2
  <2>4. daemon' = [daemon EXCEPT !.profile = q]
    BY <1>1 DEF WriteControls
  <2> HIDE DEF q
  <2>5. q \in Profiles /\ Wanted(desired) \subseteq {q}
    BY <2>3, WantedType, OneWanted
  <2> QED
    BY <1>1, <2>4, <2>5 DEF Daemon
<1>2. CASE SetProfile \notin Batch(desired) \ failed
  BY <1>2 DEF WriteControls
<1> QED
  BY <1>1, <1>2

(* A write all of whose parts succeed leaves what was asked for in force. *)
LEMMA AllWritten ==
    ASSUME files \in CpuFiles, daemon \in Daemon, InForce(files, daemon, own, doubted),
           NEW desired \in CpuConfig, WriteControls(desired, {})
    PROVE  InForce(files', daemon', desired, doubted \ (Batch(desired) \union {SetProfile}))
<1> DEFINE left == doubted \ (Batch(desired) \union {SetProfile})
<1>1. \A c \in Cpu, f \in Fields :
         files'[c][f] = IF <<c, f>> \in Batch(desired) THEN Taken(f, desired[c][f]) ELSE files[c][f]
  <2>1. Batch(desired) \ {} = Batch(desired)
    OBVIOUS
  <2>2. \A c \in Cpu, f \in Fields :
           files'[c][f] = IF <<c, f>> \in Batch(desired) \ {}
                          THEN Taken(f, desired[c][f]) ELSE files[c][f]
    BY WrittenControls
  <2> QED
    BY <2>1, <2>2
<1>2. daemon'.there = daemon.there
  BY WrittenProfile
<1>3. ASSUME NEW c \in Cpu, NEW f \in Limits, <<c, f>> \notin left
      PROVE  desired[c][f] \in {files'[c][f], 0}
  <2>1. <<c, f>> \in Cpu \X Fields /\ <<c, f>> # SetProfile
        /\ (<<c, f>> \in Batch(desired) <=> <<c, f>> \in FileWrites(desired))
    BY ProfileIsNoFile DEF Fields
  <2>2. CASE <<c, f>> \in Batch(desired)
    BY <1>1, <2>1, <2>2 DEF Taken
  <2>3. CASE <<c, f>> \notin Batch(desired)
    <3>1. f # "governor"
      BY DEF Limits
    <3>2. desired[c][f] = own[c][f]
      BY <2>1, <2>3, <3>1 DEF FileWrites
    <3>3. <<c, f>> \notin doubted
      BY <1>3, <2>1, <2>3
    <3>4. own[c][f] \in {files[c][f], 0}
      BY <3>3 DEF InForce
    <3>5. files'[c][f] = files[c][f]
      BY <1>1, <2>1, <2>3
    <3> QED
      BY <3>2, <3>4, <3>5
  <2> QED
    BY <2>2, <2>3
<1>4. ASSUME ~daemon'.there, NEW c \in Cpu, <<c, "governor">> \notin left
      PROVE  desired[c].governor \in {files'[c].governor, Nameless}
  <2>1. <<c, "governor">> \in Cpu \X Fields /\ <<c, "governor">> # SetProfile
        /\ (<<c, "governor">> \in Batch(desired) <=> <<c, "governor">> \in FileWrites(desired))
    BY ProfileIsNoFile DEF Fields
  <2>2. CASE <<c, "governor">> \in Batch(desired)
    <3>1. files'[c].governor = Taken("governor", desired[c].governor)
      BY <1>1, <2>1, <2>2
    <3> QED
      BY <3>1 DEF Taken, Limits
  <2>3. CASE <<c, "governor">> \notin Batch(desired)
    <3>1. desired[c].governor = own[c].governor \/ desired[c].governor = Nameless
      BY <1>2, <1>4, <2>1, <2>3 DEF FileWrites
    <3>2. <<c, "governor">> \notin doubted
      BY <1>4, <2>1, <2>3
    <3>3. own[c].governor \in {files[c].governor, Nameless}
      BY <1>2, <1>4, <3>2 DEF InForce
    <3>4. files'[c].governor = files[c].governor
      BY <1>1, <2>1, <2>3
    <3> QED
      BY <3>1, <3>3, <3>4
  <2> QED
    BY <2>2, <2>3
<1>5. ASSUME daemon'.there PROVE Wanted(desired) \subseteq {daemon'.profile}
  <2>1. CASE SetProfile \in Batch(desired)
    BY <2>1, WrittenProfile
  <2>2. CASE SetProfile \notin Batch(desired)
    <3>1. daemon' = daemon
      BY <2>2, WrittenProfile
    <3>2. Wanted(desired) \ {daemon.profile} = {}
      BY <1>2, <1>5, <2>2, ProfileIsNoFile DEF ProfileWrites
    <3> QED
      BY <3>1, <3>2
  <2> QED
    BY <2>1, <2>2
<1> HIDE DEF left
<1>6. InForce(files', daemon', desired, left)
  BY <1>3, <1>4, <1>5 DEF InForce
<1> QED
  BY <1>6 DEF left

(* A write of which a part fails puts in doubt the controls it did write. *)
LEMMA PartlyWritten ==
    ASSUME files \in CpuFiles, daemon \in Daemon, InForce(files, daemon, own, doubted),
           NEW desired \in CpuConfig, NEW failed, WriteControls(desired, failed)
    PROVE  InForce(files', daemon', own, doubted \union (Batch(desired) \ failed))
<1> DEFINE done == Batch(desired) \ failed
<1>1. \A c \in Cpu, f \in Fields : <<c, f>> \notin done => files'[c][f] = files[c][f]
  BY WrittenControls
<1>2. daemon'.there = daemon.there /\ (SetProfile \notin done => daemon' = daemon)
  BY WrittenProfile
<1> HIDE DEF done
<1>3. ASSUME NEW c \in Cpu, NEW f \in Limits, <<c, f>> \notin doubted \union done
      PROVE  own[c][f] \in {files'[c][f], 0}
  BY <1>1, <1>3 DEF InForce, Fields
<1>4. ASSUME ~daemon'.there, NEW c \in Cpu, <<c, "governor">> \notin doubted \union done
      PROVE  own[c].governor \in {files'[c].governor, Nameless}
  BY <1>1, <1>2, <1>4 DEF InForce, Fields
<1>5. ASSUME daemon'.there, SetProfile \notin doubted \union done
      PROVE  Wanted(own) \subseteq {daemon'.profile}
  BY <1>2, <1>5 DEF InForce
<1>6. InForce(files', daemon', own, doubted \union done)
  BY <1>3, <1>4, <1>5 DEF InForce
<1> QED
  BY <1>6 DEF done

(* setValue keeps the invariant. *)
LEMMA SetControlsKeeps ==
    ASSUME CpuInv, NEW desired \in CpuConfig, SetControls(desired), restoring' \in BOOLEAN
    PROVE  CpuInv'
<1>0. /\ files \in CpuFiles /\ daemon \in Daemon /\ own \in CpuConfig /\ published \in CpuConfig
      /\ savedCpu \in CpuConfig \union {NoCpuConfig} /\ doubted \subseteq (Cpu \X Fields) \union {SetProfile}
      /\ own = published /\ InForce(files, daemon, own, doubted)
  BY InForceOfState DEF CpuInv, CpuTypeOK, Daemon
<1>1. CASE UNCHANGED <<files, daemon, own, published, savedCpu, doubted>>
  <2>1. InForce(files', daemon', own', doubted')
    BY <1>0, <1>1
  <2> QED
    BY <1>0, <1>1, <2>1, InForceOfState DEF CpuInv, CpuTypeOK, Daemon
<1>2. ASSUME NEW failed \in SUBSET Batch(desired), WriteControls(desired, failed),
             Remember(desired, failed),
             doubted' = IF failed = {} THEN doubted \ (Batch(desired) \union {SetProfile})
                                       ELSE doubted \union (Batch(desired) \ failed)
      PROVE  CpuInv'
  <2>1. files' \in CpuFiles /\ daemon' \in Daemon
    BY <1>0, <1>2, WrittenControls, WrittenProfile
  <2>2. Batch(desired) \subseteq (Cpu \X Fields) \union {SetProfile}
    BY DEF Batch, FileWrites, ProfileWrites
  <2>3. doubted' \subseteq (Cpu \X Fields) \union {SetProfile}
    BY <1>0, <1>2, <2>2
  <2>4. own' \in CpuConfig /\ own' = published' /\ savedCpu' \in CpuConfig \union {NoCpuConfig}
    BY <1>0, <1>2 DEF Remember
  <2>5. CpuTypeOK'
    BY <2>1, <2>3, <2>4 DEF CpuTypeOK, Daemon
  <2>6. CASE failed = {}
    <3>1. WriteControls(desired, {}) /\ own' = desired
          /\ doubted' = doubted \ (Batch(desired) \union {SetProfile})
      BY <1>2, <2>6 DEF Remember
    <3>2. InForce(files', daemon', own', doubted')
      BY <1>0, <3>1, AllWritten
    <3> QED
      BY <2>4, <2>5, <3>2, InForceOfState DEF CpuInv
  <2>7. CASE failed # {}
    <3>1. own' = own /\ doubted' = doubted \union (Batch(desired) \ failed)
      BY <1>2, <2>7 DEF Remember
    <3>2. InForce(files', daemon', own', doubted')
      BY <1>0, <1>2, <3>1, PartlyWritten
    <3> QED
      BY <2>4, <2>5, <3>2, InForceOfState DEF CpuInv
  <2> QED
    BY <2>6, <2>7
<1> QED
  BY <1>1, <1>2 DEF SetControls

(* Reading back, at the start or later, establishes it. *)
LEMMA ReadKeeps ==
    ASSUME files' \in CpuFiles, daemon' \in Daemon, NEW missing,
           own' = ReadControls(missing)', published' = own', doubted' = {},
           savedCpu' \in CpuConfig \union {NoCpuConfig}, restoring' \in BOOLEAN
    PROVE  CpuInv'
<1>1. own' = ReadOf(files', daemon', missing)
  BY ReadOfState
<1>2. own' \in CpuConfig /\ InForce(files', daemon', own', {})
  BY <1>1, ReadInForce
<1> QED
  BY <1>2, InForceOfState DEF CpuInv, CpuTypeOK, Daemon

-----------------------------------------------------------------------------
LEMMA CpuInitEstablishes == CpuInit => CpuInv
<1> SUFFICES ASSUME CpuInit PROVE CpuInv
  OBVIOUS
<1>1. files \in CpuFiles /\ daemon \in Daemon
  BY AtBootType DEF CpuInit, Daemon
<1>2. PICK missing \in SUBSET Unreadable : own = ReadControls(missing)
  BY DEF CpuInit
<1>3. own \in CpuConfig /\ InForce(files, daemon, own, {})
  BY <1>1, <1>2, ReadOfState, ReadInForce
<1> QED
  BY <1>1, <1>3, InForceOfState DEF CpuInit, CpuInv, CpuTypeOK, Daemon

(* What changes outside is doubted. *)
LEMMA OutsideKeeps ==
    ASSUME CpuInv, ChangedOutside PROVE CpuInv'
<1>1. /\ files \in CpuFiles /\ daemon \in Daemon /\ daemon.there \in BOOLEAN
      /\ doubted \subseteq (Cpu \X Fields) \union {SetProfile}
      /\ own = published /\ InForce(files, daemon, own, doubted)
  BY InForceOfState DEF CpuInv, CpuTypeOK, Daemon
<1>2. UNCHANGED <<own, published, savedCpu, restoring>>
  BY DEF ChangedOutside
<1>3. ASSUME files' \in CpuFiles, daemon' \in Daemon,
             doubted' \subseteq (Cpu \X Fields) \union {SetProfile},
             InForce(files', daemon', own, doubted')
      PROVE  CpuInv'
  BY <1>1, <1>2, <1>3, InForceOfState DEF CpuInv, CpuTypeOK, Daemon
<1>4. CASE FileChanged
  <2>1. PICK c \in Cpu :
          \/ /\ \E freq \in Freq : files' = [files EXCEPT ![c].max = freq]
             /\ doubted' = doubted \union {<<c, "max">>}
          \/ /\ \E g \in Governor : files' = [files EXCEPT ![c].governor = g]
             /\ doubted' = doubted \union {<<c, "governor">>}
    BY <1>4 DEF FileChanged
  <2>2. daemon' = daemon
    BY <1>4 DEF FileChanged
  <2>3. files' \in CpuFiles /\ doubted' \subseteq (Cpu \X Fields) \union {SetProfile}
    BY <1>1, <2>1 DEF CpuFiles, Fields, Limits
  <2>4. \A e \in Cpu, f \in Fields : <<e, f>> \notin doubted' =>
            <<e, f>> \notin doubted /\ files'[e][f] = files[e][f]
    BY <1>1, <2>1 DEF CpuFiles, Fields, Limits
  <2>5. SetProfile \in doubted => SetProfile \in doubted'
    BY <2>1
  <2>6. InForce(files', daemon', own, doubted')
    BY <1>1, <2>2, <2>4, <2>5 DEF InForce, Fields
  <2> QED
    BY <1>1, <1>3, <2>2, <2>3, <2>6
<1>5. CASE ProfileChanged
  <2>1. files' = files /\ doubted' = doubted \union {SetProfile}
    BY <1>5 DEF ProfileChanged
  <2>2. daemon' \in Daemon /\ daemon'.there = daemon.there
    BY <1>1, <1>5 DEF ProfileChanged, Daemon
  <2>3. InForce(files', daemon', own, doubted')
    BY <1>1, <2>1, <2>2 DEF InForce
  <2> QED
    BY <1>1, <1>3, <2>1, <2>2, <2>3
<1>6. CASE DaemonChanged
  <2>1. files' = files /\ doubted' = doubted \union {SetProfile} \union (Cpu \X {"governor"})
    BY <1>6 DEF DaemonChanged
  <2>2. daemon' \in Daemon
    BY <1>1, <1>6 DEF DaemonChanged, Daemon
  <2>3. InForce(files', daemon', own, doubted')
    BY <1>1, <2>1 DEF InForce
  <2>4. doubted' \subseteq (Cpu \X Fields) \union {SetProfile}
    BY <1>1, <2>1 DEF Fields
  <2> QED
    BY <1>1, <1>3, <2>1, <2>2, <2>3, <2>4
<1> QED
  BY <1>4, <1>5, <1>6 DEF ChangedOutside

LEMMA CpuStepKeeps == CpuInv /\ [CpuNext]_cpuVars => CpuInv'
<1> SUFFICES ASSUME CpuInv, [CpuNext]_cpuVars PROVE CpuInv'
  OBVIOUS
<1>0. /\ files \in CpuFiles /\ daemon \in Daemon /\ published \in CpuConfig
      /\ savedCpu \in CpuConfig \union {NoCpuConfig} /\ restoring \in BOOLEAN
  BY DEF CpuInv, CpuTypeOK, Daemon
<1>1. CASE WriteFrequencies
  <2>1. PICK freq \in [Cpu -> Freq] : SetControls(MaxFrequencies(published, freq))
    BY <1>1 DEF WriteFrequencies
  <2>2. MaxFrequencies(published, freq) \in CpuConfig
    BY <1>0 DEF MaxFrequencies, CpuConfig
  <2>3. restoring' \in BOOLEAN
    BY <1>0, <1>1 DEF WriteFrequencies
  <2> QED
    BY <2>1, <2>2, <2>3, SetControlsKeeps
<1>2. CASE WriteGovernor
  <2>1. PICK g \in Governor : SetControls(OneGovernor(published, g))
    BY <1>2 DEF WriteGovernor
  <2>2. OneGovernor(published, g) \in CpuConfig
    BY <1>0 DEF OneGovernor, CpuConfig
  <2>3. restoring' \in BOOLEAN
    BY <1>0, <1>2 DEF WriteGovernor
  <2> QED
    BY <2>1, <2>2, <2>3, SetControlsKeeps
<1>3. CASE RestoreControls
  <2>1. restoring' \in BOOLEAN
    BY <1>3 DEF RestoreControls
  <2>2. CASE savedCpu # NoCpuConfig /\ SetControls(savedCpu)
    BY <1>0, <2>1, <2>2, SetControlsKeeps
  <2>3. CASE UNCHANGED <<files, daemon, own, published, savedCpu, doubted>>
    <3>1. CpuTypeOK'
      BY <2>1, <2>3 DEF CpuInv, CpuTypeOK
    <3> QED
      BY <2>3, <3>1, InForceOfState DEF CpuInv
  <2> QED
    BY <1>3, <2>2, <2>3 DEF RestoreControls
<1>4. CASE UpdateConfig
  <2>1. PICK missing \in SUBSET Unreadable : own' = ReadControls(missing)
    BY <1>4 DEF UpdateConfig
  <2>2. UNCHANGED <<files, daemon, savedCpu, restoring>> /\ published' = own' /\ doubted' = {}
    BY <1>4 DEF UpdateConfig
  <2>3. ReadControls(missing)' = ReadControls(missing)
    BY <2>2, ReadOfState
  <2> QED
    BY <1>0, <2>1, <2>2, <2>3, ReadKeeps
<1>5. CASE ChangedOutside
  BY <1>5, OutsideKeeps
<1>6. CASE Restart
  <2>1. files' \in CpuFiles /\ daemon' \in Daemon
    BY <1>0, <1>6, AtBootType DEF Restart, Daemon
  <2>2. PICK missing \in SUBSET Unreadable : own' = ReadControls(missing)'
    BY <1>6 DEF Restart
  <2>3. published' = own' /\ restoring' = TRUE /\ doubted' = {} /\ savedCpu' = savedCpu
    BY <1>6 DEF Restart
  <2> QED
    BY <1>0, <2>1, <2>2, <2>3, ReadKeeps
<1>7. CASE UNCHANGED cpuVars
  <2>1. CpuTypeOK'
    BY <1>7 DEF cpuVars, CpuInv, CpuTypeOK
  <2> QED
    BY <1>7, <2>1, InForceOfState DEF cpuVars, CpuInv
<1> QED
  BY <1>1, <1>2, <1>3, <1>4, <1>5, <1>6, <1>7 DEF CpuNext

LEMMA CpuInvariance == CpuSpec => []CpuInv
<1>1. CpuInit => CpuInv
  BY CpuInitEstablishes
<1>2. CpuInv /\ [CpuNext]_cpuVars => CpuInv'
  BY CpuStepKeeps
<1> QED
  BY <1>1, <1>2, PTL DEF CpuSpec

(* The state of the CPU controls keeps its types. *)
THEOREM CpuTypeCorrect == CpuSpec => []CpuTypeOK
<1>1. CpuInv => CpuTypeOK
  BY DEF CpuInv
<1> QED
  BY <1>1, CpuInvariance, PTL

(* Writing differences only never loses a control: control by control, what   *)
(* is remembered is in force, or was changed since the last read-back from    *)
(* outside or by a write of which another part failed; of the governors, with *)
(* the daemon, the first it offers is in force, and no other is applied       *)
(* (cpufiles.cpp:213-259).                                                    *)
THEOREM RememberedAlwaysInForce == CpuSpec => []RememberedIsInForce
<1>1. CpuInv => RememberedIsInForce
  BY DEF CpuInv
<1> QED
  BY <1>1, CpuInvariance, PTL

-----------------------------------------------------------------------------
(* The GPU controls. *)
Values(c) == Asked(c) \union Real(c)
(* A list of a client or of the service: what it holds of a control is a      *)
(* value a control of that kind may have.                                     *)
Listing(l) == /\ DOMAIN l \subseteq Gpu
              /\ \A g \in DOMAIN l : \A c \in Control :
                    c \in DOMAIN l[g] => l[g][c] \in Values(c)
GpusReal == \A g \in Gpu : \A c \in ControlsOf[g] : gpus[g][c] \in Real(c)
GpuInv == GpuTypeOK /\ Listing(held) /\ Listing(devices) /\ gpuOutside \in Nat

-----------------------------------------------------------------------------
LEMMA ControlKinds == \A g \in Gpu : ControlsOf[g] \subseteq Control
BY GpuAssumption

LEMMA RealNotEmpty ==
    ASSUME NEW c \in Control PROVE \E value : value \in Real(c)
<1>1. CASE c = "powerLimitWatts"
  <2>1. MinWatts \in MinWatts .. MaxWatts
    BY WattsAssumption
  <2> QED
    BY <1>1, <2>1 DEF Real
<1>2. CASE c = "performanceLevel"
  BY <1>2, GpuAssumption DEF Real, Asked
<1>3. CASE c = "persistenceMode"
  <2>1. TRUE \in BOOLEAN
    OBVIOUS
  <2> QED
    BY <1>3, <2>1 DEF Real, Asked
<1> QED
  BY <1>1, <1>2, <1>3 DEF Control

(* What may be written ends up in the range of the control, unchanged or at   *)
(* the end of the range next to it.                                           *)
LEMMA ClampedIsReal ==
    ASSUME NEW c \in Control, NEW value,
           value \in Values(c) \/ (c = "powerLimitWatts" /\ value = 0)
    PROVE  Clamped(c, value) \in Real(c) /\ MovesTo(c, value, Clamped(c, value))
<1>1. CASE c = "powerLimitWatts"
  <2>1. Real(c) = MinWatts .. MaxWatts /\ Asked(c) = Watts
    BY <1>1 DEF Real, Asked
  <2>2. value \in Nat
    <3>1. value \in Watts \/ value \in MinWatts .. MaxWatts \/ value = 0
      BY <2>1 DEF Values
    <3>2. value \in Watts => value \in Nat
      BY WattsAssumption
    <3>3. value \in MinWatts .. MaxWatts => value \in Nat
      BY WattsAssumption
    <3> QED
      BY <3>1, <3>2, <3>3
  <2> QED
    BY <1>1, <2>1, <2>2, WattsAssumption DEF Clamped, MovesTo
<1>2. CASE c # "powerLimitWatts"
  <2>1. Real(c) = Asked(c)
    BY <1>2 DEF Real
  <2>2. value \in Real(c)
    BY <1>2, <2>1 DEF Values
  <2> QED
    BY <1>2, <2>2 DEF Clamped, MovesTo
<1> QED
  BY <1>1, <1>2

(* What a list asks for of a control it may set. *)
LEMMA WishIsValue ==
    ASSUME NEW l, Listing(l), NEW g \in DOMAIN l, NEW c \in Control,
           c = "performanceLevel" => c \in DOMAIN l[g]
    PROVE  Wish(l, g, c) \in Values(c) \/ (c = "powerLimitWatts" /\ Wish(l, g, c) = 0)
<1>1. CASE c \in DOMAIN l[g]
  BY <1>1 DEF Wish, Listing
<1>2. CASE c \notin DOMAIN l[g]
  <2>1. CASE c = "powerLimitWatts"
    BY <1>2, <2>1 DEF Wish
  <2>2. CASE c = "persistenceMode"
    <3>1. Wish(l, g, c) = FALSE
      BY <1>2, <2>2 DEF Wish
    <3>2. FALSE \in Asked(c)
      BY <2>2 DEF Asked
    <3> QED
      BY <3>1, <3>2 DEF Values
  <2> QED
    BY <1>2, <2>1, <2>2 DEF Control
<1> QED
  BY <1>1, <1>2

(* What OnlyWhatIsShown allows a control to move to, by a list l. *)
Justified(l, g, c, value) ==
    /\ g \in DOMAIN l
    /\ c \in DOMAIN l[g] => MovesTo(c, l[g][c], value)
    /\ c \notin DOMAIN l[g] =>
          \/ c = "powerLimitWatts" /\ value = MinWatts
          \/ c = "persistenceMode" /\ ~value

(* writeDevices: a control keeps its value or gets the one listed, within its *)
(* range.                                                                     *)
LEMMA WrittenAsListed ==
    ASSUME GpusReal, NEW l, Listing(l), WriteDevices(l), NEW g \in Gpu, NEW c \in ControlsOf[g]
    PROVE  /\ gpus'[g][c] \in Real(c)
           /\ gpus'[g][c] # gpus[g][c] => Justified(l, g, c, gpus'[g][c])
<1>1. PICK done : /\ \A w \in done : /\ w[1] \in DOMAIN l
                                     /\ w[2] = "performanceLevel" => w[2] \in DOMAIN l[w[1]]
                  /\ gpus' = [h \in Gpu |-> [k \in ControlsOf[h] |->
                                 IF <<h, k>> \in done THEN Clamped(k, Wish(l, h, k)) ELSE gpus[h][k]]]
  BY DEF WriteDevices
<1>2. gpus'[g][c] = IF <<g, c>> \in done THEN Clamped(c, Wish(l, g, c)) ELSE gpus[g][c]
  BY <1>1
<1>3. CASE <<g, c>> \in done
  <2>1. g \in DOMAIN l /\ (c = "performanceLevel" => c \in DOMAIN l[g])
    BY <1>1, <1>3
  <2>2. c \in Control
    BY ControlKinds
  <2>3. Wish(l, g, c) \in Values(c) \/ (c = "powerLimitWatts" /\ Wish(l, g, c) = 0)
    BY <2>1, <2>2, WishIsValue
  <2>4. Clamped(c, Wish(l, g, c)) \in Real(c) /\ MovesTo(c, Wish(l, g, c), Clamped(c, Wish(l, g, c)))
    BY <2>2, <2>3, ClampedIsReal
  <2>5. gpus'[g][c] = Clamped(c, Wish(l, g, c))
    BY <1>2, <1>3
  <2>6. CASE c \in DOMAIN l[g]
    <3>1. Wish(l, g, c) = l[g][c]
      BY <2>6 DEF Wish
    <3> QED
      BY <2>1, <2>4, <2>5, <2>6, <3>1 DEF Justified
  <2>7. CASE c \notin DOMAIN l[g]
    <3>1. CASE c = "powerLimitWatts"
      <4>1. Clamped(c, Wish(l, g, c)) = MinWatts
        BY <2>7, <3>1, WattsAssumption DEF Wish, Clamped
      <4> QED
        BY <2>1, <2>4, <2>5, <2>7, <3>1, <4>1 DEF Justified
    <3>2. CASE c = "persistenceMode"
      <4>1. Clamped(c, Wish(l, g, c)) = FALSE
        BY <2>7, <3>2 DEF Wish, Clamped
      <4> QED
        BY <2>1, <2>4, <2>5, <2>7, <3>2, <4>1 DEF Justified
    <3> QED
      BY <2>1, <2>2, <2>7, <3>1, <3>2 DEF Control
  <2> QED
    BY <2>6, <2>7
<1>4. CASE <<g, c>> \notin done
  BY <1>2, <1>4 DEF GpusReal
<1> QED
  BY <1>3, <1>4

LEMMA ReadingIsListing ==
    ASSUME GpusReal, NEW l \in Readings
    PROVE  Listing(l)
<1>1. PICK seen \in SUBSET AllControls : l = Reading(seen)
  BY DEF Readings
<1>2. DOMAIN l = {s[1] : s \in seen}
  BY <1>1 DEF Reading
<1>3. \A s \in seen : s[1] \in Gpu /\ s[2] \in ControlsOf[s[1]]
  BY <1>1 DEF AllControls
<1>4. ASSUME NEW g \in DOMAIN l, NEW c \in Control, c \in DOMAIN l[g]
      PROVE  l[g][c] \in Values(c)
  <2> DEFINE listed == {s[2] : s \in {t \in seen : t[1] = g}}
  <2>1. l[g] = [k \in listed |-> gpus[g][k]]
    BY <1>1, <1>2 DEF Reading
  <2> HIDE DEF listed
  <2>2. c \in listed /\ l[g][c] = gpus[g][c]
    BY <1>4, <2>1
  <2>3. PICK s \in seen : s[1] = g /\ s[2] = c
    BY <2>2 DEF listed
  <2>4. g \in Gpu /\ c \in ControlsOf[g]
    BY <1>3, <2>3
  <2> QED
    BY <2>2, <2>4 DEF GpusReal, Values
<1> QED
  BY <1>2, <1>3, <1>4 DEF Listing

-----------------------------------------------------------------------------
LEMMA GpuInitEstablishes == GpuInit => GpuInv
<1> SUFFICES ASSUME GpuInit PROVE GpuInv
  OBVIOUS
<1>1. \A g \in Gpu : DOMAIN gpus[g] = ControlsOf[g]
  BY DEF GpuInit
<1>2. ASSUME NEW g \in Gpu, NEW c \in ControlsOf[g] PROVE gpus[g][c] \in Real(c)
  <2>1. gpus[g][c] = CHOOSE value \in Real(c) : TRUE
    BY DEF GpuInit
  <2>2. c \in Control
    BY ControlKinds
  <2> QED
    BY <2>1, <2>2, RealNotEmpty
<1>3. Listing(devices) /\ Listing(held)
  BY <1>2, ReadingIsListing DEF GpuInit, GpusReal
<1> QED
  BY <1>1, <1>2, <1>3 DEF GpuInit, GpuInv, GpuTypeOK, Listing

(* The client's edit of one control, and what the service writes for it. *)
LEMMA SetGpuControlKeeps ==
    ASSUME GpuInv, SetGpuControl
    PROVE  /\ GpuInv'
           /\ \A g \in Gpu : \A c \in ControlsOf[g] :
                 gpus'[g][c] # gpus[g][c] => Justified(held', g, c, gpus'[g][c])
<1>1. PICK g \in DOMAIN held : \E c \in ControlsOf[g] : \E value \in Asked(c) :
        /\ held' = [held EXCEPT ![g] = [k \in DOMAIN held[g] \union {c} |->
                                           IF k = c THEN value ELSE held[g][k]]]
        /\ UNCHANGED gpus \/ WriteDevices(held')
        /\ UNCHANGED <<devices, gpuOutside>>
  BY DEF SetGpuControl
<1>2. PICK c \in ControlsOf[g] : \E value \in Asked(c) :
        /\ held' = [held EXCEPT ![g] = [k \in DOMAIN held[g] \union {c} |->
                                           IF k = c THEN value ELSE held[g][k]]]
        /\ UNCHANGED gpus \/ WriteDevices(held')
        /\ UNCHANGED <<devices, gpuOutside>>
  BY <1>1
<1>3. PICK value \in Asked(c) :
        /\ held' = [held EXCEPT ![g] = [k \in DOMAIN held[g] \union {c} |->
                                           IF k = c THEN value ELSE held[g][k]]]
        /\ UNCHANGED gpus \/ WriteDevices(held')
        /\ UNCHANGED <<devices, gpuOutside>>
  BY <1>2
<1>4. Listing(held')
  <2>1. DOMAIN held' = DOMAIN held
    BY <1>3
  <2>2. ASSUME NEW h \in DOMAIN held', NEW k \in Control, k \in DOMAIN held'[h]
        PROVE  held'[h][k] \in Values(k)
    <3>1. CASE h # g
      <4>1. held'[h] = held[h]
        BY <1>3, <2>1, <3>1
      <4> QED
        BY <2>1, <2>2, <4>1 DEF GpuInv, Listing
    <3>2. CASE h = g /\ k = c
      BY <1>3, <3>2 DEF Values
    <3>3. CASE h = g /\ k # c
      <4>1. k \in DOMAIN held[g] /\ held'[h][k] = held[g][k]
        BY <1>3, <2>2, <3>3
      <4> QED
        BY <4>1 DEF GpuInv, Listing
    <3> QED
      BY <3>1, <3>2, <3>3
  <2> QED
    BY <2>1, <2>2 DEF GpuInv, Listing
<1>5. GpusReal
  BY DEF GpuInv, GpuTypeOK, GpusReal
<1>6. CASE UNCHANGED gpus
  BY <1>3, <1>4, <1>6 DEF GpuInv, GpuTypeOK, Listing
<1>7. CASE WriteDevices(held')
  <2>1. \A h \in Gpu : DOMAIN gpus'[h] = ControlsOf[h]
    BY <1>7 DEF WriteDevices
  <2>2. GpuInv'
    BY <1>3, <1>4, <1>5, <1>7, <2>1, WrittenAsListed DEF GpuInv, GpuTypeOK, Listing
  <2> QED
    BY <1>4, <1>5, <1>7, <2>2, WrittenAsListed
<1> QED
  BY <1>3, <1>6, <1>7

LEMMA GpuStepKeeps == GpuInv /\ [GpuNext]_gpuVars => GpuInv'
<1> SUFFICES ASSUME GpuInv, [GpuNext]_gpuVars PROVE GpuInv'
  OBVIOUS
<1>0. GpusReal
  BY DEF GpuInv, GpuTypeOK, GpusReal
<1>1. CASE SetGpuControl
  BY <1>1, SetGpuControlKeeps
<1>2. CASE UpdateDevices
  BY <1>0, <1>2, ReadingIsListing DEF UpdateDevices, GpuInv, GpuTypeOK, Listing
<1>3. CASE ShowDevices
  BY <1>3 DEF ShowDevices, GpuInv, GpuTypeOK, Listing
<1>4. CASE GpuChangedOutside
  <2>1. \E g \in Gpu : \E c \in ControlsOf[g] : \E value \in Real(c) :
           gpus' = [gpus EXCEPT ![g][c] = value]
    BY <1>4 DEF GpuChangedOutside
  <2>2. UNCHANGED <<devices, held>> /\ gpuOutside' = gpuOutside + 1
    BY <1>4 DEF GpuChangedOutside
  <2>3. ASSUME NEW h \in Gpu
        PROVE  /\ DOMAIN gpus'[h] = ControlsOf[h]
               /\ \A k \in ControlsOf[h] : gpus'[h][k] \in Real(k)
    BY <2>1 DEF GpuInv, GpuTypeOK
  <2> QED
    BY <2>2, <2>3 DEF GpuInv, GpuTypeOK, Listing
<1>5. CASE UNCHANGED gpuVars
  BY <1>5 DEF gpuVars, GpuInv, GpuTypeOK, Listing
<1> QED
  BY <1>1, <1>2, <1>3, <1>4, <1>5 DEF GpuNext

LEMMA GpuInvariance == GpuSpec => []GpuInv
BY GpuInitEstablishes, GpuStepKeeps, PTL DEF GpuSpec

(* The state of the GPU controls keeps its types. *)
THEOREM GpuTypeCorrect == GpuSpec => []GpuTypeOK
<1>1. GpuInv => GpuTypeOK
  BY DEF GpuInv
<1> QED
  BY <1>1, GpuInvariance, PTL

(* However old the list of the client and incomplete the reading it is        *)
(* compared with, a write moves controls of listed GPUs only: one the list    *)
(* shows to that value or the end of the range next to it, one the list lacks *)
(* to the lowest limit or to persistence off, and never to another level      *)
(* (gpucontrolparameter.cpp:327-377).                                         *)
THEOREM WritesWhatIsShown == GpuSpec => OnlyWhatIsShown
<1> DEFINE AsShown == gpuOutside' = gpuOutside =>
        \A g \in Gpu : \A c \in ControlsOf[g] :
            gpus'[g][c] # gpus[g][c] => Justified(held', g, c, gpus'[g][c])
<1>1. GpuInv /\ [GpuNext]_gpuVars => [AsShown]_gpuVars
  <2> SUFFICES ASSUME GpuInv, GpuNext, gpuOutside' = gpuOutside PROVE AsShown
    BY DEF gpuVars
  <2>1. CASE SetGpuControl
    BY <2>1, SetGpuControlKeeps
  <2>2. CASE UpdateDevices \/ ShowDevices
    BY <2>2 DEF UpdateDevices, ShowDevices
  <2>3. CASE GpuChangedOutside
    BY <2>3 DEF GpuChangedOutside, GpuInv
  <2> QED
    BY <2>1, <2>2, <2>3 DEF GpuNext
<1> HIDE DEF AsShown
<1>2. [][AsShown]_gpuVars => OnlyWhatIsShown
  <2>1. [AsShown]_gpuVars => [gpuOutside' = gpuOutside =>
        \A g \in Gpu : \A c \in ControlsOf[g] : gpus'[g][c] # gpus[g][c] =>
            /\ g \in DOMAIN held'
            /\ c \in DOMAIN held'[g] => MovesTo(c, held'[g][c], gpus'[g][c])
            /\ c \notin DOMAIN held'[g] =>
                  \/ c = "powerLimitWatts" /\ gpus'[g][c] = MinWatts
                  \/ c = "persistenceMode" /\ ~gpus'[g][c]]_gpuVars
    BY DEF AsShown, Justified
  <2> QED
    BY <2>1, PTL DEF OnlyWhatIsShown
<1> QED
  BY <1>1, <1>2, GpuInvariance, PTL DEF GpuSpec

-----------------------------------------------------------------------------
(* The automatic profiles. *)

(* Nothing is on its way to or from a client that is not connected. *)
Connected == ~valid => ~pending /\ queued = NoValue /\ news = <<>>

(* An edit on its way marks the proxy. *)
Marked == queued # NoValue => pending

(* The last notification on its way tells the mode of the firmware. *)
LastIsNews == news # <<>> => news[Len(news)] = mode

AutoInv == AutoTypeOK /\ Connected /\ Marked /\ LastIsNews /\ ShownModeIsReal

-----------------------------------------------------------------------------
(* A notification more, or one delivered, and the last is what it should be. *)
LEMMA NewsGrows ==
    ASSUME NEW s \in Seq(ShiftModes), NEW m \in ShiftModes
    PROVE  /\ Append(s, m) \in Seq(ShiftModes) /\ Append(s, m) # <<>>
           /\ Append(s, m)[Len(Append(s, m))] = m
<1>1. /\ Append(s, m) \in Seq(ShiftModes) /\ Append(s, m) # <<>>
      /\ Len(Append(s, m)) = Len(s) + 1
  BY AppendProperties
<1>2. Append(s, m)[Len(s) + 1] = m
  OBVIOUS
<1> QED
  BY <1>1, <1>2

LEMMA NewsShrinks ==
    ASSUME NEW s \in Seq(ShiftModes), s # <<>>
    PROVE  /\ Head(s) \in ShiftModes /\ Tail(s) \in Seq(ShiftModes)
           /\ Tail(s) # <<>> => Tail(s)[Len(Tail(s))] = s[Len(s)]
           /\ Tail(s) = <<>> => Head(s) = s[Len(s)]
<1>1. /\ Head(s) = s[1] /\ Len(s) \in Nat \ {0}
      /\ Len(s) = Len(Tail(s)) + 1 /\ Len(Tail(s)) = Len(s) - 1
  BY EmptySeq, HeadTailProperties
<1>2. Head(s) \in ShiftModes /\ Tail(s) \in Seq(ShiftModes)
  BY HeadTailProperties
<1>3. ASSUME Tail(s) # <<>> PROVE Tail(s)[Len(Tail(s))] = s[Len(s)]
  <2>1. Len(Tail(s)) \in 1 .. Len(s) - 1
    BY <1>1, <1>2, <1>3
  <2> QED
    BY <1>1, <2>1
<1>4. ASSUME Tail(s) = <<>> PROVE Head(s) = s[Len(s)]
  <2>1. Len(Tail(s)) = 0
    BY <1>4, EmptySeq
  <2>2. \A n \in Nat : n - 1 = 0 => n = 1
    OBVIOUS
  <2>3. Len(s) = 1
    BY <1>1, <2>1, <2>2, Zenon
  <2> QED
    BY <1>1, <2>3
<1> QED
  BY <1>2, <1>3, <1>4

(* What evaluate wants is a mode the firmware offers. *)
LEMMA WantedIsOffered ==
    ASSUME NEW on, NEW t, NEW value, NEW waiting, Wants(on, t, value, waiting)
    PROVE  DesiredMode(t) \in ShiftModes /\ valid' /\ ~waiting
BY DEF Wants

(* The first mode available is available. *)
LEMMA FirstIsAvailable ==
    ASSUME NEW S, NEW modes, DOMAIN modes \subseteq 1 .. 2
    PROVE  FirstAvailable(modes, S) \in S \union {NoValue}
<1> DEFINE known == {i \in DOMAIN modes : modes[i] \in S}
<1>1. CASE known = {}
  BY <1>1 DEF FirstAvailable
<1>2. CASE known # {}
  <2>1. \E i \in known : \A j \in known : i <= j
    <3>1. known \subseteq 1 .. 2
      OBVIOUS
    <3>2. CASE 1 \in known
      BY <3>1, <3>2
    <3>3. CASE 1 \notin known
      <4>1. 2 \in known /\ \A j \in known : j = 2
        BY <1>2, <3>1, <3>3
      <4> QED
        BY <4>1
    <3> QED
      BY <3>2, <3>3
  <2>2. (CHOOSE i \in known : \A j \in known : i <= j) \in known
    BY <2>1
  <2> QED
    BY <2>2 DEF FirstAvailable
<1> QED
  BY <1>1, <1>2

(* evaluate, where writes are not suppressed, keeps the invariant, as long as *)
(* nothing else of the shift mode changes.                                    *)
LEMMA Evaluation ==
    ASSUME AutoInv, NEW on, NEW t, Evaluate(on, t),
           UNCHANGED <<mode, news, valid>>
    PROVE  /\ shown' \in ShiftModes \union {NoValue} /\ queued' \in ShiftModes \union {NoValue}
           /\ pending' \in BOOLEAN /\ swallowed' \in BOOLEAN
           /\ Connected' /\ Marked' /\ LastIsNews' /\ ShownModeIsReal'
<1>1. CASE Wants(on, t, shown, pending)
  <2>1. Edit(DesiredMode(t)) /\ DesiredMode(t) \in ShiftModes /\ valid'
    BY <1>1, WantedIsOffered DEF Evaluate
  <2> QED
    BY <2>1 DEF Edit, AutoInv, AutoTypeOK, Connected, Marked, LastIsNews, ShownModeIsReal
<1>2. CASE ~Wants(on, t, shown, pending)
  <2>1. UNCHANGED <<shown, queued, pending, swallowed>>
    BY <1>2 DEF Evaluate
  <2> QED
    BY <2>1 DEF AutoInv, AutoTypeOK, Connected, Marked, LastIsNews, ShownModeIsReal
<1> QED
  BY <1>1, <1>2

-----------------------------------------------------------------------------
LEMMA AutoInitEstablishes == AutoInit => AutoInv
<1> SUFFICES ASSUME AutoInit PROVE AutoInv
  OBVIOUS
<1>1. NoTelemetry \in Telemetry
  BY DEF NoTelemetry, Telemetry
<1>2. "balanced" \in DOMAIN Behaviours
  BY DEF Behaviours
<1>3. AutoTypeOK
  BY <1>1, <1>2, EmptySeq DEF AutoInit, AutoTypeOK
<1> QED
  BY <1>3 DEF AutoInit, AutoInv, Connected, Marked, LastIsNews, ShownModeIsReal

LEMMA AutoStepKeeps == AutoInv /\ [AutoNext]_autoVars => AutoInv'
<1> SUFFICES ASSUME AutoInv, [AutoNext]_autoVars PROVE AutoInv'
  OBVIOUS
<1> USE DEF AutoInv
<1>1. CASE ReadMode
  <2>1. ~pending /\ queued = NoValue /\ valid' /\ news' = <<>>
    BY <1>1 DEF ReadMode, Connected
  <2>2. CASE Wants(automatic, telemetry, mode, FALSE)
    <3>1. Edit(DesiredMode(telemetry)) /\ DesiredMode(telemetry) \in ShiftModes
      BY <1>1, <2>2, WantedIsOffered DEF ReadMode
    <3> QED
      BY <1>1, <2>1, <3>1 DEF ReadMode, Edit, AutoTypeOK, Connected, Marked, LastIsNews, ShownModeIsReal
  <2>3. CASE ~Wants(automatic, telemetry, mode, FALSE)
    BY <1>1, <2>1, <2>3 DEF ReadMode, AutoTypeOK, Connected, Marked, LastIsNews, ShownModeIsReal
  <2> QED
    BY <2>2, <2>3
<1>2. CASE LoseConnection
  <2>1. NoTelemetry \in Telemetry
    BY DEF NoTelemetry, Telemetry
  <2> QED
    BY <1>2, <2>1, EmptySeq DEF LoseConnection, AutoTypeOK, Connected, Marked, LastIsNews, ShownModeIsReal
<1>3. CASE TelemetryChanges
  <2>1. telemetry' \in Telemetry
    <3>1. PICK field \in DOMAIN telemetry : \E value \in Measured(field) :
              telemetry' = [telemetry EXCEPT ![field] = value]
      BY <1>3 DEF TelemetryChanges
    <3>2. field \in {"battery", "discharging", "cpu", "gpu"}
      BY <3>1 DEF AutoTypeOK, Telemetry
    <3> QED
      BY <3>1, <3>2 DEF AutoTypeOK, Telemetry, Measured
  <2>2. Evaluate(automatic, telemetry') /\ UNCHANGED <<mode, news, valid, automatic, active, fan>>
    BY <1>3 DEF TelemetryChanges
  <2> QED
    BY <2>1, <2>2, Evaluation DEF AutoTypeOK
<1>4. CASE Tick
  <2>1. Evaluate(automatic, telemetry) /\ UNCHANGED <<mode, news, valid, telemetry, automatic, active, fan>>
    BY <1>4 DEF Tick
  <2> QED
    BY <2>1, Evaluation DEF AutoTypeOK
<1>5. CASE SetEnabled
  <2>1. /\ Evaluate(automatic', telemetry) /\ automatic' \in BOOLEAN
        /\ UNCHANGED <<mode, news, valid, telemetry, active, fan>>
    BY <1>5 DEF SetEnabled
  <2> QED
    BY <2>1, Evaluation DEF AutoTypeOK
<1>6. CASE ChooseMode
  <2>1. PICK m \in ShiftModes : Edit(m)
    BY <1>6, WantedIsOffered DEF ChooseMode
  <2> QED
    BY <1>6, <2>1 DEF ChooseMode, Edit, AutoTypeOK, Connected, Marked, LastIsNews, ShownModeIsReal
<1>7. CASE ApplyProfile
  <2>1. PICK id \in DOMAIN Behaviours :
            LET shift == FirstAvailable(Behaviours[id].shift, ShiftModes)
                newFan == FirstAvailable(Behaviours[id].fan, FanModes)
            IN  /\ automatic' = Behaviours[id].auto
                /\ IF shift # NoValue THEN Edit(shift)
                   ELSE Evaluate(automatic' /\ ~automatic, telemetry)
                /\ fan' = IF newFan # NoValue THEN newFan ELSE fan
                /\ active' = IF shift # NoValue \/ newFan # NoValue \/ automatic' THEN id ELSE active
    BY <1>7 DEF ApplyProfile
  <2> DEFINE shift == FirstAvailable(Behaviours[id].shift, ShiftModes)
             newFan == FirstAvailable(Behaviours[id].fan, FanModes)
  <2>2. /\ Behaviours[id].auto \in BOOLEAN
        /\ DOMAIN Behaviours[id].shift \subseteq 1 .. 2
        /\ DOMAIN Behaviours[id].fan \subseteq 1 .. 2
    <3>1. id \in {"silent", "balanced", "performance", "adaptive"}
      BY <2>1 DEF Behaviours
    <3>6. 1 .. 0 \subseteq 1 .. 2 /\ 1 .. 1 \subseteq 1 .. 2
      OBVIOUS
    <3>2. CASE id = "silent"
      <4>1. DOMAIN Behaviours[id].shift = 1 .. 1 /\ DOMAIN Behaviours[id].fan = 1 .. 2
        BY <3>2 DEF Behaviours
      <4>2. Behaviours[id].auto = FALSE
        BY <3>2 DEF Behaviours
      <4> QED
        BY <3>6, <4>1, <4>2, Zenon
    <3>3. CASE id = "balanced"
      <4>1. DOMAIN Behaviours[id].shift = 1 .. 2 /\ DOMAIN Behaviours[id].fan = 1 .. 2
        BY <3>3 DEF Behaviours
      <4>2. Behaviours[id].auto = FALSE
        BY <3>3 DEF Behaviours
      <4> QED
        BY <3>6, <4>1, <4>2, Zenon
    <3>4. CASE id = "performance"
      <4>1. DOMAIN Behaviours[id].shift = 1 .. 2 /\ DOMAIN Behaviours[id].fan = 1 .. 2
        BY <3>4 DEF Behaviours
      <4>2. Behaviours[id].auto = FALSE
        BY <3>4 DEF Behaviours
      <4> QED
        BY <3>6, <4>1, <4>2, Zenon
    <3>5. CASE id = "adaptive"
      <4>1. DOMAIN Behaviours[id].shift = 1 .. 0 /\ DOMAIN Behaviours[id].fan = 1 .. 0
        BY <3>5 DEF Behaviours
      <4>2. Behaviours[id].auto = TRUE
        BY <3>5 DEF Behaviours
      <4> QED
        BY <3>6, <4>1, <4>2, Zenon
    <3> QED
      BY <3>1, <3>2, <3>3, <3>4, <3>5
  <2>3. shift \in ShiftModes \union {NoValue} /\ newFan \in FanModes \union {NoValue}
    BY <2>2, FirstIsAvailable
  <2>4. UNCHANGED <<mode, news, telemetry, valid>>
    BY <1>7 DEF ApplyProfile
  <2>5. automatic' \in BOOLEAN /\ fan' \in FanModes \union {NoValue} /\ active' \in DOMAIN Behaviours
    BY <2>1, <2>2, <2>3 DEF AutoTypeOK
  <2>6. CASE shift # NoValue
    <3>1. Edit(shift) /\ shift \in ShiftModes /\ valid
      BY <2>1, <2>3, <2>6 DEF FirstAvailable
    <3> QED
      BY <2>4, <2>5, <3>1 DEF Edit, AutoTypeOK, Connected, Marked, LastIsNews, ShownModeIsReal
  <2>7. CASE shift = NoValue
    <3>1. Evaluate(automatic' /\ ~automatic, telemetry)
      BY <2>1, <2>7
    <3> QED
      BY <2>4, <2>5, <3>1, Evaluation DEF AutoTypeOK
  <2> QED
    BY <2>6, <2>7
<1>8. CASE WriteMode
  <2>1. queued \in ShiftModes /\ pending /\ valid
    BY <1>8 DEF WriteMode, AutoTypeOK, Marked, Connected
  <2>2. news' \in Seq(ShiftModes) /\ LastIsNews' /\ mode' \in ShiftModes
    <3>1. CASE mode' = queued /\ news' = IF mode = queued THEN news ELSE Append(news, queued)
      BY <2>1, <3>1, NewsGrows DEF AutoTypeOK, LastIsNews
    <3>2. CASE UNCHANGED <<mode, news>>
      BY <3>2 DEF AutoTypeOK, LastIsNews
    <3> QED
      BY <1>8, <3>1, <3>2 DEF WriteMode
  <2> QED
    BY <1>8, <2>1, <2>2, AutoAssumption DEF WriteMode, AutoTypeOK, Connected, Marked, ShownModeIsReal
<1>9. CASE EndConfirmation
  <2>1. pending /\ queued = NoValue /\ valid
    BY <1>9 DEF EndConfirmation, Connected, AutoTypeOK
  <2> QED
    BY <1>9, <2>1, EmptySeq DEF EndConfirmation, Confirm, AutoTypeOK, Connected, Marked, LastIsNews, ShownModeIsReal
<1>10. CASE Notified
  <2>1. /\ Head(news) \in ShiftModes /\ Tail(news) \in Seq(ShiftModes) /\ news # <<>>
        /\ Tail(news) # <<>> => Tail(news)[Len(Tail(news))] = mode
        /\ Tail(news) = <<>> => Head(news) = mode
    BY <1>10, NewsShrinks DEF Notified, AutoTypeOK, LastIsNews
  <2>2. /\ news' = Tail(news) /\ UNCHANGED <<mode, valid, telemetry, automatic, active, fan>>
        /\ valid
    BY <1>10 DEF Notified, Connected
  <2>3. CASE UNCHANGED <<shown, pending, queued, swallowed>> /\ pending
    BY <2>1, <2>2, <2>3 DEF AutoTypeOK, Connected, Marked, LastIsNews, ShownModeIsReal
  <2>4. CASE pending /\ queued = NoValue /\ Confirm(automatic, telemetry, Head(news))
    BY <2>1, <2>2, <2>4 DEF Confirm, AutoTypeOK, Connected, Marked, LastIsNews, ShownModeIsReal
  <2>5. CASE ~pending /\ ApplyRemote(automatic, telemetry, Head(news))
    <3>1. swallowed' => shown' = DesiredMode(telemetry) /\ DesiredMode(telemetry) \in ShiftModes
      BY <2>5, WantedIsOffered DEF ApplyRemote
    <3>2. ~swallowed' => shown' = Head(news)
      BY <2>5 DEF ApplyRemote
    <3>3. UNCHANGED <<queued, pending>> /\ swallowed' \in BOOLEAN
      BY <2>5 DEF ApplyRemote
    <3> QED
      BY <2>1, <2>2, <2>5, <3>1, <3>2, <3>3
         DEF AutoTypeOK, Connected, Marked, LastIsNews, ShownModeIsReal
  <2> QED
    BY <1>10, <2>3, <2>4, <2>5 DEF Notified, Marked
<1>11. CASE ModeChangesElsewhere
  <2>1. mode' \in ShiftModes /\ news' = IF valid THEN Append(news, mode') ELSE news
    BY <1>11 DEF ModeChangesElsewhere
  <2>2. news' \in Seq(ShiftModes) /\ LastIsNews' /\ (valid => news' # <<>>)
    <3>1. CASE valid
      <4>1. news' = Append(news, mode') /\ news \in Seq(ShiftModes)
        BY <2>1, <3>1 DEF AutoTypeOK
      <4> QED
        BY <2>1, <4>1, NewsGrows DEF LastIsNews
    <3>2. CASE ~valid
      BY <2>1, <3>2 DEF AutoTypeOK, Connected, LastIsNews
    <3> QED
      BY <3>1, <3>2
  <2> QED
    BY <1>11, <2>1, <2>2 DEF ModeChangesElsewhere, AutoTypeOK, Connected, Marked, ShownModeIsReal
<1>12. CASE UNCHANGED autoVars
  BY <1>12 DEF autoVars, AutoTypeOK, Connected, Marked, LastIsNews, ShownModeIsReal
<1> QED
  BY <1>1, <1>2, <1>3, <1>4, <1>5, <1>6, <1>7, <1>8, <1>9, <1>10, <1>11, <1>12 DEF AutoNext

LEMMA AutoInvariance == AutoSpec => []AutoInv
<1>1. AutoInit => AutoInv
  BY AutoInitEstablishes
<1>2. AutoInv /\ [AutoNext]_autoVars => AutoInv'
  BY AutoStepKeeps
<1> QED
  BY <1>1, <1>2, PTL DEF AutoSpec

(* The state of the automatic profile keeps its types. *)
THEOREM AutoTypeCorrect == AutoSpec => []AutoTypeOK
<1>1. AutoInv => AutoTypeOK
  BY DEF AutoInv
<1> QED
  BY <1>1, AutoInvariance, PTL

(* With nothing on its way, the mode on the screen is the firmware's or one   *)
(* set from inside a notification (autoprofilecontroller.cpp:91-121).         *)
THEOREM ShownIsReal == AutoSpec => []ShownModeIsReal
<1>1. AutoInv => ShownModeIsReal
  BY DEF AutoInv
<1> QED
  BY <1>1, AutoInvariance, PTL

-----------------------------------------------------------------------------
(* The animation of the graph: what needs an argument is that a frame that    *)
(* moves no bar, which stops the timer, finds them all arrived.                *)

GraphInv == GraphTypeOK /\ IdleShowsTargets

(* A vector is a sequence of as many norms as it has bars. *)
LEMMA VectorLength ==
  ASSUME NEW v \in Vectors(Norm)
  PROVE  Len(v) \in Nat /\ v \in [1 .. Len(v) -> Norm]
<1>1. PICK n \in 0 .. MaxBars : v \in [1 .. n -> Norm]
  BY DEF Vectors
<1>2. n \in Nat
  BY GraphAssumption
<1>3. v \in Seq(Norm) /\ Len(v) = n
  BY <1>1, <1>2
<1> QED
  BY <1>1, <1>2, <1>3

LEMMA NumericVector ==
  ASSUME NEW values \in Vectors({-1, NoNorm} \union 1 .. Top + 1)
  PROVE  NumericValues(values) \in Vectors(Norm)
<1>1. PICK n \in 0 .. MaxBars : values \in [1 .. n -> {-1, NoNorm} \union 1 .. Top + 1]
  BY DEF Vectors
<1>2. ASSUME NEW i \in 1 .. n PROVE NumericValues(values)[i] \in Norm
  <2>1. values[i] \in {-1, NoNorm} \union 1 .. Top + 1 /\ i \in DOMAIN values
    BY <1>1
  <2>2. CASE values[i] = NoNorm
    BY <2>1, <2>2, GraphAssumption DEF NumericValues, Norm
  <2>3. CASE values[i] # NoNorm
    BY <2>1, <2>3, GraphAssumption DEF NumericValues, Norm
  <2> QED
    BY <2>2, <2>3
<1>3. NumericValues(values) \in [1 .. n -> Norm]
  <2>1. DOMAIN NumericValues(values) = 1 .. n
    BY <1>1 DEF NumericValues
  <2>2. NumericValues(values) = [i \in 1 .. n |-> NumericValues(values)[i]]
    BY <2>1 DEF NumericValues
  <2> QED
    BY <1>2, <2>2
<1> QED
  BY <1>1, <1>3 DEF Vectors

(* A frame of bars that have arrived leaves them where they are. *)
LEMMA ArrivedStays ==
  ASSUME NEW goal \in Vectors(Norm), NEW v \in Advance(goal, goal)
  PROVE  v = goal
<1>1. goal \in [1 .. Len(goal) -> Norm]
  BY VectorLength
<1>2. v \in [DOMAIN goal -> Norm] /\ \A i \in DOMAIN goal : v[i] \in Nearer(goal[i], goal[i])
  BY DEF Advance
<1>3. \A n \in Norm : Nearer(n, n) = {n}
  BY GraphAssumption DEF Nearer, Norm, Distance
<1>4. \A i \in DOMAIN goal : v[i] = goal[i]
  BY <1>1, <1>2, <1>3
<1> QED
  BY <1>1, <1>2, <1>4

-----------------------------------------------------------------------------
LEMMA GraphInitEstablishes == GraphInit => GraphInv
<1> SUFFICES ASSUME GraphInit PROVE GraphInv
  OBVIOUS
<1>1. <<>> \in Vectors(Norm)
  <2>1. <<>> \in [1 .. 0 -> Norm] /\ 0 \in 0 .. MaxBars
    BY GraphAssumption
  <2> QED
    BY <2>1 DEF Vectors
<1>2. GraphTypeOK
  BY <1>1 DEF GraphInit, GraphTypeOK
<1>3. IdleShowsTargets
  BY DEF GraphInit, IdleShowsTargets
<1> QED
  BY <1>2, <1>3 DEF GraphInv

(* New telemetry moves the bars at once, starts the timer, or is missed. *)
LEMMA SetTargetsKeeps ==
  ASSUME GraphInv, SetTargets
  PROVE  GraphInv'
<1>1. PICK k \in Kind, values \in Vectors({-1, NoNorm} \union 1 .. Top + 1) :
        LET next == NumericValues(values)
        IN  /\ targets' = [targets EXCEPT ![k] = next]
            /\ IF Len(display[k]) # Len(next) \/ Len(targets[k]) # Len(next)
               THEN /\ display' = [display EXCEPT ![k] = next]
                    /\ UNCHANGED <<frameTimer, missed>>
               ELSE /\ UNCHANGED display
                    /\ IF MeaningfulChange(targets[k], next) THEN StartAnimation
                                                             ELSE UNCHANGED frameTimer
                    /\ missed' = (~frameTimer' /\ (missed \/ targets[k] # next))
  BY DEF SetTargets
<1> DEFINE next == NumericValues(values)
<1>2. next \in Vectors(Norm)
  BY NumericVector
<1>3. UNCHANGED <<visible, complete>>
  BY DEF SetTargets
<1> HIDE DEF next
<1>4. CASE Len(display[k]) # Len(next) \/ Len(targets[k]) # Len(next)
  <2>1. /\ targets' = [targets EXCEPT ![k] = next] /\ display' = [display EXCEPT ![k] = next]
        /\ UNCHANGED <<frameTimer, missed>>
    BY <1>1, <1>4 DEF next
  <2> QED
    BY <1>2, <1>3, <2>1 DEF GraphInv, GraphTypeOK, IdleShowsTargets
<1>5. CASE ~(Len(display[k]) # Len(next) \/ Len(targets[k]) # Len(next))
  <2>1. /\ targets' = [targets EXCEPT ![k] = next] /\ display' = display
        /\ StartAnimation \/ UNCHANGED frameTimer
        /\ missed' = (~frameTimer' /\ (missed \/ targets[k] # next))
    BY <1>1, <1>5 DEF next
  <2>2. /\ frameTimer' = (frameTimer \/ (visible /\ complete)) \/ frameTimer' = frameTimer
    BY <2>1 DEF StartAnimation
  <2>3. GraphTypeOK'
    BY <1>2, <1>3, <2>1, <2>2 DEF GraphInv, GraphTypeOK
  <2>4. frameTimer' => visible' /\ complete'
    BY <1>3, <2>2 DEF GraphInv, IdleShowsTargets, GraphTypeOK
  <2>5. ASSUME ~frameTimer', ~missed' PROVE display' = targets'
    <3>1. ~(~frameTimer' /\ (missed \/ targets[k] # next))
      BY <2>1, <2>5, Zenon
    <3>2. ~frameTimer
      <4>1. CASE frameTimer' = frameTimer
        BY <2>5, <4>1
      <4>2. CASE frameTimer' = (frameTimer \/ (visible /\ complete))
        BY <2>5, <4>2
      <4> QED
        BY <2>2, <4>1, <4>2
    <3>3. ~missed /\ targets[k] = next
      BY <3>1, <2>5
    <3>4. targets' = targets
      BY <2>1, <3>3 DEF GraphInv, GraphTypeOK
    <3> QED
      BY <2>1, <3>2, <3>3, <3>4 DEF GraphInv, IdleShowsTargets
  <2> QED
    BY <2>3, <2>4, <2>5 DEF GraphInv, IdleShowsTargets
<1> QED
  BY <1>4, <1>5

LEMMA OnFrameKeeps ==
  ASSUME GraphInv, OnFrame
  PROVE  GraphInv'
<1>1. visible /\ complete /\ UNCHANGED <<targets, visible, complete>>
  BY DEF GraphInv, IdleShowsTargets, OnFrame
<1>2. /\ UNCHANGED missed
      /\ display' \in {d \in [Kind -> Vectors(Norm)] :
                          \A k \in Kind : d[k] \in Advance(display[k], targets[k])}
      /\ frameTimer' = (display # targets)
  BY <1>1 DEF OnFrame
<1>3. GraphTypeOK'
  BY <1>1, <1>2 DEF GraphInv, GraphTypeOK
<1>4. ASSUME ~frameTimer' PROVE display' = targets'
  <2>1. display = targets
    BY <1>2, <1>4
  <2>2. ASSUME NEW k \in Kind PROVE display'[k] = targets[k]
    BY <1>2, <2>1, ArrivedStays DEF GraphInv, GraphTypeOK
  <2> QED
    BY <1>1, <1>2, <2>2 DEF GraphInv, GraphTypeOK
<1> QED
  BY <1>1, <1>3, <1>4 DEF GraphInv, IdleShowsTargets

LEMMA GraphStepKeeps == GraphInv /\ [GraphNext]_graphVars => GraphInv'
<1> SUFFICES ASSUME GraphInv, [GraphNext]_graphVars PROVE GraphInv'
  OBVIOUS
<1>1. CASE SetTargets
  BY <1>1, SetTargetsKeeps
<1>2. CASE Complete
  BY <1>2 DEF Complete, GraphInv, GraphTypeOK, IdleShowsTargets
<1>3. CASE Hide
  BY <1>3 DEF Hide, StopHidden, GraphInv, GraphTypeOK, IdleShowsTargets
<1>4. CASE Show
  BY <1>4 DEF Show, GraphInv, GraphTypeOK, IdleShowsTargets
<1>5. CASE OnFrame
  BY <1>5, OnFrameKeeps
<1>6. CASE UNCHANGED graphVars
  BY <1>6 DEF graphVars, GraphInv, GraphTypeOK, IdleShowsTargets
<1> QED
  BY <1>1, <1>2, <1>3, <1>4, <1>5, <1>6 DEF GraphNext

LEMMA GraphInvariance == GraphSpec => []GraphInv
BY GraphInitEstablishes, GraphStepKeeps, PTL DEF GraphSpec

(* The bars are norms, as many as the telemetry has, for any telemetry     *)
(* (gpucpuperformancegraph.cpp:550-586).                                   *)
THEOREM GraphTypeCorrect == GraphSpec => []GraphTypeOK
<1>1. GraphInv => GraphTypeOK
  BY DEF GraphInv
<1> QED
  BY <1>1, GraphInvariance, PTL

(* A graph without a running timer shows the telemetry, but for what was   *)
(* missed (gpucpuperformancegraph.cpp:561-655).                            *)
THEOREM IdleGraphShowsTargets == GraphSpec => []IdleShowsTargets
<1>1. GraphInv => IdleShowsTargets
  BY DEF GraphInv
<1> QED
  BY <1>1, GraphInvariance, PTL

-----------------------------------------------------------------------------
(* The fan curve.  Its loops are functions recursive on a finite index: with *)
(* the loop unrolled there is a function that satisfies the equation, and so *)
(* the one chosen does.                                                      *)

SpeedAt(i, goal, measured) == Bound(0, BaseSpeeds[i] + 5 * Bucket(goal, measured), 150)
Raised(previous, s) == IF s < previous THEN previous ELSE s
SpeedLoop(f, goal, measured) ==
    [i \in 0 .. 7 |-> IF i = 0 THEN 0 ELSE Raised(f[i - 1], SpeedAt(i, goal, measured))]

PointAt(i, goal) == Bound(20, goal + TempOffsets[i], 100)
Above(previous, p) == LET q == IF p <= previous THEN previous + 1 ELSE p
                      IN  IF q > 100 THEN 100 ELSE q
TempLoop(f, goal) ==
    [i \in 0 .. 6 |-> IF i = 0 THEN 0 ELSE Above(f[i - 1], PointAt(i, goal))]

LEMMA SpeedLoopEnds ==
  ASSUME NEW goal, NEW measured
  PROVE  LET f == CHOOSE f : f = SpeedLoop(f, goal, measured) IN f = SpeedLoop(f, goal, measured)
<1> DEFINE s(i) == SpeedAt(i, goal, measured)
           c1 == Raised(0, s(1))
           c2 == Raised(c1, s(2))
           c3 == Raised(c2, s(3))
           c4 == Raised(c3, s(4))
           c5 == Raised(c4, s(5))
           c6 == Raised(c5, s(6))
           c7 == Raised(c6, s(7))
           w == [i \in 0 .. 7 |-> IF i = 0 THEN 0 ELSE IF i = 1 THEN c1 ELSE IF i = 2 THEN c2
                                  ELSE IF i = 3 THEN c3 ELSE IF i = 4 THEN c4
                                  ELSE IF i = 5 THEN c5 ELSE IF i = 6 THEN c6 ELSE c7]
<1>1. /\ c1 = Raised(0, s(1)) /\ c2 = Raised(c1, s(2)) /\ c3 = Raised(c2, s(3))
      /\ c4 = Raised(c3, s(4)) /\ c5 = Raised(c4, s(5)) /\ c6 = Raised(c5, s(6))
      /\ c7 = Raised(c6, s(7))
  OBVIOUS
<1> HIDE DEF c1, c2, c3, c4, c5, c6, c7
<1>2. /\ w[0] = 0 /\ w[1] = c1 /\ w[2] = c2 /\ w[3] = c3 /\ w[4] = c4 /\ w[5] = c5
      /\ w[6] = c6 /\ w[7] = c7 /\ DOMAIN w = 0 .. 7 /\ w = [i \in 0 .. 7 |-> w[i]]
  OBVIOUS
<1> HIDE DEF w
<1>3. ASSUME NEW i \in 0 .. 7
      PROVE  w[i] = IF i = 0 THEN 0 ELSE Raised(w[i - 1], s(i))
  BY <1>1, <1>2
<1>4. w = SpeedLoop(w, goal, measured)
  BY <1>2, <1>3 DEF SpeedLoop
<1> QED
  BY <1>4

LEMMA TempLoopEnds ==
  ASSUME NEW goal
  PROVE  LET f == CHOOSE f : f = TempLoop(f, goal) IN f = TempLoop(f, goal)
<1> DEFINE p(i) == PointAt(i, goal)
           c1 == Above(0, p(1))
           c2 == Above(c1, p(2))
           c3 == Above(c2, p(3))
           c4 == Above(c3, p(4))
           c5 == Above(c4, p(5))
           c6 == Above(c5, p(6))
           w == [i \in 0 .. 6 |-> IF i = 0 THEN 0 ELSE IF i = 1 THEN c1 ELSE IF i = 2 THEN c2
                                  ELSE IF i = 3 THEN c3 ELSE IF i = 4 THEN c4
                                  ELSE IF i = 5 THEN c5 ELSE c6]
<1>1. /\ c1 = Above(0, p(1)) /\ c2 = Above(c1, p(2)) /\ c3 = Above(c2, p(3))
      /\ c4 = Above(c3, p(4)) /\ c5 = Above(c4, p(5)) /\ c6 = Above(c5, p(6))
  OBVIOUS
<1> HIDE DEF c1, c2, c3, c4, c5, c6
<1>2. /\ w[0] = 0 /\ w[1] = c1 /\ w[2] = c2 /\ w[3] = c3 /\ w[4] = c4 /\ w[5] = c5
      /\ w[6] = c6 /\ DOMAIN w = 0 .. 6 /\ w = [i \in 0 .. 6 |-> w[i]]
  OBVIOUS
<1> HIDE DEF w
<1>3. ASSUME NEW i \in 0 .. 6
      PROVE  w[i] = IF i = 0 THEN 0 ELSE Above(w[i - 1], p(i))
  BY <1>1, <1>2
<1>4. w = TempLoop(w, goal)
  BY <1>2, <1>3 DEF TempLoop
<1> QED
  BY <1>4

(* The speeds before the floor, one step of the loop after the other. *)
LEMMA RisingSteps ==
  ASSUME NEW goal, NEW measured
  PROVE  LET r == RisingSpeeds(goal, measured)
         IN  /\ r[1] = Raised(0, SpeedAt(1, goal, measured))
             /\ \A i \in 2 .. 7 : r[i] = Raised(r[i - 1], SpeedAt(i, goal, measured))
<1> DEFINE f == CHOOSE f : f = SpeedLoop(f, goal, measured)
<1>1. RisingSpeeds(goal, measured) = [k \in 1 .. 7 |-> f[k]]
  BY DEF RisingSpeeds, SpeedLoop, Raised, SpeedAt
<1>2. f = SpeedLoop(f, goal, measured)
  BY SpeedLoopEnds
<1> HIDE DEF f
<1>3. /\ f[0] = 0
      /\ \A i \in 1 .. 7 : f[i] = Raised(f[i - 1], SpeedAt(i, goal, measured))
  BY <1>2 DEF SpeedLoop
<1> DEFINE r == RisingSpeeds(goal, measured)
<1>4. \A k \in 1 .. 7 : r[k] = f[k]
  BY <1>1
<1> HIDE DEF r
<1>5. r[1] = Raised(0, SpeedAt(1, goal, measured))
  BY <1>3, <1>4
<1>6. \A i \in 2 .. 7 : r[i] = Raised(r[i - 1], SpeedAt(i, goal, measured))
  <2> TAKE i \in 2 .. 7
  <2>1. i \in 1 .. 7 /\ i - 1 \in 1 .. 7
    OBVIOUS
  <2> QED
    BY <1>3, <1>4, <2>1
<1> QED
  BY <1>5, <1>6 DEF r

LEMMA TempSteps ==
  ASSUME NEW goal
  PROVE  LET c == CurveTemps(goal)
         IN  /\ c = [i \in 1 .. 6 |-> c[i]]
             /\ c[1] = Above(0, PointAt(1, goal))
             /\ \A i \in 2 .. 6 : c[i] = Above(c[i - 1], PointAt(i, goal))
<1> DEFINE f == CHOOSE f : f = TempLoop(f, goal)
<1>1. CurveTemps(goal) = [k \in 1 .. 6 |-> f[k]]
  BY DEF CurveTemps, TempLoop, Above, PointAt
<1>2. f = TempLoop(f, goal)
  BY TempLoopEnds
<1> HIDE DEF f
<1>3. f[0] = 0 /\ (\A i \in 1 .. 6 : f[i] = Above(f[i - 1], PointAt(i, goal)))
  BY <1>2 DEF TempLoop
<1> DEFINE c == CurveTemps(goal)
<1>4. c = [i \in 1 .. 6 |-> c[i]] /\ (\A k \in 1 .. 6 : c[k] = f[k])
  BY <1>1
<1> HIDE DEF c
<1>5. c[1] = Above(0, PointAt(1, goal))
  BY <1>3, <1>4
<1>6. \A i \in 2 .. 6 : c[i] = Above(c[i - 1], PointAt(i, goal))
  <2> TAKE i \in 2 .. 6
  <2>1. i \in 1 .. 6 /\ i - 1 \in 1 .. 6
    OBVIOUS
  <2> QED
    BY <1>3, <1>4, <2>1
<1> QED
  BY <1>4, <1>5, <1>6 DEF c

LEMMA SpeedInRange ==
  ASSUME NEW goal \in Int, NEW measured \in Int, NEW i \in 1 .. 7
  PROVE  SpeedAt(i, goal, measured) \in 0 .. 150
<1>1. Bucket(goal, measured) \in Int
  BY DEF Bucket, Bound
<1>2. BaseSpeeds[i] \in Int
  BY DEF BaseSpeeds
<1> QED
  BY <1>1, <1>2 DEF SpeedAt, Bound

(* They are in range and rise. *)
LEMMA RisingRises ==
  ASSUME NEW goal \in Int, NEW measured \in Int
  PROVE  LET r == RisingSpeeds(goal, measured)
         IN  /\ \A i \in 1 .. 7 : r[i] \in 0 .. 150
             /\ \A i \in 1 .. 6 : r[i] <= r[i + 1]
<1> DEFINE r == RisingSpeeds(goal, measured)
<1>1. ASSUME NEW i \in 2 .. 7, r[i - 1] \in 0 .. 150
      PROVE  r[i] \in 0 .. 150 /\ r[i - 1] <= r[i]
  <2>1. r[i] = Raised(r[i - 1], SpeedAt(i, goal, measured))
    BY RisingSteps
  <2>2. i \in 1 .. 7
    OBVIOUS
  <2>3. SpeedAt(i, goal, measured) \in 0 .. 150
    BY <2>2, SpeedInRange
  <2> DEFINE v == SpeedAt(i, goal, measured)
             before == r[i - 1]
  <2>4. r[i] = Raised(before, v) /\ v \in 0 .. 150 /\ before \in 0 .. 150
    BY <1>1, <2>1, <2>3
  <2> HIDE DEF r, v, before
  <2>5. r[i] \in 0 .. 150 /\ before <= r[i]
    BY <2>4 DEF Raised
  <2> QED
    BY <2>5 DEF before
<1>2. r[1] \in 0 .. 150
  <2>1. r[1] = Raised(0, SpeedAt(1, goal, measured))
    BY RisingSteps
  <2>2. 1 \in 1 .. 7
    OBVIOUS
  <2>3. SpeedAt(1, goal, measured) \in 0 .. 150
    BY <2>2, SpeedInRange
  <2> HIDE DEF r
  <2> QED
    BY <2>1, <2>3 DEF Raised
<1> HIDE DEF r
<1>3. /\ r[2] \in 0 .. 150 /\ r[1] <= r[2]
  BY <1>1, <1>2
<1>4. r[3] \in 0 .. 150 /\ r[2] <= r[3]
  BY <1>1, <1>3
<1>5. r[4] \in 0 .. 150 /\ r[3] <= r[4]
  BY <1>1, <1>4
<1>6. r[5] \in 0 .. 150 /\ r[4] <= r[5]
  BY <1>1, <1>5
<1>7. r[6] \in 0 .. 150 /\ r[5] <= r[6]
  BY <1>1, <1>6
<1>8. r[7] \in 0 .. 150 /\ r[6] <= r[7]
  BY <1>1, <1>7
<1>9. (\A i \in 1 .. 7 : r[i] \in 0 .. 150) /\ (\A i \in 1 .. 6 : r[i] <= r[i + 1])
  BY <1>2, <1>3, <1>4, <1>5, <1>6, <1>7, <1>8
<1> QED
  BY <1>9 DEF r

LEMMA SpeedsAreFloored ==
  ASSUME NEW goal \in Int, NEW measured \in Int
  PROVE  /\ Speeds(goal, measured) = [i \in 1 .. 7 |-> Speeds(goal, measured)[i]]
         /\ \A i \in 1 .. 7 :
               Speeds(goal, measured)[i] =
                  IF measured >= goal + 8 /\ RisingSpeeds(goal, measured)[i] < HotSpeeds[i]
                  THEN HotSpeeds[i] ELSE RisingSpeeds(goal, measured)[i]
BY DEF Speeds

(* For the targets the service accepts no temperature of the curve is clamped. *)
LEMMA TempsUnclamped ==
  ASSUME NEW goal \in MinTargetTemp .. MaxTargetTemp
  PROVE  \A i \in 1 .. 6 : CurveTemps(goal)[i] = goal + TempOffsets[i]
<1> DEFINE c == CurveTemps(goal)
<1>1. goal \in 50 .. 95
  BY DEF MinTargetTemp, MaxTargetTemp
<1>2. /\ TempOffsets[1] = -24 /\ TempOffsets[2] = -16 /\ TempOffsets[3] = -10
      /\ TempOffsets[4] = -5 /\ TempOffsets[5] = 0 /\ TempOffsets[6] = 5
  BY DEF TempOffsets
<1>3. ASSUME NEW i \in 1 .. 6 PROVE PointAt(i, goal) = goal + TempOffsets[i]
  BY <1>1, <1>2 DEF PointAt, Bound
<1>4. /\ c[1] = Above(0, PointAt(1, goal))
      /\ \A i \in 2 .. 6 : c[i] = Above(c[i - 1], PointAt(i, goal))
  BY TempSteps
<1> HIDE DEF c
<1>5. c[1] = goal - 24
  BY <1>1, <1>2, <1>3, <1>4 DEF Above
<1>6. c[2] = goal - 16
  BY <1>1, <1>2, <1>3, <1>4, <1>5 DEF Above
<1>7. c[3] = goal - 10
  BY <1>1, <1>2, <1>3, <1>4, <1>6 DEF Above
<1>8. c[4] = goal - 5
  BY <1>1, <1>2, <1>3, <1>4, <1>7 DEF Above
<1>9. c[5] = goal
  BY <1>1, <1>2, <1>3, <1>4, <1>8 DEF Above
<1>10. c[6] = goal + 5
  BY <1>1, <1>2, <1>3, <1>4, <1>9 DEF Above
<1>11. \A i \in 1 .. 6 : c[i] = goal + TempOffsets[i]
  BY <1>1, <1>2, <1>5, <1>6, <1>7, <1>8, <1>9, <1>10
<1> QED
  BY <1>11 DEF c

LEMMA CurveAccepted ==
  ASSUME NEW goal \in MinTargetTemp .. MaxTargetTemp, NEW measured \in Int
  PROVE  WellFormed(Generated(goal, measured))
<1> DEFINE r == RisingSpeeds(goal, measured)
           s == Speeds(goal, measured)
           c == CurveTemps(goal)
<1>1. goal \in 50 .. 95
  BY DEF MinTargetTemp, MaxTargetTemp
<1>2. (\A i \in 1 .. 7 : r[i] \in 0 .. 150) /\ (\A i \in 1 .. 6 : r[i] <= r[i + 1])
  <2>1. goal \in Int
    BY <1>1
  <2> QED
    BY <2>1, RisingRises
<1>3. /\ s = [i \in 1 .. 7 |-> s[i]]
      /\ \A i \in 1 .. 7 :
            s[i] = IF measured >= goal + 8 /\ r[i] < HotSpeeds[i] THEN HotSpeeds[i] ELSE r[i]
  <2>1. goal \in Int
    BY <1>1
  <2> QED
    BY <2>1, SpeedsAreFloored
<1>4. c = [i \in 1 .. 6 |-> c[i]] /\ (\A i \in 1 .. 6 : c[i] = goal + TempOffsets[i])
  BY TempSteps, TempsUnclamped
<1>5. /\ \A i \in 1 .. 5 : HotSpeeds[i] = 0
      /\ \A i \in 1 .. 7 : HotSpeeds[i] \in Int
      /\ HotSpeeds[6] = 112 /\ HotSpeeds[7] = 132
  BY DEF HotSpeeds
<1>6. /\ TempOffsets[1] = -24 /\ TempOffsets[2] = -16 /\ TempOffsets[3] = -10
      /\ TempOffsets[4] = -5 /\ TempOffsets[5] = 0 /\ TempOffsets[6] = 5
  BY DEF TempOffsets
<1>7. Generated(goal, measured).speeds = s /\ Generated(goal, measured).temps = c
  BY DEF Generated
<1> HIDE DEF r, s, c
<1>8. \A i \in 1 .. 7 : s[i] \in 0 .. 150
  BY <1>2, <1>3, <1>5
<1>9. ASSUME NEW i \in 1 .. 6 PROVE s[i] <= s[i + 1]
  <2>1. i \in 1 .. 5 => HotSpeeds[i] = 0
    BY <1>5
  <2>2. i + 1 \in 1 .. 7 /\ i \in 1 .. 7 /\ (i \in 1 .. 5 \/ i = 6)
    OBVIOUS
  <2>3. r[i] \in 0 .. 150 /\ r[i + 1] \in 0 .. 150 /\ r[i] <= r[i + 1]
    BY <1>2, <2>2
  <2>4. CASE i \in 1 .. 5
    <3>2. s[i] = r[i]
      <4>1. ~(r[i] < HotSpeeds[i])
        BY <2>1, <2>3, <2>4
      <4> QED
        BY <1>3, <2>2, <4>1
    <3>3. s[i + 1] \in {r[i + 1], HotSpeeds[i + 1]} /\ (s[i + 1] # r[i + 1] => r[i + 1] < HotSpeeds[i + 1])
      BY <1>3, <2>2
    <3>4. HotSpeeds[i + 1] \in Int
      BY <1>5, <2>2
    <3> DEFINE here == r[i]
               next == r[i + 1]
               floored == s[i + 1]
               floor == HotSpeeds[i + 1]
    <3>5. /\ here \in 0 .. 150 /\ next \in 0 .. 150 /\ here <= next /\ floor \in Int
          /\ floored \in {next, floor} /\ (floored # next => next < floor)
      BY <2>3, <3>3, <3>4
    <3> HIDE DEF here, next, floored, floor
    <3>6. here <= floored
      BY <3>5
    <3> QED
      BY <3>2, <3>6 DEF here, floored
  <2>5. CASE i = 6
    BY <1>3, <1>5, <2>3, <2>5
  <2> QED
    BY <2>2, <2>4, <2>5
<1>10. (\A i \in 1 .. 6 : c[i] \in 20 .. 100) /\ (\A i \in 1 .. 5 : c[i] < c[i + 1])
  <2>1. /\ c[1] = goal - 24 /\ c[2] = goal - 16 /\ c[3] = goal - 10
        /\ c[4] = goal - 5 /\ c[5] = goal /\ c[6] = goal + 5
    BY <1>1, <1>4, <1>6
  <2> QED
    BY <1>1, <2>1
<1>11. s \in [1 .. 7 -> 0 .. 150] /\ c \in [1 .. 6 -> 20 .. 100]
  BY <1>3, <1>4, <1>8, <1>10
<1> QED
  BY <1>7, <1>9, <1>10, <1>11 DEF WellFormed

-----------------------------------------------------------------------------
(* A degree more measured, or a lower target. *)
LEMMA BucketGrows ==
  ASSUME NEW goal \in Int, NEW lower \in Int, NEW measured \in Int, NEW hotter \in Int,
         lower <= goal, measured <= hotter
  PROVE  /\ Bucket(goal, measured) \in Int /\ Bucket(lower, hotter) \in Int
         /\ Bucket(goal, measured) <= Bucket(lower, hotter)
<1> DEFINE a == measured - goal + 1
           b == hotter - lower + 1
<1>1. a \in Int /\ b \in Int /\ a <= b
  OBVIOUS
<1>2. a \div 3 \in Int /\ b \div 3 \in Int /\ a \div 3 <= b \div 3
  <2> HIDE DEF a, b
  <2> QED
    BY <1>1
<1> DEFINE m == a \div 3
           n == b \div 3
<1>3. Bucket(goal, measured) = Bound(-3, m, 7) /\ Bucket(lower, hotter) = Bound(-3, n, 7)
  BY DEF Bucket
<1>4. m \in Int /\ n \in Int /\ m <= n
  BY <1>2
<1> HIDE DEF m, n
<1> QED
  BY <1>3, <1>4 DEF Bound

LEMMA RisingGrows ==
  ASSUME NEW goal \in Int, NEW lower \in Int, NEW measured \in Int, NEW hotter \in Int,
         lower <= goal, measured <= hotter
  PROVE  \A i \in 1 .. 7 : RisingSpeeds(goal, measured)[i] <= RisingSpeeds(lower, hotter)[i]
<1> DEFINE r == RisingSpeeds(goal, measured)
           q == RisingSpeeds(lower, hotter)
<1>1. ASSUME NEW i \in 1 .. 7 PROVE SpeedAt(i, goal, measured) <= SpeedAt(i, lower, hotter)
  <2> DEFINE b == BaseSpeeds[i]
             m == Bucket(goal, measured)
             n == Bucket(lower, hotter)
  <2>3. m \in Int /\ n \in Int /\ m <= n
    BY BucketGrows
  <2>4. b \in Int
    BY DEF BaseSpeeds
  <2>1. b \in Int /\ m \in Int /\ n \in Int /\ m <= n
    BY <2>3, <2>4
  <2>2. /\ SpeedAt(i, goal, measured) = Bound(0, b + 5 * m, 150)
        /\ SpeedAt(i, lower, hotter) = Bound(0, b + 5 * n, 150)
    BY DEF SpeedAt
  <2> HIDE DEF b, m, n
  <2> QED
    BY <2>1, <2>2 DEF Bound
<1>2. /\ r[1] = Raised(0, SpeedAt(1, goal, measured))
      /\ q[1] = Raised(0, SpeedAt(1, lower, hotter))
      /\ \A i \in 2 .. 7 : /\ r[i] = Raised(r[i - 1], SpeedAt(i, goal, measured))
                           /\ q[i] = Raised(q[i - 1], SpeedAt(i, lower, hotter))
  BY RisingSteps
<1>3. \A i \in 1 .. 7 : r[i] \in Int /\ q[i] \in Int
  <2>1. \A i \in 1 .. 7 : r[i] \in 0 .. 150
    BY RisingRises
  <2>2. \A i \in 1 .. 7 : q[i] \in 0 .. 150
    BY RisingRises
  <2> HIDE DEF r, q
  <2> QED
    BY <2>1, <2>2
<1>4. ASSUME NEW i \in 1 .. 7
      PROVE  SpeedAt(i, goal, measured) \in Int /\ SpeedAt(i, lower, hotter) \in Int
  <2>1. SpeedAt(i, goal, measured) \in 0 .. 150
    BY SpeedInRange
  <2>2. SpeedAt(i, lower, hotter) \in 0 .. 150
    BY SpeedInRange
  <2> QED
    BY <2>1, <2>2
<1> HIDE DEF r, q
<1>5. r[1] <= q[1]
  <2>1. 1 \in 1 .. 7
    OBVIOUS
  <2>2. /\ SpeedAt(1, goal, measured) <= SpeedAt(1, lower, hotter)
        /\ SpeedAt(1, goal, measured) \in Int /\ SpeedAt(1, lower, hotter) \in Int
    BY <1>1, <1>4, <2>1
  <2> QED
    BY <1>2, <2>2 DEF Raised
<1>6. ASSUME NEW i \in 2 .. 7, r[i - 1] <= q[i - 1] PROVE r[i] <= q[i]
  <2>1. i \in 1 .. 7 /\ i - 1 \in 1 .. 7
    OBVIOUS
  <2> DEFINE a == r[i - 1]
             b == q[i - 1]
             u == SpeedAt(i, goal, measured)
             v == SpeedAt(i, lower, hotter)
  <2>2. /\ a \in Int /\ b \in Int /\ u \in Int /\ v \in Int /\ a <= b /\ u <= v
        /\ r[i] = Raised(a, u) /\ q[i] = Raised(b, v)
    BY <1>1, <1>2, <1>3, <1>4, <1>6, <2>1
  <2> HIDE DEF a, b, u, v
  <2> QED
    BY <2>2 DEF Raised
<1>7. r[2] <= q[2]
  BY <1>5, <1>6
<1>8. r[3] <= q[3]
  BY <1>6, <1>7
<1>9. r[4] <= q[4]
  BY <1>6, <1>8
<1>10. r[5] <= q[5]
  BY <1>6, <1>9
<1>11. r[6] <= q[6]
  BY <1>6, <1>10
<1>12. r[7] <= q[7]
  BY <1>6, <1>11
<1>13. \A i \in 1 .. 7 : r[i] <= q[i]
  BY <1>5, <1>7, <1>8, <1>9, <1>10, <1>11, <1>12
<1> QED
  BY <1>13 DEF r, q

LEMMA HotterCurve ==
  ASSUME NEW goal \in MinTargetTemp .. MaxTargetTemp, NEW lower \in MinTargetTemp .. MaxTargetTemp,
         NEW measured \in Int, NEW hotter \in Int, lower <= goal, measured <= hotter
  PROVE  NoWeaker(Generated(goal, measured), Generated(lower, hotter))
<1> DEFINE r == RisingSpeeds(goal, measured)
           q == RisingSpeeds(lower, hotter)
<1>1. goal \in Int /\ lower \in Int
  BY DEF MinTargetTemp, MaxTargetTemp
<1>2. \A i \in 1 .. 7 : r[i] \in Int /\ q[i] \in Int /\ r[i] <= q[i]
  <2>1. \A i \in 1 .. 7 : r[i] \in 0 .. 150
    BY <1>1, RisingRises
  <2>2. \A i \in 1 .. 7 : q[i] \in 0 .. 150
    BY <1>1, RisingRises
  <2>3. \A i \in 1 .. 7 : r[i] <= q[i]
    BY <1>1, RisingGrows
  <2> HIDE DEF r, q
  <2> TAKE i \in 1 .. 7
  <2>4. r[i] \in 0 .. 150 /\ q[i] \in 0 .. 150 /\ r[i] <= q[i]
    BY <2>1, <2>2, <2>3
  <2> QED
    BY <2>4
<1>3. \A i \in 1 .. 7 :
         /\ Speeds(goal, measured)[i] =
               IF measured >= goal + 8 /\ r[i] < HotSpeeds[i] THEN HotSpeeds[i] ELSE r[i]
         /\ Speeds(lower, hotter)[i] =
               IF hotter >= lower + 8 /\ q[i] < HotSpeeds[i] THEN HotSpeeds[i] ELSE q[i]
  BY <1>1, SpeedsAreFloored
<1>4. \A i \in 1 .. 7 : HotSpeeds[i] \in Int
  BY DEF HotSpeeds
<1> HIDE DEF r, q
<1>5. \A i \in 1 .. 7 : Speeds(goal, measured)[i] <= Speeds(lower, hotter)[i]
  BY <1>1, <1>2, <1>3, <1>4
<1>6. \A i \in 1 .. 6 : TempOffsets[i] \in Int
  BY DEF TempOffsets
<1>7. \A i \in 1 .. 6 : CurveTemps(lower)[i] <= CurveTemps(goal)[i]
  BY <1>1, <1>6, TempsUnclamped
<1> QED
  BY <1>5, <1>7 DEF NoWeaker, Generated

-----------------------------------------------------------------------------
(* The components together.  A step of one leaves the variables of the others *)
(* alone, so each keeps its own invariant.                                    *)

SweepInv == target \in MinTargetTemp .. MaxTargetTemp /\ temp \in 1 .. 255
ControlsInv == CpuInv /\ GpuInv /\ AutoInv /\ GraphInv /\ SweepInv

LEMMA SweepStepKeeps == SweepInv /\ [SweepNext]_sweepVars => SweepInv'
<1> SUFFICES ASSUME SweepInv, [SweepNext]_sweepVars PROVE SweepInv'
  OBVIOUS
<1> USE DEF SweepInv, MinTargetTemp, MaxTargetTemp
<1>1. CASE Warms
  BY <1>1 DEF Warms
<1>2. CASE TargetLowered
  BY <1>2 DEF TargetLowered
<1>3. CASE UNCHANGED sweepVars
  BY <1>3 DEF sweepVars
<1> QED
  BY <1>1, <1>2, <1>3 DEF SweepNext

LEMMA SweepBegins == SweepInit => SweepInv
BY DEF SweepInit, SweepInv, MinTargetTemp, MaxTargetTemp

LEMMA ControlsSteps ==
  ASSUME [Next]_all
  PROVE  /\ [CpuNext]_cpuVars /\ [GpuNext]_gpuVars /\ [AutoNext]_autoVars
         /\ [GraphNext]_graphVars /\ [SweepNext]_sweepVars
<1>1. CASE CpuStep
  BY <1>1 DEF CpuStep
<1>2. CASE GpuStep
  BY <1>2 DEF GpuStep
<1>3. CASE AutoStep
  BY <1>3 DEF AutoStep
<1>4. CASE GraphStep
  BY <1>4 DEF GraphStep
<1>5. CASE SweepStep
  BY <1>5 DEF SweepStep
<1>6. CASE UNCHANGED all
  BY <1>6 DEF all
<1> QED
  BY <1>1, <1>2, <1>3, <1>4, <1>5, <1>6 DEF Next

LEMMA ControlsInvariance == Spec => []ControlsInv
<1>1. Init => ControlsInv
  BY CpuInitEstablishes, GpuInitEstablishes, AutoInitEstablishes, GraphInitEstablishes,
     SweepBegins DEF Init, ControlsInv
<1>2. ControlsInv /\ [Next]_all => ControlsInv'
  BY ControlsSteps, CpuStepKeeps, GpuStepKeeps, AutoStepKeeps, GraphStepKeeps, SweepStepKeeps
     DEF ControlsInv
<1> QED
  BY <1>1, <1>2, PTL DEF Spec

(* In every behaviour of the five components side by side the control of the *)
(* CPU, of the GPUs, the automatic profile and the animation of the graph     *)
(* have the types of their members (cpucontrolbackend.cpp, gpucontrolservice- *)
(* backend.cpp, autoprofilecontroller.cpp, graphanimation.cpp).               *)
THEOREM ControlsTypesHold == Spec => []ControlsTypeOK
<1>1. ControlsInv => ControlsTypeOK
  BY DEF ControlsInv, ControlsTypeOK, CpuInv, GpuInv, AutoInv, GraphInv
<1> QED
  BY <1>1, ControlsInvariance, PTL

(* For every target the service accepts and every temperature measured, the   *)
(* curve applyCurve generates is one the parameters of the firmware take:     *)
(* seven speeds in 0..150 that never fall, at six temperatures in 20..100     *)
(* that rise strictly (fantargetcontroller.cpp:141-174).                      *)
THEOREM CurveIsAccepted == Spec => []CurveWellFormed
<1>1. SweepInv => CurveWellFormed
  BY CurveAccepted DEF SweepInv, CurveWellFormed
<1> QED
  BY <1>1, ControlsInvariance, PTL DEF ControlsInv

(* A degree more measured, or a target a degree lower, never yields a curve   *)
(* that cools less: the rounding to buckets of three degrees, the clamping,   *)
(* the maximum with the previous point and the floor of the last two speeds   *)
(* are all monotone (fantargetcontroller.cpp:155-174).                        *)
THEOREM HotterCools == Spec => HotterNeverWeaker
<1> DEFINE Cools == part = "curve" => NoWeaker(Generated(target, temp), Generated(target', temp'))
<1>1. ASSUME SweepInv, SweepInv', [SweepNext]_sweepVars PROVE [Cools]_<<target, temp>>
  <2>1. target \in Int /\ temp \in Int /\ temp' \in Int /\ target' \in Int
    BY <1>1 DEF SweepInv, MinTargetTemp, MaxTargetTemp
  <2>2. CASE SweepNext
    <3>1. target' <= target /\ temp <= temp'
      BY <2>1, <2>2 DEF SweepNext, Warms, TargetLowered
    <3> QED
      BY <1>1, <2>1, <3>1, HotterCurve DEF SweepInv
  <2>3. CASE UNCHANGED sweepVars
    BY <2>3 DEF sweepVars
  <2> QED
    BY <1>1, <2>2, <2>3
<1>2. ControlsInv /\ ControlsInv' /\ [Next]_all => [Cools]_<<target, temp>>
  BY <1>1, ControlsSteps DEF ControlsInv
<1> QED
  BY <1>2, ControlsInvariance, PTL DEF Spec, HotterNeverWeaker
=============================================================================
