----------------------------- MODULE Registers -----------------------------
(***************************************************************************)
(* The writable parameters of a device profile (service/parameter.cpp,     *)
(* ioparameterimpl.h) on top of the EC view: each is a field of bits of a  *)
(* register, several fields may share a register, and every value a client *)
(* sets is saved in the settings file and written again when the parameters*)
(* are registered at the next start.                                       *)
(*                                                                         *)
(* The memory below is the abstract one: every action is an action of      *)
(* EcView together with what the parameters do in the same callback.       *)
(***************************************************************************)
EXTENDS EcView, Sequences, SequencesExt

CONSTANTS Param,      \* the parameters of the profile
          Order,      \* Param as a sequence: the order of registration
          Bit,        \* the bits of a register
          RegOf,      \* mAddress of each parameter
          Mask,       \* mMask of each parameter: a set of bits
          Value,      \* values of the parameters
          Code,       \* mEnumHash of each parameter: value -> set of bits
          FirstValue, \* the value-initialised T, which an unknown code gives
          Invalid,    \* an invalid QVariant: mValue before it is published
          NotSaved    \* the settings file has no entry

ASSUME ByteAssumption == Byte = SUBSET Bit
ASSUME OrderAssumption ==
    /\ Order \in Seq(Param)
    /\ ToSet(Order) = Param
    /\ \A i, j \in 1 .. Len(Order) : Order[i] = Order[j] => i = j
ASSUME LayoutAssumption ==
    /\ RegOf \in [Param -> Addr]
    /\ Mask \in [Param -> SUBSET Bit]
    /\ Code \in [Param -> [Value -> SUBSET Bit]]
    /\ FirstValue \in Value
    /\ Invalid \notin Value /\ NotSaved \notin Value

VARIABLES stage,     \* of the service: see Stages
          published, \* mValue of each parameter
          saved,     \* the settings file
          toRestore, \* parameters whose zero-delay restore timer is pending
          drifted    \* history: parameters whose field the firmware changed
                     \* since the service started

pvars == <<stage, published, saved, toRestore, drifted>>
vars == <<avars, pvars>>

(* Before the first read of the EC; parameters registered; or running without
   a profile because that read failed. *)
Stages == {"booting", "ready", "unready"}
NonePublished == [p \in Param |-> Invalid]

-----------------------------------------------------------------------------
Field(p, mem) == mem[RegOf[p]] \cap Mask[p]

(* readValue: the key of the masked byte in the table, or T{} if it has none. *)
Decode(p, mem) ==
    IF \E v \in Value : Code[p][v] = Field(p, mem)
    THEN CHOOSE v \in Value : Code[p][v] = Field(p, mem)
    ELSE FirstValue

(* bufferChanged: every parameter updates and publishes. *)
Decoded(mem) == [p \in Param |-> Decode(p, mem)]

EncodeWhole(p, v, mem) == [mem EXCEPT ![RegOf[p]] = Code[p][v]] \* mutant
(* writeValue: read-modify-write of the register in the shadow. *)
Encode(p, v, mem) ==
    [mem EXCEPT ![RegOf[p]] = (@ \ Mask[p]) \union (Code[p][v] \cap Mask[p])]

SetValueSavesOld(p, v) == \* mutant: saves the value published before the write
    IF published[p] = v THEN UNCHANGED <<avars, published, saved>>
    ELSE Accept({RegOf[p]}) /\ view' = Encode(p, v, view)
         /\ published' = Decoded(view') /\ saved' = [saved EXCEPT ![p] = published[p]]
(* Parameter::setValue: the published value is not written (nor saved) again;
   a written one is saved, and bufferChanged updates every parameter. *)
SetValue(p, v) ==
    \/ /\ published[p] = v
       /\ UNCHANGED <<avars, published, saved>>
    \/ /\ published[p] # v
       /\ Accept({RegOf[p]})
       /\ view' = Encode(p, v, view)
       /\ published' = Decoded(view')
       /\ saved' = [saved EXCEPT ![p] = v]

-----------------------------------------------------------------------------
Init == /\ AInit
        /\ stage = "booting"
        /\ published = NonePublished
        /\ saved = [p \in Param |-> NotSaved]
        /\ toRestore = <<>>
        /\ drifted = {}

(* A client's writeParameter call. *)
WriteParameter(p, v) ==
    /\ stage = "ready" /\ ~complete
    /\ SetValue(p, v)
    /\ UNCHANGED <<stage, toRestore, drifted>>

RestorePublishes == \* mutant: shows the saved value without writing it
    /\ toRestore # <<>> /\ ~complete /\ toRestore' = Tail(toRestore)
    /\ published' = IF saved[Head(toRestore)] = NotSaved THEN published
                    ELSE [published EXCEPT ![Head(toRestore)] = saved[Head(toRestore)]]
    /\ UNCHANGED <<avars, stage, saved, drifted>>
(* The timer of the parameter registered first among those left. *)
Restore ==
    /\ toRestore # <<>> /\ ~complete
    /\ toRestore' = Tail(toRestore)
    /\ LET p == Head(toRestore)
       IN  \/ saved[p] # NotSaved /\ SetValue(p, saved[p])
           \/ saved[p] = NotSaved /\ UNCHANGED <<avars, published, saved>>
    /\ UNCHANGED <<stage, drifted>>

Flush == Complete /\ UNCHANGED pvars

(* An attempt fails.  The first one is made while the registrar waits: if it
   fails no profile is ever applied. *)
FlushFails(S) ==
    /\ Abandon(S)
    /\ stage' = IF stage = "booting" THEN "unready" ELSE stage
    /\ UNCHANGED <<published, saved, toRestore, drifted>>

(* The first answer registers the parameters, which then know no value; a
   later one is published if something was written or has changed. *)
ReadBack ==
    /\ Refresh
    /\ \/ /\ stage = "booting"
          /\ stage' = "ready"
          /\ published' = NonePublished
          /\ toRestore' = Order
       \/ /\ stage = "ready"
          /\ published' = IF hw # view \/ dirty # {} THEN Decoded(hw) ELSE published
          /\ UNCHANGED <<stage, toRestore>>
       \/ /\ stage = "unready"
          /\ UNCHANGED <<stage, published, toRestore>>
    /\ UNCHANGED <<saved, drifted>>

ApplyProfileUnrestored == \* mutant: the new parameters are not restored
    /\ stage = "ready" /\ ~complete /\ published' = NonePublished
    /\ UNCHANGED <<avars, stage, saved, drifted, toRestore>>
(* A saved profile is applied live: the parameters are made anew. *)
ApplyProfile ==
    /\ stage = "ready" /\ ~complete
    /\ published' = NonePublished
    /\ toRestore' = Order
    /\ UNCHANGED <<avars, stage, saved, drifted>>

FirmwareChanges(a, b) ==
    /\ Drift(a, b) /\ b # hw[a]
    /\ drifted' = drifted \union
           {p \in Param : RegOf[p] = a /\ Field(p, hw') # Field(p, hw)}
    /\ UNCHANGED <<stage, published, saved, toRestore>>

RestartService ==
    /\ Restart
    /\ stage' = "booting"
    /\ published' = NonePublished
    /\ toRestore' = <<>>
    /\ drifted' = {}
    /\ UNCHANGED saved

Next == \/ \E p \in Param, v \in Value : WriteParameter(p, v)
        \/ Restore \/ Flush \/ ReadBack \/ ApplyProfile \/ RestartService
        \/ \E S \in SUBSET dirty : FlushFails(S)
        \/ \E a \in Addr, b \in Byte : FirmwareChanges(a, b)

(* The event loop runs its timers; a backend that fails does not fail for
   ever. *)
Fairness == SF_vars(Restore) /\ SF_vars(Flush) /\ SF_vars(ReadBack)

Spec == Init /\ [][Next]_vars
FairSpec == Spec /\ Fairness

-----------------------------------------------------------------------------
TypeOK ==
    /\ view \in [Addr -> Byte] \union {Unread}
    /\ hw \in [Addr -> Byte]
    /\ dirty \subseteq Addr
    /\ complete \in BOOLEAN
    /\ stage \in Stages
    /\ published \in [Param -> Value \union {Invalid}]
    /\ saved \in [Param -> Value \union {NotSaved}]
    /\ toRestore \in Seq(Param)
    /\ drifted \subseteq Param

(* Once a parameter has been restored, and as long as the firmware leaves its
   field alone, the saved setting is the one clients see and the one in the
   shadow, and it is in the EC as soon as its register is written: whatever is
   written to the fields beside it, whichever writes fail, and wherever a
   restart falls between accepting, saving and writing (parameter.cpp:20-52). *)
SettingsHonoured ==
    stage = "ready" =>
        \A p \in Param :
            saved[p] # NotSaved /\ p \notin drifted /\ p \notin ToSet(toRestore) =>
                /\ published[p] = saved[p]
                /\ Decode(p, view) = saved[p]
                /\ RegOf[p] \notin dirty => Decode(p, hw) = saved[p]

(* A value clients see changes by a write of that very parameter or because the
   firmware changed its field, never because another field of the register was
   written (ioparameterimpl.h:37-49). *)
OnlyOwnWrites ==
    [][\A p \in Param :
          published[p] # Invalid /\ published'[p] \notin {Invalid, published[p]} =>
              p \in drifted \/ saved'[p] = published'[p]]_vars

(* If profiles are not applied for ever, a saved setting reaches the EC, unless
   it is changed, the firmware changes the field, or the service goes down. *)
SettingsReachEc ==
    <>[][~ApplyProfile]_vars =>
        \A p \in Param, v \in Value :
            saved[p] = v ~> \/ Decode(p, hw) = v \/ saved[p] # v
                            \/ p \in drifted \/ stage # "ready"
=============================================================================
