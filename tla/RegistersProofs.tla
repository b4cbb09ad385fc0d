-------------------------- MODULE RegistersProofs --------------------------
(***************************************************************************)
(* Proofs about the parameters, for profiles whose fields are disjoint and *)
(* whose code tables can be decoded.  (Most built-in profiles do not have  *)
(* disjoint fields: MCRegistersShared shows what happens to those.)        *)
(***************************************************************************)
EXTENDS Registers, TLAPS

ASSUME DisjointFields ==
    \A p, q \in Param : p # q /\ RegOf[p] = RegOf[q] => Mask[p] \cap Mask[q] = {}
ASSUME DecodableCodes ==
    \A p \in Param : \A v, w \in Value :
        /\ Code[p][v] \subseteq Mask[p]
        /\ Code[p][v] = Code[p][w] => v = w

-----------------------------------------------------------------------------
(* The inductive invariant: what is known in each stage; a published value is
   the one in the shadow; shadow and EC agree on every field that need not be
   written and that the firmware left alone. *)
Staged == /\ stage = "ready" => view # Unread
          /\ stage # "ready" => toRestore = <<>> /\ published = NonePublished
          /\ view = Unread => dirty = {}

PublishedCurrent ==
    \A p \in Param : published[p] # Invalid => published[p] = Decode(p, view)

Synced ==
    stage = "ready" =>
        \A p \in Param : p \notin drifted /\ (RegOf[p] \notin dirty \/ complete) =>
            Field(p, hw) = Field(p, view)

Restored ==
    stage = "ready" =>
        \A p \in Param :
            saved[p] # NotSaved /\ p \notin drifted /\ p \notin ToSet(toRestore) =>
                published[p] = saved[p]

IInv == TypeOK /\ Staged /\ PublishedCurrent /\ Synced /\ Restored

-----------------------------------------------------------------------------
(* Fields and codes. *)

(* Decoding depends on the field only. *)
LEMMA SameFieldSameValue ==
    ASSUME NEW p \in Param, NEW m, NEW n, Field(p, m) = Field(p, n)
    PROVE  Decode(p, m) = Decode(p, n)
BY DEF Decode

(* Every byte decodes to a value. *)
LEMMA DecodeType ==
    ASSUME NEW p \in Param, NEW m
    PROVE  Decode(p, m) \in Value
BY LayoutAssumption DEF Decode

(* A written field reads back as the value written, and the other fields of
   the profile are untouched. *)
LEMMA EncodeOneField ==
    ASSUME NEW p \in Param, NEW v \in Value, NEW m \in [Addr -> Byte]
    PROVE  /\ Encode(p, v, m) \in [Addr -> Byte]
           /\ \A a \in Addr \ {RegOf[p]} : Encode(p, v, m)[a] = m[a]
           /\ Decode(p, Encode(p, v, m)) = v
           /\ \A q \in Param \ {p} : Field(q, Encode(p, v, m)) = Field(q, m)
<1> DEFINE r == RegOf[p]
           e == Encode(p, v, m)
<1>1. r \in Addr /\ Mask[p] \subseteq Bit /\ Code[p][v] \subseteq Mask[p]
  BY LayoutAssumption, DecodableCodes
<1>2. /\ e[r] = (m[r] \ Mask[p]) \union (Code[p][v] \cap Mask[p])
      /\ \A a \in Addr \ {r} : e[a] = m[a]
      /\ e \in [Addr -> Byte]
  BY <1>1, ByteAssumption DEF Encode
<1>3. Field(p, e) = Code[p][v]
  BY <1>1, <1>2 DEF Field
<1>4. Decode(p, e) = v
  BY <1>3, DecodableCodes DEF Decode
<1>5. ASSUME NEW q \in Param \ {p} PROVE Field(q, e) = Field(q, m)
  <2>1. CASE RegOf[q] = r
    <3>1. Mask[p] \cap Mask[q] = {}
      BY <2>1, DisjointFields
    <3> QED BY <1>2, <2>1, <3>1 DEF Field
  <2>2. CASE RegOf[q] # r
    BY <1>2, <2>2, LayoutAssumption DEF Field
  <2> QED BY <2>1, <2>2
<1> QED BY <1>2, <1>4, <1>5

(* The first element and the rest of a sequence are all of it. *)
LEMMA HeadAndTail ==
    ASSUME NEW s \in Seq(Param), s # <<>>
    PROVE  /\ Head(s) \in Param
           /\ Tail(s) \in Seq(Param)
           /\ ToSet(s) = {Head(s)} \union ToSet(Tail(s))
<1>1. Len(s) \in Nat /\ Len(s) > 0 /\ Head(s) = s[1] /\ Head(s) \in Param
  OBVIOUS
<1>2. /\ Tail(s) \in Seq(Param)
      /\ Len(Tail(s)) = Len(s) - 1
      /\ \A i \in 1 .. Len(s) - 1 : Tail(s)[i] = s[i + 1]
  BY <1>1
<1>0. DOMAIN s = 1 .. Len(s) /\ DOMAIN Tail(s) = 1 .. Len(Tail(s))
  BY <1>2
<1>3. ASSUME NEW i \in 1 .. Len(s)
      PROVE  s[i] \in {Head(s)} \union ToSet(Tail(s))
  <2>1. CASE i = 1
    BY <1>1, <2>1
  <2>2. CASE i # 1
    <3>1. i - 1 \in 1 .. Len(Tail(s)) /\ s[i] = Tail(s)[i - 1]
      BY <1>1, <1>2, <2>2
    <3>2. Tail(s)[i - 1] \in ToSet(Tail(s))
      BY <1>0, <3>1 DEF ToSet
    <3> QED BY <3>1, <3>2
  <2> QED BY <2>1, <2>2
<1>4. ASSUME NEW j \in 1 .. Len(Tail(s)) PROVE Tail(s)[j] \in ToSet(s)
  <2>1. j + 1 \in 1 .. Len(s) /\ Tail(s)[j] = s[j + 1]
    BY <1>1, <1>2
  <2> QED BY <1>0, <2>1 DEF ToSet
<1>5. s[1] \in ToSet(s)
  BY <1>0, <1>1 DEF ToSet
<1>6. ASSUME NEW x \in ToSet(s) PROVE x \in {Head(s)} \union ToSet(Tail(s))
  <2>1. PICK i \in 1 .. Len(s) : x = s[i]
    BY <1>0 DEF ToSet
  <2> QED BY <1>3, <2>1
<1>7. ASSUME NEW x \in ToSet(Tail(s)) PROVE x \in ToSet(s)
  <2>1. PICK j \in 1 .. Len(Tail(s)) : x = Tail(s)[j]
    BY <1>0 DEF ToSet
  <2> QED BY <1>4, <2>1
<1> QED BY <1>1, <1>2, <1>5, <1>6, <1>7
-----------------------------------------------------------------------------
(* Initially nothing is registered. *)
LEMMA InitInductive == Init => IInv
<1> SUFFICES ASSUME Init PROVE IInv
  OBVIOUS
<1>1. TypeOK
  <2>1. /\ view \in [Addr -> Byte] \union {Unread} /\ hw \in [Addr -> Byte]
        /\ dirty \subseteq Addr /\ complete \in BOOLEAN
    BY DEF Init, AInit
  <2>2. /\ published \in [Param -> Value \union {Invalid}]
        /\ saved \in [Param -> Value \union {NotSaved}]
    BY DEF Init, NonePublished
  <2>3. toRestore \in Seq(Param) /\ stage \in Stages /\ drifted \subseteq Param
    BY DEF Init, Stages
  <2> QED BY <2>1, <2>2, <2>3 DEF TypeOK
<1>2. Staged /\ PublishedCurrent /\ Synced /\ Restored
  BY DEF Init, AInit, Staged, PublishedCurrent, Synced, Restored, NonePublished
<1> QED BY <1>1, <1>2 DEF IInv

(* What a call of setValue does to the fields: the parameter then has the value
   asked for, and every other published value stays what it was. *)
LEMMA SetValueEffect ==
    ASSUME IInv, stage = "ready", NEW p \in Param, NEW v \in Value,
           SetValue(p, v), published[p] # v
    PROVE  /\ ~complete /\ complete' = complete /\ hw' = hw
           /\ view' \in [Addr -> Byte] /\ dirty' = dirty \union {RegOf[p]}
           /\ published' = Decoded(view')
           /\ published'[p] = v
           /\ saved' = [saved EXCEPT ![p] = v]
           /\ \A q \in Param \ {p} : /\ Field(q, view') = Field(q, view)
                                     /\ published'[q] = Decode(q, view)
<1>1. /\ view \in [Addr -> Byte]
      /\ ~complete /\ complete' = complete /\ hw' = hw
      /\ dirty' = dirty \union {RegOf[p]}
      /\ view' = Encode(p, v, view)
      /\ published' = Decoded(view')
      /\ saved' = [saved EXCEPT ![p] = v]
  BY DEF SetValue, Accept, IInv, Staged, TypeOK
<1>2. /\ view' \in [Addr -> Byte]
      /\ Decode(p, view') = v
      /\ \A q \in Param \ {p} : Field(q, view') = Field(q, view)
  BY <1>1, EncodeOneField
<1>3. \A q \in Param \ {p} : Decode(q, view') = Decode(q, view)
  BY <1>2, SameFieldSameValue
<1> QED BY <1>1, <1>2, <1>3 DEF Decoded

(* A call of setValue keeps the invariant, from a client or from a restore. *)
LEMMA SetValueInductive ==
    ASSUME IInv, stage = "ready", NEW p \in Param, NEW v \in Value,
           SetValue(p, v), UNCHANGED <<stage, drifted>>,
           toRestore' \in Seq(Param),
           \A q \in Param : q \notin ToSet(toRestore)' =>
               q \notin ToSet(toRestore) \/ (q = p /\ saved[p] = v)
    PROVE  IInv'
<1>1. CASE published[p] = v
  <2>1. UNCHANGED <<view, hw, dirty, complete, published, saved>>
    BY <1>1 DEF SetValue, avars
  <2>2. TypeOK' /\ Staged' /\ PublishedCurrent' /\ Synced'
    BY <2>1 DEF IInv, TypeOK, Staged, PublishedCurrent, Synced, Decode, Field
  <2>3. Restored'
    BY <1>1, <2>1 DEF IInv, Restored
  <2> QED BY <2>2, <2>3 DEF IInv
<1>2. CASE published[p] # v
  <2>0. /\ ~complete /\ complete' = complete /\ hw' = hw
        /\ view' \in [Addr -> Byte] /\ dirty' = dirty \union {RegOf[p]}
        /\ published' = Decoded(view')
        /\ published'[p] = v
        /\ saved' = [saved EXCEPT ![p] = v]
        /\ \A q \in Param \ {p} : /\ Field(q, view') = Field(q, view)
                                  /\ published'[q] = Decode(q, view)
    BY <1>2, SetValueEffect
  <2>1. TypeOK'
    BY <2>0, DecodeType, LayoutAssumption DEF IInv, TypeOK, Decoded
  <2>2. Staged'
    BY <2>0, UnreadAssumption DEF IInv, Staged
  <2>3. PublishedCurrent'
    BY <2>0 DEF PublishedCurrent, Decoded, Decode, Field
  <2>4. Synced'
    <3> SUFFICES ASSUME NEW q \in Param, q \notin drifted, RegOf[q] \notin dirty'
                 PROVE  Field(q, hw') = Field(q, view')
      BY <2>0 DEF Synced, Field
    <3>1. q # p /\ RegOf[q] \notin dirty
      BY <2>0
    <3>2. Field(q, hw) = Field(q, view)
      BY <3>1 DEF IInv, Synced
    <3> QED BY <2>0, <3>1, <3>2
  <2>5. Restored'
    <3> SUFFICES ASSUME NEW q \in Param, saved'[q] # NotSaved, q \notin drifted,
                        q \notin ToSet(toRestore)'
                 PROVE  published'[q] = saved'[q]
      BY DEF Restored
    <3>1. CASE q = p
      BY <2>0, <3>1 DEF IInv, TypeOK
    <3>2. CASE q # p
      <4>1. saved'[q] = saved[q] /\ published[q] = saved[q]
        BY <2>0, <3>2 DEF IInv, TypeOK, Restored
      <4>2. published[q] # Invalid
        BY <4>1, LayoutAssumption DEF IInv, TypeOK
      <4> QED BY <2>0, <3>2, <4>1, <4>2 DEF IInv, PublishedCurrent
    <3> QED BY <3>1, <3>2
  <2> QED BY <2>1, <2>2, <2>3, <2>4, <2>5 DEF IInv
<1> QED BY <1>1, <1>2

(* A step that leaves every published, saved and shown value alone, and changes
   the EC or the dirty set as the fields allow, keeps the invariant. *)
LEMMA MemoryStepInductive ==
    ASSUME IInv, UNCHANGED <<published, saved, toRestore, view, dirty>>,
           hw' \in [Addr -> Byte], complete' \in BOOLEAN,
           drifted' \in SUBSET Param, drifted \subseteq drifted',
           stage' = stage \/ (stage' = "unready" /\ stage = "booting"),
           stage = "ready" =>
               \A p \in Param :
                   p \notin drifted' /\ (RegOf[p] \notin dirty \/ complete') =>
                       Field(p, hw') = Field(p, view)
    PROVE  IInv'
<1>1. TypeOK' /\ Staged' /\ PublishedCurrent' /\ Restored'
  BY DEF IInv, TypeOK, Stages, Staged, PublishedCurrent, Restored, Decode, Field
<1>2. Synced'
  BY DEF Synced, Field
<1> QED BY <1>1, <1>2 DEF IInv
(* When a later answer is published, no field the firmware left alone shows
   another value than before. *)
LEMMA ReadBackKeepsValues ==
    ASSUME IInv, Refresh, stage = "ready", NEW p \in Param, p \notin drifted
    PROVE  Field(p, hw) = Field(p, view) /\ Decode(p, hw) = Decode(p, view)
<1>1. Field(p, hw) = Field(p, view)
  BY DEF IInv, Synced, Refresh
<1> QED BY <1>1, SameFieldSameValue

(* The parameters are made anew: nothing is published, all are to be restored. *)
LEMMA RegistrationInductive ==
    ASSUME IInv, published' = NonePublished, toRestore' = Order, stage' = "ready",
           UNCHANGED <<saved, drifted>>,
           view' \in [Addr -> Byte], hw' \in [Addr -> Byte],
           dirty' \subseteq Addr, complete' \in BOOLEAN,
           \A p \in Param : p \notin drifted /\ (RegOf[p] \notin dirty' \/ complete') =>
               Field(p, hw') = Field(p, view')
    PROVE  IInv'
<1>1. TypeOK'
  <2>1. published' \in [Param -> Value \union {Invalid}]
    BY DEF NonePublished
  <2>2. toRestore' \in Seq(Param) /\ stage' \in Stages
    BY OrderAssumption DEF Stages
  <2> QED BY <2>1, <2>2 DEF IInv, TypeOK
<1>2. Staged' /\ PublishedCurrent' /\ Synced'
  BY UnreadAssumption DEF Staged, PublishedCurrent, Synced, NonePublished, Field
<1>3. Restored'
  BY OrderAssumption DEF Restored
<1> QED BY <1>1, <1>2, <1>3 DEF IInv

(* Every step keeps the invariant. *)
LEMMA NextInductive == IInv /\ [Next]_vars => IInv'
<1> SUFFICES ASSUME IInv, [Next]_vars PROVE IInv'
  OBVIOUS
<1>0. /\ view \in [Addr -> Byte] \union {Unread} /\ hw \in [Addr -> Byte]
      /\ dirty \subseteq Addr /\ complete \in BOOLEAN /\ drifted \subseteq Param
      /\ toRestore \in Seq(Param)
  BY DEF IInv, TypeOK
<1>1. ASSUME NEW p \in Param, NEW v \in Value, WriteParameter(p, v) PROVE IInv'
  BY <1>0, <1>1, SetValueInductive DEF WriteParameter
<1>2. CASE Restore
  <2> DEFINE p == Head(toRestore)
  <2>1. /\ p \in Param /\ toRestore' \in Seq(Param)
        /\ ToSet(toRestore) = {p} \union ToSet(toRestore')
    BY <1>0, <1>2, HeadAndTail DEF Restore
  <2>2. stage = "ready" /\ UNCHANGED <<stage, drifted>>
    BY <1>2 DEF Restore, IInv, Staged, TypeOK
  <2>3. CASE saved[p] # NotSaved /\ SetValue(p, saved[p])
    <3>1. saved[p] \in Value
      BY <2>1, <2>3 DEF IInv, TypeOK
    <3>2. \A q \in Param : q \notin ToSet(toRestore)' =>
             q \notin ToSet(toRestore) \/ (q = p /\ saved[p] = saved[p])
      BY <2>1 DEF ToSet
    <3> HIDE DEF p
    <3> QED BY <2>1, <2>2, <2>3, <3>1, <3>2, SetValueInductive
  <2>4. CASE saved[p] = NotSaved /\ UNCHANGED <<avars, published, saved>>
    <3>1. TypeOK' /\ Staged' /\ PublishedCurrent' /\ Synced'
      BY <2>1, <2>2, <2>4
      DEF IInv, TypeOK, Staged, PublishedCurrent, Synced, Decode, Field, avars
    <3>2. Restored'
      BY <2>1, <2>2, <2>4 DEF IInv, Restored, avars, ToSet
    <3> QED BY <3>1, <3>2 DEF IInv
  <2> QED BY <1>2, <2>3, <2>4 DEF Restore
<1>3. CASE Flush
  <2>1. hw' \in [Addr -> Byte]
    BY <1>0, <1>3 DEF Flush, Complete, Written, IInv, Staged
  <2>2. \A p \in Param : stage = "ready" /\ p \notin drifted =>
           Field(p, hw') = Field(p, view)
    <3> SUFFICES ASSUME NEW p \in Param, stage = "ready", p \notin drifted
                 PROVE  Field(p, hw') = Field(p, view)
      OBVIOUS
    <3>1. CASE RegOf[p] \in dirty
      BY <1>0, <1>3, <3>1 DEF Flush, Complete, Written, Field
    <3>2. CASE RegOf[p] \notin dirty
      <4>1. Field(p, hw) = Field(p, view)
        BY <3>2 DEF IInv, Synced
      <4>2. hw'[RegOf[p]] = hw[RegOf[p]]
        BY <1>3, <3>2, LayoutAssumption DEF Flush, Complete, Written
      <4> QED BY <4>1, <4>2 DEF Field
    <3> QED BY <3>1, <3>2
  <2> QED BY <1>0, <1>3, <2>1, <2>2, MemoryStepInductive
          DEF Flush, Complete, pvars
<1>4. ASSUME NEW S \in SUBSET dirty, FlushFails(S) PROVE IInv'
  <2>1. hw' \in [Addr -> Byte]
    BY <1>0, <1>4 DEF FlushFails, Abandon, Written, IInv, Staged
  <2>2. ASSUME stage = "ready", NEW p \in Param, p \notin drifted,
               RegOf[p] \notin dirty
        PROVE  Field(p, hw') = Field(p, view)
    <3>1. Field(p, hw) = Field(p, view)
      BY <2>2 DEF IInv, Synced
    <3>2. hw'[RegOf[p]] = hw[RegOf[p]]
      BY <1>4, <2>2, LayoutAssumption DEF FlushFails, Abandon, Written
    <3> QED BY <3>1, <3>2 DEF Field
  <2> QED BY <1>0, <1>4, <2>1, <2>2, MemoryStepInductive DEF FlushFails, Abandon
<1>5. CASE ReadBack
  <2>0. /\ complete /\ view' = hw /\ dirty' = {} /\ complete' = FALSE /\ hw' = hw
        /\ UNCHANGED <<saved, drifted>>
    BY <1>5 DEF ReadBack, Refresh
  <2>1. CASE stage = "booting"
    BY <1>0, <1>5, <2>0, <2>1, RegistrationInductive DEF ReadBack
  <2>2. CASE stage = "ready"
    <3>1. /\ published' = IF hw # view \/ dirty # {} THEN Decoded(hw) ELSE published
          /\ UNCHANGED <<stage, toRestore>>
      BY <1>5, <2>2 DEF ReadBack
    <3>2. TypeOK'
      <4>1. published' \in [Param -> Value \union {Invalid}]
        BY <3>1, DecodeType DEF Decoded, IInv, TypeOK
      <4> QED BY <1>0, <2>0, <3>1, <4>1 DEF IInv, TypeOK
    <3>3. Staged' /\ Synced'
      BY <1>0, <2>0, <2>2, <3>1, UnreadAssumption DEF Staged, Synced, Field
    <3>4. PublishedCurrent'
      <4>1. CASE published' = Decoded(hw)
        BY <2>0, <4>1 DEF PublishedCurrent, Decoded, Decode, Field
      <4>2. CASE published' = published /\ hw = view
        BY <2>0, <4>2 DEF IInv, PublishedCurrent, Decode, Field
      <4> QED BY <3>1, <4>1, <4>2
    <3>5. Restored'
      <4> SUFFICES ASSUME NEW p \in Param, saved[p] # NotSaved, p \notin drifted,
                          p \notin ToSet(toRestore)
                   PROVE  published'[p] = saved[p]
        BY <2>0, <3>1 DEF Restored
      <4>1. published[p] = saved[p]
        BY <2>2 DEF IInv, Restored
      <4>2. published[p] # Invalid
        BY <4>1, LayoutAssumption DEF IInv, TypeOK
      <4>3. published[p] = Decode(p, view)
        BY <4>2 DEF IInv, PublishedCurrent
      <4>4. Decode(p, hw) = Decode(p, view)
        BY <1>5, <2>2, ReadBackKeepsValues DEF ReadBack
      <4> QED BY <3>1, <4>1, <4>3, <4>4 DEF Decoded
    <3> QED BY <3>2, <3>3, <3>4, <3>5 DEF IInv
  <2>3. CASE stage = "unready"
    <3>1. UNCHANGED <<stage, published, toRestore>>
      BY <1>5, <2>3 DEF ReadBack
    <3>2. TypeOK'
      BY <1>0, <2>0, <3>1 DEF IInv, TypeOK
    <3>3. published' = NonePublished
      BY <2>3, <3>1 DEF IInv, Staged
    <3> QED BY <1>0, <2>0, <2>3, <3>1, <3>2, <3>3, UnreadAssumption
            DEF IInv, Staged, PublishedCurrent, Synced, Restored, NonePublished
  <2> QED BY <1>5, <2>1, <2>2, <2>3 DEF ReadBack
<1>6. CASE ApplyProfile
  <2>1. UNCHANGED <<view, hw, dirty, complete>>
    BY <1>6 DEF ApplyProfile, avars
  <2> QED BY <1>0, <1>6, <2>1, RegistrationInductive
          DEF ApplyProfile, IInv, Staged, Synced, Field
<1>7. ASSUME NEW a \in Addr, NEW b \in Byte, FirmwareChanges(a, b) PROVE IInv'
  <2>1. /\ hw' = [hw EXCEPT ![a] = b]
        /\ UNCHANGED <<view, dirty, complete>>
        /\ UNCHANGED <<stage, published, saved, toRestore>>
        /\ drifted' = drifted \union
               {p \in Param : RegOf[p] = a /\ Field(p, hw') # Field(p, hw)}
    BY <1>7 DEF FirmwareChanges, Drift
  <2>2. \A p \in Param : p \notin drifted' => Field(p, hw') = Field(p, hw)
    BY <1>0, <2>1, LayoutAssumption DEF Field
  <2> QED BY <1>0, <2>1, <2>2, MemoryStepInductive DEF IInv, Synced
<1>8. CASE RestartService
  <2>1. TypeOK'
    <3>1. published' \in [Param -> Value \union {Invalid}]
      BY <1>8 DEF RestartService, NonePublished
    <3>2. toRestore' \in Seq(Param) /\ stage' \in Stages
      BY <1>8 DEF RestartService, Stages
    <3> QED BY <1>8, <3>1, <3>2 DEF RestartService, Restart, IInv, TypeOK
  <2> QED BY <1>8, <2>1 DEF RestartService, Restart, IInv, Staged,
          PublishedCurrent, Synced, Restored, NonePublished
<1>9. CASE UNCHANGED vars
  BY <1>9 DEF vars, avars, pvars, IInv, TypeOK, Staged, PublishedCurrent,
              Synced, Restored, Decode, Field
<1> QED BY <1>1, <1>2, <1>3, <1>4, <1>5, <1>6, <1>7, <1>8, <1>9 DEF Next
(* The invariant gives the property the run checks. *)
LEMMA InvariantImpliesHonoured == IInv => SettingsHonoured
<1> SUFFICES ASSUME IInv, stage = "ready", NEW p \in Param,
                    saved[p] # NotSaved, p \notin drifted, p \notin ToSet(toRestore)
             PROVE  /\ published[p] = saved[p]
                    /\ Decode(p, view) = saved[p]
                    /\ RegOf[p] \notin dirty => Decode(p, hw) = saved[p]
  BY DEF SettingsHonoured
<1>1. published[p] = saved[p] /\ published[p] # Invalid
  BY LayoutAssumption DEF IInv, Restored, TypeOK
<1>2. Decode(p, view) = saved[p]
  BY <1>1 DEF IInv, PublishedCurrent
<1>3. RegOf[p] \notin dirty => Decode(p, hw) = Decode(p, view)
  BY SameFieldSameValue DEF IInv, Synced
<1> QED BY <1>1, <1>2, <1>3

(* A published value that is replaced by another was written or had drifted. *)
LEMMA StepKeepsOthers ==
    ASSUME IInv, [Next]_vars, NEW p \in Param,
           published[p] # Invalid, published'[p] # Invalid,
           published'[p] # published[p]
    PROVE  p \in drifted \/ saved'[p] = published'[p]
<1>0. stage = "ready" /\ published[p] = Decode(p, view)
  BY DEF IInv, TypeOK, Stages, Staged, NonePublished, PublishedCurrent
<1>1. ASSUME NEW q \in Param, NEW v \in Value, SetValue(q, v)
      PROVE  saved'[p] = published'[p]
  <2>1. published[q] # v
    BY <1>1 DEF SetValue
  <2>2. p = q
    BY <1>0, <1>1, <2>1, SetValueEffect
  <2> QED BY <1>0, <1>1, <2>1, <2>2, SetValueEffect DEF IInv, TypeOK
<1>2. ASSUME NEW q \in Param, NEW v \in Value, WriteParameter(q, v)
      PROVE  saved'[p] = published'[p]
  BY <1>1, <1>2 DEF WriteParameter
<1>3. CASE Restore
  <2> DEFINE q == Head(toRestore)
  <2>1. q \in Param
    BY <1>3, HeadAndTail DEF Restore, IInv, TypeOK
  <2>2. saved[q] # NotSaved /\ SetValue(q, saved[q])
    BY <1>3 DEF Restore
  <2>3. saved[q] \in Value
    BY <2>1, <2>2 DEF IInv, TypeOK
  <2> HIDE DEF q
  <2> QED BY <1>1, <2>1, <2>2, <2>3
<1>4. CASE ReadBack
  <2>1. published' = Decoded(hw) /\ Refresh
    BY <1>0, <1>4 DEF ReadBack
  <2>2. published'[p] = Decode(p, hw)
    BY <2>1 DEF Decoded
  <2> QED BY <1>0, <2>1, <2>2, ReadBackKeepsValues
<1>5. CASE Flush \/ ApplyProfile \/ RestartService \/ UNCHANGED vars
  BY <1>5 DEF Flush, ApplyProfile, RestartService, NonePublished, vars, pvars
<1>6. ASSUME NEW S \in SUBSET dirty, FlushFails(S) PROVE FALSE
  BY <1>6 DEF FlushFails
<1>7. ASSUME NEW a \in Addr, NEW b \in Byte, FirmwareChanges(a, b) PROVE FALSE
  BY <1>7 DEF FirmwareChanges
<1> QED BY <1>2, <1>3, <1>4, <1>5, <1>6, <1>7 DEF Next

-----------------------------------------------------------------------------
(* The inductive invariant holds in every reachable state. *)
THEOREM Inductive == Spec => []IInv
<1>1. Init => IInv
  BY InitInductive
<1>2. IInv /\ [Next]_vars => IInv'
  BY NextInductive
<1> QED BY <1>1, <1>2, PTL DEF Spec

(* The parameters and the memory keep their types; in particular every byte of
   the EC decodes to a value (ioparameterimpl.h:53-66). *)
THEOREM TypeCorrect == Spec => []TypeOK
<1>1. IInv => TypeOK
  BY DEF IInv
<1> QED BY <1>1, Inductive, PTL

(* Whatever is written beside a field, whichever writes fail and wherever the
   service restarts, a restored setting is published, shown and in the EC. *)
THEOREM SavedSettingsHonoured == Spec => []SettingsHonoured
<1>1. IInv => SettingsHonoured
  BY InvariantImpliesHonoured
<1> QED BY <1>1, Inductive, PTL

(* With disjoint fields no write changes the value of another parameter. *)
THEOREM WritesDoNotInterfere == Spec => OnlyOwnWrites
<1> DEFINE Own == \A p \in Param :
              published[p] # Invalid /\ published'[p] \notin {Invalid, published[p]} =>
                  p \in drifted \/ saved'[p] = published'[p]
<1>1. IInv /\ [Next]_vars => [Own]_vars
  BY StepKeepsOthers
<1> QED BY <1>1, Inductive, PTL DEF Spec, OnlyOwnWrites
=============================================================================
