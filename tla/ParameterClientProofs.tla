------------------------ MODULE ParameterClientProofs ------------------------
(***************************************************************************)
(* Proofs about the client's proxies, for every finite set of parameters,  *)
(* all values and every number of edits, publications, profiles and        *)
(* crashes: edits travel in order, stay on screen, and when all is quiet   *)
(* the client and the service agree.                                       *)
(***************************************************************************)
EXTENDS ParameterClient, SequenceTheorems, FiniteSetTheorems, TLAPS

(* What the invariants say of a queue s: it holds an element of A, at most one
   of them, every one has an element of B behind it, the last one is in B. *)
Has(s, A) == \E i \in DOMAIN s : s[i] \in A
Once(s, A) == \A i, j \in DOMAIN s : s[i] \in A /\ s[j] \in A => i = j
Followed(s, A, B) ==
    \A i \in DOMAIN s : s[i] \in A => \E j \in DOMAIN s : i < j /\ s[j] \in B
Ends(s, A, B) ==
    \E i \in DOMAIN s : s[i] \in B /\ \A j \in DOMAIN s : s[j] \in A => j <= i

-----------------------------------------------------------------------------
(* Kinds of requests and messages. *)

Lists == {r \in Request : r.op = "list"}
ReadsOf(p) == {r \in Request : r.op = "read" /\ r.param = p}
Writes(p) == {r \in Request : r.op = "write" /\ p \in DOMAIN r.batch}
WritesAs(p, v) == {r \in Writes(p) : r.batch[p] = v}

Of(op) == {m \in Message : m.op = op}
Answers(p) ==
    {m \in Of("written") : p \in m.names} \union {m \in Of("error") : m.request \in Writes(p)}
ListsWith(p) == {m \in Of("listed") : p \in m.params}
ValuesOf(p) == {m \in Of("value") : m.param = p}
ReportsOf(p) == ValuesOf(p) \union {m \in Of("changed") : m.param = p}
                            \union {m \in Of("written") : p \in DOMAIN m.values}
Reported(m, p) == IF m.op = "written" THEN m.values[p] ELSE m.value

(* Lists and values that are no longer true. *)
OldLists == {m \in Of("listed") : m.params # available}
OldReports(p) == {m \in ReportsOf(p) : Reported(m, p) # value[p]}

-----------------------------------------------------------------------------
(* The inductive invariants. *)

(* An edit that counts is queued, or is the last write of p on its way, or is
   what the service was last asked for.  While the service is down none
   counts. *)
Travels(p) ==
    wanted[p] # None =>
        \/ client[p].queued = wanted[p]
        \/ client[p].queued = None /\ Ends(requests, Writes(p), WritesAs(p, wanted[p]))
        \/ client[p].queued = None /\ ~Has(requests, Writes(p)) /\ received[p] = wanted[p]

EditInv == /\ ~up => wanted = Nothing
           /\ \A p \in Param : Travels(p)

(* Unless the client has forgotten a write of p, it waits for each of them and
   makes one at a time. *)
OneAtATime(p) ==
    p \notin stale =>
        /\ Has(requests, Writes(p)) \/ Has(inbox, Answers(p)) => client[p].inFlight # None
        /\ ~(Has(requests, Writes(p)) /\ Has(inbox, Answers(p)))
        /\ Once(requests, Writes(p))
        /\ Once(inbox, Answers(p))

(* Nothing but an edit changes what is shown while a write is on its way. *)
Unchanging(p) ==
    /\ client[p].queued # None => client[p].shown = client[p].queued
    /\ p \notin stale /\ wanted[p] # None /\ client[p].queued = None /\ Has(requests, Writes(p))
          => client[p].shown = wanted[p]

ScreenInv == \A p \in Param : OneAtATime(p) /\ Unchanging(p)

(* Every state of waiting has an end on its way. *)
Waiting(p) ==
    /\ client[p].queued # None => flushing \/ client[p].inFlight # None
    /\ client[p].inFlight # None => Has(requests, Writes(p)) \/ Has(inbox, Answers(p))
    /\ client[p].pending => HasWriteInProgress(client[p])

(* A service that runs is known to run or will be found; a departure or an
   error the client has yet to see is of an earlier run. *)
Link == up => /\ connected \/ Has(inbox, Of("up"))
              /\ Followed(inbox, Of("gone") \union Of("error"), Of("up"))

(* Whatever is no longer true is followed by the news. *)
News(p) == Of("profile") \union Of("gone") \union ReportsOf(p)
NewsFollow ==
    /\ Followed(inbox, OldLists, Of("profile"))
    /\ \A p \in available :
           Followed(inbox, OldReports(p), News(p))

(* The client is about to ask for p, has asked, or has been told of p. *)
Asking(p) ==
    Has(inbox, Of("profile") \union ListsWith(p)) \/ Has(requests, Lists \union ReadsOf(p))

(* What is shown will be right, and p will be valid. *)
WillShow(p) == \/ Asking(p)
               \/ HasWriteInProgress(client[p])
               \/ Has(inbox, ReportsOf(p))
               \/ client[p].shown = value[p]
WillBeValid(p) == \/ Asking(p)
                  \/ HasQueuedWrite(client[p])
                  \/ Has(inbox, ValuesOf(p))
                  \/ client[p].valid

Settling == up /\ ~Has(inbox, Of("up")) =>
                \A p \in available : WillShow(p) /\ WillBeValid(p)

AgreementInv ==
    /\ \A p \in Param : Waiting(p)
    /\ Link /\ NewsFollow /\ Settling
-----------------------------------------------------------------------------
(* Queues. *)

(* The head of a queue is gone. *)
LEMMA TailProperties ==
    ASSUME NEW S, NEW s \in Seq(S), s # <<>>
    PROVE  /\ Head(s) = s[1] /\ Head(s) \in S
           /\ Tail(s) \in Seq(S)
           /\ DOMAIN s = 1 .. Len(s) /\ Len(s) \in Nat \ {0}
           /\ DOMAIN Tail(s) = 1 .. Len(s) - 1
           /\ \A i \in 1 .. Len(s) - 1 : Tail(s)[i] = s[i + 1]
BY HeadTailProperties, EmptySeq, LenProperties

LEMMA HasTail ==
    ASSUME NEW S, NEW s \in Seq(S), s # <<>>, NEW A
    PROVE  Has(s, A) <=> Head(s) \in A \/ Has(Tail(s), A)
<1>1. ASSUME Has(s, A), Head(s) \notin A PROVE Has(Tail(s), A)
  <2>1. PICK i \in DOMAIN s : s[i] \in A
    BY <1>1 DEF Has
  <2>2. i - 1 \in DOMAIN Tail(s) /\ Tail(s)[i - 1] = s[i]
    BY <1>1, <2>1, TailProperties
  <2> QED
    BY <2>1, <2>2 DEF Has
<1>2. ASSUME Head(s) \in A PROVE Has(s, A)
  BY <1>2, TailProperties DEF Has
<1>3. ASSUME Has(Tail(s), A) PROVE Has(s, A)
  <2>1. PICK i \in DOMAIN Tail(s) : Tail(s)[i] \in A
    BY <1>3 DEF Has
  <2>2. i + 1 \in DOMAIN s /\ s[i + 1] \in A
    BY <2>1, TailProperties
  <2> QED
    BY <2>2 DEF Has
<1> QED
  BY <1>1, <1>2, <1>3

LEMMA OnceTail ==
    ASSUME NEW S, NEW s \in Seq(S), s # <<>>, NEW A, Once(s, A)
    PROVE  /\ Once(Tail(s), A)
           /\ Head(s) \in A => ~Has(Tail(s), A)
<1>1. ASSUME NEW i \in DOMAIN Tail(s)
      PROVE  i + 1 \in DOMAIN s /\ i + 1 # 1 /\ s[i + 1] = Tail(s)[i]
  BY TailProperties
<1>2. 1 \in DOMAIN s /\ s[1] = Head(s)
  BY TailProperties
<1>3. Head(s) \in A => ~Has(Tail(s), A)
  BY <1>1, <1>2 DEF Once, Has
<1>4. ASSUME NEW i \in DOMAIN Tail(s), NEW j \in DOMAIN Tail(s), i + 1 = j + 1
      PROVE  i = j
  BY <1>4, TailProperties
<1>5. Once(Tail(s), A)
  BY <1>1, <1>4 DEF Once
<1> QED
  BY <1>3, <1>5

LEMMA FollowedTail ==
    ASSUME NEW S, NEW s \in Seq(S), s # <<>>, NEW A, NEW B, Followed(s, A, B)
    PROVE  /\ Followed(Tail(s), A, B)
           /\ Head(s) \in A => Has(Tail(s), B)
<1>1. ASSUME NEW i \in 0 .. Len(s) - 1, s[i + 1] \in A
      PROVE  \E j \in DOMAIN Tail(s) : i < j /\ Tail(s)[j] \in B
  <2>1. i + 1 \in DOMAIN s
    BY TailProperties
  <2>2. PICK k \in DOMAIN s : i + 1 < k /\ s[k] \in B
    BY <1>1, <2>1 DEF Followed
  <2>3. k - 1 \in DOMAIN Tail(s) /\ i < k - 1 /\ Tail(s)[k - 1] = s[k]
    BY <2>2, TailProperties
  <2> QED
    BY <2>2, <2>3
<1>2. Followed(Tail(s), A, B)
  BY <1>1, TailProperties DEF Followed
<1>3. Head(s) \in A => Has(Tail(s), B)
  BY <1>1, 0 \in 0 .. Len(s) - 1, s[0 + 1] = Head(s), TailProperties DEF Has
<1> QED
  BY <1>2, <1>3

LEMMA EndsTail ==
    ASSUME NEW S, NEW s \in Seq(S), s # <<>>, NEW A, NEW B, B \subseteq A, Ends(s, A, B)
    PROVE  /\ Has(Tail(s), A) => Ends(Tail(s), A, B)
           /\ ~Has(Tail(s), A) => Head(s) \in B
<1>1. PICK i \in DOMAIN s : s[i] \in B /\ \A j \in DOMAIN s : s[j] \in A => j <= i
  BY DEF Ends
<1>2. ASSUME i = 1 PROVE ~Has(Tail(s), A) /\ Head(s) \in B
  <2>1. ASSUME NEW j \in DOMAIN Tail(s) PROVE Tail(s)[j] \notin A
    BY <1>1, <1>2, j + 1 \in DOMAIN s, ~(j + 1 <= 1), Tail(s)[j] = s[j + 1], TailProperties
  <2> QED
    BY <1>1, <1>2, <2>1, TailProperties DEF Has
<1>3. ASSUME i # 1 PROVE Ends(Tail(s), A, B) /\ Has(Tail(s), A)
  <2>1. i - 1 \in DOMAIN Tail(s) /\ Tail(s)[i - 1] \in B
    BY <1>1, <1>3, TailProperties
  <2>2. ASSUME NEW j \in DOMAIN Tail(s), Tail(s)[j] \in A PROVE j <= i - 1
    <3>1. j + 1 \in DOMAIN s /\ s[j + 1] \in A /\ j \in Int /\ i \in Int
      BY <2>2, TailProperties
    <3> QED
      BY <1>1, <3>1
  <2> QED
    BY <2>1, <2>2 DEF Ends, Has
<1> QED
  BY <1>2, <1>3

(* A queue grows at its end. *)
LEMMA ConcatDomain ==
    ASSUME NEW S, NEW s \in Seq(S), NEW t \in Seq(S)
    PROVE  /\ s \o t \in Seq(S)
           /\ DOMAIN s = 1 .. Len(s) /\ Len(s) \in Nat
           /\ DOMAIN t = 1 .. Len(t) /\ Len(t) \in Nat
           /\ DOMAIN (s \o t) = 1 .. Len(s) + Len(t)
           /\ \A i \in DOMAIN s : i \in DOMAIN (s \o t) /\ (s \o t)[i] = s[i]
           /\ \A i \in DOMAIN t : /\ i + Len(s) \in DOMAIN (s \o t)
                                  /\ (s \o t)[i + Len(s)] = t[i]
           /\ \A i \in DOMAIN (s \o t) : \/ i \in DOMAIN s
                                         \/ i - Len(s) \in DOMAIN t /\ (s \o t)[i] = t[i - Len(s)]
<1>1. /\ s \o t \in Seq(S) /\ Len(s \o t) = Len(s) + Len(t)
      /\ \A i \in 1 .. Len(s) + Len(t) : (s \o t)[i] = IF i <= Len(s) THEN s[i] ELSE t[i - Len(s)]
  BY ConcatProperties
<1>2. /\ DOMAIN s = 1 .. Len(s) /\ Len(s) \in Nat
      /\ DOMAIN t = 1 .. Len(t) /\ Len(t) \in Nat
      /\ DOMAIN (s \o t) = 1 .. Len(s) + Len(t)
  BY <1>1, LenProperties
<1>3. \A i \in DOMAIN s : i \in DOMAIN (s \o t) /\ (s \o t)[i] = s[i]
  BY <1>1, <1>2
<1>4. \A i \in DOMAIN t : i + Len(s) \in DOMAIN (s \o t) /\ (s \o t)[i + Len(s)] = t[i]
  <2> TAKE i \in DOMAIN t
  <2>1. i + Len(s) \in 1 .. Len(s) + Len(t) /\ ~(i + Len(s) <= Len(s)) /\ i + Len(s) - Len(s) = i
    BY <1>2
  <2> QED
    BY <1>1, <1>2, <2>1
<1>5. \A i \in DOMAIN (s \o t) : \/ i \in DOMAIN s
                                 \/ i - Len(s) \in DOMAIN t /\ (s \o t)[i] = t[i - Len(s)]
  BY <1>1, <1>2
<1> QED
  BY <1>1, <1>2, <1>3, <1>4, <1>5

LEMMA HasConcat ==
    ASSUME NEW S, NEW s \in Seq(S), NEW t \in Seq(S), NEW A
    PROVE  Has(s \o t, A) <=> Has(s, A) \/ Has(t, A)
<1>1. ASSUME Has(s, A) PROVE Has(s \o t, A)
  BY <1>1, ConcatDomain DEF Has
<1>2. ASSUME Has(t, A) PROVE Has(s \o t, A)
  <2>1. PICK i \in DOMAIN t : t[i] \in A
    BY <1>2 DEF Has
  <2>2. i + Len(s) \in DOMAIN (s \o t) /\ (s \o t)[i + Len(s)] = t[i]
    BY ConcatDomain
  <2> QED
    BY <2>1, <2>2 DEF Has
<1>3. ASSUME Has(s \o t, A) PROVE Has(s, A) \/ Has(t, A)
  <2>1. PICK i \in DOMAIN (s \o t) : (s \o t)[i] \in A
    BY <1>3 DEF Has
  <2>2. \/ i \in DOMAIN s /\ (s \o t)[i] = s[i]
        \/ i - Len(s) \in DOMAIN t /\ (s \o t)[i] = t[i - Len(s)]
    BY ConcatDomain
  <2> QED
    BY <2>1, <2>2 DEF Has
<1> QED
  BY <1>1, <1>2, <1>3

LEMMA OnceConcat ==
    ASSUME NEW S, NEW s \in Seq(S), NEW t \in Seq(S), NEW A, Once(s, A), Once(t, A),
           ~(Has(s, A) /\ Has(t, A))
    PROVE  Once(s \o t, A)
<1> SUFFICES ASSUME NEW i \in DOMAIN (s \o t), NEW j \in DOMAIN (s \o t),
                    (s \o t)[i] \in A, (s \o t)[j] \in A
             PROVE  i = j
  BY DEF Once
<1>1. ASSUME NEW k \in DOMAIN (s \o t), (s \o t)[k] \in A
      PROVE  \/ k \in DOMAIN s /\ s[k] \in A /\ Has(s, A)
             \/ k - Len(s) \in DOMAIN t /\ t[k - Len(s)] \in A /\ Has(t, A)
  <2>1. \/ k \in DOMAIN s /\ (s \o t)[k] = s[k]
        \/ k - Len(s) \in DOMAIN t /\ (s \o t)[k] = t[k - Len(s)]
    BY ConcatDomain
  <2> QED
    BY <1>1, <2>1 DEF Has
<1>2. i \in Int /\ j \in Int /\ Len(s) \in Int
  BY ConcatDomain
<1>3. CASE Has(s, A)
  BY <1>1, <1>3 DEF Once
<1>4. CASE ~Has(s, A)
  <2>1. i - Len(s) = j - Len(s)
    BY <1>1, <1>4 DEF Once
  <2> QED
    BY <1>2, <2>1
<1> QED
  BY <1>3, <1>4

LEMMA FollowedConcat ==
    ASSUME NEW S, NEW s \in Seq(S), NEW t \in Seq(S), NEW A, NEW B,
           Followed(s, A, B) \/ Has(t, B), Followed(t, A, B)
    PROVE  Followed(s \o t, A, B)
<1> SUFFICES ASSUME NEW i \in DOMAIN (s \o t), (s \o t)[i] \in A
             PROVE  \E j \in DOMAIN (s \o t) : i < j /\ (s \o t)[j] \in B
  BY DEF Followed
<1>1. ASSUME NEW k \in DOMAIN t, t[k] \in B, i < k + Len(s)
      PROVE  \E j \in DOMAIN (s \o t) : i < j /\ (s \o t)[j] \in B
  <2>1. k + Len(s) \in DOMAIN (s \o t) /\ (s \o t)[k + Len(s)] = t[k]
    BY ConcatDomain
  <2> QED
    BY <1>1, <2>1
<1>2. CASE i \in DOMAIN s /\ Has(t, B)
  <2>1. PICK k \in DOMAIN t : t[k] \in B
    BY <1>2 DEF Has
  <2>2. i < k + Len(s)
    BY <1>2, ConcatDomain
  <2> QED
    BY <1>1, <2>1, <2>2
<1>3. CASE i \in DOMAIN s /\ Followed(s, A, B)
  BY <1>3, ConcatDomain DEF Followed
<1>4. CASE i - Len(s) \in DOMAIN t /\ (s \o t)[i] = t[i - Len(s)]
  <2>1. PICK k \in DOMAIN t : i - Len(s) < k /\ t[k] \in B
    BY <1>4 DEF Followed
  <2>2. i < k + Len(s)
    BY <2>1, ConcatDomain
  <2> QED
    BY <1>1, <2>1, <2>2
<1> QED
  BY <1>2, <1>3, <1>4, ConcatDomain

LEMMA EndsConcat ==
    ASSUME NEW S, NEW s \in Seq(S), NEW t \in Seq(S), NEW A, NEW B, Ends(s, A, B), ~Has(t, A)
    PROVE  Ends(s \o t, A, B)
<1>1. PICK i \in DOMAIN s : s[i] \in B /\ \A j \in DOMAIN s : s[j] \in A => j <= i
  BY DEF Ends
<1>2. ASSUME NEW j \in DOMAIN (s \o t), (s \o t)[j] \in A PROVE j <= i
  <2>1. j \in DOMAIN s /\ (s \o t)[j] = s[j]
    BY <1>2, ConcatDomain DEF Has
  <2> QED
    BY <1>1, <1>2, <2>1
<1> QED
  BY <1>1, <1>2, ConcatDomain DEF Ends

LEMMA EndsNew ==
    ASSUME NEW S, NEW s \in Seq(S), NEW m \in S, NEW A, NEW B, m \in B
    PROVE  Ends(s \o <<m>>, A, B)
<1>1. <<m>> \in Seq(S) /\ Len(<<m>>) = 1 /\ <<m>>[1] = m
  OBVIOUS
<1>2. /\ 1 + Len(s) \in DOMAIN (s \o <<m>>)
      /\ (s \o <<m>>)[1 + Len(s)] = m
      /\ DOMAIN (s \o <<m>>) = 1 .. Len(s) + 1 /\ Len(s) \in Nat
  BY <1>1, ConcatDomain
<1> QED
  BY <1>2 DEF Ends

(* A single message. *)
LEMMA Single ==
    ASSUME NEW S, NEW m \in S, NEW A, NEW B
    PROVE  /\ <<m>> \in Seq(S) /\ Once(<<m>>, A)
           /\ Has(<<m>>, A) <=> m \in A
           /\ m \notin A => Followed(<<m>>, A, B)
<1>1. <<m>> \in Seq(S) /\ DOMAIN <<m>> = {1} /\ <<m>>[1] = m
  OBVIOUS
<1> QED
  BY <1>1 DEF Has, Once, Followed

LEMMA NoMessage ==
    ASSUME NEW S, NEW A, NEW B
    PROVE  <<>> \in Seq(S) /\ ~Has(<<>>, A) /\ Once(<<>>, A) /\ Followed(<<>>, A, B)
<1>1. <<>> \in Seq(S) /\ DOMAIN <<>> = {}
  OBVIOUS
<1> QED
  BY <1>1 DEF Has, Once, Followed

-----------------------------------------------------------------------------
(* Sets as queues: the requests and signals made for each member of a set. *)

LEMMA SetToSeqProperties ==
    ASSUME NEW T \in SUBSET Param
    PROVE  /\ SetToSeq(T) \in Seq(T)
           /\ \A p \in T : \E i \in DOMAIN SetToSeq(T) : SetToSeq(T)[i] = p
<1> DEFINE n == Cardinality(T)
<1>1. IsFiniteSet(T)
  BY ParamAssumption, FS_Subset
<1>2. n \in Nat /\ ExistsBijection(1 .. n, T)
  BY <1>1, FS_CardinalityType
<1>3. \E f \in [1 .. n -> T] : IsInjective(f)
  BY <1>2 DEF ExistsBijection, Bijection, Injection
<1>4. SetToSeq(T) \in [1 .. n -> T] /\ IsInjective(SetToSeq(T))
  BY <1>3 DEF SetToSeq
<1>5. IsFiniteSet(1 .. n) /\ Cardinality(1 .. n) = n
  BY <1>2, FS_Interval
<1>6. SetToSeq(T) \in Injection(1 .. n, T)
  BY <1>4 DEF Injection
<1>7. SetToSeq(T) \in Surjection(1 .. n, T)
  BY <1>1, <1>5, <1>6, FS_Injection
<1> QED
  BY <1>2, <1>4, <1>7 DEF Surjection

LEMMA ReadsProperties ==
    ASSUME NEW T \in SUBSET Param, NEW b \in BOOLEAN
    PROVE  /\ Reads(T, b) \in Seq(Request)
           /\ \A r \in Request : Has(Reads(T, b), {r}) => r.op = "read"
           /\ \A p \in T : Has(Reads(T, b), ReadsOf(p))
<1> DEFINE order == SetToSeq(T)
<1>1. /\ order \in Seq(T) /\ order \in [1 .. Len(order) -> T] /\ Len(order) \in Nat
      /\ DOMAIN order = 1 .. Len(order)
  BY SetToSeqProperties, LenProperties
<1>2. Reads(T, b) = [i \in 1 .. Len(order) |-> Read(order[i], b)]
  BY DEF Reads
<1>3. ASSUME NEW i \in 1 .. Len(order)
      PROVE  Read(order[i], b) \in ReadsOf(order[i])
  BY <1>1 DEF Read, ReadsOf, Request
<1>4. Reads(T, b) \in [1 .. Len(order) -> Request]
  BY <1>2, <1>3 DEF ReadsOf
<1>5. Reads(T, b) \in Seq(Request)
  BY <1>1, <1>4
<1>6. ASSUME NEW r \in Request, Has(Reads(T, b), {r}) PROVE r.op = "read"
  BY <1>2, <1>3, <1>6 DEF Has, ReadsOf
<1>7. ASSUME NEW p \in T PROVE Has(Reads(T, b), ReadsOf(p))
  <2>1. PICK i \in DOMAIN order : order[i] = p
    BY SetToSeqProperties
  <2> QED
    BY <1>1, <1>2, <1>3, <2>1 DEF Has
<1> QED
  BY <1>5, <1>6, <1>7

LEMMA ChangesProperties ==
    ASSUME NEW T \in SUBSET Param, NEW values, \A p \in T : values[p] \in Value
    PROVE  /\ Changes(T, values) \in Seq(Message)
           /\ \A i \in DOMAIN Changes(T, values) :
                  Changes(T, values)[i] \in {m \in Of("changed") : m.param \in T /\ m.value = values[m.param]}
           /\ \A p \in T : Has(Changes(T, values), ReportsOf(p))
<1> DEFINE order == SetToSeq(T)
           change(i) == [op |-> "changed", param |-> order[i], value |-> values[order[i]]]
<1>1. /\ order \in Seq(T) /\ order \in [1 .. Len(order) -> T] /\ Len(order) \in Nat
      /\ DOMAIN order = 1 .. Len(order)
  BY SetToSeqProperties, LenProperties
<1>2. Changes(T, values) = [i \in 1 .. Len(order) |-> change(i)]
  BY DEF Changes
<1>3. ASSUME NEW i \in 1 .. Len(order)
      PROVE  /\ change(i) \in Message
             /\ change(i) \in {m \in Of("changed") : m.param \in T /\ m.value = values[m.param]}
             /\ change(i) \in ReportsOf(order[i])
  <2>1. order[i] \in T /\ order[i] \in Param /\ values[order[i]] \in Value
    BY <1>1
  <2>2. change(i) \in Message
    BY <2>1 DEF Message
  <2> QED
    BY <2>1, <2>2 DEF Of, ReportsOf
<1> HIDE DEF change
<1>4. Changes(T, values) \in [1 .. Len(order) -> Message]
  BY <1>2, <1>3
<1>5. Changes(T, values) \in Seq(Message)
  BY <1>1, <1>4
<1>6. ASSUME NEW p \in T PROVE Has(Changes(T, values), ReportsOf(p))
  <2>1. PICK i \in DOMAIN order : order[i] = p
    BY SetToSeqProperties
  <2> QED
    BY <1>1, <1>2, <1>3, <2>1 DEF Has
<1>7. DOMAIN Changes(T, values) = 1 .. Len(order)
  BY <1>2
<1>8. \A i \in DOMAIN Changes(T, values) :
          Changes(T, values)[i] \in {m \in Of("changed") : m.param \in T /\ m.value = values[m.param]}
  BY <1>2, <1>3, <1>7
<1> QED
  BY <1>5, <1>6, <1>8

LEMMA ErrorsProperties ==
    ASSUME NEW reqs \in Seq(Request)
    PROVE  /\ Errors(reqs) \in Seq(Message)
           /\ DOMAIN Errors(reqs) = DOMAIN reqs
           /\ \A i \in DOMAIN reqs : /\ Errors(reqs)[i] \in Of("error")
                                     /\ Errors(reqs)[i].request = reqs[i]
<1>1. Len(reqs) \in Nat /\ DOMAIN reqs = 1 .. Len(reqs) /\ \A i \in 1 .. Len(reqs) : reqs[i] \in Request
  BY LenProperties, ElementOfSeq
<1>2. \A i \in 1 .. Len(reqs) : [op |-> "error", request |-> reqs[i]] \in Message
  BY <1>1 DEF Message
<1>3. Errors(reqs) \in [1 .. Len(reqs) -> Message]
  BY <1>2 DEF Errors
<1> QED
  BY <1>1, <1>2, <1>3 DEF Errors, Of

-----------------------------------------------------------------------------
(* The entries of the client. *)

LEMMA ScheduledEntry ==
    ASSUME NEW x \in Client
    PROVE  /\ Scheduled(x) \in Client
           /\ Scheduled(x).queued = x.queued /\ Scheduled(x).inFlight = x.inFlight
           /\ Scheduled(x).shown = x.shown /\ Scheduled(x).valid = x.valid
           /\ x.confirming # None => Scheduled(x).confirming # None
<1>1. CASE connected /\ x.confirming # None /\ ~x.confirming.scheduled
  <2> DEFINE k == [x.confirming EXCEPT !.scheduled = TRUE]
  <2>1. k \in Confirmation
    BY <1>1 DEF Client, Confirmation
  <2>2. k # None
    BY <2>1, NoneAssumption
  <2>3. Scheduled(x) = [x EXCEPT !.confirming = k, !.timers = @ + 1]
    BY <1>1 DEF Scheduled, Client
  <2>4. x.timers + 1 \in Nat
    BY DEF Client
  <2> HIDE DEF k
  <2> QED
    BY <2>1, <2>2, <2>3, <2>4 DEF Client
<1> QED
  BY <1>1 DEF Scheduled

LEMMA EntryTypes ==
    ASSUME NEW c \in Client, NEW v \in Reading, NEW b \in BOOLEAN
    PROVE  /\ Handled(c, v, b) \in Client
           /\ Answered(c) \in Client
           /\ RefreshFailed(c) \in Client
           /\ Cleared(c) \in Client
<1>1. \A d \in Client : Scheduled(d) \in Client
  BY ScheduledEntry
<1>2. Applied(c, v, b) \in Client
  BY DEF Applied, Client
<1>3. Handled(c, v, b) \in Client
  <2>1. [c EXCEPT !.valid = b \/ @] \in Client
    BY DEF Client
  <2>2. [Applied(c, v, b) EXCEPT !.confirming = None, !.pending = FALSE] \in Client
    BY <1>2 DEF Client
  <2> QED
    BY <1>1, <1>2, <2>1, <2>2 DEF Handled
<1>4. Confirming(c) \in Client
  BY DEF Confirming, Client, Confirmation, Reading
<1>5. Answered(c) \in Client
  BY <1>4 DEF Answered, Client
<1>6. [c EXCEPT !.confirming = None] \in Client
  BY DEF Client
<1>7. RefreshFailed(c) \in Client
  <2>1. ASSUME NEW d \in Client PROVE [d EXCEPT !.pending = HasWriteInProgress(d)] \in Client
    BY DEF Client, HasWriteInProgress
  <2> QED
    BY <1>1, <1>6, <2>1 DEF RefreshFailed
<1>8. Cleared(c) \in Client
  BY DEF Cleared, Client
<1> QED
  BY <1>3, <1>5, <1>7, <1>8

-----------------------------------------------------------------------------
(* Types. *)

LEMMA RequestFields ==
    ASSUME NEW r \in Request
    PROVE  /\ r.op \in {"list", "read", "write"}
           /\ r.op = "read" => r.param \in Param /\ r.refresh \in BOOLEAN
           /\ r.op = "write" => /\ DOMAIN r.batch \subseteq Param
                                /\ \A p \in DOMAIN r.batch : r.batch[p] \in Value
BY DEF Request, Batches

LEMMA MessageFields ==
    ASSUME NEW m \in Message
    PROVE  /\ m.op \in {"gone", "up", "profile", "listed", "value", "changed", "written", "error"}
           /\ m.op = "listed" => m.params \in SUBSET Param
           /\ m.op \in {"value", "changed"} => m.param \in Param /\ m.value \in Reading
           /\ m.op = "written" => /\ m.names \in SUBSET Param
                                  /\ DOMAIN m.values \subseteq m.names
                                  /\ \A p \in DOMAIN m.values : m.values[p] \in Reading
           /\ m.op = "error" => m.request \in Request
BY DEF Message, Readings, Reading

LEMMA MessagesMade ==
    /\ \A op \in {"gone", "up", "profile"} : [op |-> op] \in Of(op)
    /\ \A T \in SUBSET Param : [op |-> "listed", params |-> T] \in Of("listed")
    /\ \A p \in Param, v \in Reading : [op |-> "value", param |-> p, value |-> v] \in ValuesOf(p)
    /\ \A p \in Param, v \in Value : [op |-> "changed", param |-> p, value |-> v] \in Of("changed")
    /\ \A T \in SUBSET Param, values \in Readings : DOMAIN values \subseteq T =>
           [op |-> "written", names |-> T, values |-> values] \in Of("written")
BY DEF Message, Of, ValuesOf

LEMMA RequestsMade ==
    /\ InitCalls \in Seq(Request) /\ InitCalls = <<[op |-> "list"]>> /\ [op |-> "list"] \in Lists
    /\ \A p \in Param, b \in BOOLEAN : Read(p, b) \in ReadsOf(p)
    /\ \A batch \in Batches : [op |-> "write", batch |-> batch] \in Request
BY DEF InitCalls, Request, Lists, ReadsOf, Read

LEMMA ReadCall ==
    ASSUME NEW p \in Param, NEW b \in BOOLEAN
    PROVE  Read(p, b) \in Request /\ <<Read(p, b)>> \in Seq(Request)
<1>1. Read(p, b) \in Request
  BY RequestsMade DEF ReadsOf
<1> QED
  BY <1>1

(* The client's calls reach the service or come back as errors. *)
LEMMA CallProperties ==
    ASSUME TypeOK, NEW reqs \in Seq(Request), NEW rest \in Seq(Message), Call(reqs, rest)
    PROVE  /\ requests' \in Seq(Request) /\ inbox' \in Seq(Message)
           /\ up => requests' = requests \o reqs /\ inbox' = rest
           /\ ~up => requests' = requests /\ inbox' = rest \o Errors(reqs)
<1>1. Errors(reqs) \in Seq(Message)
  BY ErrorsProperties
<1>2. rest \o Errors(reqs) \in Seq(Message)
  BY <1>1
<1>3. requests \o reqs \in Seq(Request)
  BY DEF TypeOK
<1> QED
  BY <1>2, <1>3 DEF Call, TypeOK

LEMMA HeadOfInbox ==
    ASSUME TypeOK, inbox # <<>>
    PROVE  Head(inbox) \in Message /\ Tail(inbox) \in Seq(Message)
BY TailProperties DEF TypeOK

(* A batch of what is queued. *)
FlushBatch == {p \in Param : client[p].queued # None /\ client[p].inFlight = None}
FlushCalls == IF FlushBatch = {} THEN <<>>
              ELSE <<[op |-> "write", batch |-> [p \in FlushBatch |-> client[p].queued]]>>

LEMMA FlushCallsType ==
    ASSUME TypeOK
    PROVE  /\ FlushCalls \in Seq(Request)
           /\ FlushBatch # {} => /\ [p \in FlushBatch |-> client[p].queued] \in Batches
                                 /\ Len(FlushCalls) = 1
<1>1. [p \in FlushBatch |-> client[p].queued] \in [FlushBatch -> Value] /\ FlushBatch \in SUBSET Param
  BY DEF TypeOK, Client, FlushBatch
<1>2. [p \in FlushBatch |-> client[p].queued] \in Batches
  BY <1>1 DEF Batches
<1> QED
  BY <1>2, RequestsMade DEF FlushCalls

LEMMA FlushCallIs ==
    ASSUME FlushPendingWrites PROVE Call(FlushCalls, inbox)
BY DEF FlushPendingWrites, FlushCalls, FlushBatch

LEMMA ClientTypeEntry ==
    ASSUME TypeOK, NEW p \in Param PROVE client[p] \in Client
BY DEF TypeOK

(* What an answered batch asks again. *)
Silent(names, values) == {p \in names \ DOMAIN values : client[p].queued = None}

LEMMA AnsweredType ==
    ASSUME TypeOK, inbox # <<>>, NEW names \in SUBSET Param, NEW values,
           DOMAIN values \subseteq Param, \A p \in DOMAIN values : values[p] \in Reading,
           BatchAnswered(names, values)
    PROVE  TypeOK'
<1>1. client' \in [Param -> Client]
  <2>1. ASSUME NEW p \in Param
        PROVE  /\ p \in DOMAIN values => Handled(Answered(client[p]), values[p], TRUE) \in Client
               /\ Answered(client[p]) \in Client
    <3>1. client[p] \in Client
      BY ClientTypeEntry
    <3>2. Answered(client[p]) \in Client
      BY <3>1, EntryTypes, \E v \in Reading : TRUE DEF Reading
    <3> QED
      BY <3>2, EntryTypes
  <2>2. client' = [p \in Param |->
               CASE p \in DOMAIN values -> Handled(Answered(client[p]), values[p], TRUE)
                 [] p \in names \ DOMAIN values -> Answered(client[p])
                 [] OTHER -> client[p]]
    BY DEF BatchAnswered
  <2>3. ASSUME NEW p \in Param PROVE client'[p] \in Client
    BY <2>1, <2>2, ClientTypeEntry
  <2> QED
    BY <2>2, <2>3
<1>2. Tail(inbox) \in Seq(Message)
  BY HeadOfInbox
<1>3. (IF connected THEN Reads(Silent(names, values), TRUE) ELSE <<>>) \in Seq(Request)
  BY ReadsProperties, NoMessage DEF Silent
<1>4. Call(IF connected THEN Reads(Silent(names, values), TRUE) ELSE <<>>, Tail(inbox))
  BY DEF BatchAnswered, Silent
<1>5. requests' \in Seq(Request) /\ inbox' \in Seq(Message)
  BY <1>2, <1>3, <1>4, CallProperties
<1>6. flushing' \in BOOLEAN /\ stale' \subseteq Param
  BY DEF BatchAnswered, TypeOK
<1> QED
  BY <1>1, <1>5, <1>6 DEF BatchAnswered, TypeOK, serviceVars

LEMMA InitType == Init => TypeOK
<1> SUFFICES ASSUME Init PROVE TypeOK
  OBVIOUS
<1>1. client \in [Param -> Client]
  BY DEF Init, Client, Reading
<1>2. inbox \in Seq(Message)
  BY MessagesMade, NoMessage DEF Init, Of
<1>3. requests \in Seq(Request) /\ stale \subseteq Param
  BY NoMessage DEF Init
<1>4. events \in 0 .. MaxEvents
  BY MaxEventsAssumption DEF Init
<1>5. value \in [Param -> Reading] /\ received \in [Param -> Value \union {None}]
                                   /\ wanted \in [Param -> Value \union {None}]
  BY DEF Init, Unpublished, Nothing, Reading
<1> QED
  BY <1>1, <1>2, <1>3, <1>4, <1>5 DEF Init, TypeOK

LEMMA EventType ==
    ASSUME TypeOK, Event PROVE events' \in 0 .. MaxEvents
BY MaxEventsAssumption DEF TypeOK, Event

LEMMA StepType == TypeOK /\ [Next]_vars => TypeOK'
<1> SUFFICES ASSUME TypeOK, [Next]_vars PROVE TypeOK'
  OBVIOUS
<1> USE DEF serviceVars, clientVars, history
<1>1. ASSUME NEW p \in Param, NEW v \in Value, Edit(p, v) PROVE TypeOK'
  <2>1. client[p] \in Client
    BY ClientTypeEntry
  <2>2. [client[p] EXCEPT !.shown = v, !.queued = v, !.confirming = None, !.pending = TRUE] \in Client
    BY <2>1 DEF Client, Reading
  <2>3. client' = [client EXCEPT ![p] = [client[p] EXCEPT !.shown = v, !.queued = v,
                                           !.confirming = None, !.pending = TRUE]]
    BY <1>1 DEF Edit, TypeOK
  <2>4. client' \in [Param -> Client]
    BY <2>2, <2>3 DEF TypeOK
  <2> QED
    BY <1>1, <2>4, EventType DEF Edit, TypeOK
<1>2. ASSUME FlushPendingWrites PROVE TypeOK'
  <2>1. client' \in [Param -> Client]
    <3>1. ASSUME NEW p \in Param
          PROVE  [client[p] EXCEPT !.inFlight = client[p].queued, !.queued = None] \in Client
      BY ClientTypeEntry DEF Client
    <3> QED
      BY <1>2, <3>1, ClientTypeEntry DEF FlushPendingWrites
  <2>2. requests' \in Seq(Request) /\ inbox' \in Seq(Message)
    BY <1>2, FlushCallIs, FlushCallsType, CallProperties DEF TypeOK
  <2>3. flushing' = FALSE /\ UNCHANGED <<connected, serviceVars, history, events>>
    BY <1>2 DEF FlushPendingWrites
  <2> QED
    BY <2>1, <2>2, <2>3 DEF TypeOK
<1>3. ASSUME NEW p \in Param, Retry(p) PROVE TypeOK'
  <2> DEFINE c == [client[p] EXCEPT !.timers = @ - 1]
             d == [c EXCEPT !.confirming.scheduled = FALSE]
  <2>1. c \in Client
    BY <1>3, ClientTypeEntry DEF Retry, Client
  <2>2. c.confirming # None => d \in Client
    <3>1. c.confirming # None => [c.confirming EXCEPT !.scheduled = FALSE] \in Confirmation
      BY <2>1 DEF Client, Confirmation
    <3> HIDE DEF c
    <3> QED
      BY <2>1, <3>1 DEF Client
  <2> HIDE DEF c, d
  <2>3. client' \in [Param -> Client]
    BY <1>3, <2>1, <2>2 DEF Retry, c, d, TypeOK
  <2>4. requests' \in Seq(Request) /\ inbox' \in Seq(Message)
    <3>1. CASE UNCHANGED <<requests, inbox>>
      BY <3>1 DEF TypeOK
    <3>2. CASE Call(IF connected THEN <<Read(p, TRUE)>> ELSE <<>>, inbox)
      <4>1. (IF connected THEN <<Read(p, TRUE)>> ELSE <<>>) \in Seq(Request)
        BY ReadCall, NoMessage
      <4> QED
        BY <3>2, <4>1, CallProperties DEF TypeOK
    <3> QED
      BY <1>3, <3>1, <3>2 DEF Retry
  <2> QED
    BY <1>3, <2>3, <2>4 DEF Retry, TypeOK
<1>4. ASSUME NEW p \in Param, Expire(p) PROVE TypeOK'
  <2>1. client[p] \in Client /\ client[p].confirming \in Confirmation
    BY <1>4, ClientTypeEntry DEF Expire, Client
  <2>2. [client[p].confirming EXCEPT !.expired = TRUE] \in Confirmation
    BY <2>1 DEF Confirmation
  <2>3. [client[p] EXCEPT !.confirming = [client[p].confirming EXCEPT !.expired = TRUE]] \in Client
    BY <2>1, <2>2 DEF Client
  <2>4. client' = [client EXCEPT ![p] =
                      [client[p] EXCEPT !.confirming = [client[p].confirming EXCEPT !.expired = TRUE]]]
    BY <1>4 DEF Expire, TypeOK
  <2>5. client' \in [Param -> Client]
    BY <2>3, <2>4 DEF TypeOK
  <2> QED
    BY <1>4, <2>5 DEF Expire, TypeOK
<1>5. ASSUME Clear PROVE client' \in [Param -> Client] /\ flushing' \in BOOLEAN
                         /\ wanted' \in [Param -> Value \union {None}] /\ stale' \subseteq Param
  <2>1. \A p \in Param : Cleared(client[p]) \in Client
    BY ClientTypeEntry DEF Cleared, Client
  <2> QED
    BY <1>5, <2>1 DEF Clear, Nothing
<1>6. ASSUME ServiceGone PROVE TypeOK'
  BY <1>5, <1>6, HeadOfInbox DEF ServiceGone, Received, TypeOK
<1>7. ASSUME ServiceUp PROVE TypeOK'
  <2>1. requests' \in Seq(Request) /\ inbox' \in Seq(Message)
    BY <1>7, HeadOfInbox, RequestsMade, CallProperties DEF ServiceUp, Received
  <2> QED
    BY <1>7, <2>1 DEF ServiceUp, TypeOK
<1>8. ASSUME AvailableParametersChanged PROVE TypeOK'
  <2>1. (IF connected THEN InitCalls ELSE <<>>) \in Seq(Request)
    BY RequestsMade, NoMessage
  <2>2. requests' \in Seq(Request) /\ inbox' \in Seq(Message)
    BY <1>8, <2>1, HeadOfInbox, CallProperties DEF AvailableParametersChanged, Received
  <2> QED
    BY <1>5, <1>8, <2>2 DEF AvailableParametersChanged, TypeOK
<1>9. ASSUME Listed PROVE TypeOK'
  <2> DEFINE T == Head(inbox).params
  <2>1. T \in SUBSET Param
    BY <1>9, HeadOfInbox, MessageFields DEF Listed, Received
  <2>2. requests' \in Seq(Request) /\ inbox' \in Seq(Message)
    BY <1>9, <2>1, HeadOfInbox, ReadsProperties, CallProperties DEF Listed, Received
  <2>3. client' \in [Param -> Client]
    <3>1. ASSUME NEW p \in Param PROVE [client[p] EXCEPT !.valid = FALSE, !.pending = FALSE] \in Client
      BY ClientTypeEntry DEF Client
    <3> QED
      BY <1>9, <3>1, ClientTypeEntry DEF Listed
  <2> QED
    BY <1>9, <2>2, <2>3 DEF Listed, TypeOK
<1>10. ASSUME ReadReply PROVE TypeOK'
  <2>1. Head(inbox).param \in Param /\ Head(inbox).value \in Reading
    BY <1>10, HeadOfInbox, MessageFields DEF ReadReply, Received
  <2>2. client' \in [Param -> Client]
    BY <1>10, <2>1, EntryTypes DEF ReadReply, TypeOK
  <2> QED
    BY <1>10, <2>2, HeadOfInbox DEF ReadReply, Received, TypeOK
<1>11. ASSUME ParameterChanged PROVE TypeOK'
  <2>1. Head(inbox).param \in Param /\ Head(inbox).value \in Reading
    BY <1>11, HeadOfInbox, MessageFields DEF ParameterChanged, Received
  <2>2. client' \in [Param -> Client]
    BY <1>11, <2>1, EntryTypes DEF ParameterChanged, TypeOK
  <2> QED
    BY <1>11, <2>2, HeadOfInbox DEF ParameterChanged, Received, TypeOK
<1>12. ASSUME WriteReply PROVE TypeOK'
  BY <1>12, HeadOfInbox, MessageFields, AnsweredType DEF WriteReply, Received
<1>13. ASSUME WriteFailed PROVE TypeOK'
  <2>1. DOMAIN Head(inbox).request.batch \in SUBSET Param
    BY <1>13, HeadOfInbox, MessageFields, RequestFields DEF WriteFailed, Received
  <2> QED
    BY <1>13, <2>1, AnsweredType DEF WriteFailed, Received
<1>14. ASSUME ReadFailed PROVE TypeOK'
  <2>1. Head(inbox).request.op = "read" => Head(inbox).request.param \in Param
    BY <1>14, HeadOfInbox, MessageFields, RequestFields DEF ReadFailed, Received
  <2>2. client' \in [Param -> Client]
    BY <1>14, <2>1, EntryTypes DEF ReadFailed, TypeOK
  <2> QED
    BY <1>14, <2>2, HeadOfInbox DEF ReadFailed, Received, TypeOK
<1>15. ASSUME AvailableParameters PROVE TypeOK'
  <2>1. [op |-> "listed", params |-> available] \in Message
    BY MessagesMade DEF Of, TypeOK
  <2> QED
    BY <1>15, <2>1, TailProperties DEF AvailableParameters, Asked, TypeOK
<1>16. ASSUME ReadParameter PROVE TypeOK'
  <2> DEFINE p == Head(requests).param
             v == IF p \in available THEN value[p] ELSE Invalid
  <2>1. Head(requests) \in Request /\ Tail(requests) \in Seq(Request)
    BY <1>16, TailProperties DEF ReadParameter, Asked, TypeOK
  <2>2. p \in Param /\ v \in Reading
    BY <1>16, <2>1, RequestFields DEF ReadParameter, Asked, TypeOK, Reading
  <2>3. [op |-> "value", param |-> p, value |-> v] \in Message
    BY <2>2, MessagesMade DEF ValuesOf, Of
  <2> QED
    BY <1>16, <2>1, <2>3 DEF ReadParameter, TypeOK
<1>17. ASSUME WriteParameters PROVE TypeOK'
  <2> DEFINE batch == Head(requests).batch
             known == DOMAIN batch \intersect available
  <2>1. Head(requests) \in Request /\ Tail(requests) \in Seq(Request)
    BY <1>17, TailProperties DEF WriteParameters, Asked, TypeOK
  <2>2. DOMAIN batch \subseteq Param /\ \A p \in DOMAIN batch : batch[p] \in Value
    BY <1>17, <2>1, RequestFields DEF WriteParameters, Asked
  <2> HIDE DEF batch
  <2>3. PICK refused \in SUBSET known :
            LET new == [p \in Param |-> IF p \in known \ refused THEN batch[p] ELSE value[p]]
            IN  /\ value' = new
                /\ inbox' = inbox \o Changes({p \in Param : new[p] # value[p]}, new)
                                  \o <<[op |-> "written", names |-> DOMAIN batch,
                                        values |-> [p \in known |-> new[p]]]>>
                /\ received' = [p \in Param |-> IF p \in DOMAIN batch THEN batch[p] ELSE received[p]]
    BY <1>17 DEF WriteParameters, batch
  <2> DEFINE new == [p \in Param |-> IF p \in known \ refused THEN batch[p] ELSE value[p]]
             T == {p \in Param : new[p] # value[p]}
             reply == [op |-> "written", names |-> DOMAIN batch, values |-> [p \in known |-> new[p]]]
  <2>4. new \in [Param -> Reading] /\ \A p \in T : new[p] \in Value
    BY <2>2 DEF TypeOK, Reading
  <2>5. Changes(T, new) \in Seq(Message)
    <3> HIDE DEF new
    <3> QED BY <2>4, ChangesProperties
  <2>6. reply \in Message
    <3>1. [p \in known |-> new[p]] \in [known -> Reading] /\ known \in SUBSET Param
      BY <2>2, <2>4 DEF TypeOK
    <3>2. [p \in known |-> new[p]] \in Readings /\ DOMAIN [p \in known |-> new[p]] \subseteq DOMAIN batch
      BY <3>1 DEF Readings
    <3> QED
      BY <2>2, <3>2, MessagesMade DEF Of
  <2>7. inbox' = inbox \o Changes(T, new) \o <<reply>>
    BY <2>3
  <2>8. inbox' \in Seq(Message)
    <3> HIDE DEF new, T, reply
    <3> QED BY <2>5, <2>6, <2>7 DEF TypeOK
  <2>9. received' \in [Param -> Value \union {None}]
    BY <2>2, <2>3 DEF TypeOK
  <2>10. requests' \in Seq(Request)
    BY <1>17, <2>1 DEF WriteParameters
  <2>11. value' \in [Param -> Reading]
    BY <2>3, <2>4
  <2> QED
    BY <1>17, <2>8, <2>9, <2>10, <2>11 DEF WriteParameters, TypeOK
<1>18. ASSUME NEW p \in Param, NEW v \in Value, Publish(p, v) PROVE TypeOK'
  <2>1. [op |-> "changed", param |-> p, value |-> v] \in Message
    BY MessagesMade DEF Of
  <2> QED
    BY <1>18, <2>1, EventType DEF Publish, TypeOK, Reading
<1>19. ASSUME NEW S \in SUBSET Param, ApplyProfile(S) PROVE TypeOK'
  <2>1. [op |-> "profile"] \in Message
    BY MessagesMade DEF Of
  <2> QED
    BY <1>19, <2>1, EventType DEF ApplyProfile, TypeOK, Reading, Unpublished, Nothing
<1>20. ASSUME Crash PROVE TypeOK'
  <2>1. <<[op |-> "gone"]>> \in Seq(Message) /\ Errors(requests) \in Seq(Message)
    BY MessagesMade, ErrorsProperties DEF Of, TypeOK
  <2>2. inbox' \in Seq(Message)
    <3> DEFINE gone == <<[op |-> "gone"]>>
    <3>1. inbox' = inbox \o gone \o Errors(requests) \/ inbox' = inbox \o Errors(requests) \o gone
      BY <1>20 DEF Crash
    <3>2. inbox \in Seq(Message)
      BY DEF TypeOK
    <3> HIDE DEF gone
    <3>3. gone \in Seq(Message)
      BY <2>1 DEF gone
    <3>4. inbox \o gone \in Seq(Message) /\ inbox \o Errors(requests) \in Seq(Message)
      BY <2>1, <3>2, <3>3, ConcatProperties
    <3>5. inbox \o gone \o Errors(requests) \in Seq(Message)
      BY <2>1, <3>4, ConcatProperties
    <3>6. inbox \o Errors(requests) \o gone \in Seq(Message)
      BY <3>3, <3>4, ConcatProperties
    <3> QED
      BY <3>1, <3>5, <3>6, Zenon
  <2>3. requests' \in Seq(Request)
    BY <1>20, NoMessage DEF Crash
  <2> QED
    BY <1>20, <2>2, <2>3, EventType DEF Crash, TypeOK, Reading, Unpublished, Nothing
<1>21. ASSUME NEW S \in SUBSET Param, Start(S) PROVE TypeOK'
  <2>1. <<[op |-> "up"], [op |-> "profile"]>> \in Seq(Message)
    BY MessagesMade DEF Of
  <2> QED
    BY <1>21, <2>1 DEF Start, TypeOK
<1>22. CASE UNCHANGED vars
  BY <1>22 DEF vars, TypeOK
<1> QED
  BY <1>1, <1>2, <1>3, <1>4, <1>6, <1>7, <1>8, <1>9, <1>10, <1>11, <1>12, <1>13, <1>14, <1>15,
     <1>16, <1>17, <1>18, <1>19, <1>20, <1>21, <1>22 DEF Next, ClientStep, ServiceStep

(* The records, the maps of the client, the messages and the service's values
   have their types at every moment (parameterclient.h:108-138). *)
THEOREM ClientTypeCorrect == Spec => []TypeOK
BY InitType, StepType, PTL DEF Spec

-----------------------------------------------------------------------------
(* What the handlers do to the entry of a parameter. *)

LEMMA HandledEntry ==
    ASSUME NEW c \in Client, NEW v \in Reading, NEW b \in BOOLEAN
    PROVE  /\ Handled(c, v, b).queued = c.queued
           /\ Handled(c, v, b).inFlight = c.inFlight
           /\ HasQueuedWrite(c) => Handled(c, v, b) = c
           /\ ~HasWriteInProgress(Handled(c, v, b)) => Handled(c, v, b).shown = v
           /\ c.valid \/ (b /\ ~HasQueuedWrite(c)) => Handled(c, v, b).valid
           /\ (c.pending => HasWriteInProgress(c))
                 => (Handled(c, v, b).pending => HasWriteInProgress(Handled(c, v, b)))
<1> DEFINE d == [c EXCEPT !.valid = b \/ @]
           e == [Applied(c, v, b) EXCEPT !.confirming = None, !.pending = FALSE]
<1>1. CASE HasQueuedWrite(c)
  <2>1. Handled(c, v, b) = c
    BY <1>1 DEF Handled
  <2> QED
    BY <1>1, <2>1 DEF HasWriteInProgress
<1>2. CASE ~HasQueuedWrite(c) /\ c.confirming = None
  <2>1. Handled(c, v, b) = Applied(c, v, b)
    BY <1>2 DEF Handled
  <2>2. /\ Applied(c, v, b).queued = c.queued /\ Applied(c, v, b).inFlight = c.inFlight
        /\ Applied(c, v, b).shown = v /\ Applied(c, v, b).valid = (b \/ c.valid)
        /\ Applied(c, v, b).confirming = c.confirming /\ Applied(c, v, b).pending = c.pending
    BY DEF Applied, Client
  <2> QED
    BY <1>2, <2>1, <2>2 DEF HasWriteInProgress, HasQueuedWrite
<1>3. CASE ~HasQueuedWrite(c) /\ c.confirming # None /\ c.confirming.expected # v
                              /\ ~c.confirming.expired
  <2>1. Handled(c, v, b) = Scheduled(d)
    BY <1>3 DEF Handled
  <2>2. /\ d \in Client /\ d.confirming # None /\ d.valid = (b \/ c.valid)
        /\ d.queued = c.queued /\ d.inFlight = c.inFlight
    BY <1>3 DEF Client
  <2> HIDE DEF d
  <2> QED
    BY <1>3, <2>1, <2>2, ScheduledEntry DEF HasWriteInProgress, HasQueuedWrite
<1>4. CASE ~HasQueuedWrite(c) /\ c.confirming # None
                              /\ (c.confirming.expected = v \/ c.confirming.expired)
  <2>1. Handled(c, v, b) = e
    BY <1>4 DEF Handled
  <2>2. /\ e.queued = c.queued /\ e.inFlight = c.inFlight
        /\ e.shown = v /\ e.valid = (b \/ c.valid) /\ ~e.pending
    BY DEF Applied, Client
  <2> QED
    BY <1>4, <2>1, <2>2
<1> QED
  BY <1>1, <1>2, <1>3, <1>4

LEMMA AnsweredEntry ==
    ASSUME NEW c \in Client
    PROVE  /\ Answered(c).queued = c.queued /\ Answered(c).inFlight = None
           /\ Answered(c).shown = c.shown /\ Answered(c).valid = c.valid
           /\ HasWriteInProgress(Answered(c))
           /\ Answered(c).queued = None => ~HasQueuedWrite(Answered(c))
<1>1. CASE c.queued # None
  BY <1>1 DEF Answered, Client, HasWriteInProgress, HasQueuedWrite
<1>2. CASE c.queued = None
  <2> DEFINE k == [expected |-> IF c.inFlight = None THEN Invalid ELSE c.inFlight,
                   scheduled |-> FALSE, expired |-> FALSE]
  <2>1. k \in Confirmation
    BY DEF Confirmation, Client, Reading
  <2>2. k # None
    BY <2>1, NoneAssumption
  <2>3. Answered(c) = [c EXCEPT !.inFlight = None, !.confirming = k, !.pending = TRUE]
    BY <1>2 DEF Answered, Confirming
  <2> HIDE DEF k
  <2> QED
    BY <1>2, <2>2, <2>3 DEF Client, HasWriteInProgress, HasQueuedWrite
<1> QED
  BY <1>1, <1>2

LEMMA RefreshFailedEntry ==
    ASSUME NEW c \in Client
    PROVE  /\ RefreshFailed(c).queued = c.queued /\ RefreshFailed(c).inFlight = c.inFlight
           /\ RefreshFailed(c).shown = c.shown
           /\ RefreshFailed(c).pending => HasWriteInProgress(RefreshFailed(c))
<1>1. ASSUME NEW d \in Client, d.queued = c.queued, d.inFlight = c.inFlight, d.shown = c.shown,
             RefreshFailed(c) = [d EXCEPT !.pending = HasWriteInProgress(d)]
      PROVE  /\ RefreshFailed(c).queued = c.queued /\ RefreshFailed(c).inFlight = c.inFlight
             /\ RefreshFailed(c).shown = c.shown
             /\ RefreshFailed(c).pending => HasWriteInProgress(RefreshFailed(c))
  BY <1>1 DEF Client, HasWriteInProgress, HasQueuedWrite
<1>2. CASE HasQueuedWrite(c) \/ c.confirming = None
  BY <1>1, <1>2 DEF RefreshFailed
<1>3. CASE ~HasQueuedWrite(c) /\ c.confirming # None /\ c.confirming.expired
  <2>1. /\ [c EXCEPT !.confirming = None] \in Client
        /\ [c EXCEPT !.confirming = None].queued = c.queued
        /\ [c EXCEPT !.confirming = None].inFlight = c.inFlight
        /\ [c EXCEPT !.confirming = None].shown = c.shown
    BY DEF Client
  <2>2. RefreshFailed(c) = [[c EXCEPT !.confirming = None] EXCEPT
                              !.pending = HasWriteInProgress([c EXCEPT !.confirming = None])]
    BY <1>3 DEF RefreshFailed
  <2> QED
    BY <1>1, <2>1, <2>2, Zenon
<1>4. CASE ~HasQueuedWrite(c) /\ c.confirming # None /\ ~c.confirming.expired
  <2>1. RefreshFailed(c) = [Scheduled(c) EXCEPT !.pending = HasWriteInProgress(Scheduled(c))]
    BY <1>4 DEF RefreshFailed
  <2>2. Scheduled(c) \in Client
    BY ScheduledEntry
  <2>3. Scheduled(c).queued = c.queued /\ Scheduled(c).inFlight = c.inFlight
                                       /\ Scheduled(c).shown = c.shown
    BY <1>4, ScheduledEntry
  <2> QED
    BY <1>1, <2>1, <2>2, <2>3, Zenon
<1> QED
  BY <1>2, <1>3, <1>4

LEMMA ClearedEntry ==
    ASSUME NEW c \in Client
    PROVE  /\ ~HasQueuedWrite(Cleared(c)) /\ ~Cleared(c).pending
           /\ Cleared(c).queued = None /\ Cleared(c).inFlight = None
BY DEF Cleared, Client, HasQueuedWrite

-----------------------------------------------------------------------------
(* What the client asks contains no write. *)

Asks(reqs) == reqs \in Seq(Request) /\ \A p \in Param : ~Has(reqs, Writes(p))

LEMMA AsksMade ==
    /\ Asks(<<>>) /\ Asks(InitCalls)
    /\ \A p \in Param, b \in BOOLEAN : Asks(<<Read(p, b)>>)
    /\ \A T \in SUBSET Param, b \in BOOLEAN : Asks(Reads(T, b))
<1>1. Asks(<<>>)
  BY NoMessage DEF Asks
<1>2. Asks(InitCalls)
  <2>1. [op |-> "list"] \in Request /\ \A p \in Param : [op |-> "list"] \notin Writes(p)
    BY RequestsMade DEF Lists, Writes
  <2> QED
    BY <2>1, RequestsMade, Single DEF Asks
<1>3. ASSUME NEW p \in Param, NEW b \in BOOLEAN PROVE Asks(<<Read(p, b)>>)
  <2>1. Read(p, b) \in Request /\ \A q \in Param : Read(p, b) \notin Writes(q)
    BY RequestsMade DEF ReadsOf, Writes
  <2> QED
    BY <2>1, Single DEF Asks
<1>4. ASSUME NEW T \in SUBSET Param, NEW b \in BOOLEAN PROVE Asks(Reads(T, b))
  <2>1. ASSUME NEW p \in Param, Has(Reads(T, b), Writes(p)) PROVE FALSE
    <3>1. PICK i \in DOMAIN Reads(T, b) : Reads(T, b)[i] \in Writes(p)
      BY <2>1 DEF Has
    <3>2. Has(Reads(T, b), {Reads(T, b)[i]})
      BY DEF Has
    <3> QED
      BY <3>1, <3>2, ReadsProperties DEF Writes
  <2> QED
    BY <2>1, ReadsProperties DEF Asks
<1> QED
  BY <1>1, <1>2, <1>3, <1>4

(* The writes on their way are the same after a step of the client that only
   asks. *)
SameWrites ==
    \A p \in Param :
        /\ Has(requests', Writes(p)) <=> Has(requests, Writes(p))
        /\ Once(requests, Writes(p)) => Once(requests', Writes(p))
        /\ \A v : Ends(requests, Writes(p), WritesAs(p, v)) => Ends(requests', Writes(p), WritesAs(p, v))

LEMMA AsksChangeNoWrites ==
    ASSUME TypeOK, requests' = requests \/ \E reqs : Asks(reqs) /\ requests' = requests \o reqs
    PROVE  SameWrites
<1>1. ASSUME NEW reqs, Asks(reqs), requests' = requests \o reqs PROVE SameWrites
  <2>1. requests \in Seq(Request) /\ reqs \in Seq(Request)
    BY <1>1 DEF TypeOK, Asks
  <2> SUFFICES ASSUME NEW p \in Param
               PROVE  /\ Has(requests', Writes(p)) <=> Has(requests, Writes(p))
                      /\ Once(requests, Writes(p)) => Once(requests', Writes(p))
                      /\ \A v : Ends(requests, Writes(p), WritesAs(p, v))
                                    => Ends(requests', Writes(p), WritesAs(p, v))
    BY DEF SameWrites
  <2>2. ~Has(reqs, Writes(p)) /\ Once(reqs, Writes(p))
    BY <1>1 DEF Asks, Has, Once
  <2>3. Has(requests', Writes(p)) <=> Has(requests, Writes(p))
    BY <1>1, <2>1, <2>2, HasConcat
  <2>4. Once(requests, Writes(p)) => Once(requests', Writes(p))
    BY <1>1, <2>1, <2>2, OnceConcat
  <2>5. ASSUME NEW v, Ends(requests, Writes(p), WritesAs(p, v))
        PROVE  Ends(requests', Writes(p), WritesAs(p, v))
    BY <1>1, <2>1, <2>2, <2>5, EndsConcat
  <2> QED
    BY <2>3, <2>4, <2>5
<1>2. ASSUME requests' = requests PROVE SameWrites
  BY <1>2 DEF SameWrites
<1> QED
  BY <1>1, <1>2

LEMMA CallsThatAsk ==
    ASSUME TypeOK, NEW reqs, Asks(reqs), NEW rest \in Seq(Message), Call(reqs, rest)
    PROVE  requests' = requests \/ \E r : Asks(r) /\ requests' = requests \o r
BY CallProperties DEF Asks

(* What a step of the service does to the first request. *)
LEMMA ServedWrites ==
    ASSUME TypeOK, requests # <<>>, requests' = Tail(requests), NEW p \in Param
    PROVE  /\ Has(requests, Writes(p)) <=> Head(requests) \in Writes(p) \/ Has(requests', Writes(p))
           /\ Once(requests, Writes(p)) => /\ Once(requests', Writes(p))
                                           /\ Head(requests) \in Writes(p) => ~Has(requests', Writes(p))
           /\ \A v : Ends(requests, Writes(p), WritesAs(p, v)) =>
                         /\ Has(requests', Writes(p)) => Ends(requests', Writes(p), WritesAs(p, v))
                         /\ ~Has(requests', Writes(p)) => Head(requests) \in WritesAs(p, v)
<1>1. requests \in Seq(Request)
  BY DEF TypeOK
<1>2. \A v : WritesAs(p, v) \subseteq Writes(p)
  BY DEF WritesAs
<1>3. Has(requests, Writes(p)) <=> Head(requests) \in Writes(p) \/ Has(requests', Writes(p))
  BY <1>1, HasTail
<1>4. Once(requests, Writes(p)) => /\ Once(requests', Writes(p))
                                   /\ Head(requests) \in Writes(p) => ~Has(requests', Writes(p))
  BY <1>1, OnceTail
<1>5. ASSUME NEW v, Ends(requests, Writes(p), WritesAs(p, v))
      PROVE  /\ Has(requests', Writes(p)) => Ends(requests', Writes(p), WritesAs(p, v))
             /\ ~Has(requests', Writes(p)) => Head(requests) \in WritesAs(p, v)
  BY <1>1, <1>2, <1>5, EndsTail
<1> QED
  BY <1>3, <1>4, <1>5

-----------------------------------------------------------------------------
(* The steps of the client that take nothing away and send no edit. *)
AskingStep ==
    \/ \E p \in Param : Retry(p) \/ Expire(p)
    \/ ServiceUp \/ Listed \/ ReadReply \/ ParameterChanged
    \/ WriteReply \/ WriteFailed \/ ReadFailed

(* An answered batch has its answers at the head of the inbox. *)
LEMMA AnsweredBatch ==
    ASSUME TypeOK, WriteReply \/ WriteFailed
    PROVE  \E names \in SUBSET Param, values \in Readings :
               /\ BatchAnswered(names, values)
               /\ \A p \in Param : p \in names <=> Head(inbox) \in Answers(p)
               /\ DOMAIN values \subseteq names
               /\ \/ Head(inbox).op = "error" /\ values = <<>>
                  \/ Head(inbox).op = "written" /\ values = Head(inbox).values
<1>1. CASE WriteReply
  <2> DEFINE m == Head(inbox)
  <2>1. inbox # <<>> /\ m \in Message /\ m.op = "written" /\ BatchAnswered(m.names, m.values)
    BY <1>1, HeadOfInbox DEF WriteReply, Received
  <2>2. m.names \in SUBSET Param /\ m.values \in Readings /\ DOMAIN m.values \subseteq m.names
    BY <2>1 DEF Message
  <2>3. \A p \in Param : p \in m.names <=> m \in Answers(p)
    BY <2>1 DEF Answers, Of
  <2> QED
    BY <2>1, <2>2, <2>3
<1>2. CASE WriteFailed
  <2> DEFINE m == Head(inbox)
  <2>1. /\ inbox # <<>> /\ m \in Message /\ m.op = "error" /\ m.request.op = "write"
        /\ BatchAnswered(DOMAIN m.request.batch, <<>>)
    BY <1>2, HeadOfInbox DEF WriteFailed, Received
  <2>2. m.request \in Request /\ DOMAIN m.request.batch \in SUBSET Param
    BY <2>1, MessageFields, RequestFields
  <2>3. \A p \in Param : p \in DOMAIN m.request.batch <=> m \in Answers(p)
    BY <2>1, <2>2 DEF Answers, Of, Writes
  <2>4. <<>> \in Readings
    <3>1. <<>> \in [{} -> Reading]
      OBVIOUS
    <3> QED
      BY <3>1 DEF Readings
  <2> QED
    BY <2>1, <2>2, <2>3, <2>4
<1> QED
  BY <1>1, <1>2

LEMMA ReadingsFields ==
    ASSUME NEW values \in Readings
    PROVE  DOMAIN values \subseteq Param /\ \A p \in DOMAIN values : values[p] \in Reading
BY DEF Readings

LEMMA BatchEntries ==
    ASSUME TypeOK, NEW names \in SUBSET Param, NEW values \in Readings,
           BatchAnswered(names, values), NEW p \in Param
    PROVE  /\ Answered(client[p]) \in Client
           /\ p \in DOMAIN values => client'[p] = Handled(Answered(client[p]), values[p], TRUE)
           /\ p \in names \ DOMAIN values => client'[p] = Answered(client[p])
           /\ p \notin names \union DOMAIN values => client'[p] = client[p]
           /\ client'[p].queued = client[p].queued
<1>1. Answered(client[p]) \in Client
  BY ClientTypeEntry, EntryTypes, \E v \in Reading : TRUE DEF Reading
<1>2. client' = [q \in Param |->
             CASE q \in DOMAIN values -> Handled(Answered(client[q]), values[q], TRUE)
               [] q \in names \ DOMAIN values -> Answered(client[q])
               [] OTHER -> client[q]]
  BY DEF BatchAnswered
<1>3. /\ p \in DOMAIN values => client'[p] = Handled(Answered(client[p]), values[p], TRUE)
      /\ p \in names \ DOMAIN values => client'[p] = Answered(client[p])
      /\ p \notin names \union DOMAIN values => client'[p] = client[p]
  BY <1>2
<1>4. client'[p].queued = client[p].queued
  <2>1. Answered(client[p]).queued = client[p].queued
    BY ClientTypeEntry, AnsweredEntry
  <2>2. ASSUME p \in DOMAIN values PROVE client'[p].queued = Answered(client[p]).queued
    <3>1. values[p] \in Reading
      BY <2>2, ReadingsFields
    <3>2. Handled(Answered(client[p]), values[p], TRUE).queued = Answered(client[p]).queued
      BY <1>1, <3>1, HandledEntry
    <3> QED
      BY <1>3, <2>2, <3>2
  <2> QED
    BY <1>3, <2>1, <2>2
<1> QED
  BY <1>1, <1>3, <1>4

LEMMA AskingStepKeeps ==
    ASSUME TypeOK, AskingStep
    PROVE  /\ SameWrites
           /\ \A p \in Param : client'[p].queued = client[p].queued
           /\ UNCHANGED <<up, available, value, received, wanted>>
<1> DEFINE Quietly == requests' = requests \/ \E r : Asks(r) /\ requests' = requests \o r
<1>1. ASSUME NEW p \in Param, Retry(p)
      PROVE  Quietly /\ \A q \in Param : client'[q].queued = client[q].queued
  <2>1. client[p] \in Client
    BY ClientTypeEntry
  <2>2. client'[p].queued = client[p].queued /\ \A q \in Param \ {p} : client'[q] = client[q]
    BY <1>1, <2>1 DEF Retry, TypeOK, Client
  <2>3. Asks(IF connected THEN <<Read(p, TRUE)>> ELSE <<>>)
    BY AsksMade
  <2>4. Quietly
    <3>1. CASE requests' = requests
      BY <3>1
    <3>2. CASE Call(IF connected THEN <<Read(p, TRUE)>> ELSE <<>>, inbox)
      BY <2>3, <3>2, CallsThatAsk DEF TypeOK
    <3> QED
      BY <1>1, <3>1, <3>2 DEF Retry
  <2> QED
    BY <2>2, <2>4
<1>2. ASSUME NEW p \in Param, Expire(p)
      PROVE  Quietly /\ \A q \in Param : client'[q].queued = client[q].queued
  <2>1. client[p] \in Client
    BY ClientTypeEntry
  <2> QED
    BY <1>2, <2>1 DEF Expire, TypeOK, Client
<1>3. ASSUME ServiceUp
      PROVE  Quietly /\ \A q \in Param : client'[q].queued = client[q].queued
  <2>1. Quietly
    BY <1>3, HeadOfInbox, AsksMade, CallsThatAsk DEF ServiceUp, Received
  <2> QED
    BY <1>3, <2>1 DEF ServiceUp
<1>4. ASSUME Listed
      PROVE  Quietly /\ \A q \in Param : client'[q].queued = client[q].queued
  <2> DEFINE T == Head(inbox).params
  <2>1. inbox # <<>> /\ T \in SUBSET Param /\ Tail(inbox) \in Seq(Message)
    BY <1>4, HeadOfInbox, MessageFields DEF Listed, Received
  <2>2. Asks(Reads(T, FALSE)) /\ Call(Reads(T, FALSE), Tail(inbox))
    BY <1>4, <2>1, AsksMade DEF Listed
  <2>3. Quietly
    BY <2>1, <2>2, CallsThatAsk
  <2>4. ASSUME NEW q \in Param PROVE client'[q].queued = client[q].queued
    BY <1>4, ClientTypeEntry DEF Listed, Client
  <2> QED
    BY <2>3, <2>4
<1>5. ASSUME ReadReply \/ ParameterChanged
      PROVE  Quietly /\ \A q \in Param : client'[q].queued = client[q].queued
  <2> DEFINE m == Head(inbox)
  <2>1. m.param \in Param /\ m.value \in Reading /\ client[m.param] \in Client
    BY <1>5, HeadOfInbox, MessageFields, ClientTypeEntry DEF ReadReply, ParameterChanged, Received
  <2>2. PICK b \in BOOLEAN : client' = [client EXCEPT ![m.param] = Handled(@, m.value, b)]
    BY <1>5 DEF ReadReply, ParameterChanged
  <2>3. Handled(client[m.param], m.value, b).queued = client[m.param].queued
    BY <2>1, HandledEntry
  <2> QED
    BY <1>5, <2>1, <2>2, <2>3 DEF ReadReply, ParameterChanged, TypeOK
<1>6. ASSUME WriteReply \/ WriteFailed
      PROVE  Quietly /\ \A q \in Param : client'[q].queued = client[q].queued
  <2>1. PICK names \in SUBSET Param, values \in Readings : BatchAnswered(names, values)
    BY <1>6, AnsweredBatch
  <2> DEFINE reqs == IF connected THEN Reads(Silent(names, values), TRUE) ELSE <<>>
  <2>2. Tail(inbox) \in Seq(Message)
    BY <1>6, HeadOfInbox DEF WriteReply, WriteFailed, Received
  <2>3. Asks(reqs)
    BY AsksMade DEF Silent
  <2>4. Call(reqs, Tail(inbox))
    BY <2>1 DEF BatchAnswered, Silent
  <2> HIDE DEF reqs
  <2> QED
    BY <2>1, <2>2, <2>3, <2>4, CallsThatAsk, BatchEntries
<1>7. ASSUME ReadFailed
      PROVE  Quietly /\ \A q \in Param : client'[q].queued = client[q].queued
  <2> DEFINE m == Head(inbox).request
  <2>1. m \in Request
    BY <1>7, HeadOfInbox, MessageFields DEF ReadFailed, Received
  <2>2. \A q \in Param : RefreshFailed(client[q]).queued = client[q].queued
    BY ClientTypeEntry, RefreshFailedEntry
  <2> QED
    BY <1>7, <2>1, <2>2, RequestFields DEF ReadFailed, TypeOK
<1>8. Quietly /\ \A q \in Param : client'[q].queued = client[q].queued
  BY <1>1, <1>2, <1>3, <1>4, <1>5, <1>6, <1>7, Zenon DEF AskingStep
<1>9. UNCHANGED <<up, available, value, received, wanted>>
  BY DEF AskingStep, Retry, Expire, ServiceUp, Listed, ReadReply, ParameterChanged, WriteReply,
         WriteFailed, ReadFailed, BatchAnswered, serviceVars, history
<1> QED
  BY <1>8, <1>9, AsksChangeNoWrites

-----------------------------------------------------------------------------
(* Edits travel. *)

LEMMA EditInit == Init => EditInv
BY DEF Init, EditInv, Travels, Nothing

(* The batch is the last write of all its members. *)
LEMMA FlushedWrites ==
    ASSUME TypeOK, FlushPendingWrites, up, NEW p \in Param
    PROVE  /\ p \in FlushBatch => /\ Ends(requests', Writes(p), WritesAs(p, client[p].queued))
                                  /\ Has(requests', Writes(p))
                                  /\ ~Has(requests, Writes(p)) => Once(requests', Writes(p))
           /\ p \notin FlushBatch =>
                  /\ Has(requests', Writes(p)) <=> Has(requests, Writes(p))
                  /\ Once(requests, Writes(p)) => Once(requests', Writes(p))
                  /\ \A v : Ends(requests, Writes(p), WritesAs(p, v))
                                => Ends(requests', Writes(p), WritesAs(p, v))
<1>1. requests \in Seq(Request) /\ FlushCalls \in Seq(Request) /\ inbox \in Seq(Message)
  BY FlushCallsType DEF TypeOK
<1>2. requests' = requests \o FlushCalls
  BY <1>1, FlushCallIs, CallProperties
<1>3. CASE FlushBatch = {}
  <2>1. requests' = requests
    BY <1>1, <1>2, <1>3, ConcatEmptySeq DEF FlushCalls
  <2> QED
    BY <1>3, <2>1
<1>4. CASE FlushBatch # {}
  <2> DEFINE batch == [q \in FlushBatch |-> client[q].queued]
             w == [op |-> "write", batch |-> batch]
  <2>1. w \in Request /\ FlushCalls = <<w>>
    BY <1>4, FlushCallsType, RequestsMade DEF FlushCalls
  <2>2. p \in FlushBatch => w \in WritesAs(p, client[p].queued) /\ w \in Writes(p)
    BY <2>1 DEF WritesAs, Writes
  <2>3. p \notin FlushBatch => w \notin Writes(p)
    BY DEF Writes
  <2> HIDE DEF w, batch
  <2>4. Has(<<w>>, Writes(p)) <=> w \in Writes(p)
    BY <2>1, Single
  <2>5. Once(<<w>>, Writes(p))
    BY <2>1, Single
  <2>6. Has(requests', Writes(p)) <=> Has(requests, Writes(p)) \/ w \in Writes(p)
    BY <1>1, <1>2, <2>1, <2>4, HasConcat
  <2>7. Once(requests, Writes(p)) /\ ~(Has(requests, Writes(p)) /\ w \in Writes(p))
            => Once(requests', Writes(p))
    BY <1>1, <1>2, <2>1, <2>4, <2>5, OnceConcat
  <2>8. ASSUME p \in FlushBatch PROVE Ends(requests', Writes(p), WritesAs(p, client[p].queued))
    BY <1>1, <1>2, <2>1, <2>2, <2>8, EndsNew
  <2>9. ASSUME p \notin FlushBatch, NEW v, Ends(requests, Writes(p), WritesAs(p, v))
        PROVE  Ends(requests', Writes(p), WritesAs(p, v))
    BY <1>1, <1>2, <2>1, <2>3, <2>4, <2>9, EndsConcat
  <2>10. ~Has(requests, Writes(p)) => Once(requests, Writes(p))
    BY DEF Has, Once
  <2> QED
    BY <2>2, <2>3, <2>6, <2>7, <2>8, <2>9, <2>10
<1> QED
  BY <1>3, <1>4

LEMMA FlushedEntry ==
    ASSUME TypeOK, FlushPendingWrites, NEW p \in Param
    PROVE  /\ p \in FlushBatch => client'[p] = [client[p] EXCEPT !.inFlight = client[p].queued,
                                                                 !.queued = None]
           /\ p \notin FlushBatch => client'[p] = client[p]
BY DEF FlushPendingWrites, FlushBatch

LEMMA EditStep == TypeOK /\ EditInv /\ [Next]_vars => EditInv'
<1> SUFFICES ASSUME TypeOK, EditInv, [Next]_vars PROVE EditInv'
  OBVIOUS
<1> USE DEF EditInv, serviceVars, clientVars, history
<1>1. ASSUME NEW p \in Param, NEW v \in Value, Edit(p, v) PROVE EditInv'
  <2>1. wanted' = IF up THEN [wanted EXCEPT ![p] = v] ELSE wanted
    BY <1>1 DEF Edit
  <2>2. ASSUME NEW q \in Param \ {p} PROVE Travels(q)'
    BY <1>1, <2>1, <2>2 DEF Edit, Travels, TypeOK
  <2>3. client'[p].queued = v
    BY <1>1 DEF Edit, TypeOK, Client
  <2>4. Travels(p)'
    BY <1>1, <2>1, <2>3 DEF Edit, Travels, TypeOK, Nothing
  <2> QED
    BY <1>1, <2>1, <2>2, <2>4 DEF Edit
<1>2. ASSUME FlushPendingWrites PROVE EditInv'
  <2>1. UNCHANGED <<up, wanted, received>>
    BY <1>2 DEF FlushPendingWrites
  <2>2. CASE ~up
    BY <2>1, <2>2 DEF Travels, Nothing
  <2>3. ASSUME up, NEW p \in FlushBatch PROVE Travels(p)'
    <3>1. p \in Param /\ client[p] \in Client /\ client[p].queued # None
      BY ClientTypeEntry DEF FlushBatch
    <3>2. client'[p].queued = None
      BY <1>2, <3>1, FlushedEntry DEF Client
    <3>3. Ends(requests', Writes(p), WritesAs(p, client[p].queued))
      BY <1>2, <2>3, <3>1, FlushedWrites
    <3>4. wanted[p] # None => client[p].queued = wanted[p]
      BY <3>1 DEF Travels
    <3> QED
      BY <2>1, <3>2, <3>3, <3>4 DEF Travels
  <2>4. ASSUME up, NEW p \in Param \ FlushBatch PROVE Travels(p)'
    BY <1>2, <2>1, <2>4, FlushedEntry, FlushedWrites DEF Travels
  <2> QED
    BY <2>1, <2>2, <2>3, <2>4
<1>3. ASSUME AskingStep PROVE EditInv'
  BY <1>3, AskingStepKeeps DEF SameWrites, Travels
<1>4. ASSUME ServiceGone \/ AvailableParametersChanged PROVE EditInv'
  <2>1. wanted' = Nothing
    BY <1>4 DEF ServiceGone, AvailableParametersChanged, Clear
  <2> QED
    BY <2>1 DEF Travels, Nothing
<1>5. ASSUME AvailableParameters \/ ReadParameter PROVE EditInv'
  <2>1. /\ requests # <<>> /\ requests' = Tail(requests) /\ Head(requests).op # "write"
        /\ UNCHANGED <<client, up, wanted, received>>
    BY <1>5 DEF AvailableParameters, ReadParameter, Asked
  <2>2. \A p \in Param : \A v : Head(requests) \notin Writes(p) /\ Head(requests) \notin WritesAs(p, v)
    BY <2>1 DEF Writes, WritesAs
  <2>3. ASSUME NEW p \in Param PROVE Travels(p)'
    <3>1. Has(requests, Writes(p)) <=> Has(requests', Writes(p))
      BY <2>1, <2>2, ServedWrites
    <3>2. \A v : Ends(requests, Writes(p), WritesAs(p, v)) => Ends(requests', Writes(p), WritesAs(p, v))
      BY <2>1, <2>2, ServedWrites
    <3> QED
      BY <2>1, <3>1, <3>2 DEF Travels
  <2> QED
    BY <2>1, <2>3
<1>6. ASSUME WriteParameters PROVE EditInv'
  <2> DEFINE batch == Head(requests).batch
  <2>1. /\ requests # <<>> /\ requests' = Tail(requests) /\ Head(requests).op = "write"
        /\ received' = [p \in Param |-> IF p \in DOMAIN batch THEN batch[p] ELSE received[p]]
        /\ UNCHANGED <<client, up, wanted>>
    BY <1>6 DEF WriteParameters, Asked
  <2>2. Head(requests) \in Request
    BY <2>1, TailProperties DEF TypeOK
  <2>3. ASSUME NEW p \in Param PROVE Travels(p)'
    <3>1. Head(requests) \in Writes(p) <=> p \in DOMAIN batch
      BY <2>1, <2>2 DEF Writes
    <3>2. \A v : Head(requests) \in WritesAs(p, v) => p \in DOMAIN batch /\ batch[p] = v
      BY DEF WritesAs, Writes
    <3>3. Has(requests, Writes(p)) <=> p \in DOMAIN batch \/ Has(requests', Writes(p))
      BY <2>1, <3>1, ServedWrites
    <3>4. \A v : Ends(requests, Writes(p), WritesAs(p, v)) =>
                     \/ Ends(requests', Writes(p), WritesAs(p, v))
                     \/ ~Has(requests', Writes(p)) /\ p \in DOMAIN batch /\ batch[p] = v
      BY <2>1, <3>2, ServedWrites
    <3>5. received'[p] = IF p \in DOMAIN batch THEN batch[p] ELSE received[p]
      BY <2>1
    <3> HIDE DEF batch
    <3> QED
      BY <2>1, <3>3, <3>4, <3>5 DEF Travels
  <2> QED
    BY <2>1, <2>3
<1>7. ASSUME NEW p \in Param, NEW v \in Value, Publish(p, v) PROVE EditInv'
  BY <1>7 DEF Publish, Travels
<1>8. ASSUME Crash \/ \E S \in SUBSET Param : ApplyProfile(S) PROVE EditInv'
  <2>1. wanted' = Nothing
    BY <1>8 DEF Crash, ApplyProfile
  <2> QED
    BY <2>1 DEF Travels, Nothing
<1>9. ASSUME NEW S \in SUBSET Param, Start(S) PROVE EditInv'
  BY <1>9 DEF Start, Travels
<1>10. CASE UNCHANGED vars
  BY <1>10 DEF vars, Travels
<1> QED
  BY <1>1, <1>2, <1>3, <1>4, <1>5, <1>6, <1>7, <1>8, <1>9, <1>10
     DEF Next, ClientStep, ServiceStep, AskingStep

(* What the invariant says is what the property asks. *)
LEMMA TravelsSuffices ==
    ASSUME TypeOK, EditInv PROVE LastEditTravels
<1> SUFFICES ASSUME NEW p \in Param, wanted[p] # None PROVE Newest(p) = wanted[p]
  BY DEF LastEditTravels
<1>1. requests \in Seq(Request) /\ DOMAIN requests \subseteq Int
  BY LenProperties DEF TypeOK
<1>2. \A i \in DOMAIN requests : i \in WritesOf(p) <=> requests[i] \in Writes(p)
  BY <1>1, LenProperties, ElementOfSeq DEF WritesOf, Writes
<1>3. WritesOf(p) = {} <=> ~Has(requests, Writes(p))
  BY <1>2 DEF Has, WritesOf
<1>4. CASE client[p].queued = wanted[p]
  BY <1>4 DEF Newest
<1>5. CASE client[p].queued = None /\ Ends(requests, Writes(p), WritesAs(p, wanted[p]))
  <2>1. PICK i \in DOMAIN requests :
            /\ requests[i] \in WritesAs(p, wanted[p])
            /\ \A j \in DOMAIN requests : requests[j] \in Writes(p) => j <= i
    BY <1>5 DEF Ends
  <2>2. i \in WritesOf(p) /\ requests[i].batch[p] = wanted[p]
    BY <1>2, <2>1 DEF WritesAs
  <2>3. \A j \in WritesOf(p) : j <= i
    BY <1>2, <2>1 DEF WritesOf
  <2>4. (CHOOSE k \in WritesOf(p) : \A j \in WritesOf(p) : j <= k) = i
    <3>1. \A k \in WritesOf(p) : (\A j \in WritesOf(p) : j <= k) => k = i
      BY <1>1, <2>2, <2>3 DEF WritesOf
    <3> QED
      BY <2>2, <2>3, <3>1
  <2> QED
    BY <1>5, <2>2, <2>4 DEF Newest
<1>6. CASE client[p].queued = None /\ ~Has(requests, Writes(p)) /\ received[p] = wanted[p]
  BY <1>3, <1>6 DEF Newest
<1> QED
  BY <1>4, <1>5, <1>6 DEF EditInv, Travels

(* Through batches, retries, failures, crashes and profile changes the newest
   write on its way is the user's last edit (parameterclient.cpp:234-330). *)
THEOREM EditsTravel == Spec => []LastEditTravels
<1>1. TypeOK /\ EditInv => LastEditTravels
  BY TravelsSuffices
<1> QED
  BY <1>1, ClientTypeCorrect, EditInit, EditStep, PTL DEF Spec

-----------------------------------------------------------------------------
(* Answers to writes. *)

(* The box holds as many answers as before. *)
SameAnswers(before, after) ==
    \A p \in Param : /\ Has(after, Answers(p)) <=> Has(before, Answers(p))
                     /\ Once(before, Answers(p)) => Once(after, Answers(p))

(* Messages that answer no write. *)
Notices(s) == s \in Seq(Message) /\ \A p \in Param : ~Has(s, Answers(p))

LEMMA NoticesChangeNoAnswers ==
    ASSUME NEW s \in Seq(Message), NEW t, Notices(t)
    PROVE  s \o t \in Seq(Message) /\ SameAnswers(s, s \o t)
<1>1. t \in Seq(Message)
  BY DEF Notices
<1>2. ASSUME NEW p \in Param
      PROVE  /\ Has(s \o t, Answers(p)) <=> Has(s, Answers(p))
             /\ Once(s, Answers(p)) => Once(s \o t, Answers(p))
  <2>1. ~Has(t, Answers(p)) /\ Once(t, Answers(p))
    BY DEF Notices, Has, Once
  <2> QED
    BY <1>1, <2>1, HasConcat, OnceConcat
<1> QED
  BY <1>1, <1>2, ConcatProperties DEF SameAnswers

(* A call that fails comes back as one error. *)
LEMMA ErrorsAnswer ==
    ASSUME NEW reqs \in Seq(Request), NEW p \in Param
    PROVE  /\ Has(Errors(reqs), Answers(p)) <=> Has(reqs, Writes(p))
           /\ Once(reqs, Writes(p)) => Once(Errors(reqs), Answers(p))
<1>1. DOMAIN Errors(reqs) = DOMAIN reqs
  BY ErrorsProperties
<1>2. \A i \in DOMAIN reqs : Errors(reqs)[i] \in Answers(p) <=> reqs[i] \in Writes(p)
  BY ErrorsProperties DEF Answers, Of
<1> QED
  BY <1>1, <1>2 DEF Has, Once

LEMMA CallsThatAskAnswerNothing ==
    ASSUME TypeOK, NEW reqs, Asks(reqs), NEW rest \in Seq(Message), Call(reqs, rest)
    PROVE  SameAnswers(rest, inbox')
<1>1. reqs \in Seq(Request)
  BY DEF Asks
<1>2. CASE up
  BY <1>1, <1>2, CallProperties DEF SameAnswers
<1>3. CASE ~up
  <2>1. inbox' = rest \o Errors(reqs)
    BY <1>1, <1>3, CallProperties
  <2>2. Notices(Errors(reqs))
    BY <1>1, ErrorsProperties, ErrorsAnswer DEF Asks, Notices
  <2> QED
    BY <2>1, <2>2, NoticesChangeNoAnswers
<1> QED
  BY <1>2, <1>3

LEMMA NoticesMade ==
    /\ Notices(<<>>)
    /\ \A op \in {"gone", "up", "profile"} : Notices(<<[op |-> op]>>)
    /\ \A T \in SUBSET Param : Notices(<<[op |-> "listed", params |-> T]>>)
    /\ \A p \in Param, v \in Reading : Notices(<<[op |-> "value", param |-> p, value |-> v]>>)
    /\ \A p \in Param, v \in Value : Notices(<<[op |-> "changed", param |-> p, value |-> v]>>)
<1>1. ASSUME NEW m \in Message, m.op \notin {"written", "error"} PROVE Notices(<<m>>)
  <2>1. \A p \in Param : m \notin Answers(p)
    BY <1>1 DEF Answers, Of
  <2> QED
    BY <2>1, Single DEF Notices
<1>2. Notices(<<>>)
  BY NoMessage DEF Notices
<1> QED
  BY <1>1, <1>2, MessagesMade DEF Of, ValuesOf

LEMMA ChangesAreNotices ==
    ASSUME NEW T \in SUBSET Param, NEW values, \A p \in T : values[p] \in Value
    PROVE  Notices(Changes(T, values))
<1>1. \A i \in DOMAIN Changes(T, values) : Changes(T, values)[i].op = "changed"
  BY ChangesProperties DEF Of
<1> QED
  BY <1>1, ChangesProperties DEF Notices, Has, Answers, Of

(* Of the writes of p, those the client has yet to hear about. *)
LEMMA UnansweredMeans ==
    ASSUME NEW p \in Param, NEW calls \in Seq(Request), NEW box \in Seq(Message)
    PROVE  Unanswered(p, calls, box) <=> Has(calls, Writes(p)) \/ Has(box, Answers(p))
<1>1. \A i \in DOMAIN calls : calls[i] \in Request
  BY LenProperties, ElementOfSeq
<1>2. \A i \in DOMAIN box : box[i] \in Message
  BY LenProperties, ElementOfSeq
<1>3. \A i \in DOMAIN calls :
          calls[i] \in Writes(p) <=> calls[i].op = "write" /\ p \in DOMAIN calls[i].batch
  BY <1>1 DEF Writes
<1>4. \A i \in DOMAIN box :
          box[i] \in Answers(p) <=>
              \/ box[i].op = "written" /\ p \in box[i].names
              \/ /\ box[i].op = "error" /\ box[i].request.op = "write"
                 /\ p \in DOMAIN box[i].request.batch
  BY <1>2, MessageFields DEF Answers, Of, Writes
<1> QED
  BY <1>3, <1>4 DEF Unanswered, Has

LEMMA SameAnswersTransitive ==
    ASSUME NEW a, NEW b, NEW c, SameAnswers(a, b), SameAnswers(b, c) PROVE SameAnswers(a, c)
BY DEF SameAnswers

LEMMA OtherMessageTaken ==
    ASSUME TypeOK, inbox # <<>>, \A p \in Param : Head(inbox) \notin Answers(p)
    PROVE  SameAnswers(inbox, Tail(inbox))
BY HasTail, OnceTail DEF SameAnswers, TypeOK

(* While an edit waits, only the answer to it touches the entry. *)
Untouched(p) ==
    /\ client'[p].inFlight = client[p].inFlight
    /\ HasQueuedWrite(client[p]) => client'[p].shown = client[p].shown

LEMMA OtherStepsTouchNothing ==
    ASSUME TypeOK, AskingStep, ~WriteReply, ~WriteFailed
    PROVE  SameAnswers(inbox, inbox') /\ stale' = stale /\ \A p \in Param : Untouched(p)
<1>1. inbox \in Seq(Message) /\ SameAnswers(inbox, inbox)
  BY DEF TypeOK, SameAnswers
<1>2. ASSUME NEW p \in Param, Retry(p)
      PROVE  SameAnswers(inbox, inbox') /\ \A q \in Param : Untouched(q)
  <2>1. client[p] \in Client
    BY ClientTypeEntry
  <2>2. /\ client'[p].inFlight = client[p].inFlight /\ client'[p].shown = client[p].shown
        /\ \A q \in Param \ {p} : client'[q] = client[q]
    BY <1>2, <2>1 DEF Retry, TypeOK, Client
  <2>3. Asks(IF connected THEN <<Read(p, TRUE)>> ELSE <<>>)
    BY AsksMade
  <2>4. SameAnswers(inbox, inbox')
    <3>1. CASE inbox' = inbox
      BY <1>1, <3>1
    <3>2. CASE Call(IF connected THEN <<Read(p, TRUE)>> ELSE <<>>, inbox)
      BY <1>1, <2>3, <3>2, CallsThatAskAnswerNothing
    <3> QED
      BY <1>2, <3>1, <3>2 DEF Retry
  <2> QED
    BY <2>2, <2>4 DEF Untouched
<1>3. ASSUME NEW p \in Param, Expire(p)
      PROVE  SameAnswers(inbox, inbox') /\ \A q \in Param : Untouched(q)
  <2>1. client[p] \in Client
    BY ClientTypeEntry
  <2> QED
    BY <1>1, <1>3, <2>1 DEF Expire, TypeOK, Client, Untouched
<1>4. ASSUME inbox # <<>>, \A p \in Param : Head(inbox) \notin Answers(p), NEW reqs, Asks(reqs),
             Call(reqs, Tail(inbox))
      PROVE  SameAnswers(inbox, inbox')
  BY <1>4, OtherMessageTaken, CallsThatAskAnswerNothing, SameAnswersTransitive, HeadOfInbox
<1>5. ASSUME ServiceUp
      PROVE  SameAnswers(inbox, inbox') /\ \A q \in Param : Untouched(q)
  <2>1. inbox # <<>> /\ \A p \in Param : Head(inbox) \notin Answers(p)
    BY <1>5 DEF ServiceUp, Received, Answers, Of
  <2> QED
    BY <1>4, <1>5, <2>1, AsksMade DEF ServiceUp, Untouched
<1>6. ASSUME Listed
      PROVE  SameAnswers(inbox, inbox') /\ \A q \in Param : Untouched(q)
  <2> DEFINE T == Head(inbox).params
  <2>1. inbox # <<>> /\ \A p \in Param : Head(inbox) \notin Answers(p)
    BY <1>6 DEF Listed, Received, Answers, Of
  <2>2. T \in SUBSET Param
    BY <1>6, HeadOfInbox, MessageFields DEF Listed, Received
  <2>3. Asks(Reads(T, FALSE)) /\ Call(Reads(T, FALSE), Tail(inbox))
    BY <1>6, <2>2, AsksMade DEF Listed
  <2>4. ASSUME NEW q \in Param PROVE Untouched(q)
    BY <1>6, ClientTypeEntry DEF Listed, Client, Untouched
  <2> QED
    BY <1>4, <2>1, <2>3, <2>4
<1>7. ASSUME ReadReply \/ ParameterChanged
      PROVE  SameAnswers(inbox, inbox') /\ \A q \in Param : Untouched(q)
  <2> DEFINE m == Head(inbox)
  <2>1. inbox # <<>> /\ \A p \in Param : m \notin Answers(p)
    BY <1>7 DEF ReadReply, ParameterChanged, Received, Answers, Of
  <2>2. m.param \in Param /\ m.value \in Reading /\ client[m.param] \in Client
    BY <1>7, HeadOfInbox, MessageFields, ClientTypeEntry DEF ReadReply, ParameterChanged, Received
  <2>3. PICK b \in BOOLEAN : client' = [client EXCEPT ![m.param] = Handled(@, m.value, b)]
    BY <1>7 DEF ReadReply, ParameterChanged
  <2>4. /\ Handled(client[m.param], m.value, b).inFlight = client[m.param].inFlight
        /\ HasQueuedWrite(client[m.param]) => Handled(client[m.param], m.value, b) = client[m.param]
    BY <2>2, HandledEntry
  <2>5. SameAnswers(inbox, inbox')
    BY <1>7, <2>1, OtherMessageTaken DEF ReadReply, ParameterChanged
  <2> QED
    BY <2>2, <2>3, <2>4, <2>5 DEF TypeOK, Untouched
<1>8. ASSUME ReadFailed
      PROVE  SameAnswers(inbox, inbox') /\ \A q \in Param : Untouched(q)
  <2> DEFINE r == Head(inbox).request
  <2>1. inbox # <<>> /\ \A p \in Param : Head(inbox) \notin Answers(p)
    BY <1>8 DEF ReadFailed, Received, Answers, Of, Writes
  <2>2. r \in Request
    BY <1>8, HeadOfInbox, MessageFields DEF ReadFailed, Received
  <2>3. \A q \in Param : /\ RefreshFailed(client[q]).inFlight = client[q].inFlight
                         /\ RefreshFailed(client[q]).shown = client[q].shown
    BY ClientTypeEntry, RefreshFailedEntry
  <2>4. \A q \in Param : Untouched(q)
    BY <1>8, <2>2, <2>3, RequestFields DEF ReadFailed, TypeOK, Untouched
  <2>5. SameAnswers(inbox, inbox')
    BY <1>8, <2>1, OtherMessageTaken DEF ReadFailed
  <2> QED
    BY <2>4, <2>5
<1>9. stale' = stale
  BY DEF AskingStep, Retry, Expire, ServiceUp, Listed, ReadReply, ParameterChanged, ReadFailed, history
<1> QED
  BY <1>2, <1>3, <1>5, <1>6, <1>7, <1>8, <1>9 DEF AskingStep

-----------------------------------------------------------------------------
(* Edits stay on the screen. *)

LEMMA ScreenInit == Init => ScreenInv
<1> SUFFICES ASSUME Init, NEW p \in Param PROVE OneAtATime(p) /\ Unchanging(p)
  BY DEF ScreenInv
<1>1. ~Has(requests, Writes(p)) /\ Once(requests, Writes(p))
  BY NoMessage DEF Init
<1>2. ~Has(inbox, Answers(p))
  BY NoticesMade DEF Init, Notices
<1>3. Once(inbox, Answers(p))
  BY <1>2 DEF Once, Has
<1>4. client[p].queued = None
  BY DEF Init
<1> QED
  BY <1>1, <1>2, <1>3, <1>4 DEF OneAtATime, Unchanging

LEMMA AnswerTaken ==
    ASSUME TypeOK, ScreenInv, WriteReply \/ WriteFailed PROVE ScreenInv'
<1>1. PICK names \in SUBSET Param, values \in Readings :
          /\ BatchAnswered(names, values)
          /\ \A p \in Param : p \in names <=> Head(inbox) \in Answers(p)
          /\ DOMAIN values \subseteq names
  BY AnsweredBatch
<1>2. inbox # <<>> /\ inbox \in Seq(Message) /\ Tail(inbox) \in Seq(Message) /\ requests \in Seq(Request)
  BY HeadOfInbox DEF WriteReply, WriteFailed, Received, TypeOK
<1>3. SameWrites /\ wanted' = wanted
  BY AskingStepKeeps DEF AskingStep
<1>4. SameAnswers(Tail(inbox), inbox')
  <2> DEFINE reqs == IF connected THEN Reads(Silent(names, values), TRUE) ELSE <<>>
  <2>1. Asks(reqs)
    BY AsksMade DEF Silent
  <2>2. Call(reqs, Tail(inbox))
    BY <1>1 DEF BatchAnswered, Silent
  <2> HIDE DEF reqs
  <2> QED
    BY <1>2, <2>1, <2>2, CallsThatAskAnswerNothing
<1>5. stale' = {p \in stale : Unanswered(p, requests, Tail(inbox))}
  BY <1>1 DEF BatchAnswered
<1> SUFFICES ASSUME NEW p \in Param PROVE OneAtATime(p)' /\ Unchanging(p)'
  BY DEF ScreenInv
<1> USE DEF SameWrites, SameAnswers, ScreenInv
<1>6. p \in stale /\ p \notin stale' => ~Has(requests, Writes(p)) /\ ~Has(Tail(inbox), Answers(p))
  BY <1>2, <1>5, UnansweredMeans
<1>7. client'[p].queued = client[p].queued
  BY <1>1, BatchEntries
<1>8. client'[p].queued # None => client'[p].shown = client[p].shown
  <2>1. ASSUME client[p].queued # None PROVE client'[p].shown = client[p].shown
    <3>1. /\ Answered(client[p]).shown = client[p].shown
          /\ Answered(client[p]).queued = client[p].queued
      BY ClientTypeEntry, AnsweredEntry
    <3>2. ASSUME p \in DOMAIN values PROVE client'[p].shown = client[p].shown
      <4>1. values[p] \in Reading
        BY <3>2, ReadingsFields
      <4>2. HasQueuedWrite(Answered(client[p]))
        BY <2>1, <3>1 DEF HasQueuedWrite
      <4>3. Handled(Answered(client[p]), values[p], TRUE) = Answered(client[p])
        BY <4>2 DEF Handled
      <4> QED
        BY <1>1, <3>1, <3>2, <4>3, BatchEntries
    <3> QED
      BY <1>1, <3>1, <3>2, BatchEntries
  <2> QED
    BY <1>7, <2>1
<1>9. CASE p \in stale
  <2>1. OneAtATime(p)'
    BY <1>3, <1>4, <1>6, <1>9 DEF OneAtATime, Has, Once
  <2>2. Unchanging(p)'
    BY <1>3, <1>6, <1>7, <1>8, <1>9 DEF Unchanging
  <2> QED
    BY <2>1, <2>2
<1>10. CASE p \notin stale /\ p \notin names
  <2>1. client'[p] = client[p]
    BY <1>1, <1>10, BatchEntries
  <2>2. /\ Has(Tail(inbox), Answers(p)) <=> Has(inbox, Answers(p))
        /\ Once(inbox, Answers(p)) => Once(Tail(inbox), Answers(p))
    BY <1>1, <1>2, <1>10, HasTail, OnceTail
  <2>3. OneAtATime(p)'
    BY <1>3, <1>4, <1>10, <2>1, <2>2 DEF OneAtATime
  <2>4. Unchanging(p)'
    BY <1>3, <1>10, <2>1 DEF Unchanging
  <2> QED
    BY <2>3, <2>4
<1>11. CASE p \notin stale /\ p \in names
  <2>1. Has(inbox, Answers(p)) /\ Once(inbox, Answers(p)) /\ ~Has(requests, Writes(p))
    BY <1>1, <1>2, <1>11, HasTail DEF OneAtATime
  <2>2. ~Has(Tail(inbox), Answers(p))
    BY <1>1, <1>2, <1>11, <2>1, OnceTail
  <2>3. OneAtATime(p)'
    BY <1>3, <1>4, <2>1, <2>2 DEF OneAtATime, Has, Once
  <2>4. Unchanging(p)'
    BY <1>3, <1>7, <1>8, <2>1 DEF Unchanging
  <2> QED
    BY <2>3, <2>4
<1> QED
  BY <1>9, <1>10, <1>11

(* What was forgotten with its writes may be written again when the last of
   them has been answered. *)
LEMMA ClearedScreen ==
    ASSUME TypeOK, ScreenInv, inbox # <<>>, Clear, SameWrites,
           \A p \in Param : Head(inbox) \notin Answers(p), SameAnswers(Tail(inbox), inbox')
    PROVE  ScreenInv'
<1> SUFFICES ASSUME NEW p \in Param PROVE OneAtATime(p)' /\ Unchanging(p)'
  BY DEF ScreenInv
<1>1. inbox \in Seq(Message) /\ requests \in Seq(Request)
  BY DEF TypeOK
<1>2. stale' = {q \in Param : Unanswered(q, requests, inbox)}
  BY DEF Clear
<1>3. p \notin stale' => ~Has(requests, Writes(p)) /\ ~Has(inbox, Answers(p))
  BY <1>1, <1>2, UnansweredMeans
<1>4. Has(Tail(inbox), Answers(p)) => Has(inbox, Answers(p))
  BY <1>1, HasTail
<1>5. p \notin stale' => ~Has(requests', Writes(p)) /\ ~Has(inbox', Answers(p))
  BY <1>3, <1>4 DEF SameWrites, SameAnswers
<1>6. client'[p].queued = None
  BY ClientTypeEntry, ClearedEntry DEF Clear
<1>7. wanted'[p] = None
  BY DEF Clear, Nothing
<1> QED
  BY <1>5, <1>6, <1>7 DEF OneAtATime, Unchanging, Has, Once

(* A step that changes no entry, no request and no answer. *)
LEMMA UnrelatedStep ==
    ASSUME ScreenInv, SameWrites, SameAnswers(inbox, inbox'), stale' = stale, client' = client,
           \A p \in Param : wanted'[p] # None => wanted'[p] = wanted[p]
    PROVE  ScreenInv'
BY DEF ScreenInv, SameWrites, SameAnswers, OneAtATime, Unchanging

(* What the service does with a batch: it publishes what changed and answers. *)
LEMMA BatchServed ==
    ASSUME TypeOK, WriteParameters
    PROVE  \E t \in Seq(Message) :
               /\ inbox' = inbox \o t
               /\ \A p \in Param : /\ Has(t, Answers(p)) <=> Head(requests) \in Writes(p)
                                   /\ Once(t, Answers(p))
                                   /\ value'[p] # value[p] => Has(t, ReportsOf(p))
               /\ \A i \in DOMAIN t : t[i].op \in {"changed", "written"}
               /\ \A p \in available : ~Has(t, {m \in ReportsOf(p) : Reported(m, p) # value'[p]})
<1> DEFINE batch == Head(requests).batch
           known == DOMAIN batch \intersect available
<1>1. requests # <<>> /\ Head(requests).op = "write" /\ available \subseteq Param
  BY DEF WriteParameters, Asked, TypeOK
<1>2. Head(requests) \in Request /\ inbox \in Seq(Message)
  BY <1>1, TailProperties DEF TypeOK
<1>3. DOMAIN batch \subseteq Param /\ \A p \in DOMAIN batch : batch[p] \in Value
  BY <1>1, <1>2, RequestFields
<1>4. \A p \in Param : Head(requests) \in Writes(p) <=> p \in DOMAIN batch
  BY <1>1, <1>2 DEF Writes
<1> HIDE DEF batch
<1>5. PICK refused \in SUBSET known :
          LET new == [p \in Param |-> IF p \in known \ refused THEN batch[p] ELSE value[p]]
          IN  /\ value' = new
              /\ inbox' = inbox \o Changes({p \in Param : new[p] # value[p]}, new)
                                \o <<[op |-> "written", names |-> DOMAIN batch,
                                      values |-> [p \in known |-> new[p]]]>>
  BY DEF WriteParameters, batch
<1> DEFINE new == [p \in Param |-> IF p \in known \ refused THEN batch[p] ELSE value[p]]
           T == {p \in Param : new[p] # value[p]}
           reply == [op |-> "written", names |-> DOMAIN batch, values |-> [p \in known |-> new[p]]]
           t == Changes(T, new) \o <<reply>>
<1>6. new \in [Param -> Reading] /\ value' = new /\ \A p \in T : new[p] \in Value
  BY <1>3, <1>5 DEF TypeOK, Reading
<1>7. /\ Changes(T, new) \in Seq(Message) /\ Notices(Changes(T, new))
      /\ \A i \in DOMAIN Changes(T, new) :
             Changes(T, new)[i] \in {m \in Of("changed") : m.param \in T /\ m.value = new[m.param]}
      /\ \A p \in T : Has(Changes(T, new), ReportsOf(p))
  <2> HIDE DEF new
  <2> QED BY <1>6, ChangesProperties, ChangesAreNotices
<1>8. reply \in Of("written") /\ \A p \in DOMAIN reply.values : reply.values[p] = new[p]
  <2>1. [p \in known |-> new[p]] \in [known -> Reading] /\ known \in SUBSET Param
    BY <1>1, <1>3, <1>6
  <2>2. [p \in known |-> new[p]] \in Readings /\ DOMAIN [p \in known |-> new[p]] \subseteq DOMAIN batch
    BY <2>1 DEF Readings
  <2> QED
    BY <1>3, <2>2, MessagesMade
<1>9. /\ \A p \in Param : reply \in Answers(p) <=> p \in DOMAIN batch
      /\ reply \in Message /\ reply.op = "written"
  BY <1>8 DEF Answers, Of
<1>10. inbox' = inbox \o Changes(T, new) \o <<reply>>
  BY <1>5
<1> HIDE DEF new, T, reply, known
<1>11. t \in Seq(Message) /\ inbox' = inbox \o t
  BY <1>2, <1>7, <1>9, <1>10, ConcatProperties, ConcatAssociative
<1>12. ASSUME NEW p \in Param
       PROVE  /\ Has(t, Answers(p)) <=> p \in DOMAIN batch
              /\ Once(t, Answers(p))
              /\ value'[p] # value[p] => Has(t, ReportsOf(p))
  <2>1. /\ <<reply>> \in Seq(Message) /\ Once(<<reply>>, Answers(p))
        /\ Has(<<reply>>, Answers(p)) <=> p \in DOMAIN batch
    BY <1>9, Single
  <2>2. ~Has(Changes(T, new), Answers(p))
    BY <1>7 DEF Notices
  <2>3. Once(Changes(T, new), Answers(p))
    BY <2>2 DEF Once, Has
  <2>4. value'[p] # value[p] => p \in T
    BY <1>6 DEF T
  <2> QED
    BY <1>7, <2>1, <2>2, <2>3, <2>4, HasConcat, OnceConcat
<1>13. \A i \in DOMAIN t : \/ t[i] \in {m \in Of("changed") : m.param \in T /\ m.value = new[m.param]}
                           \/ t[i] = reply
  <2>1. <<reply>> \in Seq(Message) /\ DOMAIN <<reply>> = {1} /\ <<reply>>[1] = reply
    BY <1>9
  <2>2. \A i \in DOMAIN t : \/ i \in DOMAIN Changes(T, new) /\ t[i] = Changes(T, new)[i]
                            \/ i - Len(Changes(T, new)) \in DOMAIN <<reply>>
                                  /\ t[i] = <<reply>>[i - Len(Changes(T, new))]
    BY <1>7, <2>1, ConcatDomain
  <2> QED
    BY <1>7, <2>1, <2>2
<1>14. \A i \in DOMAIN t : t[i].op \in {"changed", "written"}
  BY <1>9, <1>13 DEF Of
<1>15. ASSUME NEW p \in available PROVE ~Has(t, {m \in ReportsOf(p) : Reported(m, p) # value'[p]})
  <2>1. ASSUME NEW i \in DOMAIN t, t[i] \in ReportsOf(p) PROVE Reported(t[i], p) = value'[p]
    <3>1. CASE t[i] \in {m \in Of("changed") : m.param \in T /\ m.value = new[m.param]}
      BY <1>6, <2>1, <3>1 DEF ReportsOf, ValuesOf, Of, Reported
    <3>2. CASE t[i] = reply
      BY <1>6, <1>8, <2>1, <3>2 DEF ReportsOf, ValuesOf, Of, Reported
    <3> QED
      BY <1>13, <3>1, <3>2
  <2> QED
    BY <2>1 DEF Has
<1> HIDE DEF t
<1> QED
  BY <1>4, <1>11, <1>12, <1>14, <1>15

LEMMA ServedScreen ==
    ASSUME TypeOK, ScreenInv, WriteParameters
    PROVE  ScreenInv'
<1> SUFFICES ASSUME NEW p \in Param PROVE OneAtATime(p)' /\ Unchanging(p)'
  BY DEF ScreenInv
<1>1. requests # <<>> /\ requests' = Tail(requests) /\ UNCHANGED <<client, wanted, stale>>
  BY DEF WriteParameters, Asked, clientVars, history
<1>2. PICK t \in Seq(Message) :
          /\ inbox' = inbox \o t
          /\ Has(t, Answers(p)) <=> Head(requests) \in Writes(p)
          /\ Once(t, Answers(p))
  BY BatchServed
<1>3. /\ Has(inbox', Answers(p)) <=> Has(inbox, Answers(p)) \/ Has(t, Answers(p))
      /\ Once(inbox, Answers(p)) /\ ~(Has(inbox, Answers(p)) /\ Has(t, Answers(p)))
             => Once(inbox', Answers(p))
  BY <1>2, HasConcat, OnceConcat DEF TypeOK
<1>4. /\ Has(requests, Writes(p)) <=> Head(requests) \in Writes(p) \/ Has(requests', Writes(p))
      /\ Once(requests, Writes(p)) =>
             /\ Once(requests', Writes(p))
             /\ Head(requests) \in Writes(p) => ~Has(requests', Writes(p))
  BY <1>1, ServedWrites
<1>5. OneAtATime(p)'
  BY <1>1, <1>2, <1>3, <1>4 DEF ScreenInv, OneAtATime
<1>6. Unchanging(p)'
  BY <1>1, <1>4 DEF ScreenInv, Unchanging
<1> QED
  BY <1>5, <1>6

(* What the bus says when the service dies. *)
LEMMA CrashSays ==
    ASSUME TypeOK, Crash
    PROVE  \E t \in Seq(Message) :
               /\ inbox' = inbox \o t
               /\ \A p \in Param : /\ Has(t, Answers(p)) <=> Has(requests, Writes(p))
                                   /\ Once(requests, Writes(p)) => Once(t, Answers(p))
               /\ Has(t, Of("gone"))
               /\ \A i \in DOMAIN t : t[i].op \in {"gone", "error"}
<1> DEFINE gone == <<[op |-> "gone"]>>
           errors == Errors(requests)
<1>1. inbox \in Seq(Message) /\ errors \in Seq(Message) /\ Notices(gone) /\ gone \in Seq(Message)
  BY ErrorsProperties, NoticesMade DEF TypeOK, Notices
<1>2. inbox' = inbox \o gone \o errors \/ inbox' = inbox \o errors \o gone
  BY DEF Crash
<1>3. \A p \in Param : /\ Has(errors, Answers(p)) <=> Has(requests, Writes(p))
                       /\ Once(requests, Writes(p)) => Once(errors, Answers(p))
  BY ErrorsAnswer DEF TypeOK
<1>4. \A p \in Param : ~Has(gone, Answers(p)) /\ Once(gone, Answers(p))
  BY <1>1 DEF Notices, Once, Has
<1>5. Has(gone, Of("gone")) /\ \A i \in DOMAIN gone : gone[i].op = "gone"
  <2>1. [op |-> "gone"] \in Of("gone")
    BY MessagesMade
  <2>2. DOMAIN gone = {1} /\ gone[1] = [op |-> "gone"]
    OBVIOUS
  <2> QED
    BY <2>1, <2>2 DEF Has
<1>6. \A i \in DOMAIN errors : errors[i].op = "error"
  BY ErrorsProperties DEF TypeOK, Of
<1> HIDE DEF gone, errors
<1>7. ASSUME NEW t, t = gone \o errors \/ t = errors \o gone
      PROVE  /\ t \in Seq(Message)
             /\ \A p \in Param : /\ Has(t, Answers(p)) <=> Has(requests, Writes(p))
                                 /\ Once(requests, Writes(p)) => Once(t, Answers(p))
             /\ Has(t, Of("gone"))
             /\ \A i \in DOMAIN t : t[i].op \in {"gone", "error"}
  <2>1. t \in Seq(Message) /\ Has(t, Of("gone"))
    BY <1>1, <1>5, <1>7, HasConcat, ConcatProperties
  <2>2. ASSUME NEW p \in Param
        PROVE  /\ Has(t, Answers(p)) <=> Has(requests, Writes(p))
               /\ Once(requests, Writes(p)) => Once(t, Answers(p))
    <3>1. Has(t, Answers(p)) <=> Has(gone, Answers(p)) \/ Has(errors, Answers(p))
      <4>1. CASE t = gone \o errors
        BY <1>1, <4>1, HasConcat
      <4>2. CASE t = errors \o gone
        BY <1>1, <4>2, HasConcat
      <4> QED
        BY <1>7, <4>1, <4>2
    <3>2. Once(errors, Answers(p)) => Once(t, Answers(p))
      BY <1>1, <1>4, <1>7, OnceConcat
    <3> QED
      BY <1>3, <1>4, <3>1, <3>2
  <2>3. ASSUME NEW i \in DOMAIN t PROVE t[i].op \in {"gone", "error"}
    <3>1. CASE t = gone \o errors
      BY <1>1, <1>5, <1>6, <3>1, ConcatDomain
    <3>2. CASE t = errors \o gone
      BY <1>1, <1>5, <1>6, <3>2, ConcatDomain
    <3> QED
      BY <1>7, <3>1, <3>2
  <2> QED
    BY <2>1, <2>2, <2>3
<1>8. inbox' = inbox \o (gone \o errors) \/ inbox' = inbox \o (errors \o gone)
  <2>1. \A a, b \in Seq(Message) : inbox \o a \o b = inbox \o (a \o b)
    BY <1>1, ConcatAssociative
  <2> QED
    BY <1>1, <1>2, <2>1, Zenon
<1> QED
  BY <1>7, <1>8

LEMMA CrashScreen ==
    ASSUME TypeOK, ScreenInv, Crash
    PROVE  ScreenInv'
<1> SUFFICES ASSUME NEW p \in Param PROVE OneAtATime(p)' /\ Unchanging(p)'
  BY DEF ScreenInv
<1>1. requests' = <<>> /\ UNCHANGED <<client, stale>> /\ wanted' = Nothing
  BY DEF Crash, clientVars
<1>2. PICK t \in Seq(Message) :
          /\ inbox' = inbox \o t
          /\ Has(t, Answers(p)) <=> Has(requests, Writes(p))
          /\ Once(requests, Writes(p)) => Once(t, Answers(p))
  BY CrashSays
<1>3. /\ Has(inbox', Answers(p)) <=> Has(inbox, Answers(p)) \/ Has(t, Answers(p))
      /\ Once(inbox, Answers(p)) /\ Once(t, Answers(p))
             /\ ~(Has(inbox, Answers(p)) /\ Has(t, Answers(p))) => Once(inbox', Answers(p))
  BY <1>2, HasConcat, OnceConcat DEF TypeOK
<1>4. ~Has(requests', Writes(p)) /\ Once(requests', Writes(p)) /\ wanted'[p] = None
  BY <1>1, NoMessage DEF Nothing
<1> QED
  BY <1>1, <1>2, <1>3, <1>4 DEF ScreenInv, OneAtATime, Unchanging

(* The batch waits until what it replaces has been answered. *)
LEMMA FlushedScreen ==
    ASSUME TypeOK, EditInv, ScreenInv, FlushPendingWrites
    PROVE  ScreenInv'
<1> SUFFICES ASSUME NEW p \in Param PROVE OneAtATime(p)' /\ Unchanging(p)'
  BY DEF ScreenInv
<1> USE DEF ScreenInv
<1>1. UNCHANGED <<up, wanted, stale>>
  BY DEF FlushPendingWrites, serviceVars, history
<1>2. requests \in Seq(Request) /\ inbox \in Seq(Message) /\ FlushCalls \in Seq(Request)
  BY FlushCallsType DEF TypeOK
<1>3. client[p] \in Client
  BY ClientTypeEntry
<1>4. CASE up
  <2>1. inbox' = inbox
    BY <1>2, <1>4, FlushCallIs, CallProperties
  <2>2. CASE p \in FlushBatch
    <3>1. /\ client[p].queued # None /\ client[p].inFlight = None
          /\ client'[p] = [client[p] EXCEPT !.inFlight = client[p].queued, !.queued = None]
      BY <2>2, FlushedEntry DEF FlushBatch
    <3>2. /\ client'[p].inFlight = client[p].queued /\ client'[p].queued = None
          /\ client'[p].shown = client[p].shown
      BY <1>3, <3>1 DEF Client
    <3>3. Has(requests', Writes(p)) /\ (~Has(requests, Writes(p)) => Once(requests', Writes(p)))
      BY <1>4, <2>2, FlushedWrites
    <3>4. wanted[p] # None => client[p].queued = wanted[p]
      BY <3>1 DEF EditInv, Travels
    <3> QED
      BY <1>1, <2>1, <3>1, <3>2, <3>3, <3>4 DEF OneAtATime, Unchanging
  <2>3. CASE p \notin FlushBatch
    BY <1>1, <1>4, <2>1, <2>3, FlushedEntry, FlushedWrites DEF OneAtATime, Unchanging
  <2> QED
    BY <2>2, <2>3
<1>5. CASE ~up
  <2>1. requests' = requests /\ inbox' = inbox \o Errors(FlushCalls) /\ Errors(FlushCalls) \in Seq(Message)
    BY <1>2, <1>5, FlushCallIs, CallProperties, ErrorsProperties
  <2>2. wanted[p] = None
    BY <1>5 DEF EditInv, Nothing
  <2>3. Once(FlushCalls, Writes(p)) /\ (Has(FlushCalls, Writes(p)) <=> p \in FlushBatch)
    <3>1. CASE FlushBatch = {}
      BY <3>1, NoMessage DEF FlushCalls
    <3>2. CASE FlushBatch # {}
      <4> DEFINE w == [op |-> "write", batch |-> [q \in FlushBatch |-> client[q].queued]]
      <4>1. w \in Request /\ FlushCalls = <<w>>
        BY <3>2, FlushCallsType, RequestsMade DEF FlushCalls
      <4>2. w \in Writes(p) <=> p \in FlushBatch
        BY <4>1 DEF Writes
      <4> HIDE DEF w
      <4> QED
        BY <4>1, <4>2, Single
    <3> QED
      BY <3>1, <3>2
  <2>4. Once(Errors(FlushCalls), Answers(p)) /\ (Has(Errors(FlushCalls), Answers(p)) <=> p \in FlushBatch)
    BY <1>2, <2>3, ErrorsAnswer
  <2>5. /\ Has(inbox', Answers(p)) <=> Has(inbox, Answers(p)) \/ p \in FlushBatch
        /\ Once(inbox, Answers(p)) /\ ~(Has(inbox, Answers(p)) /\ p \in FlushBatch)
               => Once(inbox', Answers(p))
    BY <1>2, <2>1, <2>4, HasConcat, OnceConcat
  <2>6. CASE p \in FlushBatch
    <3>1. /\ client[p].queued # None /\ client[p].inFlight = None
          /\ client'[p] = [client[p] EXCEPT !.inFlight = client[p].queued, !.queued = None]
      BY <2>6, FlushedEntry DEF FlushBatch
    <3>2. client'[p].inFlight = client[p].queued /\ client'[p].queued = None
      BY <1>3, <3>1 DEF Client
    <3> QED
      BY <1>1, <2>1, <2>2, <2>5, <3>1, <3>2 DEF OneAtATime, Unchanging
  <2>7. CASE p \notin FlushBatch
    BY <1>1, <2>1, <2>2, <2>5, <2>7, FlushedEntry DEF OneAtATime, Unchanging
  <2> QED
    BY <2>6, <2>7
<1> QED
  BY <1>4, <1>5

LEMMA ScreenStep == TypeOK /\ EditInv /\ ScreenInv /\ [Next]_vars => ScreenInv'
<1> SUFFICES ASSUME TypeOK, EditInv, ScreenInv, [Next]_vars PROVE ScreenInv'
  OBVIOUS
<1> USE DEF serviceVars, clientVars, history
<1>1. inbox \in Seq(Message) /\ SameAnswers(inbox, inbox) /\ (requests' = requests => SameWrites)
  BY AsksChangeNoWrites DEF TypeOK, SameAnswers
<1>2. ASSUME NEW p \in Param, NEW v \in Value, Edit(p, v) PROVE ScreenInv'
  <2>1. /\ client'[p].queued = v /\ client'[p].shown = v /\ client'[p].inFlight = client[p].inFlight
        /\ \A q \in Param \ {p} : client'[q] = client[q]
        /\ \A q \in Param \ {p} : wanted'[q] = wanted[q]
    BY <1>2, ClientTypeEntry DEF Edit, TypeOK, Client
  <2>2. UNCHANGED <<requests, inbox, stale>>
    BY <1>2 DEF Edit
  <2>3. ASSUME NEW q \in Param PROVE OneAtATime(q)' /\ Unchanging(q)'
    <3>1. v # None
      BY NoneAssumption DEF Reading
    <3> QED
      BY <2>1, <2>2, <3>1 DEF ScreenInv, OneAtATime, Unchanging
  <2> QED
    BY <2>3 DEF ScreenInv
<1>3. ASSUME FlushPendingWrites PROVE ScreenInv'
  BY <1>3, FlushedScreen
<1>4. ASSUME AskingStep PROVE ScreenInv'
  <2>1. CASE WriteReply \/ WriteFailed
    BY <2>1, AnswerTaken
  <2>2. CASE ~WriteReply /\ ~WriteFailed
    <3>1. SameAnswers(inbox, inbox') /\ stale' = stale /\ \A p \in Param : Untouched(p)
      BY <1>4, <2>2, OtherStepsTouchNothing
    <3>2. SameWrites /\ wanted' = wanted /\ \A p \in Param : client'[p].queued = client[p].queued
      BY <1>4, AskingStepKeeps
    <3>3. ASSUME NEW p \in Param PROVE OneAtATime(p)'
      BY <3>1, <3>2 DEF ScreenInv, OneAtATime, Untouched, SameAnswers, SameWrites
    <3>4. ASSUME NEW p \in Param PROVE Unchanging(p)'
      BY <3>1, <3>2 DEF ScreenInv, OneAtATime, Unchanging, Untouched, SameWrites, HasQueuedWrite
    <3> QED
      BY <3>3, <3>4 DEF ScreenInv
  <2> QED
    BY <2>1, <2>2
<1>5. ASSUME ServiceGone \/ AvailableParametersChanged PROVE ScreenInv'
  <2>1. /\ inbox # <<>> /\ Tail(inbox) \in Seq(Message) /\ Clear
        /\ \A p \in Param : Head(inbox) \notin Answers(p)
    BY <1>5, HeadOfInbox DEF ServiceGone, AvailableParametersChanged, Received, Answers, Of
  <2>2. SameWrites /\ SameAnswers(Tail(inbox), inbox')
    <3>1. CASE ServiceGone
      BY <1>1, <3>1 DEF ServiceGone, SameAnswers
    <3>2. CASE AvailableParametersChanged
      <4>1. Asks(IF connected THEN InitCalls ELSE <<>>)
        BY AsksMade
      <4> QED
        BY <2>1, <3>2, <4>1, CallsThatAsk, CallsThatAskAnswerNothing, AsksChangeNoWrites
           DEF AvailableParametersChanged
    <3> QED
      BY <1>5, <3>1, <3>2
  <2> QED
    BY <2>1, <2>2, ClearedScreen
<1>6. ASSUME AvailableParameters \/ ReadParameter PROVE ScreenInv'
  <2>1. /\ requests # <<>> /\ requests' = Tail(requests) /\ Head(requests).op # "write"
        /\ UNCHANGED <<client, wanted, stale>>
    BY <1>6 DEF AvailableParameters, ReadParameter, Asked
  <2>2. SameWrites
    <3>1. \A p \in Param : \A v : Head(requests) \notin Writes(p) /\ Head(requests) \notin WritesAs(p, v)
      BY <2>1 DEF Writes, WritesAs
    <3> QED
      BY <2>1, <3>1, ServedWrites DEF SameWrites
  <2>3. SameAnswers(inbox, inbox')
    <3>1. CASE AvailableParameters
      <4>1. inbox' = inbox \o <<[op |-> "listed", params |-> available]>>
        BY <1>1, <3>1, AppendIsConcat, MessagesMade DEF AvailableParameters, Of, TypeOK
      <4> QED
        BY <1>1, <4>1, NoticesMade, NoticesChangeNoAnswers DEF TypeOK
    <3>2. CASE ReadParameter
      <4> DEFINE p == Head(requests).param
                 v == IF p \in available THEN value[p] ELSE Invalid
      <4>1. Head(requests) \in Request
        BY <2>1, TailProperties DEF TypeOK
      <4>2. p \in Param /\ v \in Reading
        BY <3>2, <4>1, RequestFields DEF ReadParameter, Asked, TypeOK, Reading
      <4>3. inbox' = Append(inbox, [op |-> "value", param |-> p, value |-> v])
        BY <3>2 DEF ReadParameter
      <4> HIDE DEF p, v
      <4>4. inbox' = inbox \o <<[op |-> "value", param |-> p, value |-> v]>>
        BY <1>1, <4>2, <4>3, AppendIsConcat, MessagesMade DEF ValuesOf, Of
      <4> QED
        BY <1>1, <4>2, <4>4, NoticesMade, NoticesChangeNoAnswers
    <3> QED
      BY <1>6, <3>1, <3>2
  <2> QED
    BY <2>1, <2>2, <2>3, UnrelatedStep
<1>7. ASSUME WriteParameters PROVE ScreenInv'
  BY <1>7, ServedScreen
<1>8. ASSUME NEW t, Notices(t), inbox' = inbox \o t PROVE SameAnswers(inbox, inbox')
  BY <1>1, <1>8, NoticesChangeNoAnswers
<1>9. ASSUME NEW p \in Param, NEW v \in Value, Publish(p, v) PROVE ScreenInv'
  <2>1. inbox' = inbox \o <<[op |-> "changed", param |-> p, value |-> v]>>
    BY <1>1, <1>9, AppendIsConcat, MessagesMade DEF Publish, Of
  <2> QED
    BY <1>1, <1>8, <1>9, <2>1, NoticesMade, UnrelatedStep DEF Publish
<1>10. ASSUME NEW S \in SUBSET Param, ApplyProfile(S) PROVE ScreenInv'
  <2>1. inbox' = inbox \o <<[op |-> "profile"]>>
    BY <1>1, <1>10, AppendIsConcat, MessagesMade DEF ApplyProfile, Of
  <2> QED
    BY <1>1, <1>8, <1>10, <2>1, NoticesMade, UnrelatedStep DEF ApplyProfile, Nothing
<1>11. ASSUME Crash PROVE ScreenInv'
  BY <1>11, CrashScreen
<1>12. ASSUME NEW S \in SUBSET Param, Start(S) PROVE ScreenInv'
  <2>1. inbox' = inbox \o <<[op |-> "up"]>> \o <<[op |-> "profile"]>>
    <3>1. inbox' = inbox \o <<[op |-> "up"], [op |-> "profile"]>>
      BY <1>12 DEF Start
    <3>2. <<[op |-> "up"], [op |-> "profile"]>> = <<[op |-> "up"]>> \o <<[op |-> "profile"]>>
      OBVIOUS
    <3>3. <<[op |-> "up"]>> \in Seq(Message) /\ <<[op |-> "profile"]>> \in Seq(Message)
      BY NoticesMade DEF Notices
    <3>4. ASSUME NEW a \in Seq(Message), NEW b \in Seq(Message)
          PROVE  inbox \o a \o b = inbox \o (a \o b)
      BY <1>1, ConcatAssociative
    <3> QED
      BY <3>1, <3>2, <3>3, <3>4, Zenon
  <2>2. SameAnswers(inbox, inbox')
    <3> DEFINE s == inbox \o <<[op |-> "up"]>>
    <3>1. s \in Seq(Message) /\ SameAnswers(inbox, s)
      BY <1>1, NoticesMade, NoticesChangeNoAnswers
    <3>2. SameAnswers(s, s \o <<[op |-> "profile"]>>)
      BY <3>1, NoticesMade, NoticesChangeNoAnswers
    <3> QED
      BY <2>1, <3>1, <3>2, SameAnswersTransitive
  <2> QED
    BY <1>1, <1>12, <2>2, UnrelatedStep DEF Start
<1>13. CASE UNCHANGED vars
  BY <1>1, <1>13, UnrelatedStep DEF vars
<1> QED
  BY <1>2, <1>3, <1>4, <1>5, <1>6, <1>7, <1>9, <1>10, <1>11, <1>12, <1>13
     DEF Next, ClientStep, ServiceStep, AskingStep

(* Whatever replies and signals about older values arrive, the user sees the
   last edit until the service has it (parameterclient.cpp:289-420). *)
THEOREM EditsStay == Spec => []EditStaysOnScreen
<1>1. ASSUME TypeOK, EditInv, ScreenInv PROVE EditStaysOnScreen
  <2> SUFFICES ASSUME NEW p \in Param \ stale, wanted[p] # None,
                      client[p].queued # None \/ WritesOf(p) # {}
               PROVE  client[p].shown = wanted[p]
    BY DEF EditStaysOnScreen
  <2>1. CASE client[p].queued # None
    BY <1>1, <2>1 DEF EditInv, Travels, ScreenInv, Unchanging
  <2>2. CASE client[p].queued = None
    <3>1. PICK i \in WritesOf(p) : TRUE
      BY <2>2
    <3>2. i \in DOMAIN requests /\ requests[i] \in Writes(p)
      BY <1>1, <3>1, LenProperties, ElementOfSeq DEF WritesOf, Writes, TypeOK
    <3> QED
      BY <1>1, <2>2, <3>2 DEF Has, ScreenInv, Unchanging
  <2> QED
    BY <2>1, <2>2
<1>2. TypeOK /\ EditInv /\ ScreenInv => EditStaysOnScreen
  BY <1>1
<1> QED
  BY <1>2, ClientTypeCorrect, EditInit, EditStep, ScreenInit, ScreenStep, PTL DEF Spec

-----------------------------------------------------------------------------
(* Waiting ends. *)

Pends(c) == c.pending => HasWriteInProgress(c)

LEMMA PendingStep ==
    ASSUME TypeOK, [Next]_vars, \A p \in Param : Pends(client[p])
    PROVE  \A p \in Param : Pends(client'[p])
<1> USE DEF serviceVars, clientVars
<1>1. ASSUME NEW p \in Param, NEW v \in Value, Edit(p, v) PROVE \A q \in Param : Pends(client'[q])
  <2>1. v # None
    BY NoneAssumption DEF Reading
  <2>2. client'[p].queued = v /\ \A q \in Param \ {p} : client'[q] = client[q]
    BY <1>1, ClientTypeEntry DEF Edit, TypeOK, Client
  <2> QED
    BY <2>1, <2>2 DEF Pends, HasWriteInProgress, HasQueuedWrite
<1>2. ASSUME FlushPendingWrites PROVE \A q \in Param : Pends(client'[q])
  <2> SUFFICES ASSUME NEW q \in Param PROVE Pends(client'[q])
    OBVIOUS
  <2>1. CASE q \in FlushBatch
    <3>1. client[q].queued # None /\ client[q] \in Client
      BY <2>1, ClientTypeEntry DEF FlushBatch
    <3>2. client'[q].inFlight = client[q].queued
      BY <1>2, <2>1, <3>1, FlushedEntry DEF Client
    <3> QED
      BY <3>1, <3>2 DEF Pends, HasWriteInProgress, HasQueuedWrite
  <2> QED
    BY <1>2, <2>1, FlushedEntry
<1>3. ASSUME NEW p \in Param, Retry(p) PROVE \A q \in Param : Pends(client'[q])
  <2> DEFINE c == [client[p] EXCEPT !.timers = @ - 1]
             k == [c.confirming EXCEPT !.scheduled = FALSE]
  <2>1. /\ client[p] \in Client /\ c \in Client
        /\ c.queued = client[p].queued /\ c.inFlight = client[p].inFlight
        /\ c.confirming = client[p].confirming /\ c.pending = client[p].pending
    BY <1>3, ClientTypeEntry DEF Retry, Client
  <2>2. c.confirming # None => k \in Confirmation /\ k # None
    BY <2>1, NoneAssumption DEF Client, Confirmation
  <2> HIDE DEF k
  <2>3. \/ client' = [client EXCEPT ![p] = c]
        \/ c.confirming # None /\ client' = [client EXCEPT ![p] = [c EXCEPT !.confirming = k]]
    BY <1>3 DEF Retry, k
  <2> HIDE DEF c
  <2>4. CASE client' = [client EXCEPT ![p] = c]
    BY <2>1, <2>4 DEF Pends, HasWriteInProgress, HasQueuedWrite, TypeOK
  <2>5. CASE c.confirming # None /\ client' = [client EXCEPT ![p] = [c EXCEPT !.confirming = k]]
    BY <2>1, <2>2, <2>5 DEF Pends, HasWriteInProgress, HasQueuedWrite, TypeOK, Client
  <2> QED
    BY <2>3, <2>4, <2>5
<1>4. ASSUME NEW p \in Param, Expire(p) PROVE \A q \in Param : Pends(client'[q])
  <2> DEFINE k == [client[p].confirming EXCEPT !.expired = TRUE]
  <2>1. client[p] \in Client /\ client[p].confirming \in Confirmation
    BY <1>4, ClientTypeEntry DEF Expire, Client
  <2>2. k \in Confirmation /\ k # None
    BY <2>1, NoneAssumption DEF Confirmation
  <2>3. client' = [client EXCEPT ![p] = [client[p] EXCEPT !.confirming = k]]
    BY <1>4 DEF Expire, TypeOK
  <2> HIDE DEF k
  <2> QED
    BY <2>1, <2>2, <2>3 DEF Pends, HasWriteInProgress, TypeOK, Client
<1>5. ASSUME ServiceGone \/ AvailableParametersChanged PROVE \A q \in Param : Pends(client'[q])
  <2>1. Clear
    BY <1>5 DEF ServiceGone, AvailableParametersChanged
  <2> QED
    BY <2>1, ClientTypeEntry, ClearedEntry DEF Clear, Pends
<1>6. ASSUME Listed PROVE \A q \in Param : Pends(client'[q])
  <2> SUFFICES ASSUME NEW q \in Param PROVE Pends(client'[q])
    OBVIOUS
  <2>1. client[q] \in Client
    BY ClientTypeEntry
  <2>2. ~[client[q] EXCEPT !.valid = FALSE, !.pending = FALSE].pending
    BY <2>1 DEF Client
  <2> QED
    BY <1>6, <2>2 DEF Listed, Pends
<1>7. ASSUME ReadReply \/ ParameterChanged PROVE \A q \in Param : Pends(client'[q])
  <2> DEFINE m == Head(inbox)
  <2>1. m.param \in Param /\ m.value \in Reading /\ client[m.param] \in Client
    BY <1>7, HeadOfInbox, MessageFields, ClientTypeEntry DEF ReadReply, ParameterChanged, Received
  <2>2. PICK b \in BOOLEAN : client' = [client EXCEPT ![m.param] = Handled(@, m.value, b)]
    BY <1>7 DEF ReadReply, ParameterChanged
  <2>3. Pends(Handled(client[m.param], m.value, b))
    BY <2>1, HandledEntry DEF Pends
  <2> QED
    BY <2>1, <2>2, <2>3 DEF TypeOK
<1>8. ASSUME WriteReply \/ WriteFailed PROVE \A q \in Param : Pends(client'[q])
  <2>1. PICK names \in SUBSET Param, values \in Readings : BatchAnswered(names, values)
    BY <1>8, AnsweredBatch
  <2> SUFFICES ASSUME NEW q \in Param PROVE Pends(client'[q])
    OBVIOUS
  <2>2. Answered(client[q]) \in Client /\ Pends(Answered(client[q]))
    BY <2>1, ClientTypeEntry, AnsweredEntry, BatchEntries DEF Pends
  <2>3. ASSUME q \in DOMAIN values PROVE Pends(client'[q])
    <3>1. values[q] \in Reading
      BY <2>3, ReadingsFields
    <3>2. Pends(Handled(Answered(client[q]), values[q], TRUE))
      BY <2>2, <3>1, HandledEntry DEF Pends
    <3> QED
      BY <2>1, <2>3, <3>2, BatchEntries
  <2> QED
    BY <2>1, <2>2, <2>3, BatchEntries
<1>9. ASSUME ReadFailed PROVE \A q \in Param : Pends(client'[q])
  <2> DEFINE r == Head(inbox).request
  <2>1. r \in Request
    BY <1>9, HeadOfInbox, MessageFields DEF ReadFailed, Received
  <2>2. \A q \in Param : Pends(RefreshFailed(client[q]))
    BY ClientTypeEntry, RefreshFailedEntry DEF Pends
  <2> QED
    BY <1>9, <2>1, <2>2, RequestFields DEF ReadFailed, TypeOK
<1>10. ASSUME client' = client PROVE \A q \in Param : Pends(client'[q])
  BY <1>10
<1>11. ServiceUp => client' = client
  BY DEF ServiceUp
<1>12. AvailableParameters \/ ReadParameter \/ WriteParameters => client' = client
  BY DEF AvailableParameters, ReadParameter, WriteParameters
<1>13. Crash => client' = client
  BY DEF Crash
<1>14. \A S \in SUBSET Param : ApplyProfile(S) \/ Start(S) => client' = client
  BY DEF ApplyProfile, Start
<1>15. \A p \in Param, v \in Value : Publish(p, v) => client' = client
  BY DEF Publish
<1>16. UNCHANGED vars => client' = client
  BY DEF vars
<1> QED
  BY <1>1, <1>2, <1>3, <1>4, <1>5, <1>6, <1>7, <1>8, <1>9, <1>10, <1>11, <1>12, <1>13, <1>14,
     <1>15, <1>16 DEF Next, ClientStep, ServiceStep

AnswerDue(p) == Has(requests, Writes(p)) \/ Has(inbox, Answers(p))

LEMMA FlushedDue ==
    ASSUME TypeOK, FlushPendingWrites, NEW p \in Param, p \in FlushBatch \/ AnswerDue(p)
    PROVE  AnswerDue(p)'
<1>1. requests \in Seq(Request) /\ inbox \in Seq(Message) /\ FlushCalls \in Seq(Request)
  BY FlushCallsType DEF TypeOK
<1>2. CASE up
  <2>1. inbox' = inbox
    BY <1>1, <1>2, FlushCallIs, CallProperties
  <2> QED
    BY <1>2, <2>1, FlushedWrites DEF AnswerDue
<1>3. CASE ~up
  <2>1. requests' = requests /\ inbox' = inbox \o Errors(FlushCalls) /\ Errors(FlushCalls) \in Seq(Message)
    BY <1>1, <1>3, FlushCallIs, CallProperties, ErrorsProperties
  <2>2. p \in FlushBatch => Has(Errors(FlushCalls), Answers(p))
    <3>1. ASSUME p \in FlushBatch PROVE Has(FlushCalls, Writes(p))
      <4> DEFINE w == [op |-> "write", batch |-> [q \in FlushBatch |-> client[q].queued]]
      <4>1. w \in Request /\ FlushCalls = <<w>>
        BY <3>1, FlushCallsType, RequestsMade DEF FlushCalls
      <4>2. w \in Writes(p)
        BY <3>1, <4>1 DEF Writes
      <4> HIDE DEF w
      <4> QED
        BY <4>1, <4>2, Single
    <3> QED
      BY <1>1, <3>1, ErrorsAnswer
  <2> QED
    BY <1>1, <2>1, <2>2, HasConcat DEF AnswerDue
<1> QED
  BY <1>2, <1>3

LEMMA WaitingStep ==
    (TypeOK /\ \A p \in Param : Waiting(p)) /\ [Next]_vars => \A p \in Param : Waiting(p)'
<1> SUFFICES ASSUME TypeOK, \A p \in Param : Waiting(p), [Next]_vars, NEW p \in Param
             PROVE  Waiting(p)'
  OBVIOUS
<1> USE DEF serviceVars, clientVars, history
<1>1. Pends(client'[p])
  BY PendingStep DEF Waiting, Pends
<1>2. inbox \in Seq(Message) /\ requests \in Seq(Request) /\ client[p] \in Client
  BY ClientTypeEntry DEF TypeOK
<1>3. ASSUME client'[p].queued = client[p].queued, client'[p].inFlight = client[p].inFlight,
             flushing => flushing', AnswerDue(p) => AnswerDue(p)'
      PROVE  Waiting(p)'
  BY <1>1, <1>3 DEF Waiting, Pends, AnswerDue
<1>4. ASSUME NEW t \in Seq(Message), inbox' = inbox \o t, requests' = requests
      PROVE  AnswerDue(p) => AnswerDue(p)'
  BY <1>2, <1>4, HasConcat DEF AnswerDue
<1>5. ASSUME NEW q \in Param, NEW v \in Value, Edit(q, v) PROVE Waiting(p)'
  <2>1. flushing' /\ client'[p].inFlight = client[p].inFlight /\ UNCHANGED <<requests, inbox>>
    BY <1>2, <1>5 DEF Edit, TypeOK, Client
  <2> QED
    BY <1>1, <2>1 DEF Waiting, Pends
<1>6. ASSUME FlushPendingWrites PROVE Waiting(p)'
  <2>1. CASE p \in FlushBatch
    <3>1. AnswerDue(p)'
      BY <1>6, <2>1, FlushedDue
    <3>2. client'[p].queued = None
      BY <1>2, <1>6, <2>1, FlushedEntry DEF Client
    <3> QED
      BY <1>1, <3>1, <3>2 DEF Waiting, Pends, AnswerDue
  <2>2. CASE p \notin FlushBatch
    <3>1. client'[p] = client[p] /\ (client[p].queued # None => client[p].inFlight # None)
      BY <1>6, <2>2, FlushedEntry DEF FlushBatch
    <3>2. AnswerDue(p) => AnswerDue(p)'
      BY <1>6, FlushedDue
    <3> QED
      BY <1>1, <3>1, <3>2 DEF Waiting, Pends, AnswerDue
  <2> QED
    BY <2>1, <2>2
<1>7. ASSUME WriteReply \/ WriteFailed PROVE Waiting(p)'
  <2>1. PICK names \in SUBSET Param, values \in Readings :
            /\ BatchAnswered(names, values)
            /\ \A q \in Param : q \in names <=> Head(inbox) \in Answers(q)
            /\ DOMAIN values \subseteq names
    BY <1>7, AnsweredBatch
  <2>2. client'[p].queued = client[p].queued
    BY <2>1, BatchEntries
  <2>3. client'[p].queued # None => flushing'
    BY <2>1, <2>2 DEF BatchAnswered
  <2>4. CASE p \in names
    <3>1. Answered(client[p]) \in Client /\ Answered(client[p]).inFlight = None
      BY <1>2, <2>1, BatchEntries, AnsweredEntry
    <3>2. client'[p].inFlight = None
      <4>1. ASSUME p \in DOMAIN values PROVE client'[p].inFlight = None
        <5>1. values[p] \in Reading
          BY <4>1, ReadingsFields
        <5>2. Handled(Answered(client[p]), values[p], TRUE).inFlight = None
          BY <3>1, <5>1, HandledEntry
        <5> QED
          BY <2>1, <4>1, <5>2, BatchEntries
      <4> QED
        BY <2>1, <2>4, <3>1, <4>1, BatchEntries
    <3> QED
      BY <1>1, <2>3, <3>2 DEF Waiting, Pends
  <2>5. CASE p \notin names
    <3> DEFINE reqs == IF connected THEN Reads(Silent(names, values), TRUE) ELSE <<>>
    <3>1. inbox # <<>> /\ Tail(inbox) \in Seq(Message)
      BY <1>7, HeadOfInbox DEF WriteReply, WriteFailed, Received
    <3>2. Asks(reqs)
      BY AsksMade DEF Silent
    <3>3. Call(reqs, Tail(inbox))
      BY <2>1 DEF BatchAnswered, Silent
    <3> HIDE DEF reqs
    <3>4. SameWrites /\ SameAnswers(Tail(inbox), inbox')
      BY <1>7, <3>1, <3>2, <3>3, CallsThatAskAnswerNothing, AskingStepKeeps DEF AskingStep
    <3>5. Has(inbox, Answers(p)) => Has(Tail(inbox), Answers(p))
      BY <1>2, <2>1, <2>5, <3>1, HasTail
    <3>6. AnswerDue(p) => AnswerDue(p)'
      BY <3>4, <3>5 DEF AnswerDue, SameWrites, SameAnswers
    <3>7. client'[p] = client[p]
      BY <2>1, <2>5, BatchEntries
    <3> QED
      BY <1>1, <2>3, <3>6, <3>7 DEF Waiting, Pends, AnswerDue
  <2> QED
    BY <2>4, <2>5
<1>8. ASSUME AskingStep, ~WriteReply, ~WriteFailed PROVE Waiting(p)'
  <2>1. SameWrites /\ SameAnswers(inbox, inbox') /\ Untouched(p) /\ client'[p].queued = client[p].queued
    BY <1>8, OtherStepsTouchNothing, AskingStepKeeps
  <2>2. flushing' = flushing
    BY <1>8 DEF AskingStep, Retry, Expire, ServiceUp, Listed, ReadReply, ParameterChanged, ReadFailed
  <2> QED
    BY <1>3, <2>1, <2>2 DEF SameWrites, SameAnswers, Untouched, AnswerDue
<1>9. ASSUME ServiceGone \/ AvailableParametersChanged PROVE Waiting(p)'
  <2>1. client'[p] = Cleared(client[p])
    BY <1>9 DEF ServiceGone, AvailableParametersChanged, Clear
  <2> QED
    BY <1>1, <1>2, <2>1, ClearedEntry DEF Waiting, Pends
<1>10. ASSUME AvailableParameters \/ ReadParameter PROVE Waiting(p)'
  <2>1. /\ requests # <<>> /\ requests' = Tail(requests) /\ Head(requests).op # "write"
        /\ UNCHANGED <<client, flushing>>
    BY <1>10 DEF AvailableParameters, ReadParameter, Asked
  <2>2. Has(requests, Writes(p)) => Has(requests', Writes(p))
    BY <2>1, ServedWrites DEF Writes
  <2>3. Has(inbox, Answers(p)) => Has(inbox', Answers(p))
    <3>1. PICK m : inbox' = Append(inbox, m)
      BY <1>10 DEF AvailableParameters, ReadParameter
    <3>2. DOMAIN inbox \subseteq DOMAIN inbox' /\ \A i \in DOMAIN inbox : inbox'[i] = inbox[i]
      BY <1>2, <3>1
    <3> QED
      BY <3>2 DEF Has
  <2> QED
    BY <1>3, <2>1, <2>2, <2>3 DEF AnswerDue
<1>11. ASSUME WriteParameters PROVE Waiting(p)'
  <2>1. requests # <<>> /\ requests' = Tail(requests) /\ UNCHANGED <<client, flushing>>
    BY <1>11 DEF WriteParameters, Asked
  <2>2. PICK t \in Seq(Message) : /\ inbox' = inbox \o t
                                  /\ Has(t, Answers(p)) <=> Head(requests) \in Writes(p)
    BY <1>11, BatchServed
  <2>3. Has(inbox', Answers(p)) <=> Has(inbox, Answers(p)) \/ Has(t, Answers(p))
    BY <1>2, <2>2, HasConcat
  <2>4. Has(requests, Writes(p)) <=> Head(requests) \in Writes(p) \/ Has(requests', Writes(p))
    BY <2>1, ServedWrites
  <2> QED
    BY <1>3, <2>1, <2>2, <2>3, <2>4 DEF AnswerDue
<1>12. ASSUME Crash PROVE Waiting(p)'
  <2>1. requests' = <<>> /\ UNCHANGED <<client, flushing>>
    BY <1>12 DEF Crash
  <2>2. PICK t \in Seq(Message) : /\ inbox' = inbox \o t
                                  /\ Has(t, Answers(p)) <=> Has(requests, Writes(p))
    BY <1>12, CrashSays
  <2>3. Has(inbox', Answers(p)) <=> Has(inbox, Answers(p)) \/ Has(t, Answers(p))
    BY <1>2, <2>2, HasConcat
  <2> QED
    BY <1>3, <2>1, <2>2, <2>3 DEF AnswerDue
<1>13. ASSUME NEW q \in Param, NEW v \in Value, Publish(q, v) PROVE Waiting(p)'
  <2>1. <<[op |-> "changed", param |-> q, value |-> v]>> \in Seq(Message)
    BY NoticesMade DEF Notices
  <2>2. inbox' = inbox \o <<[op |-> "changed", param |-> q, value |-> v]>>
    BY <1>2, <1>13, AppendIsConcat, MessagesMade DEF Publish, Of
  <2> QED
    BY <1>3, <1>4, <1>13, <2>1, <2>2 DEF Publish
<1>14. ASSUME NEW S \in SUBSET Param, ApplyProfile(S) PROVE Waiting(p)'
  <2>1. <<[op |-> "profile"]>> \in Seq(Message)
    BY NoticesMade DEF Notices
  <2>2. inbox' = inbox \o <<[op |-> "profile"]>>
    BY <1>2, <1>14, AppendIsConcat, MessagesMade DEF ApplyProfile, Of
  <2> QED
    BY <1>3, <1>4, <1>14, <2>1, <2>2 DEF ApplyProfile
<1>15. ASSUME NEW S \in SUBSET Param, Start(S) PROVE Waiting(p)'
  <2>1. <<[op |-> "up"], [op |-> "profile"]>> \in Seq(Message)
    BY MessagesMade DEF Of
  <2> QED
    BY <1>3, <1>4, <1>15, <2>1 DEF Start
<1>16. CASE UNCHANGED vars
  BY <1>3, <1>16 DEF vars, AnswerDue
<1> QED
  BY <1>5, <1>6, <1>7, <1>8, <1>9, <1>10, <1>11, <1>12, <1>13, <1>14, <1>15, <1>16
     DEF Next, ClientStep, ServiceStep, AskingStep

-----------------------------------------------------------------------------
(* What each kind of step does to the queues. *)

TakingStep ==
    \/ ServiceGone \/ ServiceUp \/ AvailableParametersChanged
    \/ Listed \/ ReadReply \/ ParameterChanged
    \/ WriteReply \/ WriteFailed \/ ReadFailed
LocalStep ==
    \/ FlushPendingWrites
    \/ \E p \in Param : Retry(p) \/ Expire(p) \/ \E v \in Value : Edit(p, v)

(* The client takes the head of a box, and calls. *)
Calls(rest) ==
    \E reqs \in Seq(Request) :
        /\ up => requests' = requests \o reqs /\ inbox' = rest
        /\ ~up => requests' = requests /\ inbox' = rest \o Errors(reqs)

LEMMA NoCalls ==
    ASSUME NEW rest \in Seq(Message), TypeOK, requests' = requests, inbox' = rest
    PROVE  Calls(rest)
<1>1. <<>> \in Seq(Request) /\ requests \o <<>> = requests
  BY ConcatEmptySeq DEF TypeOK
<1>2. Errors(<<>>) = <<>>
  BY ErrorsProperties, <1>1 DEF Errors
<1>3. rest \o Errors(<<>>) = rest
  BY <1>2, ConcatEmptySeq
<1> QED
  BY <1>1, <1>3 DEF Calls

LEMMA LocalQueues ==
    ASSUME TypeOK, LocalStep
    PROVE  Calls(inbox) /\ UNCHANGED <<connected, up, available, value>>
<1>1. inbox \in Seq(Message)
  BY DEF TypeOK
<1>2. \A reqs \in Seq(Request) : Call(reqs, inbox) => Calls(inbox)
  BY <1>1, CallProperties DEF Calls
<1>3. UNCHANGED <<connected, up, available, value>>
  BY DEF LocalStep, FlushPendingWrites, Retry, Expire, Edit, serviceVars
<1>4. CASE FlushPendingWrites
  BY <1>2, <1>3, <1>4, FlushCallsType, FlushCallIs
<1>5. ASSUME NEW p \in Param, Retry(p) PROVE Calls(inbox)
  <2>1. (IF connected THEN <<Read(p, TRUE)>> ELSE <<>>) \in Seq(Request)
    BY ReadCall, NoMessage
  <2>2. \/ UNCHANGED <<requests, inbox>>
        \/ Call(IF connected THEN <<Read(p, TRUE)>> ELSE <<>>, inbox)
    BY <1>5 DEF Retry
  <2> QED
    BY <1>1, <1>2, <2>1, <2>2, NoCalls
<1>6. ASSUME NEW p \in Param, Expire(p) \/ \E v \in Value : Edit(p, v) PROVE Calls(inbox)
  BY <1>1, <1>6, NoCalls DEF Expire, Edit
<1> QED
  BY <1>3, <1>4, <1>5, <1>6 DEF LocalStep

LEMMA TakingQueues ==
    ASSUME TypeOK, TakingStep
    PROVE  /\ inbox # <<>> /\ Calls(Tail(inbox)) /\ UNCHANGED <<up, available, value>>
           /\ Head(inbox).op = "up" => connected'
           /\ Head(inbox).op \notin {"up", "gone"} => connected' = connected
<1>1. inbox # <<>>
  BY DEF TakingStep, ServiceGone, ServiceUp, AvailableParametersChanged, Listed, ReadReply,
         ParameterChanged, WriteReply, WriteFailed, ReadFailed, Received
<1>2. Tail(inbox) \in Seq(Message) /\ Head(inbox) \in Message
  BY <1>1, HeadOfInbox
<1>3. \A reqs \in Seq(Request) : Call(reqs, Tail(inbox)) => Calls(Tail(inbox))
  BY <1>2, CallProperties DEF Calls
<1>4. UNCHANGED <<up, available, value>>
  BY DEF TakingStep, ServiceGone, ServiceUp, AvailableParametersChanged, Listed, ReadReply,
         ParameterChanged, WriteReply, WriteFailed, ReadFailed, BatchAnswered, serviceVars
<1>5. /\ Head(inbox).op = "up" => connected'
      /\ Head(inbox).op \notin {"up", "gone"} => connected' = connected
  BY DEF TakingStep, ServiceGone, ServiceUp, AvailableParametersChanged, Listed, ReadReply,
         ParameterChanged, WriteReply, WriteFailed, ReadFailed, BatchAnswered, Received
<1>6. CASE ServiceGone \/ ReadReply \/ ParameterChanged \/ ReadFailed
  <2>1. UNCHANGED requests /\ inbox' = Tail(inbox)
    BY <1>6 DEF ServiceGone, ReadReply, ParameterChanged, ReadFailed
  <2> QED
    BY <1>1, <1>2, <1>4, <1>5, <2>1, NoCalls
<1>7. CASE ServiceUp
  <2>1. Call(InitCalls, Tail(inbox))
    BY <1>7 DEF ServiceUp
  <2> QED
    BY <1>1, <1>3, <1>4, <1>5, <2>1, RequestsMade
<1>8. CASE AvailableParametersChanged
  <2>1. Call(IF connected THEN InitCalls ELSE <<>>, Tail(inbox))
    BY <1>8 DEF AvailableParametersChanged
  <2>2. (IF connected THEN InitCalls ELSE <<>>) \in Seq(Request)
    BY RequestsMade, NoMessage
  <2> QED
    BY <1>1, <1>3, <1>4, <1>5, <2>1, <2>2
<1>9. CASE Listed
  <2>1. Call(Reads(Head(inbox).params, FALSE), Tail(inbox))
    BY <1>9 DEF Listed
  <2>2. Reads(Head(inbox).params, FALSE) \in Seq(Request)
    BY <1>2, <1>9, MessageFields, ReadsProperties DEF Listed, Received
  <2> QED
    BY <1>1, <1>3, <1>4, <1>5, <2>1, <2>2
<1>10. CASE WriteReply \/ WriteFailed
  <2>1. PICK names \in SUBSET Param, values \in Readings : BatchAnswered(names, values)
    BY <1>10, AnsweredBatch
  <2> DEFINE reqs == IF connected THEN Reads(Silent(names, values), TRUE) ELSE <<>>
  <2>2. reqs \in Seq(Request)
    BY ReadsProperties, NoMessage DEF Silent
  <2>3. Call(reqs, Tail(inbox))
    BY <2>1 DEF BatchAnswered, Silent
  <2> HIDE DEF reqs
  <2> QED
    BY <1>1, <1>3, <1>4, <1>5, <2>2, <2>3
<1> QED
  BY <1>6, <1>7, <1>8, <1>9, <1>10 DEF TakingStep

(* The service and the bus add to the box: nothing that is not true, and the
   news of whatever they change. *)
OutsideStep ==
    \/ ServiceStep
    \/ \E p \in Param, v \in Value : Publish(p, v)
    \/ Crash
    \/ \E S \in SUBSET Param : ApplyProfile(S) \/ Start(S)

Says(t) ==
    /\ t \in Seq(Message) /\ inbox' = inbox \o t
    /\ up /\ up' => \A i \in DOMAIN t : t[i].op \notin {"gone", "error"}
    /\ ~up /\ up' => Has(t, Of("up"))
    /\ ~Has(t, OldLists') /\ \A p \in available' : ~Has(t, OldReports(p)')
    /\ available' # available => Has(t, Of("profile"))
    /\ \A p \in available' : value'[p] # value[p] => Has(t, News(p))

LEMMA OneMessageSaid ==
    ASSUME TypeOK, NEW m \in Message, inbox' = Append(inbox, m), up, up',
           m.op \notin {"gone", "error"}, m \notin OldLists', \A p \in available' : m \notin OldReports(p)',
           available' # available => m.op = "profile",
           \A p \in available' : value'[p] # value[p] => m \in News(p)
    PROVE  Says(<<m>>)
<1>1. <<m>> \in Seq(Message) /\ inbox' = inbox \o <<m>>
  BY AppendIsConcat DEF TypeOK
<1>2. \A A : Has(<<m>>, A) <=> m \in A
  BY Single
<1>3. DOMAIN <<m>> = {1} /\ <<m>>[1] = m
  OBVIOUS
<1>4. \A i \in DOMAIN <<m>> : <<m>>[i].op \notin {"gone", "error"}
  BY <1>3
<1>5. m.op = "profile" => m \in Of("profile")
  BY DEF Of
<1> QED
  BY <1>1, <1>2, <1>4, <1>5 DEF Says

LEMMA ServiceSays ==
    ASSUME TypeOK, OutsideStep
    PROVE  \E t : Says(t)
<1> USE DEF serviceVars
<1>2. CASE AvailableParameters
  <2> DEFINE m == [op |-> "listed", params |-> available]
  <2>1. m \in Message /\ m.op = "listed" /\ m.params = available
    BY MessagesMade DEF Of, TypeOK
  <2>2. inbox' = Append(inbox, m) /\ up /\ UNCHANGED <<up, available, value>>
    BY <1>2 DEF AvailableParameters, Asked
  <2> HIDE DEF m
  <2>3. m \notin OldLists' /\ \A p \in available' : m \notin OldReports(p)'
    BY <2>1, <2>2 DEF OldLists, OldReports, ReportsOf, ValuesOf, Of
  <2>4. Says(<<m>>)
    BY <2>1, <2>2, <2>3, OneMessageSaid
  <2> QED
    BY <2>4
<1>3. CASE ReadParameter
  <2> DEFINE q == Head(requests).param
             v == IF q \in available THEN value[q] ELSE Invalid
             m == [op |-> "value", param |-> q, value |-> v]
  <2>1. Head(requests) \in Request
    BY <1>3, TailProperties DEF ReadParameter, Asked, TypeOK
  <2>2. q \in Param /\ v \in Reading
    BY <1>3, <2>1, RequestFields DEF ReadParameter, Asked, TypeOK, Reading
  <2>3. inbox' = Append(inbox, m) /\ up /\ UNCHANGED <<up, available, value>>
    BY <1>3 DEF ReadParameter, Asked
  <2>4. m \in Message /\ m.op = "value" /\ m.param = q /\ (q \in available => m.value = value[q])
    BY <2>2, MessagesMade DEF ValuesOf, Of
  <2> HIDE DEF m, q, v
  <2>5. m \notin OldLists' /\ \A p \in available' : m \notin OldReports(p)'
    BY <2>3, <2>4 DEF OldLists, OldReports, ReportsOf, ValuesOf, Of, Reported
  <2>6. Says(<<m>>)
    BY <2>3, <2>4, <2>5, OneMessageSaid
  <2> QED
    BY <2>6
<1>4. CASE WriteParameters
  <2>1. up /\ UNCHANGED <<up, available>> /\ available \subseteq Param
    BY <1>4 DEF WriteParameters, Asked, TypeOK
  <2>2. PICK t \in Seq(Message) :
            /\ inbox' = inbox \o t
            /\ \A p \in Param : value'[p] # value[p] => Has(t, ReportsOf(p))
            /\ \A i \in DOMAIN t : t[i].op \in {"changed", "written"}
            /\ \A p \in available : ~Has(t, {m \in ReportsOf(p) : Reported(m, p) # value'[p]})
    BY <1>4, BatchServed
  <2>3. ~Has(t, OldLists')
    BY <2>2 DEF Has, OldLists, Of
  <2>4. \A p \in available' : ~Has(t, OldReports(p)')
    BY <2>1, <2>2 DEF OldReports
  <2>5. \A p \in available' : value'[p] # value[p] => Has(t, News(p))
    BY <2>1, <2>2 DEF Has, News
  <2>6. Says(t)
    BY <2>1, <2>2, <2>3, <2>4, <2>5 DEF Says
  <2> QED
    BY <2>6
<1>5. ASSUME NEW p \in Param, NEW v \in Value, Publish(p, v) PROVE \E t : Says(t)
  <2> DEFINE m == [op |-> "changed", param |-> p, value |-> v]
  <2>1. m \in Message /\ m.op = "changed" /\ m.param = p /\ m.value = v
    BY MessagesMade DEF Of
  <2>2. /\ inbox' = Append(inbox, m) /\ up /\ UNCHANGED <<up, available>>
        /\ value' = [value EXCEPT ![p] = v] /\ available \subseteq Param
    BY <1>5 DEF Publish, TypeOK
  <2> HIDE DEF m
  <2>3. m \notin OldLists' /\ \A q \in available' : m \notin OldReports(q)'
    BY <2>1, <2>2 DEF OldLists, OldReports, ReportsOf, ValuesOf, Of, Reported, TypeOK
  <2>4. \A q \in available' : value'[q] # value[q] => m \in News(q)
    BY <2>1, <2>2 DEF News, ReportsOf, ValuesOf, Of, TypeOK
  <2>5. Says(<<m>>)
    BY <2>1, <2>2, <2>3, <2>4, OneMessageSaid
  <2> QED
    BY <2>5
<1>6. ASSUME NEW S \in SUBSET Param, ApplyProfile(S) PROVE \E t : Says(t)
  <2> DEFINE m == [op |-> "profile"]
  <2>1. m \in Of("profile") /\ m \in Message /\ m.op = "profile"
    BY MessagesMade DEF Of
  <2>2. inbox' = Append(inbox, m) /\ up /\ UNCHANGED up
    BY <1>6 DEF ApplyProfile
  <2> HIDE DEF m
  <2>3. m \notin OldLists' /\ \A q \in available' : m \notin OldReports(q)'
    BY <2>1 DEF OldLists, OldReports, ReportsOf, ValuesOf, Of
  <2>4. \A q \in available' : m \in News(q)
    BY <2>1 DEF News
  <2>5. Says(<<m>>)
    BY <2>1, <2>2, <2>3, <2>4, OneMessageSaid
  <2> QED
    BY <2>5
<1>7. CASE Crash
  <2>1. ~up' /\ UNCHANGED available
    BY <1>7 DEF Crash
  <2>2. PICK t \in Seq(Message) : /\ inbox' = inbox \o t
                                  /\ Has(t, Of("gone"))
                                  /\ \A i \in DOMAIN t : t[i].op \in {"gone", "error"}
    BY <1>7, CrashSays
  <2>3. ~Has(t, OldLists')
    BY <2>2 DEF Has, OldLists, Of
  <2>4. ASSUME NEW p \in available' PROVE ~Has(t, OldReports(p)')
    BY <2>2 DEF Has, OldReports, ReportsOf, ValuesOf, Of
  <2>5. \A p \in available' : Has(t, News(p))
    BY <2>2 DEF Has, News
  <2>6. Says(t)
    BY <2>1, <2>2, <2>3, <2>4, <2>5 DEF Says
  <2> QED
    BY <2>6
<1>8. ASSUME NEW S \in SUBSET Param, Start(S) PROVE \E t : Says(t)
  <2> DEFINE t == <<[op |-> "up"], [op |-> "profile"]>>
  <2>1. /\ t \in Seq(Message) /\ DOMAIN t = {1, 2}
        /\ t[1] \in Of("up") /\ t[1].op = "up" /\ t[2] \in Of("profile") /\ t[2].op = "profile"
    BY MessagesMade DEF Of
  <2>2. inbox' = inbox \o t /\ ~up
    BY <1>8 DEF Start
  <2> HIDE DEF t
  <2>3. Has(t, Of("up")) /\ Has(t, Of("profile")) /\ ~Has(t, OldLists')
    BY <2>1 DEF Has, OldLists, Of
  <2>4. ASSUME NEW p \in available' PROVE ~Has(t, OldReports(p)')
    BY <2>1 DEF Has, OldReports, ReportsOf, ValuesOf, Of
  <2>5. \A p \in available' : Has(t, News(p))
    BY <2>3 DEF Has, News
  <2>6. Says(t)
    BY <2>1, <2>2, <2>3, <2>4, <2>5 DEF Says
  <2> QED
    BY <2>6
<1> QED
  BY <1>2, <1>3, <1>4, <1>5, <1>6, <1>7, <1>8 DEF OutsideStep, ServiceStep

-----------------------------------------------------------------------------
(* The client knows of the service, and the news follow. *)

LEMMA ErrorsAreNoNews ==
    ASSUME NEW reqs \in Seq(Request)
    PROVE  /\ Errors(reqs) \in Seq(Message) /\ ~Has(Errors(reqs), OldLists)
           /\ \A p \in Param : ~Has(Errors(reqs), OldReports(p))
<1>1. \A i \in DOMAIN Errors(reqs) : Errors(reqs)[i].op = "error"
  BY ErrorsProperties DEF Of
<1> QED
  BY <1>1, ErrorsProperties DEF Has, OldLists, OldReports, ReportsOf, ValuesOf, Of

LEMMA NothingToFollow ==
    ASSUME NEW s, NEW A, NEW B, ~Has(s, A) PROVE Followed(s, A, B)
BY DEF Has, Followed

LEMMA LinkStep == TypeOK /\ Link /\ [Next]_vars => Link'
<1> SUFFICES ASSUME TypeOK, Link, [Next]_vars, up' PROVE Link'
  BY DEF Link
<1> DEFINE Ill == Of("gone") \union Of("error")
<1>1. inbox \in Seq(Message)
  BY DEF TypeOK
<1>2. CASE LocalStep
  BY <1>2, LocalQueues DEF Link, Calls
<1>3. CASE TakingStep
  <2>1. /\ up /\ inbox # <<>> /\ inbox' = Tail(inbox)
        /\ Head(inbox).op = "up" => connected'
        /\ Head(inbox).op \notin {"up", "gone"} => connected' = connected
    BY <1>3, TakingQueues DEF Calls
  <2>2. Followed(inbox', Ill, Of("up")) /\ (Head(inbox) \in Ill => Has(inbox', Of("up")))
    BY <1>1, <2>1, FollowedTail DEF Link
  <2>3. Has(inbox, Of("up")) => Head(inbox).op = "up" \/ Has(inbox', Of("up"))
    BY <1>1, <2>1, HasTail DEF Of
  <2>4. Head(inbox).op = "gone" => Head(inbox) \in Ill
    BY <2>1, HeadOfInbox DEF Of
  <2> QED
    BY <2>1, <2>2, <2>3, <2>4 DEF Link
<1>4. CASE OutsideStep
  <2>1. PICK t : Says(t)
    BY <1>4, ServiceSays
  <2>2. t \in Seq(Message) /\ inbox' = inbox \o t
    BY <2>1 DEF Says
  <2>3. connected' = connected
    BY <1>4 DEF OutsideStep, ServiceStep, AvailableParameters, ReadParameter, WriteParameters, Publish,
                Crash, ApplyProfile, Start, clientVars
  <2>4. CASE up
    <3>1. ~Has(t, Ill)
      BY <2>1, <2>4 DEF Says, Has, Of
    <3>2. Followed(t, Ill, Of("up"))
      BY <3>1, NothingToFollow
    <3>3. Followed(inbox', Ill, Of("up"))
      BY <1>1, <2>2, <2>4, <3>2, FollowedConcat DEF Link
    <3> QED
      BY <1>1, <2>2, <2>3, <2>4, <3>3, HasConcat DEF Link
  <2>5. CASE ~up
    <3>1. Has(t, Of("up"))
      BY <2>1, <2>5 DEF Says
    <3>2. Followed(t, Ill, Of("up"))
      <4>1. PICK S \in SUBSET Param : Start(S)
        BY <1>4, <2>5 DEF OutsideStep, ServiceStep, AvailableParameters, ReadParameter, WriteParameters,
                          Asked, Publish, Crash, ApplyProfile
      <4>2. inbox' = inbox \o <<[op |-> "up"], [op |-> "profile"]>>
        BY <4>1 DEF Start
      <4>3. <<[op |-> "up"], [op |-> "profile"]>> \in Seq(Message)
        BY MessagesMade DEF Of
      <4>4. t = <<[op |-> "up"], [op |-> "profile"]>>
        BY <1>1, <2>2, <4>2, <4>3, ConcatSimplifications
      <4>5. ~Has(t, Ill)
        BY <4>4 DEF Has, Of
      <4> QED
        BY <4>5, NothingToFollow
    <3>3. Followed(inbox', Ill, Of("up"))
      BY <1>1, <2>2, <3>1, <3>2, FollowedConcat
    <3>4. Has(inbox', Of("up"))
      BY <1>1, <2>2, <3>1, HasConcat
    <3> QED
      BY <3>3, <3>4 DEF Link
  <2> QED
    BY <2>4, <2>5
<1>5. CASE UNCHANGED vars
  BY <1>5 DEF vars, clientVars, serviceVars, Link
<1> QED
  BY <1>2, <1>3, <1>4, <1>5
     DEF Next, ClientStep, ServiceStep, LocalStep, TakingStep, OutsideStep

LEMMA NewsStep == TypeOK /\ NewsFollow /\ [Next]_vars => NewsFollow'
<1> SUFFICES ASSUME TypeOK, NewsFollow, [Next]_vars PROVE NewsFollow'
  OBVIOUS
<1>1. inbox \in Seq(Message) /\ available \subseteq Param
  BY DEF TypeOK
<1>2. ASSUME NEW s \in Seq(Message), Calls(s), UNCHANGED <<available, value>>,
             Followed(s, OldLists, Of("profile")),
             \A p \in available : Followed(s, OldReports(p), News(p))
      PROVE  NewsFollow'
  <2>1. OldLists' = OldLists /\ \A p : OldReports(p)' = OldReports(p)
    BY <1>2 DEF OldLists, OldReports
  <2>2. CASE inbox' = s
    BY <1>2, <2>1, <2>2 DEF NewsFollow, News
  <2>3. ASSUME NEW reqs \in Seq(Request), inbox' = s \o Errors(reqs) PROVE NewsFollow'
    <3>1. Followed(inbox', OldLists, Of("profile"))
      BY <1>2, <2>3, ErrorsAreNoNews, NothingToFollow, FollowedConcat
    <3>2. ASSUME NEW p \in available PROVE Followed(inbox', OldReports(p), News(p))
      <4>1. Errors(reqs) \in Seq(Message) /\ Followed(Errors(reqs), OldReports(p), News(p))
        BY <1>1, ErrorsAreNoNews, NothingToFollow
      <4> QED
        BY <1>2, <2>3, <4>1, FollowedConcat
    <3> QED
      BY <1>2, <2>1, <3>1, <3>2 DEF NewsFollow, News
  <2> QED
    BY <1>2, <2>2, <2>3 DEF Calls
<1>3. CASE LocalStep
  BY <1>1, <1>2, <1>3, LocalQueues DEF NewsFollow, News
<1>4. CASE TakingStep
  <2>1. inbox # <<>> /\ Calls(Tail(inbox)) /\ UNCHANGED <<available, value>>
    BY <1>4, TakingQueues
  <2>2. Tail(inbox) \in Seq(Message) /\ Followed(Tail(inbox), OldLists, Of("profile"))
    BY <1>1, <2>1, FollowedTail, TailProperties DEF NewsFollow
  <2>3. ASSUME NEW p \in available PROVE Followed(Tail(inbox), OldReports(p), News(p))
    BY <1>1, <2>1, FollowedTail DEF NewsFollow, News
  <2> QED
    BY <1>2, <2>1, <2>2, <2>3
<1>5. CASE OutsideStep
  <2>1. PICK t : Says(t)
    BY <1>5, ServiceSays
  <2>2. t \in Seq(Message) /\ inbox' = inbox \o t
    BY <2>1 DEF Says
  <2>3. Followed(inbox', OldLists', Of("profile"))
    <3>1. Followed(t, OldLists', Of("profile"))
      BY <2>1, NothingToFollow DEF Says
    <3>2. Followed(inbox, OldLists', Of("profile")) \/ Has(t, Of("profile"))
      BY <2>1 DEF Says, NewsFollow, OldLists
    <3> QED
      BY <1>1, <2>2, <3>1, <3>2, FollowedConcat
  <2>4. ASSUME NEW p \in available' PROVE Followed(inbox', OldReports(p)', News(p))
    <3>1. Followed(t, OldReports(p)', News(p))
      BY <2>1, NothingToFollow DEF Says
    <3>2. Followed(inbox, OldReports(p)', News(p)) \/ Has(t, News(p))
      <4>1. CASE p \in available /\ value'[p] = value[p]
        BY <4>1 DEF NewsFollow, OldReports, News
      <4>2. CASE p \notin available
        BY <2>1, <4>2 DEF Says, Has, News
      <4>3. CASE value'[p] # value[p]
        BY <2>1, <4>3 DEF Says
      <4> QED
        BY <4>1, <4>2, <4>3
    <3> QED
      BY <1>1, <2>2, <3>1, <3>2, FollowedConcat
  <2> QED
    BY <2>3, <2>4 DEF NewsFollow, News
<1>6. CASE UNCHANGED vars
  BY <1>6 DEF vars, serviceVars, NewsFollow, OldLists, OldReports
<1> QED
  BY <1>3, <1>4, <1>5, <1>6
     DEF Next, ClientStep, ServiceStep, LocalStep, TakingStep, OutsideStep

-----------------------------------------------------------------------------
(* The client and the service settle. *)

(* A step that takes nothing from the entry. *)
KeepsEntry(p) ==
    /\ HasWriteInProgress(client[p]) => HasWriteInProgress(client'[p])
    /\ HasQueuedWrite(client[p]) => HasQueuedWrite(client'[p])
    /\ client'[p].shown = client[p].shown \/ HasWriteInProgress(client'[p])
    /\ client[p].valid => client'[p].valid

LEMMA SettlingKept ==
    ASSUME NEW p \in Param, WillShow(p), WillBeValid(p), KeepsEntry(p),
           value'[p] = value[p] \/ Asking(p)' \/ Has(inbox', ReportsOf(p)),
           Asking(p) => Asking(p)' \/ Has(inbox', ValuesOf(p)),
           Has(inbox, ReportsOf(p)) => Has(inbox', ReportsOf(p)),
           Has(inbox, ValuesOf(p)) => Has(inbox', ValuesOf(p))
    PROVE  WillShow(p)' /\ WillBeValid(p)'
<1>1. Has(inbox', ValuesOf(p)) => Has(inbox', ReportsOf(p))
  BY DEF Has, ReportsOf
<1>2. WillShow(p)'
  BY <1>1 DEF WillShow, KeepsEntry
<1>3. WillBeValid(p)'
  BY DEF WillBeValid, KeepsEntry
<1> QED
  BY <1>2, <1>3

LEMMA AskingSettles == \A p : Asking(p)' => WillShow(p)' /\ WillBeValid(p)'
BY DEF WillShow, WillBeValid

(* The client's own steps. *)
LEMMA LocalEntries ==
    ASSUME TypeOK, LocalStep, NEW p \in Param
    PROVE  KeepsEntry(p)
<1>1. client[p] \in Client
  BY ClientTypeEntry
<1>2. client'[p] = client[p] => KeepsEntry(p)
  BY DEF KeepsEntry
<1>3. ASSUME FlushPendingWrites PROVE KeepsEntry(p)
  <2>1. CASE p \in FlushBatch
    <3>1. client[p].queued # None
      BY <2>1 DEF FlushBatch
    <3>2. /\ client'[p].inFlight = client[p].queued /\ client'[p].shown = client[p].shown
          /\ client'[p].valid = client[p].valid
      BY <1>1, <1>3, <2>1, FlushedEntry DEF Client
    <3> QED
      BY <3>1, <3>2 DEF KeepsEntry, HasWriteInProgress, HasQueuedWrite
  <2> QED
    BY <1>2, <1>3, <2>1, FlushedEntry
<1>4. ASSUME NEW q \in Param, Retry(q) PROVE KeepsEntry(p)
  <2> DEFINE c == [client[q] EXCEPT !.timers = @ - 1]
             k == [c.confirming EXCEPT !.scheduled = FALSE]
  <2>1. /\ client[q] \in Client /\ c \in Client
        /\ c.queued = client[q].queued /\ c.inFlight = client[q].inFlight
        /\ c.confirming = client[q].confirming /\ c.shown = client[q].shown
        /\ c.valid = client[q].valid
    BY <1>4, ClientTypeEntry DEF Retry, Client
  <2>2. c.confirming # None => k \in Confirmation /\ k # None
    BY <2>1, NoneAssumption DEF Client, Confirmation
  <2> HIDE DEF k
  <2>3. \/ client' = [client EXCEPT ![q] = c]
        \/ c.confirming # None /\ client' = [client EXCEPT ![q] = [c EXCEPT !.confirming = k]]
    BY <1>4 DEF Retry, k
  <2> HIDE DEF c
  <2>4. CASE client' = [client EXCEPT ![q] = c]
    BY <1>2, <2>1, <2>4 DEF KeepsEntry, HasWriteInProgress, HasQueuedWrite, TypeOK
  <2>5. CASE c.confirming # None /\ client' = [client EXCEPT ![q] = [c EXCEPT !.confirming = k]]
    <3> DEFINE d == [c EXCEPT !.confirming = k]
    <3>1. /\ d.queued = c.queued /\ d.inFlight = c.inFlight /\ d.shown = c.shown
          /\ d.valid = c.valid /\ d.confirming = k
      BY <2>1 DEF Client
    <3>2. client' = [client EXCEPT ![q] = d]
      BY <2>5
    <3> HIDE DEF d
    <3> QED
      BY <1>2, <2>1, <2>2, <2>5, <3>1, <3>2 DEF KeepsEntry, HasWriteInProgress, HasQueuedWrite, TypeOK
  <2> QED
    BY <2>3, <2>4, <2>5
<1>5. ASSUME NEW q \in Param, Expire(q) PROVE KeepsEntry(p)
  <2> DEFINE k == [client[q].confirming EXCEPT !.expired = TRUE]
             d == [client[q] EXCEPT !.confirming = k]
  <2>1. client[q] \in Client /\ client[q].confirming \in Confirmation
    BY <1>5, ClientTypeEntry DEF Expire, Client
  <2>2. k \in Confirmation /\ k # None
    BY <2>1, NoneAssumption DEF Confirmation
  <2>3. client' = [client EXCEPT ![q] = d]
    BY <1>5 DEF Expire, TypeOK
  <2> HIDE DEF k
  <2>4. /\ d.queued = client[q].queued /\ d.inFlight = client[q].inFlight
        /\ d.shown = client[q].shown /\ d.valid = client[q].valid /\ d.confirming = k
    BY <2>1 DEF Client
  <2> HIDE DEF d
  <2> QED
    BY <1>2, <2>2, <2>3, <2>4 DEF KeepsEntry, HasWriteInProgress, HasQueuedWrite, TypeOK
<1>6. ASSUME NEW q \in Param, NEW v \in Value, Edit(q, v) PROVE KeepsEntry(p)
  <2>1. v # None
    BY NoneAssumption DEF Reading
  <2>2. p # q => client'[p] = client[p]
    BY <1>6 DEF Edit, TypeOK
  <2>3. p = q => client'[p].queued = v /\ client'[p].valid = client[p].valid
    BY <1>1, <1>6 DEF Edit, TypeOK, Client
  <2> QED
    BY <1>2, <2>1, <2>2, <2>3 DEF KeepsEntry, HasWriteInProgress, HasQueuedWrite
<1> QED
  BY <1>3, <1>4, <1>5, <1>6 DEF LocalStep

LEMMA LocalSettles ==
    ASSUME TypeOK, LocalStep, up, Settling PROVE Settling'
<1>1. PICK reqs \in Seq(Request) : requests' = requests \o reqs /\ inbox' = inbox
  BY LocalQueues DEF Calls
<1>2. UNCHANGED <<up, available, value>>
  BY LocalQueues
<1> SUFFICES ASSUME ~Has(inbox', Of("up")), NEW p \in available PROVE WillShow(p)' /\ WillBeValid(p)'
  BY <1>2 DEF Settling
<1>3. WillShow(p) /\ WillBeValid(p) /\ p \in Param
  BY <1>1 DEF Settling, TypeOK
<1>4. Asking(p) => Asking(p)'
  BY <1>1, HasConcat DEF Asking, TypeOK
<1> QED
  BY <1>1, <1>2, <1>3, <1>4, LocalEntries, SettlingKept
(* What the client takes from a box that announces no restart. *)
LEMMA TakenWhileUp ==
    ASSUME TypeOK, Link, NewsFollow, Settling, TakingStep, up, ~Has(inbox', Of("up"))
    PROVE  /\ inbox # <<>> /\ inbox' = Tail(inbox) /\ Head(inbox) \in Message
           /\ UNCHANGED <<up, available, value>> /\ available \subseteq Param
           /\ Head(inbox).op \notin {"gone", "error"}
           /\ Head(inbox).op # "up" => connected
           /\ Head(inbox).op # "up" => \A p \in available : WillShow(p) /\ WillBeValid(p)
           /\ ~Has(inbox', Of("gone"))
           /\ \A A : Has(inbox, A) <=> Head(inbox) \in A \/ Has(inbox', A)
           /\ \A A : Has(requests, A) => Has(requests', A)
<1> DEFINE Ill == Of("gone") \union Of("error")
<1>1. inbox \in Seq(Message) /\ inbox # <<>> /\ Head(inbox) \in Message /\ available \subseteq Param
  BY TakingQueues, HeadOfInbox DEF TypeOK
<1>2. inbox' = Tail(inbox) /\ UNCHANGED <<up, available, value>>
  BY TakingQueues DEF Calls
<1>3. \A A : Has(inbox, A) <=> Head(inbox) \in A \/ Has(inbox', A)
  BY <1>1, <1>2, HasTail
<1>4. Followed(inbox', Ill, Of("up")) /\ (Head(inbox) \in Ill => Has(inbox', Of("up")))
  BY <1>1, <1>2, FollowedTail DEF Link
<1>5. Head(inbox).op \notin {"gone", "error"}
  BY <1>1, <1>4 DEF Of
<1>6. ~Has(inbox', Of("gone"))
  BY <1>4 DEF Has, Followed
<1>7. Head(inbox).op # "up" => ~Has(inbox, Of("up"))
  BY <1>3 DEF Of
<1>8. Head(inbox).op # "up" => connected /\ \A p \in available : WillShow(p) /\ WillBeValid(p)
  BY <1>7 DEF Link, Settling
<1>9. \A A : Has(requests, A) => Has(requests', A)
  <2>1. PICK reqs \in Seq(Request) : requests' = requests \o reqs
    BY TakingQueues DEF Calls
  <2> QED
    BY <2>1, HasConcat DEF TypeOK
<1> QED
  BY <1>1, <1>2, <1>3, <1>5, <1>6, <1>8, <1>9

(* What a report says is true, or the news are behind it. *)
LEMMA TrueOrFollowed ==
    ASSUME TypeOK, NewsFollow, inbox # <<>>, inbox' = Tail(inbox), ~Has(inbox', Of("gone")),
           NEW p \in available, Head(inbox) \in ReportsOf(p)
    PROVE  \/ Reported(Head(inbox), p) = value[p]
           \/ Asking(p)'
           \/ Has(inbox', ReportsOf(p))
<1>1. Head(inbox) \in OldReports(p) => Has(inbox', News(p))
  BY FollowedTail DEF NewsFollow, TypeOK
<1>2. Has(inbox', News(p)) => Has(inbox', Of("profile")) \/ Has(inbox', ReportsOf(p))
  BY DEF Has, News
<1>3. Has(inbox', Of("profile")) => Asking(p)'
  BY DEF Asking, Has
<1> QED
  BY <1>1, <1>2, <1>3 DEF OldReports

(* The client has asked for p. *)
LEMMA AskedFor ==
    ASSUME TypeOK, up, NEW reqs \in Seq(Request), NEW rest \in Seq(Message), Call(reqs, rest), NEW p,
           Has(reqs, Lists \union ReadsOf(p))
    PROVE  Asking(p)'
<1>1. requests' = requests \o reqs
  BY CallProperties
<1> QED
  BY <1>1, HasConcat DEF Asking, TypeOK

LEMMA ListAsksForAll == \A p : Has(InitCalls, Lists \union ReadsOf(p))
<1>1. InitCalls = <<[op |-> "list"]>> /\ [op |-> "list"] \in Lists /\ [op |-> "list"] \in Request
  BY RequestsMade DEF Lists
<1> QED
  BY <1>1, Single

(* An entry that was told of its value. *)
LEMMA HandledSettles ==
    ASSUME NEW p \in available, NEW c \in Client, NEW v \in Reading, NEW b \in BOOLEAN,
           client'[p] = Handled(c, v, b), value' = value,
           v = value[p] \/ Asking(p)' \/ Has(inbox', ReportsOf(p)),
           \/ Asking(p)' \/ Has(inbox', ValuesOf(p)) \/ HasQueuedWrite(c) \/ c.valid \/ b
    PROVE  WillShow(p)' /\ WillBeValid(p)'
<1> DEFINE d == Handled(c, v, b)
<1>1. /\ d.queued = c.queued /\ d.inFlight = c.inFlight
      /\ ~HasWriteInProgress(d) => d.shown = v
      /\ c.valid \/ (b /\ ~HasQueuedWrite(c)) => d.valid
  BY HandledEntry
<1>2. HasQueuedWrite(c) => HasQueuedWrite(d)
  BY <1>1 DEF HasQueuedWrite
<1> HIDE DEF d
<1>3. client'[p] = d
  BY DEF d
<1>4. WillShow(p)'
  BY <1>1, <1>3 DEF WillShow
<1>5. WillBeValid(p)'
  BY <1>1, <1>2, <1>3 DEF WillBeValid
<1> QED
  BY <1>4, <1>5

(* The steps that take something else than a report. *)
LEMMA CallsSettle ==
    ASSUME TypeOK, Link, NewsFollow, Settling, ServiceUp \/ AvailableParametersChanged \/ Listed, up
    PROVE  Settling'
<1> SUFFICES ASSUME ~Has(inbox', Of("up")), NEW p \in available' PROVE WillShow(p)' /\ WillBeValid(p)'
  BY DEF Settling
<1>1. /\ inbox # <<>> /\ inbox' = Tail(inbox) /\ Head(inbox) \in Message
      /\ available' = available /\ available \subseteq Param
      /\ Head(inbox).op # "up" => connected
  BY TakenWhileUp DEF TakingStep
<1>2. Tail(inbox) \in Seq(Message)
  BY <1>1, HeadOfInbox
<1>3. CASE ServiceUp
  <2>1. Call(InitCalls, Tail(inbox))
    BY <1>3 DEF ServiceUp
  <2> QED
    BY <1>2, <2>1, RequestsMade, ListAsksForAll, AskedFor, AskingSettles
<1>4. CASE AvailableParametersChanged
  <2>1. connected
    BY <1>1, <1>4 DEF AvailableParametersChanged, Received
  <2>2. Call(InitCalls, Tail(inbox))
    BY <1>4, <2>1 DEF AvailableParametersChanged
  <2> QED
    BY <1>2, <2>2, RequestsMade, ListAsksForAll, AskedFor, AskingSettles
<1>5. CASE Listed
  <2> DEFINE T == Head(inbox).params
  <2>1. Head(inbox).op = "listed" /\ T \in SUBSET Param /\ Call(Reads(T, FALSE), Tail(inbox))
    BY <1>1, <1>5, MessageFields DEF Listed, Received
  <2>2. CASE p \in T
    <3>1. Reads(T, FALSE) \in Seq(Request) /\ Has(Reads(T, FALSE), ReadsOf(p))
      BY <2>1, <2>2, ReadsProperties
    <3>2. Has(Reads(T, FALSE), Lists \union ReadsOf(p))
      BY <3>1 DEF Has
    <3> QED
      BY <1>2, <2>1, <3>1, <3>2, AskedFor, AskingSettles
  <2>3. CASE p \notin T
    <3>1. Head(inbox) \in OldLists
      BY <1>1, <2>1, <2>3 DEF OldLists, Of
    <3>2. Has(Tail(inbox), Of("profile"))
      BY <1>1, <3>1, FollowedTail DEF NewsFollow, TypeOK
    <3>3. Asking(p)'
      BY <1>1, <3>2 DEF Asking, Has
    <3> QED
      BY <3>3, AskingSettles
  <2> QED
    BY <2>2, <2>3
<1> QED
  BY <1>3, <1>4, <1>5

LEMMA ReportSettles ==
    ASSUME TypeOK, Link, NewsFollow, Settling, ReadReply \/ ParameterChanged, up
    PROVE  Settling'
<1> DEFINE m == Head(inbox)
<1> SUFFICES ASSUME ~Has(inbox', Of("up")), NEW p \in available' PROVE WillShow(p)' /\ WillBeValid(p)'
  BY DEF Settling
<1>1. (m.op = "value" /\ ReadReply) \/ (m.op = "changed" /\ ParameterChanged)
  BY DEF ReadReply, ParameterChanged, Received
<1>2. /\ inbox # <<>> /\ inbox' = Tail(inbox) /\ m \in Message
      /\ UNCHANGED <<available, value>> /\ p \in Param
      /\ ~Has(inbox', Of("gone")) /\ WillShow(p) /\ WillBeValid(p)
      /\ \A A : Has(inbox, A) <=> m \in A \/ Has(inbox', A)
      /\ \A A : Has(requests, A) => Has(requests', A)
  BY <1>1, TakenWhileUp DEF TakingStep
<1>3. m.param \in Param /\ m.value \in Reading
  BY <1>1, <1>2, MessageFields
<1>4. client' = [client EXCEPT ![m.param] = Handled(@, m.value, m.op = "value")]
  BY <1>1 DEF ReadReply, ParameterChanged
<1>5. Asking(p) => Asking(p)'
  <2>1. m \notin Of("profile") \union ListsWith(p)
    BY <1>1 DEF Of, ListsWith
  <2> QED
    BY <1>2, <2>1 DEF Asking
<1>6. CASE m.param # p
  <2>1. client'[p] = client[p]
    BY <1>4, <1>6
  <2>2. m \notin ReportsOf(p) /\ m \notin ValuesOf(p)
    BY <1>1, <1>6 DEF ReportsOf, ValuesOf, Of
  <2>3. KeepsEntry(p)
    BY <2>1 DEF KeepsEntry
  <2> QED
    BY <1>2, <1>5, <2>2, <2>3, SettlingKept
<1>7. CASE m.param = p
  <2>1. client'[p] = Handled(client[p], m.value, m.op = "value") /\ client[p] \in Client
    BY <1>2, <1>4, <1>7, ClientTypeEntry DEF TypeOK
  <2>2. m \in ReportsOf(p) /\ Reported(m, p) = m.value
    BY <1>1, <1>2, <1>7 DEF ReportsOf, ValuesOf, Of, Reported
  <2>3. m.value = value[p] \/ Asking(p)' \/ Has(inbox', ReportsOf(p))
    BY <1>2, <2>2, TrueOrFollowed
  <2>4. \/ Asking(p)' \/ Has(inbox', ValuesOf(p)) \/ HasQueuedWrite(client[p]) \/ client[p].valid
        \/ m.op = "value"
    <3>1. m.op = "changed" => m \notin ValuesOf(p)
      BY DEF ValuesOf, Of
    <3> QED
      BY <1>1, <1>2, <1>5, <3>1 DEF WillBeValid
  <2>5. (m.op = "value") \in BOOLEAN
    OBVIOUS
  <2> QED
    BY <1>2, <1>3, <2>1, <2>3, <2>4, <2>5, HandledSettles
<1> QED
  BY <1>6, <1>7

LEMMA AnswerSettles ==
    ASSUME TypeOK, Link, NewsFollow, Settling, WriteReply \/ WriteFailed, up
    PROVE  Settling'
<1> DEFINE m == Head(inbox)
<1> SUFFICES ASSUME ~Has(inbox', Of("up")), NEW p \in available' PROVE WillShow(p)' /\ WillBeValid(p)'
  BY DEF Settling
<1>1. /\ inbox # <<>> /\ inbox' = Tail(inbox) /\ m \in Message /\ m.op \notin {"gone", "error"}
      /\ UNCHANGED <<available, value>> /\ p \in Param
      /\ ~Has(inbox', Of("gone"))
      /\ m.op # "up" => connected /\ WillShow(p) /\ WillBeValid(p)
      /\ \A A : Has(inbox, A) <=> m \in A \/ Has(inbox', A)
      /\ \A A : Has(requests, A) => Has(requests', A)
  BY TakenWhileUp DEF TakingStep
<1>2. PICK names \in SUBSET Param, values \in Readings :
          /\ BatchAnswered(names, values) /\ DOMAIN values \subseteq names
          /\ \/ m.op = "error" /\ values = <<>>
             \/ m.op = "written" /\ values = m.values
  BY AnsweredBatch
<1>3. m.op = "written" /\ values = m.values /\ connected /\ WillShow(p) /\ WillBeValid(p)
  BY <1>1, <1>2
<1>4. Answered(client[p]) \in Client /\ client[p] \in Client
  BY <1>1, <1>2, BatchEntries, ClientTypeEntry
<1>5. Asking(p) => Asking(p)'
  <2>1. m \notin Of("profile") \union ListsWith(p)
    BY <1>3 DEF Of, ListsWith
  <2> QED
    BY <1>1, <2>1 DEF Asking
<1>6. CASE p \in DOMAIN values
  <2>1. values[p] \in Reading /\ client'[p] = Handled(Answered(client[p]), values[p], TRUE)
    BY <1>1, <1>2, <1>6, ReadingsFields, BatchEntries
  <2>2. m \in ReportsOf(p) /\ Reported(m, p) = values[p]
    BY <1>1, <1>3, <1>6 DEF ReportsOf, Of, Reported
  <2>3. values[p] = value[p] \/ Asking(p)' \/ Has(inbox', ReportsOf(p))
    BY <1>1, <2>2, TrueOrFollowed
  <2> QED
    BY <1>1, <1>4, <2>1, <2>3, HandledSettles
<1>7. CASE p \in names \ DOMAIN values
  <2>1. client'[p] = Answered(client[p])
    BY <1>1, <1>2, <1>7, BatchEntries
  <2>2. WillShow(p)'
    BY <1>4, <2>1, AnsweredEntry DEF WillShow
  <2>3. CASE client[p].queued # None
    <3>1. HasQueuedWrite(client'[p])
      BY <1>4, <2>1, <2>3, AnsweredEntry DEF HasQueuedWrite
    <3> QED
      BY <2>2, <3>1 DEF WillBeValid
  <2>4. CASE client[p].queued = None
    <3>1. Call(Reads(Silent(names, values), TRUE), Tail(inbox)) /\ Tail(inbox) \in Seq(Message)
      BY <1>1, <1>2, <1>3, HeadOfInbox DEF BatchAnswered, Silent
    <3>2. p \in Silent(names, values) /\ Silent(names, values) \in SUBSET Param
      BY <1>7, <2>4 DEF Silent
    <3>3. /\ Reads(Silent(names, values), TRUE) \in Seq(Request)
          /\ Has(Reads(Silent(names, values), TRUE), ReadsOf(p))
      BY <3>2, ReadsProperties
    <3>4. Has(Reads(Silent(names, values), TRUE), Lists \union ReadsOf(p))
      BY <3>3 DEF Has
    <3> QED
      BY <3>1, <3>3, <3>4, AskedFor, AskingSettles
  <2> QED
    BY <2>3, <2>4
<1>8. CASE p \notin names
  <2>1. client'[p] = client[p]
    BY <1>1, <1>2, <1>8, BatchEntries
  <2>2. m \notin ReportsOf(p) /\ m \notin ValuesOf(p)
    BY <1>2, <1>3, <1>8 DEF ReportsOf, ValuesOf, Of
  <2>3. KeepsEntry(p)
    BY <2>1 DEF KeepsEntry
  <2> QED
    BY <1>1, <1>3, <1>5, <2>2, <2>3, SettlingKept
<1> QED
  BY <1>2, <1>6, <1>7, <1>8

(* A departure or an error comes from an earlier run of the service. *)
LEMMA DepartureSettles ==
    ASSUME TypeOK, Link, NewsFollow, Settling, ServiceGone \/ ReadFailed, up
    PROVE  Settling'
<1> SUFFICES ASSUME ~Has(inbox', Of("up")) PROVE FALSE
  BY DEF Settling
<1>1. Head(inbox).op \in {"gone", "error"}
  BY DEF ServiceGone, ReadFailed, Received
<1> QED
  BY <1>1, TakenWhileUp DEF TakingStep
(* The service takes a request and says t. *)
LEMMA ServedSettles ==
    ASSUME TypeOK, Settling, up, requests # <<>>, requests' = Tail(requests),
           UNCHANGED <<client, available>>, NEW t \in Seq(Message), inbox' = inbox \o t,
           \A p \in available :
               /\ value'[p] # value[p] => Has(t, ReportsOf(p))
               /\ Head(requests) \in Lists \union ReadsOf(p) => Has(t, ListsWith(p)) \/ Has(t, ValuesOf(p))
    PROVE  Settling'
<1> SUFFICES ASSUME ~Has(inbox', Of("up")), NEW p \in available' PROVE WillShow(p)' /\ WillBeValid(p)'
  BY DEF Settling
<1>1. \A A : Has(inbox', A) <=> Has(inbox, A) \/ Has(t, A)
  BY HasConcat DEF TypeOK
<1>2. WillShow(p) /\ WillBeValid(p) /\ p \in Param
  BY <1>1 DEF Settling, TypeOK
<1>3. Has(requests, Lists \union ReadsOf(p)) =>
          Head(requests) \in Lists \union ReadsOf(p) \/ Has(requests', Lists \union ReadsOf(p))
  BY HasTail DEF TypeOK
<1>4. Has(t, ListsWith(p)) => Asking(p)'
  BY <1>1 DEF Asking, Has
<1>5. Asking(p) => Asking(p)' \/ Has(inbox', ValuesOf(p))
  BY <1>1, <1>3, <1>4 DEF Asking
<1>6. KeepsEntry(p)
  BY DEF KeepsEntry
<1> QED
  BY <1>1, <1>2, <1>5, <1>6, SettlingKept

LEMMA ServiceSettles ==
    ASSUME TypeOK, Settling, ServiceStep
    PROVE  Settling'
<1> USE DEF serviceVars, clientVars
<1>1. /\ up /\ requests # <<>> /\ requests' = Tail(requests) /\ UNCHANGED <<client, available>>
      /\ inbox \in Seq(Message) /\ Head(requests) \in Request /\ available \subseteq Param
  BY TailProperties DEF ServiceStep, AvailableParameters, ReadParameter, WriteParameters, Asked, TypeOK
<1>2. CASE AvailableParameters
  <2> DEFINE m == [op |-> "listed", params |-> available]
  <2>1. m \in Of("listed") /\ m \in Message /\ m.params = available
    BY <1>1, MessagesMade DEF Of
  <2>2. inbox' = Append(inbox, m) /\ value' = value
    BY <1>2 DEF AvailableParameters
  <2> HIDE DEF m
  <2>3. inbox' = inbox \o <<m>> /\ <<m>> \in Seq(Message)
    BY <1>1, <2>1, <2>2, AppendIsConcat
  <2>4. \A p \in available : Has(<<m>>, ListsWith(p))
    BY <2>1, Single DEF ListsWith
  <2> QED
    BY <1>1, <2>2, <2>3, <2>4, ServedSettles
<1>3. CASE ReadParameter
  <2> DEFINE q == Head(requests).param
             v == IF q \in available THEN value[q] ELSE Invalid
             m == [op |-> "value", param |-> q, value |-> v]
  <2>1. Head(requests).op = "read"
    BY <1>3 DEF ReadParameter, Asked
  <2>2. q \in Param /\ v \in Reading
    BY <1>1, <2>1, RequestFields DEF TypeOK, Reading
  <2>3. inbox' = Append(inbox, m) /\ value' = value
    BY <1>3 DEF ReadParameter
  <2>4. m \in ValuesOf(q) /\ m \in Message
    BY <2>2, MessagesMade DEF ValuesOf, Of
  <2>5. \A p : Head(requests) \in Lists \union ReadsOf(p) => p = q
    BY <2>1 DEF Lists, ReadsOf
  <2> HIDE DEF m, q, v
  <2>6. inbox' = inbox \o <<m>> /\ <<m>> \in Seq(Message)
    BY <1>1, <2>3, <2>4, AppendIsConcat
  <2>7. Has(<<m>>, ValuesOf(q))
    BY <2>4, Single
  <2> QED
    BY <1>1, <2>3, <2>5, <2>6, <2>7, ServedSettles
<1>4. CASE WriteParameters
  <2>1. PICK t \in Seq(Message) :
            /\ inbox' = inbox \o t
            /\ \A p \in Param : value'[p] # value[p] => Has(t, ReportsOf(p))
    BY <1>4, BatchServed
  <2>2. \A p : Head(requests) \notin Lists \union ReadsOf(p)
    BY <1>4 DEF WriteParameters, Asked, Lists, ReadsOf
  <2> QED
    BY <1>1, <2>1, <2>2, ServedSettles
<1> QED
  BY <1>2, <1>3, <1>4 DEF ServiceStep

LEMMA DisturbanceSettles ==
    ASSUME TypeOK, Settling,
           \/ \E p \in Param, v \in Value : Publish(p, v)
           \/ Crash
           \/ \E S \in SUBSET Param : ApplyProfile(S) \/ Start(S)
    PROVE  Settling'
<1> USE DEF serviceVars, clientVars
<1>1. inbox \in Seq(Message)
  BY DEF TypeOK
<1>2. CASE \E p \in Param, v \in Value : Publish(p, v)
  <2>1. PICK q \in Param, v \in Value : Publish(q, v)
    BY <1>2
  <2> DEFINE m == [op |-> "changed", param |-> q, value |-> v]
  <2>2. m \in ReportsOf(q) /\ m \in Message
    BY MessagesMade DEF ReportsOf, ValuesOf, Of
  <2>3. /\ inbox' = Append(inbox, m) /\ value' = [value EXCEPT ![q] = v]
        /\ UNCHANGED <<client, requests, up, available>>
    BY <2>1 DEF Publish
  <2> HIDE DEF m
  <2>4. \A A : Has(inbox', A) <=> Has(inbox, A) \/ m \in A
    <3>1. inbox' = inbox \o <<m>> /\ <<m>> \in Seq(Message) /\ \A A : Has(<<m>>, A) <=> m \in A
      BY <1>1, <2>2, <2>3, AppendIsConcat, Single
    <3> QED
      BY <1>1, <3>1, HasConcat
  <2> SUFFICES ASSUME up', ~Has(inbox', Of("up")), NEW p \in available'
               PROVE  WillShow(p)' /\ WillBeValid(p)'
    BY DEF Settling
  <2>5. WillShow(p) /\ WillBeValid(p) /\ p \in Param
    BY <2>3, <2>4 DEF Settling, TypeOK
  <2>6. Asking(p) => Asking(p)'
    BY <2>3, <2>4 DEF Asking
  <2>7. value'[p] = value[p] \/ Has(inbox', ReportsOf(p))
    BY <2>2, <2>3, <2>4, <2>5 DEF TypeOK
  <2>8. KeepsEntry(p)
    BY <2>3 DEF KeepsEntry
  <2> QED
    BY <2>4, <2>5, <2>6, <2>7, <2>8, SettlingKept
<1>3. CASE Crash
  BY <1>3 DEF Crash, Settling
<1>4. CASE \E S \in SUBSET Param : ApplyProfile(S)
  <2> DEFINE m == [op |-> "profile"]
  <2>1. m \in Of("profile") /\ m \in Message
    BY MessagesMade DEF Of
  <2>2. inbox' = Append(inbox, m)
    BY <1>4 DEF ApplyProfile
  <2> HIDE DEF m
  <2>3. \A A : Has(inbox', A) <=> Has(inbox, A) \/ m \in A
    <3>1. inbox' = inbox \o <<m>> /\ <<m>> \in Seq(Message) /\ \A A : Has(<<m>>, A) <=> m \in A
      BY <1>1, <2>1, <2>2, AppendIsConcat, Single
    <3> QED
      BY <1>1, <3>1, HasConcat
  <2>4. \A p : Asking(p)'
    BY <2>1, <2>3 DEF Asking
  <2> QED
    BY <2>4, AskingSettles DEF Settling
<1>5. CASE \E S \in SUBSET Param : Start(S)
  <2> DEFINE t == <<[op |-> "up"], [op |-> "profile"]>>
  <2>1. t \in Seq(Message) /\ DOMAIN t = {1, 2} /\ t[1] \in Of("up")
    BY MessagesMade DEF Of
  <2>2. inbox' = inbox \o t
    BY <1>5 DEF Start
  <2>3. Has(t, Of("up"))
    BY <2>1 DEF Has
  <2> HIDE DEF t
  <2>4. Has(inbox', Of("up"))
    BY <1>1, <2>1, <2>2, <2>3, HasConcat
  <2> QED
    BY <2>4 DEF Settling
<1> QED
  BY <1>2, <1>3, <1>4, <1>5

LEMMA SettlingStep ==
    TypeOK /\ Link /\ NewsFollow /\ Settling /\ [Next]_vars => Settling'
<1> SUFFICES ASSUME TypeOK, Link, NewsFollow, Settling, [Next]_vars, up' PROVE Settling'
  BY DEF Settling
<1>1. CASE LocalStep
  BY <1>1, LocalSettles, LocalQueues
<1>2. CASE TakingStep
  <2>1. up
    BY <1>2, TakingQueues
  <2> QED
    BY <1>2, <2>1, CallsSettle, ReportSettles, AnswerSettles, DepartureSettles DEF TakingStep
<1>3. CASE OutsideStep
  BY <1>3, ServiceSettles, DisturbanceSettles DEF OutsideStep
<1>4. CASE UNCHANGED vars
  BY <1>4 DEF vars, clientVars, serviceVars, Settling, WillShow, WillBeValid, Asking
<1> QED
  BY <1>1, <1>2, <1>3, <1>4
     DEF Next, ClientStep, ServiceStep, LocalStep, TakingStep, OutsideStep

LEMMA AgreementInit == Init => AgreementInv
<1> SUFFICES ASSUME Init PROVE AgreementInv
  OBVIOUS
<1>1. \A p \in Param : Waiting(p)
  BY DEF Init, Waiting
<1>2. [op |-> "up"] \in Of("up") /\ [op |-> "up"] \in Message
  BY MessagesMade DEF Of
<1>3. up => Has(inbox, Of("up"))
  BY <1>2, Single DEF Init
<1>4. \A i \in DOMAIN inbox : inbox[i].op = "up"
  BY DEF Init
<1>5. ~Has(inbox, Of("gone") \union Of("error")) /\ ~Has(inbox, OldLists)
  BY <1>4 DEF Has, Of, OldLists
<1>6. \A p \in available : ~Has(inbox, OldReports(p))
  BY <1>4 DEF Has, OldReports, ReportsOf, ValuesOf, Of
<1>7. Link
  BY <1>3, <1>5, NothingToFollow DEF Link
<1>8. NewsFollow
  BY <1>5, <1>6, NothingToFollow DEF NewsFollow
<1>9. Settling
  BY <1>3 DEF Settling
<1> QED
  BY <1>1, <1>7, <1>8, <1>9 DEF AgreementInv

(* When nothing is on its way and nothing is waited for, the client shows what
   the service holds, offers it, and waits for no answer, whatever was lost
   with a crash or discarded by a profile (parameterclient.cpp:112-232). *)
THEOREM ClientAgrees == Spec => []Agreement
<1>1. ASSUME TypeOK, AgreementInv PROVE Agreement
  <2> SUFFICES ASSUME Quiet, NEW p \in available
               PROVE  /\ client[p].valid /\ ~client[p].pending
                      /\ ~HasQueuedWrite(client[p])
                      /\ client[p].shown = value[p]
    BY DEF Agreement
  <2>1. /\ up /\ requests = <<>> /\ inbox = <<>> /\ ~flushing
        /\ p \in Param /\ client[p].confirming = None
    BY <1>1 DEF Quiet, TypeOK
  <2>2. \A A : ~Has(inbox, A) /\ ~Has(requests, A)
    BY <2>1, NoMessage
  <2>3. ~HasQueuedWrite(client[p]) /\ ~HasWriteInProgress(client[p]) /\ ~client[p].pending
    BY <1>1, <2>1, <2>2 DEF AgreementInv, Waiting, HasQueuedWrite, HasWriteInProgress
  <2>4. WillShow(p) /\ WillBeValid(p) /\ ~Asking(p)
    BY <1>1, <2>1, <2>2 DEF AgreementInv, Settling, Asking
  <2> QED
    BY <2>2, <2>3, <2>4 DEF WillShow, WillBeValid
<1>2. TypeOK /\ AgreementInv => Agreement
  BY <1>1
<1>3. TypeOK /\ AgreementInv /\ [Next]_vars => AgreementInv'
  BY WaitingStep, LinkStep, NewsStep, SettlingStep DEF AgreementInv
<1> QED
  BY <1>2, <1>3, ClientTypeCorrect, AgreementInit, PTL DEF Spec
=============================================================================
