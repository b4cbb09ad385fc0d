--------------------------- MODULE IoBufferProofs ---------------------------
(***************************************************************************)
(* Proofs about the EC shadow, for callers whose writes do not overlap in  *)
(* part: every parameter of a device profile writes one byte, so two of    *)
(* them write the same byte or different ones.                             *)
(***************************************************************************)
EXTENDS IoBuffer, TLAPS

(* Two shapes that fit the memory and share an address are the same shape. *)
ASSUME DisjointAssumption ==
    \A s, t \in Shapes : \A a \in Addr :
        /\ s[1] + s[2] <= Size /\ t[1] + t[2] <= Size
        /\ a \in s[1] .. s[1] + s[2] - 1
        /\ a \in t[1] .. t[1] + t[2] - 1
        => s = t

-----------------------------------------------------------------------------
(* What a queue q of writes looks like for such callers. *)
Fits(q) == \A k \in Addr : q[k] # <<>> =>
               /\ <<k, Len(q[k])>> \in Shapes
               /\ k + Len(q[k]) <= Size

NoOverlap(q) == \A j, k \in Addr : \A a \in Addr :
                    a \in Covers(q, j) /\ a \in Covers(q, k) => j = k

Agrees(q, mem) == \A k \in Addr : \A a \in Covers(q, k) :
                      mem[a] = q[k][a - k + 1]

(* The inductive invariant.  TypeOK and NothingForgotten are not inductive:
   that a queued byte is the one owed holds because every queued byte, owed
   or not, is the one the shadow shows, and because nothing is queued before
   the first read or outside the one place the phase allows. *)
OnePlace == /\ phase = "idle" => taken = NoWrites
            /\ phase # "idle" => pending = NoWrites
            /\ buffer = Unread => /\ pending = NoWrites
                                  /\ taken = NoWrites
                                  /\ owed = NothingOwed

OwedQueued == \A a \in Addr : owed[a] # NoByte =>
                  a \in Covered(Queue) /\ buffer[a] = owed[a]

IInv == /\ TypeOK
        /\ OnePlace
        /\ Fits(Queue)
        /\ buffer # Unread => Agrees(Queue, buffer)
        /\ OwedQueued

-----------------------------------------------------------------------------
(* Lemmas about queues. *)

(* An empty queue covers nothing. *)
LEMMA NoWritesCoverNothing ==
    /\ NoWrites \in [Addr -> Seq(Byte)]
    /\ \A k \in Addr : Covers(NoWrites, k) = {}
    /\ Covered(NoWrites) = {}
    /\ Fits(NoWrites)
    /\ \A mem : Agrees(NoWrites, mem)
<1>1. NoWrites \in [Addr -> Seq(Byte)]
  BY DEF NoWrites
<1>2. ASSUME NEW k \in Addr PROVE Covers(NoWrites, k) = {}
  <2>1. NoWrites[k] = <<>> /\ Len(NoWrites[k]) = 0
    BY DEF NoWrites
  <2> QED BY <2>1 DEF Covers, Addr
<1>3. Covered(NoWrites) = {}
  BY <1>2 DEF Covered
<1>4. Fits(NoWrites)
  BY DEF Fits, NoWrites
<1>5. ASSUME NEW mem PROVE Agrees(NoWrites, mem)
  BY <1>2 DEF Agrees
<1> QED BY <1>1, <1>2, <1>3, <1>4, <1>5

(* Putting entries back into an empty queue, or nothing into a queue, gives
   the other one. *)
LEMMA RequeuedEmpty ==
    ASSUME NEW q \in [Addr -> Seq(Byte)]
    PROVE  Requeued(NoWrites, q) = q /\ Requeued(q, NoWrites) = q
BY DEF Requeued, NoWrites

(* The entries of callers with disjoint shapes do not overlap. *)
LEMMA FitsNoOverlap ==
    ASSUME NEW q \in [Addr -> Seq(Byte)], Fits(q)
    PROVE  NoOverlap(q)
<1> SUFFICES ASSUME NEW j \in Addr, NEW k \in Addr, NEW a \in Addr,
                    a \in Covers(q, j), a \in Covers(q, k)
             PROVE  j = k
  BY DEF NoOverlap
<1>1. q[j] # <<>> /\ q[k] # <<>>
  <2>1. Len(q[j]) # 0 /\ Len(q[k]) # 0
    BY DEF Covers, Addr
  <2> QED BY <2>1
<1>2. /\ <<j, Len(q[j])>> \in Shapes /\ j + Len(q[j]) <= Size
      /\ <<k, Len(q[k])>> \in Shapes /\ k + Len(q[k]) <= Size
  BY <1>1 DEF Fits
<1>3. <<j, Len(q[j])>> = <<k, Len(q[k])>>
  BY <1>2, DisjointAssumption DEF Covers
<1> QED BY <1>3

(* The order of the writes does not matter for such a queue: a flush places
   the memory it agrees with at every covered address. *)
LEMMA FlushedAgreeing ==
    ASSUME NEW q \in [Addr -> Seq(Byte)], NoOverlap(q),
           NEW view, Agrees(q, view), NEW mem
    PROVE  Flushed(mem, q) =
             [a \in Addr |-> IF a \in Covered(q) THEN view[a] ELSE mem[a]]
<1> SUFFICES ASSUME NEW a \in Addr
             PROVE  Flushed(mem, q)[a] =
                      IF a \in Covered(q) THEN view[a] ELSE mem[a]
  BY DEF Flushed
<1> DEFINE at == {k \in Addr : a \in Covers(q, k)}
           last == CHOOSE k \in at : \A j \in at : j <= k
<1>1. Flushed(mem, q)[a] = IF at = {} THEN mem[a] ELSE q[last][a - last + 1]
  BY DEF Flushed
<1>2. CASE at = {}
  BY <1>1, <1>2 DEF Covered
<1>3. CASE at # {}
  <2>1. PICK k \in at : TRUE
    BY <1>3
  <2>2. \A j \in at : j = k
    BY <2>1 DEF NoOverlap
  <2>3. last \in at
    <3>1. k \in at /\ \A j \in at : j <= k
      BY <2>1, <2>2 DEF Addr
    <3> QED BY <3>1
  <2>4. a \in Covered(q) /\ view[a] = q[last][a - last + 1]
    BY <2>3 DEF Covered, Agrees
  <2> QED BY <1>1, <1>3, <2>4
<1> QED BY <1>2, <1>3
(* The entries a failed write loop has sent cover no more than the queue, do
   not overlap either and agree with whatever the queue agrees with. *)
LEMMA SentIsPart ==
    ASSUME NEW q \in [Addr -> Seq(Byte)], NoOverlap(q), NEW view, Agrees(q, view),
           NEW cut \in Addr, NEW n \in 0 .. Len(q[cut])
    PROVE  LET sent == SentBefore(q, cut, n)
           IN  /\ sent \in [Addr -> Seq(Byte)]
               /\ NoOverlap(sent)
               /\ Agrees(sent, view)
               /\ Covered(sent) \subseteq Covered(q)
<1> DEFINE sent == SentBefore(q, cut, n)
<1>0. q[cut] \in Seq(Byte) /\ n \in Nat /\ n <= Len(q[cut])
  OBVIOUS
<1>1. /\ SubSeq(q[cut], 1, n) \in Seq(Byte)
      /\ Len(SubSeq(q[cut], 1, n)) = n
      /\ \A i \in 1 .. n : SubSeq(q[cut], 1, n)[i] = q[cut][i]
  BY <1>0
<1>2. sent \in [Addr -> Seq(Byte)]
  BY <1>1 DEF SentBefore
<1>3. ASSUME NEW k \in Addr, NEW a \in Covers(sent, k)
      PROVE  a \in Covers(q, k) /\ sent[k][a - k + 1] = q[k][a - k + 1]
  <2>1. CASE k < cut
    BY <1>3, <2>1 DEF SentBefore, Covers
  <2>2. CASE k = cut
    <3>1. sent[k] = SubSeq(q[cut], 1, n)
      <4>1. sent[k] = IF k < cut THEN q[k]
                      ELSE IF k = cut THEN SubSeq(q[k], 1, n) ELSE <<>>
        BY DEF SentBefore
      <4>2. ~(k < cut)
        BY <2>2 DEF Addr
      <4> QED BY <2>2, <4>1, <4>2
    <3>2. a \in k .. k + n - 1
      BY <1>3, <1>1, <3>1 DEF Covers
    <3>3. a - k + 1 \in 1 .. n
      BY <3>2, <1>0 DEF Addr
    <3> QED BY <1>0, <1>1, <2>2, <3>1, <3>2, <3>3 DEF Covers, Addr
  <2>3. CASE k > cut
    <3>1. Covers(sent, k) = {}
      BY <2>3 DEF SentBefore, Covers, Addr
    <3> QED BY <1>3, <3>1
  <2> QED BY <2>1, <2>2, <2>3 DEF Addr
<1>4. NoOverlap(sent)
  BY <1>3 DEF NoOverlap
<1>5. Agrees(sent, view)
  BY <1>3 DEF Agrees
<1>6. Covered(sent) \subseteq Covered(q)
  BY <1>3 DEF Covered
<1> QED BY <1>2, <1>4, <1>5, <1>6

(* A flush changes bytes to bytes. *)
LEMMA FlushedType ==
    ASSUME NEW q \in [Addr -> Seq(Byte)], NoOverlap(q),
           NEW mem \in [Addr -> Byte]
    PROVE  Flushed(mem, q) \in [Addr -> Byte]
<1> SUFFICES ASSUME NEW a \in Addr PROVE Flushed(mem, q)[a] \in Byte
  BY DEF Flushed
<1> DEFINE at == {k \in Addr : a \in Covers(q, k)}
           last == CHOOSE k \in at : \A j \in at : j <= k
<1>1. Flushed(mem, q)[a] = IF at = {} THEN mem[a] ELSE q[last][a - last + 1]
  BY DEF Flushed
<1>2. CASE at = {}
  BY <1>1, <1>2
<1>3. CASE at # {}
  <2>1. PICK k \in at : TRUE
    BY <1>3
  <2>2. k \in at /\ \A j \in at : j <= k
    BY <2>1 DEF NoOverlap, Addr
  <2>3. last \in at
    BY <2>2
  <2>4. q[last] \in Seq(Byte) /\ a - last + 1 \in 1 .. Len(q[last])
    BY <2>3 DEF Covers, Addr
  <2> QED BY <1>1, <1>3, <2>4
<1> QED BY <1>2, <1>3

(* Queueing a write of a shape adds its addresses to those covered, and the
   queue agrees with the edited shadow when it agreed with the old one. *)
LEMMA QueueWrite ==
    ASSUME NEW q \in [Addr -> Seq(Byte)], Fits(q),
           NEW view \in [Addr -> Byte], Agrees(q, view),
           NEW shape \in Shapes, NEW bytes \in [1 .. shape[2] -> Byte],
           shape[1] <= Size, Len(bytes) <= Size - shape[1]
    PROVE  LET start == shape[1]
               next == [q EXCEPT ![start] = bytes]
           IN  /\ start \in Addr
               /\ start .. start + Len(bytes) - 1 \subseteq Addr
               /\ bytes \in Seq(Byte) /\ Len(bytes) = shape[2]
               /\ next \in [Addr -> Seq(Byte)]
               /\ Fits(next)
               /\ Agrees(next, Replaced(view, start, bytes))
               /\ Covered(next) =
                     Covered(q) \union (start .. start + Len(bytes) - 1)
<1> DEFINE start == shape[1]
           next == [q EXCEPT ![start] = bytes]
           edited == start .. start + Len(bytes) - 1
<1>1. start \in Nat /\ shape[2] \in Nat \ {0} /\ shape = <<start, shape[2]>>
  BY ShapesAssumption
<1>2. bytes \in Seq(Byte) /\ Len(bytes) = shape[2]
  BY <1>1
<1>3. start \in Addr /\ edited \subseteq Addr /\ start + Len(bytes) <= Size
  BY <1>1, <1>2, SizeAssumption DEF Addr
<1>4. next \in [Addr -> Seq(Byte)]
  BY <1>2, <1>3
<1>5. next[start] = bytes /\ \A k \in Addr \ {start} : next[k] = q[k]
  BY <1>3
<1>6. Fits(next)
  BY <1>1, <1>2, <1>3, <1>5 DEF Fits
<1>7. NoOverlap(next)
  BY <1>4, <1>6, FitsNoOverlap
<1>8. Covers(next, start) = edited
  BY <1>5 DEF Covers
<1>9. ASSUME NEW k \in Addr \ {start}, NEW a \in Covers(next, k)
      PROVE  a \in Covers(q, k) /\ a \in Addr /\ a \notin edited
  <2>1. a \in Covers(q, k) /\ q[k] # <<>>
    BY <1>5 DEF Covers, Addr
  <2>2. a \in Addr
    <3>1. k + Len(q[k]) <= Size
      BY <2>1 DEF Fits
    <3>2. k \in Nat /\ q[k] \in Seq(Byte) /\ Len(q[k]) \in Nat
      BY DEF Addr
    <3> QED BY <3>1, <3>2, <2>1, SizeAssumption DEF Covers, Addr
  <2>3. a \notin Covers(next, start)
    BY <1>3, <1>7, <1>9, <2>2 DEF NoOverlap
  <2> QED BY <1>8, <2>1, <2>2, <2>3
<1>10. Agrees(next, Replaced(view, start, bytes))
  <2> SUFFICES ASSUME NEW k \in Addr, NEW a \in Covers(next, k)
               PROVE  Replaced(view, start, bytes)[a] = next[k][a - k + 1]
    BY DEF Agrees
  <2>1. CASE k = start
    BY <1>3, <1>5, <1>8, <2>1 DEF Replaced
  <2>2. CASE k # start
    <3>1. a \in Addr /\ a \notin edited /\ a \in Covers(q, k)
      BY <1>9, <2>2
    <3>2. Replaced(view, start, bytes)[a] = view[a]
      BY <3>1 DEF Replaced
    <3> QED BY <1>5, <2>2, <3>1, <3>2 DEF Agrees
  <2> QED BY <2>1, <2>2
<1>11. Covered(next) = Covered(q) \union edited
  <2>1. \A k \in Addr \ {start} : Covers(next, k) = Covers(q, k)
    BY <1>5 DEF Covers
  <2>2. Covers(q, start) \subseteq edited
    <3>1. CASE q[start] = <<>>
      BY <3>1, <1>3 DEF Covers, Addr
    <3>2. CASE q[start] # <<>>
      <4>1. <<start, Len(q[start])>> \in Shapes /\ start + Len(q[start]) <= Size
        BY <3>2, <1>3 DEF Fits
      <4>2. q[start] \in Seq(Byte) /\ Len(q[start]) # 0
        BY <3>2, <1>3
      <4>3. <<start, Len(q[start])>> = shape
        <5> DEFINE old == <<start, Len(q[start])>>
        <5>1. old[1] = start /\ old[2] = Len(q[start])
          OBVIOUS
        <5>2. /\ start \in old[1] .. old[1] + old[2] - 1
              /\ start \in shape[1] .. shape[1] + shape[2] - 1
          BY <1>1, <4>2, <5>1
        <5>3. old[1] + old[2] <= Size /\ shape[1] + shape[2] <= Size
          BY <1>2, <1>3, <4>1, <5>1
        <5> QED BY <1>3, <4>1, <5>2, <5>3, DisjointAssumption
      <4>4. Len(q[start]) = shape[2]
        BY <4>3
      <4> QED BY <1>2, <4>4 DEF Covers
    <3> QED BY <3>1, <3>2
  <2> QED BY <1>3, <1>8, <2>1, <2>2 DEF Covered
<1> QED BY <1>2, <1>3, <1>4, <1>6, <1>10, <1>11
-----------------------------------------------------------------------------
(* The queue is where the phase says it is. *)
LEMMA QueuePlace ==
    ASSUME TypeOK, OnePlace
    PROVE  /\ phase = "idle" => Queue = pending
           /\ phase # "idle" => Queue = taken
           /\ Queue \in [Addr -> Seq(Byte)]
<1>1. pending \in [Addr -> Seq(Byte)] /\ taken \in [Addr -> Seq(Byte)]
  BY DEF TypeOK
<1>2. phase = "idle" => Queue = pending
  BY <1>1, RequeuedEmpty DEF OnePlace, Queue
<1>3. phase # "idle" => Queue = taken
  BY <1>1, RequeuedEmpty DEF OnePlace, Queue
<1> QED BY <1>1, <1>2, <1>3

(* A queue whose entries fit the memory covers addresses of the memory. *)
LEMMA FittingCovers ==
    ASSUME NEW q \in [Addr -> Seq(Byte)], Fits(q), NEW k \in Addr
    PROVE  Covers(q, k) \subseteq Addr
<1>1. q[k] \in Seq(Byte) /\ Len(q[k]) \in Nat /\ k \in Nat
  BY DEF Addr
<1>2. CASE q[k] = <<>>
  BY <1>1, <1>2 DEF Covers
<1>3. CASE q[k] # <<>>
  <2>1. k + Len(q[k]) <= Size
    BY <1>3 DEF Fits
  <2> QED BY <1>1, <2>1, SizeAssumption DEF Covers, Addr
<1> QED BY <1>2, <1>3

(* What the attempts to write rest on. *)
LEMMA TakenFlush ==
    ASSUME IInv, phase # "idle"
    PROVE  /\ taken \in [Addr -> Seq(Byte)]
           /\ NoOverlap(taken)
           /\ Agrees(taken, buffer)
           /\ Queue = taken
<1>1. taken \in [Addr -> Seq(Byte)] /\ Queue = taken
  BY QueuePlace DEF IInv, TypeOK
<1>2. NoOverlap(taken)
  BY <1>1, FitsNoOverlap DEF IInv
<1>3. Agrees(taken, buffer)
  <2>1. CASE buffer = Unread
    BY <2>1, NoWritesCoverNothing DEF IInv, OnePlace
  <2>2. CASE buffer # Unread
    BY <1>1, <2>2 DEF IInv
  <2> QED BY <2>1, <2>2
<1> QED BY <1>1, <1>2, <1>3

(* Initially nothing is queued and nothing is owed. *)
LEMMA InitInductive == Init => IInv
<1> SUFFICES ASSUME Init PROVE IInv
  OBVIOUS
<1>1. TypeOK
  BY NoWritesCoverNothing DEF Init, TypeOK, NothingOwed, Phases
<1>2. OnePlace
  BY DEF Init, OnePlace
<1>3. Queue = NoWrites
  BY <1>1, <1>2, QueuePlace DEF Init
<1>4. OwedQueued
  BY DEF Init, OwedQueued, NothingOwed
<1> QED BY <1>1, <1>2, <1>3, <1>4, NoWritesCoverNothing DEF Init, IInv

(* A step that moves the queue without changing what it holds, and changes
   neither the shadow nor what is owed, keeps the invariant. *)
LEMMA QueueMoves ==
    ASSUME IInv, UNCHANGED <<buffer, owed>>, hw' \in [Addr -> Byte],
           phase' \in Phases,
           \/ phase' = "idle" /\ taken' = NoWrites /\ pending' = Queue
           \/ phase' # "idle" /\ pending' = NoWrites /\ taken' = Queue
    PROVE  IInv' /\ Queue' = Queue
<1>1. Queue \in [Addr -> Seq(Byte)]
  BY QueuePlace DEF IInv
<1>2. \A k \in Addr : Covers(Queue, k) \subseteq Addr
  BY <1>1, FittingCovers DEF IInv
<1>3. TypeOK'
  BY <1>1, <1>2, NoWritesCoverNothing DEF IInv, TypeOK, Covers
<1>4. buffer = Unread => Queue = NoWrites
  BY QueuePlace DEF IInv, OnePlace
<1>5. OnePlace'
  BY <1>4 DEF IInv, OnePlace
<1>6. Queue' = Queue
  BY <1>1, RequeuedEmpty DEF Queue
<1>7. OwedQueued'
  BY <1>6 DEF IInv, OwedQueued
<1> QED BY <1>3, <1>5, <1>6, <1>7 DEF IInv, Fits, Agrees, Covers

(* writeBytes keeps the invariant and adds the written addresses to those
   the queue covers. *)
LEMMA WriteInductive ==
    ASSUME IInv, NEW shape \in Shapes, NEW bytes \in [1 .. shape[2] -> Byte],
           WriteBytes(shape[1], bytes)
    PROVE  /\ IInv'
           /\ buffer' \in [Addr -> Byte]
           /\ LET edited == shape[1] .. shape[1] + Len(bytes) - 1
              IN  /\ edited \subseteq Addr
                  /\ \A a \in Addr \ edited : buffer'[a] = buffer[a]
                  /\ Covered(Queue)' = Covered(Queue) \union edited
<1> DEFINE start == shape[1]
           edited == start .. start + Len(bytes) - 1
           next == [pending EXCEPT ![start] = bytes]
<1>1. /\ phase = "idle" /\ buffer # Unread /\ buffer \in [Addr -> Byte]
      /\ start <= Size /\ Len(bytes) <= Size - start
      /\ pending' = next
      /\ buffer' = Replaced(buffer, start, bytes)
      /\ owed' = Replaced(owed, start, bytes)
      /\ phase' = phase /\ taken' = taken /\ hw' = hw
  BY DEF WriteBytes, InBounds, Enqueued, IInv, TypeOK
<1>2. pending \in [Addr -> Seq(Byte)] /\ Queue = pending /\ taken = NoWrites
  BY <1>1, QueuePlace DEF IInv, TypeOK, OnePlace
<1>3. /\ start \in Addr
      /\ edited \subseteq Addr
      /\ bytes \in Seq(Byte) /\ Len(bytes) = shape[2]
      /\ next \in [Addr -> Seq(Byte)]
      /\ Fits(next)
      /\ Agrees(next, buffer')
      /\ Covered(next) = Covered(pending) \union edited
  BY <1>1, <1>2, QueueWrite DEF IInv
<1>4. /\ buffer' \in [Addr -> Byte]
      /\ owed' \in [Addr -> Byte \union {NoByte}]
      /\ \A a \in Addr \ edited : buffer'[a] = buffer[a] /\ owed'[a] = owed[a]
      /\ \A a \in edited : owed'[a] = buffer'[a]
  <2>1. owed \in [Addr -> Byte \union {NoByte}]
    BY DEF IInv, TypeOK
  <2>2. ASSUME NEW a \in edited PROVE bytes[a - start + 1] \in Byte
    <3>1. start \in Nat /\ Len(bytes) \in Nat
      BY <1>3 DEF Addr
    <3>2. a - start + 1 \in 1 .. shape[2]
      BY <1>3, <3>1
    <3> QED BY <3>2
  <2> QED BY <1>1, <1>3, <2>1, <2>2 DEF Replaced
<1>5. TypeOK'
  <2>1. \A k \in Addr : Covers(next, k) \subseteq Addr
    BY <1>3, FittingCovers
  <2> QED BY <1>1, <1>2, <1>3, <1>4, <2>1, NoWritesCoverNothing
          DEF IInv, TypeOK, Covers
<1>6. OnePlace'
  BY <1>1, <1>2, <1>4, UnreadAssumption DEF OnePlace
<1>7. Queue' = next
  BY <1>1, <1>2, <1>3, RequeuedEmpty DEF Queue
<1>8. OwedQueued'
  <2> SUFFICES ASSUME NEW a \in Addr, owed'[a] # NoByte
               PROVE  a \in Covered(next) /\ buffer'[a] = owed'[a]
    BY <1>7 DEF OwedQueued, Covered, Covers
  <2>1. CASE a \in edited
    BY <1>3, <1>4, <2>1
  <2>2. CASE a \notin edited
    BY <1>2, <1>3, <1>4, <2>2 DEF IInv, OwedQueued
  <2> QED BY <2>1, <2>2
<1>9. Fits(Queue)' /\ Agrees(Queue, buffer)'
  BY <1>3, <1>7 DEF Fits, Agrees, Covers
<1>10. Covered(Queue)' = Covered(Queue) \union edited
  BY <1>2, <1>3, <1>7 DEF Covered, Covers
<1> QED BY <1>3, <1>4, <1>5, <1>6, <1>8, <1>9, <1>10 DEF IInv
(* Every step of the shadow keeps the invariant. *)
LEMMA NextInductive == IInv /\ [Next]_vars => IInv'
<1> SUFFICES ASSUME IInv, [Next]_vars PROVE IInv'
  OBVIOUS
<1>0. Queue \in [Addr -> Seq(Byte)] /\ (phase = "idle" => Queue = pending)
  BY QueuePlace DEF IInv
<1>1. CASE \E shape \in Shapes : \E bytes \in [1 .. shape[2] -> Byte] :
              WriteBytes(shape[1], bytes)
  BY <1>1, WriteInductive
<1>2. CASE StartRead
  BY <1>0, <1>2, QueueMoves DEF StartRead, Phases, IInv, TypeOK
<1>3. CASE WriteAll
  <2>1. hw' \in [Addr -> Byte]
    BY <1>3, TakenFlush, FlushedType DEF WriteAll, IInv, TypeOK
  <2> QED BY <1>3, <2>1, TakenFlush, QueueMoves DEF WriteAll, Phases, IInv, OnePlace
<1>4. ASSUME NEW cut \in Addr, NEW n \in 0 .. Len(taken[cut]), WriteFails(cut, n)
      PROVE  IInv'
  <2>1. hw' \in [Addr -> Byte]
    <3>1. hw' = Flushed(hw, SentBefore(taken, cut, n)) /\ hw \in [Addr -> Byte]
      BY <1>4 DEF WriteFails, IInv, TypeOK
    <3> QED BY <1>4, <3>1, TakenFlush, SentIsPart, FlushedType DEF WriteFails
  <2>2. pending' = Queue /\ taken' = NoWrites /\ phase' = "idle"
    BY <1>4 DEF WriteFails, PutBack, Queue
  <2> QED BY <1>4, <2>1, <2>2, QueueMoves DEF WriteFails, PutBack, Phases
<1>5. CASE ReadFails
  <2>1. pending' = Queue /\ taken' = NoWrites /\ phase' = "idle"
    BY <1>5 DEF ReadFails, PutBack, Queue
  <2> QED BY <1>5, <2>1, QueueMoves DEF ReadFails, PutBack, Phases, IInv, TypeOK
<1>6. ASSUME taken' = NoWrites, pending' = NoWrites, owed' = NothingOwed,
             phase' = "idle", hw' = hw, buffer' \in {hw, Unread}
      PROVE  IInv'
  <2>1. TypeOK'
    BY <1>6, NoWritesCoverNothing DEF IInv, TypeOK, NothingOwed, Phases, Covers
  <2>2. OnePlace'
    BY <1>6 DEF OnePlace
  <2>3. Queue' = NoWrites
    BY <1>6, NoWritesCoverNothing, RequeuedEmpty DEF Queue
  <2>4. OwedQueued'
    BY <1>6 DEF OwedQueued, NothingOwed
  <2>5. Fits(Queue)' /\ Agrees(Queue, buffer)'
    BY <2>3, NoWritesCoverNothing DEF Fits, Agrees, Covers
  <2> QED BY <2>1, <2>2, <2>4, <2>5 DEF IInv
<1>7. CASE ReadAll
  BY <1>6, <1>7 DEF ReadAll, IInv, OnePlace
<1>8. CASE Restart
  BY <1>6, <1>8 DEF Restart
<1>9. ASSUME hw' \in [Addr -> Byte],
             UNCHANGED <<buffer, pending, taken, phase, owed>>
      PROVE  IInv'
  BY <1>9 DEF IInv, TypeOK, OnePlace, OwedQueued, Fits, Agrees, Queue,
              Requeued, Covered, Covers
<1>10. ASSUME NEW a \in Addr, NEW b \in Byte, Drift(a, b) PROVE IInv'
  BY <1>9, <1>10 DEF Drift, IInv, TypeOK
<1>11. CASE UNCHANGED vars
  BY <1>9, <1>11 DEF vars, IInv, TypeOK
<1> QED BY <1>1, <1>2, <1>3, <1>4, <1>5, <1>7, <1>8, <1>10, <1>11 DEF Next

(* A byte that is owed is the one a flush of the queue would place. *)
LEMMA InvariantImpliesNothingForgotten == IInv => NothingForgotten
<1> SUFFICES ASSUME IInv, NEW a \in Addr, owed[a] # NoByte
             PROVE  /\ a \in Covered(Queue)
                    /\ Flushed(hw, Queue)[a] = owed[a]
                    /\ buffer[a] = owed[a]
  BY DEF NothingForgotten
<1>1. a \in Covered(Queue) /\ buffer[a] = owed[a]
  BY DEF IInv, OwedQueued
<1>2. Queue \in [Addr -> Seq(Byte)] /\ NoOverlap(Queue)
  BY QueuePlace, FitsNoOverlap DEF IInv
<1>3. buffer # Unread
  BY DEF IInv, OnePlace, NothingOwed
<1>4. Flushed(hw, Queue)[a] = buffer[a]
  BY <1>1, <1>2, <1>3, FlushedAgreeing DEF IInv
<1> QED BY <1>1, <1>4

-----------------------------------------------------------------------------
(* The inductive invariant holds in every reachable state. *)
THEOREM Inductive == Spec => []IInv
<1>1. Init => IInv
  BY InitInductive
<1>2. IInv /\ [Next]_vars => IInv'
  BY NextInductive
<1> QED BY <1>1, <1>2, PTL DEF Spec

(* The shadow, the queue and the memory keep their types, and no queued entry
   runs over the end of the memory (the bounds check, iobuffer.cpp:29-32). *)
THEOREM TypeCorrect == Spec => []TypeOK
<1>1. IInv => TypeOK
  BY DEF IInv
<1> QED BY <1>1, Inductive, PTL

(* However attempts to write fail, an accepted byte stays queued and visible
   until it has made the round trip (iobuffer.cpp:54-64). *)
THEOREM AcceptedWritesKept == Spec => []NothingForgotten
<1>1. IInv => NothingForgotten
  BY InvariantImpliesNothingForgotten
<1> QED BY <1>1, Inductive, PTL

(* A completed write leaves the last accepted byte at every edited address. *)
THEOREM LastAcceptedWriteLands == Spec => LastWriteLands
<1> DEFINE Lands == phase = "writing" /\ phase' = "reading" =>
                       \A a \in Addr : owed[a] # NoByte => hw'[a] = owed[a]
<1>1. IInv /\ [Next]_vars => [Lands]_vars
  <2> SUFFICES ASSUME IInv, [Next]_vars, phase = "writing", phase' = "reading",
                      NEW a \in Addr, owed[a] # NoByte
               PROVE  hw'[a] = owed[a]
    OBVIOUS
  <2>1. WriteAll
    BY DEF Next, vars, WriteBytes, StartRead, WriteFails, PutBack, ReadFails,
           ReadAll, Drift, Restart
  <2>2. Queue = taken
    BY QueuePlace DEF IInv
  <2> QED BY <2>1, <2>2, InvariantImpliesNothingForgotten
          DEF NothingForgotten, WriteAll
<1> QED BY <1>1, Inductive, PTL DEF Spec, LastWriteLands
-----------------------------------------------------------------------------
(* The queue implements the abstract view of the EC memory: its initial
   states are initial states of EcView, and each of its steps is a step of
   EcView under the refinement mapping, or changes nothing there. *)
LEMMA InitRefines == Init => View!AInit
<1> SUFFICES ASSUME Init PROVE View!AInit
  OBVIOUS
<1>1. Queue = NoWrites
  BY NoWritesCoverNothing, RequeuedEmpty DEF Init, Queue
<1> QED BY <1>1, NoWritesCoverNothing DEF Init, View!AInit

(* What the memory is after the addresses S of the shadow reached it. *)
LEMMA FlushWritesView ==
    ASSUME IInv, phase # "idle", NEW q \in [Addr -> Seq(Byte)],
           NoOverlap(q), Agrees(q, buffer), hw' = Flushed(hw, q)
    PROVE  hw' = View!Written(Covered(q))
BY FlushedAgreeing DEF View!Written

(* Each step of the shadow is a step of EcView or a stutter. *)
LEMMA NextRefines == IInv /\ IInv' /\ [Next]_vars => [View!ANext]_View!avars
<1> SUFFICES ASSUME IInv, IInv', [Next]_vars
             PROVE  View!ANext \/ UNCHANGED View!avars
  OBVIOUS
<1>0. /\ Queue \in [Addr -> Seq(Byte)] /\ (phase = "idle" => Queue = pending)
      /\ Covered(Queue) \subseteq Addr
      /\ hw \in [Addr -> Byte] /\ phase \in Phases
  BY QueuePlace, FittingCovers DEF IInv, TypeOK, Covered
<1>1. ASSUME NEW shape \in Shapes, NEW bytes \in [1 .. shape[2] -> Byte],
             WriteBytes(shape[1], bytes)
      PROVE  \E S \in SUBSET Addr : View!Accept(S)
  <2> DEFINE edited == shape[1] .. shape[1] + Len(bytes) - 1
  <2>1. /\ edited \subseteq Addr
        /\ buffer' \in [Addr -> Byte]
        /\ \A a \in Addr \ edited : buffer'[a] = buffer[a]
        /\ Covered(Queue)' = Covered(Queue) \union edited
    BY <1>1, WriteInductive
  <2>2. phase = "idle" /\ phase' = phase /\ hw' = hw /\ buffer # Unread
    BY <1>1 DEF WriteBytes, InBounds
  <2>3. View!Accept(edited)
    BY <2>1, <2>2 DEF View!Accept
  <2> QED BY <2>1, <2>3
<1>2. CASE StartRead
  <2>1. Queue' = Queue
    BY <1>0, <1>2, RequeuedEmpty DEF StartRead, Queue
  <2> QED BY <1>2, <2>1 DEF StartRead, View!avars, Covered, Covers
<1>3. CASE WriteAll
  <2>1. hw' = View!Written(Covered(Queue))
    BY <1>3, TakenFlush, FlushWritesView DEF WriteAll
  <2>2. Queue' = Queue
    BY <1>3 DEF WriteAll, Queue, Requeued
  <2>3. Covered(Queue)' = Covered(Queue)
    BY <2>2 DEF Covered, Covers
  <2>4. View!Complete
    BY <1>3, <2>1, <2>3 DEF WriteAll, View!Complete
  <2> QED BY <2>4 DEF View!ANext
<1>4. ASSUME PutBack, phase # "idle", NEW S \in SUBSET Covered(Queue),
             hw' = View!Written(S)
      PROVE  View!ANext
  <2>1. pending' = Queue /\ taken' = NoWrites /\ buffer' = buffer /\ phase' = "idle"
    BY <1>4 DEF PutBack, Queue
  <2>2. Queue' = Queue
    BY <1>0, <2>1, RequeuedEmpty DEF Queue
  <2>3. Covered(Queue)' = Covered(Queue)
    BY <2>2 DEF Covered, Covers
  <2>4. View!Abandon(S)
    BY <1>4, <2>1, <2>3 DEF View!Abandon
  <2> QED BY <1>0, <2>4 DEF View!ANext
<1>5. ASSUME NEW cut \in Addr, NEW n \in 0 .. Len(taken[cut]), WriteFails(cut, n)
      PROVE  View!ANext
  <2> DEFINE sent == SentBefore(taken, cut, n)
  <2>1. /\ sent \in [Addr -> Seq(Byte)] /\ NoOverlap(sent)
        /\ Agrees(sent, buffer) /\ Covered(sent) \subseteq Covered(Queue)
    BY <1>5, TakenFlush, SentIsPart DEF WriteFails
  <2>2. hw' = View!Written(Covered(sent))
    BY <1>5, <2>1, FlushWritesView DEF WriteFails
  <2> QED BY <1>4, <1>5, <2>1, <2>2 DEF WriteFails
<1>6. CASE ReadFails
  <2>1. hw' = View!Written({})
    BY <1>0, <1>6 DEF ReadFails, View!Written
  <2> QED BY <1>4, <1>6, <2>1 DEF ReadFails
<1>7. ASSUME taken' = NoWrites, pending' = NoWrites
      PROVE  Covered(Queue)' = {}
  <2>1. Queue' = NoWrites
    BY <1>7, NoWritesCoverNothing, RequeuedEmpty DEF Queue
  <2> QED BY <2>1, NoWritesCoverNothing DEF Covered, Covers
<1>8. CASE ReadAll
  BY <1>7, <1>8 DEF ReadAll, IInv, OnePlace, View!Refresh, View!ANext
<1>9. CASE Restart
  BY <1>7, <1>9 DEF Restart, View!Restart, View!ANext
<1>10. ASSUME NEW a \in Addr, NEW b \in Byte, Drift(a, b) PROVE View!ANext
  <2>1. Covered(Queue)' = Covered(Queue)
    BY <1>10 DEF Drift, Queue, Requeued, Covered, Covers
  <2>2. View!Drift(a, b)
    BY <1>10, <2>1 DEF Drift, View!Drift
  <2> QED BY <2>2 DEF View!ANext
<1>11. CASE UNCHANGED vars
  BY <1>11 DEF vars, View!avars, Queue, Requeued, Covered, Covers
<1> QED BY <1>1, <1>2, <1>3, <1>5, <1>6, <1>8, <1>9, <1>10, <1>11
        DEF Next, View!ANext

(* The write queue with its failures, retries and restarts is an EcView. *)
THEOREM QueueImplementsView == Spec => ImplementsView
<1>1. Init => View!AInit
  BY InitRefines
<1>2. IInv /\ IInv' /\ [Next]_vars => [View!ANext]_View!avars
  BY NextRefines
<1> QED BY <1>1, <1>2, Inductive, PTL DEF Spec, ImplementsView, View!ASpec
=============================================================================
