------------------------------ MODULE IoBuffer ------------------------------
(***************************************************************************)
(* The service's shadow of the EC memory (service/iobuffer.cpp) over the   *)
(* file backend (FileEcMemoryBackend, service/ecmemorybackend.cpp).        *)
(*                                                                         *)
(* Callers edit the shadow with writeBytes; the edits are queued by start  *)
(* address and startRead sends them to the backend and reads the whole     *)
(* memory back.  startRead runs on the event loop's thread, so no caller   *)
(* runs while it does; the firmware does, which is why it is three steps   *)
(* here.  It is called by a zero-delay timer after each write and by a poll*)
(* timer: time is abstracted, so it may begin whenever the loop is idle.   *)
(***************************************************************************)
EXTENDS Integers, Sequences

CONSTANTS Size,    \* bytes of EC memory (256 on the real device)
          Byte,    \* values of a byte
          Shapes,  \* <<start, length>> of the writes callers make
          Unread,  \* mBuffer before the first successful read: it has size 0
          NoByte   \* no byte is owed at an address

Addr == 0 .. Size - 1

ASSUME SizeAssumption == Size \in Nat \ {0}
ASSUME ShapesAssumption == Shapes \subseteq Nat \X (Nat \ {0})
ASSUME UnreadAssumption == Unread \notin [Addr -> Byte]
ASSUME NoByteAssumption == NoByte \notin Byte

VARIABLES buffer,  \* mBuffer: the shadow callers read
          pending, \* mDataCache: start address -> queued bytes, <<>> if none
          taken,   \* startRead's local pendingWrites
          phase,   \* where startRead is
          hw,      \* the EC memory behind the backend
          owed     \* history: the last byte accepted per address until a
                   \* completed round trip, NoByte elsewhere

vars == <<buffer, pending, taken, phase, hw, owed>>

Phases == {"idle", "writing", "reading"}
NoWrites == [k \in Addr |-> <<>>]
NothingOwed == [a \in Addr |-> NoByte]

-----------------------------------------------------------------------------
(* Addresses the entry of a queue q at start address k covers. *)
Covers(q, k) == k .. k + Len(q[k]) - 1
Covered(q) == UNION {Covers(q, k) : k \in Addr}

(* A memory after bytes were placed at a start address. *)
Replaced(mem, start, bytes) ==
    [a \in DOMAIN mem |->
        IF a \in start .. start + Len(bytes) - 1 THEN bytes[a - start + 1] ELSE mem[a]]

(* The memory after a queue was written in ascending order of address: where
   entries overlap, the one with the highest start address is written last. *)
Flushed(mem, q) ==
    [a \in Addr |->
        LET at == {k \in Addr : a \in Covers(q, k)}
            last == CHOOSE k \in at : \A j \in at : j <= k
        IN  IF at = {} THEN mem[a] ELSE q[last][a - last + 1]]

(* What a write loop that fails has sent: every entry below `cut` and the
   first n bytes of the entry at `cut`. *)
SentBefore(q, cut, n) ==
    [k \in Addr |-> IF k < cut THEN q[k]
                    ELSE IF k = cut THEN SubSeq(q[k], 1, n) ELSE <<>>]

(* The queue after a failed attempt: entries queued since are not replaced. *)
Requeued(queued, sent) ==
    [k \in Addr |-> IF queued[k] # <<>> THEN queued[k] ELSE sent[k]]

(* Every write still to be done. *)
Queue == Requeued(pending, taken)

-----------------------------------------------------------------------------
Init == /\ buffer = Unread
        /\ pending = NoWrites
        /\ taken = NoWrites
        /\ phase = "idle"
        /\ hw \in [Addr -> Byte]
        /\ owed = NothingOwed

(* The bounds check; before the first read the buffer has size 0. *)
InBoundsOffByOne(start, bytes) == \* mutant
    buffer # Unread /\ start < Size /\ Len(bytes) - 1 <= Size - start
InBounds(start, bytes) ==
    buffer # Unread /\ start <= Size /\ Len(bytes) <= Size - start

(* The queue with one more write: a write at the same address is replaced. *)
EnqueuedOnce(start, bytes) == \* mutant: the first write stays queued
    IF pending[start] # <<>> THEN pending ELSE [pending EXCEPT ![start] = bytes]
Enqueued(start, bytes) == [pending EXCEPT ![start] = bytes]

(* writeBytes: a write out of bounds returns false and changes nothing. *)
WriteBytes(start, bytes) ==
    /\ phase = "idle"
    /\ InBounds(start, bytes)
    /\ pending' = Enqueued(start, bytes)
    /\ buffer' = Replaced(buffer, start, bytes)
    /\ owed' = Replaced(owed, start, bytes)
    /\ UNCHANGED <<taken, phase, hw>>

StartReadCopies == \* mutant: copies the queue instead of swapping it
    phase = "idle" /\ phase' = "writing" /\ taken' = pending
    /\ UNCHANGED <<pending, buffer, hw, owed>>
(* startRead swaps the queue into its local. *)
StartRead ==
    /\ phase = "idle"
    /\ phase' = "writing"
    /\ taken' = pending
    /\ pending' = NoWrites
    /\ UNCHANGED <<buffer, hw, owed>>

(* readAll wrote and flushed every entry. *)
WriteAll ==
    /\ phase = "writing"
    /\ phase' = "reading"
    /\ hw' = Flushed(hw, taken)
    /\ UNCHANGED <<buffer, pending, taken, owed>>

PutBackDrops == \* mutant: the entries of a failed attempt are lost
    phase' = "idle" /\ taken' = NoWrites /\ UNCHANGED <<buffer, pending, owed>>
(* readAll returned nothing: startRead puts the entries back. *)
PutBack ==
    /\ phase' = "idle"
    /\ pending' = Requeued(pending, taken)
    /\ taken' = NoWrites
    /\ UNCHANGED <<buffer, owed>>

(* Open, seek, write or flush failed, after the writes before it. *)
WriteFails(cut, n) ==
    /\ phase = "writing"
    /\ hw' = Flushed(hw, SentBefore(taken, cut, n))
    /\ PutBack

ReadFails ==
    /\ phase = "reading"
    /\ PutBack
    /\ UNCHANGED hw

ReadAllIfWritten == \* mutant: returns early whenever nothing was queued
    phase = "reading" /\ phase' = "idle"
    /\ buffer' = (IF taken = NoWrites /\ buffer # Unread THEN buffer ELSE hw)
    /\ taken' = NoWrites /\ owed' = NothingOwed /\ UNCHANGED <<pending, hw>>
(* The answer becomes the shadow; equal to it, with nothing written, it leaves
   the shadow alone.  (The listeners told of it are modelled in Registers.) *)
ReadAll ==
    /\ phase = "reading"
    /\ phase' = "idle"
    /\ buffer' = hw
    /\ taken' = NoWrites
    /\ owed' = NothingOwed
    /\ UNCHANGED <<pending, hw>>

(* The firmware changes a cell on its own: temperatures, fan speeds, and
   registers it refuses or corrects. *)
Drift(a, b) ==
    /\ b # hw[a]
    /\ hw' = [hw EXCEPT ![a] = b]
    /\ UNCHANGED <<buffer, pending, taken, phase, owed>>

(* The process dies and is started again: the queue was only in memory. *)
Restart ==
    /\ buffer' = Unread
    /\ pending' = NoWrites
    /\ taken' = NoWrites
    /\ phase' = "idle"
    /\ owed' = NothingOwed
    /\ UNCHANGED hw

Next == \/ \E shape \in Shapes : \E bytes \in [1 .. shape[2] -> Byte] :
               WriteBytes(shape[1], bytes)
        \/ StartRead \/ WriteAll \/ ReadFails \/ ReadAll \/ Restart
        \/ \E cut \in Addr : \E n \in 0 .. Len(taken[cut]) : WriteFails(cut, n)
        \/ \E a \in Addr, b \in Byte : Drift(a, b)

(* The poll timer always fires again; a backend that fails does not fail
   forever. *)
Fairness == WF_vars(StartRead) /\ SF_vars(WriteAll) /\ SF_vars(ReadAll)

Spec == Init /\ [][Next]_vars
FairSpec == Spec /\ Fairness

-----------------------------------------------------------------------------
(* Type invariant; every queued entry lies inside the memory. *)
TypeOK ==
    /\ buffer \in [Addr -> Byte] \union {Unread}
    /\ pending \in [Addr -> Seq(Byte)]
    /\ taken \in [Addr -> Seq(Byte)]
    /\ phase \in Phases
    /\ hw \in [Addr -> Byte]
    /\ owed \in [Addr -> Byte \union {NoByte}]
    /\ \A k \in Addr : Covers(pending, k) \union Covers(taken, k) \subseteq Addr

(* A failed or half-done attempt loses nothing: at every address with an
   accepted byte that has not made the round trip (iobuffer.cpp:34-37), the
   queue would still write that byte, and callers still read it. *)
NothingForgotten ==
    \A a \in Addr : owed[a] # NoByte =>
        /\ a \in Covered(Queue)
        /\ Flushed(hw, Queue)[a] = owed[a]
        /\ buffer[a] = owed[a]

(* A completed write leaves the last accepted byte at every address callers
   edited: an older queued write never lands over a newer one. *)
LastWriteLands ==
    [][phase = "writing" /\ phase' = "reading" =>
          \A a \in Addr : owed[a] # NoByte => hw'[a] = owed[a]]_vars

(* Again and again everything accepted has been written and the shadow agrees
   with the EC, whatever the firmware changes and however often attempts fail:
   a retry is not repeated for ever, and a change by the firmware is seen. *)
SyncsAgain == []<>(Queue = NoWrites /\ buffer = hw)

(* The queue implements the abstract view of the EC memory. *)
View == INSTANCE EcView
            WITH view <- buffer, dirty <- Covered(Queue),
                 complete <- (phase = "reading")
ImplementsView == View!ASpec
=============================================================================
