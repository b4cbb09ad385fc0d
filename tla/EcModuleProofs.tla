---------------------------- MODULE EcModuleProofs ----------------------------
(***************************************************************************)
(* Proofs about the kernel module, for every size, set of bytes, threads,  *)
(* writes and chunks.                                                      *)
(***************************************************************************)
EXTENDS EcModule, SequenceTheorems, TLAPS

(* A thread in the middle of a loop holds the mutex. *)
Exclusion == \A t \in Thread : thread[t] # Idle => mutex = t

Owners == /\ running > 0 <=> mutex = "tick"
          /\ stage = "refreshing" <=> mutex = "init"
          /\ stage = "unloaded" => mutex = None
          /\ scheduled \/ running > 0 => stage = "loaded"

(* A writer's cells come with the bytes to write. *)
Writers == \A u \in User : thread[u].left \in Seq(Addr \X Byte)

(* The cell a thread is at. *)
At(t) == Head(thread[t].left)[1]

(* A byte read from the EC is one the cell has held since it was last written:
   no write has been made since. *)
InStep == \A t \in Thread : thread[t].byte # None =>
              thread[t].left # <<>> /\ thread[t].byte \in held[At(t)]

EcHeld == \A a \in Addr : ec[a] \in held[a]

(* ReadsAreCurrent, but for the cell a writer has written to the EC and not yet
   to the shadow. *)
Kept == \A a \in known :
            \/ shadow[a] \in held[a]
            \/ \E u \in User : thread[u].byte # None /\ At(u) = a

IInv == TypeOK /\ Exclusion /\ Owners /\ Writers /\ InStep /\ EcHeld /\ Kept

-----------------------------------------------------------------------------
(* Lemmas about the loops. *)

(* Arithmetic modulo the size stays inside the memory. *)
LEMMA Wraps == \A x \in Int : x % Size \in Addr
BY SizeAssumption DEF Addr

(* The chunk of a tick is a number of cells. *)
LEMMA CutType ==
    ASSUME TypeOK PROVE Cut \in 1 .. Size
BY SizeAssumption, ChunkAssumption DEF Cut, TypeOK

(* A list of n members of S. *)
LEMMA ListOf ==
    ASSUME NEW S, NEW n \in Nat, NEW f \in [1 .. n -> S] PROVE f \in Seq(S)
BY SeqDef

(* The cells of a refresh. *)
LEMMA FromType ==
    ASSUME NEW start \in Addr, NEW n \in 0 .. Size
    PROVE  From(start, n) \in Seq(Cells)
<1>1. \A i \in 1 .. n : start + i - 1 \in Int
  BY SizeAssumption DEF Addr
<1>2. \A i \in 1 .. n : <<(start + i - 1) % Size, None>> \in Cells
  BY <1>1, Wraps DEF Cells
<1>3. From(start, n) \in [1 .. n -> Cells]
  BY <1>2 DEF From
<1>4. n \in Nat
  BY SizeAssumption
<1> QED BY <1>3, <1>4, ListOf

(* The next cell of a thread. *)
LEMMA NextCell ==
    ASSUME TypeOK, NEW t \in Thread, thread[t].left # <<>>
    PROVE  /\ At(t) \in Addr
           /\ Tail(thread[t].left) \in Seq(Cells)
           /\ Writers /\ t \in User =>
                  /\ Head(thread[t].left)[2] \in Byte
                  /\ Tail(thread[t].left) \in Seq(Addr \X Byte)
<1>1. thread[t].left \in Seq(Cells)
  BY DEF TypeOK
<1>2. Head(thread[t].left) \in Cells /\ Tail(thread[t].left) \in Seq(Cells)
  BY <1>1, HeadTailProperties
<1>3. ASSUME Writers, t \in User
      PROVE  /\ Head(thread[t].left) \in Addr \X Byte
             /\ Tail(thread[t].left) \in Seq(Addr \X Byte)
  BY <1>3, HeadTailProperties DEF Writers
<1> QED BY <1>2, <1>3 DEF At, Cells

(* When a thread has taken the mutex, or is in its loop, all others are idle. *)
LEMMA OthersIdle ==
    ASSUME Exclusion, NEW t \in Thread, thread[t] # Idle \/ mutex = t \/ mutex = None
    PROVE  \A r \in Thread \ {t} : thread[r] = Idle
BY NoneAssumption DEF Exclusion

LEMMA IdleIs ==
    /\ Idle.left = <<>> /\ Idle.byte = None
    /\ Idle.left \in Seq(Addr \X Byte)
<1>1. <<>> \in Seq(Addr \X Byte)
  BY EmptySeq
<1> QED BY <1>1 DEF Idle

LEMMA IdleType == Idle \in [left : Seq(Cells), byte : Byte \union {None}]
BY DEF Idle

(* Users are not the refreshing threads. *)
LEMMA Threads ==
    /\ User \subseteq Thread /\ "tick" \in Thread /\ "init" \in Thread
    /\ "tick" \notin User /\ "init" \notin User /\ None \notin Thread
BY UserAssumption, NoneAssumption DEF Thread, Refresher

-----------------------------------------------------------------------------
LEMMA InitInductive == Init => IInv
<1> SUFFICES ASSUME Init PROVE IInv
  OBVIOUS
<1>1. thread = [t \in Thread |-> Idle] /\ \A t \in Thread : thread[t] = Idle
  BY DEF Init
<1>2. TypeOK
  <2>1. thread \in [Thread -> [left : Seq(Cells), byte : Byte \union {None}]]
    BY IdleType DEF Init
  <2>2. held \in [Addr -> SUBSET Byte] /\ ec \in [Addr -> Byte]
    BY DEF Init
  <2>3. shadow \in [Addr -> Byte] /\ pos \in Addr /\ running \in 0 .. Size
    BY SizeAssumption, ZeroAssumption DEF Init, Addr
  <2> QED BY <2>1, <2>2, <2>3 DEF Init, TypeOK, Stages, Interval
<1>3. Exclusion /\ InStep
  BY <1>1, IdleIs DEF Exclusion, InStep
<1>4. Owners
  BY Threads DEF Init, Owners
<1>5. Writers
  BY <1>1, IdleIs, Threads DEF Writers
<1>6. EcHeld /\ Kept
  BY DEF Init, EcHeld, Kept
<1> QED BY <1>2, <1>3, <1>4, <1>5, <1>6 DEF IInv

(* A thread takes the mutex with the cells to do. *)
LEMMA Locked ==
    ASSUME IInv, NEW t \in Thread, NEW cells, Locks(t, cells), cells \in Seq(Cells),
           t \in User => cells \in Seq(Addr \X Byte),
           UNCHANGED <<ec, shadow, history>>
    PROVE  /\ thread' \in [Thread -> [left : Seq(Cells), byte : Byte \union {None}]]
           /\ mutex' \in Thread \union {None}
           /\ Exclusion' /\ Writers' /\ InStep' /\ EcHeld' /\ Kept'
<1>1. \A r \in Thread : thread[r] = Idle
  BY Threads DEF IInv, Exclusion, Locks
<1>2. thread' = [thread EXCEPT ![t].left = cells] /\ mutex' = t
  BY DEF Locks
<1>3. thread \in [Thread -> [left : Seq(Cells), byte : Byte \union {None}]]
  BY DEF IInv, TypeOK
<1>4. \A r \in Thread : thread'[r].byte = None /\ (r # t => thread'[r] = Idle)
  BY <1>1, <1>2, <1>3, IdleIs
<1>5. Writers'
  <2> SUFFICES ASSUME NEW u \in User PROVE thread'[u].left \in Seq(Addr \X Byte)
    BY DEF Writers
  <2>1. CASE u = t
    BY <1>2, <1>3, <2>1, Threads
  <2>2. CASE u # t
    BY <1>4, <2>2, IdleIs, Threads
  <2> QED BY <2>1, <2>2
<1>6. \A u \in User : thread[u].byte = None
  BY <1>1, IdleIs, Threads
<1> QED
  BY <1>2, <1>3, <1>4, <1>5, <1>6 DEF IInv, Exclusion, InStep, EcHeld, Kept, At, history
(* What a thread keeps of its loop. *)
Slot == [left : Seq(Cells), byte : Byte \union {None}]

(* The part of the invariant that the thread with the mutex can disturb. *)
Loops == Exclusion /\ Writers /\ InStep /\ EcHeld /\ Kept

(* A step that leaves the memories, the mutex and the loops alone. *)
LEMMA Untouched ==
    ASSUME IInv, UNCHANGED <<ec, shadow, mutex, thread, history>> PROVE Loops'
BY DEF IInv, Loops, Exclusion, Writers, InStep, EcHeld, Kept, At, history

(* A thread at the end of its loop is idle. *)
LEMMA AtEnd ==
    ASSUME IInv, NEW t \in Thread, Finished(t) PROVE thread[t] = Idle
<1>1. thread[t] \in Slot
  BY DEF IInv, TypeOK, Slot
<1>2. thread[t].left = <<>> /\ thread[t].byte = None
  BY DEF IInv, InStep, Finished
<1> QED BY <1>1, <1>2 DEF Slot, Idle

(* A thread at the end of its loop lets go of the mutex. *)
LEMMA Released ==
    ASSUME IInv, NEW t \in Thread, mutex = t \/ mutex = None, thread[t] = Idle, mutex' = None,
           UNCHANGED <<ec, shadow, thread, history>>
    PROVE  Loops'
<1>1. \A r \in Thread : thread[r] = Idle
  BY OthersIdle DEF IInv
<1>2. Exclusion'
  BY <1>1 DEF Exclusion
<1> QED BY <1>2 DEF IInv, Loops, Writers, InStep, EcHeld, Kept, At, history

(* A refreshing thread reads the cell it is at from the EC. *)
LEMMA FetchInductive ==
    ASSUME IInv, NEW t \in Refresher, NEW a \in Addr, Fetch(t, a) PROVE IInv'
<1>1. thread \in [Thread -> Slot] /\ t \in Thread /\ t \notin User /\ ec[a] \in Byte
  BY Threads DEF IInv, TypeOK, Slot, Refresher
<1>2. /\ thread' = [thread EXCEPT ![t].byte = ec[a]]
      /\ thread[t].left # <<>> /\ a = At(t)
      /\ UNCHANGED <<ec, shadow, pos, mutex, stage, scheduled, running, params, history>>
  BY DEF Fetch, At
<1>3. mutex = t
  BY <1>1, <1>2, IdleIs DEF IInv, Exclusion
<1>4. /\ thread'[t].left = thread[t].left /\ thread'[t].byte = ec[a]
      /\ \A r \in Thread \ {t} : thread'[r] = thread[r]
  BY <1>1, <1>2 DEF Slot
<1>5. \A u \in User : thread'[u] = thread[u]
  BY <1>1, <1>4, Threads
<1>6. TypeOK'
  BY <1>1, <1>2 DEF IInv, TypeOK, Slot, params, history
<1>7. Exclusion' /\ Writers' /\ EcHeld' /\ Owners'
  BY <1>2, <1>3, <1>4, <1>5 DEF IInv, Exclusion, Writers, EcHeld, Owners, params, history
<1>8. InStep'
  BY <1>2, <1>4 DEF IInv, InStep, EcHeld, At, history
<1>9. Kept'
  BY <1>2, <1>5 DEF IInv, Kept, At, history
<1> QED BY <1>6, <1>7, <1>8, <1>9 DEF IInv

(* A cell that cannot be read is passed over. *)
LEMMA FetchFailsInductive ==
    ASSUME IInv, NEW t \in Refresher, FetchFails(t) PROVE IInv'
<1>1. thread \in [Thread -> Slot] /\ t \in Thread /\ t \notin User
  BY Threads DEF IInv, TypeOK, Slot, Refresher
<1>2. /\ thread' = [thread EXCEPT ![t].left = Tail(@)]
      /\ thread[t].left # <<>> /\ thread[t].byte = None
      /\ UNCHANGED <<ec, shadow, pos, mutex, stage, scheduled, running, params, history>>
  BY DEF FetchFails
<1>3. mutex = t /\ Tail(thread[t].left) \in Seq(Cells)
  BY <1>1, <1>2, IdleIs, NextCell DEF IInv, Exclusion
<1>4. thread'[t].byte = None /\ \A r \in Thread \ {t} : thread'[r] = thread[r]
  BY <1>1, <1>2 DEF Slot
<1>5. \A u \in User : thread'[u] = thread[u]
  BY <1>1, <1>4, Threads
<1>6. TypeOK'
  BY <1>1, <1>2, <1>3 DEF IInv, TypeOK, Slot, params, history
<1>7. Exclusion' /\ Writers' /\ EcHeld' /\ Owners'
  BY <1>2, <1>3, <1>4, <1>5 DEF IInv, Exclusion, Writers, EcHeld, Owners, params, history
<1>8. InStep' /\ Kept'
  BY <1>2, <1>4, <1>5 DEF IInv, InStep, Kept, At, history
<1> QED BY <1>6, <1>7, <1>8 DEF IInv

(* A thread brings the shadow up to date: with the byte the EC has had since
   the cell was last written. *)
LEMMA KeepInductive ==
    ASSUME IInv, NEW t \in Thread, Keep(t) PROVE IInv'
<1> DEFINE a == At(t)
<1>1. thread \in [Thread -> Slot] /\ thread[t].byte # None
  BY DEF IInv, TypeOK, Slot, Keep
<1>2. thread[t].left # <<>> /\ thread[t].byte \in held[a] /\ thread[t].byte \in Byte
  BY <1>1 DEF IInv, InStep, Slot
<1>3. /\ a \in Addr /\ Tail(thread[t].left) \in Seq(Cells)
      /\ t \in User => Tail(thread[t].left) \in Seq(Addr \X Byte)
  BY <1>2, NextCell DEF IInv
<1>4. /\ shadow' = [shadow EXCEPT ![a] = thread[t].byte]
      /\ known' = known \union {a}
      /\ thread' = [thread EXCEPT ![t] = [left |-> Tail(@.left), byte |-> None]]
      /\ UNCHANGED <<ec, pos, mutex, stage, scheduled, running, params, held>>
  BY DEF Keep, At
<1>5. mutex = t /\ \A r \in Thread \ {t} : thread[r] = Idle
  BY <1>1, IdleIs, OthersIdle DEF IInv, Exclusion
<1>6. /\ thread'[t] = [left |-> Tail(thread[t].left), byte |-> None]
      /\ \A r \in Thread \ {t} : thread'[r] = Idle
  BY <1>1, <1>4, <1>5
<1>7. TypeOK'
  <2>1. shadow' \in [Addr -> Byte] /\ known' \subseteq Addr
    BY <1>2, <1>3, <1>4 DEF IInv, TypeOK
  <2>2. thread' \in [Thread -> Slot]
    BY <1>1, <1>3, <1>4 DEF Slot
  <2> QED BY <1>4, <2>1, <2>2 DEF IInv, TypeOK, Slot, params
<1>8. Exclusion' /\ EcHeld' /\ Owners'
  BY <1>4, <1>5, <1>6 DEF IInv, Exclusion, EcHeld, Owners, params
<1>9. Writers'
  <2> SUFFICES ASSUME NEW u \in User PROVE thread'[u].left \in Seq(Addr \X Byte)
    BY DEF Writers
  <2>1. CASE u = t
    <3>1. thread'[t].left = Tail(thread[t].left) /\ t \in User
      BY <1>6, <2>1
    <3> QED BY <1>3, <2>1, <3>1
  <2>2. CASE u # t
    BY <1>6, <2>2, IdleIs, Threads
  <2> QED BY <2>1, <2>2
<1>10. InStep'
  BY <1>6, IdleIs DEF InStep
<1>11. Kept'
  <2> SUFFICES ASSUME NEW c \in known' PROVE shadow'[c] \in held'[c]
    BY DEF Kept
  <2>1. CASE c = a
    BY <1>2, <1>3, <1>4, <2>1 DEF IInv, TypeOK
  <2>2. CASE c # a
    <3>1. c \in known /\ c \in Addr /\ shadow'[c] = shadow[c] /\ held' = held
      BY <1>3, <1>4, <2>2 DEF IInv, TypeOK
    <3>2. \A u \in User : ~ (thread[u].byte # None /\ At(u) = c)
      BY <1>5, <2>2, IdleIs, Threads
    <3> QED BY <3>1, <3>2 DEF IInv, Kept
  <2> QED BY <2>1, <2>2
<1> QED BY <1>7, <1>8, <1>9, <1>10, <1>11 DEF IInv

(* A writer writes a byte to the EC, which the shadow does not show yet. *)
LEMMA PutInductive ==
    ASSUME IInv, NEW u \in User, Put(u) PROVE IInv'
<1> DEFINE a == At(u)
           b == Head(thread[u].left)[2]
<1>1. thread \in [Thread -> Slot] /\ u \in Thread
  BY Threads DEF IInv, TypeOK, Slot
<1>2. /\ thread[u].left # <<>> /\ thread[u].byte = None
      /\ ec' = [ec EXCEPT ![a] = b]
      /\ thread' = [thread EXCEPT ![u].byte = b]
      /\ held' = [held EXCEPT ![a] = {b}]
      /\ UNCHANGED <<shadow, pos, mutex, stage, scheduled, running, params, known>>
  BY DEF Put, At
<1>3. a \in Addr /\ b \in Byte /\ b # None
  BY <1>1, <1>2, NextCell, NoneAssumption DEF IInv
<1>4. mutex = u /\ \A r \in Thread \ {u} : thread[r] = Idle
  BY <1>1, <1>2, IdleIs, OthersIdle DEF IInv, Exclusion
<1>5. /\ thread'[u].left = thread[u].left /\ thread'[u].byte = b
      /\ \A r \in Thread \ {u} : thread'[r] = Idle
  BY <1>1, <1>2, <1>4 DEF Slot
<1>6. held'[a] = {b} /\ \A c \in Addr \ {a} : held'[c] = held[c] /\ ec'[c] = ec[c]
  BY <1>2, <1>3 DEF IInv, TypeOK
<1>7. TypeOK'
  <2>1. ec' \in [Addr -> Byte] /\ held' \in [Addr -> SUBSET Byte]
    BY <1>2, <1>3 DEF IInv, TypeOK
  <2>2. thread' \in [Thread -> Slot]
    BY <1>1, <1>2, <1>3 DEF Slot
  <2> QED BY <1>2, <2>1, <2>2 DEF IInv, TypeOK, Slot, params
<1>8. Exclusion' /\ Owners'
  BY <1>2, <1>4, <1>5 DEF IInv, Exclusion, Owners, params
<1>9. Writers'
  BY <1>5, IdleIs, Threads DEF IInv, Writers
<1>10. InStep' /\ EcHeld'
  <2>1. ec'[a] = b
    BY <1>2, <1>3 DEF IInv, TypeOK
  <2>2. EcHeld'
    BY <1>6, <2>1 DEF IInv, EcHeld
  <2>3. InStep'
    BY <1>2, <1>5, <1>6, IdleIs DEF InStep, At
  <2> QED BY <2>2, <2>3
<1>11. Kept'
  <2> SUFFICES ASSUME NEW c \in known
               PROVE  \/ shadow[c] \in held'[c]
                      \/ \E r \in User : thread'[r].byte # None /\ At(r)' = c
    BY <1>2 DEF Kept
  <2>1. CASE c = a
    BY <1>3, <1>5, <2>1 DEF At
  <2>2. CASE c # a
    <3>1. \A r \in User : thread[r].byte = None
      BY <1>2, <1>4, IdleIs, Threads
    <3>2. c \in Addr
      BY DEF IInv, TypeOK
    <3> QED BY <1>6, <2>2, <3>1, <3>2 DEF IInv, Kept
  <2> QED BY <2>1, <2>2
<1> QED BY <1>7, <1>8, <1>9, <1>10, <1>11 DEF IInv

(* The write of a byte fails and the call ends. *)
LEMMA PutFailsInductive ==
    ASSUME IInv, NEW u \in User, PutFails(u) PROVE IInv'
<1> DEFINE a == At(u)
           b == Head(thread[u].left)[2]
<1>1. thread \in [Thread -> Slot] /\ u \in Thread
  BY Threads DEF IInv, TypeOK, Slot
<1>2. /\ thread[u].left # <<>> /\ thread[u].byte = None
      /\ ec' \in {ec, [ec EXCEPT ![a] = b]}
      /\ held' = [held EXCEPT ![a] = @ \union {ec'[a]}]
      /\ thread' = [thread EXCEPT ![u] = Idle]
      /\ mutex' = None
      /\ UNCHANGED <<shadow, pos, stage, scheduled, running, params, known>>
  BY DEF PutFails, At
<1>3. a \in Addr /\ b \in Byte
  BY <1>1, <1>2, NextCell DEF IInv
<1>4. mutex = u /\ \A r \in Thread \ {u} : thread[r] = Idle
  BY <1>1, <1>2, IdleIs, OthersIdle DEF IInv, Exclusion
<1>5. \A r \in Thread : thread'[r] = Idle
  BY <1>1, <1>2, <1>4
<1>6. ec' \in [Addr -> Byte]
  BY <1>2, <1>3 DEF IInv, TypeOK
<1>7. /\ held' \in [Addr -> SUBSET Byte]
      /\ \A c \in Addr : held[c] \subseteq held'[c] /\ ec'[c] \in held'[c]
  <2>1. held \in [Addr -> SUBSET Byte] /\ ec \in [Addr -> Byte] /\ ec'[a] \in Byte
    BY <1>3, <1>6 DEF IInv, TypeOK
  <2>2. held'[a] = held[a] \union {ec'[a]}
    BY <1>2, <1>3, <2>1
  <2>3. \A c \in Addr \ {a} : held'[c] = held[c] /\ ec'[c] = ec[c]
    BY <1>2, <1>3, <2>1
  <2> QED BY <1>2, <1>3, <2>1, <2>2, <2>3 DEF IInv, EcHeld
<1>8. TypeOK'
  <2>1. thread' \in [Thread -> Slot]
    BY <1>1, <1>2, IdleType DEF Slot
  <2> QED BY <1>2, <1>6, <1>7, <2>1 DEF IInv, TypeOK, Slot, params
<1>9. Exclusion' /\ Writers' /\ InStep' /\ EcHeld'
  BY <1>5, <1>7, IdleIs, Threads DEF Exclusion, Writers, InStep, EcHeld
<1>10. Owners'
  BY <1>2, <1>4, Threads DEF IInv, Owners, params
<1>11. Kept'
  <2>1. \A r \in User : thread[r].byte = None
    BY <1>2, <1>4, IdleIs, Threads
  <2> QED BY <1>2, <1>7, <2>1 DEF IInv, Kept, TypeOK
<1> QED BY <1>8, <1>9, <1>10, <1>11 DEF IInv

(* A call of the file takes the mutex for the bytes that fit. *)
LEMMA WriteFileInductive ==
    ASSUME IInv, NEW u \in User, NEW shape \in Shapes, NEW bytes \in [1 .. shape[2] -> Byte],
           WriteFile(u, shape[1], bytes)
    PROVE  IInv'
<1> DEFINE off == shape[1]
           count == IF Len(bytes) > Size - off THEN Size - off ELSE Len(bytes)
           cells == [i \in 1 .. count |-> <<off + i - 1, bytes[i]>>]
<1>1. off \in Nat /\ shape[2] \in Nat
  BY ShapesAssumption
<1>2. bytes \in Seq(Byte) /\ Len(bytes) = shape[2]
  BY <1>1, SeqDef, LenProperties
<1>3. /\ off < Size /\ stage # "unloaded" /\ Locks(u, cells)
      /\ UNCHANGED <<ec, shadow, pos, stage, scheduled, running, params, history>>
  BY DEF WriteFile
<1>4. count \in Nat /\ count <= shape[2] /\ off + count <= Size
  BY <1>1, <1>2, <1>3, SizeAssumption
<1>5. cells \in Seq(Addr \X Byte)
  <2> SUFFICES cells \in [1 .. count -> Addr \X Byte]
    BY <1>4, ListOf
  <2> SUFFICES ASSUME NEW i \in 1 .. count PROVE off + i - 1 \in Addr /\ bytes[i] \in Byte
    OBVIOUS
  <2>1. off + i - 1 \in Addr
    BY <1>1, <1>4, SizeAssumption DEF Addr
  <2>2. bytes[i] \in Byte
    BY <1>1, <1>4
  <2> QED BY <2>1, <2>2
<1>6. cells \in Seq(Cells)
  <2>1. Addr \X Byte \subseteq Cells
    BY DEF Cells
  <2>2. \A i \in 1 .. count : cells[i] \in Addr \X Byte
    BY <1>5, <1>4, ElementOfSeq, LenProperties
  <2>3. cells \in [1 .. count -> Cells]
    BY <2>1, <2>2
  <2> QED BY <1>4, <2>3, ListOf
<1>7. /\ thread' \in [Thread -> Slot]
      /\ mutex' \in Thread \union {None}
      /\ Loops'
  BY <1>3, <1>5, <1>6, Locked, Threads DEF Loops, Slot
<1>8. TypeOK'
  BY <1>3, <1>7 DEF IInv, TypeOK, Slot, params, history
<1>9. Owners'
  BY <1>3, Threads DEF IInv, Owners, Locks, params
<1> QED BY <1>7, <1>8, <1>9 DEF IInv, Loops

(* The firmware changes a cell, which has then held the new value too. *)
LEMMA FirmwareInductive ==
    ASSUME IInv, NEW a \in Addr, NEW b \in Byte, FirmwareChanges(a, b) PROVE IInv'
<1>1. /\ ec' = [ec EXCEPT ![a] = b]
      /\ held' = [held EXCEPT ![a] = @ \union {b}]
      /\ UNCHANGED <<shadow, pos, mutex, thread, stage, scheduled, running, params, known>>
  BY DEF FirmwareChanges
<1>2. ec \in [Addr -> Byte] /\ held \in [Addr -> SUBSET Byte]
  BY DEF IInv, TypeOK
<1>3. /\ ec' \in [Addr -> Byte] /\ held' \in [Addr -> SUBSET Byte]
      /\ \A c \in Addr : held[c] \subseteq held'[c]
  BY <1>1, <1>2
<1>4. EcHeld'
  BY <1>1, <1>2 DEF IInv, EcHeld
<1>5. TypeOK' /\ Owners' /\ Exclusion' /\ Writers'
  BY <1>1, <1>3 DEF IInv, TypeOK, Owners, Exclusion, Writers, params
<1>6. InStep'
  <2>1. \A t \in Thread : thread[t].left # <<>> => At(t) \in Addr
    BY NextCell DEF IInv
  <2> QED BY <1>1, <1>3, <2>1 DEF IInv, InStep, At
<1>7. Kept'
  BY <1>1, <1>3 DEF IInv, TypeOK, Kept, At
<1> QED BY <1>4, <1>5, <1>6, <1>7 DEF IInv

-----------------------------------------------------------------------------
(* The steps of loading, unloading and the ticks. *)

LEMMA ModuleInductive ==
    ASSUME IInv,
           \/ \E ms \in Interval, n \in Chunk : Load(ms, n)
           \/ FullRefresh \/ FullRefreshed \/ Unload
    PROVE  IInv'
<1>1. ASSUME NEW ms \in Interval, NEW n \in Chunk, Load(ms, n) PROVE IInv'
  <2>1. mutex = None /\ \A t \in Thread : thread[t] = Idle
    BY <1>1, Threads DEF IInv, Owners, Exclusion, Load
  <2>2. /\ stage' = "visible" /\ shadow' = [x \in Addr |-> 0] /\ pos' = 0
        /\ interval' = ms /\ chunk' = n
        /\ known' = {} /\ held' = [x \in Addr |-> {ec[x]}]
        /\ UNCHANGED <<ec, mutex, thread, scheduled, running>>
    BY <1>1 DEF Load
  <2>3. TypeOK'
    <3>1. shadow' \in [Addr -> Byte] /\ pos' \in Addr
      BY <2>2, ZeroAssumption, SizeAssumption DEF Addr
    <3>2. held' \in [Addr -> SUBSET Byte]
      BY <2>2 DEF IInv, TypeOK
    <3> QED BY <2>2, <3>1, <3>2 DEF IInv, TypeOK, Stages
  <2>4. Owners'
    BY <1>1, <2>1, <2>2, Threads DEF IInv, Owners, Load
  <2>5. Exclusion' /\ Writers' /\ InStep'
    BY <2>1, <2>2, IdleIs DEF IInv, Exclusion, Writers, InStep
  <2>6. EcHeld' /\ Kept'
    BY <2>2 DEF EcHeld, Kept
  <2> QED BY <2>3, <2>4, <2>5, <2>6 DEF IInv
<1>2. ASSUME FullRefresh PROVE IInv'
  <2>1. 0 \in Addr /\ Size \in 0 .. Size
    BY SizeAssumption DEF Addr
  <2>2. From(0, Size) \in Seq(Cells)
    BY <2>1, FromType
  <2>3. /\ thread' \in [Thread -> Slot]
        /\ mutex' \in Thread \union {None}
        /\ Loops'
    BY <1>2, <2>2, Locked, Threads DEF Loops, Slot, FullRefresh
  <2>4. TypeOK'
    BY <1>2, <2>3 DEF IInv, TypeOK, Slot, FullRefresh, Stages, params, history
  <2>5. Owners'
    BY <1>2, Threads DEF IInv, Owners, FullRefresh, Locks
  <2> QED BY <2>3, <2>4, <2>5 DEF IInv, Loops
<1>3. ASSUME FullRefreshed PROVE IInv'
  <2>1. mutex = "init" /\ thread["init"] = Idle
    BY <1>3, AtEnd, Threads DEF IInv, Owners, FullRefreshed
  <2>2. Loops'
    BY <1>3, <2>1, Released, Threads DEF FullRefreshed
  <2>3. TypeOK'
    BY <1>3 DEF IInv, TypeOK, FullRefreshed, Stages, params, history
  <2>4. Owners'
    BY <1>3, <2>1, Threads DEF IInv, Owners, FullRefreshed
  <2> QED BY <2>2, <2>3, <2>4 DEF IInv, Loops
<1>4. ASSUME Unload PROVE IInv'
  <2>1. Loops'
    BY <1>4, Untouched DEF Unload
  <2>2. TypeOK'
    BY <1>4 DEF IInv, TypeOK, Unload, Stages, params, history
  <2>3. Owners'
    BY <1>4, Threads DEF IInv, Owners, Unload
  <2> QED BY <2>1, <2>2, <2>3 DEF IInv, Loops
<1> QED BY <1>1, <1>2, <1>3, <1>4

LEMMA TickInductive ==
    ASSUME IInv, TickStops \/ TickSkips \/ TickLocks \/ TickDone PROVE IInv'
<1>1. ASSUME TickStops PROVE IInv'
  <2>1. Loops'
    BY <1>1, Untouched DEF TickStops
  <2>2. TypeOK' /\ Owners'
    BY <1>1 DEF IInv, TypeOK, Owners, TickStops, params, history
  <2> QED BY <2>1, <2>2 DEF IInv, Loops
<1>2. ASSUME TickSkips PROVE IInv'
  <2>1. UNCHANGED vars
    BY <1>2 DEF TickSkips
  <2>2. Loops'
    BY <2>1, Untouched DEF vars
  <2>3. TypeOK' /\ Owners'
    BY <2>1 DEF vars, IInv, TypeOK, Owners, params, history
  <2> QED BY <2>2, <2>3 DEF IInv, Loops
<1>3. ASSUME TickLocks PROVE IInv'
  <2>1. pos \in Addr /\ Cut \in 1 .. Size
    BY CutType DEF IInv, TypeOK
  <2>2. Cut \in 0 .. Size /\ Cut > 0
    BY <2>1, SizeAssumption
  <2>3. From(pos, Cut) \in Seq(Cells)
    BY <2>1, <2>2, FromType
  <2>4. /\ thread' \in [Thread -> Slot]
        /\ mutex' \in Thread \union {None}
        /\ Loops'
    BY <1>3, <2>3, Locked, Threads DEF Loops, Slot, TickLocks
  <2>5. TypeOK'
    BY <1>3, <2>2, <2>4 DEF IInv, TypeOK, Slot, TickLocks, params, history
  <2>6. Owners'
    BY <1>3, <2>2, Threads DEF IInv, Owners, TickLocks, Locks
  <2> QED BY <2>4, <2>5, <2>6 DEF IInv, Loops
<1>4. ASSUME TickDone PROVE IInv'
  <2>1. mutex = "tick" /\ thread["tick"] = Idle
    BY <1>4, AtEnd, Threads DEF IInv, Owners, TickDone
  <2>2. Loops'
    BY <1>4, <2>1, Released, Threads DEF TickDone
  <2>3. pos' \in Addr
    <3>1. pos + running \in Int
      BY SizeAssumption DEF IInv, TypeOK, Addr
    <3> QED BY <1>4, <3>1, Wraps DEF TickDone
  <2>4. running' \in 0 .. Size /\ scheduled' \in BOOLEAN /\ mutex' = None
    BY <1>4, SizeAssumption DEF TickDone
  <2>5. TypeOK'
    BY <1>4, <2>3, <2>4 DEF IInv, TypeOK, TickDone, params, history
  <2>6. Owners'
    BY <1>4, <2>1, Threads DEF IInv, Owners, TickDone
  <2> QED BY <2>2, <2>5, <2>6 DEF IInv, Loops
<1> QED BY <1>1, <1>2, <1>3, <1>4

(* A call of the file ends. *)
LEMMA WriteDoneInductive ==
    ASSUME IInv, NEW u \in User, WriteDone(u) PROVE IInv'
<1>1. thread[u] = Idle /\ u \in Thread
  BY AtEnd, Threads DEF WriteDone
<1>2. Loops'
  BY <1>1, Released DEF WriteDone
<1>3. TypeOK'
  BY DEF IInv, TypeOK, WriteDone, params, history
<1>4. Owners'
  BY <1>1, Threads DEF IInv, Owners, WriteDone, params
<1> QED BY <1>2, <1>3, <1>4 DEF IInv, Loops

(* A module parameter is written. *)
LEMMA ParameterInductive ==
    ASSUME IInv,
           \/ \E ms \in Interval : SetInterval(ms)
           \/ \E n \in Chunk : SetChunk(n)
    PROVE  IInv'
<1>1. UNCHANGED <<ec, shadow, pos, mutex, thread, stage, scheduled, running, history>>
  BY DEF SetInterval, SetChunk
<1>2. interval' \in Interval /\ chunk' \in Chunk
  BY DEF IInv, TypeOK, SetInterval, SetChunk
<1>3. Loops'
  BY <1>1, Untouched
<1>4. TypeOK' /\ Owners'
  BY <1>1, <1>2 DEF IInv, TypeOK, Owners, history
<1> QED BY <1>3, <1>4 DEF IInv, Loops

-----------------------------------------------------------------------------
LEMMA NextInductive == IInv /\ [Next]_vars => IInv'
<1> SUFFICES ASSUME IInv, [Next]_vars PROVE IInv'
  OBVIOUS
<1>1. CASE UNCHANGED vars
  <2>1. Loops'
    BY <1>1, Untouched DEF vars
  <2>2. TypeOK' /\ Owners'
    BY <1>1 DEF vars, IInv, TypeOK, Owners, params, history
  <2> QED BY <2>1, <2>2 DEF IInv, Loops
<1>2. ASSUME NEW t \in Refresher, Work(t) PROVE IInv'
  BY <1>2, FetchInductive, FetchFailsInductive DEF Work
<1> QED
  BY <1>1, <1>2, ModuleInductive, TickInductive, KeepInductive, WriteFileInductive, PutInductive,
     PutFailsInductive, WriteDoneInductive, ParameterInductive, FirmwareInductive DEF Next

THEOREM Inductive == Spec => []IInv
<1>1. Init => IInv
  BY InitInductive
<1>2. IInv /\ [Next]_vars => IInv'
  BY NextInductive
<1> QED BY <1>1, <1>2, PTL DEF Spec

(* The variables keep their types: the position of the refresh stays inside the
   memory and its chunk within 1 and the size, whatever the module parameters
   (msiecmodule.c:49-67). *)
THEOREM TypeCorrect == Spec => []TypeOK
<1>1. IInv => TypeOK
  BY DEF IInv
<1> QED BY <1>1, Inductive, PTL

(* Whatever threads write and ticks read in between, a reader of the file never
   gets a value from before the last write of the cell: ec_mutex is held over
   the transaction and the assignment (msiecmodule.c:54-65, 113-121). *)
THEOREM WritesNotUndone == Spec => []ReadsAreCurrent
<1>1. IInv => ReadsAreCurrent
  <2> SUFFICES ASSUME IInv, mutex = None, NEW a \in known PROVE shadow[a] \in held[a]
    BY DEF ReadsAreCurrent, CanRead
  <2>1. \A u \in User : thread[u].byte = None
    BY Threads, IdleIs DEF IInv, Exclusion
  <2> QED BY <2>1 DEF IInv, Kept
<1> QED BY <1>1, Inductive, PTL
=============================================================================
