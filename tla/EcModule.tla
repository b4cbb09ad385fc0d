------------------------------ MODULE EcModule ------------------------------
(***************************************************************************)
(* The kernel module (module/msiecmodule.c): a cache of the EC memory that *)
(* a periodic work refreshes a chunk at a time and that the file `ec`      *)
(* shows.  A write of the file goes through to the EC.                     *)
(*                                                                         *)
(* Every EC transaction is a step, so the threads and the firmware         *)
(* interleave between them; `ec_mutex` is what keeps the threads apart.  A *)
(* reader copies the cache in one piece while it holds the mutex: what it  *)
(* can get is the cache in the states where the mutex is free (CanRead).   *)
(***************************************************************************)
EXTENDS Integers, Sequences

CONSTANTS Size,   \* EC_MEM_SIZE; the code's u8 arithmetic is modulo its 256
          Byte,   \* values of a cell
          User,   \* threads that write the file
          Shapes, \* <<offset, count>> of their writes
          Chunk,  \* values of cache_chunk: how many cells a tick refreshes
          None    \* no byte, no thread

Addr == 0 .. Size - 1
Interval == {0, 20} \* cache_interval_ms; only whether it is 0 matters
Refresher == {"tick", "init"}
Thread == User \union Refresher

ASSUME SizeAssumption == Size \in Nat \ {0}
ASSUME ZeroAssumption == 0 \in Byte
ASSUME NoneAssumption == None \notin Byte /\ None \notin Thread
ASSUME UserAssumption == User \intersect Refresher = {}
ASSUME ShapesAssumption == Shapes \subseteq Nat \X (Nat \ {0})
ASSUME ChunkAssumption == Chunk \subseteq Nat

VARIABLES ec,        \* the EC memory
          shadow,    \* ec_shadow
          pos,       \* ec_shadow_pos
          mutex,     \* the thread that holds ec_mutex
          thread,    \* per thread: the cells its loop has left, and the byte
                     \* read or written that the shadow does not show yet
          stage,     \* of the module: see Stages
          scheduled, \* ec_cache_work waits for its time
          running,   \* how many cells the running tick refreshes, 0 if none
          interval,  \* cache_interval_ms
          chunk,     \* cache_chunk
          known,     \* history: cells refreshed or written since the start
          held       \* history: per cell, what it has held since it was last
                     \* written through the file

params == <<interval, chunk>>
history == <<known, held>>
vars == <<ec, shadow, pos, mutex, thread, stage, scheduled, running, params, history>>

(* Not loaded; the file is there; the full refresh is running; ready. *)
Stages == {"unloaded", "visible", "refreshing", "loaded"}
Idle == [left |-> <<>>, byte |-> None]
Cells == Addr \X (Byte \union {None})

-----------------------------------------------------------------------------
Init == /\ ec \in [Addr -> Byte]
        /\ shadow = [a \in Addr |-> 0]
        /\ pos = 0
        /\ mutex = None
        /\ thread = [t \in Thread |-> Idle]
        /\ stage = "unloaded"
        /\ scheduled = FALSE
        /\ running = 0
        /\ interval = 20
        /\ chunk \in Chunk
        /\ known = {}
        /\ held = [a \in Addr |-> {ec[a]}]

Locks(t, cells) ==
    /\ mutex = None /\ mutex' = t
    /\ thread' = [thread EXCEPT ![t].left = cells]

(* Cells n addresses from `start` on, wrapping round. *)
From(start, n) == [i \in 1 .. n |-> <<(start + i - 1) % Size, None>>]

(* A step of a loop that reads the EC: the transaction, and the assignment to
   the shadow.  A cell that cannot be read is left as it is. *)
Fetch(t, a) ==
    /\ thread[t].left # <<>> /\ thread[t].byte = None
    /\ Head(thread[t].left)[1] = a
    /\ thread' = [thread EXCEPT ![t].byte = ec[a]]
    /\ UNCHANGED <<ec, shadow, pos, mutex, stage, scheduled, running, params, history>>

FetchFails(t) ==
    /\ thread[t].left # <<>> /\ thread[t].byte = None
    /\ thread' = [thread EXCEPT ![t].left = Tail(@)]
    /\ UNCHANGED <<ec, shadow, pos, mutex, stage, scheduled, running, params, history>>

(* The assignment, of a loop that reads or of one that writes. *)
Keep(t) ==
    /\ thread[t].byte # None
    /\ LET a == Head(thread[t].left)[1]
       IN  /\ shadow' = [shadow EXCEPT ![a] = thread[t].byte]
           /\ known' = known \union {a}
    /\ thread' = [thread EXCEPT ![t] = [left |-> Tail(@.left), byte |-> None]]
    /\ UNCHANGED <<ec, pos, mutex, stage, scheduled, running, params, held>>

Finished(t) == thread[t].left = <<>>

-----------------------------------------------------------------------------
(* Loading and unloading. *)

(* The file is created before the cache is filled. *)
Load(ms, n) ==
    /\ stage = "unloaded" /\ stage' = "visible"
    /\ shadow' = [a \in Addr |-> 0]
    /\ pos' = 0
    /\ interval' = ms /\ chunk' = n
    /\ known' = {} /\ held' = [a \in Addr |-> {ec[a]}]
    /\ UNCHANGED <<ec, mutex, thread, scheduled, running>>

(* ec_shadow_full_refresh. *)
FullRefresh ==
    /\ stage = "visible" /\ stage' = "refreshing"
    /\ Locks("init", From(0, Size))
    /\ UNCHANGED <<ec, shadow, pos, scheduled, running, params, history>>

FullRefreshed ==
    /\ stage = "refreshing" /\ stage' = "loaded"
    /\ Finished("init") /\ mutex' = None
    /\ scheduled' = (interval # 0)
    /\ UNCHANGED <<ec, shadow, pos, thread, running, params, history>>

(* Waits for a running tick and for calls of the file. *)
Unload ==
    /\ stage = "loaded" /\ stage' = "unloaded"
    /\ running = 0 /\ mutex = None
    /\ scheduled' = FALSE
    /\ UNCHANGED <<ec, shadow, pos, mutex, thread, running, params, history>>

-----------------------------------------------------------------------------
(* ec_cache_tick. *)

(* The chain of ticks ends. *)
TickStops ==
    /\ scheduled /\ interval = 0
    /\ scheduled' = FALSE
    /\ UNCHANGED <<ec, shadow, pos, mutex, thread, stage, running, params, history>>

TickGivesUp == \* mutant: a tick that finds the mutex taken is not repeated
    scheduled /\ interval # 0 /\ mutex # None /\ scheduled' = FALSE
    /\ UNCHANGED <<ec, shadow, pos, mutex, thread, stage, running, params, history>>
(* It finds the mutex taken and is scheduled again. *)
TickSkips ==
    /\ scheduled /\ interval # 0
    /\ mutex # None
    /\ UNCHANGED vars

(* The chunk, bounded by 1 and the size. *)
Cut == IF chunk = 0 THEN 1 ELSE IF chunk > Size THEN Size ELSE chunk

TickBarges == \* mutant: the result of mutex_trylock is ignored
    scheduled /\ interval # 0 /\ scheduled' = FALSE /\ running' = Cut
    /\ thread' = [thread EXCEPT !["tick"].left = From(pos, Cut)]
    /\ UNCHANGED <<ec, shadow, pos, mutex, stage, params, history>>
TickLocks ==
    /\ scheduled /\ interval # 0
    /\ Locks("tick", From(pos, Cut))
    /\ scheduled' = FALSE /\ running' = Cut
    /\ UNCHANGED <<ec, shadow, pos, stage, params, history>>

TickDoneWide == \* mutant: the position is wider than a byte
    running > 0 /\ Finished("tick") /\ pos' = pos + running /\ running' = 0
    /\ mutex' = None /\ scheduled' = TRUE
    /\ UNCHANGED <<ec, shadow, thread, stage, params, history>>
(* It is scheduled again with the interval it began with, which was not 0. *)
TickDone ==
    /\ running > 0 /\ Finished("tick")
    /\ pos' = (pos + running) % Size
    /\ running' = 0
    /\ mutex' = None
    /\ scheduled' = TRUE
    /\ UNCHANGED <<ec, shadow, thread, stage, params, history>>

-----------------------------------------------------------------------------
(* ec_raw_bin_write: a write that begins inside the memory is cut at its end. *)
WriteFile(u, off, bytes) ==
    /\ stage # "unloaded"
    /\ off < Size
    /\ LET count == IF Len(bytes) > Size - off THEN Size - off ELSE Len(bytes)
       IN  Locks(u, [i \in 1 .. count |-> <<off + i - 1, bytes[i]>>])
    /\ UNCHANGED <<ec, shadow, pos, stage, scheduled, running, params, history>>

(* ec_write *)
Put(u) ==
    /\ thread[u].left # <<>> /\ thread[u].byte = None
    /\ LET a == Head(thread[u].left)[1]
           b == Head(thread[u].left)[2]
       IN  /\ ec' = [ec EXCEPT ![a] = b]
           /\ thread' = [thread EXCEPT ![u].byte = b]
           /\ held' = [held EXCEPT ![a] = {b}]
    /\ UNCHANGED <<shadow, pos, mutex, stage, scheduled, running, params, known>>

(* The transaction fails, whether or not the EC took the byte, and the call
   returns -EIO. *)
PutFails(u) ==
    /\ thread[u].left # <<>> /\ thread[u].byte = None
    /\ LET a == Head(thread[u].left)[1]
           b == Head(thread[u].left)[2]
       IN  /\ ec' \in {ec, [ec EXCEPT ![a] = b]}
           /\ held' = [held EXCEPT ![a] = @ \union {ec'[a]}]
    /\ thread' = [thread EXCEPT ![u] = Idle]
    /\ mutex' = None
    /\ UNCHANGED <<shadow, pos, stage, scheduled, running, params, known>>

WriteDone(u) ==
    /\ mutex = u /\ Finished(u)
    /\ mutex' = None
    /\ UNCHANGED <<ec, shadow, pos, thread, stage, scheduled, running, params, history>>

-----------------------------------------------------------------------------
(* root writes a module parameter. *)
SetInterval(ms) ==
    /\ stage # "unloaded" /\ ms # interval /\ interval' = ms
    /\ UNCHANGED <<ec, shadow, pos, mutex, thread, stage, scheduled, running, chunk, history>>

SetChunk(n) ==
    /\ stage # "unloaded" /\ n # chunk /\ chunk' = n
    /\ UNCHANGED <<ec, shadow, pos, mutex, thread, stage, scheduled, running, interval, history>>

FirmwareChanges(a, b) ==
    /\ b # ec[a]
    /\ ec' = [ec EXCEPT ![a] = b]
    /\ held' = [held EXCEPT ![a] = @ \union {b}]
    /\ UNCHANGED <<shadow, pos, mutex, thread, stage, scheduled, running, params, known>>

Work(t) == FetchFails(t) \/ \E a \in Addr : Fetch(t, a)

Next == \/ \E ms \in Interval, n \in Chunk : Load(ms, n)
        \/ FullRefresh \/ FullRefreshed \/ Unload
        \/ TickStops \/ TickSkips \/ TickLocks \/ TickDone
        \/ \E t \in Refresher : Work(t)
        \/ \E t \in Thread : Keep(t)
        \/ \E u \in User, shape \in Shapes : \E bytes \in [1 .. shape[2] -> Byte] :
               WriteFile(u, shape[1], bytes)
        \/ \E u \in User : Put(u) \/ PutFails(u) \/ WriteDone(u)
        \/ \E ms \in Interval : SetInterval(ms)
        \/ \E n \in Chunk : SetChunk(n)
        \/ \E a \in Addr, b \in Byte : FirmwareChanges(a, b)

(* Threads run; a call of the file ends; a tick does not find the mutex taken
   every time, nor init wait for ever, and no cell is unreadable every time. *)
Fairness ==
    /\ \A t \in Thread : WF_vars(Keep(t))
    /\ \A u \in User : WF_vars(Put(u) \/ PutFails(u)) /\ WF_vars(WriteDone(u))
    /\ \A t \in Refresher : WF_vars(Work(t))
    /\ \A a \in Addr : SF_vars(Fetch("tick", a))
    /\ SF_vars(FullRefresh) /\ WF_vars(FullRefreshed)
    /\ WF_vars(TickStops) /\ SF_vars(TickLocks) /\ WF_vars(TickDone)

Spec == Init /\ [][Next]_vars
FairSpec == Spec /\ Fairness

-----------------------------------------------------------------------------
TypeOK ==
    /\ ec \in [Addr -> Byte] /\ shadow \in [Addr -> Byte]
    /\ pos \in Addr
    /\ mutex \in Thread \union {None}
    /\ thread \in [Thread -> [left : Seq(Cells), byte : Byte \union {None}]]
    /\ stage \in Stages
    /\ scheduled \in BOOLEAN
    /\ running \in 0 .. Size
    /\ interval \in Interval /\ chunk \in Chunk
    /\ known \subseteq Addr
    /\ held \in [Addr -> SUBSET Byte]

(* ec_raw_bin_read can copy the cache. *)
CanRead == stage # "unloaded" /\ mutex = None

(* A reader never gets, for a cell that was written, a value from before the
   write, and otherwise only values the cell has really held: a refresh does not
   bring back what a write has just replaced (msiecmodule.c:54-65, 113-121). *)
ReadsAreCurrent ==
    CanRead => \A a \in known : shadow[a] \in held[a]

(* As long as the module is loaded and the interval is never 0, the cache comes
   to show every cell again and again once the firmware leaves it alone, however
   calls of the file, failures and chunks get in the way (msiecmodule.c:54-67). *)
CacheCatchesUp ==
    /\ <>[](stage # "unloaded")
    /\ [](stage # "unloaded" => interval # 0)
    /\ <>[][\A a \in Addr, b \in Byte : ~FirmwareChanges(a, b)]_vars
    => \A a \in Addr : []<>(shadow[a] = ec[a])

(* With an interval that is not 0 the refresh is periodic
   (msiecmodule.c:31: "0 disables periodic refresh"). *)
RefreshedWhileEnabled ==
    <>[](stage = "loaded" /\ interval # 0) => []<>(running > 0)
=============================================================================
