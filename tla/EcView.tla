------------------------------- MODULE EcView -------------------------------
(***************************************************************************)
(* What the EC shadow of the service promises to the parameters and the    *)
(* D-Bus calls built on it, without saying how writes are queued.          *)
(*                                                                         *)
(* The EC memory `hw` belongs to the firmware, which changes it at will.   *)
(* The service keeps a `view` of it that callers read and edit at once; the*)
(* edited addresses are `dirty` until the view has been written to the EC  *)
(* in full and read back.  A dirty byte is never dropped and never         *)
(* replaced by something other than a later edit, except by a restart.     *)
(***************************************************************************)
EXTENDS Integers

CONSTANTS Addr,    \* addresses of the EC memory
          Byte,    \* values of a cell
          Unread   \* the view before the first successful read

ASSUME UnreadAssumption == Unread \notin [Addr -> Byte]

VARIABLES view,    \* what callers of the service see
          hw,      \* the EC memory
          dirty,   \* addresses whose view has still to reach the EC
          complete \* the dirty bytes were all written, the read-back is due

avars == <<view, hw, dirty, complete>>

(* The EC memory after the view of the addresses S was written to it. *)
Written(S) == [a \in Addr |-> IF a \in S THEN view[a] ELSE hw[a]]

AInit == /\ view = Unread
         /\ hw \in [Addr -> Byte]
         /\ dirty = {}
         /\ complete = FALSE

Accept(S) ==
    /\ view # Unread /\ ~complete
    /\ view' \in [Addr -> Byte]
    /\ \A a \in Addr \ S : view'[a] = view[a]
    /\ dirty' = dirty \union S
    /\ UNCHANGED <<hw, complete>>

Complete ==
    /\ ~complete
    /\ hw' = Written(dirty)
    /\ complete' = TRUE
    /\ UNCHANGED <<view, dirty>>

(* An attempt that fails: some dirty bytes reached the EC, all stay dirty. *)
Abandon(S) ==
    /\ S \subseteq dirty
    /\ hw' = Written(S)
    /\ complete' = FALSE
    /\ UNCHANGED <<view, dirty>>

Refresh ==
    /\ complete
    /\ view' = hw
    /\ dirty' = {}
    /\ complete' = FALSE
    /\ UNCHANGED hw

Drift(a, b) ==
    /\ hw' = [hw EXCEPT ![a] = b]
    /\ UNCHANGED <<view, dirty, complete>>

Restart ==
    /\ view' = Unread
    /\ dirty' = {}
    /\ complete' = FALSE
    /\ UNCHANGED hw

ANext == \/ \E S \in SUBSET Addr : Accept(S) \/ Abandon(S)
         \/ Complete \/ Refresh \/ Restart
         \/ \E a \in Addr, b \in Byte : Drift(a, b)

ASpec == AInit /\ [][ANext]_avars
=============================================================================
