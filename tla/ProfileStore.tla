---------------------------- MODULE ProfileStore ----------------------------
(***************************************************************************)
(* What the service promises to those who edit device profiles, without    *)
(* saying that there are a file and a list read from it, a bus and clients.*)
(*                                                                         *)
(* There is one list of profiles.  An edit that is accepted is in the list *)
(* for good: the end of the process and its next start leave it there.  An *)
(* edit that fails leaves no trace.  Each accepted edit and each start that*)
(* could read the EC put in force what the list then selects.  The list is *)
(* lost in one way only: what keeps it is damaged from outside, and it is  *)
(* then not saved again before the process ends or an edit fails.          *)
(***************************************************************************)
EXTENDS Integers, Sequences

CONSTANTS Profile,  \* profiles callers may put in the list
          Name,     \* names callers may drop
          Builtin,  \* the profiles that are always there, a sequence
          Defaults, \* the configuration every profile starts from
          Nothing   \* what is in force when no profile is

VARIABLES fw,       \* of this machine
          profiles, \* the one list
          serving,  \* edits are possible
          able,     \* profiles can be put in force
          intact,   \* the list would be found again
          force     \* the name and the configuration in force

avars == <<fw, profiles, serving, able, intact, force>>

Matching(list) == {i \in DOMAIN list : fw \in list[i].firmware}
FirstOf(indices) == CHOOSE i \in indices : \A j \in indices : i <= j

(* Of the list's entries for this machine the first is in force; a built-in *)
(* one when the list has none.                                              *)
Selects(list) == Matching(list) # {} \/ Matching(Builtin) # {}
Choice(list) == IF Matching(list) # {} THEN list[FirstOf(Matching(list))]
                ELSE Builtin[FirstOf(Matching(Builtin))]

Effect(p) == << <<p.id, p.source>>,
                [key \in DOMAIN Defaults \union DOMAIN p.values |->
                    IF key \in DOMAIN p.values THEN p.values[key] ELSE Defaults[key]] >>

PutInForce(list) == force' = IF Selects(list) THEN Effect(Choice(list)) ELSE force

Kept == IF intact THEN profiles ELSE <<>>
With(list, p) ==
    LET same == {i \in DOMAIN list : list[i].id = p.id}
    IN  IF same = {} THEN Append(list, p) ELSE [list EXCEPT ![FirstOf(same)] = p]
Without(list, name) == SelectSeq(list, LAMBDA p : p.id # name)

-----------------------------------------------------------------------------
AInit == /\ profiles = <<>>
         /\ serving = FALSE /\ able = FALSE /\ intact = TRUE
         /\ force = Nothing

Begin ==
    /\ ~serving /\ serving' = TRUE
    /\ able' \in BOOLEAN
    /\ IF able' THEN PutInForce(profiles) ELSE UNCHANGED force
    /\ UNCHANGED <<fw, profiles, intact>>

(* An accepted edit: the list is `list` from now on. *)
Becomes(list) ==
    /\ serving
    /\ profiles' = list /\ intact' = TRUE
    /\ IF able THEN PutInForce(list) ELSE UNCHANGED force
    /\ UNCHANGED <<fw, serving, able>>

Put(p) == Becomes(With(profiles, p))
Drop(name) == Becomes(Without(profiles, name))

EditFails ==
    /\ serving
    /\ profiles' = Kept
    /\ UNCHANGED <<fw, serving, able, intact, force>>

End ==
    /\ serving /\ serving' = FALSE /\ able' = FALSE
    /\ profiles' = Kept
    /\ force' = Nothing
    /\ UNCHANGED <<fw, intact>>

(* From outside, at any time. *)
Damage ==
    /\ intact /\ intact' = FALSE
    /\ profiles' = IF serving THEN profiles ELSE <<>>
    /\ UNCHANGED <<fw, serving, able, force>>

ANext == \/ Begin \/ End \/ Damage \/ EditFails
         \/ \E p \in Profile : Put(p)
         \/ \E name \in Name : Drop(name)

ASpec == AInit /\ [][ANext]_avars
=============================================================================
