---------------------------- MODULE MCCpcManager ----------------------------
(***************************************************************************)
(* CpcManager on a small instance.                                         *)
(***************************************************************************)
EXTENDS CpcManager

(* Bound: one process dies; a third registration is one of the same bare   *)
(* name as the others, while nobody looks for it.  Nobody has to die or to *)
(* begin a call, so this stops no call that has begun.                     *)
OneDeath == Cardinality(Processes \ alive) <= 1
Unobserved == \A c \in Clients : c \in alive /\ pc[c] = "idle"
SameName == \E n \in Services : \A k \in DOMAIN adds : adds[k][2] = n
FewAtOnce == (OneDeath /\ (Len(adds) <= 2 \/ (Unobserved /\ SameName)))'
=============================================================================
