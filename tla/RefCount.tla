------------------------------ MODULE RefCount ------------------------------
(***************************************************************************)
(* What RefBase promises its clients, without counters: an object that is  *)
(* owned by references, some of them strong, and whose end is noticed      *)
(* once, when nothing that keeps it alive is left (the contract of sp<> and*)
(* wp<> in binderlib/utils/RefBase.c, as far as the code goes: it makes the*)
(* call that should reclaim the object, RefBase_delete, which does not).   *)
(***************************************************************************)
CONSTANT Ids

VARIABLES
  lifetime,   \* "STRONG": strong references keep it alive; "WEAK": all do
  fresh,      \* only its creator's pointer keeps it alive
  used,       \* it has had a strong reference
  strong,     \* the strong references
  owners,     \* all references
  ended       \* RefBase_delete has been called for it

vars == <<lifetime, fresh, used, strong, owners, ended>>

Init ==
  /\ lifetime = "STRONG" /\ fresh = TRUE /\ used = FALSE
  /\ strong = {} /\ owners = {} /\ ended = FALSE

(* A constructor asks to live as long as weak references do.               *)
Extend ==
  /\ fresh /\ owners = {} /\ lifetime' = "WEAK"
  /\ UNCHANGED <<fresh, used, strong, owners, ended>>

(* A reference is made by the creator or from another one.                 *)
Own(i) ==
  /\ i \notin owners /\ (fresh \/ owners # {})
  /\ owners' = owners \cup {i}
  /\ UNCHANGED <<lifetime, fresh, used, strong, ended>>

(* A reference becomes strong: never once a STRONG lifetime has ended.     *)
Promote(i) ==
  /\ i \in owners \ strong
  /\ (lifetime = "STRONG" /\ used) => strong # {}
  /\ ~ended
  /\ strong' = strong \cup {i} /\ used' = TRUE /\ fresh' \in {fresh, FALSE}
  /\ UNCHANGED <<lifetime, owners, ended>>

GiveAway ==
  /\ fresh /\ fresh' = FALSE
  /\ UNCHANGED <<lifetime, used, strong, owners, ended>>

Demote(i) ==
  /\ i \in strong /\ strong' = strong \ {i}
  /\ UNCHANGED <<lifetime, fresh, used, owners, ended>>

Disown(i) ==
  /\ ~fresh /\ i \in owners \ strong /\ owners' = owners \ {i}
  /\ UNCHANGED <<lifetime, fresh, used, strong, ended>>

End ==
  /\ ~ended /\ ~fresh
  /\ IF lifetime = "STRONG" THEN used /\ strong = {} ELSE owners = {}
  /\ ended' = TRUE
  /\ UNCHANGED <<lifetime, fresh, used, strong, owners>>

Next ==
  \/ Extend \/ GiveAway \/ End
  \/ \E i \in Ids : Own(i) \/ Promote(i) \/ Demote(i) \/ Disown(i)

Spec == Init /\ [][Next]_vars
=============================================================================
