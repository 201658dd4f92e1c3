--------------------------- MODULE MCBinderObject ---------------------------
(* Instances of BinderObject for TLC.                                      *)
EXTENDS BinderObject, TLC

(* The threads of a process are interchangeable.                           *)
Symmetry == Permutations(Owners) \cup Permutations(Clients)
=============================================================================
