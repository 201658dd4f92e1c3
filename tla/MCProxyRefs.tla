---------------------------- MODULE MCProxyRefs ----------------------------
(* Instances of ProxyRefs for TLC.                                         *)
EXTENDS ProxyRefs, TLC

(* Threads of a kind are interchangeable.                                  *)
Symmetry == Permutations(Loopers) \cup Permutations(Threads \ Loopers)
=============================================================================
