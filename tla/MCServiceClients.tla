-------------------------- MODULE MCServiceClients --------------------------
(***************************************************************************)
(* ServiceClients on a small instance.                                     *)
(***************************************************************************)
EXTENDS ServiceClients

(* Clients' names differ in nothing but their hashes: every hash function  *)
(* up to their order.  "manager" hashes to the first bucket or to an inner *)
(* one, a refused name to the first.                                       *)
Order == SetToSeq(Names \ {Manager})
MCInit ==
  /\ CInit /\ hash[Manager] \in {0, 5} /\ \A n \in BadNames : hash[n] = 0
  /\ \A i, j \in DOMAIN Order : i < j => hash[Order[i]] <= hash[Order[j]]

(* Whole transactions of other clients, as long as these have not come.    *)
Others ==
  /\ manager = "up" /\ \A c \in Clients : pc[c] = "new"
  /\ Next /\ UNCHANGED <<manager, transport, outcome>>

MCNext == CNext \/ Others
MCSpec == MCInit /\ [][MCNext]_allVars /\ Fairness

(* Bound: the clients come while the registry is as main left it, and the  *)
(* name they speak of hashes to the bucket of "manager" or to another; or  *)
(* they do not come, and the others fill the registry.                     *)
Few ==
  /\ last.status = "none" /\ hash[Manager] = 0 /\ hash[Order[1]] % 2 = 0
  /\ \A i \in DOMAIN Order : i > 1 => hash[Order[i]] = 2^MaxBits - 1
FewAtOnce == \A c \in Clients :
  /\ pc[c] = "new" /\ pc'[c] # "new" => Few
  /\ call'[c].name \in {Manager, Order[1]} \cup BadNames
=============================================================================
