------------------------------ MODULE MCParcel ------------------------------
(***************************************************************************)
(* Parcel on a small instance.                                             *)
EXTENDS Parcel

CONSTANTS b, h, f

\* A call with a binder of ours and a descriptor; one with binders of another
\* process and of ours; the null binder that answers a lookup; objects that
\* overlap in the list.
Call == [size |-> 52, offsets |-> <<0, 28>>,
         items |-> (0 :> [type |-> "binder", id |-> b])
                   @@ (24 :> [type |-> "int"])
                   @@ (28 :> [type |-> "fd", id |-> f, cookie |-> 1])]
Offer == [size |-> 52, offsets |-> <<0, 28>>,
          items |-> (0 :> [type |-> "handle", id |-> h])
                    @@ (24 :> [type |-> "int"])
                    @@ (28 :> [type |-> "binder", id |-> b])]
Answer == [size |-> 28, offsets |-> <<>>,
           items |-> (0 :> [type |-> "binder", id |-> Null])
                     @@ (24 :> [type |-> "int"])]
Unsorted == [size |-> 48, offsets |-> <<24, 0>>,
             items |-> (0 :> [type |-> "handle", id |-> h])
                       @@ (24 :> [type |-> "binder", id |-> b])]
MCMessages == {Call, Offer, Answer, Unsorted}

\* Bound: as long as the descriptor is about, no handle is, and a blob counts twice.
Descriptorless ==
  open \cup stale = {} /\ \A p \in Parcels : \A x \in Range(parcels[p].items) : x.type # "fd"
Handleless == known = {} /\ \A p \in Parcels : LET items == parcels[p].items IN
  /\ \A x \in Range(items) : x.type # "handle"
  /\ Cardinality(DOMAIN items) + Cardinality({o \in DOMAIN items : items[o].type = "blob"})
       <= MaxItems
FewAtOnce == (Descriptorless \/ Handleless)'
=============================================================================
