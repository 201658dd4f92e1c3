--------------------------- MODULE ServiceManager ---------------------------
(***************************************************************************)
(* The context manager (cmds/svcmanager): its registry mNameToService, a   *)
(* HashMap (binderlib/utils/HashMap.c) of chained buckets that doubles as  *)
(* it fills up, and the transactions addService, getService and            *)
(* checkService that its single polling thread runs one after the other.   *)
(*                                                                         *)
(* The map keeps the String* it is given, not the characters.  For a       *)
(* transaction that is the local in_name of BnAIDLServiceManager_onTransact*)
(* (BnServiceManager.c:155), so every such key dangles once the call is    *)
(* over: later calls read in it whatever the stack then holds.  In another *)
(* addService it is that call's in_name, at the same depth of the same     *)
(* polling loop; in a lookup, whose in_name may share the slot or not, it  *)
(* is the name looked up, the last name added, or neither.                 *)
(***************************************************************************)
EXTENDS Integers, Sequences, SequencesExt, FiniteSets

CONSTANTS
  Names,        \* names that isValidServiceName accepts
  BadNames,     \* and names that it refuses
  Manager,      \* "manager", which main registers from a String that lives on
  Binders,      \* the remote binders that clients register
  Self,         \* the service manager's own binder
  InName,       \* the key &in_name
  Garbage,      \* characters that are no name
  Null,
  MaxBits,      \* bits of the hash that are told apart
  MaxServices   \* bound: BinderService objects made

ASSUME NamesAssumption ==
  /\ Manager \in Names /\ InName \notin Names /\ Garbage \notin Names
  /\ Names \cap BadNames = {} /\ Self \notin Binders /\ Null \notin Binders

HASHMAP_MIN_CAP_BITS == 2

VARIABLES
  hash,      \* the upper MaxBits bits of hash_bits, for each string
  cap_bits,  \* mNameToService.cap_bits; 0 before the first put
  buckets,   \* [bucket -> its chain: a sequence of [key, value]]
  services,  \* the BinderService objects, in the order they were made
  last       \* the last addService: its name, which its in_name still holds
             \* unless other calls overwrite it, and (history) its status

vars == <<hash, cap_bits, buckets, services, last>>

Entry == [key : {Manager, InName}, value : 1..MaxServices]

TypeOK ==
  /\ hash \in [Names \cup BadNames -> 0..2^MaxBits - 1]
  /\ cap_bits \in {0} \cup HASHMAP_MIN_CAP_BITS..MaxBits
  /\ DOMAIN buckets = IF cap_bits = 0 THEN {} ELSE 0..2^cap_bits - 1
  /\ \A b \in DOMAIN buckets : buckets[b] \in Seq(Entry)
  /\ services \in Seq([binder : Binders \cup {Self}, guaranteeClient : BOOLEAN])
  /\ last.name \in Names \cup BadNames \cup {Garbage}

-----------------------------------------------------------------------------
(***************************************************************************)
(* The map.  slot is what a key &in_name reads as during the call.         *)
(***************************************************************************)
hash_bits(name, bits) == hash[name] \div 2^(MaxBits - bits)

Reads(entry, slot) == IF entry.key = InName THEN slot ELSE entry.key

capacity == IF cap_bits = 0 THEN 0 ELSE 2^cap_bits
Entries == FlattenSeq([b \in 1..capacity |-> buckets[b - 1]])
size == Len(Entries)

(* hashmap_find_entry: the positions of the bucket that match the name.    *)
Matches(name, slot) ==
  IF cap_bits = 0 THEN {}
  ELSE {p \in 1..Len(buckets[hash_bits(name, cap_bits)]) :
          Reads(buckets[hash_bits(name, cap_bits)][p], slot) = name}

(* HashMapBase_find: the value of the first, or Null.                      *)
Find(name, slot) ==
  IF Matches(name, slot) = {} THEN Null
  ELSE buckets[hash_bits(name, cap_bits)]
         [CHOOSE p \in Matches(name, slot) : \A q \in Matches(name, slot) : p <= q].value

(* hashmap_needs_to_grow and hashmap_grow: every entry, in the order of    *)
(* iteration, is put at the head of the chain its key hashes to now.       *)
NeedsToGrow == cap_bits = 0 \/ ((size + 1) * 4) \div 3 > capacity

GrownBits == IF cap_bits + 1 < HASHMAP_MIN_CAP_BITS THEN HASHMAP_MIN_CAP_BITS
             ELSE cap_bits + 1

(* Faulty: the next entry is read after relinking (no tmp cursor).         *)
GrownHeadsOnly(slot) ==
  [b \in 0..2^GrownBits - 1 |->
     LET heads == {c \in DOMAIN buckets : buckets[c] # <<>>} IN
     SelectSeq([k \in 1..Cardinality(heads) |-> buckets[SetToSeq(heads)[k]][1]],
               LAMBDA e : hash_bits(Reads(e, slot), GrownBits) = b)]

Grown(slot) ==
  [b \in 0..2^GrownBits - 1 |->
     Reverse(SelectSeq(Entries, LAMBDA e : hash_bits(Reads(e, slot), GrownBits) = b))]

(* Faulty: HASHMAP_SET in place of HASHMAP_ADD.                            *)
InsertSets(key, name, value) ==
  LET h == hash_bits(name, cap_bits) IN
  /\ buckets' = [buckets EXCEPT ![h] =
       IF Matches(name, name) # {}
         THEN [@ EXCEPT ![CHOOSE p \in Matches(name, name) : TRUE] =
                 [key |-> key, value |-> value]]
         ELSE <<[key |-> key, value |-> value]>> \o @]
  /\ UNCHANGED cap_bits

(* Faulty: h is not computed again after hashmap_grow.                     *)
InsertStaleHash(key, name, value) ==
  LET h == hash_bits(name, cap_bits) IN
  IF Matches(name, name) # {}
    THEN UNCHANGED <<cap_bits, buckets>>
    ELSE /\ cap_bits' = IF NeedsToGrow THEN GrownBits ELSE cap_bits
         /\ buckets' = [IF NeedsToGrow THEN Grown(name) ELSE buckets EXCEPT ![h] =
                          <<[key |-> key, value |-> value]>> \o @]

(* HashMapBase_insert with HASHMAP_ADD, of a key that reads as name.       *)
Insert(key, name, value) ==
  LET bits == IF NeedsToGrow THEN GrownBits ELSE cap_bits
      base == IF NeedsToGrow THEN Grown(name) ELSE buckets
      h == hash_bits(name, bits)
  IN IF Matches(name, name) # {}
       THEN UNCHANGED <<cap_bits, buckets>>                     \* -EEXIST
       ELSE /\ bits <= MaxBits
            /\ cap_bits' = bits
            /\ buckets' = [base EXCEPT ![h] =
                             <<[key |-> key, value |-> value]>> \o @]

-----------------------------------------------------------------------------
(***************************************************************************)
(* The calls.                                                              *)
(***************************************************************************)
Answer(name, status) == last' = [name |-> name, status |-> status]

(* addService hands the ServiceManager as v_this to the linkToDeath of the *)
(* binder: nothing is linked, and what comes back is not predictable.  The *)
(* outcome of put is not looked at.                                        *)
addService(name, binder) ==
  /\ Len(services) < MaxServices
  /\ \/ /\ name \in BadNames
        /\ Answer(name, "BAD_VALUE")
        /\ UNCHANGED <<cap_bits, buckets, services>>
     \/ /\ name \in Names
        /\ Answer(name, "BAD_TYPE")
        /\ UNCHANGED <<cap_bits, buckets, services>>
     \/ /\ name \in Names
        /\ services' = Append(services, [binder |-> binder, guaranteeClient |-> FALSE])
        /\ Insert(InName, name, Len(services'))
        /\ Answer(name, "OK")
  /\ UNCHANGED hash

(* tryGetService, for getService and for checkService: tryStartService,    *)
(* in which they differ, is empty.                                         *)
tryGetService(name, slot) ==
  LET s == Find(name, slot) IN
  /\ services' = IF s = Null THEN services
                 ELSE [services EXCEPT ![s].guaranteeClient = TRUE]
  /\ UNCHANGED <<hash, cap_bits, buckets, last>>

(* main: the manager registers itself, under a String of its own frame.    *)
Init ==
  /\ hash \in [Names \cup BadNames -> 0..2^MaxBits - 1]
  /\ cap_bits = HASHMAP_MIN_CAP_BITS
  /\ buckets = [b \in 0..3 |-> IF b = hash_bits(Manager, HASHMAP_MIN_CAP_BITS)
                                 THEN <<[key |-> Manager, value |-> 1]>> ELSE <<>>]
  /\ services = <<[binder |-> Self, guaranteeClient |-> FALSE]>>
  /\ last = [name |-> Garbage, status |-> "none"]

Next ==
  \E name \in Names \cup BadNames :
    \/ \E binder \in Binders : addService(name, binder)
    \/ \E slot \in {name, last.name, Garbage} : tryGetService(name, slot)

Spec == Init /\ [][Next]_vars

-----------------------------------------------------------------------------
(***************************************************************************)
(* Properties.                                                             *)
(***************************************************************************)
(* The first put of main stands whatever clients register and whatever the *)
(* dangling keys hold while the map is rehashed: a lookup of "manager"     *)
(* that no dangling key answers finds it (HashMap.c:92-121, 143-192).      *)
ManagerKept == Find(Manager, Garbage) = 1

(* The same, with the types of the variables.                              *)
RegistryKept == TypeOK /\ ManagerKept

(* An addService that answers OK registers the name if nothing was found   *)
(* under it, also when the map has just grown, and otherwise leaves what   *)
(* was found in place: the first registration wins (HashMap.c:159-172).    *)
(* A comment of addService says the opposite of the second half; see       *)
(* OverwritesOld.                                                          *)
FirstWins ==
  [][Len(services') > Len(services) =>
       LET found == Find(last'.name, last'.name) IN
       Find(last.name, last.name)' = IF found = Null THEN Len(services') ELSE found]_vars

(* No step takes a registration out of the map or has it in twice: not the *)
(* relinking of the chains in hashmap_grow, nor a put for a known name.    *)
NothingDropped ==
  [][/\ ToSet(Entries) \subseteq ToSet(Entries')
     /\ Len(Entries') = Cardinality(ToSet(Entries'))]_vars

(* A comment of addService (ServiceManager.c:164) says "Overwrite the old  *)
(* service if it exists": what it registered is then what its name finds.  *)
OverwritesOld ==
  last.status = "OK" => Find(last.name, last.name) = Len(services)
=============================================================================
