----------------------------- MODULE HashTable -----------------------------
(***************************************************************************)
(* The chained hash table of src/src/hashtable/hashtable.c as a data       *)
(* structure: one operator per outcome of ht_init, ht_put, ht_get,         *)
(* ht_delete, ht_size and ht_free.  A bucket's linked list is the sequence *)
(* of its entries, head first.  The hash function is a constant: nothing   *)
(* below depends on djb2, so the results hold for any distribution of      *)
(* keys over buckets, collisions included.                                 *)
(*                                                                         *)
(* The calls take a table that ht_init set up: ht, key and ht->buckets are *)
(* not NULL, which every caller in src/ guarantees but init.c:24 (that one *)
(* ignores ht_init's result).                                              *)
(***************************************************************************)
EXTENDS Integers, Sequences, FiniteSets

CONSTANTS
    Keys,      \* the key strings
    Values,    \* what the void* values may be, NULL included
    NULL,      \* the null pointer
    Capacity,  \* ht->capacity: 16 in the code, never changed while in use
    Hash       \* ht_hash_function

ASSUME CapacityAssumption == Capacity \in Nat \ {0}
ASSUME HashAssumption == Hash \in [Keys -> Nat]

Entry == [key: Keys, value: Values]
Table == [size: Nat, buckets: [0 .. Capacity - 1 -> Seq(Entry)]]

ASSUME NullAssumption == NULL \in Values /\ NULL \notin Table

(* index = ht_hash_function(key) % ht->capacity *)
BucketOf(key) == Hash[key] % Capacity

(* The entries an ht_put, ht_get or ht_delete of key walks over. *)
Chain(ht, key) == ht.buckets[BucketOf(key)]

Holds(chain, key) == \E i \in DOMAIN chain : chain[i].key = key

(* Where the walk stops: the first entry of the chain that has the key. *)
Position(chain, key) ==
    CHOOSE i \in DOMAIN chain : /\ chain[i].key = key
                                /\ \A j \in 1 .. i - 1 : chain[j].key # key

WithChain(ht, key, chain) == [ht.buckets EXCEPT ![BucketOf(key)] = chain]

-----------------------------------------------------------------------------
(* ht_init: no entry, every bucket empty. *)
EmptyTable == [size |-> 0, buckets |-> [b \in 0 .. Capacity - 1 |-> <<>>]]

(* ht_get *)
Lookup(ht, key) ==
    LET chain == Chain(ht, key)
    IN  IF Holds(chain, key) THEN chain[Position(chain, key)].value ELSE NULL

(* Mutant: a replaced key gets a second entry. *)
ReplacedPrepends(ht, key, value) ==
    [ht EXCEPT !.buckets = WithChain(ht, key,
        <<[key |-> key, value |-> value]>> \o Chain(ht, key))]

(* ht_put on a key that is there: the value is overwritten in place. *)
Replaced(ht, key, value) ==
    LET chain == Chain(ht, key)
    IN  [ht EXCEPT !.buckets = WithChain(ht, key,
            [chain EXCEPT ![Position(chain, key)].value = value])]

(* ht_put on a new key: a new entry at the head of its bucket. *)
Inserted(ht, key, value) ==
    [size |-> ht.size + 1,
     buckets |-> WithChain(ht, key,
         <<[key |-> key, value |-> value]>> \o Chain(ht, key))]

(* Mutant: the bucket head is unlinked, wherever the key was found. *)
UnlinkedHead(chain, i) == Tail(chain)

(* The chain without its i-th entry: the predecessor, or the bucket head,  *)
(* is linked to the successor.                                             *)
Unlinked(chain, i) ==
    [j \in 1 .. Len(chain) - 1 |-> IF j < i THEN chain[j] ELSE chain[j + 1]]

(* ht_delete of a key that is there. *)
Deleted(ht, key) ==
    LET chain == Chain(ht, key)
    IN  [size |-> ht.size - 1,
         buckets |-> WithChain(ht, key, Unlinked(chain, Position(chain, key)))]

(* Mutant: when the key's malloc fails the entry stays allocated. *)
NewEntryLeaks ==
    { [ok |-> TRUE,  entries |-> 1, keys |-> 1],
      [ok |-> FALSE, entries |-> 1, keys |-> 0] }

(* The two mallocs of ht_put for a new key, and the blocks that stay       *)
(* allocated: both succeed, or one fails and nothing stays, the entry      *)
(* being freed again when it is the key's that fails.                      *)
NewEntryOutcomes ==
    { [ok |-> TRUE,  entries |-> 1, keys |-> 1],
      [ok |-> FALSE, entries |-> 0, keys |-> 0] }

-----------------------------------------------------------------------------
(* The keys a table holds. *)
KeysOf(ht) == {k \in Keys : Holds(Chain(ht, k), k)}

(* Where a table's entries are: the pairs <<bucket, position>>. *)
Slots(ht) == UNION {{b} \X DOMAIN ht.buckets[b] : b \in 0 .. Capacity - 1}
At(ht, s) == ht.buckets[s[1]][s[2]]

(* What ht_free hands to free_value. *)
ValuesOf(ht) == {At(ht, s).value : s \in Slots(ht)}
=============================================================================
