---------------------------- MODULE TraceDriver ----------------------------
(***************************************************************************)
(* The hash table in use: src/src/hashtable/ht_trace_test.c reads a trace  *)
(* file line by line and runs init, put, get, del, size and free against   *)
(* one table, g_ht, whose values are tagged values on the heap that the    *)
(* table owns (free_value is tagged_value_free).  Every allocation may     *)
(* fail.  A line is one action: nothing runs concurrently.                 *)
(*                                                                         *)
(* The text of a line is abstracted to its command and arguments, a tagged *)
(* value to its content, and the pass/fail messages to five verdicts; the  *)
(* counters g_passed, g_failed and g_line_num are left out.                *)
(***************************************************************************)
EXTENDS HashTable

CONSTANTS
    Addr,      \* addresses malloc may give a TaggedValue
    Contents,  \* what a tagged value, or NULL, says: values_equal compares it
    Null,      \* the content of the NULL value, written "null" in a trace
    Freed,     \* not a content: the address is not allocated
    Sizes      \* the numbers a size line may expect

ASSUME ValuesAssumption == Values = Addr \cup {NULL} /\ NULL \notin Addr
ASSUME ContentsAssumption == Null \in Contents /\ Freed \notin Contents
ASSUME SizesAssumption == Sizes \subseteq Nat

VARIABLES
    g_ht,     \* the table, or NULL
    heap,     \* the content at each address, Freed when not allocated
    blocks,   \* HTEntry structs and key strings allocated and not yet freed
    verdict,  \* of the last line
    reading   \* run_trace_file is in its loop

vars == <<g_ht, heap, blocks, verdict, reading>>

Ready == g_ht # NULL

NoBlocks == [entries |-> 0, keys |-> 0]

-----------------------------------------------------------------------------
(* The heap of tagged values.                                              *)

Content(v) == IF v = NULL THEN Null ELSE heap[v]

(* Mutant: the table was given no free_value. *)
NoFreeValue(h, v) == h

(* tagged_value_free *)
ValueFree(h, v) == IF v = NULL THEN h ELSE [h EXCEPT ![v] = Freed]

(* parse_value: the values a content may be parsed to, on which heap.      *)
Parsed(c) == IF c = Null
             THEN {<<NULL, heap>>}
             ELSE {<<a, [heap EXCEPT ![a] = c]>> : a \in {b \in Addr : heap[b] = Freed}}

Init == /\ g_ht = NULL
        /\ heap = [a \in Addr |-> Freed]
        /\ blocks = NoBlocks
        /\ verdict = "start"
        /\ reading = TRUE

-----------------------------------------------------------------------------
(* The lines of a trace.                                                   *)

Unchanged == UNCHANGED <<g_ht, heap, blocks, reading>>

Passes(b) == IF b THEN "pass" ELSE "mismatch"

(* An unknown command, missing arguments, an unknown type, or a command    *)
(* that g_ht's state does not allow: init twice, anything else before it.  *)
Refused == /\ verdict' = "refused"
           /\ Unchanged

(* A calloc, malloc or strdup of the line fails; whatever the line had     *)
(* allocated before is freed again.                                        *)
OutOfMemory == /\ verdict' = "oom"
               /\ Unchanged

cmd_init == /\ ~Ready
            /\ g_ht' = EmptyTable
            /\ verdict' = "pass"
            /\ UNCHANGED <<heap, blocks, reading>>

(* put on a key that is there: ht_put frees the value it replaces. *)
PutReplaces(key, v, h) ==
    /\ Holds(Chain(g_ht, key), key)
    /\ heap' = ValueFree(h, Lookup(g_ht, key))
    /\ g_ht' = Replaced(g_ht, key, v)
    /\ verdict' = "pass"
    /\ UNCHANGED blocks

(* put on a new key; when ht_put fails, cmd_put frees the value it made. *)
PutInserts(key, v, h) ==
    /\ ~Holds(Chain(g_ht, key), key)
    /\ \E m \in NewEntryOutcomes :
        /\ blocks' = [entries |-> blocks.entries + m.entries, keys |-> blocks.keys + m.keys]
        /\ IF m.ok
           THEN /\ g_ht' = Inserted(g_ht, key, v)
                /\ heap' = h
                /\ verdict' = "pass"
           ELSE /\ heap' = ValueFree(h, v)
                /\ verdict' = "oom"
                /\ UNCHANGED g_ht

cmd_put(key, c) ==
    /\ Ready
    /\ \E p \in Parsed(c) : PutReplaces(key, p[1], p[2]) \/ PutInserts(key, p[1], p[2])
    /\ UNCHANGED reading

(* The expected value is built, compared and freed within the line. *)
cmd_get(key, c) ==
    /\ Ready
    /\ verdict' = Passes(Content(Lookup(g_ht, key)) = c)
    /\ Unchanged

(* ht_delete's answer is ignored: deleting an absent key passes. *)
DelFinds(key) ==
    /\ Holds(Chain(g_ht, key), key)
    /\ heap' = ValueFree(heap, Lookup(g_ht, key))
    /\ g_ht' = Deleted(g_ht, key)
    /\ blocks' = [entries |-> blocks.entries - 1, keys |-> blocks.keys - 1]

(* Mutant: size goes down whether or not the key was found. *)
DelMissesCounts(key) ==
    /\ ~Holds(Chain(g_ht, key), key)
    /\ g_ht' = [g_ht EXCEPT !.size = @ - 1]
    /\ UNCHANGED <<heap, blocks>>

DelMisses(key) ==
    /\ ~Holds(Chain(g_ht, key), key)
    /\ UNCHANGED <<g_ht, heap, blocks>>

cmd_del(key) ==
    /\ Ready
    /\ DelFinds(key) \/ DelMisses(key)
    /\ verdict' = "pass"
    /\ UNCHANGED reading

cmd_size(n) ==
    /\ Ready
    /\ verdict' = Passes(g_ht.size = n)
    /\ Unchanged

(* ht_free, then free(g_ht): every value, every entry, every key. *)
FreeTable ==
    /\ heap' = [a \in Addr |-> IF a \in ValuesOf(g_ht) THEN Freed ELSE heap[a]]
    /\ LET n == Cardinality(Slots(g_ht))
       IN  blocks' = [entries |-> blocks.entries - n, keys |-> blocks.keys - n]
    /\ g_ht' = NULL

cmd_free_ht == /\ Ready
               /\ FreeTable
               /\ verdict' = "pass"
               /\ UNCHANGED reading

(* The end of the file: a table still there is freed. *)
EndOfTrace == /\ reading' = FALSE
              /\ IF Ready THEN FreeTable ELSE UNCHANGED <<g_ht, heap, blocks>>
              /\ UNCHANGED verdict

Next == /\ reading
        /\ \/ Refused
           \/ OutOfMemory
           \/ cmd_init
           \/ \E key \in Keys, c \in Contents : cmd_put(key, c)
           \/ \E key \in Keys, c \in Contents : cmd_get(key, c)
           \/ \E key \in Keys : cmd_del(key)
           \/ \E n \in Sizes : cmd_size(n)
           \/ cmd_free_ht
           \/ EndOfTrace

Spec == Init /\ [][Next]_vars

-----------------------------------------------------------------------------
(* Properties.                                                             *)

TypeOK == /\ g_ht \in Table \cup {NULL}
          /\ heap \in [Addr -> Contents \cup {Freed}]
          /\ blocks \in [entries: Int, keys: Int]
          /\ verdict \in {"start", "pass", "mismatch", "refused", "oom"}
          /\ reading \in BOOLEAN

(* Every entry is in the bucket of its key, a key is in its bucket once,   *)
(* and ht->size, kept by hand at each insertion and removal, counts the    *)
(* entries that are linked.                                                *)
WellFormed ==
    Ready =>
        /\ \A s \in Slots(g_ht) : s[1] = BucketOf(At(g_ht, s).key)
        /\ \A s, t \in Slots(g_ht) : At(g_ht, s).key = At(g_ht, t).key => s = t
        /\ g_ht.size = Cardinality(Slots(g_ht))

(* Between two lines the allocated tagged values are exactly the values of *)
(* the table, each in one entry: nothing leaks on any path, replacement    *)
(* and failed puts included, and no entry holds a freed or shared value,   *)
(* so no value is freed twice.                                             *)
Owned ==
    /\ {a \in Addr : heap[a] # Freed} = IF Ready THEN ValuesOf(g_ht) \ {NULL} ELSE {}
    /\ Ready => \A s, t \in Slots(g_ht) :
            At(g_ht, s).value = At(g_ht, t).value /\ At(g_ht, s).value # NULL => s = t

(* As many entry structs and key strings are allocated as entries are      *)
(* linked, whichever of ht_put's two allocations failed before.            *)
BlocksExact ==
    LET n == IF Ready THEN Cardinality(Slots(g_ht)) ELSE 0
    IN  blocks = [entries |-> n, keys |-> n]

(* Chains, collisions, unlinking and the heap are invisible: the verdict   *)
(* of every line is the one the map of the header gives.                   *)
Mapping == IF Ready THEN KeysOf(g_ht) ELSE {}

Map == INSTANCE MapSpec WITH
    there <- Ready,
    table <- [k \in Mapping |-> Content(Lookup(g_ht, k))]

RefinesMap == Map!Spec
=============================================================================
