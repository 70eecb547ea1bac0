------------------------------ MODULE MapSpec ------------------------------
(***************************************************************************)
(* What include/hashtable/hashtable.h promises, seen through the answers   *)
(* of a trace (ht_trace_test.c): a map from keys to contents, and for each *)
(* trace line the verdict a reader of the header would expect.  There is   *)
(* no hash, bucket, list or heap here; an allocation may fail at any time, *)
(* and then a line changes nothing.                                        *)
(***************************************************************************)
EXTENDS Naturals, FiniteSets

CONSTANTS
    Keys,
    Contents,
    Null,      \* the content of the C NULL value
    Sizes      \* the numbers a size line may expect

VARIABLES
    there,    \* there is a table
    table,    \* a map from some of the keys to contents
    verdict,  \* of the last line
    reading   \* the trace is not at its end

vars == <<there, table, verdict, reading>>

EmptyMap == [k \in {} |-> Null]

(* A get does not tell an absent key from one that holds NULL. *)
Get(key) == IF key \in DOMAIN table THEN table[key] ELSE Null
Says(b) == IF b THEN "pass" ELSE "mismatch"

Init == /\ there = FALSE
        /\ table = EmptyMap
        /\ verdict = "start"
        /\ reading = TRUE

Keep == UNCHANGED <<there, table, reading>>

Refuse == Keep /\ verdict' = "refused"
OutOfMemory == Keep /\ verdict' = "oom"

New == /\ ~there
       /\ there' = TRUE
       /\ verdict' = "pass"
       /\ UNCHANGED <<table, reading>>

Put(key, c) == /\ there
               /\ table' = [k \in DOMAIN table \cup {key} |->
                                IF k = key THEN c ELSE table[k]]
               /\ verdict' = "pass"
               /\ UNCHANGED <<there, reading>>

Expect(key, c) == /\ there
                  /\ verdict' = Says(Get(key) = c)
                  /\ Keep

Delete(key) == /\ there
               /\ table' = [k \in DOMAIN table \ {key} |-> table[k]]
               /\ verdict' = "pass"
               /\ UNCHANGED <<there, reading>>

Size(n) == /\ there
           /\ verdict' = Says(Cardinality(DOMAIN table) = n)
           /\ Keep

Clear == /\ there' = FALSE
         /\ table' = EmptyMap

Free == /\ there
        /\ Clear
        /\ verdict' = "pass"
        /\ UNCHANGED reading

End == /\ Clear
       /\ reading' = FALSE
       /\ UNCHANGED verdict

Next == /\ reading
        /\ \/ Refuse \/ OutOfMemory \/ New \/ Free \/ End
           \/ \E key \in Keys : Delete(key) \/ \E c \in Contents : Put(key, c) \/ Expect(key, c)
           \/ \E n \in Sizes : Size(n)

Spec == Init /\ [][Next]_vars
=============================================================================
