------------------------- MODULE TraceDriverProofs -------------------------
(***************************************************************************)
(* The hash table's operations, for every hash function and capacity; and  *)
(* the trace driver's safety for every set of keys, every hash, capacity,  *)
(* address space and every trace, and that it implements MapSpec.          *)
(***************************************************************************)
EXTENDS TraceDriver, FiniteSetTheorems, TLAPS

-----------------------------------------------------------------------------
(* What the operations of HashTable do to a table.  The lemmas speak of    *)
(* slots, the places of entries; the theorems at their end read a table as *)
(* a map.                                                                  *)

(* Every entry is in the bucket of its key, and a key is there once. *)
Placed(ht) == \A s \in Slots(ht) : s[1] = BucketOf(At(ht, s).key)
Unique(ht) == \A s, t \in Slots(ht) : At(ht, s).key = At(ht, t).key => s = t
Good(ht) == ht \in Table /\ Placed(ht) /\ Unique(ht)

(* A bucket index is in the range of the bucket array (hashtable.c:81). *)
LEMMA BucketInRange ==
    ASSUME NEW key \in Keys
    PROVE  BucketOf(key) \in 0 .. Capacity - 1
<1>1. Hash[key] \in Nat
  BY HashAssumption
<1> QED
  BY <1>1, CapacityAssumption DEF BucketOf

(* A slot is a bucket and a position of its chain. *)
LEMMA SlotsAre ==
    ASSUME NEW ht \in Table
    PROVE  /\ \A s \in Slots(ht) : /\ s = <<s[1], s[2]>>
                                   /\ s[1] \in 0 .. Capacity - 1
                                   /\ s[2] \in 1 .. Len(ht.buckets[s[1]])
                                   /\ At(ht, s) \in Entry
           /\ \A b \in 0 .. Capacity - 1 : \A i \in 1 .. Len(ht.buckets[b]) :
                  /\ <<b, i>> \in Slots(ht)
                  /\ At(ht, <<b, i>>) = ht.buckets[b][i]
<1>1. \A b \in 0 .. Capacity - 1 : ht.buckets[b] \in Seq(Entry)
  BY DEF Table
<1>2. \A b \in 0 .. Capacity - 1 : DOMAIN ht.buckets[b] = 1 .. Len(ht.buckets[b])
  BY <1>1
<1> QED
  BY <1>1, <1>2 DEF Slots, At

(* The walk of ht_put, ht_get and ht_delete ends at the slot of the key. *)
LEMMA WalkFinds ==
    ASSUME NEW ht, Good(ht), NEW s \in Slots(ht)
    PROVE  LET key == At(ht, s).key
           IN  /\ key \in Keys
               /\ s = <<BucketOf(key), Position(Chain(ht, key), key)>>
               /\ Holds(Chain(ht, key), key)
               /\ Lookup(ht, key) = At(ht, s).value
<1> DEFINE key == At(ht, s).key
           chain == Chain(ht, key)
<1>1. /\ ht \in Table
      /\ key \in Keys
      /\ s[1] = BucketOf(key)
  BY SlotsAre DEF Good, Placed, Entry
<1>2. /\ chain = ht.buckets[s[1]]
      /\ chain \in Seq(Entry)
      /\ s[2] \in DOMAIN chain
      /\ chain[s[2]] = At(ht, s)
  <2>1. chain = ht.buckets[s[1]]
    BY <1>1 DEF Chain
  <2>2. s[1] \in 0 .. Capacity - 1 /\ s[2] \in 1 .. Len(ht.buckets[s[1]])
    BY <1>1, SlotsAre
  <2>3. ht.buckets[s[1]] \in Seq(Entry)
    BY <1>1, <2>2 DEF Table
  <2> QED
    BY <2>1, <2>2, <2>3 DEF At
<1>3. \A j \in DOMAIN chain : chain[j].key = key => j = s[2]
  <2> SUFFICES ASSUME NEW j \in DOMAIN chain, chain[j].key = key
               PROVE  j = s[2]
    OBVIOUS
  <2>1. <<s[1], j>> \in Slots(ht) /\ At(ht, <<s[1], j>>) = chain[j]
    BY <1>1, <1>2, SlotsAre
  <2> QED
    BY <2>1 DEF Good, Unique
<1>4. Position(chain, key) = s[2]
  <2> DEFINE P(i) == /\ chain[i].key = key
                     /\ \A j \in 1 .. i - 1 : chain[j].key # key
  <2>1. DOMAIN chain = 1 .. Len(chain) /\ s[2] \in Nat
    BY <1>2
  <2>2. P(s[2])
    <3> SUFFICES ASSUME NEW j \in 1 .. s[2] - 1
                 PROVE  chain[j].key # key
      BY <1>2
    <3>1. j \in DOMAIN chain /\ j # s[2]
      BY <2>1, <1>2
    <3> QED
      BY <3>1, <1>3
  <2>3. \A i \in DOMAIN chain : P(i) => i = s[2]
    BY <1>3
  <2> HIDE DEF chain, key
  <2> QED
    BY <1>2, <2>2, <2>3 DEF Position
<1>5. Holds(chain, key)
  BY <1>2 DEF Holds
<1> QED
  BY <1>1, <1>2, <1>4, <1>5, SlotsAre DEF Lookup

(* A key that the walk finds has a slot. *)
LEMMA HeldHasSlot ==
    ASSUME NEW ht \in Table, NEW key \in Keys, Holds(Chain(ht, key), key)
    PROVE  \E s \in Slots(ht) : At(ht, s).key = key
<1> DEFINE chain == ht.buckets[BucketOf(key)]
<1>1. PICK i \in DOMAIN chain : chain[i].key = key
  BY DEF Holds, Chain
<1>2. BucketOf(key) \in 0 .. Capacity - 1 /\ chain \in Seq(Entry)
  BY BucketInRange DEF Table
<1>3. i \in 1 .. Len(chain)
  BY <1>2
<1>4. <<BucketOf(key), i>> \in Slots(ht) /\ At(ht, <<BucketOf(key), i>>) = chain[i]
  BY <1>2, <1>3, SlotsAre
<1> QED
  BY <1>1, <1>4

-----------------------------------------------------------------------------
(* A new table has no slot, and its size says so (hashtable.c:17-19). *)
THEOREM EmptyTableIsEmpty ==
    /\ Good(EmptyTable)
    /\ Slots(EmptyTable) = {}
    /\ EmptyTable.size = 0
<1>1. EmptyTable \in Table
  BY CapacityAssumption DEF EmptyTable, Table
<1>2. \A b \in 0 .. Capacity - 1 : Len(EmptyTable.buckets[b]) = 0
  BY DEF EmptyTable
<1>3. Slots(EmptyTable) = {}
  BY <1>1, <1>2, SlotsAre
<1> QED
  BY <1>1, <1>3 DEF Good, Placed, Unique, EmptyTable

(* ht_put on a present key changes the value in one slot, and nothing else *)
(* (hashtable.c:83-90).                                                    *)
LEMMA ReplacedSlots ==
    ASSUME NEW ht, Good(ht), NEW key \in Keys, NEW v \in Values,
           NEW s \in Slots(ht), At(ht, s).key = key
    PROVE  LET new == Replaced(ht, key, v)
           IN  /\ new \in Table
               /\ new.size = ht.size
               /\ Slots(new) = Slots(ht)
               /\ \A t \in Slots(ht) : At(new, t) =
                      IF t = s THEN [key |-> key, value |-> v] ELSE At(ht, t)
<1> DEFINE new == Replaced(ht, key, v)
           b == BucketOf(key)
           i == Position(Chain(ht, key), key)
           chain == ht.buckets[b]
           chain2 == [chain EXCEPT ![i].value = v]
<1>1. ht \in Table /\ s = <<b, i>>
  BY WalkFinds DEF Good
<1>2. /\ b \in 0 .. Capacity - 1
      /\ i \in 1 .. Len(chain)
      /\ At(ht, s) = chain[i]
  BY <1>1, SlotsAre DEF At
<1>3. chain \in Seq(Entry)
  BY <1>1, <1>2 DEF Table
<1>4. /\ chain2 \in Seq(Entry)
      /\ Len(chain2) = Len(chain)
      /\ \A j \in 1 .. Len(chain) : chain2[j] =
             IF j = i THEN [key |-> key, value |-> v] ELSE chain[j]
  <2>1. chain[i] \in Entry /\ chain[i].key = key
    BY <1>2, <1>3
  <2>2. [chain[i] EXCEPT !.value = v] = [key |-> key, value |-> v]
    BY <2>1 DEF Entry
  <2>3. [key |-> key, value |-> v] \in Entry
    BY DEF Entry
  <2> HIDE DEF i, chain
  <2> QED
    BY <1>2, <1>3, <2>2, <2>3
<1>5. /\ new.buckets = [ht.buckets EXCEPT ![b] = chain2]
      /\ new.size = ht.size
      /\ new = [size |-> ht.size, buckets |-> new.buckets]
  BY <1>1 DEF Replaced, Chain, WithChain, Table
<1>6. new \in Table
  <2> HIDE DEF chain2, new, b
  <2> QED
    BY <1>1, <1>2, <1>4, <1>5 DEF Table
<1>7. \A c \in 0 .. Capacity - 1 : new.buckets[c] = IF c = b THEN chain2 ELSE ht.buckets[c]
  BY <1>1, <1>5 DEF Table
<1>8. Slots(new) = Slots(ht)
  <2> HIDE DEF chain2, new, b, i
  <2>1. \A c \in 0 .. Capacity - 1 : DOMAIN new.buckets[c] = DOMAIN ht.buckets[c]
    BY <1>1, <1>3, <1>4, <1>7
  <2> QED
    BY <2>1 DEF Slots
<1>9. ASSUME NEW t \in Slots(ht)
      PROVE  At(new, t) = IF t = s THEN [key |-> key, value |-> v] ELSE At(ht, t)
  <2>1. /\ t = <<t[1], t[2]>>
        /\ t[1] \in 0 .. Capacity - 1
        /\ t[2] \in 1 .. Len(ht.buckets[t[1]])
    BY <1>1, SlotsAre
  <2> HIDE DEF chain2, new, b, i
  <2> QED
    BY <1>1, <1>2, <1>4, <1>7, <2>1 DEF At
<1> QED
  BY <1>5, <1>6, <1>8, <1>9

(* The place that the last entry of a chain moves to. *)
NewSlot(ht, key) == <<BucketOf(key), Len(ht.buckets[BucketOf(key)]) + 1>>

(* ht_put on a new key adds one entry in front of its bucket's chain,      *)
(* whose other entries move one place down (hashtable.c:104-107).          *)
LEMMA InsertedSlots ==
    ASSUME NEW ht \in Table, NEW key \in Keys, NEW v \in Values
    PROVE  LET new == Inserted(ht, key, v)
               b == BucketOf(key)
           IN  /\ new \in Table
               /\ new.size = ht.size + 1
               /\ Slots(new) = Slots(ht) \cup {NewSlot(ht, key)}
               /\ NewSlot(ht, key) \notin Slots(ht)
               /\ <<b, 1>> \in Slots(new)
               /\ At(new, <<b, 1>>) = [key |-> key, value |-> v]
               /\ \A t \in Slots(new) : t # <<b, 1>> =>
                      LET u == IF t[1] = b THEN <<b, t[2] - 1>> ELSE t
                      IN  u \in Slots(ht) /\ At(new, t) = At(ht, u)
               /\ \A u \in Slots(ht) :
                      LET t == IF u[1] = b THEN <<b, u[2] + 1>> ELSE u
                      IN  t \in Slots(new) /\ At(new, t) = At(ht, u)
<1> DEFINE new == Inserted(ht, key, v)
           b == BucketOf(key)
           e == [key |-> key, value |-> v]
           chain == ht.buckets[b]
           chain2 == <<e>> \o chain
           n == Len(chain)
<1>1. b \in 0 .. Capacity - 1 /\ chain \in Seq(Entry) /\ n \in Nat
  <2>1. b \in 0 .. Capacity - 1
    BY BucketInRange
  <2> HIDE DEF b
  <2>2. chain \in Seq(Entry)
    BY <2>1 DEF Table
  <2> QED
    BY <2>1, <2>2
<1>2. /\ chain2 \in Seq(Entry)
      /\ Len(chain2) = n + 1
      /\ chain2[1] = e
      /\ \A j \in 1 .. n : chain2[j + 1] = chain[j]
  <2>1. e \in Entry
    BY DEF Entry
  <2> HIDE DEF e, chain
  <2> QED
    BY <1>1, <2>1
<1>3. /\ new = [size |-> ht.size + 1, buckets |-> [ht.buckets EXCEPT ![b] = chain2]]
      /\ new.size = ht.size + 1
  BY DEF Inserted, Chain, WithChain
<1>4. new \in Table
  <2> HIDE DEF chain2, new, b
  <2> QED
    BY <1>1, <1>2, <1>3 DEF Table
<1>5. \A c \in 0 .. Capacity - 1 : new.buckets[c] = IF c = b THEN chain2 ELSE ht.buckets[c]
  <2>1. ht.buckets \in [0 .. Capacity - 1 -> Seq(Entry)]
    BY DEF Table
  <2>2. new.buckets = [ht.buckets EXCEPT ![b] = chain2]
    BY <1>3
  <2> HIDE DEF chain2, new, b
  <2> QED
    BY <2>1, <2>2
<1> HIDE DEF chain2, new, b, e
<1>6. \A c \in 0 .. Capacity - 1 : ht.buckets[c] \in Seq(Entry)
  BY DEF Table
<1>7. \A t : t \in Slots(ht) <=> /\ t = <<t[1], t[2]>>
                                 /\ t[1] \in 0 .. Capacity - 1
                                 /\ t[2] \in 1 .. Len(ht.buckets[t[1]])
  BY SlotsAre
<1>8. \A t : t \in Slots(new) <=> /\ t = <<t[1], t[2]>>
                                  /\ t[1] \in 0 .. Capacity - 1
                                  /\ t[2] \in 1 .. Len(new.buckets[t[1]])
  BY <1>4, SlotsAre
<1>9. /\ Slots(new) = Slots(ht) \cup {NewSlot(ht, key)}
      /\ NewSlot(ht, key) \notin Slots(ht)
  <2>0. NewSlot(ht, key) = <<b, n + 1>>
    BY DEF NewSlot, b
  <2>1. <<b, n + 1>> \notin Slots(ht)
    BY <1>1, <1>7
  <2>2. ASSUME NEW t \in Slots(new)
        PROVE  t \in Slots(ht) \cup {<<b, n + 1>>}
    BY <1>1, <1>2, <1>5, <1>7, <1>8
  <2>3. ASSUME NEW t \in Slots(ht) \cup {<<b, n + 1>>}
        PROVE  t \in Slots(new)
    BY <1>1, <1>2, <1>5, <1>7, <1>8
  <2> QED
    BY <2>0, <2>1, <2>2, <2>3
<1>10. <<b, 1>> \in Slots(new) /\ At(new, <<b, 1>>) = e
  BY <1>1, <1>2, <1>5, <1>8 DEF At
<1>11. ASSUME NEW t \in Slots(new), t # <<b, 1>>
       PROVE  LET u == IF t[1] = b THEN <<b, t[2] - 1>> ELSE t
              IN  u \in Slots(ht) /\ At(new, t) = At(ht, u)
  <2>1. CASE t[1] = b
    <3>1. t[2] \in 2 .. n + 1
      BY <1>1, <1>2, <1>5, <1>8, <1>11, <2>1
    <3>2. t[2] - 1 \in 1 .. n /\ (t[2] - 1) + 1 = t[2]
      <4> HIDE DEF chain
      <4> QED
        BY <1>1, <3>1
    <3>3. chain2[t[2]] = chain[t[2] - 1]
      BY <1>2, <3>2
    <3> QED
      BY <1>1, <1>5, <1>7, <1>8, <2>1, <3>1, <3>2, <3>3 DEF At
  <2>2. CASE t[1] # b
    BY <1>5, <1>7, <1>8, <2>2 DEF At
  <2> QED
    BY <2>1, <2>2
<1>12. ASSUME NEW u \in Slots(ht)
       PROVE  LET t == IF u[1] = b THEN <<b, u[2] + 1>> ELSE u
              IN  t \in Slots(new) /\ At(new, t) = At(ht, u)
  <2>1. CASE u[1] = b
    BY <1>1, <1>2, <1>5, <1>7, <1>8, <2>1 DEF At
  <2>2. CASE u[1] # b
    BY <1>5, <1>7, <1>8, <2>2 DEF At
  <2> QED
    BY <2>1, <2>2
<1> QED
  BY <1>3, <1>4, <1>9, <1>10, <1>11, <1>12 DEF b, e, new

(* ht_delete takes one entry out, and those behind it in its chain move    *)
(* one place up (hashtable.c:139-149).                                     *)
LEMMA DeletedSlots ==
    ASSUME NEW ht, Good(ht), NEW s \in Slots(ht), ht.size \in Nat \ {0}
    PROVE  LET new == Deleted(ht, At(ht, s).key)
               last == <<s[1], Len(ht.buckets[s[1]])>>
               Old(t) == IF t[1] = s[1] /\ t[2] >= s[2] THEN <<t[1], t[2] + 1>> ELSE t
               New(u) == IF u[1] = s[1] /\ u[2] > s[2] THEN <<u[1], u[2] - 1>> ELSE u
           IN  /\ new \in Table
               /\ new.size = ht.size - 1
               /\ Slots(new) = Slots(ht) \ {last}
               /\ last \in Slots(ht)
               /\ \A t \in Slots(new) : /\ Old(t) \in Slots(ht) \ {s}
                                        /\ At(new, t) = At(ht, Old(t))
               /\ \A u \in Slots(ht) \ {s} : /\ New(u) \in Slots(new)
                                             /\ At(new, New(u)) = At(ht, u)
<1> DEFINE key == At(ht, s).key
           new == Deleted(ht, key)
           b == s[1]
           i == s[2]
           chain == ht.buckets[b]
           chain2 == Unlinked(chain, i)
           n == Len(chain)
<1>1. /\ ht \in Table
      /\ key \in Keys
      /\ s = <<BucketOf(key), Position(Chain(ht, key), key)>>
  BY WalkFinds DEF Good
<1>2. /\ b \in 0 .. Capacity - 1
      /\ i \in 1 .. n
      /\ s = <<b, i>>
      /\ b = BucketOf(key)
      /\ i = Position(Chain(ht, key), key)
      /\ Chain(ht, key) = chain
  BY <1>1, SlotsAre DEF Chain
<1>3. \A c \in 0 .. Capacity - 1 : ht.buckets[c] \in Seq(Entry)
  BY <1>1 DEF Table
<1>4. chain \in Seq(Entry) /\ n \in Nat
  BY <1>2, <1>3
<1>5. /\ chain2 \in Seq(Entry)
      /\ Len(chain2) = n - 1
      /\ \A j \in 1 .. n - 1 : chain2[j] = IF j < i THEN chain[j] ELSE chain[j + 1]
  <2> HIDE DEF chain, i
  <2>1. \A j \in 1 .. n - 1 : j \in 1 .. n /\ j + 1 \in 1 .. n
    BY <1>4
  <2>2. \A j \in 1 .. n - 1 : chain[j] \in Entry /\ chain[j + 1] \in Entry
    BY <1>4, <2>1
  <2>3. n - 1 \in Nat
    BY <1>2, <1>4
  <2> QED
    BY <2>2, <2>3 DEF Unlinked
<1>6. /\ new = [size |-> ht.size - 1, buckets |-> [ht.buckets EXCEPT ![b] = chain2]]
      /\ new.size = ht.size - 1
  BY <1>2 DEF Deleted, WithChain
<1> HIDE DEF chain2, new, b, i, key
<1>7. new \in Table
  BY <1>1, <1>2, <1>5, <1>6 DEF Table
<1>8. \A c \in 0 .. Capacity - 1 : new.buckets[c] = IF c = b THEN chain2 ELSE ht.buckets[c]
  BY <1>1, <1>6 DEF Table
<1>9. \A t : t \in Slots(ht) <=> /\ t = <<t[1], t[2]>>
                                 /\ t[1] \in 0 .. Capacity - 1
                                 /\ t[2] \in 1 .. Len(ht.buckets[t[1]])
  BY <1>1, SlotsAre
<1>10. \A t : t \in Slots(new) <=> /\ t = <<t[1], t[2]>>
                                   /\ t[1] \in 0 .. Capacity - 1
                                   /\ t[2] \in 1 .. Len(new.buckets[t[1]])
  BY <1>7, SlotsAre
<1>11. Slots(new) = Slots(ht) \ {<<b, n>>} /\ <<b, n>> \in Slots(ht)
  <2>1. <<b, n>> \in Slots(ht)
    BY <1>2, <1>4, <1>9
  <2>2. \A t : t \in Slots(new) <=> t \in Slots(ht) /\ t # <<b, n>>
    <3>1. \A c \in 0 .. Capacity - 1 : Len(ht.buckets[c]) \in Nat
      BY <1>3
    <3>2. \A c \in 0 .. Capacity - 1 :
             Len(new.buckets[c]) = IF c = b THEN n - 1 ELSE Len(ht.buckets[c])
      BY <1>5, <1>8
    <3> SUFFICES ASSUME NEW t
                 PROVE  t \in Slots(new) <=> t \in Slots(ht) /\ t # <<b, n>>
      OBVIOUS
    <3>3. CASE t = <<b, t[2]>>
      <4>1. t[1] = b
        BY <3>3
      <4>2. t \in Slots(new) <=> t[2] \in 1 .. n - 1
        BY <1>2, <1>10, <3>2, <3>3, <4>1
      <4>3. t \in Slots(ht) <=> t[2] \in 1 .. n
        BY <1>2, <1>9, <3>3, <4>1
      <4>4. t # <<b, n>> <=> t[2] # n
        BY <3>3
      <4>5. t[2] \in 1 .. n - 1 <=> t[2] \in 1 .. n /\ t[2] # n
        BY <1>4
      <4> QED
        BY <4>2, <4>3, <4>4, <4>5
    <3>4. CASE t # <<b, t[2]>>
      <4>1. t # <<b, n>>
        BY <3>4
      <4>2. t = <<t[1], t[2]>> => t[1] # b
        BY <3>4
      <4>3. t = <<t[1], t[2]>> /\ t[1] \in 0 .. Capacity - 1 =>
               Len(new.buckets[t[1]]) = Len(ht.buckets[t[1]])
        BY <3>2, <4>2
      <4> QED
        BY <1>9, <1>10, <4>1, <4>3
    <3> QED
      BY <3>3, <3>4
  <2> QED
    BY <2>1, <2>2
<1>12. ASSUME NEW t \in Slots(new)
       PROVE  LET u == IF t[1] = b /\ t[2] >= i THEN <<t[1], t[2] + 1>> ELSE t
              IN  u \in Slots(ht) \ {s} /\ At(new, t) = At(ht, u)
  <2>1. CASE t[1] # b
    BY <1>2, <1>8, <1>9, <1>10, <2>1 DEF At
  <2>2. CASE t[1] = b
    <3>1. t = <<b, t[2]>> /\ t[2] \in 1 .. n - 1
      BY <1>2, <1>5, <1>8, <1>10, <2>2
    <3>2. CASE t[2] >= i
      <4>1. t[2] + 1 \in 1 .. n /\ t[2] + 1 # i /\ ~(t[2] < i)
        BY <1>2, <1>4, <3>1, <3>2
      <4> QED
        BY <1>2, <1>4, <1>5, <1>8, <1>9, <2>2, <3>1, <3>2, <4>1 DEF At
    <3>3. CASE t[2] < i
      <4>1. t[2] \in 1 .. n /\ t[2] # i /\ ~(t[2] >= i)
        BY <1>2, <1>4, <3>1, <3>3
      <4>2. t \in Slots(ht) \ {s}
        BY <1>2, <1>9, <2>2, <3>1, <4>1
      <4>3. At(new, t) = chain2[t[2]] /\ At(ht, t) = chain[t[2]]
        BY <1>2, <1>8, <2>2 DEF At
      <4>4. chain2[t[2]] = chain[t[2]]
        BY <1>5, <3>1, <3>3
      <4> QED
        BY <4>1, <4>2, <4>3, <4>4
    <3>4. t[2] >= i \/ t[2] < i
      BY <1>2, <1>4, <3>1
    <3> QED
      BY <3>2, <3>3, <3>4
  <2> QED
    BY <2>1, <2>2
<1>13. ASSUME NEW u \in Slots(ht) \ {s}
       PROVE  LET t == IF u[1] = b /\ u[2] > i THEN <<u[1], u[2] - 1>> ELSE u
              IN  t \in Slots(new) /\ At(new, t) = At(ht, u)
  <2>1. CASE u[1] # b
    BY <1>2, <1>8, <1>9, <1>10, <2>1 DEF At
  <2>2. CASE u[1] = b
    <3>1. u = <<b, u[2]>> /\ u[2] \in 1 .. n /\ u[2] # i
      BY <1>2, <1>9, <2>2
    <3>2. CASE u[2] > i
      <4>1. u[2] - 1 \in 1 .. n - 1 /\ ~(u[2] - 1 < i) /\ (u[2] - 1) + 1 = u[2]
        BY <1>2, <1>4, <3>1, <3>2
      <4> QED
        BY <1>2, <1>4, <1>5, <1>8, <1>10, <2>2, <3>1, <3>2, <4>1 DEF At
    <3>3. CASE u[2] < i
      <4>1. u[2] \in 1 .. n - 1 /\ ~(u[2] > i)
        BY <1>2, <1>4, <3>1, <3>3
      <4> QED
        BY <1>2, <1>4, <1>5, <1>8, <1>10, <2>2, <3>1, <3>3, <4>1 DEF At
    <3> QED
      BY <1>2, <1>4, <3>1, <3>2, <3>3
  <2> QED
    BY <2>1, <2>2
<1> QED
  BY <1>6, <1>7, <1>11, <1>12, <1>13 DEF b, i, key, new

-----------------------------------------------------------------------------
(* A table in good order read as a map: its keys are those in its slots,   *)
(* and a key's value is the one beside it.                                 *)
LEMMA MapReads ==
    ASSUME NEW ht, Good(ht)
    PROVE  /\ \A s \in Slots(ht) : /\ At(ht, s).key \in KeysOf(ht)
                                   /\ At(ht, s).value \in Values
                                   /\ Lookup(ht, At(ht, s).key) = At(ht, s).value
           /\ \A k \in KeysOf(ht) : \E s \in Slots(ht) : At(ht, s).key = k
<1>1. ht \in Table
  BY DEF Good
<1>2. ASSUME NEW s \in Slots(ht)
      PROVE  /\ At(ht, s).key \in KeysOf(ht)
             /\ At(ht, s).value \in Values
             /\ Lookup(ht, At(ht, s).key) = At(ht, s).value
  <2>1. At(ht, s) \in Entry
    BY <1>1, SlotsAre
  <2> QED
    BY <2>1, WalkFinds DEF KeysOf, Entry
<1>3. ASSUME NEW k \in KeysOf(ht)
      PROVE  \E s \in Slots(ht) : At(ht, s).key = k
  BY <1>1, HeldHasSlot DEF KeysOf
<1> QED
  BY <1>2, <1>3

(* A fresh table maps nothing. *)
THEOREM EmptyTableMapsNothing ==
    KeysOf(EmptyTable) = {}
BY EmptyTableIsEmpty, MapReads

(* ht_put on a present key: the map changes at that key only, whatever the *)
(* hash puts beside it (hashtable.c:83-90).                                *)
THEOREM PutOverwrites ==
    ASSUME NEW ht, Good(ht), NEW key \in KeysOf(ht), NEW v \in Values
    PROVE  LET new == Replaced(ht, key, v)
           IN  /\ Good(new)
               /\ new.size = ht.size
               /\ KeysOf(new) = KeysOf(ht)
               /\ \A k \in KeysOf(ht) :
                      Lookup(new, k) = IF k = key THEN v ELSE Lookup(ht, k)
<1> DEFINE new == Replaced(ht, key, v)
<1>1. PICK s \in Slots(ht) : At(ht, s).key = key
  BY MapReads
<1>2. key \in Keys
  BY DEF KeysOf
<1>3. /\ new \in Table
      /\ new.size = ht.size
      /\ Slots(new) = Slots(ht)
      /\ \A t \in Slots(ht) : At(new, t) =
             IF t = s THEN [key |-> key, value |-> v] ELSE At(ht, t)
  BY <1>1, <1>2, ReplacedSlots
<1> HIDE DEF new
<1>4. \A t \in Slots(ht) : At(new, t).key = At(ht, t).key
  BY <1>1, <1>3
<1>5. Good(new)
  BY <1>3, <1>4 DEF Good, Placed, Unique
<1>6. KeysOf(new) = KeysOf(ht)
  <2>1. \A k \in KeysOf(new) : k \in KeysOf(ht)
    BY <1>3, <1>4, <1>5, MapReads
  <2>2. \A k \in KeysOf(ht) : k \in KeysOf(new)
    BY <1>3, <1>4, <1>5, MapReads
  <2> QED
    BY <2>1, <2>2
<1>7. ASSUME NEW k \in KeysOf(ht)
      PROVE  Lookup(new, k) = IF k = key THEN v ELSE Lookup(ht, k)
  <2>1. PICK t \in Slots(ht) : At(ht, t).key = k
    BY MapReads
  <2>2. Lookup(ht, k) = At(ht, t).value /\ Lookup(new, k) = At(new, t).value
    BY <1>3, <1>4, <1>5, <2>1, MapReads
  <2>3. t = s <=> k = key
    BY <1>1, <2>1 DEF Good, Unique
  <2> QED
    BY <1>3, <2>2, <2>3
<1> QED
  BY <1>3, <1>5, <1>6, <1>7 DEF new

(* ht_put on an absent key: the key is added and no other binding moves    *)
(* (hashtable.c:95-108).                                                   *)
THEOREM PutAdds ==
    ASSUME NEW ht, Good(ht), NEW key \in Keys \ KeysOf(ht), NEW v \in Values
    PROVE  LET new == Inserted(ht, key, v)
           IN  /\ Good(new)
               /\ new.size = ht.size + 1
               /\ KeysOf(new) = KeysOf(ht) \cup {key}
               /\ Lookup(new, key) = v
               /\ \A k \in KeysOf(ht) : Lookup(new, k) = Lookup(ht, k)
<1> DEFINE new == Inserted(ht, key, v)
           b == BucketOf(key)
           Old(t) == IF t[1] = b THEN <<b, t[2] - 1>> ELSE t
           New(u) == IF u[1] = b THEN <<b, u[2] + 1>> ELSE u
<1>1. ht \in Table
  BY DEF Good
<1>2. /\ new \in Table
      /\ new.size = ht.size + 1
      /\ <<b, 1>> \in Slots(new)
      /\ At(new, <<b, 1>>) = [key |-> key, value |-> v]
      /\ \A t \in Slots(new) : t # <<b, 1>> =>
             Old(t) \in Slots(ht) /\ At(new, t) = At(ht, Old(t))
      /\ \A u \in Slots(ht) : New(u) \in Slots(new) /\ At(new, New(u)) = At(ht, u)
  BY <1>1, InsertedSlots
<1> HIDE DEF new
<1>3. \A u \in Slots(ht) : At(ht, u).key # key
  BY MapReads
<1>4. \A t \in Slots(new) : t = <<t[1], t[2]>> /\ t[2] \in Int
  <2>1. \A t \in Slots(new) : t = <<t[1], t[2]>> /\ t[2] \in 1 .. Len(new.buckets[t[1]])
    BY <1>2, SlotsAre
  <2> QED
    BY <2>1
<1>5. Placed(new)
  <2> SUFFICES ASSUME NEW t \in Slots(new)
               PROVE  t[1] = BucketOf(At(new, t).key)
    BY DEF Placed
  <2>1. CASE t = <<b, 1>>
    BY <1>2, <2>1
  <2>2. CASE t # <<b, 1>>
    <3>1. Old(t) \in Slots(ht) /\ At(new, t) = At(ht, Old(t)) /\ Old(t)[1] = t[1]
      BY <1>2, <2>2
    <3> QED
      BY <3>1 DEF Good, Placed
  <2> QED
    BY <2>1, <2>2
<1>6. Unique(new)
  <2> SUFFICES ASSUME NEW t \in Slots(new), NEW u \in Slots(new),
                      At(new, t).key = At(new, u).key
               PROVE  t = u
    BY DEF Unique
  <2>1. CASE t = <<b, 1>> \/ u = <<b, 1>>
    <3>1. At(new, t).key = key /\ At(new, u).key = key
      BY <1>2, <2>1
    <3> QED
      BY <1>2, <1>3, <3>1
  <2>2. CASE t # <<b, 1>> /\ u # <<b, 1>>
    <3>1. /\ Old(t) \in Slots(ht) /\ At(ht, Old(t)).key = At(new, t).key
          /\ Old(u) \in Slots(ht) /\ At(ht, Old(u)).key = At(new, u).key
      BY <1>2, <2>2
    <3>2. Old(t) = Old(u)
      BY <3>1 DEF Good, Unique
    <3> QED
      BY <1>4, <3>2
  <2> QED
    BY <2>1, <2>2
<1>7. Good(new)
  BY <1>2, <1>5, <1>6 DEF Good
<1>8. KeysOf(new) = KeysOf(ht) \cup {key}
  <2>1. ASSUME NEW k \in KeysOf(new)
        PROVE  k \in KeysOf(ht) \cup {key}
    <3>1. PICK t \in Slots(new) : At(new, t).key = k
      BY <1>7, MapReads
    <3>2. CASE t = <<b, 1>>
      BY <1>2, <3>1, <3>2
    <3>3. CASE t # <<b, 1>>
      <4>1. Old(t) \in Slots(ht) /\ At(new, t) = At(ht, Old(t))
        BY <1>2, <3>3
      <4>2. k = At(ht, Old(t)).key
        BY <3>1, <4>1
      <4> HIDE DEF Old
      <4> QED
        BY <4>1, <4>2, MapReads
    <3> QED
      BY <3>2, <3>3
  <2>2. ASSUME NEW k \in KeysOf(ht)
        PROVE  k \in KeysOf(new)
    <3>1. PICK u \in Slots(ht) : At(ht, u).key = k
      BY MapReads
    <3> HIDE DEF New
    <3> QED
      BY <1>2, <1>7, <3>1, MapReads
  <2>3. key \in KeysOf(new)
    BY <1>2, <1>7, MapReads
  <2> QED
    BY <2>1, <2>2, <2>3
<1>9. Lookup(new, key) = v
  BY <1>2, <1>7, MapReads
<1>10. ASSUME NEW k \in KeysOf(ht)
       PROVE  Lookup(new, k) = Lookup(ht, k)
  <2>1. PICK u \in Slots(ht) : At(ht, u).key = k
    BY MapReads
  <2> HIDE DEF New
  <2>2. New(u) \in Slots(new) /\ At(new, New(u)) = At(ht, u)
    BY <1>2
  <2> QED
    BY <1>7, <2>1, <2>2, MapReads
<1> QED
  BY <1>2, <1>7, <1>8, <1>9, <1>10 DEF new

(* ht_delete of a present key: that binding is gone, the others stay, also *)
(* those behind it in the same chain (hashtable.c:137-150).                *)
THEOREM DeleteRemoves ==
    ASSUME NEW ht, Good(ht), NEW key \in KeysOf(ht), ht.size \in Nat \ {0}
    PROVE  LET new == Deleted(ht, key)
           IN  /\ Good(new)
               /\ new.size = ht.size - 1
               /\ KeysOf(new) = KeysOf(ht) \ {key}
               /\ \A k \in KeysOf(new) : Lookup(new, k) = Lookup(ht, k)
<1>1. PICK s \in Slots(ht) : At(ht, s).key = key
  BY MapReads
<1> DEFINE new == Deleted(ht, key)
           Old(t) == IF t[1] = s[1] /\ t[2] >= s[2] THEN <<t[1], t[2] + 1>> ELSE t
           New(u) == IF u[1] = s[1] /\ u[2] > s[2] THEN <<u[1], u[2] - 1>> ELSE u
<1>2. ht \in Table
  BY DEF Good
<1>3. /\ new \in Table
      /\ new.size = ht.size - 1
      /\ \A t \in Slots(new) : /\ Old(t) \in Slots(ht) \ {s}
                               /\ At(new, t) = At(ht, Old(t))
      /\ \A u \in Slots(ht) \ {s} : /\ New(u) \in Slots(new)
                                    /\ At(new, New(u)) = At(ht, u)
  <2> DEFINE n == Deleted(ht, At(ht, s).key)
  <2>1. /\ n \in Table
        /\ n.size = ht.size - 1
        /\ \A t \in Slots(n) : /\ Old(t) \in Slots(ht) \ {s}
                               /\ At(n, t) = At(ht, Old(t))
        /\ \A u \in Slots(ht) \ {s} : /\ New(u) \in Slots(n)
                                      /\ At(n, New(u)) = At(ht, u)
    BY DeletedSlots
  <2>2. n = new
    BY <1>1
  <2> HIDE DEF n, new, Old, New
  <2> QED
    BY <2>1, <2>2
<1> HIDE DEF new
<1>4. /\ \A t \in Slots(new) : t = <<t[1], t[2]>> /\ t[2] \in Int
      /\ s[2] \in Int
  <2>1. \A t \in Slots(new) : t = <<t[1], t[2]>> /\ t[2] \in 1 .. Len(new.buckets[t[1]])
    BY <1>3, SlotsAre
  <2>2. s[2] \in 1 .. Len(ht.buckets[s[1]])
    BY <1>2, SlotsAre
  <2> QED
    BY <2>1, <2>2
<1>5. \A u \in Slots(ht) : At(ht, u).key = key <=> u = s
  BY <1>1 DEF Good, Unique
<1>6. Placed(new)
  <2> SUFFICES ASSUME NEW t \in Slots(new)
               PROVE  t[1] = BucketOf(At(new, t).key)
    BY DEF Placed
  <2>1. Old(t) \in Slots(ht) /\ At(new, t) = At(ht, Old(t)) /\ Old(t)[1] = t[1]
    BY <1>3
  <2> QED
    BY <2>1 DEF Good, Placed
<1>7. Unique(new)
  <2> SUFFICES ASSUME NEW t \in Slots(new), NEW u \in Slots(new),
                      At(new, t).key = At(new, u).key
               PROVE  t = u
    BY DEF Unique
  <2>1. /\ Old(t) \in Slots(ht) /\ At(ht, Old(t)).key = At(new, t).key
        /\ Old(u) \in Slots(ht) /\ At(ht, Old(u)).key = At(new, u).key
    BY <1>3
  <2>2. Old(t) = Old(u)
    BY <2>1 DEF Good, Unique
  <2> QED
    BY <1>4, <2>2
<1>8. Good(new)
  BY <1>3, <1>6, <1>7 DEF Good
<1> HIDE DEF Old, New
<1>9. KeysOf(new) = KeysOf(ht) \ {key}
  <2>1. ASSUME NEW k \in KeysOf(new)
        PROVE  k \in KeysOf(ht) \ {key}
    <3>1. PICK t \in Slots(new) : At(new, t).key = k
      BY <1>8, MapReads
    <3> QED
      BY <1>3, <1>5, <3>1, MapReads
  <2>2. ASSUME NEW k \in KeysOf(ht) \ {key}
        PROVE  k \in KeysOf(new)
    <3>1. PICK u \in Slots(ht) : At(ht, u).key = k
      BY MapReads
    <3> QED
      BY <1>1, <1>3, <1>8, <3>1, MapReads
  <2> QED
    BY <2>1, <2>2
<1>10. ASSUME NEW k \in KeysOf(new)
       PROVE  Lookup(new, k) = Lookup(ht, k)
  <2>1. PICK t \in Slots(new) : At(new, t).key = k
    BY <1>8, MapReads
  <2>2. Lookup(new, k) = At(new, t).value
    BY <1>8, <2>1, MapReads
  <2>3. Lookup(ht, k) = At(ht, Old(t)).value
    BY <1>3, <2>1, MapReads
  <2> QED
    BY <1>3, <2>2, <2>3
<1> QED
  BY <1>3, <1>8, <1>9, <1>10 DEF new

-----------------------------------------------------------------------------
(* ht->size, which the code counts by hand, is the number of entries and   *)
(* the number of keys.                                                     *)
Counted(ht) == /\ Good(ht)
               /\ IsFiniteSet(Slots(ht)) /\ ht.size = Cardinality(Slots(ht))
               /\ IsFiniteSet(KeysOf(ht)) /\ ht.size = Cardinality(KeysOf(ht))

(* ht_init (hashtable.c:17). *)
THEOREM EmptyTableCounted ==
    Counted(EmptyTable)
BY EmptyTableIsEmpty, EmptyTableMapsNothing, FS_EmptySet DEF Counted

(* ht_put on a present key does not count (hashtable.c:89-90). *)
THEOREM ReplacedCounted ==
    ASSUME NEW ht, Counted(ht), NEW key \in KeysOf(ht), NEW v \in Values
    PROVE  Counted(Replaced(ht, key, v))
<1>1. Good(ht) /\ key \in Keys
  BY DEF Counted, KeysOf
<1>2. PICK s \in Slots(ht) : At(ht, s).key = key
  BY <1>1, MapReads
<1>3. Slots(Replaced(ht, key, v)) = Slots(ht)
  BY <1>1, <1>2, ReplacedSlots
<1> QED
  BY <1>1, <1>3, PutOverwrites DEF Counted

(* ht_put on a new key counts once (hashtable.c:107). *)
THEOREM InsertedCounted ==
    ASSUME NEW ht, Counted(ht), NEW key \in Keys \ KeysOf(ht), NEW v \in Values
    PROVE  /\ Counted(Inserted(ht, key, v))
           /\ Cardinality(Slots(Inserted(ht, key, v))) = Cardinality(Slots(ht)) + 1
<1> DEFINE new == Inserted(ht, key, v)
           x == NewSlot(ht, key)
<1>1. Good(ht) /\ ht \in Table /\ key \in Keys
  BY DEF Counted, Good
<1>2. Slots(new) = Slots(ht) \cup {x} /\ x \notin Slots(ht)
  BY <1>1, InsertedSlots
<1>3. Good(new) /\ new.size = ht.size + 1 /\ KeysOf(new) = KeysOf(ht) \cup {key}
  BY <1>1, PutAdds
<1> HIDE DEF new, x
<1>4. IsFiniteSet(Slots(new)) /\ Cardinality(Slots(new)) = Cardinality(Slots(ht)) + 1
  BY <1>2, FS_AddElement DEF Counted
<1>5. IsFiniteSet(KeysOf(new)) /\ Cardinality(KeysOf(new)) = Cardinality(KeysOf(ht)) + 1
  BY <1>3, FS_AddElement DEF Counted
<1> QED
  BY <1>3, <1>4, <1>5 DEF Counted, new

(* ht_delete of a present key counts once, and ht->size, an unsigned       *)
(* number, was not zero (hashtable.c:149).                                 *)
THEOREM DeletedCounted ==
    ASSUME NEW ht, Counted(ht), NEW key \in KeysOf(ht)
    PROVE  /\ ht.size > 0
           /\ Counted(Deleted(ht, key))
           /\ Cardinality(Slots(Deleted(ht, key))) = Cardinality(Slots(ht)) - 1
<1> DEFINE new == Deleted(ht, key)
<1>1. Good(ht)
  BY DEF Counted
<1>2. PICK s \in Slots(ht) : At(ht, s).key = key
  BY <1>1, MapReads
<1> DEFINE x == <<s[1], Len(ht.buckets[s[1]])>>
<1>3. ht.size \in Nat \ {0}
  BY FS_CardinalityType, FS_EmptySet DEF Counted
<1>4. Slots(new) = Slots(ht) \ {x} /\ x \in Slots(ht)
  BY <1>1, <1>2, <1>3, DeletedSlots
<1>5. Good(new) /\ new.size = ht.size - 1 /\ KeysOf(new) = KeysOf(ht) \ {key}
  BY <1>1, <1>3, DeleteRemoves
<1> HIDE DEF new, x
<1>6. IsFiniteSet(Slots(new)) /\ Cardinality(Slots(new)) = Cardinality(Slots(ht)) - 1
  BY <1>4, FS_RemoveElement DEF Counted
<1>7. IsFiniteSet(KeysOf(new)) /\ Cardinality(KeysOf(new)) = Cardinality(KeysOf(ht)) - 1
  BY <1>5, FS_RemoveElement DEF Counted
<1>8. ht.size = Cardinality(Slots(ht)) /\ ht.size = Cardinality(KeysOf(ht))
  BY DEF Counted
<1>9. Counted(new)
  BY <1>5, <1>6, <1>7, <1>8 DEF Counted
<1> QED
  BY <1>3, <1>6, <1>9 DEF new

-----------------------------------------------------------------------------
(* The driver and the heap of its values.                                  *)

(* The values of table ht are the allocated ones of heap h, one key each.  *)
Owns(ht, h) ==
    /\ \A k \in KeysOf(ht) : Lookup(ht, k) # NULL => h[Lookup(ht, k)] # Freed
    /\ \A a \in Addr : h[a] # Freed => \E k \in KeysOf(ht) : Lookup(ht, k) = a
    /\ \A j, k \in KeysOf(ht) :
           Lookup(ht, j) = Lookup(ht, k) /\ Lookup(ht, j) # NULL => j = k

Heaps == [Addr -> Contents \cup {Freed}]

(* The inductive invariant. *)
Inv ==
    /\ heap \in Heaps
    /\ verdict \in {"start", "pass", "mismatch", "refused", "oom"}
    /\ reading \in BOOLEAN
    /\ \/ /\ g_ht = NULL
          /\ \A a \in Addr : heap[a] = Freed
          /\ blocks = NoBlocks
       \/ /\ g_ht # NULL
          /\ Counted(g_ht)
          /\ Owns(g_ht, heap)
          /\ blocks = [entries |-> g_ht.size, keys |-> g_ht.size]

(* A table is not the null pointer. *)
LEMMA TableNotNull ==
    ASSUME NEW ht, Counted(ht)
    PROVE  ht # NULL /\ ht \in Table /\ ht.size \in Nat
BY NullAssumption DEF Counted, Good, Table

(* What a lookup finds is a value; NULL is not an address. *)
LEMMA LookupIsValue ==
    ASSUME NEW ht, Counted(ht), NEW k \in KeysOf(ht)
    PROVE  Lookup(ht, k) \in Values
<1>1. Good(ht)
  BY DEF Counted
<1>2. PICK s \in Slots(ht) : At(ht, s).key = k
  BY <1>1, MapReads
<1> QED
  BY <1>1, <1>2, MapReads

(* The two readings of ownership, by slots and by keys, agree. *)
LEMMA OwnsInSlots ==
    ASSUME NEW ht, Counted(ht), NEW h \in Heaps, Owns(ht, h)
    PROVE  /\ {a \in Addr : h[a] # Freed} = ValuesOf(ht) \ {NULL}
           /\ \A s, t \in Slots(ht) :
                  At(ht, s).value = At(ht, t).value /\ At(ht, s).value # NULL => s = t
<1>1. Good(ht)
  BY DEF Counted
<1>2. \A s \in Slots(ht) : /\ At(ht, s).key \in KeysOf(ht)
                           /\ At(ht, s).value \in Values
                           /\ Lookup(ht, At(ht, s).key) = At(ht, s).value
  BY <1>1, MapReads
<1>3. \A k \in KeysOf(ht) : \E s \in Slots(ht) :
          At(ht, s).key = k /\ At(ht, s).value = Lookup(ht, k)
  BY <1>1, MapReads
<1>4. \A a : a \in {b \in Addr : h[b] # Freed} <=> a \in ValuesOf(ht) \ {NULL}
  BY <1>2, <1>3, ValuesAssumption DEF Owns, ValuesOf
<1>5. ASSUME NEW s \in Slots(ht), NEW t \in Slots(ht),
             At(ht, s).value = At(ht, t).value, At(ht, s).value # NULL
      PROVE  s = t
  <2>1. At(ht, s).key = At(ht, t).key
    BY <1>2, <1>5 DEF Owns
  <2> QED
    BY <1>1, <2>1 DEF Good, Unique
<1> QED
  BY <1>4, <1>5

-----------------------------------------------------------------------------
(* The inductive invariant gives the invariants the runs check. *)
LEMMA InvGivesTypeOK == Inv => TypeOK
<1> SUFFICES ASSUME Inv PROVE TypeOK
  OBVIOUS
<1>1. g_ht \in Table \cup {NULL} /\ blocks \in [entries : Int, keys : Int]
  BY TableNotNull DEF Inv, NoBlocks
<1> QED
  BY <1>1 DEF Inv, TypeOK, Heaps

LEMMA InvGivesWellFormed == Inv => WellFormed
BY DEF Inv, WellFormed, Ready, Counted, Good, Placed, Unique

LEMMA InvGivesOwned == Inv => Owned
<1>1. CASE Inv /\ g_ht = NULL
  BY <1>1 DEF Inv, Owned, Ready
<1>2. CASE Inv /\ g_ht # NULL
  BY <1>2, OwnsInSlots DEF Inv, Owned, Ready
<1> QED
  BY <1>1, <1>2

LEMMA InvGivesBlocksExact == Inv => BlocksExact
BY DEF Inv, BlocksExact, Ready, NoBlocks, Counted

(* Initially there is no table and nothing is allocated. *)
LEMMA InitInv == Init => Inv
BY DEF Init, Inv, Heaps

-----------------------------------------------------------------------------
(* A value that parse_value makes: NULL, or a freshly allocated one. *)
Made(c, v, h) ==
    \/ c = Null /\ v = NULL /\ h = heap
    \/ c # Null /\ v \in Addr /\ heap[v] = Freed /\ h = [heap EXCEPT ![v] = c]

LEMMA ParsedMakes ==
    ASSUME NEW c \in Contents, NEW p \in Parsed(c)
    PROVE  Made(c, p[1], p[2])
BY DEF Parsed, Made

(* The invariant for a table that is there. *)
Holding == /\ heap \in Heaps
           /\ Counted(g_ht)
           /\ Owns(g_ht, heap)
           /\ blocks = [entries |-> g_ht.size, keys |-> g_ht.size]

(* ht_put over a present key frees the old value and owns the new one.     *)
LEMMA PutReplacesKeeps ==
    ASSUME Holding, NEW key \in Keys, NEW c \in Contents, NEW v, NEW h, Made(c, v, h),
           PutReplaces(key, v, h)
    PROVE  Holding'
<1> DEFINE old == Lookup(g_ht, key)
           new == Replaced(g_ht, key, v)
<1>1. key \in KeysOf(g_ht) /\ Good(g_ht) /\ v \in Values
  BY ValuesAssumption DEF PutReplaces, KeysOf, Holding, Counted, Made
<1>2. /\ Counted(new)
      /\ new.size = g_ht.size
      /\ KeysOf(new) = KeysOf(g_ht)
      /\ \A k \in KeysOf(g_ht) : Lookup(new, k) = IF k = key THEN v ELSE Lookup(g_ht, k)
  BY <1>1, PutOverwrites, ReplacedCounted DEF Holding
<1>3. g_ht' = new /\ heap' = ValueFree(h, old) /\ blocks' = blocks
  BY DEF PutReplaces
<1>4. \A k \in KeysOf(g_ht) : Lookup(g_ht, k) \in Values
  BY LookupIsValue DEF Holding
<1>5. h \in Heaps
  BY ContentsAssumption DEF Made, Heaps, Holding
<1> HIDE DEF new, old
<1>6. heap' \in Heaps /\ \A a \in Addr : heap'[a] = IF a = old THEN Freed ELSE h[a]
  BY <1>3, <1>5, ValuesAssumption DEF ValueFree, Heaps
<1>7. \A a \in Addr : h[a] = IF a = v THEN c ELSE heap[a]
  BY ValuesAssumption DEF Made, Heaps, Holding
<1>8. c # Freed
  BY ContentsAssumption
<1>9. v # NULL => heap[v] = Freed
  BY DEF Made
<1>10. Owns(new, heap')
  <2>1. \A k \in KeysOf(new) : Lookup(new, k) # NULL => heap'[Lookup(new, k)] # Freed
    BY <1>1, <1>2, <1>4, <1>6, <1>7, <1>8, <1>9, ValuesAssumption DEF Owns, Holding, old
  <2>2. \A a \in Addr : heap'[a] # Freed => \E k \in KeysOf(new) : Lookup(new, k) = a
    BY <1>1, <1>2, <1>4, <1>6, <1>7, <1>8, <1>9, ValuesAssumption DEF Owns, Holding, old
  <2>3. \A j, k \in KeysOf(new) :
            Lookup(new, j) = Lookup(new, k) /\ Lookup(new, j) # NULL => j = k
    BY <1>1, <1>2, <1>9 DEF Owns, Holding
  <2> QED
    BY <2>1, <2>2, <2>3 DEF Owns
<1> QED
  BY <1>2, <1>3, <1>6, <1>10 DEF Holding

(* ht_put of a new key owns the value, or fails and the driver frees it.   *)
LEMMA PutInsertsKeeps ==
    ASSUME Holding, NEW key \in Keys, NEW c \in Contents, NEW v, NEW h, Made(c, v, h),
           PutInserts(key, v, h)
    PROVE  /\ Holding'
           /\ verdict' \in {"pass", "oom"}
           /\ verdict' = "oom" => g_ht' = g_ht /\ heap' = heap /\ blocks' = blocks
           /\ verdict' = "pass" => g_ht' = Inserted(g_ht, key, v) /\ heap' = h
<1> DEFINE new == Inserted(g_ht, key, v)
<1>1. key \in Keys \ KeysOf(g_ht) /\ Good(g_ht) /\ v \in Values
  BY ValuesAssumption DEF PutInserts, KeysOf, Holding, Counted, Made
<1>2. PICK m \in NewEntryOutcomes :
        /\ blocks' = [entries |-> blocks.entries + m.entries, keys |-> blocks.keys + m.keys]
        /\ IF m.ok
           THEN g_ht' = new /\ heap' = h /\ verdict' = "pass"
           ELSE heap' = ValueFree(h, v) /\ verdict' = "oom" /\ UNCHANGED g_ht
  BY DEF PutInserts
<1>3. heap \in Heaps /\ h \in Heaps /\ g_ht.size \in Nat
  BY ContentsAssumption, TableNotNull DEF Made, Heaps, Holding
<1>4. CASE m = [ok |-> TRUE, entries |-> 1, keys |-> 1]
  <2>1. g_ht' = new /\ heap' = h /\ verdict' = "pass"
    BY <1>2, <1>4
  <2>2. /\ Counted(new)
        /\ new.size = g_ht.size + 1
        /\ KeysOf(new) = KeysOf(g_ht) \cup {key}
        /\ Lookup(new, key) = v
        /\ \A k \in KeysOf(g_ht) : Lookup(new, k) = Lookup(g_ht, k)
    BY <1>1, PutAdds, InsertedCounted DEF Holding
  <2>3. blocks' = [entries |-> new.size, keys |-> new.size]
    BY <1>2, <1>4, <2>2 DEF Holding
  <2> HIDE DEF new
  <2>4. \A k \in KeysOf(g_ht) : Lookup(g_ht, k) \in Values
    BY LookupIsValue DEF Holding
  <2>5. \A a \in Addr : h[a] = IF a = v THEN c ELSE heap[a]
    BY <1>3, ValuesAssumption DEF Made, Heaps
  <2>6. c # Freed /\ (v # NULL => heap[v] = Freed)
    BY ContentsAssumption DEF Made
  <2>7. \A k \in KeysOf(g_ht) : Lookup(g_ht, k) # NULL => Lookup(g_ht, k) # v
    BY <2>6 DEF Owns, Holding
  <2>8. Owns(new, h)
    <3>1. \A k \in KeysOf(new) : Lookup(new, k) # NULL => h[Lookup(new, k)] # Freed
      BY <1>1, <2>2, <2>4, <2>5, <2>6, ValuesAssumption DEF Owns, Holding
    <3>2. \A a \in Addr : h[a] # Freed => \E k \in KeysOf(new) : Lookup(new, k) = a
      BY <1>1, <2>2, <2>5, <2>6 DEF Owns, Holding
    <3>3. \A j, k \in KeysOf(new) :
              Lookup(new, j) = Lookup(new, k) /\ Lookup(new, j) # NULL => j = k
      BY <1>1, <2>2, <2>7 DEF Owns, Holding
    <3> QED
      BY <3>1, <3>2, <3>3 DEF Owns
  <2> QED
    BY <1>3, <2>1, <2>2, <2>3, <2>8 DEF Holding, new
<1>5. CASE m = [ok |-> FALSE, entries |-> 0, keys |-> 0]
  <2>1. g_ht' = g_ht /\ heap' = ValueFree(h, v) /\ verdict' = "oom"
    BY <1>2, <1>5
  <2>2. heap' = heap
    BY <1>3, <2>1, ValuesAssumption DEF Made, ValueFree, Heaps
  <2>3. blocks' = blocks
    BY <1>2, <1>3, <1>5 DEF Holding
  <2> QED
    BY <2>1, <2>2, <2>3 DEF Holding
<1> QED
  BY <1>2, <1>4, <1>5 DEF NewEntryOutcomes

(* ht_delete frees the value it unlinks. *)
LEMMA DelFindsKeeps ==
    ASSUME Holding, NEW key \in Keys, DelFinds(key)
    PROVE  Holding'
<1> DEFINE old == Lookup(g_ht, key)
           new == Deleted(g_ht, key)
<1>1. key \in KeysOf(g_ht) /\ Good(g_ht)
  BY DEF DelFinds, KeysOf, Holding, Counted
<1>2. g_ht.size \in Nat \ {0} /\ Counted(new)
  BY <1>1, DeletedCounted, TableNotNull DEF Holding
<1>3. /\ new.size = g_ht.size - 1
      /\ KeysOf(new) = KeysOf(g_ht) \ {key}
      /\ \A k \in KeysOf(new) : Lookup(new, k) = Lookup(g_ht, k)
  BY <1>1, <1>2, DeleteRemoves
<1>4. /\ g_ht' = new
      /\ heap' = ValueFree(heap, old)
      /\ blocks' = [entries |-> new.size, keys |-> new.size]
  BY <1>3 DEF DelFinds, Holding
<1>5. \A k \in KeysOf(g_ht) : Lookup(g_ht, k) \in Values
  BY LookupIsValue DEF Holding
<1> HIDE DEF new, old
<1>6. heap' \in Heaps /\ \A a \in Addr : heap'[a] = IF a = old THEN Freed ELSE heap[a]
  BY <1>4, ValuesAssumption DEF ValueFree, Heaps, Holding
<1>7. Owns(new, heap')
  <2>1. \A k \in KeysOf(new) : Lookup(new, k) # NULL => heap'[Lookup(new, k)] # Freed
    BY <1>1, <1>3, <1>5, <1>6, ValuesAssumption DEF Owns, Holding, old
  <2>2. \A a \in Addr : heap'[a] # Freed => \E k \in KeysOf(new) : Lookup(new, k) = a
    BY <1>1, <1>3, <1>6 DEF Owns, Holding, old
  <2>3. \A j, k \in KeysOf(new) :
            Lookup(new, j) = Lookup(new, k) /\ Lookup(new, j) # NULL => j = k
    BY <1>3 DEF Owns, Holding
  <2> QED
    BY <2>1, <2>2, <2>3 DEF Owns
<1> QED
  BY <1>2, <1>4, <1>6, <1>7 DEF Holding

(* ht_free and free(g_ht) leave nothing allocated. *)
LEMMA FreeTableKeeps ==
    ASSUME Holding, FreeTable
    PROVE  g_ht' = NULL /\ heap' = [a \in Addr |-> Freed] /\ blocks' = NoBlocks
<1>1. \A a \in Addr : heap[a] # Freed => a \in ValuesOf(g_ht)
  BY OwnsInSlots DEF Holding
<1>2. heap' = [a \in Addr |-> Freed]
  BY <1>1 DEF FreeTable
<1>3. blocks' = NoBlocks
  <2>1. Cardinality(Slots(g_ht)) = g_ht.size /\ g_ht.size \in Nat
    BY TableNotNull DEF Holding, Counted
  <2>2. blocks' = [entries |-> g_ht.size - g_ht.size, keys |-> g_ht.size - g_ht.size]
    BY <2>1 DEF FreeTable, Holding
  <2> QED
    BY <2>1, <2>2 DEF NoBlocks
<1> QED
  BY <1>2, <1>3 DEF FreeTable

-----------------------------------------------------------------------------
(* The two cases of the invariant: no table, or one that is held. *)
LEMMA InvCases ==
    Inv <=> /\ verdict \in {"start", "pass", "mismatch", "refused", "oom"}
            /\ reading \in BOOLEAN
            /\ \/ g_ht = NULL /\ heap = [a \in Addr |-> Freed] /\ blocks = NoBlocks
               \/ g_ht # NULL /\ Holding
BY DEF Inv, Holding, Heaps

(* The invariant is inductive. *)
LEMMA NextInv == Inv /\ [Next]_vars => Inv'
<1> SUFFICES ASSUME Inv, [Next]_vars PROVE Inv'
  OBVIOUS
<1>1. CASE UNCHANGED vars
  BY <1>1 DEF Inv, vars
<1>2. CASE Refused
  BY <1>2 DEF Inv, Refused, Unchanged
<1>3. CASE OutOfMemory
  BY <1>3 DEF Inv, OutOfMemory, Unchanged
<1>4. CASE cmd_init
  <2>1. Counted(EmptyTable) /\ KeysOf(EmptyTable) = {} /\ EmptyTable.size = 0
    BY EmptyTableCounted, EmptyTableMapsNothing, EmptyTableIsEmpty
  <2>2. EmptyTable # NULL
    BY <2>1, TableNotNull
  <2>3. Owns(EmptyTable, heap)
    BY <1>4, <2>1 DEF Inv, Owns, cmd_init, Ready
  <2> QED
    BY <1>4, <2>1, <2>2, <2>3 DEF Inv, cmd_init, Ready, NoBlocks
<1>5. ASSUME NEW key \in Keys, NEW c \in Contents, cmd_put(key, c)
      PROVE  Inv'
  <2>1. PICK p \in Parsed(c) : PutReplaces(key, p[1], p[2]) \/ PutInserts(key, p[1], p[2])
    BY <1>5 DEF cmd_put
  <2>2. Holding /\ Made(c, p[1], p[2])
    BY <1>5, InvCases, ParsedMakes DEF cmd_put, Ready
  <2>3. Holding' /\ verdict' \in {"pass", "oom"}
    <3>1. CASE PutReplaces(key, p[1], p[2])
      BY <2>2, <3>1, PutReplacesKeeps DEF PutReplaces
    <3>2. CASE PutInserts(key, p[1], p[2])
      BY <2>2, <3>2, PutInsertsKeeps
    <3> QED
      BY <2>1, <3>1, <3>2
  <2>4. g_ht' # NULL
    BY <2>3, TableNotNull DEF Holding
  <2>5. reading' = reading
    BY <1>5 DEF cmd_put
  <2> QED
    BY <2>3, <2>4, <2>5 DEF Inv, Holding
<1>6. ASSUME NEW key \in Keys, NEW c \in Contents, cmd_get(key, c)
      PROVE  Inv'
  BY <1>6 DEF Inv, cmd_get, Unchanged, Passes
<1>7. ASSUME NEW key \in Keys, cmd_del(key)
      PROVE  Inv'
  <2>1. Holding
    BY <1>7, InvCases DEF cmd_del, Ready
  <2>2. CASE DelFinds(key)
    <3>1. Holding' /\ g_ht' # NULL
      BY <2>1, <2>2, DelFindsKeeps, TableNotNull DEF Holding
    <3> QED
      BY <1>7, <3>1 DEF Inv, Holding, cmd_del
  <2>3. CASE DelMisses(key)
    BY <1>7, <2>3 DEF Inv, cmd_del, DelMisses
  <2> QED
    BY <1>7, <2>2, <2>3 DEF cmd_del
<1>8. ASSUME NEW n \in Sizes, cmd_size(n)
      PROVE  Inv'
  BY <1>8 DEF Inv, cmd_size, Unchanged, Passes
<1>9. CASE cmd_free_ht
  BY <1>9, InvCases, FreeTableKeeps DEF Inv, cmd_free_ht, Ready, Heaps
<1>10. CASE EndOfTrace
  <2>1. CASE Ready
    BY <1>10, <2>1, InvCases, FreeTableKeeps DEF Inv, EndOfTrace, Ready, Heaps
  <2>2. CASE ~Ready
    BY <1>10, <2>2 DEF Inv, EndOfTrace, Ready
  <2> QED
    BY <2>1, <2>2
<1> QED
  BY <1>1, <1>2, <1>3, <1>4, <1>5, <1>6, <1>7, <1>8, <1>9, <1>10 DEF Next

(* The inductive invariant holds in every reachable state. *)
THEOREM Invariance == Spec => []Inv
BY InitInv, NextInv, PTL DEF Spec

(* The table and the heap are of the types the code declares. *)
THEOREM TypeSafety == Spec => []TypeOK
BY Invariance, InvGivesTypeOK, PTL

(* Entries are in the bucket of their key, once, and counted right, after  *)
(* any sequence of lines and for any hash (hashtable.c).                   *)
THEOREM ChainsWellFormed == Spec => []WellFormed
BY Invariance, InvGivesWellFormed, PTL

(* No tagged value leaks, dangles or is shared between two lines, whatever *)
(* allocation fails (hashtable.c with ht_trace_test.c).                    *)
THEOREM ValuesOwned == Spec => []Owned
BY Invariance, InvGivesOwned, PTL

(* No entry struct or key string leaks, also when the second allocation of *)
(* ht_put fails (hashtable.c:99-103).                                      *)
THEOREM BlocksAccounted == Spec => []BlocksExact
BY Invariance, InvGivesBlocksExact, PTL

-----------------------------------------------------------------------------
(* Refinement: the table seen as a map. *)
View(ht, h) == [k \in KeysOf(ht) |-> IF Lookup(ht, k) = NULL THEN Null ELSE h[Lookup(ht, k)]]
TheMap == [k \in Mapping |-> Content(Lookup(g_ht, k))]

LEMMA ViewIsMap ==
    ASSUME g_ht # NULL
    PROVE  TheMap = View(g_ht, heap)
BY DEF TheMap, Mapping, View, Content, Ready

LEMMA NoTableNoMap ==
    ASSUME g_ht = NULL
    PROVE  TheMap = Map!EmptyMap
BY DEF TheMap, Mapping, Ready, Map!EmptyMap

(* An untouched table and heap show the same map. *)
LEMMA SameMap ==
    ASSUME UNCHANGED <<g_ht, heap>>
    PROVE  TheMap' = TheMap /\ Ready' = Ready
BY DEF TheMap, Mapping, Content, Ready

(* A put that replaces overwrites one binding of the map. *)
LEMMA PutReplacesMaps ==
    ASSUME Holding, NEW key \in Keys, NEW c \in Contents, NEW v, NEW h, Made(c, v, h),
           PutReplaces(key, v, h)
    PROVE  TheMap' = [k \in DOMAIN TheMap \cup {key} |-> IF k = key THEN c ELSE TheMap[k]]
<1> DEFINE old == Lookup(g_ht, key)
           new == Replaced(g_ht, key, v)
<1>1. key \in KeysOf(g_ht) /\ Good(g_ht) /\ v \in Values
  BY ValuesAssumption DEF PutReplaces, KeysOf, Holding, Counted, Made
<1>2. /\ Counted(new)
      /\ KeysOf(new) = KeysOf(g_ht)
      /\ \A k \in KeysOf(g_ht) : Lookup(new, k) = IF k = key THEN v ELSE Lookup(g_ht, k)
  BY <1>1, PutOverwrites, ReplacedCounted DEF Holding
<1>3. g_ht' = new /\ heap' = ValueFree(h, old)
  BY DEF PutReplaces
<1>4. g_ht # NULL /\ g_ht' # NULL
  BY <1>2, <1>3, TableNotNull DEF Holding
<1>5. TheMap = View(g_ht, heap) /\ TheMap' = View(g_ht', heap')
  BY <1>4, ViewIsMap DEF TheMap, Mapping, View, Content, Ready
<1>6. \A k \in KeysOf(g_ht) : Lookup(g_ht, k) \in Values
  BY LookupIsValue DEF Holding
<1>7. h \in Heaps
  BY ContentsAssumption DEF Made, Heaps, Holding
<1> HIDE DEF new, old
<1>8. \A a \in Addr : heap'[a] = IF a = old THEN Freed ELSE h[a]
  BY <1>3, <1>7, ValuesAssumption DEF ValueFree, Heaps
<1>9. \A a \in Addr : h[a] = IF a = v THEN c ELSE heap[a]
  BY ValuesAssumption DEF Made, Heaps, Holding
<1>10. v # NULL => heap[v] = Freed /\ v \in Addr
  BY DEF Made
<1>11. v # NULL => v # old
  BY <1>1, <1>10 DEF Owns, Holding, old
<1>12. ASSUME NEW k \in KeysOf(g_ht), k # key
       PROVE  View(new, heap')[k] = View(g_ht, heap)[k]
  <2>1. Lookup(new, k) = Lookup(g_ht, k)
    BY <1>2, <1>12
  <2>2. CASE Lookup(g_ht, k) = NULL
    BY <1>2, <2>1, <2>2 DEF View
  <2>3. CASE Lookup(g_ht, k) # NULL
    <3> DEFINE a == Lookup(g_ht, k)
    <3>1. a \in Addr /\ a # old /\ a # v
      BY <1>1, <1>6, <1>10, <1>12, <2>3, ValuesAssumption DEF Owns, Holding, old
    <3>2. heap'[a] = heap[a]
      BY <1>8, <1>9, <3>1
    <3> QED
      BY <1>2, <2>1, <2>3, <3>2 DEF View
  <2> QED
    BY <2>2, <2>3
<1>13. View(new, heap')[key] = c
  <2>1. View(new, heap')[key] = IF v = NULL THEN Null ELSE heap'[v]
    BY <1>1, <1>2 DEF View
  <2>2. v = NULL => c = Null
    BY ValuesAssumption DEF Made
  <2> QED
    BY <1>8, <1>9, <1>10, <1>11, <2>1, <2>2
<1>14. DOMAIN View(new, heap') = KeysOf(g_ht) /\ DOMAIN View(g_ht, heap) = KeysOf(g_ht)
  BY <1>2 DEF View
<1>15. View(new, heap') = [k \in KeysOf(g_ht) |-> View(new, heap')[k]]
  BY <1>2 DEF View
<1>16. KeysOf(g_ht) \cup {key} = KeysOf(g_ht)
  BY <1>1
<1> QED
  BY <1>3, <1>5, <1>12, <1>13, <1>14, <1>15, <1>16

(* A put that inserts adds one binding to the map. *)
LEMMA PutInsertsMaps ==
    ASSUME Holding, NEW key \in Keys, NEW c \in Contents, NEW v, NEW h, Made(c, v, h),
           PutInserts(key, v, h), verdict' = "pass"
    PROVE  TheMap' = [k \in DOMAIN TheMap \cup {key} |-> IF k = key THEN c ELSE TheMap[k]]
<1> DEFINE new == Inserted(g_ht, key, v)
<1>1. key \in Keys \ KeysOf(g_ht) /\ Good(g_ht) /\ v \in Values
  BY ValuesAssumption DEF PutInserts, KeysOf, Holding, Counted, Made
<1>2. /\ Counted(new)
      /\ KeysOf(new) = KeysOf(g_ht) \cup {key}
      /\ Lookup(new, key) = v
      /\ \A k \in KeysOf(g_ht) : Lookup(new, k) = Lookup(g_ht, k)
  BY <1>1, PutAdds, InsertedCounted DEF Holding
<1>3. g_ht' = new /\ heap' = h
  BY PutInsertsKeeps
<1>4. g_ht # NULL /\ g_ht' # NULL
  BY <1>2, <1>3, TableNotNull DEF Holding
<1>5. TheMap = View(g_ht, heap) /\ TheMap' = View(g_ht', heap')
  BY <1>4, ViewIsMap DEF TheMap, Mapping, View, Content, Ready
<1> HIDE DEF new
<1>6. \A k \in KeysOf(g_ht) : Lookup(g_ht, k) \in Values
  BY LookupIsValue DEF Holding
<1>7. \A a \in Addr : h[a] = IF a = v THEN c ELSE heap[a]
  BY ValuesAssumption DEF Made, Heaps, Holding
<1>8. v # NULL => heap[v] = Freed /\ v \in Addr
  BY DEF Made
<1>9. ASSUME NEW k \in KeysOf(g_ht)
      PROVE  View(new, h)[k] = View(g_ht, heap)[k]
  <2>1. Lookup(new, k) = Lookup(g_ht, k)
    BY <1>2
  <2>2. Lookup(g_ht, k) # NULL => h[Lookup(g_ht, k)] = heap[Lookup(g_ht, k)]
    BY <1>6, <1>7, <1>8, ValuesAssumption DEF Owns, Holding
  <2> QED
    BY <1>2, <2>1, <2>2 DEF View
<1>10. View(new, h)[key] = c
  <2>1. View(new, h)[key] = IF v = NULL THEN Null ELSE h[v]
    BY <1>2 DEF View
  <2>2. v = NULL => c = Null
    BY ValuesAssumption DEF Made
  <2> QED
    BY <1>7, <1>8, <2>1, <2>2
<1>11. /\ DOMAIN View(g_ht, heap) = KeysOf(g_ht)
       /\ View(new, h) = [k \in KeysOf(g_ht) \cup {key} |-> View(new, h)[k]]
  BY <1>2 DEF View
<1> QED
  BY <1>1, <1>3, <1>5, <1>9, <1>10, <1>11

(* A delete removes one binding of the map. *)
LEMMA DelFindsMaps ==
    ASSUME Holding, NEW key \in Keys, DelFinds(key)
    PROVE  TheMap' = [k \in DOMAIN TheMap \ {key} |-> TheMap[k]]
<1> DEFINE old == Lookup(g_ht, key)
           new == Deleted(g_ht, key)
<1>1. key \in KeysOf(g_ht) /\ Good(g_ht)
  BY DEF DelFinds, KeysOf, Holding, Counted
<1>2. Counted(new) /\ g_ht.size \in Nat \ {0}
  BY <1>1, DeletedCounted, TableNotNull DEF Holding
<1>3. /\ KeysOf(new) = KeysOf(g_ht) \ {key}
      /\ \A k \in KeysOf(new) : Lookup(new, k) = Lookup(g_ht, k)
  BY <1>1, <1>2, DeleteRemoves
<1>4. g_ht' = new /\ heap' = ValueFree(heap, old)
  BY DEF DelFinds
<1>5. g_ht # NULL /\ g_ht' # NULL
  BY <1>2, <1>4, TableNotNull DEF Holding
<1>6. TheMap = View(g_ht, heap) /\ TheMap' = View(g_ht', heap')
  BY <1>5, ViewIsMap DEF TheMap, Mapping, View, Content, Ready
<1>7. \A k \in KeysOf(g_ht) : Lookup(g_ht, k) \in Values
  BY LookupIsValue DEF Holding
<1> HIDE DEF new, old
<1>8. \A a \in Addr : heap'[a] = IF a = old THEN Freed ELSE heap[a]
  BY <1>4, ValuesAssumption DEF ValueFree, Heaps, Holding
<1>9. ASSUME NEW k \in KeysOf(new)
      PROVE  View(new, heap')[k] = View(g_ht, heap)[k]
  <2>1. Lookup(new, k) = Lookup(g_ht, k) /\ k \in KeysOf(g_ht) /\ k # key
    BY <1>3
  <2>2. Lookup(g_ht, k) # NULL => heap'[Lookup(g_ht, k)] = heap[Lookup(g_ht, k)]
    BY <1>1, <1>7, <1>8, <2>1, ValuesAssumption DEF Owns, Holding, old
  <2> QED
    BY <2>1, <2>2 DEF View
<1>10. /\ DOMAIN View(g_ht, heap) = KeysOf(g_ht)
       /\ View(new, heap') = [k \in KeysOf(new) |-> View(new, heap')[k]]
  BY DEF View
<1> QED
  BY <1>3, <1>4, <1>6, <1>9, <1>10

(* Every step of the driver is a step of the map, or none. *)
LEMMA StepRefines == Inv /\ Inv' /\ [Next]_vars => [Map!Next]_(Map!vars)
<1> USE DEF TheMap
<1> SUFFICES ASSUME Inv, Inv', [Next]_vars
             PROVE  [Map!Next]_(Map!vars)
  OBVIOUS
<1>1. CASE UNCHANGED vars
  BY <1>1, SameMap DEF vars, Map!vars
<1>2. CASE reading /\ Refused
  BY <1>2, SameMap DEF Refused, Unchanged, Map!Next, Map!Refuse, Map!Keep
<1>3. CASE reading /\ OutOfMemory
  BY <1>3, SameMap DEF OutOfMemory, Unchanged, Map!Next, Map!OutOfMemory, Map!Keep
<1>4. CASE reading /\ cmd_init
  <2>1. g_ht' # NULL
    BY <1>4, EmptyTableCounted, TableNotNull DEF cmd_init
  <2>2. KeysOf(g_ht') = {}
    BY <1>4, EmptyTableMapsNothing DEF cmd_init
  <2>3. TheMap = Map!EmptyMap /\ TheMap' = Map!EmptyMap
    BY <1>4, <2>1, <2>2, NoTableNoMap DEF cmd_init, Ready, Mapping, Map!EmptyMap
  <2>4. Map!New
    BY <1>4, <2>1, <2>3 DEF cmd_init, Ready, Map!New
  <2> QED
    BY <1>4, <2>4 DEF Map!Next
<1>5. ASSUME reading, NEW key \in Keys, NEW c \in Contents, cmd_put(key, c)
      PROVE  Map!Next \/ UNCHANGED Map!vars
  <2>1. PICK p \in Parsed(c) : PutReplaces(key, p[1], p[2]) \/ PutInserts(key, p[1], p[2])
    BY <1>5 DEF cmd_put
  <2>2. /\ Holding /\ Made(c, p[1], p[2])
        /\ Ready /\ reading' = reading
    BY <1>5, InvCases, ParsedMakes DEF cmd_put, Ready
  <2>3. CASE PutReplaces(key, p[1], p[2])
    <3>1. Holding' /\ verdict' = "pass"
      BY <2>2, <2>3, PutReplacesKeeps DEF PutReplaces
    <3>2. Ready'
      BY <3>1, TableNotNull DEF Holding, Ready
    <3>3. TheMap' = [k \in DOMAIN TheMap \cup {key} |-> IF k = key THEN c ELSE TheMap[k]]
      BY <2>2, <2>3, PutReplacesMaps
    <3>4. Map!Put(key, c)
      BY <2>2, <3>1, <3>2, <3>3 DEF Map!Put
    <3> QED
      BY <1>5, <3>4 DEF Map!Next
  <2>4. CASE PutInserts(key, p[1], p[2])
    <3>1. /\ Holding'
          /\ verdict' \in {"pass", "oom"}
          /\ verdict' = "oom" => g_ht' = g_ht /\ heap' = heap
      BY <2>2, <2>4, PutInsertsKeeps
    <3>2. Ready'
      BY <3>1, TableNotNull DEF Holding, Ready
    <3>3. CASE verdict' = "pass"
      <4>1. TheMap' = [k \in DOMAIN TheMap \cup {key} |-> IF k = key THEN c ELSE TheMap[k]]
        BY <2>2, <2>4, <3>3, PutInsertsMaps
      <4>2. Map!Put(key, c)
        BY <2>2, <3>2, <3>3, <4>1 DEF Map!Put
      <4> QED
        BY <1>5, <4>2 DEF Map!Next
    <3>4. CASE verdict' = "oom"
      <4>1. Map!OutOfMemory
        BY <2>2, <3>1, <3>4, SameMap DEF Map!OutOfMemory, Map!Keep
      <4> QED
        BY <1>5, <4>1 DEF Map!Next
    <3> QED
      BY <3>1, <3>3, <3>4
  <2> QED
    BY <2>1, <2>3, <2>4
<1>6. ASSUME reading, NEW key \in Keys, NEW c \in Contents, cmd_get(key, c)
      PROVE  Map!Next \/ UNCHANGED Map!vars
  <2>1. Content(Lookup(g_ht, key)) = Map!Get(key)
    <3>1. DOMAIN TheMap = KeysOf(g_ht)
      BY <1>6 DEF Mapping, cmd_get
    <3>2. CASE key \in KeysOf(g_ht)
      BY <1>6, <3>1, <3>2 DEF Map!Get, Mapping, cmd_get
    <3>3. CASE key \notin KeysOf(g_ht)
      <4>1. Lookup(g_ht, key) = NULL
        BY <3>3 DEF KeysOf, Lookup
      <4> QED
        BY <3>1, <3>3, <4>1 DEF Map!Get, Content
    <3> QED
      BY <3>2, <3>3
  <2>2. Map!Expect(key, c)
    BY <1>6, <2>1, SameMap DEF cmd_get, Unchanged, Passes, Map!Expect, Map!Says, Map!Keep
  <2> QED
    BY <1>6, <2>2 DEF Map!Next
<1>7. ASSUME reading, NEW key \in Keys, cmd_del(key)
      PROVE  Map!Next \/ UNCHANGED Map!vars
  <2>1. Holding /\ Ready
    BY <1>7, InvCases DEF cmd_del, Ready
  <2>2. CASE DelFinds(key)
    <3>1. Ready'
      BY <2>1, <2>2, DelFindsKeeps, TableNotNull DEF Holding, Ready
    <3>2. TheMap' = [k \in DOMAIN TheMap \ {key} |-> TheMap[k]]
      BY <2>1, <2>2, DelFindsMaps
    <3> QED
      BY <1>7, <2>1, <3>1, <3>2 DEF cmd_del, Map!Delete, Map!Next
  <2>3. CASE DelMisses(key)
    <3>1. TheMap' = TheMap /\ Ready'
      BY <2>1, <2>3, SameMap DEF DelMisses
    <3>2. key \notin DOMAIN TheMap
      BY <2>3 DEF DelMisses, KeysOf, Mapping
    <3>3. [k \in DOMAIN TheMap \ {key} |-> TheMap[k]] = TheMap
      BY <3>2
    <3> QED
      BY <1>7, <2>1, <3>1, <3>3 DEF cmd_del, Map!Delete, Map!Next
  <2> QED
    BY <1>7, <2>2, <2>3 DEF cmd_del
<1>8. ASSUME reading, NEW n \in Sizes, cmd_size(n)
      PROVE  Map!Next \/ UNCHANGED Map!vars
  <2>1. g_ht.size = Cardinality(DOMAIN TheMap)
    BY <1>8, InvCases DEF cmd_size, Mapping, Holding, Counted, Ready
  <2>2. Map!Size(n)
    <3>1. verdict' = Map!Says(Cardinality(DOMAIN TheMap) = n)
      BY <1>8, <2>1 DEF cmd_size, Passes, Map!Says
    <3>2. Map!Keep /\ Ready
      BY <1>8, SameMap DEF cmd_size, Unchanged, Map!Keep
    <3> QED
      BY <3>1, <3>2 DEF Map!Size, Cardinality, Map!Cardinality
  <2> QED
    BY <1>8, <2>2 DEF Map!Next
<1>9. ASSUME g_ht' = NULL
      PROVE  Map!Clear
  BY <1>9 DEF Map!Clear, Ready, Mapping, Map!EmptyMap
<1>10. CASE reading /\ cmd_free_ht
  <2>1. Map!Free
    BY <1>9, <1>10 DEF cmd_free_ht, FreeTable, Map!Free
  <2> QED
    BY <1>10, <2>1 DEF Map!Next
<1>11. CASE reading /\ EndOfTrace
  <2>1. g_ht' = NULL
    BY <1>11 DEF EndOfTrace, FreeTable, Ready
  <2>2. Map!End
    BY <1>9, <1>11, <2>1 DEF EndOfTrace, Map!End
  <2> QED
    BY <1>11, <2>2 DEF Map!Next
<1> QED
  BY <1>1, <1>2, <1>3, <1>4, <1>5, <1>6, <1>7, <1>8, <1>10, <1>11 DEF Next

LEMMA InitRefines == Init => Map!Init
BY NoTableNoMap DEF Init, Map!Init, TheMap, Ready

(* The hash table implements the map of its header: for every hash and     *)
(* capacity each line of each trace gets the verdict the map gives.        *)
THEOREM Refinement == Spec => RefinesMap
<1>1. Init => Map!Init
  BY InitRefines
<1>2. Inv /\ Inv' /\ [Next]_vars => [Map!Next]_(Map!vars)
  BY StepRefines
<1> QED
  BY <1>1, <1>2, Invariance, PTL DEF Spec, RefinesMap, Map!Spec
=============================================================================
