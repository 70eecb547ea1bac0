------------------------------- MODULE Memory -------------------------------
(***************************************************************************)
(* The interpreter's memory, src/src/ci/mem.c: a static array of           *)
(* MemCapacity bytes and its two accessors.  Offsets and sizes are size_t, *)
(* so their sum wraps, and so does the address &mem[offset] + i that       *)
(* memcpy touches: a location at or beyond MemCapacity lies outside the    *)
(* array.  What is read there may be any byte, what is written there is    *)
(* lost to this model.                                                     *)
(***************************************************************************)
EXTENDS Words

CONSTANTS
    MemCapacity,  \* MEM_CAPACITY
    ValidBytes    \* what validate_bytes accepts: 1, 2, 4 and 8

ASSUME MemAssumption == /\ MemCapacity \in Word \ {0} /\ 2 * MemCapacity <= Base
                        /\ ValidBytes \subseteq 1 .. WordBytes /\ 1 \in ValidBytes

Location == 0 .. MemCapacity - 1
Mem == [Location -> Byte]

(* Mutant: only where the access starts is checked. *)
AcceptsStart(offset, bytes) == bytes \in ValidBytes /\ offset <= MemCapacity

(* The check that mem_load and mem_store share. *)
Accepts(offset, bytes) == /\ bytes \in ValidBytes
                          /\ Wrap(offset + bytes) <= MemCapacity

(* The locations an accepted access touches, and whether all are in mem. *)
Touched(offset, bytes) == {Wrap(offset + i) : i \in 0 .. bytes - 1}
Inside(offset, bytes) == Touched(offset, bytes) \subseteq Location

(* mem_load, little-endian into a zeroed word: the words it may yield. *)
Loaded(mem, offset, bytes) ==
    {w \in Word : \A i \in ByteIndex :
        IF i < bytes
        THEN Wrap(offset + i) \in Location => ByteOf(w, i) = mem[Wrap(offset + i)]
        ELSE ByteOf(w, i) = 0}

(* mem_store of the low bytes of w. *)
Stored(mem, offset, bytes, w) ==
    [x \in Location |->
        IF Wrap(x - offset) < bytes THEN ByteOf(w, Wrap(x - offset)) ELSE mem[x]]
=============================================================================
