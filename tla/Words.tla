------------------------------- MODULE Words -------------------------------
(***************************************************************************)
(* The machine words of the interpreter (int64_t, uint64_t and the bytes   *)
(* of memory) at a width of WordBytes bytes of ByteBits bits each: 8 of 8  *)
(* in the code.  A word is its unsigned value.  A result given bit by bit  *)
(* or byte by byte is "the word such that".                                *)
(***************************************************************************)
EXTENDS Integers

CONSTANTS ByteBits, WordBytes

WordBits == ByteBits * WordBytes

ASSUME WordsAssumption == ByteBits \in Nat \ {0} /\ WordBytes \in Nat \ {0}

(* Facts of arithmetic, not restrictions: what ^ means. *)
ASSUME PowersAssumption ==
    \A b \in {2, 2 ^ ByteBits} : \A i \in 0 .. WordBits :
        b ^ i \in Nat \ {0} /\ b ^ 0 = 1 /\ b ^ (i + 1) = b * b ^ i

Base == 2 ^ WordBits
Word == 0 .. Base - 1
Byte == 0 .. 2 ^ ByteBits - 1

(* Arithmetic modulo 2^64: unsigned, and signed as the build wraps it. *)
Wrap(x) == x % Base

(* (int64_t)w *)
Signed(w) == IF 2 * w < Base THEN w ELSE w - Base

Bit(w, i) == (w \div 2 ^ i) % 2
ByteOf(w, i) == (w \div 2 ^ (ByteBits * i)) % 2 ^ ByteBits

BitIndex == 0 .. WordBits - 1
ByteIndex == 0 .. WordBytes - 1

And(a, b) == {w \in Word : \A i \in BitIndex : Bit(w, i) = Bit(a, i) * Bit(b, i)}
Orr(a, b) == {w \in Word : \A i \in BitIndex :
                  Bit(w, i) = IF Bit(a, i) + Bit(b, i) > 0 THEN 1 ELSE 0}
Eor(a, b) == {w \in Word : \A i \in BitIndex : Bit(w, i) = (Bit(a, i) + Bit(b, i)) % 2}

(* Shifts: the build's shift instructions look at the low bits of the      *)
(* count only, which is what a count of 64 or more, undefined in C, does.  *)
Count(n) == n % WordBits

(* Mutant: asr shifts zeroes in. *)
AsrLogical(a, n) == {w \in Word : \A i \in BitIndex :
                         Bit(w, i) = IF i + Count(n) \in BitIndex
                                     THEN Bit(a, i + Count(n))
                                     ELSE 0}

Asr(a, n) == {w \in Word : \A i \in BitIndex :
                  Bit(w, i) = IF i + Count(n) \in BitIndex
                              THEN Bit(a, i + Count(n))
                              ELSE Bit(a, WordBits - 1)}
Lsr(a, n) == {w \in Word : \A i \in BitIndex :
                  Bit(w, i) = IF i + Count(n) \in BitIndex THEN Bit(a, i + Count(n)) ELSE 0}
Lsl(a, n) == {w \in Word : \A i \in BitIndex :
                  Bit(w, i) = IF i - Count(n) \in BitIndex THEN Bit(a, i - Count(n)) ELSE 0}
=============================================================================
