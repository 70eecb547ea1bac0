------------------------------ MODULE Numbers ------------------------------
(***************************************************************************)
(* How src/src/ci/parser.c makes numbers and variables of lexemes.  A      *)
(* lexeme is a place and a length in the source; strtoll, which reads it,  *)
(* does not know the length and reads the source on.  The source is a      *)
(* sequence of characters m; behind its last one there are only NULs.      *)
(***************************************************************************)
EXTENDS Integers, SequencesExt

CONSTANTS
    MaxNumber,    \* INT64_MAX
    MaxVariable   \* the last variable, 31

ASSUME NumbersAssumption == MaxNumber \in Nat /\ MaxVariable \in 0 .. MaxNumber - 1

NUL == "NUL"
CharIn(m, i) == IF i \in DOMAIN m THEN m[i] ELSE NUL

BinaryDigit == {"0", "1"}
OctalDigit == BinaryDigit \cup {"2", "3", "4", "5", "6", "7"}
Digit == OctalDigit \cup {"8", "9"}
HexDigit == Digit \cup {"a", "b", "c", "d", "e", "f", "A", "B", "C", "D", "E", "F"}

DigitsOf(base) == CASE base = 2 -> BinaryDigit
                    [] base = 8 -> OctalDigit
                    [] base = 10 -> Digit
                    [] base = 16 -> HexDigit

DigitValue(c) ==
    CHOOSE v \in 0 .. 15 :
        \/ c = <<"0", "1", "2", "3", "4", "5", "6", "7", "8", "9", "a", "b", "c", "d", "e", "f">>[v + 1]
        \/ v > 9 /\ c = <<"A", "B", "C", "D", "E", "F">>[v - 9]

(* The first position from p on whose character is not in chars, which     *)
(* never has NUL.                                                          *)
SpanEnd(m, p, chars) ==
    CHOOSE q \in p .. (IF p > Len(m) THEN p ELSE Len(m) + 1) :
        /\ CharIn(m, q) \notin chars
        /\ \A i \in p .. q - 1 : CharIn(m, i) \in chars

(* strtoll(m + p, &end, base): base 0 means that the prefix tells it.      *)
(* Without digits the end is where it began; a number that does not fit is *)
(* the largest or the smallest that does.                                  *)
Strtoll(m, p, base) ==
    LET sign == SpanEnd(m, p, {" ", "\t", "\n", "\r"})
        at == IF CharIn(m, sign) \in {"+", "-"} THEN sign + 1 ELSE sign
        hex == /\ base = 0 /\ CharIn(m, at) = "0"
               /\ CharIn(m, at + 1) \in {"x", "X"} /\ CharIn(m, at + 2) \in HexDigit
        radix == IF base # 0 THEN base
                 ELSE IF hex THEN 16
                 ELSE IF CharIn(m, at) = "0" THEN 8 ELSE 10
        first == IF hex THEN at + 2 ELSE at
        end == SpanEnd(m, first, DigitsOf(radix))
        digits == [i \in 1 .. end - first |-> DigitValue(m[first + i - 1])]
        limit == IF CharIn(m, sign) = "-" THEN MaxNumber + 1 ELSE MaxNumber
        shift(v, d) == IF v * radix + d > limit THEN limit ELSE v * radix + d
        size == FoldLeft(shift, 0, digits)
    IN  IF end = first THEN [end |-> p, number |-> 0]
        ELSE [end |-> end, number |-> IF CharIn(m, sign) = "-" THEN -size ELSE size]

(* Mutant: that strtoll stopped within the lexeme is not noticed. *)
parse_numberAnyEnd(m, p, length) ==
    LET binary == length > 2 /\ CharIn(m, p) = "0" /\ CharIn(m, p + 1) = "b"
        read == IF binary THEN Strtoll(m, p + 2, 2) ELSE Strtoll(m, p, 0)
    IN  [ok |-> TRUE, number |-> read.number]

(* A number, when strtoll reads the lexeme to its end. *)
parse_number(m, p, length) ==
    LET binary == length > 2 /\ CharIn(m, p) = "0" /\ CharIn(m, p + 1) = "b"
        read == IF binary THEN Strtoll(m, p + 2, 2) ELSE Strtoll(m, p, 0)
    IN  [ok |-> read.end = p + length, number |-> read.number]

(* Mutant: leading zeros are not rejected. *)
parse_identLeadingZeros(m, p, length) ==
    LET read == parse_number(m, p + 1, length - 1)
    IN  [ok |-> /\ CharIn(m, p) = "x" /\ length > 1
                /\ read.ok /\ read.number \in 0 .. MaxVariable,
         variable |-> read.number]

(* Of an identifier token. *)
parse_ident(m, p, length) ==
    LET read == parse_number(m, p + 1, length - 1)
    IN  [ok |-> /\ CharIn(m, p) = "x" /\ length > 1
                /\ ~(length > 2 /\ CharIn(m, p + 1) = "0")
                /\ read.ok /\ read.number \in 0 .. MaxVariable,
         variable |-> read.number]
=============================================================================
