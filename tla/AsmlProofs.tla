----------------------------- MODULE AsmlProofs -----------------------------
(***************************************************************************)
(* That interpret computes what an ASML program means, for every program   *)
(* and every size: Interpreter implements Asml under the mapping Meant,    *)
(* until an access leaves memory.  Bit patterns are read as signed         *)
(* integers, results given bit by bit or byte by byte as the numbers they  *)
(* spell, the flags as a relation, the chain of call records as a stack.   *)
(***************************************************************************)
EXTENDS InterpreterProofs

-----------------------------------------------------------------------------
(* Arithmetic: quotients, powers and the bits of numbers.                  *)

LEMMA Quotient ==
    ASSUME NEW x \in Int, NEW b \in Nat \ {0}
    PROVE  /\ x \div b \in Int /\ x % b \in 0 .. b - 1
           /\ x = (x \div b) * b + (x % b)
OBVIOUS

LEMMA QuotientIs ==
    ASSUME NEW x \in Int, NEW b \in Nat \ {0}, NEW q \in Int, NEW r \in 0 .. b - 1,
           x = q * b + r
    PROVE  x \div b = q /\ x % b = r
OBVIOUS

(* Multiples of a divisor are divided by themselves. *)
LEMMA QuotientOfSum ==
    ASSUME NEW x \in Int, NEW k \in Int, NEW b \in Nat \ {0}
    PROVE  (x + k * b) \div b = x \div b + k /\ (x + k * b) % b = x % b
<1> DEFINE q == x \div b
           r == x % b
           y == x + k * b
<1>1. q \in Int /\ r \in 0 .. b - 1 /\ x = q * b + r
  BY Quotient
<1>2. q + k \in Int /\ y \in Int
  BY <1>1
<1> HIDE DEF q, r
<1>3. y = (q + k) * b + r
  BY <1>1
<1> HIDE DEF y
<1>4. y \div b = q + k /\ y % b = r
  BY <1>1, <1>2, <1>3, QuotientIs
<1> QED
  BY <1>4 DEF q, r, y

(* To divide twice is to divide by the product. *)
LEMMA QuotientTwice ==
    ASSUME NEW x \in Int, NEW a \in Nat \ {0}, NEW b \in Nat \ {0}
    PROVE  (x \div a) \div b = x \div (a * b)
<1> DEFINE q == x \div a
           r == x % a
           s == q \div b
           t == q % b
<1>1. q \in Int /\ r \in 0 .. a - 1 /\ x = q * a + r
  BY Quotient
<1>2. s \in Int /\ t \in 0 .. b - 1 /\ q = s * b + t
  <2> HIDE DEF q
  <2> QED
    BY <1>1, Quotient
<1> DEFINE m == a * b
           u == t * a + r
<1> HIDE DEF q, r, s, t
<1>3. m \in Nat \ {0}
  OBVIOUS
<1>4. u \in 0 .. m - 1
  <2>1. u \in Nat
    BY <1>1, <1>2
  <2>2. t * a <= (b - 1) * a
    BY <1>2
  <2>3. (b - 1) * a = m - a
    OBVIOUS
  <2> QED
    BY <1>1, <1>2, <1>3, <2>1, <2>2, <2>3
<1>5. x = s * m + u
  BY <1>1, <1>2
<1>6. x \div m = s
  <2> HIDE DEF m, u
  <2> QED
    BY <1>2, <1>3, <1>4, <1>5, QuotientIs
<1> QED
  BY <1>6 DEF q, s, m

(* What holds at 0 and goes from each number to the next, up to a bound,   *)
(* holds up to the bound.                                                  *)
LEMMA Upward ==
    ASSUME NEW n \in Nat, NEW S, 0 \in S, \A i \in 0 .. n - 1 : i \in S => i + 1 \in S
    PROVE  \A i \in 0 .. n : i \in S
<1> DEFINE T == {i \in 0 .. n : i \notin S}
<1>1. SUFFICES ASSUME T # {} PROVE FALSE
  OBVIOUS
<1>2. T \in SUBSET Nat
  OBVIOUS
<1>3. PICK i \in T : \A j \in T : i <= j
  <2> HIDE DEF T
  <2> QED
    BY <1>1, <1>2, LeastNumber
<1>4. i - 1 \in 0 .. n - 1 /\ i - 1 \in S
  BY <1>3
<1>5. (i - 1) + 1 \in S
  BY <1>4
<1> QED
  BY <1>3, <1>5

LEMMA Downward ==
    ASSUME NEW n \in Nat, NEW S, n \in S, \A i \in 0 .. n - 1 : i + 1 \in S => i \in S
    PROVE  \A i \in 0 .. n : i \in S
<1> DEFINE T == {i \in 0 .. n : n - i \in S}
<1>1. 0 \in T
  OBVIOUS
<1>2. ASSUME NEW i \in 0 .. n - 1, i \in T PROVE i + 1 \in T
  <2> DEFINE j == n - i - 1
  <2>1. j \in 0 .. n - 1 /\ j + 1 = n - i /\ j = n - (i + 1)
    OBVIOUS
  <2>2. j + 1 \in S
    BY <1>2, <2>1
  <2>3. j \in S
    BY <2>1, <2>2
  <2> QED
    BY <2>1, <2>3
<1>3. \A i \in 0 .. n : i \in T
  <2> HIDE DEF T
  <2> QED
    BY <1>1, <1>2, Upward
<1>4. ASSUME NEW i \in 0 .. n PROVE i \in S
  <2>1. n - i \in 0 .. n /\ n - (n - i) = i
    OBVIOUS
  <2> QED
    BY <1>3, <2>1
<1> QED
  BY <1>4

-----------------------------------------------------------------------------
(* Powers.                                                                 *)

LEMMA Widths ==
    /\ WordBits \in Nat \ {0} /\ ByteBits \in Nat \ {0} /\ WordBytes \in Nat \ {0}
    /\ WordBits = ByteBits * WordBytes /\ ByteBits <= WordBits /\ WordBytes <= WordBits
BY WordsAssumption DEF WordBits

LEMMA PowerNext ==
    /\ 2 ^ 0 = 1
    /\ \A i \in 0 .. WordBits : 2 ^ i \in Nat \ {0} /\ 2 ^ (i + 1) = 2 * 2 ^ i
BY PowersAssumption, Widths

LEMMA PowerSum ==
    ASSUME NEW i \in Nat, NEW j \in Nat, i + j <= WordBits
    PROVE  2 ^ (i + j) = 2 ^ i * 2 ^ j
<1> DEFINE S == {k \in 0 .. j : 2 ^ (i + k) = 2 ^ i * 2 ^ k}
<1>1. 0 \in S
  <2>1. 2 ^ i \in Nat /\ i + 0 = i
    BY PowerNext, Widths
  <2> QED
    BY <2>1, PowerNext
<1>2. ASSUME NEW k \in 0 .. j - 1, k \in S PROVE k + 1 \in S
  <2>1. i + k \in 0 .. WordBits /\ k \in 0 .. WordBits /\ i \in 0 .. WordBits
        /\ i + (k + 1) = (i + k) + 1
    BY Widths
  <2>2. 2 ^ ((i + k) + 1) = 2 * 2 ^ (i + k) /\ 2 ^ (k + 1) = 2 * 2 ^ k
        /\ 2 ^ k \in Nat /\ 2 ^ i \in Nat
    BY <2>1, PowerNext
  <2>3. 2 ^ (i + k) = 2 ^ i * 2 ^ k
    BY <1>2
  <2>4. \A a, b \in Nat : 2 * (a * b) = a * (2 * b)
    OBVIOUS
  <2> QED
    BY <2>1, <2>2, <2>3, <2>4
<1>3. \A k \in 0 .. j : k \in S
  <2> HIDE DEF S
  <2> QED
    BY <1>1, <1>2, Upward
<1> QED
  BY <1>3

(* A power of a byte's modulus is a power of 2. *)
LEMMA BytePower ==
    ASSUME NEW i \in 0 .. WordBytes
    PROVE  /\ ByteBits * i \in 0 .. WordBits
           /\ (2 ^ ByteBits) ^ i = 2 ^ (ByteBits * i)
<1> DEFINE S == {k \in 0 .. WordBytes : /\ ByteBits * k \in 0 .. WordBits
                                        /\ (2 ^ ByteBits) ^ k = 2 ^ (ByteBits * k)}
<1>1. 0 \in S
  <2>1. ByteBits * 0 = 0 /\ 0 \in 0 .. WordBits /\ 0 \in 0 .. WordBytes
    BY Widths
  <2>2. (2 ^ ByteBits) ^ 0 = 1
    BY PowersAssumption, Widths
  <2> QED
    BY <2>1, <2>2, PowerNext
<1>2. ASSUME NEW k \in 0 .. WordBytes - 1, k \in S PROVE k + 1 \in S
  <2>1. /\ ByteBits * (k + 1) = ByteBits * k + ByteBits
        /\ ByteBits * (k + 1) <= ByteBits * WordBytes
        /\ ByteBits * k \in Nat /\ k \in 0 .. WordBits /\ k + 1 \in 0 .. WordBytes
    BY Widths
  <2>2. ByteBits * (k + 1) \in 0 .. WordBits
    BY <2>1, Widths
  <2>3. (2 ^ ByteBits) ^ (k + 1) = 2 ^ ByteBits * (2 ^ ByteBits) ^ k
    BY <2>1, PowersAssumption
  <2>4. 2 ^ (ByteBits * k + ByteBits) = 2 ^ (ByteBits * k) * 2 ^ ByteBits
    <3> DEFINE m == ByteBits * k
    <3>1. m \in Nat /\ m + ByteBits <= WordBits
      BY <2>1, <2>2
    <3> HIDE DEF m
    <3>2. 2 ^ (m + ByteBits) = 2 ^ m * 2 ^ ByteBits
      BY <3>1, PowerSum, Widths
    <3> QED
      BY <3>2 DEF m
  <2>5. 2 ^ (ByteBits * k) \in Nat /\ 2 ^ ByteBits \in Nat
    BY <1>2, PowerNext, Widths
  <2>6. \A a, b \in Nat : a * b = b * a
    OBVIOUS
  <2>7. (2 ^ ByteBits) ^ (k + 1) = 2 ^ (ByteBits * (k + 1))
    BY <1>2, <2>1, <2>3, <2>4, <2>5, <2>6
  <2> QED
    BY <2>1, <2>2, <2>7
<1>3. \A k \in 0 .. WordBytes : k \in S
  <2> HIDE DEF S
  <2> QED
    BY <1>1, <1>2, Upward, Widths
<1> QED
  BY <1>3

-----------------------------------------------------------------------------
(* Signed and unsigned values.                                             *)

Half == 2 ^ (WordBits - 1)

LEMMA HalfIs ==
    Half \in Nat \ {0} /\ Base = 2 * Half /\ Base \div 2 = Half /\ Base \in Nat \ {0}
<1>1. WordBits - 1 \in 0 .. WordBits /\ (WordBits - 1) + 1 = WordBits
  BY Widths
<1>2. Half \in Nat \ {0} /\ Base = 2 * Half
  BY <1>1, PowerNext DEF Half, Base
<1> HIDE DEF Half
<1> QED
  BY <1>2

LEMMA WrapOfSum ==
    ASSUME NEW x \in Int, NEW k \in Int
    PROVE  Wrap(x + k * Base) = Wrap(x)
BY HalfIs, QuotientOfSum DEF Wrap

(* The signed value of a word is congruent to it. *)
LEMMA SignedIs ==
    ASSUME NEW w \in Word
    PROVE  /\ Signed(w) \in - Half .. Half - 1
           /\ Wrap(Signed(w)) = w
           /\ \E k \in Int : Signed(w) = w + k * Base
<1>1. w \in 0 .. Base - 1 /\ Base = 2 * Half /\ Half \in Nat \ {0}
  BY HalfIs DEF Word
<1>2. Signed(w) = w + 0 * Base \/ Signed(w) = w + (-1) * Base
  BY <1>1 DEF Signed
<1>3. Signed(w) \in - Half .. Half - 1
  BY <1>1 DEF Signed
<1>4. Wrap(Signed(w)) = Wrap(w) /\ Wrap(w) = w
  BY <1>1, <1>2, WrapOfSum, WrapOnce
<1> QED
  BY <1>2, <1>3, <1>4

LEMMA SignedOf ==
    ASSUME NEW z \in - Half .. Half - 1
    PROVE  Wrap(z) \in Word /\ Signed(Wrap(z)) = z
<1>1. Base = 2 * Half /\ Half \in Nat \ {0}
  BY HalfIs
<1>2. CASE z >= 0
  <2>1. z \in Word
    BY <1>1, <1>2 DEF Word
  <2> QED
    BY <1>1, <1>2, <2>1, WrapOnce DEF Signed
<1>3. CASE z < 0
  <2>1. Wrap(z) = z + Base
    BY <1>1, <1>3, WrapOnce
  <2> QED
    BY <1>1, <1>3, <2>1 DEF Signed, Word
<1> QED
  BY <1>1, <1>2, <1>3

(* What Asml calls the value of a variable's type. *)
LEMMA NormIs == \A x \in Int : Meant!Norm(x) = Signed(Wrap(x))
<1> SUFFICES ASSUME NEW x \in Int PROVE Meant!Norm(x) = Signed(Wrap(x))
  OBVIOUS
<1> DEFINE b == Base
           h == Half
           q == x \div b
           r == x % b
           y == x + h
<1>1. /\ h \in Nat \ {0} /\ b = 2 * h /\ b \in Nat \ {0}
      /\ Meant!Norm(x) = (y % b) - h /\ Wrap(x) = r
  BY HalfIs DEF Meant!Norm, Wrap
<1> HIDE DEF b, h
<1>2. q \in Int /\ r \in 0 .. b - 1 /\ x = q * b + r
  BY <1>1, Quotient
<1> HIDE DEF q, r
<1>3. y \in Int
  BY <1>1
<1>4. CASE r < h
  <2> DEFINE t == r + h
  <2>1. t \in 0 .. b - 1 /\ y = q * b + t
    BY <1>1, <1>2, <1>4
  <2> HIDE DEF y, t
  <2>2. y % b = t
    BY <1>1, <1>2, <1>3, <2>1, QuotientIs
  <2>3. t - h = r /\ 2 * r < b
    BY <1>1, <1>2, <1>4 DEF t
  <2> QED
    BY <1>1, <2>2, <2>3 DEF Signed, b
<1>5. CASE r >= h
  <2> DEFINE t == r - h
             p == q + 1
  <2>1. t \in 0 .. b - 1 /\ p \in Int /\ y = p * b + t
    BY <1>1, <1>2, <1>5
  <2> HIDE DEF y, t, p
  <2>2. y % b = t
    BY <1>1, <1>3, <2>1, QuotientIs
  <2>3. t - h = r - b /\ ~(2 * r < b)
    BY <1>1, <1>2, <1>5 DEF t
  <2> QED
    BY <1>1, <2>2, <2>3 DEF Signed, b
<1> QED
  BY <1>1, <1>2, <1>4, <1>5

LEMMA UnsignedIs == \A w \in Word : Meant!Unsigned(Signed(w)) = w
BY SignedIs DEF Meant!Unsigned, Wrap

LEMMA NormOfWord == \A w \in Word : Meant!Norm(w) = Signed(w)
<1>1. \A w \in Word : w \in Int /\ Wrap(w) = w
  BY WrapOnce, BaseIsPositive DEF Word
<1> QED
  BY <1>1, NormIs

(* Words that wrap are integers brought back into range.                   *)
LEMMA SumMeans ==
    ASSUME NEW a \in Word, NEW b \in Word
    PROVE  /\ Meant!Norm(Signed(a) + Signed(b)) = Signed(Wrap(a + b))
           /\ Meant!Norm(Signed(a) - Signed(b)) = Signed(Wrap(a - b))
<1>1. a \in Int /\ b \in Int /\ Base \in Int
  BY BaseIsPositive DEF Word
<1>2. PICK j \in Int : Signed(a) = a + j * Base
  BY SignedIs
<1>3. PICK k \in Int : Signed(b) = b + k * Base
  BY SignedIs
<1>4. /\ Signed(a) + Signed(b) = (a + b) + (j + k) * Base
      /\ Signed(a) - Signed(b) = (a - b) + (j - k) * Base
      /\ Signed(a) + Signed(b) \in Int /\ Signed(a) - Signed(b) \in Int
  BY <1>1, <1>2, <1>3
<1>5. a + b \in Int /\ a - b \in Int /\ j + k \in Int /\ j - k \in Int
  BY <1>1
<1>6. /\ Wrap((a + b) + (j + k) * Base) = Wrap(a + b)
      /\ Wrap((a - b) + (j - k) * Base) = Wrap(a - b)
  BY <1>5, WrapOfSum
<1> QED
  BY <1>4, <1>6, NormIs

-----------------------------------------------------------------------------
(* Bits.                                                                   *)

LEMMA BitIsBit == \A x \in Int : \A i \in BitIndex : Bit(x, i) \in {0, 1}
<1> SUFFICES ASSUME NEW x \in Int, NEW i \in BitIndex PROVE Bit(x, i) \in {0, 1}
  OBVIOUS
<1>1. 2 ^ i \in Nat \ {0}
  BY PowerNext, Widths DEF BitIndex
<1>2. x \div 2 ^ i \in Int
  BY <1>1, Quotient
<1>3. \A y \in Int : y % 2 \in {0, 1}
  OBVIOUS
<1> QED
  BY <1>2, <1>3 DEF Bit

(* Congruent numbers have the same bits. *)
LEMMA BitOfSum ==
    ASSUME NEW x \in Int, NEW k \in Int, NEW i \in BitIndex
    PROVE  Bit(x + k * Base, i) = Bit(x, i)
<1> DEFINE p == 2 ^ i
           j == WordBits - i - 1
           h == 2 ^ j
           m == k * h
<1>1. i \in Nat /\ j \in Nat /\ j + 1 \in Nat /\ i + (j + 1) = WordBits
      /\ i \in 0 .. WordBits /\ j \in 0 .. WordBits
  BY Widths DEF BitIndex
<1>2. 2 ^ (i + (j + 1)) = p * 2 ^ (j + 1)
  <2> HIDE DEF j
  <2> QED
    BY <1>1, PowerSum, Widths
<1>3. p \in Nat \ {0} /\ h \in Nat \ {0} /\ 2 ^ (j + 1) = 2 * h
  BY <1>1, PowerNext
<1>4. Base = p * (2 * h)
  BY <1>1, <1>2, <1>3 DEF Base
<1> HIDE DEF p, h, j
<1>5. m \in Int /\ 2 * m \in Int /\ k * Base = (2 * m) * p
  BY <1>3, <1>4
<1> HIDE DEF m
<1>6. (x + (2 * m) * p) \div p = x \div p + 2 * m
  BY <1>3, <1>5, QuotientOfSum
<1>7. x \div p \in Int
  BY <1>3, Quotient
<1>8. \A y, z \in Int : (y + 2 * z) % 2 = y % 2
  OBVIOUS
<1> QED
  BY <1>5, <1>6, <1>7, <1>8 DEF Bit, p

LEMMA BitOfSigned ==
    ASSUME NEW w \in Word, NEW i \in BitIndex
    PROVE  Bit(Signed(w), i) = Bit(w, i)
<1>1. PICK k \in Int : Signed(w) = w + k * Base
  BY SignedIs
<1> QED
  BY <1>1, BitOfSum, BaseIsPositive DEF Word

LEMMA BitOfWrap ==
    ASSUME NEW x \in Int, NEW i \in BitIndex
    PROVE  Bit(Wrap(x), i) = Bit(x, i)
<1>1. PICK k \in Int : k = x \div Base
  BY BaseIsPositive, Quotient
<1>2. Wrap(x) \in Int /\ x = Wrap(x) + k * Base
  BY <1>1, BaseIsPositive, Quotient DEF Wrap
<1> QED
  BY <1>2, BitOfSum

(* A word is its bits. *)
LEMMA WordsByBits ==
    ASSUME NEW v \in Word, NEW w \in Word, \A i \in BitIndex : Bit(v, i) = Bit(w, i)
    PROVE  v = w
<1> DEFINE S == {i \in 0 .. WordBits : v \div 2 ^ i = w \div 2 ^ i}
<1>1. v \in 0 .. Base - 1 /\ w \in 0 .. Base - 1 /\ Base \in Nat \ {0}
  BY BaseIsPositive DEF Word
<1>2. WordBits \in S
  <2>1. v \div Base = 0 /\ w \div Base = 0
    <3>1. v = 0 * Base + v /\ w = 0 * Base + w /\ v \in Int /\ w \in Int
      BY <1>1
    <3> QED
      BY <1>1, <3>1, QuotientIs
  <2> QED
    BY <2>1, Widths DEF Base
<1>3. ASSUME NEW i \in 0 .. WordBits - 1, i + 1 \in S PROVE i \in S
  <2>1. i \in BitIndex /\ i \in 0 .. WordBits
    BY Widths DEF BitIndex
  <2>2. 2 ^ i \in Nat \ {0} /\ 2 ^ (i + 1) = 2 * 2 ^ i
    BY <2>1, PowerNext
  <2> DEFINE p == 2 ^ i
             a == v \div p
             b == w \div p
  <2>3. p \in Nat \ {0} /\ 2 ^ (i + 1) = p * 2
    BY <2>2
  <2>4. v \div (p * 2) = w \div (p * 2)
    BY <1>3, <2>3
  <2>5. a % 2 = b % 2
    BY <2>1 DEF Bit
  <2> HIDE DEF p
  <2>6. a \in Int /\ b \in Int /\ v \in Int /\ w \in Int
    BY <1>1, <2>3, Quotient
  <2>7. a \div 2 = v \div (p * 2) /\ b \div 2 = w \div (p * 2)
    <3>1. 2 \in Nat \ {0}
      OBVIOUS
    <3> QED
      BY <2>3, <2>6, <3>1, QuotientTwice, Zenon
  <2> HIDE DEF a, b
  <2>8. a = b
    BY <2>4, <2>5, <2>6, <2>7
  <2> QED
    BY <2>1, <2>8 DEF a, b, p
<1>4. \A i \in 0 .. WordBits : i \in S
  <2> HIDE DEF S
  <2> QED
    BY <1>2, <1>3, Downward, Widths
<1>5. 0 \in S
  <2> HIDE DEF S
  <2> QED
    BY <1>4, Widths
<1>6. v \div 1 = v /\ w \div 1 = w
  BY <1>1
<1> QED
  BY <1>5, <1>6, PowerNext

(* A value of a variable's type is its bits. *)
LEMMA ValueByBits ==
    ASSUME NEW w \in Word
    PROVE  /\ Meant!Value = - Half .. Half - 1
           /\ Signed(w) \in Meant!Value
           /\ \A z \in Meant!Value :
                  (\A i \in BitIndex : Bit(z, i) = Bit(w, i)) => z = Signed(w)
<1>1. Meant!Value = - Half .. Half - 1
  BY HalfIs DEF Meant!Value
<1>2. ASSUME NEW z \in Meant!Value, \A i \in BitIndex : Bit(z, i) = Bit(w, i)
      PROVE  z = Signed(w)
  <2>1. z \in Int /\ Wrap(z) \in Word /\ Signed(Wrap(z)) = z
    BY <1>1, HalfIs, SignedOf
  <2>2. \A i \in BitIndex : Bit(Wrap(z), i) = Bit(w, i)
    BY <1>2, <2>1, BitOfWrap
  <2>3. Wrap(z) = w
    BY <2>1, <2>2, WordsByBits
  <2> QED
    BY <2>1, <2>3
<1> QED
  BY <1>1, <1>2, SignedIs

LEMMA BitIsMeant == \A x, i : Meant!BitOf(x, i) = Bit(x, i)
BY DEF Meant!BitOf, Bit

LEMMA BandMeans ==
    ASSUME NEW a \in Word, NEW b \in Word, NEW w \in And(a, b)
    PROVE  Meant!Bitwise(Meant!Band, Signed(a), Signed(b)) = Signed(w)
<1> DEFINE Right(z) == \A i \in 0 .. WordBits - 1 :
                           Meant!BitOf(z, i) = Meant!Band(Meant!BitOf(Signed(a), i),
                                                            Meant!BitOf(Signed(b), i))
<1>1. Meant!Bitwise(Meant!Band, Signed(a), Signed(b)) = CHOOSE z \in Meant!Value : Right(z)
  BY DEF Meant!Bitwise
<1>2. w \in Word
  BY DEF And
<1>3. ASSUME NEW i \in BitIndex
      PROVE  Meant!Band(Bit(Signed(a), i), Bit(Signed(b), i)) = Bit(w, i)
  <2>1. Bit(a, i) \in {0, 1} /\ Bit(b, i) \in {0, 1}
    BY BitIsBit, BaseIsPositive DEF Word
  <2>2. Bit(w, i) = Bit(a, i) * Bit(b, i)
    BY DEF And
  <2>3. Bit(Signed(a), i) = Bit(a, i) /\ Bit(Signed(b), i) = Bit(b, i)
    BY BitOfSigned
  <2> QED
    BY <2>1, <2>2, <2>3 DEF Meant!Band
<1>4. \A z : Right(z) <=> \A i \in BitIndex : Bit(z, i) = Bit(w, i)
  BY <1>3, BitIsMeant DEF BitIndex
<1> HIDE DEF Right
<1>5. Signed(w) \in Meant!Value /\ \A z \in Meant!Value : Right(z) => z = Signed(w)
  BY <1>2, <1>4, ValueByBits
<1>6. Right(Signed(w))
  BY <1>2, <1>4, BitOfSigned
<1> QED
  BY <1>1, <1>5, <1>6

LEMMA BorMeans ==
    ASSUME NEW a \in Word, NEW b \in Word, NEW w \in Orr(a, b)
    PROVE  Meant!Bitwise(Meant!Bor, Signed(a), Signed(b)) = Signed(w)
<1> DEFINE Right(z) == \A i \in 0 .. WordBits - 1 :
                           Meant!BitOf(z, i) = Meant!Bor(Meant!BitOf(Signed(a), i),
                                                            Meant!BitOf(Signed(b), i))
<1>1. Meant!Bitwise(Meant!Bor, Signed(a), Signed(b)) = CHOOSE z \in Meant!Value : Right(z)
  BY DEF Meant!Bitwise
<1>2. w \in Word
  BY DEF Orr
<1>3. ASSUME NEW i \in BitIndex
      PROVE  Meant!Bor(Bit(Signed(a), i), Bit(Signed(b), i)) = Bit(w, i)
  <2>1. Bit(a, i) \in {0, 1} /\ Bit(b, i) \in {0, 1}
    BY BitIsBit, BaseIsPositive DEF Word
  <2>2. Bit(w, i) = IF Bit(a, i) + Bit(b, i) > 0 THEN 1 ELSE 0
    BY DEF Orr
  <2>3. Bit(Signed(a), i) = Bit(a, i) /\ Bit(Signed(b), i) = Bit(b, i)
    BY BitOfSigned
  <2> QED
    BY <2>1, <2>2, <2>3 DEF Meant!Bor
<1>4. \A z : Right(z) <=> \A i \in BitIndex : Bit(z, i) = Bit(w, i)
  BY <1>3, BitIsMeant DEF BitIndex
<1> HIDE DEF Right
<1>5. Signed(w) \in Meant!Value /\ \A z \in Meant!Value : Right(z) => z = Signed(w)
  BY <1>2, <1>4, ValueByBits
<1>6. Right(Signed(w))
  BY <1>2, <1>4, BitOfSigned
<1> QED
  BY <1>1, <1>5, <1>6

LEMMA BxorMeans ==
    ASSUME NEW a \in Word, NEW b \in Word, NEW w \in Eor(a, b)
    PROVE  Meant!Bitwise(Meant!Bxor, Signed(a), Signed(b)) = Signed(w)
<1> DEFINE Right(z) == \A i \in 0 .. WordBits - 1 :
                           Meant!BitOf(z, i) = Meant!Bxor(Meant!BitOf(Signed(a), i),
                                                            Meant!BitOf(Signed(b), i))
<1>1. Meant!Bitwise(Meant!Bxor, Signed(a), Signed(b)) = CHOOSE z \in Meant!Value : Right(z)
  BY DEF Meant!Bitwise
<1>2. w \in Word
  BY DEF Eor
<1>3. ASSUME NEW i \in BitIndex
      PROVE  Meant!Bxor(Bit(Signed(a), i), Bit(Signed(b), i)) = Bit(w, i)
  <2>1. Bit(a, i) \in {0, 1} /\ Bit(b, i) \in {0, 1}
    BY BitIsBit, BaseIsPositive DEF Word
  <2>2. Bit(w, i) = (Bit(a, i) + Bit(b, i)) % 2
    BY DEF Eor
  <2>3. Bit(Signed(a), i) = Bit(a, i) /\ Bit(Signed(b), i) = Bit(b, i)
    BY BitOfSigned
  <2> QED
    BY <2>1, <2>2, <2>3 DEF Meant!Bxor
<1>4. \A z : Right(z) <=> \A i \in BitIndex : Bit(z, i) = Bit(w, i)
  BY <1>3, BitIsMeant DEF BitIndex
<1> HIDE DEF Right
<1>5. Signed(w) \in Meant!Value /\ \A z \in Meant!Value : Right(z) => z = Signed(w)
  BY <1>2, <1>4, ValueByBits
<1>6. Right(Signed(w))
  BY <1>2, <1>4, BitOfSigned
<1> QED
  BY <1>1, <1>5, <1>6

-----------------------------------------------------------------------------
(* Shifts.                                                                 *)

LEMMA PlacesIs ==
    ASSUME NEW n \in Word
    PROVE  Meant!Places(Signed(n)) = Count(n) /\ Count(n) \in BitIndex
<1>1. n \in Int /\ WordBits \in Nat \ {0} /\ (WordBits - 1) + 1 = WordBits
  BY BaseIsPositive, Widths DEF Word
<1>2. n % WordBits \in 0 .. WordBits - 1
  BY <1>1, Quotient
<1> QED
  BY <1>1, <1>2, UnsignedIs DEF Meant!Places, Count, BitIndex

(* A number whose bits are those of a word has the word's value.           *)
LEMMA NormByBits ==
    ASSUME NEW x \in Int, NEW w \in Word, \A i \in BitIndex : Bit(x, i) = Bit(w, i)
    PROVE  Meant!Norm(x) = Signed(w)
<1>1. Wrap(x) \in Word /\ \A i \in BitIndex : Bit(Wrap(x), i) = Bit(w, i)
  BY WrapIsWord, BitOfWrap
<1> QED
  BY <1>1, WordsByBits, NormIs

LEMMA PowerAtLeast ==
    ASSUME NEW i \in BitIndex, NEW c \in BitIndex, NEW m \in i .. WordBits, i + c >= m
    PROVE  2 ^ c * 2 ^ i \in Nat \ {0} /\ 2 ^ c * 2 ^ i >= 2 ^ m
<1> DEFINE j == m - i
           k == c - j
<1>1. /\ i \in Nat /\ j \in Nat /\ k \in Nat /\ i + j = m /\ j + k = c
      /\ i \in 0 .. WordBits /\ c \in 0 .. WordBits /\ j \in 0 .. WordBits
      /\ k \in 0 .. WordBits /\ m <= WordBits /\ m \in Nat
  BY Widths DEF BitIndex
<1> HIDE DEF j, k
<1>2. 2 ^ m = 2 ^ i * 2 ^ j /\ 2 ^ c = 2 ^ j * 2 ^ k
  BY <1>1, PowerSum
<1>3. 2 ^ i \in Nat \ {0} /\ 2 ^ j \in Nat \ {0} /\ 2 ^ k \in Nat \ {0}
  BY <1>1, PowerNext
<1>4. \A p, q, r \in Nat \ {0} : (p * q) * r \in Nat \ {0} /\ (p * q) * r >= r * p
  <2> SUFFICES ASSUME NEW p \in Nat \ {0}, NEW q \in Nat \ {0}, NEW r \in Nat \ {0}
               PROVE  (p * q) * r \in Nat \ {0} /\ (p * q) * r >= r * p
    OBVIOUS
  <2>1. PICK n \in Nat \ {0} : n = r * p
    OBVIOUS
  <2>2. n * q >= n /\ n * q \in Nat \ {0}
    OBVIOUS
  <2>3. (p * q) * r = n * q
    BY <2>1
  <2> QED
    BY <2>1, <2>2, <2>3
<1>5. /\ (2 ^ j * 2 ^ k) * 2 ^ i \in Nat \ {0}
      /\ (2 ^ j * 2 ^ k) * 2 ^ i >= 2 ^ i * 2 ^ j
  BY <1>3, <1>4, Zenon
<1> QED
  BY <1>2, <1>5

(* The bits of a quotient are the bits further up. *)
LEMMA BitOfQuotient ==
    ASSUME NEW x \in Int, NEW c \in BitIndex, NEW i \in BitIndex
    PROVE  /\ x \div 2 ^ c \in Int
           /\ Bit(x \div 2 ^ c, i) = (x \div (2 ^ c * 2 ^ i)) % 2
           /\ i + c \in BitIndex => Bit(x \div 2 ^ c, i) = Bit(x, i + c)
<1>1. i \in 0 .. WordBits /\ c \in 0 .. WordBits /\ i \in Nat /\ c \in Nat
  BY Widths DEF BitIndex
<1>2. 2 ^ c \in Nat \ {0} /\ 2 ^ i \in Nat \ {0}
  BY <1>1, PowerNext
<1>3. x \div 2 ^ c \in Int /\ (x \div 2 ^ c) \div 2 ^ i = x \div (2 ^ c * 2 ^ i)
  BY <1>2, Quotient, QuotientTwice
<1>4. ASSUME i + c \in BitIndex PROVE 2 ^ (i + c) = 2 ^ c * 2 ^ i
  <2>1. i + c <= WordBits /\ c + i = i + c
    BY <1>1, <1>4, Widths DEF BitIndex
  <2>2. 2 ^ (c + i) = 2 ^ c * 2 ^ i
    BY <1>1, <2>1, PowerSum
  <2> QED
    BY <2>1, <2>2
<1> QED
  BY <1>3, <1>4 DEF Bit

(* Past its sign bit a number is its sign. *)
LEMMA SignQuotient ==
    ASSUME NEW s \in - Half .. Half - 1, NEW p \in Nat \ {0}, p >= Half
    PROVE  s \div p = IF s < 0 THEN -1 ELSE 0
<1>1. Half \in Nat \ {0} /\ s \in Int
  BY HalfIs
<1>2. CASE s < 0
  <2>1. s + p \in 0 .. p - 1 /\ s = (-1) * p + (s + p)
    BY <1>1, <1>2
  <2> QED
    BY <1>1, <1>2, <2>1, QuotientIs
<1>3. CASE s >= 0
  <2>1. s \in 0 .. p - 1 /\ s = 0 * p + s
    BY <1>1, <1>3
  <2> QED
    BY <1>1, <1>3, <2>1, QuotientIs
<1> QED
  BY <1>1, <1>2, <1>3

LEMMA AsrMeans ==
    ASSUME NEW a \in Word, NEW n \in Word, NEW w \in Asr(a, n)
    PROVE  Signed(a) \div 2 ^ Meant!Places(Signed(n)) = Signed(w)
<1> DEFINE s == Signed(a)
           c == Count(n)
           p == 2 ^ c
           z == s \div p
<1>1. c \in BitIndex /\ Meant!Places(Signed(n)) = c
  BY PlacesIs
<1>2. s \in - Half .. Half - 1 /\ s \in Int /\ Half \in Nat \ {0}
  BY SignedIs, HalfIs
<1>3. w \in Word
  BY DEF Asr
<1> HIDE DEF c, s
<1>4. p \in Nat \ {0}
  BY <1>1, PowerNext, Widths DEF BitIndex
<1>5. z \in - Half .. Half - 1
  <2>1. z \in Int /\ s % p \in 0 .. p - 1 /\ s = z * p + (s % p)
    BY <1>2, <1>4, Quotient
  <2> HIDE DEF p, z
  <2>2. PICK r \in 0 .. p - 1 : s = z * p + r
    BY <2>1
  <2>3. ASSUME z >= Half PROVE FALSE
    <3>1. z * p >= z
      BY <1>2, <1>4, <2>1, <2>3
    <3> QED
      BY <1>2, <1>4, <2>1, <2>2, <2>3, <3>1
  <2>4. ASSUME z < - Half PROVE FALSE
    <3>1. PICK y \in Nat \ {0} : z = - y - 1
      <4>1. - z - 1 \in Nat \ {0} /\ z = - (- z - 1) - 1
        BY <1>2, <2>1, <2>4
      <4> QED
        BY <4>1
    <3>2. y * p >= y /\ z * p = - (y * p) - p
      BY <1>4, <3>1
    <3> QED
      BY <1>2, <1>4, <2>2, <2>4, <3>1, <3>2
  <2> QED
    BY <1>2, <2>1, <2>3, <2>4
<1>6. ASSUME NEW i \in BitIndex PROVE Bit(z, i) = Bit(w, i)
  <2>1. Bit(w, i) = IF i + c \in BitIndex THEN Bit(a, i + c) ELSE Bit(a, WordBits - 1)
    BY DEF Asr, c
  <2>2. WordBits - 1 \in BitIndex
    BY Widths DEF BitIndex
  <2>3. CASE i + c \in BitIndex
    BY <1>1, <1>2, <2>1, <2>3, BitOfQuotient, BitOfSigned DEF s
  <2>4. CASE i + c \notin BitIndex
    <3>1. WordBits - 1 \in i .. WordBits /\ i + c >= WordBits - 1
      BY <1>1, <2>4, Widths DEF BitIndex
    <3>2. p * 2 ^ i \in Nat \ {0} /\ p * 2 ^ i >= Half
      BY <1>1, <3>1, PowerAtLeast DEF Half
    <3>3. s \div (p * 2 ^ i) = s \div Half
      <4>1. Half >= Half
        BY <1>2
      <4> QED
        BY <1>2, <3>2, <4>1, SignQuotient
    <3>4. Bit(z, i) = (s \div (p * 2 ^ i)) % 2
      BY <1>1, <1>2, BitOfQuotient
    <3>5. Bit(s, WordBits - 1) = (s \div Half) % 2
      BY DEF Bit, Half
    <3>6. Bit(s, WordBits - 1) = Bit(a, WordBits - 1)
      BY <2>2, BitOfSigned DEF s
    <3> QED
      BY <2>1, <2>4, <3>3, <3>4, <3>5, <3>6
  <2> QED
    BY <2>3, <2>4
<1>7. z = Signed(w)
  <2> HIDE DEF z
  <2> QED
    BY <1>3, <1>5, <1>6, ValueByBits
<1> QED
  BY <1>1, <1>7 DEF s, c

LEMMA LsrMeans ==
    ASSUME NEW a \in Word, NEW n \in Word, NEW w \in Lsr(a, n)
    PROVE  Meant!Norm(Meant!Unsigned(Signed(a)) \div 2 ^ Meant!Places(Signed(n))) = Signed(w)
<1> DEFINE c == Count(n)
           p == 2 ^ c
           z == a \div p
<1>1. /\ c \in BitIndex /\ Meant!Places(Signed(n)) = c
      /\ Meant!Unsigned(Signed(a)) = a
  BY PlacesIs, UnsignedIs
<1>2. a \in Int /\ a \in 0 .. Base - 1 /\ Base \in Nat \ {0}
  BY BaseIsPositive DEF Word
<1>3. w \in Word
  BY DEF Lsr
<1> HIDE DEF c
<1>4. z \in Int
  BY <1>1, <1>2, BitOfQuotient
<1>5. ASSUME NEW i \in BitIndex PROVE Bit(z, i) = Bit(w, i)
  <2>1. Bit(w, i) = IF i + c \in BitIndex THEN Bit(a, i + c) ELSE 0
    BY DEF Lsr, c
  <2>2. CASE i + c \in BitIndex
    BY <1>1, <1>2, <2>1, <2>2, BitOfQuotient
  <2>3. CASE i + c \notin BitIndex
    <3>1. WordBits \in i .. WordBits /\ i + c >= WordBits
      BY <1>1, <2>3, Widths DEF BitIndex
    <3> DEFINE q == p * 2 ^ i
    <3>2. q \in Nat \ {0} /\ q >= Base
      BY <1>1, <3>1, PowerAtLeast DEF Base
    <3>3. Bit(z, i) = (a \div q) % 2
      BY <1>1, <1>2, BitOfQuotient
    <3> HIDE DEF q
    <3>4. a \div q = 0
      <4>1. a \in 0 .. q - 1 /\ a = 0 * q + a
        BY <1>2, <3>2
      <4> QED
        BY <1>2, <3>2, <4>1, QuotientIs
    <3> QED
      BY <2>1, <2>3, <3>3, <3>4
  <2> QED
    BY <2>2, <2>3
<1>6. Meant!Norm(z) = Signed(w)
  <2> HIDE DEF z
  <2> QED
    BY <1>3, <1>4, <1>5, NormByBits
<1> QED
  BY <1>1, <1>6 DEF c

LEMMA LslMeans ==
    ASSUME NEW a \in Word, NEW n \in Word, NEW w \in Lsl(a, n)
    PROVE  Meant!Norm(Signed(a) * 2 ^ Meant!Places(Signed(n))) = Signed(w)
<1> DEFINE s == Signed(a)
           c == Count(n)
           p == 2 ^ c
           y == s * p
<1>1. c \in BitIndex /\ Meant!Places(Signed(n)) = c
  BY PlacesIs
<1>2. s \in Int
  BY SignedIsInteger
<1>3. w \in Word
  BY DEF Lsl
<1> HIDE DEF c, s
<1>4. c \in 0 .. WordBits /\ p \in Nat \ {0}
  BY <1>1, PowerNext, Widths DEF BitIndex
<1>5. y \in Int
  BY <1>2, <1>4
<1>6. ASSUME NEW i \in BitIndex PROVE Bit(y, i) = Bit(w, i)
  <2>1. Bit(w, i) = IF i - c \in BitIndex THEN Bit(a, i - c) ELSE 0
    BY DEF Lsl, c
  <2>2. i \in 0 .. WordBits /\ i \in Nat /\ c \in Nat /\ i < WordBits
    BY <1>4, Widths DEF BitIndex
  <2>3. CASE i >= c
    <3> DEFINE j == i - c
    <3>1. j \in BitIndex /\ j \in Nat /\ c + j = i /\ j \in 0 .. WordBits /\ i <= WordBits
      BY <2>2, <2>3, Widths DEF BitIndex
    <3> HIDE DEF j
    <3>2. 2 ^ i = p * 2 ^ j /\ 2 ^ j \in Nat \ {0}
      BY <2>2, <3>1, PowerSum, PowerNext
    <3>3. y \div p = s
      <4>1. 0 \in 0 .. p - 1 /\ y = s * p + 0
        BY <1>2, <1>4
      <4> HIDE DEF y, p
      <4> QED
        BY <1>2, <1>4, <1>5, <4>1, QuotientIs
    <3>4. y \div 2 ^ i = s \div 2 ^ j
      <4> HIDE DEF y, p
      <4>1. (y \div p) \div 2 ^ j = y \div (p * 2 ^ j)
        BY <1>4, <1>5, <3>2, QuotientTwice
      <4> QED
        BY <3>2, <3>3, <4>1
    <3>5. Bit(y, i) = Bit(s, j)
      BY <3>4 DEF Bit
    <3>6. Bit(s, j) = Bit(a, j)
      BY <3>1, BitOfSigned DEF s
    <3> QED
      BY <2>1, <3>1, <3>5, <3>6 DEF j
  <2>4. CASE i < c
    <3> DEFINE j == c - i - 1
               h == 2 ^ j
               m == s * h
    <3>1. j \in Nat /\ j \in 0 .. WordBits /\ j + 1 \in Nat /\ i + (j + 1) = c /\ c <= WordBits
      BY <1>4, <2>2, <2>4, Widths
    <3> HIDE DEF j
    <3>2. p = 2 ^ i * 2 ^ (j + 1) /\ 2 ^ (j + 1) = 2 * h /\ h \in Nat /\ 2 ^ i \in Nat \ {0}
      BY <2>2, <3>1, PowerSum, PowerNext
    <3> DEFINE q == 2 ^ i
    <3>3. m \in Int /\ 2 * m \in Int /\ q \in Nat \ {0} /\ p = q * (2 * h)
      BY <1>2, <3>2
    <3> HIDE DEF p, q, h
    <3>4. y = (2 * m) * q + 0
      BY <1>2, <3>2, <3>3
    <3> HIDE DEF y, m
    <3>5. y \div q = 2 * m
      <4>1. 0 \in 0 .. q - 1
        BY <3>3
      <4> QED
        BY <1>5, <3>3, <3>4, <4>1, QuotientIs
    <3>6. (2 * m) % 2 = 0
      BY <3>3
    <3>7. i - c \notin BitIndex
      BY <2>2, <2>4 DEF BitIndex
    <3> QED
      BY <2>1, <3>5, <3>6, <3>7 DEF Bit, q
  <2> QED
    BY <2>2, <2>3, <2>4
<1>7. Meant!Norm(y) = Signed(w)
  <2> HIDE DEF y
  <2> QED
    BY <1>3, <1>5, <1>6, NormByBits
<1> QED
  BY <1>1, <1>7 DEF s, c

(* Whatever the word that a computing command leaves, it is the bit        *)
(* pattern of what the command means.                                      *)
LEMMA ResultMeans ==
    ASSUME NEW a \in Word, NEW b \in Word, NEW type, NEW w \in Results(type, a, b),
           type \in {"MOV", "ADD", "SUB", "AND", "ORR", "EOR", "ASR", "LSR", "LSL"}, NEW y,
           y = IF type = "MOV" THEN 0 ELSE Signed(b)
    PROVE  Meant!Meaning(type, Signed(a), y) = Signed(w)
<1>1. CASE type = "MOV"
  BY <1>1 DEF Results, Meant!Meaning
<1>2. CASE type \in {"ADD", "SUB"}
  BY <1>2, SumMeans DEF Results, Meant!Meaning
<1>3. CASE type = "AND"
  BY <1>3, BandMeans DEF Results, Meant!Meaning
<1>4. CASE type = "ORR"
  BY <1>4, BorMeans DEF Results, Meant!Meaning
<1>5. CASE type = "EOR"
  BY <1>5, BxorMeans DEF Results, Meant!Meaning
<1>6. CASE type = "ASR"
  BY <1>6, AsrMeans DEF Results, Meant!Meaning
<1>7. CASE type = "LSR"
  BY <1>7, LsrMeans DEF Results, Meant!Meaning
<1>8. CASE type = "LSL"
  BY <1>8, LslMeans DEF Results, Meant!Meaning
<1> QED
  BY <1>1, <1>2, <1>3, <1>4, <1>5, <1>6, <1>7, <1>8

-----------------------------------------------------------------------------
(* Bytes.                                                                  *)

(* What a word is divided by to shift it right by i bytes. *)
Above(i) == 2 ^ (ByteBits * i)
Radix == 2 ^ ByteBits

LEMMA AboveIs ==
    /\ \A i \in 0 .. WordBytes : Above(i) \in Nat \ {0} /\ Radix ^ i = Above(i)
    /\ \A i \in ByteIndex : Above(i + 1) = Above(i) * Radix
    /\ Above(0) = 1 /\ Above(WordBytes) = Base /\ Radix \in Nat \ {0}
<1>1. \A i \in 0 .. WordBytes : Above(i) \in Nat \ {0} /\ Radix ^ i = Above(i)
  BY BytePower, PowerNext DEF Above, Radix
<1>2. Radix \in Nat \ {0}
  BY Widths, PowerNext DEF Radix
<1>3. ASSUME NEW i \in ByteIndex PROVE Above(i + 1) = Above(i) * Radix
  <2>1. i \in 0 .. WordBytes /\ i \in 0 .. WordBits /\ i + 1 \in 0 .. WordBytes
    BY Widths DEF ByteIndex
  <2>2. Radix ^ (i + 1) = Radix * Radix ^ i
    BY <2>1, PowersAssumption DEF Radix
  <2>3. Radix ^ (i + 1) = Above(i + 1) /\ Radix ^ i = Above(i) /\ Above(i) \in Nat
    BY <1>1, <2>1
  <2> QED
    BY <1>2, <2>2, <2>3
<1>4. Above(0) = 1
  <2>1. ByteBits * 0 = 0
    BY Widths
  <2> QED
    BY <2>1, PowerNext DEF Above
<1>5. Above(WordBytes) = Base
  BY Widths DEF Above, Base
<1> QED
  BY <1>1, <1>2, <1>3, <1>4, <1>5

LEMMA ByteMeans ==
    ASSUME NEW w \in Word, NEW i \in ByteIndex
    PROVE  Meant!ByteAt(Signed(w), i) = ByteOf(w, i)
<1> DEFINE d == Above(i)
           m == Radix
           j == WordBytes - i - 1
           h == Above(j)
<1>1. PICK k \in Int : Signed(w) = w + k * Base
  BY SignedIs
<1>2. d \in Nat \ {0} /\ m ^ i = d /\ m \in Nat \ {0} /\ i \in Nat /\ w \in Int
  BY AboveIs, Widths, BaseIsPositive DEF ByteIndex, Word
<1>3. h \in Nat \ {0} /\ Base = d * (h * m)
  <2>1. j \in ByteIndex /\ j \in 0 .. WordBytes /\ j + 1 = WordBytes - i
    BY Widths DEF ByteIndex
  <2>2. Above(j + 1) = h * m /\ h \in Nat \ {0}
    BY <2>1, AboveIs
  <2>3. Base = d * Above(j + 1)
    <3> DEFINE p == ByteBits * i
               q == ByteBits * (j + 1)
    <3>1. p \in Nat /\ q \in Nat /\ p + q = WordBits
      BY <2>1, Widths DEF ByteIndex
    <3> HIDE DEF p, q
    <3>2. 2 ^ (p + q) = 2 ^ p * 2 ^ q
      BY <3>1, PowerSum, Widths
    <3> QED
      BY <3>1, <3>2 DEF Base, Above, p, q
  <2> QED
    BY <2>2, <2>3
<1> HIDE DEF d, m, j, h
<1> DEFINE n == k * h
           o == n * m
<1>4. n \in Int /\ o \in Int /\ Signed(w) = w + o * d
  BY <1>1, <1>2, <1>3
<1> HIDE DEF n
<1>5. Signed(w) \div d = w \div d + n * m
  <2> HIDE DEF o
  <2>1. (w + o * d) \div d = w \div d + o
    BY <1>2, <1>4, QuotientOfSum
  <2> QED
    BY <1>4, <2>1 DEF o
<1>6. w \div d \in Int
  BY <1>2, Quotient
<1>7. (w \div d + n * m) % m = (w \div d) % m
  BY <1>2, <1>4, <1>6, QuotientOfSum
<1> QED
  BY <1>2, <1>5, <1>7 DEF Meant!ByteAt, ByteOf, d, m, Above, Radix

(* The bytes that a load yields spell its word. *)
LEMMA NumberMeans ==
    ASSUME NEW w \in Word, NEW n \in 1 .. WordBytes, NEW x \in Nat,
           \A i \in ByteIndex : ByteOf(w, i) = IF i < n THEN mem[x + i] ELSE 0
    PROVE  Meant!Number(x, n) = w
<1> DEFINE m == Radix
           Spells(f) == f = [i \in 0 .. n |-> IF i = n THEN 0 ELSE mem[x + i] + m * f[i + 1]]
           g == [i \in 0 .. n |-> w \div Above(i)]
           f == CHOOSE f : Spells(f)
<1>1. Meant!Number(x, n) = f[0]
  BY DEF Meant!Number, Radix
<1>2. w \in Int /\ w \in 0 .. Base - 1 /\ Base \in Nat \ {0}
  BY BaseIsPositive DEF Word
<1>3. m \in Nat \ {0} /\ n \in 0 .. WordBytes /\ n \in Nat
  BY AboveIs, Widths
<1> HIDE DEF m
<1>4. ASSUME NEW i \in ByteIndex
      PROVE  w \div Above(i) = ByteOf(w, i) + m * (w \div Above(i + 1))
  <2> DEFINE d == Above(i)
             q == w \div d
  <2>1. d \in Nat \ {0} /\ Above(i + 1) = d * m
    BY AboveIs, Widths DEF ByteIndex, m
  <2>2. ByteOf(w, i) = q % m
    BY DEF ByteOf, Above, Radix, m
  <2> HIDE DEF d
  <2>3. q \in Int /\ q \div m = w \div (d * m)
    BY <1>2, <1>3, <2>1, Quotient, QuotientTwice
  <2> HIDE DEF q
  <2>4. q = (q \div m) * m + (q % m) /\ q \div m \in Int /\ q % m \in 0 .. m - 1
    BY <1>3, <2>3, Quotient, Zenon
  <2>5. q = (q % m) + m * (q \div m)
    BY <1>3, <2>4
  <2> QED
    BY <2>1, <2>2, <2>3, <2>5 DEF d, q
<1>5. w \div Above(n) = 0
  <2> DEFINE S == {i \in 0 .. WordBytes : i >= n => w \div Above(i) = 0}
  <2>1. WordBytes \in S
    <3>1. w = 0 * Base + w
      BY <1>2
    <3>2. w \div Base = 0
      BY <1>2, <3>1, QuotientIs
    <3> QED
      BY <3>2, AboveIs, Widths
  <2>2. ASSUME NEW i \in 0 .. WordBytes - 1, i + 1 \in S PROVE i \in S
    <3>1. i \in ByteIndex /\ i \in 0 .. WordBytes
      BY Widths DEF ByteIndex
    <3>2. ASSUME i >= n PROVE w \div Above(i) = 0
      <4>1. w \div Above(i + 1) = 0 /\ ByteOf(w, i) = 0
        BY <1>3, <2>2, <3>1, <3>2
      <4> QED
        BY <1>3, <1>4, <3>1, <4>1
    <3> QED
      BY <3>1, <3>2
  <2>3. \A i \in 0 .. WordBytes : i \in S
    <3> HIDE DEF S
    <3> QED
      BY <2>1, <2>2, Downward, Widths
  <2> QED
    BY <1>3, <2>3
<1>6. ASSUME NEW i \in 0 .. n - 1
      PROVE  w \div Above(i) = mem[x + i] + m * (w \div Above(i + 1))
  <2>1. i \in ByteIndex /\ i < n
    BY <1>3, Widths DEF ByteIndex
  <2> QED
    BY <1>4, <2>1
<1>7. Spells(g)
  <2>1. \A i \in 0 .. n : i = n \/ (i \in 0 .. n - 1 /\ i + 1 \in 0 .. n)
    BY <1>3
  <2> QED
    BY <1>5, <1>6, <2>1
<1>8. Spells(f)
  <2> HIDE DEF Spells, g
  <2> QED
    BY <1>7
<1> HIDE DEF f
<1>9. f[n] = 0 /\ \A i \in 0 .. n - 1 : f[i] = mem[x + i] + m * f[i + 1]
  <2>1. n \in 0 .. n /\ \A i \in 0 .. n - 1 : i \in 0 .. n /\ i # n
    BY <1>3
  <2>2. \A i \in 0 .. n : f[i] = IF i = n THEN 0 ELSE mem[x + i] + m * f[i + 1]
    BY <1>8
  <2> QED
    BY <2>1, <2>2
<1>10. \A i \in 0 .. n : f[i] = w \div Above(i)
  <2> DEFINE S == {i \in 0 .. n : f[i] = w \div Above(i)}
  <2>1. n \in S
    BY <1>3, <1>5, <1>9
  <2>2. ASSUME NEW i \in 0 .. n - 1, i + 1 \in S PROVE i \in S
    BY <1>3, <1>6, <1>9, <2>2
  <2>3. \A i \in 0 .. n : i \in S
    <3> HIDE DEF S
    <3> QED
      BY <1>3, <2>1, <2>2, Downward
  <2> QED
    BY <2>3
<1>11. f[0] = w
  <2>1. w \div 1 = w
    BY <1>2
  <2>2. 0 \in 0 .. n
    BY <1>3
  <2> QED
    BY <1>10, <2>1, <2>2, AboveIs
<1> QED
  BY <1>1, <1>11

-----------------------------------------------------------------------------
(* Texts.                                                                  *)

(* A text ends at its n-th character: the first zero or the end of memory. *)
TextEnds(x, n) == /\ n \in 0 .. MemCapacity - x
                  /\ \A i \in 0 .. n - 1 : mem[x + i] # 0
                  /\ x + n \in Location => mem[x + n] = 0

LEMMA TextLengthIs ==
    ASSUME NEW x \in 0 .. MemCapacity
    PROVE  /\ TextEnds(x, TextLength(x))
           /\ \A n : TextEnds(x, n) => n = TextLength(x)
<1> DEFINE R == {n \in 0 .. MemCapacity - x : x + n \in Location => mem[x + n] = 0}
           m == MemCapacity - x
<1>1. m \in Nat /\ x \in Nat /\ x + m = MemCapacity /\ MemCapacity \in Nat
  BY Capacity
<1>2. m \in R /\ R \in SUBSET Nat
  BY <1>1 DEF Location
<1>3. PICK n \in R : \A k \in R : n <= k
  <2> HIDE DEF R
  <2> QED
    BY <1>2, LeastNumber
<1>4. TextEnds(x, n)
  <2>1. ASSUME NEW i \in 0 .. n - 1 PROVE mem[x + i] # 0
    <3>1. i \notin R /\ i \in 0 .. m
      BY <1>1, <1>3
    <3> QED
      BY <3>1
  <2> QED
    BY <1>1, <1>3, <2>1 DEF TextEnds
<1>5. ASSUME NEW j, NEW k, TextEnds(x, j), TextEnds(x, k), j < k PROVE FALSE
  <2>1. j \in 0 .. k - 1 /\ x + j \in Location
    BY <1>1, <1>5 DEF TextEnds, Location
  <2> QED
    BY <1>5, <2>1 DEF TextEnds
<1>6. ASSUME NEW j, NEW k, TextEnds(x, j), TextEnds(x, k) PROVE j = k
  <2>1. j \in Int /\ k \in Int
    BY <1>1, <1>6 DEF TextEnds
  <2>2. ~(j < k) /\ ~(k < j)
    BY <1>5, <1>6
  <2> QED
    BY <2>1, <2>2
<1>7. TextLength(x) = CHOOSE k : k \in 0 .. m /\ TextEnds(x, k)
  BY DEF TextLength, TextEnds
<1>8. TextEnds(x, TextLength(x))
  <2>1. n \in 0 .. m
    BY <1>1, <1>3
  <2> QED
    BY <1>4, <1>7, <2>1
<1> QED
  BY <1>6, <1>8

LEMMA TextLengthNext ==
    ASSUME NEW x \in Location
    PROVE  TextLength(x) = IF mem[x] = 0 THEN 0 ELSE 1 + TextLength(x + 1)
<1>1. x \in 0 .. MemCapacity /\ x + 1 \in 0 .. MemCapacity /\ x + 0 = x /\ x \in Nat
      /\ MemCapacity \in Nat
  BY Capacity DEF Location
<1>2. CASE mem[x] = 0
  <2>1. TextEnds(x, 0)
    BY <1>1, <1>2 DEF TextEnds
  <2> QED
    BY <1>1, <1>2, <2>1, TextLengthIs
<1>3. CASE mem[x] # 0
  <2>1. PICK n : n = TextLength(x + 1) /\ TextEnds(x + 1, n)
    BY <1>1, TextLengthIs
  <2>2. /\ n \in 0 .. MemCapacity - (x + 1) /\ x + (1 + n) = (x + 1) + n
        /\ (x + 1) + n \in Location => mem[(x + 1) + n] = 0
    BY <1>1, <2>1 DEF TextEnds
  <2>3. ASSUME NEW i \in 0 .. (1 + n) - 1 PROVE mem[x + i] # 0
    <3>1. CASE i = 0
      BY <1>1, <1>3, <3>1
    <3>2. CASE i # 0
      <4>1. i - 1 \in 0 .. n - 1 /\ (x + 1) + (i - 1) = x + i
        BY <1>1, <2>2, <3>2
      <4>2. mem[(x + 1) + (i - 1)] # 0
        BY <2>1, <4>1 DEF TextEnds
      <4> QED
        BY <4>1, <4>2
    <3> QED
      BY <3>1, <3>2
  <2>4. 1 + n \in 0 .. MemCapacity - x
    BY <1>1, <2>2
  <2>5. TextEnds(x, 1 + n)
    BY <2>2, <2>3, <2>4 DEF TextEnds
  <2> QED
    BY <1>1, <1>3, <2>1, <2>5, TextLengthIs
<1> QED
  BY <1>2, <1>3

(* The characters that print finds are the text that Asml spells out.      *)
LEMMA TextMeans ==
    ASSUME NEW x \in Location
    PROVE  Meant!TextFrom[x] = [i \in 1 .. TextLength(x) |-> mem[x + i - 1]]
<1> DEFINE Chars(y) == [i \in 1 .. TextLength(y) |-> mem[y + i - 1]]
           IsText(f) == f = [y \in 0 .. MemCapacity |->
                                IF y = MemCapacity THEN <<>>
                                ELSE IF mem[y] = 0 THEN <<>> ELSE <<mem[y]>> \o f[y + 1]]
           g == [y \in 0 .. MemCapacity |-> Chars(y)]
           f == CHOOSE f : IsText(f)
<1>1. Meant!TextFrom = f
  BY DEF Meant!TextFrom
<1>2. MemCapacity \in Nat
  BY Capacity
<1>3. Chars(MemCapacity) = <<>>
  <2>1. TextLength(MemCapacity) = 0
    BY <1>2, TextLengthIs DEF TextEnds
  <2> QED
    BY <2>1
<1>4. ASSUME NEW y \in Location
      PROVE  Chars(y) = IF mem[y] = 0 THEN <<>> ELSE <<mem[y]>> \o Chars(y + 1)
  <2>1. CASE mem[y] = 0
    BY <2>1, TextLengthNext
  <2>2. CASE mem[y] # 0
    <3>1. y + 1 \in 0 .. MemCapacity /\ y \in Nat
      BY <1>2 DEF Location
    <3>2. PICK n \in Nat : n = TextLength(y + 1)
      BY <1>2, <3>1, TextLengthIs DEF TextEnds
    <3>3. TextLength(y) = 1 + n
      BY <2>2, <3>2, TextLengthNext
    <3> DEFINE S == {mem[z] : z \in Int}
               a == [i \in 1 .. 1 + n |-> mem[y + i - 1]]
               b == [i \in 1 .. n |-> mem[(y + 1) + i - 1]]
    <3>4. a \in Seq(S) /\ b \in Seq(S) /\ mem[y] \in S
      BY <3>1
    <3>5. Len(a) = 1 + n /\ Len(b) = n
      OBVIOUS
    <3>6. a[1] = mem[y] /\ \A i \in 1 .. n : a[i + 1] = b[i]
      BY <3>1
    <3> HIDE DEF a, b, S
    <3>7. a = <<mem[y]>> \o b
      BY <3>4, <3>5, <3>6
    <3> QED
      BY <2>2, <3>2, <3>3, <3>7 DEF a, b
  <2> QED
    BY <2>1, <2>2
<1> HIDE DEF Chars
<1>5. \A y \in 0 .. MemCapacity : y = MemCapacity \/ (y \in Location /\ y + 1 \in 0 .. MemCapacity)
  BY <1>2 DEF Location
<1>6. IsText(g)
  BY <1>3, <1>4, <1>5
<1>7. IsText(f)
  <2> HIDE DEF IsText, g
  <2> QED
    BY <1>6
<1> HIDE DEF f
<1>8. \A y \in 0 .. MemCapacity : f[y] = Chars(y)
  <2> DEFINE S == {y \in 0 .. MemCapacity : f[y] = Chars(y)}
  <2>1. MemCapacity \in S
    BY <1>2, <1>3, <1>7
  <2>2. ASSUME NEW y \in 0 .. MemCapacity - 1, y + 1 \in S PROVE y \in S
    <3>1. y \in Location /\ y \in 0 .. MemCapacity /\ y # MemCapacity
      BY <1>2 DEF Location
    <3>2. f[y] = IF mem[y] = 0 THEN <<>> ELSE <<mem[y]>> \o f[y + 1]
      BY <1>7, <3>1
    <3> QED
      BY <1>4, <2>2, <3>1, <3>2
  <2>3. \A y \in 0 .. MemCapacity : y \in S
    <3> HIDE DEF S
    <3> QED
      BY <1>2, <2>1, <2>2, Downward
  <2> QED
    BY <2>3
<1>9. x \in 0 .. MemCapacity
  BY <1>2 DEF Location
<1> QED
  BY <1>1, <1>8, <1>9 DEF Chars

-----------------------------------------------------------------------------
(* What the state stands for.                                              *)

RegsNow == [r \in VarIndex |-> Signed(variables[r])]
RelationNow == IF is_greater THEN "greater" ELSE IF is_less THEN "less"
               ELSE IF is_equal THEN "equal" ELSE "none"
CallNow(a) == [saved |-> [r \in VarIndex |-> Signed(frames[a].variables[r])],
               return |-> frames[a].return_address]
CallsNow == IF ~running THEN <<>> ELSE [i \in DOMAIN chain |-> CallNow(chain[i])]

LEMMA IndexIs == Meant!VarIndex = VarIndex /\ Meant!Location = Location
BY DEF Meant!VarIndex, VarIndex, Meant!Location, Location

LEMMA CommandMeans ==
    ASSUME running
    PROVE  /\ Meant!cmd = cmd
           /\ \A types : Meant!Is(types) <=> cmd.type \in types
<1>1. Meant!cmd = cmd
  BY DEF Meant!cmd, cmd
<1> QED
  BY <1>1, Zenon DEF Meant!Is

(* An operand is worth its word read as a signed integer.                  *)
LEMMA OperandMeans ==
    ASSUME variables \in [VarIndex -> Word], NEW op \in VarOp \cup ImmOp
    PROVE  Meant!Operand(op) = Signed(ValueOf(op))
<1>1. CASE op \in VarOp
  <2>1. op.type = "VAR" /\ op.var \in VarIndex
    BY <1>1 DEF VarOp
  <2>2. Meant!Operand(op) = [r \in VarIndex |-> Signed(variables[r])][op.var]
    BY <2>1 DEF Meant!Operand
  <2> QED
    BY <2>1, <2>2 DEF ValueOf
<1>2. CASE op \in ImmOp
  <2>1. op.type # "VAR" /\ op.imm \in Word
    BY <1>2 DEF ImmOp
  <2> QED
    BY <2>1, NormOfWord DEF Meant!Operand, ValueOf
<1> QED
  BY <1>1, <1>2

(* Where control goes, and with which calls pending.                       *)
LEMMA GotoMeans ==
    ASSUME ControlOK, running, NEW c, GoTo(c), NEW cs, c # 0 => CallsNow' = cs
    PROVE  Meant!Goto(c, cs)
<1>1. current' = c /\ running' = (c # 0) /\ ~had_error /\ ~had_error' /\ prog' = prog
  BY DEF ControlOK, GoTo
<1>2. CASE c = 0
  BY <1>1, <1>2 DEF Meant!Goto
<1>3. CASE c # 0
  BY <1>1, <1>3 DEF Meant!Goto, CallsNow, CallNow
<1> QED
  BY <1>2, <1>3

LEMMA KeepsCalls ==
    ASSUME running, UNCHANGED calls, running'
    PROVE  CallsNow' = CallsNow
BY DEF CallsNow, CallNow, calls

LEMMA AfterMeans ==
    ASSUME running
    PROVE  Meant!After = NextOf(current)
BY DEF Meant!After, NextOf

LEMMA AdvanceMeans ==
    ASSUME ControlOK, running, Advance
    PROVE  Meant!Continue
<1>1. GoTo(NextOf(current)) /\ UNCHANGED calls
  BY DEF Advance
<1>2. NextOf(current) # 0 => CallsNow' = CallsNow
  BY <1>1, KeepsCalls DEF GoTo
<1>3. PICK c : c = NextOf(current)
  OBVIOUS
<1>4. PICK cs : cs = CallsNow
  OBVIOUS
<1>5. Meant!Goto(c, cs)
  BY <1>1, <1>2, <1>3, <1>4, GotoMeans
<1> QED
  BY <1>3, <1>4, <1>5, AfterMeans DEF Meant!Continue, Meant!Goto, CallsNow, CallNow

LEMMA FailMeans ==
    ASSUME Fail
    PROVE  Meant!Error
BY DEF Fail, Meant!Error

LEMMA KeepsRegs ==
    ASSUME UNCHANGED variables
    PROVE  RegsNow' = RegsNow
BY DEF RegsNow

LEMMA KeepsRelation ==
    ASSUME UNCHANGED flags
    PROVE  RelationNow' = RelationNow
BY DEF RelationNow, flags

-----------------------------------------------------------------------------
(* Every command does what it means.                                       *)

LEMMA NopMeans ==
    ASSUME IInv, CMD_NOP
    PROVE  Meant!Nop
<1>1. running /\ cmd.type = "NOP" /\ Advance /\ Quiet
  BY DEF CMD_NOP, Executes
<1>2. RegsNow' = RegsNow /\ RelationNow' = RelationNow /\ mem' = mem
  BY KeepsRegs, KeepsRelation DEF CMD_NOP, KeepFlags, KeepMemory
<1>3. Meant!Is({"NOP"}) /\ Meant!Continue /\ Meant!Silent
  BY <1>1, CommandMeans, AdvanceMeans DEF IInv, Meant!Silent, Meant!Nothing, Nothing, Quiet
<1> QED
  BY <1>2, <1>3 DEF Meant!Nop, RegsNow, RelationNow

(* A result of ResultMeans in the place of the destination.               *)
LEMMA ComputesMeans ==
    ASSUME IInv,
           NEW types \in SUBSET {"MOV", "ADD", "SUB", "AND", "ORR", "EOR", "ASR", "LSR", "LSL"},
           NEW b \in Word, Computes(types, b),
           cmd.type # "MOV" => cmd.val_b \in VarOp \cup ImmOp /\ b = ValueOf(cmd.val_b)
    PROVE  Meant!Compute
<1>1. /\ running /\ cmd.type \in types /\ Advance /\ Quiet
      /\ cmd \in Command /\ variables \in [VarIndex -> Word]
  BY CommandAtCurrent DEF Computes, Executes, IInv, DataOK
<1>2. RelationNow' = RelationNow /\ mem' = mem
  BY KeepsRelation DEF Computes, KeepFlags, KeepMemory
<1>3. /\ Meant!Is({"MOV", "ADD", "SUB", "AND", "ORR", "EOR", "ASR", "LSR", "LSL"})
      /\ Meant!Continue /\ Meant!Silent /\ Meant!cmd = cmd
  BY <1>1, CommandMeans, AdvanceMeans DEF IInv, Meant!Silent, Meant!Nothing, Nothing, Quiet
<1>4. PICK a \in Word : a = ValueOf(cmd.val_a) /\ Meant!Operand(cmd.val_a) = Signed(a)
  BY <1>1, FirstOperandOfCommand, ValueIsWord, OperandMeans
<1>5. PICK w \in Results(cmd.type, a, b) :
          variables' = [variables EXCEPT ![cmd.destination.var] = w]
  BY <1>4 DEF Computes, SetDestination
<1>6. w \in Word /\ cmd.destination.var \in VarIndex
  BY <1>1, <1>4, <1>5, ResultsAreWords, DestinationOfCommand
<1>7. PICK y : y = IF cmd.type = "MOV" THEN 0 ELSE Meant!Operand(cmd.val_b)
  OBVIOUS
<1>8. y = IF cmd.type = "MOV" THEN 0 ELSE Signed(b)
  BY <1>1, <1>7, OperandMeans
<1>9. Meant!Meaning(cmd.type, Signed(a), y) = Signed(w)
  <2>1. PICK type : type = cmd.type
    OBVIOUS
  <2>2. /\ type \in {"MOV", "ADD", "SUB", "AND", "ORR", "EOR", "ASR", "LSR", "LSL"}
        /\ w \in Results(type, a, b) /\ y = IF type = "MOV" THEN 0 ELSE Signed(b)
    BY <1>1, <1>5, <1>8, <2>1
  <2>3. Meant!Meaning(type, Signed(a), y) = Signed(w)
    BY <2>2, ResultMeans
  <2> QED
    BY <2>1, <2>3
<1>10. RegsNow' = [RegsNow EXCEPT ![cmd.destination.var] = Signed(w)]
  BY <1>1, <1>5, <1>6 DEF RegsNow
<1> QED
  BY <1>2, <1>3, <1>4, <1>7, <1>9, <1>10 DEF Meant!Compute, RegsNow, RelationNow

LEMMA ComputeMeans ==
    ASSUME IInv, CMD_MOV \/ CMD_ADD_SUB \/ CMD_BITWISE \/ CMD_SHIFT
    PROVE  Meant!Compute
<1>1. cmd \in Command /\ variables \in [VarIndex -> Word] /\ 0 \in Word
  BY CommandAtCurrent, BaseIsPositive
     DEF CMD_MOV, CMD_ADD_SUB, CMD_BITWISE, CMD_SHIFT, Computes, Executes, IInv, DataOK, Word
<1>2. CASE CMD_MOV
  BY <1>1, <1>2, ComputesMeans DEF CMD_MOV, Computes, Executes
<1>3. CASE CMD_ADD_SUB
  BY <1>1, <1>3, ComputesMeans, SecondOperandOfCommand, ValueIsWord
     DEF CMD_ADD_SUB, Computes, Executes
<1>4. CASE CMD_BITWISE
  <2>1. /\ cmd.type \in {"AND", "ORR", "EOR"} /\ cmd.val_b \in VarOp
        /\ variables[cmd.val_b.var] \in Word /\ variables[cmd.val_b.var] = ValueOf(cmd.val_b)
    BY <1>1, <1>4, SecondOperandOfCommand DEF CMD_BITWISE, Computes, Executes, VarOp, ValueOf
  <2> QED
    BY <1>4, <2>1, ComputesMeans DEF CMD_BITWISE
<1>5. CASE CMD_SHIFT
  <2>1. /\ cmd.type \in {"ASR", "LSR", "LSL"} /\ cmd.val_b \in ImmOp
        /\ cmd.val_b.imm \in Word /\ cmd.val_b.imm = ValueOf(cmd.val_b)
    BY <1>1, <1>5, SecondOperandOfCommand DEF CMD_SHIFT, Computes, Executes, ImmOp, ValueOf
  <2> QED
    BY <1>5, <2>1, ComputesMeans DEF CMD_SHIFT
<1> QED
  BY <1>2, <1>3, <1>4, <1>5

LEMMA ComparesMeans ==
    ASSUME NEW left \in Int, NEW right \in Int, SetFlags(left, right)
    PROVE  RelationNow' = Meant!Relate(left, right)
<1>1. CASE left < right
  <2>1. ~(left > right)
    BY <1>1
  <2> QED
    BY <1>1, <2>1, Zenon DEF SetFlags, RelationNow, Meant!Relate
<1>2. CASE left > right
  <2>1. ~(left < right)
    BY <1>2
  <2> QED
    BY <1>2, <2>1, Zenon DEF SetFlags, RelationNow, Meant!Relate
<1>3. CASE left = right
  <2>1. ~(left > right) /\ ~(left < right)
    BY <1>3
  <2> QED
    BY <1>3, <2>1, Zenon DEF SetFlags, RelationNow, Meant!Relate
<1> QED
  BY <1>1, <1>2, <1>3

LEMMA CompareMeans ==
    ASSUME IInv, CMD_CMP \/ CMD_CMP_U
    PROVE  Meant!Compare
<1>1. /\ running /\ cmd.type \in {"CMP", "CMP_U"} /\ Advance /\ Quiet
      /\ cmd \in Command /\ variables \in [VarIndex -> Word]
      /\ cmd.type = "CMP" <=> CMD_CMP
      /\ cmd.type = "CMP_U" <=> CMD_CMP_U
  BY CommandAtCurrent DEF CMD_CMP, CMD_CMP_U, Compares, Executes, IInv, DataOK
<1>2. RegsNow' = RegsNow /\ mem' = mem
  BY KeepsRegs DEF CMD_CMP, CMD_CMP_U, Compares, KeepMemory
<1>3. /\ Meant!Is({"CMP", "CMP_U"}) /\ Meant!Continue /\ Meant!Silent /\ Meant!cmd = cmd
  BY <1>1, CommandMeans, AdvanceMeans DEF IInv, Meant!Silent, Meant!Nothing, Nothing, Quiet
<1>4. PICK a \in Word : a = ValueOf(cmd.val_a) /\ Meant!Operand(cmd.val_a) = Signed(a)
  BY <1>1, FirstOperandOfCommand, ValueIsWord, OperandMeans
<1>5. PICK b \in Word : b = ValueOf(cmd.val_b) /\ Meant!Operand(cmd.val_b) = Signed(b)
  BY <1>1, SecondOperandOfCommand, ValueIsWord, OperandMeans
<1>6. Meant!Unsigned(Signed(a)) = a /\ Meant!Unsigned(Signed(b)) = b
  BY UnsignedIs
<1>7. RelationNow' = IF cmd.type = "CMP" THEN Meant!Relate(Signed(a), Signed(b))
                                         ELSE Meant!Relate(a, b)
  <2>1. CASE cmd.type = "CMP"
    BY <1>1, <1>4, <1>5, <2>1, SignedIsInteger, ComparesMeans DEF CMD_CMP, Compares
  <2>2. CASE cmd.type = "CMP_U"
    BY <1>1, <1>4, <1>5, <2>2, SignedIsInteger, ComparesMeans DEF CMD_CMP_U, Compares
  <2> QED
    BY <1>1, <2>1, <2>2
<1> QED
  BY <1>2, <1>3, <1>4, <1>5, <1>6, <1>7 DEF Meant!Compare, RegsNow, RelationNow

(* An address in memory is the same signed or not. *)
LEMMA LocationMeans ==
    ASSUME NEW w \in Word
    PROVE  /\ Signed(w) \in Location <=> w \in Location
           /\ w \in Location => Signed(w) = w
<1>1. Base \in Nat \ {0} /\ w \in 0 .. Base - 1 /\ MemCapacity \in Nat /\ 2 * MemCapacity <= Base
  BY BaseIsPositive, Capacity, MemAssumption DEF Word
<1> QED
  BY <1>1 DEF Signed, Location

LEMMA ShowMeans ==
    ASSUME IInv, CMD_PRINT
    PROVE  Meant!Show
<1>1. /\ running /\ cmd.type = "PRINT" /\ cmd \in Command /\ variables \in [VarIndex -> Word]
  BY CommandAtCurrent DEF CMD_PRINT, Executes, IInv, DataOK
<1>2. RegsNow' = RegsNow /\ RelationNow' = RelationNow /\ mem' = mem
  BY KeepsRegs, KeepsRelation DEF CMD_PRINT, KeepFlags, KeepMemory
<1>3. Meant!Is({"PRINT"}) /\ Meant!cmd = cmd
  BY <1>1, CommandMeans
<1>4. PICK a \in Word : a = ValueOf(cmd.val_a) /\ Meant!Operand(cmd.val_a) = Signed(a)
  BY <1>1, FirstOperandOfCommand, ValueIsWord, OperandMeans
<1>5. PICK base \in Bases : base = cmd.val_b.base
  BY <1>1 DEF Command, BaseOp
<1>6. CASE base = "S" /\ a \notin Location
  <2>1. Fail /\ Quiet
    BY <1>4, <1>5, <1>6 DEF CMD_PRINT
  <2>2. Meant!Error /\ Meant!Silent
    BY <2>1, FailMeans DEF Meant!Silent, Meant!Nothing, Nothing, Quiet
  <2>3. Signed(a) \notin Meant!Location
    BY <1>6, LocationMeans, IndexIs
  <2> QED
    BY <1>2, <1>3, <1>4, <1>5, <1>6, <2>2, <2>3 DEF Meant!Show, RegsNow, RelationNow
<1>7. CASE ~(base = "S" /\ a \notin Location)
  <2>1. Advance /\ printed' = [base |-> base, text |-> Text(base, a)]
    BY <1>4, <1>5, <1>7 DEF CMD_PRINT
  <2>2. Meant!Continue
    BY <1>1, <2>1, AdvanceMeans DEF IInv
  <2>3. ~(base = "S" /\ Signed(a) \notin Meant!Location)
    BY <1>7, LocationMeans, IndexIs
  <2>4. Meant!Say(base, Signed(a)) = Text(base, a)
    <3>1. CASE base = "D"
      BY <3>1 DEF Meant!Say, Text
    <3>2. CASE base \in {"X", "B"}
      BY <3>2, UnsignedIs DEF Meant!Say, Text
    <3>3. CASE base = "S"
      <4>1. a \in Location /\ Signed(a) = a
        BY <1>7, <3>3, LocationMeans
      <4> QED
        BY <3>3, <4>1, TextMeans DEF Meant!Say, Text
    <3> QED
      BY <3>1, <3>2, <3>3 DEF Bases
  <2> QED
    BY <1>2, <1>3, <1>4, <1>5, <1>7, <2>1, <2>2, <2>3, <2>4 DEF Meant!Show, RegsNow, RelationNow
<1> QED
  BY <1>6, <1>7

-----------------------------------------------------------------------------
(* Accesses.                                                               *)

(* An access inside memory has all its bytes one after the other there.    *)
LEMMA InsideFits ==
    ASSUME NEW x \in Word, NEW n \in Nat \ {0}, Inside(x, n)
    PROVE  x \in Location /\ x + n <= MemCapacity
<1>1. \A i \in 0 .. n - 1 : Wrap(x + i) \in Location
  BY DEF Inside, Touched
<1>2. x \in Nat /\ x < Base /\ Base \in Nat \ {0} /\ MemCapacity \in Nat /\ MemCapacity < Base
  BY BaseIsPositive, Capacity DEF Word
<1>3. x \in Location
  <2>1. 0 \in 0 .. n - 1 /\ x + 0 = x
    BY <1>2
  <2> QED
    BY <1>1, <2>1, WrapOnce
<1>4. ASSUME x + n > MemCapacity PROVE FALSE
  <2> DEFINE i == MemCapacity - x
  <2>1. i \in 0 .. n - 1 /\ x + i = MemCapacity /\ MemCapacity \in Word
    BY <1>2, <1>3, <1>4 DEF Location, Word
  <2> HIDE DEF i
  <2>2. Wrap(x + i) = MemCapacity
    BY <2>1, WrapOnce
  <2> QED
    BY <1>1, <2>1, <2>2 DEF Location
<1> QED
  BY <1>2, <1>3, <1>4

(* What the check lets through inside memory is what ASML allows.          *)
LEMMA GoodMeans ==
    ASSUME NEW x \in Word, NEW n \in Word
    PROVE  /\ Meant!Good(Signed(x), n) => Accepts(x, n)
           /\ Accepts(x, n) /\ Inside(x, n) =>
                  /\ Meant!Good(Signed(x), n) /\ Signed(x) = x
                  /\ x \in Location /\ x + n <= MemCapacity /\ n \in 1 .. WordBytes
<1>1. /\ x \in Nat /\ x < Base /\ Base \in Nat \ {0} /\ MemCapacity \in Nat /\ MemCapacity < Base
      /\ ValidBytes \subseteq 1 .. WordBytes /\ WordBytes \in Nat /\ Signed(x) \in Int
  BY BaseIsPositive, Capacity, MemAssumption, Widths, SignedIsInteger DEF Word
<1>2. ASSUME Meant!Good(Signed(x), n) PROVE Accepts(x, n)
  <2>1. n \in ValidBytes /\ Signed(x) >= 0 /\ Signed(x) + n <= MemCapacity
    BY <1>2 DEF Meant!Good
  <2>2. n \in Nat /\ n >= 1
    BY <1>1, <2>1
  <2>3. Signed(x) \in Location
    BY <1>1, <2>1, <2>2 DEF Location
  <2>4. Signed(x) = x /\ x + n \in Word
    BY <1>1, <2>1, <2>2, <2>3, LocationMeans DEF Word
  <2> QED
    BY <2>1, <2>4, WrapOnce DEF Accepts
<1>3. ASSUME Accepts(x, n), Inside(x, n)
      PROVE  /\ Meant!Good(Signed(x), n) /\ Signed(x) = x
             /\ x \in Location /\ x + n <= MemCapacity /\ n \in 1 .. WordBytes
  <2>1. n \in ValidBytes /\ n \in Nat \ {0}
    BY <1>1, <1>3 DEF Accepts
  <2>2. x \in Location /\ x + n <= MemCapacity
    BY <1>3, <2>1, InsideFits
  <2>3. Signed(x) = x
    BY <2>2, LocationMeans
  <2> QED
    BY <1>1, <2>1, <2>2, <2>3 DEF Meant!Good
<1> QED
  BY <1>2, <1>3

(* How far a location is behind the start of an access. *)
LEMMA Displacement ==
    ASSUME NEW x \in Location, NEW n \in Nat, x + n <= MemCapacity, NEW y \in Location
    PROVE  /\ Wrap(y - x) < n <=> y \in x .. x + n - 1
           /\ y \in x .. x + n - 1 => Wrap(y - x) = y - x
<1>1. /\ x \in Nat /\ y \in Nat /\ x < MemCapacity /\ y < MemCapacity
      /\ Base \in Nat \ {0} /\ MemCapacity \in Nat /\ MemCapacity < Base
  BY BaseIsPositive, Capacity DEF Location
<1>2. CASE y < x
  <2>1. y - x \in Int /\ -Base <= y - x /\ y - x < 0
    BY <1>1, <1>2
  <2>2. Wrap(y - x) = y - x + Base
    BY <2>1, WrapOnce
  <2> QED
    BY <1>1, <1>2, <2>2
<1>3. CASE y >= x
  <2>1. y - x \in Word
    BY <1>1, <1>3 DEF Word
  <2>2. Wrap(y - x) = y - x
    BY <2>1, WrapOnce
  <2> QED
    BY <1>1, <1>3, <2>2
<1> QED
  BY <1>1, <1>2, <1>3

LEMMA LoadMeans ==
    ASSUME IInv, CMD_LOAD, ~stray'
    PROVE  Meant!Load
<1>1. /\ running /\ cmd.type = "LOAD" /\ cmd \in Command /\ variables \in [VarIndex -> Word]
      /\ Quiet
  BY CommandAtCurrent DEF CMD_LOAD, Executes, IInv, DataOK
<1>2. RelationNow' = RelationNow /\ mem' = mem
  BY KeepsRelation DEF CMD_LOAD, KeepFlags
<1>3. Meant!Is({"LOAD"}) /\ Meant!cmd = cmd /\ Meant!Silent
  BY <1>1, CommandMeans DEF Meant!Silent, Meant!Nothing, Nothing, Quiet
<1>4. PICK x \in Word : x = ValueOf(cmd.val_a) /\ Meant!Operand(cmd.val_a) = Signed(x)
  BY <1>1, FirstOperandOfCommand, ValueIsWord, OperandMeans
<1>5. PICK n \in Word : n = cmd.val_b.imm
  BY <1>1, SecondOperandOfCommand
<1>6. CASE ~Accepts(x, n)
  <2>1. Fail /\ UNCHANGED variables
    BY <1>4, <1>5, <1>6 DEF CMD_LOAD, LoadRefused
  <2>2. Meant!Error /\ RegsNow' = RegsNow
    BY <2>1, FailMeans, KeepsRegs
  <2>3. ~Meant!Good(Signed(x), n)
    BY <1>6, GoodMeans
  <2> QED
    BY <1>2, <1>3, <1>4, <1>5, <2>2, <2>3 DEF Meant!Load, RegsNow, RelationNow
<1>7. CASE Accepts(x, n)
  <2>1. /\ \E w \in Loaded(mem, x, n) : variables' = [variables EXCEPT ![cmd.destination.var] = w]
        /\ Inside(x, n) /\ Advance
    BY <1>4, <1>5, <1>7 DEF CMD_LOAD, SetDestination
  <2>2. PICK w \in Loaded(mem, x, n) : variables' = [variables EXCEPT ![cmd.destination.var] = w]
    BY <2>1
  <2>3. /\ Meant!Good(Signed(x), n) /\ Signed(x) = x
        /\ x \in Location /\ x + n <= MemCapacity /\ n \in 1 .. WordBytes
    BY <1>7, <2>1, GoodMeans
  <2>4. w \in Word /\ x \in Nat
    BY <2>2, <2>3 DEF Loaded, Location
  <2>5. ASSUME NEW i \in ByteIndex PROVE ByteOf(w, i) = IF i < n THEN mem[x + i] ELSE 0
    <3>1. CASE i < n
      <4>1. x + i \in Location /\ i \in Nat
        BY <2>3, <2>4, <3>1, Capacity DEF ByteIndex, Location
      <4>2. Wrap(x + i) = x + i
        BY <4>1, WrapOnce, Capacity
      <4> QED
        BY <2>2, <3>1, <4>1, <4>2 DEF Loaded
    <3>2. CASE ~(i < n)
      BY <2>2, <3>2 DEF Loaded
    <3> QED
      BY <3>1, <3>2
  <2>6. Meant!Number(x, n) = w
    BY <2>3, <2>4, <2>5, NumberMeans
  <2>7. Meant!Norm(Meant!Number(x, n)) = Signed(w)
    BY <2>4, <2>6, NormOfWord
  <2>8. cmd.destination.var \in VarIndex
    BY <1>1, DestinationOfCommand
  <2>9. RegsNow' = [RegsNow EXCEPT ![cmd.destination.var] = Signed(w)]
    BY <1>1, <2>2, <2>4, <2>8 DEF RegsNow
  <2>10. Meant!Continue
    BY <1>1, <2>1, AdvanceMeans DEF IInv
  <2> QED
    BY <1>2, <1>3, <1>4, <1>5, <2>3, <2>7, <2>9, <2>10 DEF Meant!Load, RegsNow, RelationNow
<1> QED
  BY <1>6, <1>7

LEMMA StoreMeans ==
    ASSUME IInv, CMD_STORE, ~stray'
    PROVE  Meant!Store
<1>1. /\ running /\ cmd.type = "STORE" /\ cmd \in Command /\ variables \in [VarIndex -> Word]
      /\ Quiet
  BY CommandAtCurrent DEF CMD_STORE, Executes, IInv, DataOK
<1>2. RegsNow' = RegsNow /\ RelationNow' = RelationNow
  BY KeepsRegs, KeepsRelation DEF CMD_STORE, KeepFlags
<1>3. Meant!Is({"STORE"}) /\ Meant!cmd = cmd /\ Meant!Silent
  BY <1>1, CommandMeans DEF Meant!Silent, Meant!Nothing, Nothing, Quiet
<1>4. PICK x \in Word : x = ValueOf(cmd.val_a) /\ Meant!Operand(cmd.val_a) = Signed(x)
  BY <1>1, FirstOperandOfCommand, ValueIsWord, OperandMeans
<1>5. PICK n \in Word : n = cmd.val_b.imm
  BY <1>1, SecondOperandOfCommand
<1>6. CASE ~Accepts(x, n)
  <2>1. Fail /\ mem' = mem
    BY <1>4, <1>5, <1>6 DEF CMD_STORE, KeepMemory
  <2>2. Meant!Error
    BY <2>1, FailMeans
  <2>3. ~Meant!Good(Signed(x), n)
    BY <1>6, GoodMeans
  <2> QED
    BY <1>2, <1>3, <1>4, <1>5, <2>1, <2>2, <2>3 DEF Meant!Store, RegsNow, RelationNow
<1>7. CASE Accepts(x, n)
  <2>1. PICK v \in Word : /\ v = variables[cmd.destination.var]
                          /\ RegsNow[cmd.destination.var] = Signed(v)
    BY <1>1, DestinationOfCommand DEF RegsNow
  <2>2. mem' = Stored(mem, x, n, v) /\ Inside(x, n) /\ Advance
    BY <1>4, <1>5, <1>7, <2>1 DEF CMD_STORE
  <2>3. /\ Meant!Good(Signed(x), n) /\ Signed(x) = x
        /\ x \in Location /\ x + n <= MemCapacity /\ n \in 1 .. WordBytes
    BY <1>7, <2>2, GoodMeans
  <2>4. ASSUME NEW y \in Location
        PROVE  (IF Wrap(y - x) < n THEN ByteOf(v, Wrap(y - x)) ELSE mem[y])
               = IF y \in x .. x + n - 1 THEN Meant!ByteAt(Signed(v), y - x) ELSE mem[y]
    <3>1. CASE y \in x .. x + n - 1
      <4>1. Wrap(y - x) = y - x /\ Wrap(y - x) < n
        BY <2>3, <3>1, Displacement
      <4>2. PICK i \in ByteIndex : i = y - x
        BY <2>3, <3>1, Widths DEF ByteIndex, Location
      <4>3. Meant!ByteAt(Signed(v), i) = ByteOf(v, i)
        BY ByteMeans
      <4> QED
        BY <3>1, <4>1, <4>2, <4>3
    <3>2. CASE y \notin x .. x + n - 1
      BY <2>3, <3>2, Displacement
    <3> QED
      BY <3>1, <3>2
  <2>5. mem' = [y \in Meant!Location |-> IF y \in x .. x + n - 1
                    THEN Meant!ByteAt(RegsNow[cmd.destination.var], y - x) ELSE mem[y]]
    BY <2>1, <2>2, <2>4, IndexIs DEF Stored
  <2>6. Meant!Continue
    BY <1>1, <2>2, AdvanceMeans DEF IInv
  <2> QED
    BY <1>2, <1>3, <1>4, <1>5, <2>3, <2>5, <2>6 DEF Meant!Store, RegsNow, RelationNow
<1> QED
  BY <1>6, <1>7

(* A put stores the whole string, fills memory to its end, or stores       *)
(* nothing because it starts outside.                                      *)
LEMMA PutMeans ==
    ASSUME IInv, CMD_PUT, ~stray'
    PROVE  Meant!Put
<1> DEFINE Filled(x, n, bytes) == [y \in Location |-> IF y \in x .. x + n - 1
                                                      THEN bytes[y - x + 1] ELSE mem[y]]
<1>1. /\ running /\ cmd.type = "PUT" /\ cmd \in Command /\ variables \in [VarIndex -> Word]
      /\ Quiet
  BY CommandAtCurrent DEF CMD_PUT, Executes, IInv, DataOK
<1>2. RegsNow' = RegsNow /\ RelationNow' = RelationNow
  BY KeepsRegs, KeepsRelation DEF CMD_PUT, KeepFlags
<1>3. Meant!Is({"PUT"}) /\ Meant!cmd = cmd /\ Meant!Silent
  BY <1>1, CommandMeans DEF Meant!Silent, Meant!Nothing, Nothing, Quiet
<1>4. PICK x \in Word : x = ValueOf(cmd.val_b) /\ Meant!Operand(cmd.val_b) = Signed(x)
  BY <1>1, SecondOperandOfCommand, ValueIsWord, OperandMeans
<1>5. PICK bytes : bytes = Append(cmd.val_a.str, 0)
  OBVIOUS
<1>6. Len(bytes) \in Nat \ {0}
  <2>1. cmd.val_a.str \in Seq(Byte \ {0})
    BY <1>1, NamesOfCommand
  <2> QED
    BY <1>5, <2>1
<1>7. PICK n : n = PutCount(x, bytes)
  OBVIOUS
<1>8. /\ mem' = [y \in Location |-> IF Wrap(y - x) < n THEN bytes[Wrap(y - x) + 1] ELSE mem[y]]
      /\ Inside(x, n)
      /\ IF n = Len(bytes) THEN Advance ELSE Fail
  BY <1>4, <1>5, <1>7 DEF CMD_PUT
<1>9. n \in 0 .. Len(bytes) /\ n \in Nat /\ (n < Len(bytes) => ~Accepts(Wrap(x + n), 1))
  BY <1>6, <1>7, PutCountMeans
<1>10. mem = [y \in Location |-> mem[y]]
  BY DEF IInv, DataOK, Mem
<1>11. ASSUME x \in Location, x + n <= MemCapacity
       PROVE  mem' = Filled(x, n, bytes)
  <2>1. ASSUME NEW y \in Location
        PROVE  (IF Wrap(y - x) < n THEN bytes[Wrap(y - x) + 1] ELSE mem[y])
               = IF y \in x .. x + n - 1 THEN bytes[y - x + 1] ELSE mem[y]
    BY <1>9, <1>11, Displacement
  <2> QED
    BY <1>8, <2>1
<1>12. CASE n = Len(bytes)
  <2>1. x \in Location /\ x + n <= MemCapacity
    BY <1>6, <1>8, <1>12, InsideFits
  <2>2. mem' = Filled(x, n, bytes) /\ Signed(x) = x /\ Meant!Continue
    BY <1>1, <1>8, <1>11, <1>12, <2>1, LocationMeans, AdvanceMeans DEF IInv
  <2> QED
    BY <1>2, <1>3, <1>4, <1>5, <1>12, <2>1, <2>2, IndexIs DEF Meant!Put, RegsNow, RelationNow
<1>13. CASE n # Len(bytes) /\ n # 0
  <2>1. x \in Location /\ x + n = MemCapacity /\ n < Len(bytes)
    BY <1>6, <1>7, <1>8, <1>9, <1>13, PutFills
  <2>2. mem' = Filled(x, n, bytes) /\ Signed(x) = x /\ Meant!Error
    BY <1>8, <1>11, <1>13, <2>1, LocationMeans, FailMeans, Capacity
  <2>3. /\ x \in Nat /\ MemCapacity \in Nat /\ \A y \in Location : y \in Nat /\ y < MemCapacity
    BY <2>1, Capacity DEF Location
  <2>4. \A y \in Location : y \in x .. x + n - 1 <=> y \in x .. x + Len(bytes) - 1
    BY <1>6, <1>9, <2>1, <2>3
  <2>5. mem' = Filled(x, Len(bytes), bytes)
    BY <2>2, <2>4
  <2>6. ~(x + Len(bytes) <= MemCapacity)
    BY <1>6, <1>9, <2>1, <2>3
  <2> QED
    BY <1>2, <1>3, <1>4, <1>5, <2>1, <2>2, <2>5, <2>6, IndexIs DEF Meant!Put, RegsNow, RelationNow
<1>14. CASE n # Len(bytes) /\ n = 0
  <2>1. ~Accepts(x, 1)
    <3>1. x + 0 = x /\ x \in Int
      BY BaseIsPositive DEF Word
    <3>2. Wrap(x + n) = x
      BY <1>14, <3>1, WrapOnce
    <3> QED
      BY <1>6, <1>9, <1>14, <3>2
  <2>2. x \notin Location
    <3>1. ASSUME x \in Location PROVE FALSE
      <4>1. x + 1 \in Word /\ x + 1 <= MemCapacity
        BY <3>1, Capacity, BaseIsPositive DEF Location, Word
      <4> QED
        BY <2>1, <4>1, WrapOnce, MemAssumption DEF Accepts
    <3> QED
      BY <3>1
  <2>3. \A y \in Location : ~(Wrap(y - x) < 0)
    <3>1. \A y \in Location : y - x \in Int
      BY Capacity, BaseIsPositive DEF Location, Word
    <3> QED
      BY <3>1, WrapIsWord, BaseIsPositive DEF Word
  <2>4. mem' = mem
    BY <1>8, <1>10, <1>14, <2>3
  <2>5. Meant!Error /\ Signed(x) \notin Meant!Location
    BY <1>8, <1>14, <2>2, FailMeans, LocationMeans, IndexIs
  <2> QED
    BY <1>2, <1>3, <1>4, <1>5, <2>4, <2>5 DEF Meant!Put, RegsNow, RelationNow
<1> QED
  BY <1>12, <1>13, <1>14

-----------------------------------------------------------------------------
(* Branches, calls and returns.                                            *)

(* The three flags decide a branch as the relation does: at most one is    *)
(* set.                                                                    *)
LEMMA ConditionMeans ==
    ASSUME DataOK, FlagsExclusive, NEW c \in Conditions
    PROVE  Meant!Holds(c) <=> Taken(c)
<1>1. PICK less, greater, equal \in BOOLEAN :
          less = is_less /\ greater = is_greater /\ equal = is_equal
  BY DEF DataOK
<1>2. ~(greater /\ less) /\ ~(greater /\ equal) /\ ~(less /\ equal)
  BY <1>1 DEF FlagsExclusive
<1> QED
  BY <1>1, <1>2 DEF Conditions, Taken, Meant!Holds

LEMMA TargetMeans ==
    ASSUME running
    PROVE  prog.labels[Meant!cmd.val_a.str] = Target
BY CommandMeans DEF Target

LEMMA BranchMeans ==
    ASSUME IInv, CMD_BRANCH
    PROVE  Meant!Branch
<1>1. /\ running /\ cmd.type = "BRANCH" /\ cmd \in Command
  BY CommandAtCurrent DEF CMD_BRANCH, Executes, IInv
<1>2. RegsNow' = RegsNow /\ RelationNow' = RelationNow /\ mem' = mem
  BY KeepsRegs, KeepsRelation DEF CMD_BRANCH, KeepFlags, KeepMemory
<1>3. Meant!Is({"BRANCH"}) /\ Meant!cmd = cmd /\ Meant!Silent
  BY <1>1, CommandMeans DEF CMD_BRANCH, Meant!Silent, Meant!Nothing, Nothing, Quiet
<1>4. Meant!Holds(cmd.branch_condition) <=> Taken(cmd.branch_condition)
  BY <1>1, NamesOfCommand, ConditionMeans DEF IInv
<1>5. /\ ~Taken(cmd.branch_condition) => Meant!Continue
      /\ Taken(cmd.branch_condition) /\ Target = 0 => Meant!Error
  BY <1>1, AdvanceMeans, FailMeans DEF CMD_BRANCH, IInv
<1>6. ASSUME Taken(cmd.branch_condition), Target # 0
      PROVE  Meant!Goto(Target, CallsNow)
  <2>1. GoTo(Target) /\ CallsNow' = CallsNow
    BY <1>1, <1>6, KeepsCalls DEF CMD_BRANCH, GoTo
  <2>2. PICK c : c = Target
    OBVIOUS
  <2>3. PICK cs : cs = CallsNow
    OBVIOUS
  <2>4. Meant!Goto(c, cs)
    BY <1>1, <2>1, <2>2, <2>3, GotoMeans DEF IInv
  <2> QED
    BY <2>2, <2>3, <2>4 DEF Meant!Goto
<1>7. prog.labels[Meant!cmd.val_a.str] = Target
  BY <1>1, TargetMeans
<1> QED
  BY <1>2, <1>3, <1>4, <1>5, <1>6, <1>7
     DEF Meant!Branch, Meant!Goto, RegsNow, RelationNow, CallsNow, CallNow

(* A call puts a record on the stack that no other call uses.              *)
LEMMA CallMeans ==
    ASSUME IInv, CMD_CALL
    PROVE  Meant!Call
<1>1. /\ running /\ cmd.type = "CALL" /\ cmd \in Command /\ KeepData
  BY CommandAtCurrent DEF CMD_CALL, CallNoMemory, CallNoLabel, CallEnters, Executes, IInv
<1>2. RegsNow' = RegsNow /\ RelationNow' = RelationNow /\ mem' = mem
  BY <1>1, KeepsRegs, KeepsRelation DEF KeepData, KeepFlags, KeepMemory
<1>3. Meant!Is({"CALL"}) /\ Meant!cmd = cmd /\ Meant!Silent
  BY <1>1, CommandMeans DEF KeepData, Meant!Silent, Meant!Nothing, Nothing, Quiet
<1>4. prog.labels[Meant!cmd.val_a.str] = Target
  BY <1>1, TargetMeans
<1>5. CASE CallNoMemory \/ CallNoLabel
  <2>1. Meant!Error
    BY <1>5, FailMeans DEF CallNoMemory, CallNoLabel
  <2> QED
    BY <1>2, <1>3, <2>1 DEF Meant!Call, RegsNow, RelationNow
<1>6. CASE CallEnters
  <2>1. Target # 0 /\ GoTo(Target) /\ running'
    BY <1>6 DEF CallEnters, GoTo
  <2>2. PICK a \in FrameAddr : /\ frames[a] = Freed
                               /\ frames' = [frames EXCEPT ![a] = Record]
                               /\ chain' = <<a>> \o chain
    BY <1>6 DEF CallEnters
  <2> DEFINE saved == [saved |-> RegsNow, return |-> NextOf(current)]
  <2>3. /\ chain \in Seq(FrameAddr) /\ Len(chain) \in Nat /\ DOMAIN chain = 1 .. Len(chain)
        /\ \A i \in 1 .. Len(chain) : chain[i] \in FrameAddr /\ chain[i] # a
        /\ frames \in [FrameAddr -> Frame \cup {Freed}]
    BY <1>1, <2>2, ChainFacts DEF IInv, Linked, CallsOK
  <2>4. /\ \A i \in 1 .. Len(chain) : frames'[chain[i]] = frames[chain[i]]
        /\ frames'[a] = Record
    BY <2>2, <2>3
  <2>5. /\ chain' \in Seq(FrameAddr) /\ Len(chain') = Len(chain) + 1 /\ chain'[1] = a
        /\ \A i \in 2 .. Len(chain) + 1 : chain'[i] = chain[i - 1]
    BY <2>2, <2>3, Pushed
  <2>6. CallsNow = [i \in 1 .. Len(chain) |-> CallNow(chain[i])]
    BY <1>1, <2>3 DEF CallsNow
  <2>7. CallsNow' = [i \in 1 .. Len(chain) + 1 |->
                        IF i = 1 THEN saved ELSE CallNow(chain[i - 1])]
    <3>1. CallsNow' = [i \in 1 .. Len(chain) + 1 |->
              [saved |-> [r \in VarIndex |-> Signed(frames'[chain'[i]].variables[r])],
               return |-> frames'[chain'[i]].return_address]]
      BY <2>1, <2>5 DEF CallsNow, CallNow
    <3>2. ASSUME NEW i \in 1 .. Len(chain) + 1
          PROVE  [saved |-> [r \in VarIndex |-> Signed(frames'[chain'[i]].variables[r])],
                  return |-> frames'[chain'[i]].return_address]
                 = IF i = 1 THEN saved ELSE CallNow(chain[i - 1])
      <4>1. CASE i = 1
        BY <2>4, <2>5, <4>1 DEF Record, RegsNow
      <4>2. CASE i # 1
        <5>1. i - 1 \in 1 .. Len(chain) /\ i \in 2 .. Len(chain) + 1
          BY <2>3, <4>2
        <5>2. frames'[chain'[i]] = frames[chain[i - 1]]
          BY <2>4, <2>5, <5>1
        <5> QED
          BY <4>2, <5>2 DEF CallNow
      <4> QED
        BY <4>1, <4>2
    <3> QED
      BY <3>1, <3>2
  <2>8. CallsNow' = <<saved>> \o CallsNow
    <3> DEFINE S == {saved} \cup {CallNow(chain[i]) : i \in 1 .. Len(chain)}
    <3>1. CallsNow \in Seq(S) /\ Len(CallsNow) = Len(chain) /\ saved \in S
      BY <2>3, <2>6
    <3> HIDE DEF saved, S
    <3>2. PICK q : q = <<saved>> \o CallsNow
      OBVIOUS
    <3>3. /\ q \in Seq(S) /\ Len(q) = Len(chain) + 1 /\ q[1] = saved
          /\ \A i \in 2 .. Len(chain) + 1 : q[i] = CallsNow[i - 1]
      BY <3>1, <3>2, Pushed
    <3>4. \A i \in 2 .. Len(chain) + 1 : i - 1 \in 1 .. Len(chain)
      BY <2>3
    <3>5. \A i \in 2 .. Len(chain) + 1 : q[i] = CallNow(chain[i - 1])
      BY <2>6, <3>3, <3>4
    <3>6. q = [i \in 1 .. Len(chain) + 1 |-> q[i]]
      BY <2>3, <3>3
    <3>7. \A i \in 1 .. Len(chain) + 1 : i = 1 \/ i \in 2 .. Len(chain) + 1
      BY <2>3
    <3>8. \A i \in 1 .. Len(chain) + 1 : q[i] = IF i = 1 THEN saved ELSE CallNow(chain[i - 1])
      BY <3>3, <3>5, <3>7
    <3> QED
      BY <2>7, <3>2, <3>6, <3>8
  <2>9. PICK c : c = Target
    OBVIOUS
  <2>10. PICK cs : cs = <<saved>> \o CallsNow
    OBVIOUS
  <2>11. Meant!Goto(c, cs)
    BY <1>1, <2>1, <2>8, <2>9, <2>10, GotoMeans DEF IInv
  <2>12. saved = [saved |-> RegsNow, return |-> Meant!After]
    BY <1>1, AfterMeans
  <2> HIDE DEF saved
  <2>13. Meant!Goto(Target, <<[saved |-> RegsNow, return |-> Meant!After]>> \o CallsNow)
    BY <2>9, <2>10, <2>11, <2>12 DEF Meant!Goto
  <2> QED
    BY <1>2, <1>3, <1>4, <2>1, <2>13
       DEF Meant!Call, Meant!Goto, RegsNow, RelationNow, CallsNow, CallNow
<1> QED
  BY <1>5, <1>6 DEF CMD_CALL

LEMMA ReturnEndMeans ==
    ASSUME IInv, RetEnds
    PROVE  Meant!Return
<1>1. running /\ cmd.type = "RET" /\ stack = NULL /\ GoTo(0) /\ KeepData
  BY DEF RetEnds, Executes
<1>2. RegsNow' = RegsNow /\ RelationNow' = RelationNow /\ mem' = mem
  BY <1>1, KeepsRegs, KeepsRelation DEF KeepData, KeepFlags, KeepMemory
<1>3. Meant!Is({"RET"}) /\ Meant!Silent
  BY <1>1, CommandMeans DEF KeepData, Meant!Silent, Meant!Nothing, Nothing, Quiet
<1>4. chain = <<>> /\ DOMAIN chain = {}
  <2>1. chain = <<>>
    <3>1. /\ stack = IF chain = <<>> THEN NULL ELSE chain[1]
          /\ chain \in Seq(FrameAddr) /\ Len(chain) \in Nat
          /\ \A i \in 1 .. Len(chain) : chain[i] \in FrameAddr
      BY <1>1, ChainFacts DEF IInv
    <3>2. chain # <<>> => 1 \in 1 .. Len(chain)
      BY <3>1
    <3> QED
      BY <1>1, <3>1, <3>2, FramesAssumption
  <2> QED
    BY <2>1
<1>5. CallsNow = <<>>
  BY <1>1, <1>4 DEF CallsNow
<1>6. PICK c : c = 0
  OBVIOUS
<1>7. Meant!Goto(c, CallsNow)
  BY <1>1, <1>6, GotoMeans DEF IInv, Meant!Goto
<1>8. Meant!Goto(0, CallsNow)
  BY <1>6, <1>7
<1> QED
  BY <1>2, <1>3, <1>5, <1>8
     DEF Meant!Return, Meant!Goto, RegsNow, RelationNow, CallsNow, CallNow

(* A return frees the record on top and no other.                          *)
LEMMA ReturnPopMeans ==
    ASSUME IInv, RetPops
    PROVE  Meant!Return
<1>1. /\ running /\ cmd.type = "RET" /\ stack # NULL
      /\ variables' = [frames[stack].variables EXCEPT ![0] = variables[0]]
      /\ GoTo(frames[stack].return_address)
      /\ frames' = [frames EXCEPT ![stack] = Freed]
      /\ chain' = Tail(chain)
  BY DEF RetPops, Executes
<1>2. RelationNow' = RelationNow /\ mem' = mem
  BY KeepsRelation DEF RetPops, KeepFlags, KeepMemory
<1>3. Meant!Is({"RET"}) /\ Meant!Silent
  BY <1>1, CommandMeans DEF RetPops, Meant!Silent, Meant!Nothing, Nothing, Quiet
<1>4. /\ chain \in Seq(FrameAddr) /\ Len(chain) \in Nat /\ DOMAIN chain = 1 .. Len(chain)
      /\ stack = IF chain = <<>> THEN NULL ELSE chain[1]
      /\ \A i \in 1 .. Len(chain) : chain[i] \in FrameAddr
      /\ \A i, j \in 1 .. Len(chain) : chain[i] = chain[j] => i = j
  BY <1>1, ChainFacts, Zenon DEF IInv
<1>5. /\ frames \in [FrameAddr -> Frame \cup {Freed}] /\ frames[stack] \in Frame
      /\ variables \in [VarIndex -> Word] /\ 0 \in VarIndex
  BY <1>1, TopIsFrame, NumVariablesAssumption DEF IInv, DataOK, Linked, CallsOK, VarIndex
<1>6. chain # <<>> /\ stack = chain[1]
  BY <1>1, <1>4
<1>7. /\ chain' \in Seq(FrameAddr) /\ Len(chain) >= 1 /\ Len(chain') = Len(chain) - 1
      /\ \A i \in 1 .. Len(chain) - 1 : chain'[i] = chain[i + 1]
  BY <1>1, <1>4, <1>6, Popped
<1>8. CallsNow = [i \in 1 .. Len(chain) |-> CallNow(chain[i])]
  BY <1>1, <1>4 DEF CallsNow
<1>9. CallsNow # <<>> /\ CallsNow[1] = CallNow(stack)
  BY <1>4, <1>6, <1>7, <1>8
<1>10. RegsNow' = [CallsNow[1].saved EXCEPT ![0] = RegsNow[0]]
  <2>1. PICK saved \in [VarIndex -> Word] : saved = frames[stack].variables
    BY <1>5 DEF Frame
  <2>2. CallsNow[1].saved = [r \in VarIndex |-> Signed(saved[r])]
    BY <1>9, <2>1 DEF CallNow
  <2>3. variables' = [saved EXCEPT ![0] = variables[0]]
    BY <1>1, <2>1
  <2> QED
    BY <1>5, <2>2, <2>3 DEF RegsNow
<1>11. running' => CallsNow' = Tail(CallsNow)
  <2> SUFFICES ASSUME running' PROVE CallsNow' = Tail(CallsNow)
    OBVIOUS
  <2>1. CallsNow' = [i \in 1 .. Len(chain) - 1 |->
            [saved |-> [r \in VarIndex |-> Signed(frames'[chain'[i]].variables[r])],
             return |-> frames'[chain'[i]].return_address]]
    BY <1>7 DEF CallsNow, CallNow
  <2>2. ASSUME NEW i \in 1 .. Len(chain) - 1
        PROVE  [saved |-> [r \in VarIndex |-> Signed(frames'[chain'[i]].variables[r])],
                return |-> frames'[chain'[i]].return_address] = CallNow(chain[i + 1])
    <3>1. i + 1 \in 1 .. Len(chain) /\ 1 \in 1 .. Len(chain) /\ i + 1 # 1
      BY <1>4
    <3>2. chain[i + 1] \in FrameAddr /\ chain[i + 1] # stack
      BY <1>4, <1>6, <3>1
    <3>3. frames'[chain'[i]] = frames[chain[i + 1]]
      BY <1>1, <1>5, <1>7, <3>2
    <3> QED
      BY <3>3 DEF CallNow
  <2>3. Tail(CallsNow) = [i \in 1 .. Len(chain) - 1 |-> CallNow(chain[i + 1])]
    <3> DEFINE S == {CallNow(chain[i]) : i \in 1 .. Len(chain)}
    <3>1. CallsNow \in Seq(S) /\ Len(CallsNow) = Len(chain)
      BY <1>4, <1>8
    <3> HIDE DEF S
    <3>2. PICK q : q = Tail(CallsNow)
      OBVIOUS
    <3>3. /\ q \in Seq(S) /\ Len(q) = Len(chain) - 1
          /\ \A i \in 1 .. Len(chain) - 1 : q[i] = CallsNow[i + 1]
      BY <1>9, <3>1, <3>2, Popped
    <3>4. \A i \in 1 .. Len(chain) - 1 : i + 1 \in 1 .. Len(chain)
      BY <1>4
    <3>5. q = [i \in 1 .. Len(chain) - 1 |-> q[i]]
      BY <3>3
    <3>6. \A i \in 1 .. Len(chain) - 1 : q[i] = CallNow(chain[i + 1])
      BY <1>8, <3>3, <3>4
    <3> QED
      BY <3>2, <3>5, <3>6
  <2> QED
    BY <2>1, <2>2, <2>3
<1>12. PICK c : c = frames[stack].return_address
  OBVIOUS
<1>13. PICK cs : cs = Tail(CallsNow)
  OBVIOUS
<1>14. Meant!Goto(c, cs)
  BY <1>1, <1>11, <1>12, <1>13, GotoMeans DEF IInv, GoTo
<1>15. CallsNow[1].return = frames[stack].return_address
  BY <1>9 DEF CallNow
<1>16. Meant!Goto(CallsNow[1].return, Tail(CallsNow))
  BY <1>12, <1>13, <1>14, <1>15 DEF Meant!Goto
<1> QED
  BY <1>2, <1>3, <1>9, <1>10, <1>16
     DEF Meant!Return, Meant!Goto, RegsNow, RelationNow, CallsNow, CallNow

-----------------------------------------------------------------------------
(* The refinement.                                                         *)

LEMMA InitMeans == Init => Meant!Init
<1> SUFFICES ASSUME Init PROVE Meant!Init
  OBVIOUS
<1>1. /\ current = (IF prog.commands = <<>> THEN 0 ELSE 1) /\ running = (current # 0)
      /\ variables = [r \in VarIndex |-> 0]
      /\ ~is_greater /\ ~is_less /\ ~is_equal
      /\ mem = [x \in Location |-> 0] /\ chain = <<>> /\ ~had_error /\ printed = Nothing
  BY DEF Init
<1>2. Signed(0) = 0
  BY BaseIsPositive DEF Signed
<1>3. RegsNow = [r \in VarIndex |-> 0]
  BY <1>1, <1>2 DEF RegsNow
<1>4. CallsNow = <<>>
  <2>1. DOMAIN chain = {}
    BY <1>1
  <2> QED
    BY <2>1 DEF CallsNow
<1>5. /\ (IF running THEN current ELSE 0) = IF prog.commands = <<>> THEN 0 ELSE 1
      /\ (IF running THEN "running" ELSE IF had_error THEN "error" ELSE "done")
         = IF prog.commands = <<>> THEN "done" ELSE "running"
      /\ RelationNow = "none"
  <2>1. CASE prog.commands = <<>>
    BY <1>1, <2>1, Zenon DEF RelationNow
  <2>2. CASE prog.commands # <<>>
    <3>1. current = 1 /\ 1 # 0
      BY <1>1, <2>2
    <3> QED
      BY <1>1, <2>2, <3>1, Zenon DEF RelationNow
  <2> QED
    BY <2>1, <2>2
<1> QED
  BY <1>1, <1>3, <1>4, <1>5, IndexIs
     DEF Meant!Init, RelationNow, Meant!Nothing, Nothing, RegsNow, CallsNow, CallNow

(* A step that stays inside memory is one of ASML's.                        *)
LEMMA StepMeans ==
    ASSUME IInv, Step, ~stray'
    PROVE  Meant!Next
<1>1. prog' = prog
  BY TopIsFrame, StepControl DEF IInv
<1>2. \/ Meant!Nop \/ Meant!Compute \/ Meant!Compare \/ Meant!Show \/ Meant!Load \/ Meant!Store
      \/ Meant!Put \/ Meant!Branch \/ Meant!Call \/ Meant!Return
  BY NopMeans, ComputeMeans, CompareMeans, ShowMeans, LoadMeans, StoreMeans, PutMeans,
     BranchMeans, CallMeans, ReturnEndMeans, ReturnPopMeans DEF Step
<1> QED
  BY <1>1, <1>2 DEF Meant!Next

(* RefinesAsml: every turn of the loop is the step of the program that     *)
(* ASML says, as long as no access has left memory.                        *)
THEOREM Refinement == Spec => RefinesAsml
<1>1. IInv /\ [Next]_vars => [~stray' => Meant!Next]_(Meant!vars)
  <2> SUFFICES ASSUME IInv, [Next]_vars PROVE [~stray' => Meant!Next]_(Meant!vars)
    OBVIOUS
  <2>1. CASE Step
    BY <2>1, StepMeans
  <2>2. CASE UNCHANGED vars
    BY <2>2 DEF vars, flags, calls, Meant!vars
  <2> QED
    BY <2>1, <2>2 DEF Next, Returned
<1>2. Spec => Meant!Init
  BY InitMeans DEF Spec
<1> QED
  BY <1>1, <1>2, Invariance, PTL DEF RefinesAsml, Spec
=============================================================================
