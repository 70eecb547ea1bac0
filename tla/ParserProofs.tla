---------------------------- MODULE ParserProofs ----------------------------
(* What holds of parser.c for every source, set of registers, word size    *)
(* and every allocation that fails.                                        *)
EXTENDS Parser, TLAPS, WellFoundedInduction

-----------------------------------------------------------------------------
(* Tokens.                                                                 *)

TokenTypes == Keywords \cup {"COLON", "COMMA", "LBRACKET", "RBRACKET", "NL", "ERR",
                             "IDENT", "NUM", "STR"}

LEMMA TokenShape ==
    ASSUME NEW t \in Token
    PROVE  /\ t.type \in TokenTypes
           /\ t.type = "BRANCH" => t.condition \in Conditions
           /\ t.type = "IDENT" => t.name \in Label
           /\ t.type \in {"NUM", "STR"} => t.number \in Word \cup {NoNumber}
           /\ t.type = "STR" => t.text \in Seq(Byte \ {0})
<1>1. CASE t \in [type: Keywords \ {"BRANCH"}]
  BY <1>1 DEF TokenTypes, Keywords
<1>2. CASE t \in [type: {"BRANCH"}, condition: Conditions]
  BY <1>2 DEF TokenTypes, Keywords
<1>3. CASE t \in [type: {"COLON", "COMMA", "LBRACKET", "RBRACKET", "NL", "ERR"}]
  BY <1>3 DEF TokenTypes
<1>4. CASE t \in [type: {"IDENT"}, name: Label]
  BY <1>4 DEF TokenTypes
<1>5. CASE t \in [type: {"NUM"}, number: Word \cup {NoNumber}]
  BY <1>5 DEF TokenTypes
<1>6. CASE t \in [type: {"STR"}, text: Seq(Byte \ {0}), number: Word \cup {NoNumber}]
  BY <1>6 DEF TokenTypes
<1>7. QED BY <1>1, <1>2, <1>3, <1>4, <1>5, <1>6 DEF Token

(* A position is behind the source's last token just when the end of file  *)
(* is found there.                                                         *)
LEMMA TokenAtShape ==
    ASSUME source \in Seq(Token), NEW i \in Nat \ {0}
    PROVE  /\ i <= Len(source) => TokenAt(i) = source[i] /\ TokenAt(i) \in Token
                                  /\ TokenAt(i).type \in TokenTypes /\ TokenAt(i).type # "EOF"
           /\ i > Len(source) => TokenAt(i) = Eof /\ TokenAt(i).type = "EOF"
<1>1. CASE i <= Len(source)
  <2>1. source[i] \in Token
    BY <1>1
  <2>2. TokenAt(i) = source[i]
    BY <1>1 DEF TokenAt
  <2>3. source[i].type \in TokenTypes
    BY <2>1, TokenShape
  <2>4. "EOF" \notin TokenTypes
    BY DEF TokenTypes, Keywords
  <2>5. QED BY <1>1, <2>1, <2>2, <2>3, <2>4
<1>2. CASE i > Len(source)
  BY <1>2 DEF TokenAt, Eof
<1>3. QED BY <1>1, <1>2

(* What fills a slot is no keyword, and but for a byte count no end of     *)
(* file.                                                                   *)
SlotKinds == {"reg", "imm", "value", "base", "string", "label", "count",
              "COMMA", "LBRACKET", "RBRACKET"}

LEMMA FitsToken ==
    ASSUME NEW t, NEW slot \in SlotKinds, Fits(t, slot),
           t \in Token \/ t = Eof
    PROVE  /\ t.type \notin Keywords
           /\ slot # "count" => t.type # "EOF"
<1>1. CASE slot \in {"reg", "base", "label"}
  BY <1>1 DEF Fits, IsRegister, Keywords
<1>2. CASE slot \in {"imm", "value"}
  BY <1>2 DEF Fits, IsRegister, IsImmediate, Keywords
<1>3. CASE slot = "string"
  BY <1>3 DEF Fits, Keywords
<1>4. CASE slot = "count"
  <2>1. Number(t) # NoNumber
    BY <1>4 DEF Fits
  <2>2. t.type \in {"NUM", "STR", "EOF"}
    BY <2>1 DEF Number
  <2>3. QED BY <1>4, <2>2 DEF Keywords
<1>5. CASE slot \in {"COMMA", "LBRACKET", "RBRACKET"}
  BY <1>5 DEF Fits, Keywords
<1>6. QED BY <1>1, <1>2, <1>3, <1>4, <1>5 DEF SlotKinds

LEMMA FitsNoColon ==
    ASSUME NEW t, NEW slot \in SlotKinds, Fits(t, slot)
    PROVE  t.type # "COLON"
<1>1. CASE slot \in {"reg", "base", "label", "string"}
  BY <1>1 DEF Fits, IsRegister
<1>2. CASE slot \in {"imm", "value"}
  BY <1>2 DEF Fits, IsRegister, IsImmediate
<1>3. CASE slot = "count"
  <2>1. Number(t) # NoNumber
    BY <1>3 DEF Fits
  <2>2. QED BY <2>1 DEF Number
<1>4. CASE slot \in {"COMMA", "LBRACKET", "RBRACKET"}
  BY <1>4 DEF Fits
<1>5. QED BY <1>1, <1>2, <1>3, <1>4 DEF SlotKinds

(* The lines: a byte count stands between a comma and a bracket.           *)
LEMMA SlotsShape ==
    ASSUME NEW type \in Keywords
    PROVE  /\ Slots(type) \in Seq(SlotKinds)
           /\ Len(Slots(type)) \in 0 .. 7
           /\ \A j \in 1 .. Len(Slots(type)) :
                  Slots(type)[j] = "count" => /\ j > 1 /\ j < Len(Slots(type))
                                              /\ Slots(type)[j - 1] # "count"
                                              /\ Slots(type)[j + 1] # "count"
<1>1. CASE type \in {"NOP", "RET"}
  <2>1. Slots(type) = <<>>
    BY <1>1 DEF Slots, NopLine, RetLine
  <2>2. QED BY <2>1 DEF SlotKinds
<1>2. CASE type = "MOV"
  <2>1. Slots(type) = <<"reg", "COMMA", "imm">>
    BY <1>2 DEF Slots, MovLine
  <2>2. QED BY <2>1 DEF SlotKinds
<1>3. CASE type = "PRINT"
  <2>1. Slots(type) = <<"value", "COMMA", "base">>
    BY <1>3 DEF Slots, PrintLine
  <2>2. QED BY <2>1 DEF SlotKinds
<1>4. CASE type \in {"ADD", "SUB"}
  <2>1. Slots(type) = <<"reg", "COMMA", "reg", "COMMA", "value">>
    BY <1>4 DEF Slots, AddSubLine
  <2>2. QED BY <2>1 DEF SlotKinds
<1>5. CASE type \in {"CMP", "CMP_U"}
  <2>1. Slots(type) = <<"reg", "COMMA", "value">>
    BY <1>5 DEF Slots, CmpLine, CmpULine
  <2>2. QED BY <2>1 DEF SlotKinds
<1>6. CASE type \in {"AND", "ORR", "EOR"}
  <2>1. Slots(type) = <<"reg", "COMMA", "reg", "COMMA", "reg">>
    BY <1>6 DEF Slots, BitwiseLine
  <2>2. QED BY <2>1 DEF SlotKinds
<1>7. CASE type \in {"ASR", "LSR", "LSL"}
  <2>1. Slots(type) = <<"reg", "COMMA", "reg", "COMMA", "imm">>
    BY <1>7 DEF Slots, ShiftLine
  <2>2. QED BY <2>1 DEF SlotKinds
<1>8. CASE type = "PUT"
  <2>1. Slots(type) = <<"string", "COMMA", "value">>
    BY <1>8 DEF Slots, PutLine
  <2>2. QED BY <2>1 DEF SlotKinds
<1>9. CASE type \in {"LOAD", "STORE"}
  <2>1. Slots(type) = <<"reg", "COMMA", "LBRACKET", "value", "COMMA", "count", "RBRACKET">>
    BY <1>9 DEF Slots, AccessLine
  <2>2. QED BY <2>1 DEF SlotKinds
<1>10. CASE type \in {"BRANCH", "CALL"}
  <2>1. Slots(type) = <<"label">>
    BY <1>10 DEF Slots, BranchLine, CallLine
  <2>2. QED BY <2>1 DEF SlotKinds
<1>11. QED
  BY <1>1, <1>2, <1>3, <1>4, <1>5, <1>6, <1>7, <1>8, <1>9, <1>10 DEF Keywords

-----------------------------------------------------------------------------
(* Where the code stops reading.                                           *)

LEMMA LeastElement ==
    ASSUME NEW S \in SUBSET Nat, S # {}
    PROVE  \E x \in S : \A y \in S : x <= y
<1>1. IsWellFoundedOn(OpToRel(<, Nat), Nat)
  BY NatLessThanWellFounded
<1>2. PICK x \in S : \A y \in S : ~(<<y, x>> \in OpToRel(<, Nat))
  BY <1>1, WFMin
<1>3. \A y \in S : y \in Nat /\ x \in Nat /\ ~(y < x)
  BY <1>2 DEF OpToRel
<1>4. QED BY <1>3

LEMMA StartShape ==
    ASSUME source \in Seq(Token), current \in 1 .. Len(source) + 1
    PROVE  /\ Start \in current .. Len(source) + 1
           /\ TokenAt(Start).type # "NL"
           /\ \A q \in current .. Start - 1 : TokenAt(q).type = "NL"
<1> DEFINE S == {p \in current .. Len(source) + 1 : TokenAt(p).type # "NL"}
<1>1. Len(source) + 1 \in S
  BY TokenAtShape
<1>2. S \in SUBSET Nat
  OBVIOUS
<1>3. PICK p \in S : \A q \in S : p <= q
  BY <1>1, <1>2, LeastElement
<1>4. \A q \in current .. p - 1 : TokenAt(q).type = "NL"
  BY <1>3
<1>5. QED BY <1>3, <1>4 DEF Start

LEMMA LineShape ==
    ASSUME NEW type \in Keywords
    PROVE  /\ Len(Line(type)) = Len(Slots(type)) + 1
           /\ Line(type)[Len(Line(type))] = "end"
           /\ \A j \in 1 .. Len(Slots(type)) : Line(type)[j] = Slots(type)[j]
  BY SlotsShape DEF Line

LEMMA FilledShape ==
    ASSUME source \in Seq(Token), NEW p \in Nat \ {0}, TokenAt(p).type \in Keywords
    PROVE  LET line == Line(TokenAt(p).type)
           IN  /\ Filled(p) \in 0 .. Len(line)
               /\ \A j \in 1 .. Filled(p) : Fits(TokenAt(p + j), line[j])
               /\ Filled(p) < Len(line) => ~Fits(TokenAt(p + Filled(p) + 1), line[Filled(p) + 1])
<1> DEFINE line == Line(TokenAt(p).type)
           S == {k \in 1 .. Len(line) : ~Fits(TokenAt(p + k), line[k])}
           Stops(k) == /\ \A j \in 1 .. k : Fits(TokenAt(p + j), line[j])
                       /\ k < Len(line) => ~Fits(TokenAt(p + k + 1), line[k + 1])
<1>1. Len(line) \in Nat
  BY LineShape, SlotsShape
<1>2. \E k \in 0 .. Len(line) : Stops(k)
  <2>1. CASE S = {}
    <3>1. Stops(Len(line))
      BY <1>1, <2>1
    <3>2. QED BY <1>1, <3>1
  <2>2. CASE S # {}
    <3>1. S \in SUBSET Nat
      BY <1>1
    <3>2. PICK k \in S : \A j \in S : k <= j
      BY <2>2, <3>1, LeastElement
    <3>3. k - 1 \in 0 .. Len(line)
      BY <1>1
    <3>4. \A j \in 1 .. k - 1 : Fits(TokenAt(p + j), line[j])
      BY <1>1, <3>2
    <3>5. k - 1 + 1 = k /\ p + (k - 1) + 1 = p + k
      BY <1>1
    <3>6. ~Fits(TokenAt(p + (k - 1) + 1), line[k - 1 + 1])
      BY <3>2, <3>5
    <3>7. Stops(k - 1)
      BY <3>4, <3>6
    <3>8. QED BY <3>3, <3>7
  <2>3. QED BY <2>1, <2>2
<1>3. Filled(p) = CHOOSE k \in 0 .. Len(line) : Stops(k)
  BY DEF Filled
<1> HIDE DEF Stops, line
<1>4. Filled(p) \in 0 .. Len(line) /\ Stops(Filled(p))
  BY <1>2, <1>3
<1>5. QED BY <1>4 DEF Stops, line

LEMMA SlotFilled ==
    ASSUME source \in Seq(Token), NEW p \in Nat \ {0}, TokenAt(p).type \in Keywords,
           NEW j \in 1 .. Filled(p), j <= Len(Slots(TokenAt(p).type))
    PROVE  LET slot == Slots(TokenAt(p).type)[j]
           IN  /\ slot \in SlotKinds
               /\ Fits(TokenAt(p + j), slot)
               /\ TokenAt(p + j) \in Token \/ TokenAt(p + j) = Eof
               /\ TokenAt(p + j).type \notin Keywords
               /\ slot # "count" => p + j <= Len(source)
<1> DEFINE slots == Slots(TokenAt(p).type)
           slot == slots[j]
<1>1. Filled(p) \in Nat /\ j \in Nat \ {0} /\ p + j \in Nat \ {0}
  BY FilledShape, LineShape, SlotsShape
<1>2. slot \in SlotKinds
  <2>1. slots \in Seq(SlotKinds) /\ j \in 1 .. Len(slots)
    BY SlotsShape, <1>1
  <2>2. QED BY <2>1
<1>3. Fits(TokenAt(p + j), slot)
  <2>1. Fits(TokenAt(p + j), Line(TokenAt(p).type)[j])
    BY FilledShape
  <2>2. Line(TokenAt(p).type)[j] = slot
    BY LineShape, SlotsShape, <1>1
  <2>3. QED BY <2>1, <2>2
<1>4. TokenAt(p + j) \in Token \/ TokenAt(p + j) = Eof
  BY <1>1, TokenAtShape
<1>5. /\ TokenAt(p + j).type \notin Keywords
      /\ slot # "count" => TokenAt(p + j).type # "EOF"
  BY <1>2, <1>3, <1>4, FitsToken
<1>6. slot # "count" => p + j <= Len(source)
  BY <1>1, <1>5, TokenAtShape
<1>7. QED BY <1>2, <1>3, <1>4, <1>5, <1>6

(* A refused line stops at most one token behind the end of the file, a    *)
(* line that is accepted at the end at most.                               *)
LEMMA FilledWithin ==
    ASSUME source \in Seq(Token), NEW p \in 1 .. Len(source), TokenAt(p).type \in Keywords
    PROVE  /\ Filled(p) \in Nat /\ Len(Line(TokenAt(p).type)) \in Nat \ {0}
           /\ ~IsLine(p) => /\ Filled(p) < Len(Line(TokenAt(p).type))
                            /\ p + Filled(p) + 1 \in p + 1 .. Len(source) + 2
           /\ IsLine(p) => /\ p + Len(Line(TokenAt(p).type)) \in p + 1 .. Len(source) + 1
                           /\ Filled(p) = Len(Line(TokenAt(p).type))
                           /\ TokenAt(p + Filled(p)).type \in {"NL", "EOF"}
<1> DEFINE slots == Slots(TokenAt(p).type)
           n == Len(slots)
           k == Filled(p)
<1>1. n \in Nat /\ Len(Line(TokenAt(p).type)) = n + 1 /\ k \in 0 .. n + 1 /\ p \in Nat \ {0}
  BY SlotsShape, LineShape, FilledShape
<1>2. \A j \in 1 .. k : j <= n /\ slots[j] # "count" => p + j <= Len(source)
  BY <1>1, SlotFilled
<1>3. \A j \in 1 .. n : slots[j] = "count" => j > 1 /\ j < n /\ slots[j - 1] # "count"
  BY SlotsShape
<1> HIDE DEF slots, n, k
<1>4. CASE k <= n
  <2>1. p + k + 1 <= Len(source) + 2
    <3>1. CASE k = 0
      BY <1>1, <3>1
    <3>2. CASE k > 0 /\ slots[k] # "count"
      BY <1>1, <1>2, <1>4, <3>2
    <3>3. CASE k > 0 /\ slots[k] = "count"
      <4>1. k - 1 \in 1 .. k /\ k - 1 <= n /\ slots[k - 1] # "count"
        BY <1>1, <1>3, <1>4, <3>3
      <4>2. p + (k - 1) <= Len(source)
        BY <1>2, <4>1
      <4>3. QED BY <1>1, <4>2
    <3>4. QED BY <1>1, <3>1, <3>2, <3>3
  <2>2. ~IsLine(p) /\ k < Len(Line(TokenAt(p).type))
    BY <1>1, <1>4 DEF IsLine, k
  <2>3. p + k + 1 \in p + 1 .. Len(source) + 2
    BY <1>1, <2>1
  <2>4. QED BY <1>1, <2>2, <2>3 DEF k
<1>5. CASE k = n + 1
  <2>1. p + n + 1 <= Len(source) + 1
    <3>1. CASE n = 0
      BY <1>1, <3>1
    <3>2. CASE n > 0
      <4>1. n \in 1 .. n /\ n \in 1 .. k /\ ~(n < n)
        BY <1>1, <1>5, <3>2
      <4>2. slots[n] # "count"
        BY <1>3, <4>1
      <4>3. p + n <= Len(source)
        BY <1>1, <1>2, <4>1, <4>2
      <4>4. QED BY <1>1, <4>3
    <3>3. QED BY <1>1, <3>1, <3>2
  <2>2. p + (n + 1) \in p + 1 .. Len(source) + 1
    BY <1>1, <2>1
  <2>3. TokenAt(p + k).type \in {"NL", "EOF"}
    <3>1. Fits(TokenAt(p + k), Line(TokenAt(p).type)[k])
      <4>1. k \in 1 .. Filled(p)
        BY <1>1, <1>5 DEF k
      <4>2. QED BY <1>1, <4>1, FilledShape
    <3>2. Line(TokenAt(p).type)[k] = "end"
      BY <1>1, <1>5, LineShape
    <3>3. QED BY <3>1, <3>2 DEF Fits
  <2>4. IsLine(p)
    BY <1>1, <1>5 DEF IsLine, k
  <2>5. QED BY <1>1, <1>5, <2>2, <2>3, <2>4 DEF k
<1>6. QED BY <1>1, <1>4, <1>5

(* The token at a slot of a line that is accepted. *)
LEMMA LineFits ==
    ASSUME source \in Seq(Token), NEW p \in 1 .. Len(source), IsLine(p),
           NEW j \in 1 .. Len(Slots(TokenAt(p).type))
    PROVE  /\ Fits(TokenAt(p + j), Slots(TokenAt(p).type)[j])
           /\ TokenAt(p + j) \in Token \/ TokenAt(p + j) = Eof
<1>1. TokenAt(p).type \in Keywords
  BY DEF IsLine
<1>2. Len(Slots(TokenAt(p).type)) \in Nat
  BY <1>1, SlotsShape
<1>3. j \in 1 .. Filled(p) /\ j <= Len(Slots(TokenAt(p).type))
  BY <1>1, <1>2, LineShape, FilledWithin
<1>4. QED BY <1>1, <1>3, SlotFilled

-----------------------------------------------------------------------------
(* What an accepted line becomes.                                          *)

LEMMA ZeroIsWord == 0 \in Word
<1>1. WordBits \in Nat
  BY WordsAssumption DEF WordBits
<1>2. Base \in Nat \ {0}
  BY <1>1, PowersAssumption DEF Base
<1>3. QED BY <1>2 DEF Word

LEMMA Operands ==
    ASSUME NEW t, t \in Token \/ t = Eof
    PROVE  /\ Fits(t, "reg") => Var(t) \in VarOp
           /\ Fits(t, "imm") => Imm(t) \in ImmOp
           /\ Fits(t, "value") => Value(t) \in VarOp \cup ImmOp
           /\ Fits(t, "count") => Imm(t) \in ImmOp
           /\ Fits(t, "base") => BaseLetter[t.name] \in Bases
           /\ Fits(t, "label") => Name(t) \in LabelOp
           /\ Fits(t, "string") => t.text \in Seq(Byte \ {0})
<1>1. IsRegister(t) => Var(t) \in VarOp
  BY RegisterAssumption DEF IsRegister, Var, VarOp
<1>2. Number(t) # NoNumber => Number(t) \in Word
  <2> SUFFICES ASSUME Number(t) # NoNumber PROVE Number(t) \in Word
    OBVIOUS
  <2>1. CASE t.type = "EOF"
    BY <2>1, ZeroIsWord DEF Number
  <2>2. CASE t.type \in {"NUM", "STR"}
    <3>1. t \in Token
      BY <2>2 DEF Eof
    <3>2. Number(t) = t.number /\ t.number \in Word \cup {NoNumber}
      BY <2>2, <3>1, TokenShape DEF Number
    <3>3. QED BY <3>2
  <2>3. QED BY <2>1, <2>2 DEF Number
<1>3. Number(t) # NoNumber => Imm(t) \in ImmOp
  BY <1>2 DEF Imm, ImmOp
<1>4. Fits(t, "reg") => Var(t) \in VarOp
  BY <1>1 DEF Fits
<1>5. Fits(t, "imm") => Imm(t) \in ImmOp
  BY <1>3 DEF Fits, IsImmediate
<1>6. Fits(t, "count") => Imm(t) \in ImmOp
  BY <1>3 DEF Fits
<1>7. Fits(t, "value") => Value(t) \in VarOp \cup ImmOp
  <2>1. CASE IsRegister(t)
    BY <1>1, <2>1 DEF Value, IsRegister
  <2>2. CASE IsImmediate(t)
    BY <1>3, <2>2 DEF Value, IsImmediate
  <2>3. QED BY <2>1, <2>2 DEF Fits
<1>8. Fits(t, "base") => BaseLetter[t.name] \in Bases
  BY BaseLetterAssumption DEF Fits
<1>9. Fits(t, "label") => Name(t) \in LabelOp
  BY TokenShape DEF Fits, Eof, Name, LabelOp
<1>10. Fits(t, "string") => t.text \in Seq(Byte \ {0})
  BY TokenShape DEF Fits, Eof
<1>11. QED BY <1>4, <1>5, <1>6, <1>7, <1>8, <1>9, <1>10

LEMMA CommandShape ==
    ASSUME source \in Seq(Token), NEW p \in 1 .. Len(source), IsLine(p)
    PROVE  CommandAt(p) \in Command
<1> DEFINE t == TokenAt(p)
           a(j) == TokenAt(p + j)
<1>1. t.type \in Keywords /\ t \in Token
  BY TokenAtShape DEF IsLine
<1>2. \A j \in 1 .. Len(Slots(t.type)) :
          /\ Fits(a(j), Slots(t.type)[j])
          /\ a(j) \in Token \/ a(j) = Eof
  BY LineFits
<1> HIDE DEF t, a
<1>3. CASE t.type \in {"NOP", "RET"}
  BY <1>3 DEF CommandAt, Command, t
<1>4. CASE t.type = "MOV"
  <2>1. Slots(t.type) = <<"reg", "COMMA", "imm">>
    BY <1>4 DEF Slots, MovLine
  <2>2. Fits(a(1), "reg") /\ Fits(a(3), "imm")
    BY <1>2, <2>1
  <2>3. /\ a(1) \in Token \/ a(1) = Eof
        /\ a(3) \in Token \/ a(3) = Eof
    BY <1>2, <2>1
  <2>4. /\ Var(a(1)) \in VarOp
        /\ Imm(a(3)) \in ImmOp
    BY <2>2, <2>3, Operands
  <2>5. CommandAt(p) = [type |-> t.type, destination |-> Var(a(1)), val_a |-> Imm(a(3))]
    BY <1>4 DEF CommandAt, t, a
  <2>6. QED BY <1>4, <2>4, <2>5 DEF Command
<1>5. CASE t.type = "PRINT"
  <2>1. Slots(t.type) = <<"value", "COMMA", "base">>
    BY <1>5 DEF Slots, PrintLine
  <2>2. Fits(a(1), "value") /\ Fits(a(3), "base")
    BY <1>2, <2>1
  <2>3. /\ a(1) \in Token \/ a(1) = Eof
        /\ a(3) \in Token \/ a(3) = Eof
    BY <1>2, <2>1
  <2>4. /\ Value(a(1)) \in VarOp \cup ImmOp
        /\ BaseLetter[a(3).name] \in Bases
    BY <2>2, <2>3, Operands
  <2>5. CommandAt(p) = [type |-> t.type, val_a |-> Value(a(1)),
                           val_b |-> [type |-> "BASE", base |-> BaseLetter[a(3).name]]]
    BY <1>5 DEF CommandAt, t, a
  <2>6. QED BY <1>5, <2>4, <2>5 DEF Command, BaseOp
<1>6. CASE t.type \in {"ADD", "SUB"}
  <2>1. Slots(t.type) = <<"reg", "COMMA", "reg", "COMMA", "value">>
    BY <1>6 DEF Slots, AddSubLine
  <2>2. Fits(a(1), "reg") /\ Fits(a(3), "reg") /\ Fits(a(5), "value")
    BY <1>2, <2>1
  <2>3. /\ a(1) \in Token \/ a(1) = Eof
        /\ a(3) \in Token \/ a(3) = Eof
        /\ a(5) \in Token \/ a(5) = Eof
    BY <1>2, <2>1
  <2>4. /\ Var(a(1)) \in VarOp
        /\ Var(a(3)) \in VarOp
        /\ Value(a(5)) \in VarOp \cup ImmOp
    BY <2>2, <2>3, Operands
  <2>5. CommandAt(p) = [type |-> t.type, destination |-> Var(a(1)), val_a |-> Var(a(3)),
                           val_b |-> Value(a(5))]
    BY <1>6 DEF CommandAt, t, a
  <2>6. QED BY <1>6, <2>4, <2>5 DEF Command
<1>7. CASE t.type \in {"CMP", "CMP_U"}
  <2>1. Slots(t.type) = <<"reg", "COMMA", "value">>
    BY <1>7 DEF Slots, CmpLine, CmpULine
  <2>2. Fits(a(1), "reg") /\ Fits(a(3), "value")
    BY <1>2, <2>1
  <2>3. /\ a(1) \in Token \/ a(1) = Eof
        /\ a(3) \in Token \/ a(3) = Eof
    BY <1>2, <2>1
  <2>4. /\ Var(a(1)) \in VarOp
        /\ Value(a(3)) \in VarOp \cup ImmOp
    BY <2>2, <2>3, Operands
  <2>5. CommandAt(p) = [type |-> t.type, val_a |-> Var(a(1)), val_b |-> Value(a(3))]
    BY <1>7 DEF CommandAt, t, a
  <2>6. QED BY <1>7, <2>4, <2>5 DEF Command
<1>8. CASE t.type \in {"AND", "ORR", "EOR"}
  <2>1. Slots(t.type) = <<"reg", "COMMA", "reg", "COMMA", "reg">>
    BY <1>8 DEF Slots, BitwiseLine
  <2>2. Fits(a(1), "reg") /\ Fits(a(3), "reg") /\ Fits(a(5), "reg")
    BY <1>2, <2>1
  <2>3. /\ a(1) \in Token \/ a(1) = Eof
        /\ a(3) \in Token \/ a(3) = Eof
        /\ a(5) \in Token \/ a(5) = Eof
    BY <1>2, <2>1
  <2>4. /\ Var(a(1)) \in VarOp
        /\ Var(a(3)) \in VarOp
        /\ Var(a(5)) \in VarOp
    BY <2>2, <2>3, Operands
  <2>5. CommandAt(p) = [type |-> t.type, destination |-> Var(a(1)), val_a |-> Var(a(3)),
                           val_b |-> Value(a(5))]
    BY <1>8 DEF CommandAt, t, a
  <2>6. Value(a(5)) = Var(a(5))
    BY <2>2 DEF Fits, IsRegister, Value, Var
  <2>7. QED BY <1>8, <2>4, <2>5, <2>6 DEF Command
<1>9. CASE t.type \in {"ASR", "LSR", "LSL"}
  <2>1. Slots(t.type) = <<"reg", "COMMA", "reg", "COMMA", "imm">>
    BY <1>9 DEF Slots, ShiftLine
  <2>2. Fits(a(1), "reg") /\ Fits(a(3), "reg") /\ Fits(a(5), "imm")
    BY <1>2, <2>1
  <2>3. /\ a(1) \in Token \/ a(1) = Eof
        /\ a(3) \in Token \/ a(3) = Eof
        /\ a(5) \in Token \/ a(5) = Eof
    BY <1>2, <2>1
  <2>4. /\ Var(a(1)) \in VarOp
        /\ Var(a(3)) \in VarOp
        /\ Imm(a(5)) \in ImmOp
    BY <2>2, <2>3, Operands
  <2>5. CommandAt(p) = [type |-> t.type, destination |-> Var(a(1)), val_a |-> Var(a(3)),
                           val_b |-> Value(a(5))]
    BY <1>9 DEF CommandAt, t, a
  <2>6. Value(a(5)) = Imm(a(5))
    BY <2>2 DEF Fits, IsImmediate, Value, Imm
  <2>7. QED BY <1>9, <2>4, <2>5, <2>6 DEF Command
<1>10. CASE t.type = "PUT"
  <2>1. Slots(t.type) = <<"string", "COMMA", "value">>
    BY <1>10 DEF Slots, PutLine
  <2>2. Fits(a(1), "string") /\ Fits(a(3), "value")
    BY <1>2, <2>1
  <2>3. /\ a(1) \in Token \/ a(1) = Eof
        /\ a(3) \in Token \/ a(3) = Eof
    BY <1>2, <2>1
  <2>4. /\ a(1).text \in Seq(Byte \ {0})
        /\ Value(a(3)) \in VarOp \cup ImmOp
    BY <2>2, <2>3, Operands
  <2>5. CommandAt(p) = [type |-> t.type, val_a |-> [type |-> "STR", str |-> a(1).text],
                           val_b |-> Value(a(3))]
    BY <1>10 DEF CommandAt, t, a
  <2>6. QED BY <1>10, <2>4, <2>5 DEF Command, StrOp
<1>11. CASE t.type \in {"LOAD", "STORE"}
  <2>1. Slots(t.type) = <<"reg", "COMMA", "LBRACKET", "value", "COMMA", "count", "RBRACKET">>
    BY <1>11 DEF Slots, AccessLine
  <2>2. Fits(a(1), "reg") /\ Fits(a(4), "value") /\ Fits(a(6), "count")
    BY <1>2, <2>1
  <2>3. /\ a(1) \in Token \/ a(1) = Eof
        /\ a(4) \in Token \/ a(4) = Eof
        /\ a(6) \in Token \/ a(6) = Eof
    BY <1>2, <2>1
  <2>4. /\ Var(a(1)) \in VarOp
        /\ Value(a(4)) \in VarOp \cup ImmOp
        /\ Imm(a(6)) \in ImmOp
    BY <2>2, <2>3, Operands
  <2>5. CommandAt(p) = [type |-> t.type, destination |-> Var(a(1)), val_a |-> Value(a(4)),
                           val_b |-> Imm(a(6))]
    BY <1>11 DEF CommandAt, t, a
  <2>6. QED BY <1>11, <2>4, <2>5 DEF Command
<1>12. CASE t.type = "BRANCH"
  <2>1. Slots(t.type) = <<"label">>
    BY <1>12 DEF Slots, BranchLine
  <2>2. Fits(a(1), "label")
    BY <1>2, <2>1
  <2>3. /\ a(1) \in Token \/ a(1) = Eof
    BY <1>2, <2>1
  <2>4. /\ Name(a(1)) \in LabelOp
    BY <2>2, <2>3, Operands
  <2>5. CommandAt(p) = [type |-> t.type, val_a |-> Name(a(1)), branch_condition |-> t.condition]
    BY <1>12 DEF CommandAt, t, a
  <2>6. t.condition \in Conditions
    BY <1>1, <1>12, TokenShape
  <2>7. QED BY <1>12, <2>4, <2>5, <2>6 DEF Command
<1>13. CASE t.type = "CALL"
  <2>1. Slots(t.type) = <<"label">>
    BY <1>13 DEF Slots, CallLine
  <2>2. Fits(a(1), "label")
    BY <1>2, <2>1
  <2>3. /\ a(1) \in Token \/ a(1) = Eof
    BY <1>2, <2>1
  <2>4. /\ Name(a(1)) \in LabelOp
    BY <2>2, <2>3, Operands
  <2>5. CommandAt(p) = [type |-> t.type, val_a |-> Name(a(1))]
    BY <1>13 DEF CommandAt, t, a
  <2>6. QED BY <1>13, <2>4, <2>5 DEF Command
<1>14. QED
  BY <1>1, <1>3, <1>4, <1>5, <1>6, <1>7, <1>8, <1>9, <1>10, <1>11, <1>12, <1>13 DEF Keywords

-----------------------------------------------------------------------------
(* The inductive invariant: what holds at every turn, and what holds when  *)
(* the loop is left or the list was given back.                            *)

Origins == origin \in Seq(1 .. Len(source) + 1)

Parsing ==
    phase = "parsing" =>
        /\ current <= Len(source) + 1
        /\ ~had_error /\ ~double_free
        /\ pending # NULL => TokenAt(pending).type = "IDENT"
        /\ \A i \in DOMAIN origin : origin[i] \in Positions /\ origin[i] < current
        /\ Made = Seen
        /\ heap = ListBlocks \cup Held(pending)

IInv == TypeOK /\ HandsOverProgram /\ Origins /\ NothingSkipped /\ HeapExact /\ Parsing

(* The commands before c. *)
SeenBefore(c) == {q \in Positions : q < c /\ source[q].type \in Keywords}

LEMMA SeenIs ==
    ASSUME source' = source
    PROVE  Seen = SeenBefore(current) /\ Seen' = SeenBefore(current')
  BY DEF Seen, SeenBefore, Positions

(* Only newlines are between current and Start. *)
LEMMA SeenAtStart ==
    ASSUME source \in Seq(Token), current \in 1 .. Len(source) + 1
    PROVE  SeenBefore(Start) = SeenBefore(current)
<1>1. /\ Start \in current .. Len(source) + 1
      /\ \A q \in current .. Start - 1 : TokenAt(q).type = "NL"
  BY StartShape
<1>2. \A q \in Positions : q >= current /\ q < Start => source[q].type \notin Keywords
  <2>1. TAKE q \in Positions
  <2>2. HAVE q >= current /\ q < Start
  <2>3. TokenAt(q).type = "NL" /\ TokenAt(q) = source[q]
    BY <1>1, <2>2 DEF Positions, TokenAt
  <2>4. QED BY <2>3 DEF Keywords
<1>3. QED BY <1>1, <1>2 DEF SeenBefore, Positions

(* The tokens that fill a line are no commands. *)
LEMMA SeenInLine ==
    ASSUME source \in Seq(Token), NEW p \in 1 .. Len(source), TokenAt(p).type \in Keywords,
           NEW n \in 0 .. Filled(p)
    PROVE  SeenBefore(p + n + 1) = SeenBefore(p) \cup {p}
<1>1. Filled(p) \in 0 .. Len(Slots(TokenAt(p).type)) + 1 /\ Len(Slots(TokenAt(p).type)) \in Nat
  BY FilledShape, LineShape, SlotsShape
<1>2. \A j \in 1 .. n : TokenAt(p + j).type \notin Keywords
  <2>1. TAKE j \in 1 .. n
  <2>2. CASE j <= Len(Slots(TokenAt(p).type))
    BY <1>1, <2>2, SlotFilled
  <2>3. CASE j > Len(Slots(TokenAt(p).type))
    <3>1. j = Filled(p) /\ IsLine(p)
      BY <1>1, <2>3, LineShape DEF IsLine
    <3>2. TokenAt(p + j).type \in {"NL", "EOF"}
      BY <3>1, FilledWithin
    <3>3. QED BY <3>2 DEF Keywords
  <2>4. QED BY <1>1, <2>2, <2>3
<1>3. \A q \in Positions : q > p /\ q < p + n + 1 => source[q].type \notin Keywords
  <2>1. TAKE q \in Positions
  <2>2. HAVE q > p /\ q < p + n + 1
  <2>3. q - p \in 1 .. n /\ p + (q - p) = q
    BY <1>1, <2>2 DEF Positions
  <2>4. TokenAt(q).type \notin Keywords
    BY <1>2, <2>3
  <2>5. QED BY <2>4 DEF TokenAt, Positions
<1>4. p \in Positions /\ source[p].type \in Keywords
  BY DEF Positions, TokenAt
<1>5. \A q \in Positions : q < p + n + 1 /\ source[q].type \in Keywords <=>
                           (q < p /\ source[q].type \in Keywords) \/ q = p
  BY <1>1, <1>3, <1>4 DEF Positions
<1>6. QED BY <1>4, <1>5 DEF SeenBefore

(* The list holds no label. *)
LEMMA ListBlocksShape ==
    ASSUME Origins
    PROVE  /\ ListBlocks \subseteq [kind: {"command", "operand"}, at: 1 .. Len(source) + 1]
           /\ \A i : Block("label", i) \notin ListBlocks
<1>1. \A i \in DOMAIN origin : origin[i] \in 1 .. Len(source) + 1
  BY DEF Origins
<1>2. \A q \in 1 .. Len(source) + 1 :
          BlocksOf(q) \subseteq [kind: {"command", "operand"}, at: 1 .. Len(source) + 1]
  BY DEF BlocksOf, Block
<1>3. ListBlocks \subseteq [kind: {"command", "operand"}, at: 1 .. Len(source) + 1]
  BY <1>1, <1>2 DEF ListBlocks
<1>4. QED BY <1>3 DEF Block

LEMMA ListBlocksPrimed ==
    ASSUME Origins'
    PROVE  ListBlocks' \subseteq [kind: {"command", "operand"}, at: 1 .. Len(source') + 1]
<1>1. \A i \in DOMAIN origin' : origin'[i] \in 1 .. Len(source') + 1
  BY DEF Origins
<1>2. \A q \in 1 .. Len(source') + 1 :
          BlocksOf(q)' \subseteq [kind: {"command", "operand"}, at: 1 .. Len(source') + 1]
  BY DEF BlocksOf, Block
<1>3. QED BY <1>1, <1>2 DEF ListBlocks

(* A list of one command more. *)
LEMMA Appended ==
    ASSUME Origins, source' = source, NEW p \in 1 .. Len(source) + 1,
           origin' = Append(origin, p)
    PROVE  /\ Origins'
           /\ Len(origin') = Len(origin) + 1 /\ DOMAIN origin = 1 .. Len(origin)
           /\ DOMAIN origin' = DOMAIN origin \cup {Len(origin) + 1}
           /\ \A i \in DOMAIN origin : origin'[i] = origin[i]
           /\ origin'[Len(origin) + 1] = p
           /\ ListBlocks' = ListBlocks \cup BlocksOf(p)
<1>1. /\ Origins'
      /\ Len(origin') = Len(origin) + 1 /\ DOMAIN origin = 1 .. Len(origin)
      /\ DOMAIN origin' = DOMAIN origin \cup {Len(origin) + 1}
      /\ \A i \in DOMAIN origin : origin'[i] = origin[i]
      /\ origin'[Len(origin) + 1] = p
  BY DEF Origins
<1>2. \A q : BlocksOf(q)' = BlocksOf(q)
  BY DEF BlocksOf, TokenAt
<1>3. ListBlocks' = UNION {BlocksOf(origin'[i]) : i \in DOMAIN origin'}
  BY <1>2 DEF ListBlocks
<1>4. QED BY <1>1, <1>3 DEF ListBlocks

LEMMA ListBlocksKept ==
    ASSUME source' = source, origin' = origin
    PROVE  ListBlocks' = ListBlocks
  BY DEF ListBlocks, BlocksOf, TokenAt

LEMMA Added ==
    ASSUME TypeOK, HandsOverProgram, NEW command \in Command, NEW p, NEW label,
           label # NULL => TokenAt(label).name \in Label,
           Add(command, p, label)
    PROVE  /\ HandsOverProgram'
           /\ origin' = Append(origin, p)
           /\ Len(commands') = Len(commands) + 1
           /\ oom' \in BOOLEAN
<1>1. /\ commands \in Seq(Command) /\ labels \in [Label -> 0 .. Len(commands)]
      /\ oom \in BOOLEAN
  BY DEF TypeOK, HandsOverProgram, IsProgram
<1>2. commands' = Append(commands, command) /\ origin' = Append(origin, p)
  BY DEF Add
<1>3. commands' \in Seq(Command) /\ Len(commands') = Len(commands) + 1 /\ Len(commands) \in Nat
  BY <1>1, <1>2
<1>4. labels' \in [Label -> 0 .. Len(commands')] /\ oom' \in BOOLEAN
  <2>1. CASE UNCHANGED labels /\ oom' \in {oom, TRUE}
    <3>1. \A n \in Label : labels[n] \in 0 .. Len(commands')
      BY <1>1, <1>3
    <3>2. labels' \in [Label -> 0 .. Len(commands')]
      BY <1>1, <2>1, <3>1
    <3>3. oom' \in BOOLEAN
      BY <1>1, <2>1, Zenon
    <3>4. QED BY <3>2, <3>3
  <2>2. CASE label # NULL /\ labels' = [labels EXCEPT ![TokenAt(label).name] = Len(commands) + 1]
             /\ UNCHANGED oom
    BY <1>1, <1>3, <2>2
  <2>3. CASE label = NULL
    BY <2>1, <2>3 DEF Add
  <2>4. CASE label # NULL
    <3>1. \/ labels' = [labels EXCEPT ![TokenAt(label).name] = Len(commands) + 1]
             /\ UNCHANGED oom
          \/ oom' = TRUE /\ UNCHANGED labels
      BY <2>4 DEF Add
    <3>2. QED BY <2>1, <2>2, <2>4, <3>1
  <2>5. QED BY <2>3, <2>4
<1>5. QED BY <1>2, <1>3, <1>4 DEF HandsOverProgram, IsProgram

(* The lost blocks are strings of puts. *)
LEMMA LostShape ==
    /\ Lost \subseteq [kind: {"operand"}, at: Positions]
    /\ Seen = Made => Lost = {}
<1>1. Seen \subseteq Positions
  BY DEF Seen
<1>2. \A b \in Lost : \E q \in Seen \ Made : b = Block("operand", q)
  BY DEF Lost
<1>3. QED BY <1>1, <1>2 DEF Block

-----------------------------------------------------------------------------
(* The turns that leave the loop.                                          *)

LEMMA Leaves ==
    ASSUME IInv, phase = "parsing", UNCHANGED source, UNCHANGED result,
           NEW label \in Positions \cup {NULL}, NEW h, NEW error \in BOOLEAN,
           Leave(label, h, error),
           current' \in 1 .. Len(source) + 2, oom' \in BOOLEAN,
           Made \subseteq Seen', had_error' \/ Seen' = Made,
           \A q \in Seen' \ Made : \A r \in Seen' : r <= q,
           heap' = Lost' \cup ListBlocks
    PROVE  IInv'
<1>1. /\ source' = source /\ commands' = commands /\ origin' = origin /\ labels' = labels
      /\ phase' = "parsed" /\ pending' = label
      /\ ListBlocks' = ListBlocks /\ Made' = Made /\ Positions' = Positions
  BY ListBlocksKept DEF result, Leave, Made, Positions
<1>2. had_error' \in BOOLEAN /\ double_free' \in BOOLEAN /\ (double_free' => label # NULL)
  <2>1. double_free = FALSE
    BY DEF IInv, TypeOK, Parsing
  <2>2. CASE label = NULL
    BY <2>1, <2>2 DEF Leave
  <2>3. CASE label # NULL
    <3>1. had_error' = TRUE /\ double_free' = (double_free \/ Block("label", label) \notin h)
      BY <2>3 DEF Leave
    <3>2. QED BY <2>3, <3>1, Zenon
  <2>4. QED BY <2>2, <2>3
<1>3. heap' \subseteq [kind: {"command", "operand", "label"}, at: 1 .. Len(source) + 1]
  <2>1. Lost' \subseteq [kind: {"operand"}, at: Positions]
    BY <1>1, LostShape DEF Lost, Seen, Block, Positions
  <2>2. ListBlocks \subseteq [kind: {"command", "operand"}, at: 1 .. Len(source) + 1]
    BY ListBlocksShape DEF IInv
  <2>3. QED BY <2>1, <2>2 DEF Positions
<1>4. TypeOK'
  BY <1>1, <1>2, <1>3 DEF IInv, TypeOK
<1>5. HandsOverProgram' /\ Origins'
  BY <1>1 DEF IInv, HandsOverProgram, IsProgram, Origins
<1>6. NothingSkipped'
  BY <1>1 DEF IInv, NothingSkipped
<1>7. HeapExact'
  BY <1>1, <1>2 DEF HeapExact
<1>8. Parsing'
  BY <1>1 DEF Parsing
<1>9. QED BY <1>4, <1>5, <1>6, <1>7, <1>8 DEF IInv

(* No command was read in the last turn. *)
LEMMA LeavesQuietly ==
    ASSUME IInv, phase = "parsing", UNCHANGED source, UNCHANGED result,
           NEW label \in Positions \cup {NULL}, NEW h, NEW error \in BOOLEAN,
           Leave(label, h, error),
           current' \in 1 .. Len(source) + 2, oom' \in BOOLEAN,
           Seen' = Seen, heap' = ListBlocks
    PROVE  IInv'
<1>1. Seen' = Made
  BY DEF IInv, Parsing
<1>2. Seen' = Made'
  BY <1>1 DEF result, Made, Positions
<1>3. Lost' = {}
  BY <1>2 DEF Lost
<1>4. QED BY <1>1, <1>3, Leaves

(* At a turn that reads, nothing has gone wrong and Start is found. *)
LEMMA AtTurn ==
    ASSUME IInv, Reads
    PROVE  /\ phase = "parsing" /\ ~had_error /\ ~double_free /\ UNCHANGED source
           /\ source \in Seq(Token) /\ Len(source) \in Nat
           /\ current \in Nat \ {0} /\ Start \in current .. Len(source) + 1
           /\ SeenBefore(Start) = Seen /\ Seen = Made
           /\ heap = ListBlocks \cup Held(pending)
           /\ heap \ Held(pending) = ListBlocks
<1>1. /\ phase = "parsing" /\ UNCHANGED source
      /\ source \in Seq(Token) /\ current \in 1 .. Len(source) + 1
      /\ heap = ListBlocks \cup Held(pending)
  BY DEF IInv, TypeOK, Parsing, Reads
<1>2. heap \ Held(pending) = ListBlocks
  BY <1>1, ListBlocksShape DEF IInv, Held
<1>3. SeenBefore(Start) = Seen
  BY <1>1, SeenAtStart, SeenIs
<1>4. QED BY <1>1, <1>2, <1>3, StartShape DEF IInv, Parsing

LEMMA AtEndStep == ASSUME IInv, AtEnd PROVE IInv'
<1>1. /\ phase = "parsing" /\ UNCHANGED <<source, current, oom>> /\ UNCHANGED result
      /\ Leave(pending, heap, had_error)
  BY DEF AtEnd
<1>2. pending \in Positions \cup {NULL} /\ had_error \in BOOLEAN /\ current' \in 1 .. Len(source) + 2
      /\ oom' \in BOOLEAN
  BY <1>1 DEF IInv, TypeOK
<1>3. heap' = ListBlocks
  <2>1. heap = ListBlocks \cup Held(pending)
    BY <1>1 DEF IInv, Parsing
  <2>2. CASE pending = NULL
    BY <1>1, <2>1, <2>2 DEF Leave, Held
  <2>3. CASE pending # NULL
    BY <1>1, <2>1, <2>3, ListBlocksShape DEF Leave, Held, IInv
  <2>4. QED BY <2>2, <2>3
<1>4. Seen' = Seen
  BY <1>1 DEF Seen, Positions
<1>5. QED BY <1>1, <1>2, <1>3, <1>4, LeavesQuietly

(* A turn that gets no farther than Start reads no command. *)
LEMMA SeenNothing ==
    ASSUME IInv, Reads, current' = Start
    PROVE  Seen' = Seen /\ current' \in 1 .. Len(source) + 2
  BY AtTurn, SeenIs

LEMMA SecondLabelStep == ASSUME IInv, SecondLabel PROVE IInv'
<1>1. /\ Reads /\ pending # NULL /\ current' = Start /\ UNCHANGED result /\ oom' = oom
      /\ Leave(pending, heap \ Held(pending), TRUE)
  BY DEF SecondLabel
<1>2. heap' = ListBlocks
  BY <1>1, AtTurn, ListBlocksShape DEF Leave, IInv
<1>3. pending \in Positions \cup {NULL} /\ oom' \in BOOLEAN
  BY <1>1 DEF IInv, TypeOK
<1>4. QED BY <1>1, <1>2, <1>3, AtTurn, SeenNothing, LeavesQuietly

LEMMA LabelNoMemoryStep == ASSUME IInv, LabelNoMemory PROVE IInv'
<1>1. /\ Reads /\ pending = NULL /\ current' = Start /\ UNCHANGED result /\ oom' \in BOOLEAN
      /\ Leave(NULL, heap, TRUE)
  BY DEF LabelNoMemory
<1>2. heap' = ListBlocks
  BY <1>1, AtTurn DEF Leave, Held
<1>3. QED BY <1>1, <1>2, AtTurn, SeenNothing, LeavesQuietly

(* The turns in which parse_cmd returns NULL at Start. *)
LEMMA NoCommandStep ==
    ASSUME IInv, NothingLeft \/ CommandNoMemory \/ Unrecognized
    PROVE  IInv'
<1>1. PICK error \in BOOLEAN :
          /\ Reads /\ current' = Start /\ oom' \in BOOLEAN
          /\ NoCommand(heap, error)
  BY DEF NothingLeft, CommandNoMemory, Unrecognized, IInv, TypeOK
<1>2. UNCHANGED result /\ Leave(NULL, heap \ Held(pending), error)
  BY <1>1 DEF NoCommand
<1>3. heap' = ListBlocks
  BY <1>1, <1>2, AtTurn DEF Leave
<1>4. QED BY <1>1, <1>2, <1>3, AtTurn, SeenNothing, LeavesQuietly

-----------------------------------------------------------------------------
(* Labels.                                                                 *)

LEMMA LabelRead ==
    ASSUME IInv, Reads, AtLabel
    PROVE  /\ Start \in Positions /\ Start + 2 \in 1 .. Len(source) + 1
           /\ TokenAt(Start).type = "IDENT" /\ TokenAt(Start).name \in Label
           /\ SeenBefore(Start + 2) = Seen
           /\ TokenAt(Start + 2).type = "EOF" => Start + 2 = Len(source) + 1
<1>1. TokenAt(Start).type = "IDENT" /\ TokenAt(Start + 1).type = "COLON"
  BY DEF AtLabel
<1>2. /\ source \in Seq(Token) /\ Len(source) \in Nat /\ Start \in Nat \ {0}
      /\ SeenBefore(Start) = Seen
  BY AtTurn
<1>3. Start + 1 <= Len(source) /\ Start + 1 \in Nat \ {0}
  BY <1>1, <1>2, TokenAtShape
<1>4. TokenAt(Start) \in Token /\ TokenAt(Start) = source[Start]
      /\ TokenAt(Start + 1) = source[Start + 1]
  BY <1>2, <1>3, TokenAtShape
<1>5. \A q \in Positions : q >= Start /\ q < Start + 2 => source[q].type \notin Keywords
  BY <1>1, <1>2, <1>4 DEF Positions, Keywords
<1>6. SeenBefore(Start + 2) = SeenBefore(Start)
  BY <1>2, <1>5 DEF SeenBefore, Positions
<1>7. TokenAt(Start + 2).type = "EOF" => Start + 2 = Len(source) + 1
  BY <1>2, <1>3, TokenAtShape
<1>8. QED BY <1>1, <1>2, <1>3, <1>4, <1>6, <1>7, TokenShape DEF Positions

LEMMA LabelPendsStep == ASSUME IInv, LabelPends PROVE IInv'
<1>1. /\ Reads /\ AtLabel /\ pending = NULL
      /\ TokenAt(Start + 2).type # "EOF"
      /\ current' = Start + 2 /\ UNCHANGED result /\ oom' = oom
      /\ pending' = Start /\ heap' = heap \cup Held(Start)
      /\ phase' = phase /\ had_error' = had_error /\ double_free' = double_free
  BY DEF LabelPends, Stay
<1>2. /\ source' = source /\ commands' = commands /\ origin' = origin /\ labels' = labels
      /\ ListBlocks' = ListBlocks /\ Made' = Made /\ Positions' = Positions
  BY <1>1, AtTurn, ListBlocksKept DEF result, Made, Positions
<1>3. Seen' = Seen /\ Seen = Made
  BY <1>1, <1>2, LabelRead, SeenIs, AtTurn
<1>4. Start \in Positions /\ Start + 2 \in 1 .. Len(source) + 1 /\ Start # NULL
      /\ TokenAt(Start).type = "IDENT" /\ Start \in current .. Len(source) + 1
      /\ current \in Nat /\ Len(source) \in Nat
  BY <1>1, LabelRead, AtTurn, ParserNullAssumption DEF Positions
<1>5. heap' = ListBlocks \cup Held(Start)
  BY <1>1, AtTurn DEF Held
<1>6. heap' \subseteq [kind: {"command", "operand", "label"}, at: 1 .. Len(source) + 1]
  BY <1>1, <1>4, <1>5, ListBlocksShape DEF IInv, Held, Block, Positions
<1>7. TypeOK'
  BY <1>1, <1>2, <1>4, <1>6 DEF IInv, TypeOK
<1>8. HandsOverProgram' /\ Origins' /\ NothingSkipped'
  BY <1>2, <1>3 DEF IInv, HandsOverProgram, IsProgram, Origins, NothingSkipped
<1>9. /\ current' <= Len(source') + 1
      /\ ~had_error' /\ ~double_free'
      /\ TokenAt(pending)'.type = "IDENT"
      /\ \A i \in DOMAIN origin' : origin'[i] \in Positions' /\ origin'[i] < current'
      /\ Made' = Seen'
      /\ heap' = ListBlocks' \cup Held(pending)'
  <2>1. TokenAt(pending)' = TokenAt(Start)
    BY <1>1, <1>2 DEF TokenAt
  <2>2. \A i \in DOMAIN origin : origin[i] \in Positions /\ origin[i] < current
    BY <1>1, AtTurn DEF IInv, Parsing
  <2>3. ~had_error /\ ~double_free
    BY <1>1, AtTurn
  <2>4. Held(pending)' = Held(Start)
    BY <1>1 DEF Held, Block
  <2>5. \A i \in DOMAIN origin' : origin'[i] \in Positions' /\ origin'[i] < current'
    BY <1>1, <1>2, <1>4, <2>2 DEF Positions
  <2>6. QED BY <1>1, <1>2, <1>3, <1>4, <1>5, <2>1, <2>3, <2>4, <2>5
<1>10. Parsing'
  BY <1>9 DEF Parsing
<1>11. HeapExact'
  <2>1. Lost' = {}
    BY <1>2, <1>3 DEF Lost
  <2>2. phase' = "parsing"
    BY <1>1, AtTurn
  <2>3. QED BY <1>9, <2>1, <2>2 DEF HeapExact
<1>12. QED BY <1>7, <1>8, <1>10, <1>11 DEF IInv

LEMMA LabelAtEndNoMemoryStep == ASSUME IInv, LabelAtEndNoMemory PROVE IInv'
<1>1. /\ Reads /\ AtLabel /\ pending = NULL
      /\ current' = Start + 2 /\ UNCHANGED result /\ oom' = TRUE
      /\ Leave(Start, heap, TRUE)
  BY DEF LabelAtEndNoMemory
<1>2. Start \in Positions /\ Start # NULL /\ current' \in 1 .. Len(source) + 2
  BY <1>1, LabelRead, AtTurn, ParserNullAssumption DEF Positions
<1>3. heap' = ListBlocks
  BY <1>1, <1>2, AtTurn, ListBlocksShape DEF Leave, Held, IInv
<1>4. Seen' = Seen
  BY <1>1, LabelRead, AtTurn, SeenIs
<1>5. QED BY <1>1, <1>2, <1>3, <1>4, AtTurn, LeavesQuietly

LEMMA LabelAtEndStep == ASSUME IInv, LabelAtEnd PROVE IInv'
<1> DEFINE e == Start + 2
<1>1. /\ Reads /\ AtLabel /\ pending = NULL /\ TokenAt(e).type = "EOF"
      /\ current' = e
      /\ Add([type |-> "NOP"], e, Start)
      /\ phase' = "parsed" /\ pending' = NULL
      /\ heap' = heap \cup BlocksOf(e)
      /\ had_error' = had_error /\ double_free' = double_free
  BY DEF LabelAtEnd, Leave
<1>2. /\ source' = source /\ Len(source) \in Nat /\ e = Len(source) + 1 /\ Positions' = Positions
      /\ TokenAt(Start).name \in Label
      /\ had_error = FALSE /\ double_free = FALSE
  BY <1>1, LabelRead, AtTurn DEF Positions, IInv, TypeOK
<1>3. HandsOverProgram' /\ origin' = Append(origin, e) /\ Len(commands') = Len(commands) + 1
      /\ oom' \in BOOLEAN
  <2>1. [type |-> "NOP"] \in Command
    BY DEF Command
  <2>2. QED BY <1>1, <1>2, <2>1, Added DEF IInv
<1> HIDE DEF e
<1>4. /\ Origins' /\ Len(origin') = Len(origin) + 1 /\ DOMAIN origin = 1 .. Len(origin)
      /\ DOMAIN origin' = DOMAIN origin \cup {Len(origin) + 1}
      /\ \A i \in DOMAIN origin : origin'[i] = origin[i]
      /\ origin'[Len(origin) + 1] = e
      /\ ListBlocks' = ListBlocks \cup BlocksOf(e)
  BY <1>2, <1>3, Appended DEF IInv
<1>5. \A i \in DOMAIN origin : origin[i] \in Positions
  BY <1>1, AtTurn DEF IInv, Parsing
<1>6. Made' = Made
  BY <1>2, <1>4, <1>5 DEF Made, Positions
<1>7. Seen' = Seen /\ Seen = Made
  BY <1>1, <1>2, LabelRead, SeenIs, AtTurn DEF e
<1>8. heap' = ListBlocks'
  BY <1>1, <1>4, AtTurn DEF Held
<1>9. TypeOK'
  <2>1. heap' \subseteq [kind: {"command", "operand", "label"}, at: 1 .. Len(source') + 1]
    BY <1>2, <1>4, <1>8, ListBlocksPrimed
  <2>2. QED BY <1>1, <1>2, <1>3, <1>4, <2>1 DEF IInv, TypeOK
<1>10. NothingSkipped'
  <2>1. \A i, j \in DOMAIN origin' : i < j => origin'[i] < origin'[j]
    BY <1>2, <1>4, <1>5 DEF IInv, NothingSkipped, Positions
  <2>2. QED BY <1>6, <1>7, <2>1 DEF NothingSkipped
<1>11. HeapExact'
  <2>1. Lost' = {}
    BY <1>6, <1>7 DEF Lost
  <2>2. QED BY <1>1, <1>2, <1>8, <2>1 DEF HeapExact
<1>12. Parsing'
  BY <1>1 DEF Parsing
<1>13. QED BY <1>3, <1>4, <1>9, <1>10, <1>11, <1>12 DEF IInv

-----------------------------------------------------------------------------
(* Commands.                                                               *)

(* The turn gets to the keyword at Start, and n tokens behind it. *)
LEMMA CommandRead ==
    ASSUME IInv, Reads, TokenAt(Start).type \in Keywords, NEW n \in 0 .. Filled(Start)
    PROVE  /\ Start \in Positions /\ Start \notin Made
           /\ SeenBefore(Start + n + 1) = Made \cup {Start}
           /\ \A r \in Made : r < Start
<1>1. /\ source \in Seq(Token) /\ Len(source) \in Nat /\ Start \in Nat \ {0}
      /\ SeenBefore(Start) = Made
  BY AtTurn
<1>2. Start \in 1 .. Len(source)
  <2>1. "EOF" \notin Keywords
    BY DEF Keywords
  <2>2. QED BY <1>1, <2>1, TokenAtShape
<1>3. SeenBefore(Start + n + 1) = SeenBefore(Start) \cup {Start}
  BY <1>1, <1>2, SeenInLine
<1>4. \A r \in SeenBefore(Start) : r < Start
  BY DEF SeenBefore
<1>5. QED BY <1>1, <1>2, <1>3, <1>4 DEF Positions

LEMMA RefusedStep == ASSUME IInv, Refused PROVE IInv'
<1> DEFINE n == Filled(Start)
<1>1. /\ Reads /\ TokenAt(Start).type \in Keywords /\ ~IsLine(Start)
      /\ current' = Start + n + 1 /\ oom' = oom /\ UNCHANGED result
      /\ Leave(NULL, (heap \cup LeftBehind(Start)) \ Held(pending), TRUE)
  BY DEF Refused, NoCommand
<1>2. /\ source \in Seq(Token) /\ UNCHANGED source /\ phase = "parsing"
      /\ Start \in Nat \ {0} /\ Len(source) \in Nat
      /\ heap = ListBlocks \cup Held(pending) /\ heap \ Held(pending) = ListBlocks
  BY <1>1, AtTurn
<1>3. n \in Nat
  BY <1>1, <1>2, FilledShape, LineShape, SlotsShape
<1>4. /\ Start \in Positions /\ Start \notin Made
      /\ Seen' = Made \cup {Start} /\ Made' = Made
      /\ \A r \in Made : r < Start
  BY <1>1, <1>2, <1>3, CommandRead, SeenIs DEF result, Made, Positions
<1>5. Start \in 1 .. Len(source) /\ current' \in 1 .. Len(source) + 2
  BY <1>1, <1>2, <1>4, FilledWithin DEF Positions
<1>6. heap' = ListBlocks \cup LeftBehind(Start)
  BY <1>1, <1>2 DEF Leave, LeftBehind, Held, Block
<1>7. Lost' = LeftBehind(Start)
  <2>1. Lost' = {Block("operand", q) : q \in {p \in {Start} : source[p].type = "PUT" /\ current' > p + 1}}
    BY <1>2, <1>4 DEF Lost, Block
  <2>2. TokenAt(Start) = source[Start]
    BY <1>5 DEF TokenAt
  <2>3. current' > Start + 1 <=> n >= 1
    BY <1>1, <1>2, <1>3
  <2>4. QED BY <2>1, <2>2, <2>3 DEF LeftBehind
<1>8. had_error' = TRUE /\ oom' \in BOOLEAN
  BY <1>1 DEF Leave, IInv, TypeOK
<1>9. \A q \in Seen' \ Made : \A r \in Seen' : r <= q
  <2>1. Made \subseteq Nat
    BY DEF Made, Positions
  <2>2. QED BY <1>2, <1>4, <2>1
<1>10. QED BY <1>1, <1>2, <1>4, <1>5, <1>6, <1>7, <1>8, <1>9, Leaves

LEMMA OperandNoMemoryStep == ASSUME IInv, OperandNoMemory PROVE IInv'
<1>1. /\ Reads /\ TokenAt(Start).type \in Keywords /\ Filled(Start) >= 1
      /\ current' = Start + 1 /\ oom' = TRUE /\ UNCHANGED result
      /\ Leave(NULL, heap \ Held(pending), TRUE)
  BY DEF OperandNoMemory, NoCommand, Keywords
<1>2. /\ source \in Seq(Token) /\ UNCHANGED source /\ phase = "parsing"
      /\ Start \in Nat \ {0} /\ Len(source) \in Nat
      /\ heap \ Held(pending) = ListBlocks
  BY <1>1, AtTurn
<1>3. 0 \in 0 .. Filled(Start)
  BY <1>1, <1>2, FilledShape, LineShape, SlotsShape
<1>4. /\ Start \in Positions /\ Start \notin Made
      /\ Seen' = Made \cup {Start} /\ Made' = Made
      /\ \A r \in Made : r < Start
  BY <1>1, <1>2, <1>3, CommandRead, SeenIs DEF result, Made, Positions
<1>5. current' \in 1 .. Len(source) + 2
  BY <1>1, <1>2, <1>4 DEF Positions
<1>6. heap' = ListBlocks /\ had_error' = TRUE
  BY <1>1, <1>2 DEF Leave
<1>7. Lost' = {}
  <2>1. Seen' \ Made' = {Start} /\ ~(current' > Start + 1)
    BY <1>1, <1>2, <1>4
  <2>2. QED BY <2>1 DEF Lost
<1>8. \A q \in Seen' \ Made : \A r \in Seen' : r <= q
  <2>1. Made \subseteq Nat
    BY DEF Made, Positions
  <2>2. QED BY <1>2, <1>4, <2>1
<1>9. QED BY <1>1, <1>2, <1>4, <1>5, <1>6, <1>7, <1>8, Leaves

LEMMA ParsedStep == ASSUME IInv, Parsed PROVE IInv'
<1> DEFINE p == Start
           n == Len(Slots(TokenAt(p).type))
<1>1. /\ Reads /\ IsLine(p) /\ TokenAt(p).type \in Keywords
      /\ current' = p + Len(Line(TokenAt(p).type))
      /\ Add(CommandAt(p), p, pending)
      /\ pending' = NULL /\ heap' = (heap \ Held(pending)) \cup BlocksOf(p)
      /\ phase' = phase /\ had_error' = had_error /\ double_free' = double_free
  BY DEF Parsed, Stay, IsLine
<1>2. /\ source \in Seq(Token) /\ source' = source /\ phase = "parsing"
      /\ p \in Nat \ {0} /\ Len(source) \in Nat /\ p \in current .. Len(source) + 1
      /\ current \in Nat
      /\ heap \ Held(pending) = ListBlocks /\ Positions' = Positions
      /\ had_error = FALSE /\ double_free = FALSE
  BY <1>1, AtTurn DEF Positions, IInv, TypeOK
<1>3. n \in Nat /\ Len(Line(TokenAt(p).type)) = n + 1
  BY <1>1, SlotsShape, LineShape
<1>4. p \in Positions
  BY <1>1, <1>2, <1>3, CommandRead, FilledShape
<1>5. p \in 1 .. Len(source) /\ Filled(p) = n + 1 /\ current' \in p + 1 .. Len(source) + 1
  BY <1>1, <1>2, <1>3, <1>4, FilledWithin DEF Positions
<1>6. p \notin Made /\ Seen' = Made \cup {p} /\ \A r \in Made : r < p
  <2>1. n \in 0 .. Filled(p) /\ current' = p + n + 1
    BY <1>1, <1>2, <1>3, <1>5
  <2>2. QED BY <1>1, <1>2, <2>1, CommandRead, SeenIs
<1>7. /\ HandsOverProgram' /\ origin' = Append(origin, p) /\ Len(commands') = Len(commands) + 1
      /\ oom' \in BOOLEAN
  <2>1. CommandAt(p) \in Command
    BY <1>1, <1>2, <1>5, CommandShape
  <2>2. pending # NULL => TokenAt(pending).name \in Label
    <3>1. HAVE pending # NULL
    <3>2. pending \in Nat \ {0} /\ pending <= Len(source) /\ TokenAt(pending).type = "IDENT"
      BY <1>2, <3>1 DEF IInv, TypeOK, Parsing, Positions
    <3>3. TokenAt(pending) \in Token
      BY <1>2, <3>2, TokenAtShape
    <3>4. QED BY <3>2, <3>3, TokenShape
  <2>3. QED BY <1>1, <2>1, <2>2, Added DEF IInv
<1> HIDE DEF p
<1>8. /\ Origins' /\ Len(origin') = Len(origin) + 1 /\ DOMAIN origin = 1 .. Len(origin)
      /\ DOMAIN origin' = DOMAIN origin \cup {Len(origin) + 1}
      /\ \A i \in DOMAIN origin : origin'[i] = origin[i]
      /\ origin'[Len(origin) + 1] = p
      /\ ListBlocks' = ListBlocks \cup BlocksOf(p)
  BY <1>2, <1>5, <1>7, Appended DEF IInv
<1>9. \A i \in DOMAIN origin : origin[i] \in Positions /\ origin[i] < p
  BY <1>2 DEF IInv, Parsing, Positions
<1>10. Made' = Made \cup {p}
  BY <1>2, <1>4, <1>8 DEF Made
<1>11. heap' = ListBlocks' /\ Held(pending)' = {}
  BY <1>1, <1>2, <1>8 DEF Held
<1>12. TypeOK'
  <2>1. heap' \subseteq [kind: {"command", "operand", "label"}, at: 1 .. Len(source') + 1]
    BY <1>8, <1>11, ListBlocksPrimed
  <2>2. current' \in 1 .. Len(source') + 2
    BY <1>2, <1>5
  <2>3. QED BY <1>1, <1>2, <1>7, <1>8, <2>1, <2>2 DEF IInv, TypeOK
<1>13. NothingSkipped'
  <2>1. \A i, j \in DOMAIN origin' : i < j => origin'[i] < origin'[j]
    BY <1>2, <1>8, <1>9 DEF IInv, NothingSkipped
  <2>2. Made' = Seen'
    BY <1>6, <1>10
  <2>3. QED BY <2>1, <2>2 DEF NothingSkipped
<1>14. HeapExact'
  <2>1. Lost' = {}
    BY <1>6, <1>10 DEF Lost
  <2>2. QED BY <1>1, <1>2, <1>11, <2>1 DEF HeapExact
<1>15. Parsing'
  <2>1. \A i \in DOMAIN origin' : origin'[i] \in Positions' /\ origin'[i] < current'
    BY <1>2, <1>4, <1>5, <1>8, <1>9 DEF Positions
  <2>2. current' <= Len(source') + 1 /\ Made' = Seen'
    BY <1>2, <1>5, <1>6, <1>10
  <2>3. QED BY <1>1, <1>2, <1>11, <2>1, <2>2 DEF Parsing
<1>16. QED BY <1>7, <1>8, <1>12, <1>13, <1>14, <1>15 DEF IInv

-----------------------------------------------------------------------------
(* The list is given back: it is allocated, and what is lost is not in it. *)
LEMMA free_commandStep == ASSUME IInv, free_command PROVE IInv'
<1>1. /\ phase = "parsed" /\ phase' = "released"
      /\ heap' = heap \ ListBlocks
      /\ double_free' = (double_free \/ ~(ListBlocks \subseteq heap))
      /\ source' = source /\ current' = current /\ had_error' = had_error
      /\ commands' = commands /\ origin' = origin /\ labels' = labels
      /\ pending' = pending /\ oom' = oom
  BY DEF free_command, result
<1>2. heap = Lost \cup ListBlocks /\ (double_free => pending # NULL) /\ double_free \in BOOLEAN
  BY <1>1 DEF IInv, HeapExact, TypeOK
<1>3. double_free' = double_free
  <2>1. ListBlocks \subseteq heap
    BY <1>2
  <2>2. QED BY <1>1, <1>2, <2>1
<1>4. Lost \cap ListBlocks = {}
  <2>1. \A b \in Lost : \E q \in Seen \ Made : b = Block("operand", q)
    BY DEF Lost
  <2>2. \A b \in ListBlocks : b.kind = "operand" => \E i \in DOMAIN origin : b.at = origin[i]
    BY DEF ListBlocks, BlocksOf, Block
  <2>3. \A q \in Seen \ Made : \A i \in DOMAIN origin : q # origin[i]
    BY DEF Seen, Made
  <2>4. QED BY <2>1, <2>2, <2>3 DEF Block
<1>5. /\ ListBlocks' = ListBlocks /\ Lost' = Lost /\ Made' = Made /\ Seen' = Seen
      /\ Positions' = Positions
  BY <1>1, ListBlocksKept DEF Lost, Made, Seen, Positions, Block
<1>6. HeapExact'
  <2>1. heap' = Lost'
    BY <1>1, <1>2, <1>4, <1>5
  <2>2. QED BY <1>1, <1>2, <1>3, <2>1 DEF HeapExact
<1>7. TypeOK'
  BY <1>1, <1>3, <1>5 DEF IInv, TypeOK
<1>8. HandsOverProgram' /\ Origins' /\ NothingSkipped' /\ Parsing'
  BY <1>1, <1>5 DEF IInv, HandsOverProgram, IsProgram, Origins, NothingSkipped, Parsing
<1>9. QED BY <1>6, <1>7, <1>8 DEF IInv

LEMMA InitHolds == ASSUME Init PROVE IInv
<1>1. /\ source \in Sources /\ current = 1 /\ had_error = FALSE /\ phase = "parsing"
      /\ commands = <<>> /\ origin = <<>> /\ labels = [n \in Label |-> 0]
      /\ pending = NULL /\ heap = {} /\ double_free = FALSE /\ oom = FALSE
  BY DEF Init
<1>2. source \in Seq(Token) /\ Len(source) \in Nat
  BY <1>1, SourcesAssumption
<1>3. Made = {} /\ Seen = {} /\ ListBlocks = {} /\ Held(pending) = {} /\ Lost = {}
  <2>1. Seen = {}
    BY <1>1 DEF Seen, Positions
  <2>2. Made = {} /\ ListBlocks = {}
    BY <1>1 DEF Made, ListBlocks
  <2>3. Lost = {}
    BY <2>1 DEF Lost
  <2>4. QED BY <1>1, <2>1, <2>2, <2>3 DEF Held
<1>4. Origins /\ Len(origin) = Len(commands)
  BY <1>1, <1>2 DEF Origins
<1>5. HandsOverProgram
  BY <1>1 DEF HandsOverProgram, IsProgram
<1>6. NothingSkipped /\ HeapExact /\ Parsing
  BY <1>1, <1>2, <1>3 DEF NothingSkipped, HeapExact, Parsing
<1>7. TypeOK
  <2>1. current \in 1 .. Len(source) + 2
    BY <1>1, <1>2
  <2>2. heap \subseteq [kind: {"command", "operand", "label"}, at: 1 .. Len(source) + 1]
    BY <1>1
  <2>3. phase \in {"parsing", "parsed", "released"} /\ pending \in Positions \cup {NULL}
    BY <1>1
  <2>4. had_error \in BOOLEAN /\ (had_error => phase # "parsing")
        /\ double_free \in BOOLEAN /\ oom \in BOOLEAN
    BY <1>1
  <2>5. QED BY <1>2, <1>4, <2>1, <2>2, <2>3, <2>4 DEF TypeOK
<1>8. QED BY <1>4, <1>5, <1>6, <1>7 DEF IInv

LEMMA Stuttering == ASSUME IInv, UNCHANGED vars PROVE IInv'
<1>1. /\ UNCHANGED <<source, current, had_error, phase, commands, origin, labels, pending,
                     heap, double_free, oom>>
  BY DEF vars, result
<1>2. UNCHANGED <<Positions, Made, Seen, Lost, ListBlocks>>
  BY <1>1 DEF Positions, Made, Seen, Lost, ListBlocks, BlocksOf, TokenAt, Block
<1>3. TypeOK'
  BY <1>1, <1>2 DEF IInv, TypeOK
<1>4. HandsOverProgram' /\ Origins'
  BY <1>1 DEF IInv, HandsOverProgram, Origins
<1>5. NothingSkipped' /\ HeapExact'
  BY <1>1, <1>2 DEF IInv, NothingSkipped, HeapExact, Held, Block
<1>6. Parsing'
  BY <1>1, <1>2 DEF IInv, Parsing, Held, Block, TokenAt
<1>7. QED BY <1>3, <1>4, <1>5, <1>6 DEF IInv

(* The inductive invariant of the parser. *)
THEOREM Invariance == Spec => []IInv
<1>1. Init => IInv
  BY InitHolds
<1>2. IInv /\ [Next]_vars => IInv'
  <2> SUFFICES ASSUME IInv, [Next]_vars PROVE IInv'
    OBVIOUS
  <2>1. CASE parse_commands
    BY <2>1, AtEndStep, SecondLabelStep, LabelNoMemoryStep, LabelPendsStep, LabelAtEndStep,
       LabelAtEndNoMemoryStep, NoCommandStep, RefusedStep, OperandNoMemoryStep, ParsedStep
       DEF parse_commands
  <2>2. CASE free_command
    BY <2>2, free_commandStep
  <2>3. CASE UNCHANGED vars
    BY <2>3, Stuttering
  <2>4. QED BY <2>1, <2>2, <2>3 DEF Next
<1>3. QED BY <1>1, <1>2, PTL DEF Spec

(* The parser's variables have their types: it never reads more than a     *)
(* token behind the end of the file, whatever the source.                  *)
THEOREM TypeSafety == Spec => []TypeOK
<1>1. IInv => TypeOK
  BY DEF IInv
<1>2. QED BY <1>1, Invariance, PTL

(* Every source, with every failed allocation, becomes a program as        *)
(* interpret needs it: what Interpreter assumes of its programs.           *)
THEOREM ProgramHandedOver == Spec => []HandsOverProgram
<1>1. IInv => HandsOverProgram
  BY DEF IInv
<1>2. QED BY <1>1, Invariance, PTL

(* The list has the commands of the source, each once and in their order,  *)
(* as far as the parser came, but for the one that was refused.            *)
THEOREM CommandsComplete == Spec => []NothingSkipped
<1>1. IInv => NothingSkipped
  BY DEF IInv
<1>2. QED BY <1>1, Invariance, PTL

(* The parser's heap is accounted for, on all its ways out: the list, the  *)
(* pending label, and the string of a put that was refused behind it.      *)
THEOREM HeapAccounted == Spec => []HeapExact
<1>1. IInv => HeapExact
  BY DEF IInv
<1>2. QED BY <1>1, Invariance, PTL

-----------------------------------------------------------------------------
(* What a name stands for, as a relation of the positions D where it is    *)
(* defined, the positions o of the commands and the command c that the     *)
(* table has for it.                                                       *)
Follows(o, q) == \E i \in DOMAIN o : o[i] > q

Means(D, o, c) ==
    IF \A q \in D : ~Follows(o, q)
    THEN c = 0
    ELSE \E q \in D : /\ c \in DOMAIN o /\ o[c] > q
                      /\ \A i \in 1 .. c - 1 : o[i] < q
                      /\ \A r \in D : r > q => ~Follows(o, r)

(* A command for which no label waits changes no meaning. *)
LEMMA CommandKeepsMeaning ==
    ASSUME NEW D \in SUBSET Nat, NEW o \in Seq(Nat), NEW c, NEW p \in Nat,
           \A q \in D : Follows(o, q), Means(D, o, c)
    PROVE  Means(D, Append(o, p), c)
<1>1. /\ DOMAIN o = 1 .. Len(o) /\ Len(o) \in Nat
      /\ DOMAIN Append(o, p) = 1 .. Len(o) + 1
      /\ \A i \in DOMAIN o : Append(o, p)[i] = o[i]
  OBVIOUS
<1>2. CASE D = {}
  BY <1>2 DEF Means
<1>3. CASE D # {}
  <2>1. PICK q \in D : /\ c \in DOMAIN o /\ o[c] > q
                       /\ \A i \in 1 .. c - 1 : o[i] < q
                       /\ \A r \in D : r > q => ~Follows(o, r)
    BY <1>3 DEF Means
  <2>2. \A r \in D : ~(r > q)
    BY <2>1
  <2>3. \A i \in 1 .. c - 1 : i \in DOMAIN o
    BY <1>1, <2>1
  <2>4. c \in DOMAIN Append(o, p) /\ Append(o, p)[c] > q
        /\ \A i \in 1 .. c - 1 : Append(o, p)[i] < q
    BY <1>1, <2>1, <2>3
  <2>5. Follows(Append(o, p), q)
    BY <2>4 DEF Follows
  <2>6. QED BY <2>2, <2>4, <2>5 DEF Means
<1>4. QED BY <1>2, <1>3

(* The command that follows the last definition of a name is its meaning. *)
LEMMA CommandGivesMeaning ==
    ASSUME NEW D \in SUBSET Nat, NEW o \in Seq(Nat), NEW p \in Nat, NEW q \in D,
           \A r \in D : r <= q, \A i \in DOMAIN o : o[i] < q, p > q
    PROVE  Means(D, Append(o, p), Len(o) + 1)
<1>1. /\ DOMAIN o = 1 .. Len(o) /\ Len(o) \in Nat
      /\ DOMAIN Append(o, p) = 1 .. Len(o) + 1
      /\ \A i \in DOMAIN o : Append(o, p)[i] = o[i]
      /\ Append(o, p)[Len(o) + 1] = p
  OBVIOUS
<1>2. Follows(Append(o, p), q)
  BY <1>1 DEF Follows
<1>3. \A i \in 1 .. (Len(o) + 1) - 1 : Append(o, p)[i] < q
  BY <1>1
<1>4. \A r \in D : ~(r > q)
  OBVIOUS
<1>5. Len(o) + 1 \in DOMAIN Append(o, p) /\ Append(o, p)[Len(o) + 1] > q
  BY <1>1
<1>6. QED BY <1>2, <1>3, <1>4, <1>5 DEF Means

(* A definition that nothing follows changes no meaning. *)
LEMMA LabelKeepsMeaning ==
    ASSUME NEW D \in SUBSET Nat, NEW o, NEW c, NEW s \in Nat, ~Follows(o, s), Means(D, o, c)
    PROVE  Means(D \cup {s}, o, c)
  BY DEF Means

(* The labels before c. *)
LabelsBefore(c) == {q \in Positions : q + 1 < c /\ HasLabel(q)}
Named(D, n) == {q \in D : source[q].name = n}

(* The labels so far are followed, but for the pending one, the last.      *)
Labelling ==
    phase = "parsing" =>
        /\ \A q \in LabelsBefore(current) : Follows(origin, q) \/ q = pending
        /\ pending # NULL => /\ pending \in LabelsBefore(current)
                             /\ \A q \in LabelsBefore(current) : q <= pending
                             /\ \A i \in DOMAIN origin : origin[i] < pending

Meaning == \A n \in Label : ~oom \/ labels[n] # 0 =>
               Means(Named(LabelsBefore(current), n), origin, labels[n])

LInv == IInv /\ Labelling /\ Meaning

LEMMA MeaningIs == ASSUME Meaning PROVE LabelsMeanNext
<1>1. \A n \in Label : Definitions(n) = Named(LabelsBefore(current), n)
  BY DEF Definitions, Named, LabelsBefore
<1>2. \A q : Followed(q) <=> Follows(origin, q)
  BY DEF Followed, Follows
<1>3. QED BY <1>1, <1>2 DEF Meaning, Means, LabelsMeanNext

LEMMA LabelsPrimed ==
    ASSUME source' = source
    PROVE  /\ LabelsBefore(current)' = LabelsBefore(current')
           /\ \A n : Named(LabelsBefore(current), n)' = Named(LabelsBefore(current'), n)
  BY DEF LabelsBefore, Named, Positions, HasLabel, TokenAt

(* There is no label among newlines. *)
LEMMA LabelsAtStart ==
    ASSUME source \in Seq(Token), current \in 1 .. Len(source) + 1
    PROVE  LabelsBefore(Start) = LabelsBefore(current)
<1>1. /\ Start \in current .. Len(source) + 1
      /\ \A q \in current .. Start - 1 : TokenAt(q).type = "NL"
  BY StartShape
<1>2. \A q \in Positions : HasLabel(q) /\ q + 1 < Start => q + 1 < current
  <2>1. TAKE q \in Positions
  <2>2. HAVE HasLabel(q) /\ q + 1 < Start
  <2>3. TokenAt(q + 1).type = "COLON"
    BY <2>2 DEF HasLabel
  <2>4. q + 1 \notin current .. Start - 1
    BY <1>1, <2>3
  <2>5. QED BY <1>1, <2>2, <2>4 DEF Positions
<1>3. QED BY <1>1, <1>2 DEF LabelsBefore, Positions

(* There is none in what fits a line. *)
LEMMA LabelsInLine ==
    ASSUME source \in Seq(Token), NEW p \in 1 .. Len(source), TokenAt(p).type \in Keywords,
           NEW n \in 0 .. Filled(p)
    PROVE  LabelsBefore(p + n + 1) = LabelsBefore(p)
<1>1. Filled(p) \in 0 .. Len(Slots(TokenAt(p).type)) + 1 /\ Len(Slots(TokenAt(p).type)) \in Nat
  BY FilledShape, LineShape, SlotsShape
<1>2. \A j \in 1 .. n : TokenAt(p + j).type # "COLON"
  <2>1. TAKE j \in 1 .. n
  <2>2. CASE j <= Len(Slots(TokenAt(p).type))
    <3>1. j \in 1 .. Filled(p)
      BY <1>1
    <3>2. /\ Slots(TokenAt(p).type)[j] \in SlotKinds
          /\ Fits(TokenAt(p + j), Slots(TokenAt(p).type)[j])
      BY <2>2, <3>1, SlotFilled
    <3>3. QED BY <3>2, FitsNoColon
  <2>3. CASE j > Len(Slots(TokenAt(p).type))
    <3>1. j = Filled(p) /\ IsLine(p)
      BY <1>1, <2>3, LineShape DEF IsLine
    <3>2. TokenAt(p + j).type \in {"NL", "EOF"}
      BY <3>1, FilledWithin
    <3>3. QED BY <3>2
  <2>4. QED BY <1>1, <2>2, <2>3
<1>3. \A q \in Positions : HasLabel(q) /\ q + 1 < p + n + 1 => q + 1 < p
  <2>1. TAKE q \in Positions
  <2>2. HAVE HasLabel(q) /\ q + 1 < p + n + 1
  <2>3. TokenAt(q + 1).type = "COLON"
    BY <2>2 DEF HasLabel
  <2>4. q + 1 # p
    BY <2>3 DEF Keywords
  <2>5. ~(q + 1 > p)
    <3>1. ASSUME q + 1 > p PROVE FALSE
      <4>1. q + 1 - p \in 1 .. n /\ p + (q + 1 - p) = q + 1
        BY <1>1, <2>2, <3>1 DEF Positions
      <4>2. QED BY <1>2, <2>3, <4>1
    <3>2. QED BY <3>1
  <2>6. QED BY <2>4, <2>5 DEF Positions
<1>4. QED BY <1>1, <1>3 DEF LabelsBefore, Positions

(* A label at Start is one label more. *)
LEMMA LabelsAtLabel ==
    ASSUME IInv, Reads, AtLabel
    PROVE  LabelsBefore(Start + 2) = LabelsBefore(Start) \cup {Start}
<1>1. TokenAt(Start).type = "IDENT" /\ TokenAt(Start + 1).type = "COLON" /\ Start \in Positions
  BY LabelRead DEF AtLabel
<1>2. \A q \in Positions : HasLabel(q) => q + 1 # Start
  BY <1>1 DEF HasLabel
<1>3. HasLabel(Start)
  BY <1>1 DEF HasLabel
<1>4. \A q \in Positions : q + 1 < Start + 2 /\ HasLabel(q) <=>
                           (q + 1 < Start /\ HasLabel(q)) \/ q = Start
  BY <1>1, <1>2, <1>3 DEF Positions
<1>5. QED BY <1>1, <1>4 DEF LabelsBefore

LEMMA LeavesMeaning ==
    ASSUME LInv, IInv', source' = source, UNCHANGED result, phase' = "parsed", oom => oom',
           LabelsBefore(current') = LabelsBefore(current)
    PROVE  LInv'
<1>1. Labelling'
  BY DEF Labelling
<1>2. Meaning'
  <2>1. \A n : Named(LabelsBefore(current), n)' = Named(LabelsBefore(current), n)
    BY LabelsPrimed DEF Named
  <2>2. origin' = origin /\ labels' = labels
    BY DEF result
  <2>3. QED BY <2>1, <2>2 DEF LInv, Meaning, Means, Follows
<1>3. QED BY <1>1, <1>2 DEF LInv

LEMMA MeaningLeft ==
    ASSUME LInv, IInv',
           AtEnd \/ SecondLabel \/ LabelNoMemory
           \/ NothingLeft \/ CommandNoMemory \/ Unrecognized \/ Refused \/ OperandNoMemory
    PROVE  LInv'
<1> USE DEF LInv
<1>1. CASE AtEnd
  <2>1. UNCHANGED <<source, current, oom>> /\ UNCHANGED result /\ phase' = "parsed"
    BY <1>1 DEF AtEnd, Leave
  <2>2. QED BY <2>1, LeavesMeaning
<1>2. CASE SecondLabel \/ LabelNoMemory \/ NothingLeft \/ CommandNoMemory \/ Unrecognized
  <2>1. Reads /\ current' = Start /\ UNCHANGED result /\ phase' = "parsed" /\ (oom => oom')
    BY <1>2 DEF SecondLabel, LabelNoMemory, NothingLeft, CommandNoMemory, Unrecognized,
                NoCommand, Leave
  <2>2. source' = source /\ source \in Seq(Token) /\ current \in 1 .. Len(source) + 1
    BY <2>1, AtTurn DEF IInv, Parsing, TypeOK
  <2>3. QED BY <2>1, <2>2, LabelsAtStart, LeavesMeaning
<1>3. CASE Refused \/ OperandNoMemory
  <2> DEFINE n == IF Refused THEN Filled(Start) ELSE 0
  <2>1. /\ Reads /\ TokenAt(Start).type \in Keywords
        /\ current' = Start + n + 1 /\ (oom => oom')
        /\ UNCHANGED result /\ phase' = "parsed"
    <3>1. CASE Refused
      BY <3>1 DEF Refused, NoCommand, Leave
    <3>2. CASE ~Refused
      <4>1. /\ Reads /\ TokenAt(Start).type \in {"PUT", "BRANCH", "CALL"}
            /\ current' = Start + 1 /\ oom' = TRUE /\ NoCommand(heap, TRUE)
        BY <1>3, <3>2 DEF OperandNoMemory
      <4>2. Len(source) \in Nat /\ current \in Nat /\ Start \in current .. Len(source) + 1
        BY <4>1, AtTurn
      <4>3. Start \in Nat
        BY <4>2
      <4>4. TokenAt(Start).type \in Keywords
        BY <4>1 DEF Keywords
      <4>5. UNCHANGED result /\ phase' = "parsed"
        BY <4>1 DEF NoCommand, Leave
      <4>6. QED BY <3>2, <4>1, <4>3, <4>4, <4>5
    <3>3. QED BY <3>1, <3>2
  <2>2. /\ source' = source /\ source \in Seq(Token) /\ current \in 1 .. Len(source) + 1
        /\ Start \in Nat \ {0}
    BY <2>1, AtTurn DEF IInv, Parsing, TypeOK
  <2>3. n \in 0 .. Filled(Start)
    BY <2>1, <2>2, FilledShape, LineShape, SlotsShape
  <2> HIDE DEF n
  <2>4. Start \in 1 .. Len(source)
    BY <2>1, <2>3, CommandRead DEF Positions
  <2>5. LabelsBefore(current') = LabelsBefore(current)
    BY <2>1, <2>2, <2>3, <2>4, LabelsInLine, LabelsAtStart
  <2>6. QED BY <2>1, <2>2, <2>5, LeavesMeaning
<1>4. QED BY <1>1, <1>2, <1>3

(* One more label, that nothing follows yet. *)
LEMMA MeaningOfLabel ==
    ASSUME LInv, Reads, AtLabel, pending = NULL,
           current' = Start + 2, UNCHANGED result, oom => oom'
    PROVE  Meaning'
<1>1. /\ source' = source /\ source \in Seq(Token) /\ current \in 1 .. Len(source) + 1
      /\ Start \in Nat /\ origin' = origin /\ labels' = labels
      /\ \A i \in DOMAIN origin : origin[i] \in Nat /\ origin[i] < Start
  BY AtTurn DEF LInv, IInv, Parsing, TypeOK, Positions, result
<1>2. LabelsBefore(current') = LabelsBefore(current) \cup {Start}
  BY <1>1, LabelsAtLabel, LabelsAtStart DEF LInv
<1>3. ~Follows(origin, Start)
  BY <1>1 DEF Follows
<1>4. ASSUME NEW n \in Label, ~oom \/ labels[n] # 0
      PROVE  Means(Named(LabelsBefore(current'), n), origin, labels[n])
  <2>1. Means(Named(LabelsBefore(current), n), origin, labels[n])
    BY <1>4 DEF LInv, Meaning
  <2>2. Named(LabelsBefore(current), n) \in SUBSET Nat
    BY DEF Named, LabelsBefore, Positions
  <2>3. Named(LabelsBefore(current'), n) =
            IF source[Start].name = n THEN Named(LabelsBefore(current), n) \cup {Start}
                                      ELSE Named(LabelsBefore(current), n)
    BY <1>2 DEF Named
  <2>4. QED BY <1>1, <1>3, <2>1, <2>2, <2>3, LabelKeepsMeaning
<1>5. \A n : Named(LabelsBefore(current), n)' = Named(LabelsBefore(current'), n)
  BY <1>1, LabelsPrimed
<1>6. QED BY <1>1, <1>4, <1>5 DEF Meaning, Means, Follows

LEMMA MeaningNoMemory == ASSUME LInv, IInv', LabelAtEndNoMemory PROVE LInv'
<1>1. /\ Reads /\ AtLabel /\ pending = NULL /\ current' = Start + 2 /\ oom'
      /\ UNCHANGED result /\ phase' = "parsed"
  BY DEF LabelAtEndNoMemory, Leave
<1>2. Labelling'
  BY <1>1 DEF Labelling
<1>3. QED BY <1>1, <1>2, MeaningOfLabel DEF LInv

LEMMA MeaningPends == ASSUME LInv, IInv', LabelPends PROVE LInv'
<1>1. /\ Reads /\ AtLabel /\ pending = NULL /\ current' = Start + 2 /\ oom' = oom
      /\ pending' = Start /\ origin' = origin /\ labels' = labels /\ UNCHANGED result
  BY DEF LabelPends, Stay, result
<1>2. /\ source' = source /\ source \in Seq(Token) /\ current \in 1 .. Len(source) + 1
      /\ phase = "parsing" /\ Start \in current .. Len(source) + 1 /\ Start \in Nat
      /\ \A i \in DOMAIN origin : origin[i] \in Nat /\ origin[i] < Start
  BY <1>1, AtTurn DEF LInv, IInv, Parsing, TypeOK, Positions
<1>3. LabelsBefore(current') = LabelsBefore(current) \cup {Start}
  BY <1>1, <1>2, LabelsAtLabel, LabelsAtStart DEF LInv
<1>4. ~Follows(origin, Start)
  BY <1>2 DEF Follows
<1>5. Labelling'
  <2>1. \A q \in LabelsBefore(current) : Follows(origin, q) /\ q <= Start
    <3>1. \A q \in LabelsBefore(current) : q \in Nat /\ q + 1 < current /\ q # NULL
      BY <1>2, ParserNullAssumption DEF LabelsBefore, Positions
    <3>2. QED BY <1>1, <1>2, <3>1 DEF LInv, Labelling
  <2>2. \A q \in LabelsBefore(current)' : (Follows(origin, q) \/ q = Start) /\ q <= Start
    BY <1>2, <1>3, <2>1, LabelsPrimed
  <2>3. Start \in LabelsBefore(current)'
    BY <1>2, <1>3, LabelsPrimed
  <2>4. \A q : Follows(origin, q)' <=> Follows(origin, q)
    BY <1>1 DEF Follows
  <2>5. QED BY <1>1, <1>2, <2>2, <2>3, <2>4 DEF Labelling
<1>6. Meaning'
  BY <1>1, MeaningOfLabel
<1>7. QED BY <1>5, <1>6 DEF LInv

LEMMA OriginsNat == ASSUME IInv PROVE /\ origin \in Seq(Nat) /\ DOMAIN labels = Label
                                      /\ Len(commands) = Len(origin)
<1>1. origin \in Seq(1 .. Len(source) + 1) /\ source \in Seq(Token)
  BY DEF IInv, Origins, TypeOK
<1>2. origin \in Seq(Nat)
  BY <1>1
<1>3. QED BY <1>2 DEF IInv, HandsOverProgram, IsProgram, TypeOK

LEMMA AddedKeeps ==
    ASSUME NEW command, NEW p, NEW label, Add(command, p, label), oom \in BOOLEAN,
           NEW m \in DOMAIN labels,
           label = NULL \/ (TokenAt(label) = source[label] /\ source[label].name # m),
           ~oom' \/ labels'[m] # 0
    PROVE  ~oom \/ labels[m] # 0
<1>1. labels'[m] = labels[m]
  BY DEF Add
<1>2. oom => oom'
  BY DEF Add
<1>3. QED BY <1>1, <1>2

LEMMA MeaningParsed == ASSUME LInv, IInv', Parsed PROVE LInv'
<1> DEFINE p == Start
           n == Len(Slots(TokenAt(p).type))
           D == LabelsBefore(current)
<1>1. /\ Reads /\ IsLine(p) /\ TokenAt(p).type \in Keywords
      /\ current' = p + Len(Line(TokenAt(p).type))
      /\ Add(CommandAt(p), p, pending)
      /\ pending' = NULL
  BY DEF Parsed, Stay, IsLine
<1>2. /\ source' = source /\ source \in Seq(Token) /\ phase = "parsing"
      /\ current \in 1 .. Len(source) + 1
      /\ p \in Nat \ {0} /\ p \in current .. Len(source) + 1 /\ oom \in BOOLEAN
      /\ pending \in Positions \cup {NULL}
  BY <1>1, AtTurn DEF LInv, IInv, Parsing, TypeOK
<1>3. LabelsBefore(current') = D
  <2>1. n \in Nat /\ Len(Line(TokenAt(p).type)) = n + 1 /\ Filled(p) = n + 1
    BY <1>1, SlotsShape, LineShape DEF IsLine
  <2>2. n \in 0 .. Filled(p) /\ current' = p + n + 1
    BY <1>1, <1>2, <2>1
  <2>3. p \in 1 .. Len(source)
    BY <1>1, <2>2, CommandRead DEF LInv, Positions
  <2>4. QED BY <1>1, <1>2, <2>2, <2>3, LabelsInLine, LabelsAtStart
<1> HIDE DEF p, n
<1>4. /\ D \in SUBSET Nat /\ NULL \notin D
      /\ \A q \in D : q < p /\ (Follows(origin, q) \/ q = pending)
  <2>1. \A q \in D : q \in Nat /\ q + 1 < current
    BY DEF LabelsBefore, Positions
  <2>2. \A q \in D : Follows(origin, q) \/ q = pending
    BY <1>2 DEF LInv, Labelling
  <2>3. QED BY <1>2, <2>1, <2>2, ParserNullAssumption
<1>5. pending # NULL => /\ pending \in D /\ TokenAt(pending) = source[pending]
                        /\ \A q \in D : q <= pending
                        /\ \A i \in DOMAIN origin : origin[i] < pending
  BY <1>2 DEF LInv, Labelling, TokenAt, Positions
<1>6. origin \in Seq(Nat) /\ DOMAIN labels = Label /\ Len(commands) = Len(origin)
  BY OriginsNat DEF LInv
<1>7. Labelling'
  <2>1. origin' = Append(origin, p)
    BY <1>1 DEF Add
  <2>2. \A q \in D : Follows(origin', q)
    <3>1. Len(origin) + 1 \in DOMAIN origin' /\ origin'[Len(origin) + 1] = p
      BY <1>2, <1>6, <2>1
    <3>2. QED BY <1>4, <3>1 DEF Follows
  <2>3. \A q : Follows(origin, q)' <=> Follows(origin', q)
    BY DEF Follows
  <2>4. LabelsBefore(current)' = D
    BY <1>2, <1>3, LabelsPrimed
  <2>5. QED BY <1>1, <2>2, <2>3, <2>4 DEF Labelling
<1>8. Meaning'
  <2>1. ASSUME NEW m \in Label, ~oom' \/ labels'[m] # 0
        PROVE  Means(Named(D, m), origin', labels'[m])
    <3> DEFINE c == CommandAt(p)
    <3>1. Add(c, p, pending) /\ D \in SUBSET Nat /\ p \in Nat
      BY <1>1, <1>2, <1>4
    <3> HIDE DEF D, c
    <3>2. pending = NULL \/ source[pending].name # m => ~oom \/ labels[m] # 0
      BY <1>2, <1>5, <1>6, <2>1, <3>1, AddedKeeps
    <3>3. pending = NULL \/ source[pending].name # m => Means(Named(D, m), origin, labels[m])
      BY <3>2 DEF LInv, Meaning, D
    <3>4. origin' = Append(origin, p) /\ Named(D, m) \in SUBSET Nat
      BY <3>1 DEF Add, Named
    <3>5. CASE pending = NULL \/ source[pending].name # m
      <4>1. labels'[m] = labels[m]
        BY <1>5, <1>6, <3>1, <3>5 DEF Add
      <4>2. \A q \in Named(D, m) : Follows(origin, q)
        BY <1>4, <3>5 DEF Named
      <4>3. QED BY <1>6, <3>1, <3>3, <3>4, <3>5, <4>1, <4>2, CommandKeepsMeaning
    <3>6. CASE pending # NULL /\ source[pending].name = m
      <4>1. labels' = [labels EXCEPT ![m] = Len(commands) + 1]
        BY <1>5, <2>1, <3>1, <3>6 DEF Add
      <4>2. labels'[m] = Len(origin) + 1
        BY <1>6, <2>1, <4>1
      <4>3. pending \in Named(D, m) /\ \A r \in Named(D, m) : r <= pending
        BY <1>5, <3>6 DEF Named
      <4>4. p > pending
        BY <1>4, <1>5, <3>1, <3>6
      <4>5. QED BY <1>5, <1>6, <3>1, <3>4, <3>6, <4>2, <4>3, <4>4, CommandGivesMeaning
    <3>7. QED BY <3>5, <3>6
  <2>2. \A m : Named(LabelsBefore(current), m)' = Named(D, m)
    BY <1>2, <1>3, LabelsPrimed
  <2>3. QED BY <2>1, <2>2 DEF Meaning, Means, Follows
<1>9. QED BY <1>7, <1>8 DEF LInv

LEMMA MeaningAtEnd == ASSUME LInv, IInv', LabelAtEnd PROVE LInv'
<1> DEFINE e == Start + 2
           D == LabelsBefore(e)
<1>1. /\ Reads /\ AtLabel /\ pending = NULL
      /\ current' = e
      /\ Add([type |-> "NOP"], e, Start)
      /\ phase' = "parsed"
  BY DEF LabelAtEnd, Leave
<1>2. /\ source' = source /\ source \in Seq(Token) /\ phase = "parsing"
      /\ current \in 1 .. Len(source) + 1
      /\ Start \in Nat \ {0} /\ Start \in current .. Len(source) + 1 /\ oom \in BOOLEAN
      /\ Start \in Positions
      /\ \A i \in DOMAIN origin : origin[i] \in Nat /\ origin[i] < Start
  BY <1>1, AtTurn, LabelRead DEF LInv, IInv, Parsing, TypeOK, Positions
<1>3. D = LabelsBefore(current) \cup {Start}
  BY <1>1, <1>2, LabelsAtLabel, LabelsAtStart DEF LInv
<1>4. \A q \in LabelsBefore(current) : q \in Nat /\ q < Start /\ Follows(origin, q)
  <2>1. \A q \in LabelsBefore(current) : q \in Nat /\ q + 1 < current
    BY DEF LabelsBefore, Positions
  <2>2. \A q \in LabelsBefore(current) : Follows(origin, q) \/ q = NULL
    BY <1>1, <1>2 DEF LInv, Labelling
  <2>3. QED BY <1>2, <2>1, <2>2, ParserNullAssumption
<1>5. /\ D \in SUBSET Nat /\ NULL \notin D /\ Start \in D /\ TokenAt(Start) = source[Start]
      /\ e \in Nat
      /\ \A q \in D : q < e /\ (Follows(origin, q) \/ q = Start) /\ q <= Start
  BY <1>2, <1>3, <1>4, ParserNullAssumption DEF TokenAt, Positions
<1>6. origin \in Seq(Nat) /\ DOMAIN labels = Label /\ Len(commands) = Len(origin)
  BY OriginsNat DEF LInv
<1>7. Labelling'
  BY <1>1 DEF Labelling
<1>8. Meaning'
  <2>1. ASSUME NEW m \in Label, ~oom' \/ labels'[m] # 0
        PROVE  Means(Named(D, m), origin', labels'[m])
    <3>1. Start # NULL /\ \A i \in DOMAIN origin : origin[i] < Start
      BY <1>2, <1>5
    <3>2. Add([type |-> "NOP"], e, Start) /\ TokenAt(Start) = source[Start]
      BY <1>1, <1>5
    <3>3. ASSUME source[Start].name # m
          PROVE  Means(Named(D, m), origin, labels[m])
      <4>1. ~oom \/ labels[m] # 0
        <5> HIDE DEF e
        <5>1. m \in DOMAIN labels /\ oom \in BOOLEAN
          BY <1>2, <1>6
        <5>2. QED BY <2>1, <3>2, <3>3, <5>1, AddedKeeps
      <4>2. Means(Named(LabelsBefore(current), m), origin, labels[m])
        BY <4>1 DEF LInv, Meaning
      <4>3. Named(D, m) = Named(LabelsBefore(current), m)
        BY <1>3, <3>3 DEF Named
      <4>4. QED BY <4>2, <4>3
    <3> HIDE DEF e
    <3>4. origin' = Append(origin, e) /\ Named(D, m) \in SUBSET Nat
      BY <1>5, <3>2 DEF Add, Named
    <3>5. CASE source[Start].name # m
      <4>1. labels'[m] = labels[m]
        BY <1>6, <3>1, <3>2, <3>5 DEF Add
      <4>2. \A q \in Named(D, m) : Follows(origin, q)
        BY <1>5, <3>5 DEF Named
      <4>3. QED BY <1>5, <1>6, <3>3, <3>4, <3>5, <4>1, <4>2, CommandKeepsMeaning
    <3>6. CASE source[Start].name = m
      <4>1. labels' = [labels EXCEPT ![m] = Len(commands) + 1]
        BY <2>1, <3>1, <3>2, <3>6 DEF Add
      <4>2. labels'[m] = Len(origin) + 1
        BY <1>6, <2>1, <4>1
      <4>3. Start \in Named(D, m) /\ \A r \in Named(D, m) : r <= Start
        BY <1>5, <3>6 DEF Named
      <4>4. e > Start
        BY <1>5
      <4>5. QED BY <1>5, <1>6, <3>1, <3>4, <4>2, <4>3, <4>4, CommandGivesMeaning
    <3>7. QED BY <3>5, <3>6
  <2>2. \A m : Named(LabelsBefore(current), m)' = Named(D, m)
    <3>1. source' = source /\ current' = e
      BY <1>1, <1>2
    <3>2. QED BY <3>1, LabelsPrimed
  <2>3. QED BY <2>1, <2>2 DEF Meaning, Means, Follows
<1>9. QED BY <1>7, <1>8 DEF LInv

(* The invariant with the meaning of the labels. *)
THEOREM LabelInvariance == Spec => []LInv
<1>1. Init => LInv
  <2> SUFFICES ASSUME Init PROVE LInv
    OBVIOUS
  <2>1. current = 1 /\ pending = NULL /\ labels = [n \in Label |-> 0]
    BY DEF Init
  <2>2. LabelsBefore(current) = {}
    BY <2>1 DEF LabelsBefore, Positions
  <2>3. Labelling
    BY <2>1, <2>2 DEF Labelling
  <2>4. Meaning
    BY <2>1, <2>2 DEF Meaning, Means, Named
  <2>5. QED BY <2>3, <2>4, InitHolds DEF LInv
<1>2. IInv' /\ LInv /\ [Next]_vars => LInv'
  <2> SUFFICES ASSUME IInv', LInv, [Next]_vars PROVE LInv'
    OBVIOUS
  <2>1. CASE parse_commands
    BY <2>1, MeaningLeft, MeaningPends, MeaningParsed, MeaningAtEnd, MeaningNoMemory
       DEF parse_commands
  <2>2. CASE free_command \/ UNCHANGED vars
    <3>1. UNCHANGED <<source, current, commands, origin, labels, pending, oom>>
          /\ (phase' = "parsing" => phase = "parsing")
      BY <2>2 DEF free_command, result, vars
    <3>2. LabelsBefore(current)' = LabelsBefore(current)
      BY <3>1 DEF LabelsBefore, Positions, HasLabel, TokenAt
    <3>3. \A n : Named(LabelsBefore(current), n)' = Named(LabelsBefore(current), n)
      BY <3>1, <3>2 DEF Named
    <3>4. Labelling'
      BY <3>1, <3>2 DEF LInv, Labelling, Follows
    <3>5. Meaning'
      BY <3>1, <3>3 DEF LInv, Meaning, Means, Follows
    <3>6. QED BY <3>4, <3>5 DEF LInv
  <2>3. QED BY <2>1, <2>2 DEF Next
<1>3. QED BY <1>1, <1>2, Invariance, PTL DEF Spec

(* A name stands for the command that follows its last definition, over    *)
(* any newlines, in every source; after a failed allocation it may stand   *)
(* for nothing, but never for another command.                             *)
THEOREM LabelsExact == Spec => []LabelsMeanNext
<1>1. LInv => LabelsMeanNext
  BY MeaningIs DEF LInv
<1>2. QED BY <1>1, LabelInvariance, PTL

-----------------------------------------------------------------------------
(* Failures of allocations that had_error does not tell of: a label of D,  *)
(* with o and c as in Means, was followed by a command but not entered, or *)
(* entered by a later definition.                                          *)
Unentered(D, o, c) == \E q \in D : /\ Follows(o, q)
                                   /\ c = 0 \/ \E r \in D : r > q /\ Follows(o, r)

Reported == oom /\ ~had_error =>
                \E n \in Label : Unentered(Named(LabelsBefore(current), n), origin, labels[n])

LEMMA ReportedIs == ASSUME Reported PROVE FailuresReported
<1>1. \A n \in Label : Definitions(n) = Named(LabelsBefore(current), n)
  BY DEF Definitions, Named, LabelsBefore
<1>2. \A q : Followed(q) <=> Follows(origin, q)
  BY DEF Followed, Follows
<1>3. SUFFICES ASSUME oom, ~had_error
               PROVE  \E n \in Label : \E q \in Definitions(n) :
                          /\ Followed(q)
                          /\ labels[n] = 0 \/ \E r \in Definitions(n) : r > q /\ Followed(r)
  BY DEF FailuresReported
<1>4. PICK n \in Label : Unentered(Definitions(n), origin, labels[n])
  BY <1>1, <1>3 DEF Reported
<1>5. PICK q \in Definitions(n) :
          /\ Follows(origin, q)
          /\ labels[n] = 0 \/ \E r \in Definitions(n) : r > q /\ Follows(origin, r)
  BY <1>4 DEF Unentered
<1>6. Followed(q)
  BY <1>2, <1>5
<1>7. labels[n] = 0 \/ \E r \in Definitions(n) : r > q /\ Followed(r)
  BY <1>2, <1>5
<1>8. QED BY <1>4, <1>5, <1>6, <1>7

(* More labels and one more command leave a name unentered. *)
LEMMA UnenteredStays ==
    ASSUME NEW D, NEW E, D \subseteq E, NEW o, NEW u, \A q \in D : Follows(o, q) => Follows(u, q),
           NEW c, Unentered(D, o, c)
    PROVE  Unentered(E, u, c)
  BY DEF Unentered

LEMMA FollowsMore ==
    ASSUME NEW o \in Seq(Nat), NEW p \in Nat
    PROVE  /\ \A q : Follows(o, q) => Follows(Append(o, p), q)
           /\ \A q : p > q => Follows(Append(o, p), q)
<1>1. /\ DOMAIN o = 1 .. Len(o) /\ Len(o) \in Nat
      /\ DOMAIN Append(o, p) = 1 .. Len(o) + 1
      /\ \A i \in DOMAIN o : Append(o, p)[i] = o[i]
      /\ Append(o, p)[Len(o) + 1] = p
  OBVIOUS
<1>2. \A i \in DOMAIN o : i \in DOMAIN Append(o, p)
  BY <1>1
<1>3. Len(o) + 1 \in DOMAIN Append(o, p)
  BY <1>1
<1>4. QED BY <1>1, <1>2, <1>3 DEF Follows

LEMMA LabelsGrow ==
    ASSUME NEW c \in Nat, NEW d \in Nat, c <= d
    PROVE  LabelsBefore(c) \subseteq LabelsBefore(d)
  BY DEF LabelsBefore, Positions

(* A turn that makes no command and reports no error. *)
LEMMA ReportedWithout ==
    ASSUME Reported, source' = source, origin' = origin, labels' = labels,
           LabelsBefore(current) \subseteq LabelsBefore(current'),
           oom' => oom, had_error => had_error'
    PROVE  Reported'
<1>1. SUFFICES ASSUME oom', ~had_error'
               PROVE  \E n \in Label :
                          Unentered(Named(LabelsBefore(current'), n), origin, labels[n])
  <2>1. \A n : Named(LabelsBefore(current), n)' = Named(LabelsBefore(current'), n)
    BY LabelsPrimed
  <2>2. QED BY <1>1, <2>1 DEF Reported, Unentered, Follows
<1>2. PICK n \in Label : Unentered(Named(LabelsBefore(current), n), origin, labels[n])
  BY <1>1 DEF Reported
<1>3. Named(LabelsBefore(current), n) \subseteq Named(LabelsBefore(current'), n)
  BY DEF Named
<1>4. QED BY <1>2, <1>3, UnenteredStays

(* A turn that adds a command at p, with a label that is before p and      *)
(* behind all commands so far.                                             *)
LEMMA ReportedAdding ==
    ASSUME LInv, Reported, NEW command, NEW p \in Nat, NEW label, Add(command, p, label),
           source' = source, ~had_error,
           LabelsBefore(current) \subseteq LabelsBefore(current'),
           label # NULL => /\ label \in LabelsBefore(current')
                           /\ label < p
                           /\ \A i \in DOMAIN origin : origin[i] < label
    PROVE  Reported'
<1> DEFINE D(n) == Named(LabelsBefore(current), n)
           E(n) == Named(LabelsBefore(current'), n)
<1>1. SUFFICES ASSUME oom'
               PROVE  \E n \in Label : Unentered(E(n), origin', labels'[n])
  <2>1. \A n : Named(LabelsBefore(current), n)' = E(n)
    BY LabelsPrimed
  <2>2. QED BY <1>1, <2>1 DEF Reported, Unentered, Follows
<1>2. /\ origin \in Seq(Nat) /\ DOMAIN labels = Label /\ Len(commands) = Len(origin)
      /\ source \in Seq(Token)
  BY OriginsNat DEF LInv, IInv, TypeOK
<1>3. origin' = Append(origin, p)
  BY DEF Add
<1>4. /\ \A q : Follows(origin, q) => Follows(origin', q)
      /\ label # NULL => Follows(origin', label)
  BY <1>2, <1>3, FollowsMore
<1>5. \A n : D(n) \subseteq E(n)
  BY DEF Named
<1>6. ASSUME oom, NEW n \in Label, labels'[n] = labels[n], Unentered(D(n), origin, labels[n])
      PROVE  Unentered(E(n), origin', labels'[n])
  BY <1>4, <1>5, <1>6, UnenteredStays
<1>7. ASSUME oom PROVE \E n \in Label : Unentered(D(n), origin, labels[n])
  BY <1>7 DEF Reported
<1> HIDE DEF D
<1>8. CASE label = NULL
  BY <1>1, <1>6, <1>7, <1>8 DEF Add
<1>9. CASE label # NULL
  <2> DEFINE m == TokenAt(label).name
  <2>1. /\ label \in LabelsBefore(current') /\ label \in Positions /\ HasLabel(label)
        /\ TokenAt(label) = source[label] /\ TokenAt(label) \in Token
    BY <1>2, <1>9 DEF LabelsBefore, TokenAt, Positions
  <2>2. m \in Label /\ label \in E(m)
    BY <2>1, TokenShape DEF HasLabel, Named
  <2> HIDE DEF E, m
  <2>3. CASE labels[m] = 0 /\ labels' = labels
    BY <1>4, <1>9, <2>2, <2>3 DEF Unentered
  <2>4. CASE labels' = [labels EXCEPT ![m] = Len(commands) + 1] /\ oom' = oom
    <3>1. PICK n \in Label : Unentered(D(n), origin, labels[n])
      BY <1>1, <1>7, <2>4
    <3>2. CASE n # m
      <4>1. labels'[n] = labels[n]
        BY <1>2, <2>4, <3>2
      <4>2. QED BY <1>1, <1>6, <2>4, <3>1, <4>1
    <3>3. CASE n = m
      <4>1. PICK q \in D(m) : Follows(origin, q)
        BY <3>1, <3>3 DEF Unentered
      <4>2. q \in E(m) /\ Follows(origin', q)
        BY <1>4, <1>5, <4>1
      <4>3. label > q
        <5>1. PICK i \in DOMAIN origin : origin[i] > q
          BY <4>1 DEF Follows
        <5>2. q \in Nat /\ label \in Nat /\ origin[i] \in Nat
          BY <1>2, <2>1, <4>1, <5>1 DEF D, Named, LabelsBefore, Positions
        <5>3. origin[i] < label
          BY <1>9
        <5>4. QED BY <5>1, <5>2, <5>3
      <4>4. QED BY <1>4, <1>9, <2>2, <4>2, <4>3 DEF Unentered
    <3>4. QED BY <3>2, <3>3
  <2>5. QED BY <1>9, <2>3, <2>4 DEF Add, m
<1>10. QED BY <1>8, <1>9
(* The turns that make no command: an error, or nothing but newlines or a  *)
(* label was read.                                                         *)
LEMMA NothingMadeReported ==
    ASSUME LInv, Reported, AtEnd \/ NothingLeft \/ LabelPends
    PROVE  Reported'
<1>1. /\ source' = source /\ UNCHANGED result /\ oom' = oom /\ ~had_error
      /\ current' \in {current, Start, Start + 2}
      /\ current' # current => Reads
  BY DEF AtEnd, NothingLeft, LabelPends, Reads, NoCommand, Leave, Stay, LInv, IInv, TypeOK
<1>2. current \in Nat /\ current' \in Nat /\ current <= current'
  <2>1. current \in Nat
    BY DEF LInv, IInv, TypeOK
  <2>2. CASE current' # current
    <3>1. Start \in current .. Len(source) + 1 /\ Len(source) \in Nat
      BY <1>1, <2>2, AtTurn DEF LInv
    <3>2. QED BY <1>1, <2>1, <2>2, <3>1
  <2>3. QED BY <2>1, <2>2
<1>3. LabelsBefore(current) \subseteq LabelsBefore(current')
  BY <1>2, LabelsGrow
<1>4. QED BY <1>1, <1>3, ReportedWithout DEF result

LEMMA ErrorReported ==
    ASSUME SecondLabel \/ LabelNoMemory \/ LabelAtEndNoMemory \/ CommandNoMemory \/ Unrecognized
           \/ Refused \/ OperandNoMemory
    PROVE  Reported'
<1>1. had_error'
  BY DEF SecondLabel, LabelNoMemory, LabelAtEndNoMemory, CommandNoMemory, Unrecognized, Refused,
         OperandNoMemory, NoCommand, Leave
<1>2. QED BY <1>1 DEF Reported

LEMMA ParsedReported == ASSUME LInv, IInv', Reported, Parsed PROVE Reported'
<1>1. /\ Reads /\ Add(CommandAt(Start), Start, pending) /\ source' = source /\ phase = "parsing"
      /\ current' = Start + Len(Line(TokenAt(Start).type)) /\ TokenAt(Start).type \in Keywords
  BY DEF Parsed, IsLine, Reads
<1>2. /\ current \in 1 .. Len(source) + 1 /\ source \in Seq(Token) /\ ~had_error
      /\ Start \in Nat /\ Start \in current .. Len(source) + 1
  BY <1>1, AtTurn DEF LInv, IInv, TypeOK
<1>3. Len(Line(TokenAt(Start).type)) \in Nat
  BY <1>1, SlotsShape, LineShape
<1>4. current \in Nat /\ current' \in Nat /\ current <= current' /\ Start <= current'
  BY <1>1, <1>2, <1>3
<1>5. LabelsBefore(current) \subseteq LabelsBefore(current')
  BY <1>4, LabelsGrow
<1>6. pending # NULL => /\ pending \in LabelsBefore(current)
                        /\ \A i \in DOMAIN origin : origin[i] < pending
  BY <1>1 DEF LInv, Labelling
<1>7. pending # NULL => pending < Start
  BY <1>2, <1>6 DEF LabelsBefore, Positions
<1>8. QED BY <1>1, <1>2, <1>5, <1>6, <1>7, ReportedAdding

LEMMA LabelAtEndReported == ASSUME LInv, Reported, LabelAtEnd PROVE Reported'
<1>1. /\ Reads /\ AtLabel /\ pending = NULL /\ source' = source /\ phase = "parsing"
      /\ current' = Start + 2
      /\ Add([type |-> "NOP"], Start + 2, Start)
  BY DEF LabelAtEnd, Reads
<1>2. /\ current \in 1 .. Len(source) + 1 /\ source \in Seq(Token) /\ ~had_error
      /\ Start \in Nat /\ Start \in current .. Len(source) + 1
      /\ \A i \in DOMAIN origin : origin[i] \in Nat /\ origin[i] < Start
  BY <1>1, AtTurn DEF LInv, IInv, Parsing, TypeOK, Positions
<1>3. LabelsBefore(current') = LabelsBefore(current) \cup {Start}
  BY <1>1, <1>2, LabelsAtLabel, LabelsAtStart DEF LInv
<1>4. Start + 2 \in Nat /\ Start < Start + 2
  BY <1>2
<1>5. QED BY <1>1, <1>2, <1>3, <1>4, ReportedAdding

(* A failed allocation is reported, but for that of a label's entry. *)
THEOREM FailuresKnown == Spec => []FailuresReported
<1>1. Init => Reported
  BY DEF Init, Reported
<1>2. LInv /\ IInv' /\ Reported /\ [Next]_vars => Reported'
  <2> SUFFICES ASSUME LInv, IInv', Reported, [Next]_vars PROVE Reported'
    OBVIOUS
  <2>1. CASE parse_commands
    BY <2>1, NothingMadeReported, ErrorReported, ParsedReported, LabelAtEndReported
       DEF parse_commands
  <2>2. CASE free_command \/ UNCHANGED vars
    <3>1. UNCHANGED <<source, current, commands, origin, labels, had_error, oom>>
      BY <2>2 DEF free_command, result, vars
    <3>2. LabelsBefore(current) \subseteq LabelsBefore(current')
      BY <3>1
    <3>3. QED BY <3>1, <3>2, ReportedWithout
  <2>3. QED BY <2>1, <2>2 DEF Next
<1>3. Reported => FailuresReported
  BY ReportedIs
<1>4. LInv => IInv
  BY DEF LInv
<1>5. QED BY <1>1, <1>2, <1>3, <1>4, LabelInvariance, PTL DEF Spec
=============================================================================
