---------------------------- MODULE LexerProofs ----------------------------
(* What holds of lexer.c for every text and everything that may be found   *)
(* behind it.                                                              *)
EXTENDS Lexer, TLAPS, FiniteSetTheorems

-----------------------------------------------------------------------------
(* Where reading stops.                                                    *)

LEMMA LeastElement ==
    ASSUME NEW S \in SUBSET Nat, S # {}
    PROVE  \E x \in S : \A y \in S : x <= y
<1>1. IsWellFoundedOn(OpToRel(<, Nat), Nat)
  BY NatLessThanWellFounded
<1>2. PICK x \in S : \A y \in S : ~(<<y, x>> \in OpToRel(<, Nat))
  BY <1>1, WFMin
<1>3. \A y \in S : y \in Nat /\ x \in Nat /\ ~(y < x)
  BY <1>2 DEF OpToRel
<1>4. QED BY <1>3

(* The first place from p to r that is in D, when r is. *)
LEMMA FirstPlace ==
    ASSUME NEW p \in Nat, NEW r \in Nat, NEW D, p <= r, r \in D
    PROVE  \E q \in p .. r : q \in D /\ \A i \in p .. q - 1 : i \notin D
<1> DEFINE S == {q \in p .. r : q \in D}
<1>1. r \in S /\ S \in SUBSET Nat
  OBVIOUS
<1>2. PICK q \in S : \A i \in S : q <= i
  <2> HIDE DEF S
  <2>1. QED BY <1>1, LeastElement
<1>3. \A i \in p .. q - 1 : i \notin D
  BY <1>2
<1>4. QED BY <1>2, <1>3

(* The last element of a set of places before r. *)
LEMMA LastPlace ==
    ASSUME NEW r \in Nat, NEW S \in SUBSET (0 .. r), S # {}
    PROVE  \E x \in S : \A y \in S : y <= x
<1> DEFINE T == {r - x : x \in S}
<1>1. T \in SUBSET Nat /\ T # {}
  <2>1. \A x \in S : r - x \in Nat /\ r - x \in T
    OBVIOUS
  <2>2. QED BY <2>1
<1>2. PICK t \in T : \A u \in T : t <= u
  <2> HIDE DEF T
  <2>1. QED BY <1>1, LeastElement
<1>3. PICK x \in S : t = r - x
  BY <1>2
<1>4. \A y \in S : r - x <= r - y
  BY <1>2, <1>3
<1>5. QED BY <1>3, <1>4

LEMMA CharBehind ==
    ASSUME NEW m \in Seq(STRING), NEW i \in Nat, i > Len(m)
    PROVE  CharIn(m, i) = NUL
  BY DEF CharIn

LEMMA SpanShape ==
    ASSUME NEW m \in Seq(STRING), NEW p \in Nat \ {0}, NEW chars, NUL \notin chars
    PROVE  /\ SpanEnd(m, p, chars) \in Nat /\ SpanEnd(m, p, chars) >= p
           /\ CharIn(m, SpanEnd(m, p, chars)) \notin chars
           /\ \A i \in p .. SpanEnd(m, p, chars) - 1 : CharIn(m, i) \in chars
<1> DEFINE r == IF p > Len(m) THEN p ELSE Len(m) + 1
           D == {i \in Nat : CharIn(m, i) \notin chars}
           StopsAt(q) == /\ CharIn(m, q) \notin chars
                         /\ \A i \in p .. q - 1 : CharIn(m, i) \in chars
<1>1. r \in Nat /\ p <= r /\ r \in D
  BY CharBehind
<1>2. PICK q \in p .. r : q \in D /\ \A i \in p .. q - 1 : i \notin D
  <2> HIDE DEF D, r
  <2>1. QED BY <1>1, FirstPlace
<1>3. StopsAt(q)
  <2>1. \A i \in p .. q - 1 : i \in Nat
    OBVIOUS
  <2>2. QED BY <1>2, <2>1
<1>4. SpanEnd(m, p, chars) = CHOOSE x \in p .. r : StopsAt(x)
  BY DEF SpanEnd
<1> HIDE DEF StopsAt
<1>5. SpanEnd(m, p, chars) \in p .. r /\ StopsAt(SpanEnd(m, p, chars))
  BY <1>2, <1>3, <1>4
<1>6. QED BY <1>1, <1>5 DEF StopsAt

LEMMA StopShape ==
    ASSUME memory \in Seq(STRING), NEW p \in Nat \ {0}, NEW chars, NUL \in chars
    PROVE  \E q \in p .. Len(memory) + p : /\ Char(q) \in chars
                                           /\ \A i \in p .. q - 1 : Char(i) \notin chars
<1> DEFINE D == {i \in Nat : Char(i) \in chars}
<1>1. /\ Len(memory) + p \in Nat /\ p <= Len(memory) + p
      /\ Len(memory) + p \in D
  BY CharBehind DEF Char
<1>2. PICK q \in p .. Len(memory) + p : q \in D /\ \A i \in p .. q - 1 : i \notin D
  <2> HIDE DEF D
  <2>1. QED BY <1>1, FirstPlace
<1>3. \A i \in p .. q - 1 : i \in Nat
  OBVIOUS
<1>4. QED BY <1>2, <1>3

LEMMA LineEndShape ==
    ASSUME memory \in Seq(STRING), NEW p \in Nat \ {0}
    PROVE  /\ LineEnd(p) \in Nat /\ LineEnd(p) >= p
           /\ Char(LineEnd(p)) \in {Newline, NUL}
           /\ \A i \in p .. LineEnd(p) - 1 : Char(i) \notin {Newline, NUL}
<1> DEFINE Stops(q) == /\ Char(q) \in {Newline, NUL}
                       /\ \A i \in p .. q - 1 : Char(i) \notin {Newline, NUL}
<1>1. \E q \in p .. Len(memory) + p : Stops(q)
  BY StopShape
<1>2. LineEnd(p) = CHOOSE q \in p .. Len(memory) + p : Stops(q)
  BY DEF LineEnd
<1> HIDE DEF Stops
<1>3. LineEnd(p) \in p .. Len(memory) + p /\ Stops(LineEnd(p))
  BY <1>1, <1>2
<1>4. QED BY <1>3 DEF Stops

LEMMA QuoteShape ==
    ASSUME memory \in Seq(STRING), NEW p \in Nat \ {0}
    PROVE  /\ Quote(p) \in Nat /\ Quote(p) >= p
           /\ Char(Quote(p)) \in {QuoteMark, NUL}
           /\ \A i \in p .. Quote(p) - 1 : Char(i) \notin {QuoteMark, NUL}
<1> DEFINE Stops(q) == /\ Char(q) \in {QuoteMark, NUL}
                       /\ \A i \in p .. q - 1 : Char(i) \notin {QuoteMark, NUL}
<1>1. \E q \in p .. Len(memory) + p : Stops(q)
  <2>1. NUL \in {QuoteMark, NUL}
    OBVIOUS
  <2>2. QED BY <2>1, StopShape
<1>2. Quote(p) = CHOOSE q \in p .. Len(memory) + p : Stops(q)
  BY DEF Quote
<1> HIDE DEF Stops
<1>3. Quote(p) \in p .. Len(memory) + p /\ Stops(Quote(p))
  BY <1>1, <1>2
<1>4. QED BY <1>3 DEF Stops

(* skip_whitespace passes over blanks and one comment. *)
LEMMA SkippedShape ==
    ASSUME memory \in Seq(STRING), current_position \in Nat \ {0}
    PROVE  /\ Skipped \in Nat /\ Skipped >= current_position
           /\ \A i \in current_position .. Skipped - 1 :
                  Char(i) # NUL /\ Ignored(i, current_position .. Skipped - 1)
<1> DEFINE p == End(current_position, Blank)
           gap == current_position .. Skipped - 1
<1>1. NUL \notin Blank /\ "/" # NUL
  BY DEF NUL, Blank
<1>2. /\ p \in Nat /\ p >= current_position
      /\ \A i \in current_position .. p - 1 : Char(i) \in Blank
  BY <1>1, SpanShape DEF End, Char
<1> HIDE DEF p
<1>3. CASE Char(p) = "/" /\ Char(p + 1) = "/"
  <2>1. Skipped = LineEnd(p)
    BY <1>3 DEF Skipped, p
  <2>2. p \in Nat \ {0}
    BY <1>2
  <2>3. /\ LineEnd(p) \in Nat /\ LineEnd(p) >= p
        /\ Char(LineEnd(p)) \in {Newline, NUL}
        /\ \A i \in p .. LineEnd(p) - 1 : Char(i) \notin {Newline, NUL}
    BY <2>2, LineEndShape
  <2>4. LineEnd(p) # p /\ LineEnd(p) # p + 1
    BY <1>3, <2>3 DEF Newline, NUL
  <2>5. p \in gap /\ p + 1 \in gap
    BY <1>2, <2>1, <2>3, <2>4
  <2>6. \A i \in gap : Char(i) # NUL /\ Ignored(i, gap)
    <3>1. SUFFICES ASSUME NEW i \in gap PROVE Char(i) # NUL /\ Ignored(i, gap)
      OBVIOUS
    <3>2. i \in current_position .. p - 1 \/ i \in p .. LineEnd(p) - 1
      BY <1>2, <2>1, <2>3, <3>1
    <3>3. CASE i \in current_position .. p - 1
      BY <1>1, <1>2, <3>3 DEF Ignored
    <3>4. CASE i \in p .. LineEnd(p) - 1
      <4>1. \A m \in p .. i : Char(m) \notin {Newline, NUL}
        BY <1>2, <2>3, <3>4
      <4>2. p <= i /\ p \in Nat
        BY <1>2, <2>3, <3>4
      <4> HIDE DEF gap
      <4>3. QED BY <1>3, <2>3, <2>5, <3>4, <4>1, <4>2 DEF Ignored
    <3>5. QED BY <3>2, <3>3, <3>4
  <2>7. QED BY <1>2, <2>1, <2>3, <2>6
<1>4. CASE ~(Char(p) = "/" /\ Char(p + 1) = "/")
  <2>1. Skipped = p
    BY <1>4 DEF Skipped, p
  <2>2. QED BY <1>1, <1>2, <2>1 DEF Ignored
<1>5. QED BY <1>3, <1>4

-----------------------------------------------------------------------------
(* The characters.                                                         *)

Signs == DOMAIN Sign

LEMMA CharClasses ==
    /\ NUL \notin Blank /\ NUL \notin Alpha /\ NUL \notin Digit /\ NUL \notin Signs
    /\ NUL \notin BinaryDigit /\ NUL \notin HexDigit /\ NUL \notin WordChar
    /\ NUL # Newline /\ NUL # QuoteMark /\ Newline # QuoteMark
    /\ NUL # "/" /\ NUL # ";" /\ NUL # "0" /\ NUL # "b" /\ NUL # "x"
<1>1. NUL \notin Blank
  BY DEF NUL, Blank
<1>2. NUL \notin Digit /\ NUL \notin BinaryDigit /\ NUL \notin HexDigit
  BY DEF NUL, Digit, OctalDigit, BinaryDigit, HexDigit
<1>3. NUL \notin Alpha
  BY DEF NUL, Alpha
<1>4. NUL \notin Signs
  BY DEF NUL, Signs, Sign
<1>5. NUL # Newline /\ NUL # QuoteMark /\ Newline # QuoteMark
  BY DEF NUL, Newline, QuoteMark
<1>6. QED BY <1>1, <1>2, <1>3, <1>4, <1>5 DEF NUL, WordChar

LEMMA CharNat ==
    ASSUME memory \in Seq(STRING), NEW i \in Nat, Char(i) # NUL
    PROVE  i \in 1 .. Len(memory) /\ Char(i) = memory[i]
  BY DEF Char, CharIn

-----------------------------------------------------------------------------
(* The invariant.                                                          *)

Messages == {"BAD_BASE", "UNEXPECTED"}

TokenSet == [type: Types, lexeme: Nat, length: Int, line: Nat, column: Int]
            \cup [type: {"ERR"}, lexeme: Messages, line: Nat, column: Int]
SpanSet == [from: Nat \ {0}, to: Nat \ {0}]

MemoryOK == /\ text \in Seq(STRING) /\ memory \in Seq(STRING)
            /\ Len(text) + 1 <= Len(memory)
            /\ Char(Len(text) + 1) = NUL

(* The lexer is where its last token ends, and has not counted more lines  *)
(* than characters.                                                        *)
Reading == /\ tokens \in Seq(TokenSet) /\ spans \in Seq(SpanSet)
           /\ Len(spans) = Len(tokens)
           /\ current_position \in 1 .. Len(memory) + 2
           /\ start_position \in 1 .. current_position
           /\ current_line \in 1 .. Len(memory) + 1 /\ current_line <= current_position
           /\ current_column \in Nat \ {0}
           /\ mode \in {"printing", "parsing", "done"}
           /\ current_position = IF spans = <<>> THEN 1 ELSE spans[Len(spans)].to
           /\ \A k \in DOMAIN spans : spans[k].to <= current_position

IInv == MemoryOK /\ Reading /\ TokensCover /\ InsideUnlessOpen

(* What is given: a token that takes its characters, none of them the NUL, *)
(* but for a string that the NUL ends.                                     *)
Turn(token, to) ==
    /\ token \in TokenSet
    /\ to \in Nat
    /\ IF token.type = "EOF" THEN to = Skipped /\ First = NUL ELSE Skipped < to
    /\ \/ \A i \in Skipped .. to - 1 : Char(i) # NUL
       \/ /\ token.type = "STR" /\ Skipped < to - 1 /\ Char(to - 1) = NUL
          /\ \A i \in Skipped .. to - 2 : Char(i) # NUL

LEMMA InvSkipped ==
    ASSUME IInv
    PROVE  /\ Skipped \in Nat \ {0} /\ Skipped >= current_position
           /\ Skipped <= Len(memory) + 1 \/ Skipped = current_position
           /\ \A i \in current_position .. Skipped - 1 :
                  Char(i) # NUL /\ Ignored(i, current_position .. Skipped - 1)
<1>1. memory \in Seq(STRING) /\ current_position \in Nat \ {0} /\ Len(memory) \in Nat
  BY DEF IInv, MemoryOK, Reading
<1>2. /\ Skipped \in Nat /\ Skipped >= current_position
      /\ \A i \in current_position .. Skipped - 1 :
             Char(i) # NUL /\ Ignored(i, current_position .. Skipped - 1)
  BY <1>1, SkippedShape
<1>3. ASSUME Skipped # current_position PROVE Skipped <= Len(memory) + 1
  <2>1. Skipped - 1 \in current_position .. Skipped - 1
    BY <1>1, <1>2, <1>3
  <2>2. Char(Skipped - 1) # NUL /\ Skipped - 1 \in Nat
    BY <1>1, <1>2, <2>1
  <2>3. QED BY <1>1, <1>2, <2>2, CharNat
<1>4. QED BY <1>1, <1>2, <1>3

(* Where a token ends. *)
LEMMA TurnEnds ==
    ASSUME IInv, NEW token, NEW to, Turn(token, to)
    PROVE  /\ to \in Skipped .. Len(memory) + 2
           /\ to > Len(text) + 1 /\ current_position <= Len(text) + 1 =>
                  token.type = "STR" /\ to = Len(text) + 2
<1>1. /\ Skipped \in Nat \ {0} /\ Skipped >= current_position
      /\ Skipped <= Len(memory) + 1 \/ Skipped = current_position
      /\ \A i \in current_position .. Skipped - 1 : Char(i) # NUL
  BY InvSkipped
<1>2. /\ memory \in Seq(STRING) /\ Len(memory) \in Nat /\ Len(text) \in Nat
      /\ Char(Len(text) + 1) = NUL
      /\ current_position \in 1 .. Len(memory) + 2
  BY DEF IInv, MemoryOK, Reading
<1>3. to \in Nat /\ to >= Skipped
  BY <1>1 DEF Turn
<1>4. CASE \A i \in Skipped .. to - 1 : Char(i) # NUL
  <2>1. to = Skipped \/ to <= Len(memory) + 1
    <3>1. ASSUME to # Skipped PROVE to - 1 \in Nat /\ Char(to - 1) # NUL
      BY <1>1, <1>3, <1>4, <3>1
    <3>2. QED BY <1>2, <1>3, <3>1, CharNat
  <2>2. ASSUME current_position <= Len(text) + 1 PROVE to <= Len(text) + 1
    BY <1>1, <1>2, <1>3, <1>4, <2>2
  <2>3. QED BY <1>1, <1>2, <1>3, <2>1, <2>2
<1>5. CASE /\ token.type = "STR" /\ Skipped < to - 1 /\ Char(to - 1) = NUL
           /\ \A i \in Skipped .. to - 2 : Char(i) # NUL
  <2>1. to - 2 \in Nat /\ Char(to - 2) # NUL
    BY <1>1, <1>3, <1>5
  <2>2. to <= Len(memory) + 2
    BY <1>2, <1>3, <2>1, CharNat
  <2>3. ASSUME current_position <= Len(text) + 1 PROVE to <= Len(text) + 2
    BY <1>1, <1>2, <1>3, <1>5, <2>3
  <2>4. QED BY <1>1, <1>2, <1>3, <1>5, <2>2, <2>3
<1>6. QED BY <1>4, <1>5 DEF Turn

(* Restarting for the parser. *)
LEMMA RestartKeeps ==
    ASSUME IInv, Restart, UNCHANGED <<text, memory>>
    PROVE  IInv'
<1>1. /\ tokens' = <<>> /\ spans' = <<>> /\ mode' = "parsing"
      /\ start_position' = 1 /\ current_position' = 1
      /\ current_line' = 1 /\ current_column' = 1
  BY DEF Restart
<1>2. MemoryOK'
  BY DEF IInv, MemoryOK, Char
<1>3. Len(memory) \in Nat /\ Len(text) \in Nat
  BY DEF IInv, MemoryOK
<1>4. Reading'
  BY <1>1, <1>3 DEF Reading
<1>5. TokensCover' /\ InsideUnlessOpen'
  BY <1>1, <1>3 DEF TokensCover, InsideUnlessOpen
<1>6. QED BY <1>2, <1>4, <1>5 DEF IInv

(* Giving a token. *)
LEMMA TokenKeeps ==
    ASSUME IInv, NEW token, NEW to, Turn(token, to),
           tokens' = Append(tokens, token),
           spans' = Append(spans, [from |-> Skipped, to |-> to]),
           mode' \in {"printing", "parsing", "done"},
           start_position' \in 1 .. to, current_position' = to,
           current_line' \in 1 .. Len(memory) + 1, current_line' <= to,
           current_column' \in Nat \ {0},
           UNCHANGED <<text, memory>>
    PROVE  IInv'
<1> DEFINE span == [from |-> Skipped, to |-> to]
<1>1. /\ Skipped \in Nat \ {0} /\ Skipped >= current_position
      /\ \A i \in current_position .. Skipped - 1 :
             Ignored(i, current_position .. Skipped - 1)
  BY InvSkipped
<1>2. /\ to \in Skipped .. Len(memory) + 2 /\ to \in Nat \ {0}
      /\ to > Len(text) + 1 /\ current_position <= Len(text) + 1 =>
             token.type = "STR" /\ to = Len(text) + 2
  BY <1>1, TurnEnds
<1>3. /\ tokens \in Seq(TokenSet) /\ spans \in Seq(SpanSet) /\ token \in TokenSet
      /\ Len(spans) = Len(tokens) /\ Len(tokens) \in Nat /\ span \in SpanSet
      /\ Len(text) \in Nat /\ current_position \in Nat
      /\ DOMAIN spans = 1 .. Len(tokens) /\ DOMAIN tokens = 1 .. Len(tokens)
  <2>1. /\ tokens \in Seq(TokenSet) /\ spans \in Seq(SpanSet) /\ token \in TokenSet
        /\ Len(spans) = Len(tokens) /\ text \in Seq(STRING)
        /\ current_position \in 1 .. Len(memory) + 2
    BY DEF IInv, MemoryOK, Reading, Turn
  <2>2. span \in SpanSet
    BY <1>1, <1>2 DEF SpanSet
  <2>3. QED BY <2>1, <2>2
<1>n. PICK n \in Nat : n = Len(tokens) + 1
  BY <1>3
<1>4. /\ DOMAIN spans' = 1 .. n /\ DOMAIN tokens' = 1 .. n
      /\ spans'[n] = span /\ tokens'[n] = token
      /\ \A k \in DOMAIN spans : spans'[k] = spans[k] /\ tokens'[k] = tokens[k]
  BY <1>3, <1>n
<1> HIDE DEF span
<1>5. MemoryOK'
  BY DEF IInv, MemoryOK, Char
<1>6. Reading'
  <2>1. tokens' \in Seq(TokenSet) /\ spans' \in Seq(SpanSet) /\ Len(spans') = Len(tokens')
        /\ spans' # <<>> /\ Len(spans') = n
    BY <1>3, <1>n DEF span
  <2>2. spans'[n].to = to
    BY <1>4 DEF span
  <2>3. \A k \in DOMAIN spans' : spans'[k].to <= to
    <3>1. SUFFICES ASSUME NEW k \in DOMAIN spans' PROVE spans'[k].to <= to
      OBVIOUS
    <3>2. CASE k = n
      BY <1>2, <2>2, <3>2
    <3>3. CASE k # n
      <4>1. k \in DOMAIN spans
        BY <1>3, <1>4, <3>3, <1>n
      <4>2. spans[k] \in SpanSet /\ spans[k].to <= current_position
        BY <1>3, <4>1 DEF IInv, Reading
      <4>3. spans'[k].to \in Nat /\ spans'[k].to <= current_position
        BY <1>4, <4>1, <4>2 DEF SpanSet
      <4>4. QED BY <1>1, <1>2, <1>3, <4>3
    <3>4. QED BY <3>2, <3>3
  <2>4. QED BY <1>2, <2>1, <2>2, <2>3 DEF Reading
<1>7. TokensCover'
  <2>1. \A k \in DOMAIN tokens : Gap(k)' = Gap(k)
    BY <1>3, <1>4 DEF Gap
  <2>2. Gap(n)' = current_position .. Skipped - 1
    <3>1. spans'[n].from = Skipped
      BY <1>4 DEF span
    <3>2. Gap(n)' = (IF n = 1 THEN 1 ELSE spans'[n - 1].to) .. Skipped - 1
      BY <3>1 DEF Gap
    <3>3. CASE n = 1
      <4>1. spans = <<>>
        BY <1>3, <3>3, <1>n
      <4>2. current_position = 1
        BY <4>1 DEF IInv, Reading
      <4>3. QED BY <3>2, <3>3, <4>2
    <3>4. CASE n # 1
      <4>1. n - 1 \in DOMAIN spans /\ spans # <<>> /\ n - 1 = Len(spans)
        BY <1>3, <3>4, <1>n
      <4>2. spans'[n - 1].to = current_position
        BY <1>4, <4>1 DEF IInv, Reading
      <4>3. QED BY <3>2, <3>4, <4>2
    <3>5. QED BY <3>3, <3>4
  <2>3. \A i, gap : Ignored(i, gap)' <=> Ignored(i, gap)
    BY DEF Ignored, Char
  <2>4. ASSUME NEW k \in DOMAIN tokens'
        PROVE  /\ \A i \in Gap(k)' : Ignored(i, Gap(k)')
               /\ IF tokens'[k].type = "EOF"
                  THEN spans'[k].to = spans'[k].from /\ Char(spans'[k].from) = NUL
                  ELSE spans'[k].from < spans'[k].to
    <3>1. CASE k = n
      <4>1. \A i \in Gap(k)' : Ignored(i, Gap(k)')
        <5>1. Gap(k)' = current_position .. Skipped - 1
          BY <2>2, <3>1
        <5>2. QED BY <1>1, <5>1
      <4>2. spans'[k].to = to /\ spans'[k].from = Skipped /\ tokens'[k] = token
        BY <1>4, <3>1 DEF span
      <4>3. QED BY <4>1, <4>2 DEF Turn, First
    <3>2. CASE k # n
      <4>1. k \in DOMAIN tokens /\ spans'[k] = spans[k] /\ tokens'[k] = tokens[k]
            /\ Gap(k)' = Gap(k)
        BY <1>3, <1>4, <2>1, <2>4, <3>2, <1>n
      <4>2. QED BY <4>1 DEF IInv, TokensCover
    <3>3. QED BY <3>1, <3>2
  <2>5. \A k \in DOMAIN tokens' : Char(spans[k].from)' = Char(spans'[k].from)
    BY DEF Char
  <2>6. \A k \in DOMAIN tokens' : \A i \in Gap(k)' : Ignored(i, Gap(k))'
    <3>1. \A k, i : Ignored(i, Gap(k))' <=> Ignored(i, Gap(k)')
      BY DEF Ignored, Char
    <3>2. QED BY <2>4, <3>1
  <2>7. QED BY <2>4, <2>5, <2>6 DEF TokensCover
<1>8. InsideUnlessOpen'
  <2> DEFINE Open(ts, ss) == \E k \in DOMAIN ts : ts[k].type = "STR" /\ ss[k].to = Len(text) + 2
  <2>1. to > Len(text) + 1 => Open(tokens', spans')
    <3>1. ASSUME to > Len(text) + 1, current_position > Len(text) + 1
          PROVE  Open(tokens', spans')
      <4>1. PICK k \in DOMAIN tokens : tokens[k].type = "STR" /\ spans[k].to = Len(text) + 2
        BY <3>1 DEF IInv, InsideUnlessOpen
      <4>2. k \in DOMAIN tokens' /\ tokens'[k] = tokens[k] /\ spans'[k] = spans[k]
        BY <1>3, <1>4, <4>1, <1>n
      <4>3. QED BY <4>1, <4>2
    <3>2. ASSUME to > Len(text) + 1, ~(current_position > Len(text) + 1)
          PROVE  Open(tokens', spans')
      <4>1. token.type = "STR" /\ to = Len(text) + 2
        BY <1>2, <1>3, <3>2
      <4>2. n \in DOMAIN tokens' /\ tokens'[n].type = "STR" /\ spans'[n].to = Len(text) + 2
        BY <1>3, <1>n, <1>4, <4>1 DEF span
      <4>3. QED BY <4>2
    <3>3. QED BY <3>1, <3>2
  <2>2. Open(tokens', spans') => to > Len(text) + 1
    <3>1. ASSUME NEW k \in DOMAIN tokens', spans'[k].to = Len(text) + 2
          PROVE  to > Len(text) + 1
      <4>1. CASE k = n
        BY <1>2, <1>3, <1>4, <3>1, <4>1 DEF span
      <4>2. CASE k # n
        <5>1. k \in DOMAIN spans /\ spans[k].to = Len(text) + 2
          BY <1>3, <1>4, <3>1, <4>2, <1>n
        <5>2. current_position >= Len(text) + 2
          BY <1>3, <5>1 DEF IInv, Reading
        <5>3. QED BY <1>1, <1>2, <1>3, <5>2
      <4>3. QED BY <4>1, <4>2
    <3>2. QED BY <3>1
  <2>3. QED BY <2>1, <2>2 DEF InsideUnlessOpen
<1>9. QED BY <1>5, <1>6, <1>7, <1>8 DEF IInv

-----------------------------------------------------------------------------
(* Lexemes, by the places of their characters.                             *)

LEMMA Classes ==
    /\ Alpha \cap Digit = {} /\ Alpha \cap Signs = {} /\ Digit \cap Signs = {}
    /\ Newline \notin Alpha \cup Digit \cup Signs
    /\ ";" \notin Alpha \cup Digit \cup Signs
    /\ QuoteMark \notin Alpha \cup Digit \cup Signs /\ QuoteMark # ";" /\ QuoteMark # Newline
    /\ "0" \in Digit /\ "b" \notin Digit /\ "x" \notin Digit
    /\ BinaryDigit \subseteq HexDigit
<1>1. Alpha \cap Digit = {}
  BY DEF Alpha, Digit, OctalDigit, BinaryDigit
<1>2. Alpha \cap Signs = {} /\ Digit \cap Signs = {}
  BY DEF Alpha, Digit, OctalDigit, BinaryDigit, Signs, Sign
<1>3. Newline \notin Alpha /\ QuoteMark \notin Alpha
  BY DEF Newline, QuoteMark, Alpha
<1>4. Newline \notin Digit /\ QuoteMark \notin Digit
  BY DEF Newline, QuoteMark, Digit, OctalDigit, BinaryDigit
<1>5. Newline \notin Signs /\ QuoteMark \notin Signs
  BY DEF Newline, QuoteMark, Signs, Sign
<1>6. ";" \notin Alpha \cup Digit \cup Signs
  BY DEF Alpha, Digit, OctalDigit, BinaryDigit, Signs, Sign
<1>7. QuoteMark # ";" /\ QuoteMark # Newline
  BY DEF QuoteMark, Newline
<1>8. /\ "0" \in Digit /\ "b" \notin Digit /\ "x" \notin Digit
      /\ BinaryDigit \subseteq HexDigit
  BY DEF Digit, OctalDigit, BinaryDigit, HexDigit
<1>9. QED BY <1>1, <1>2, <1>3, <1>4, <1>5, <1>6, <1>7, <1>8

LEMMA LexemeShape ==
    ASSUME memory \in Seq(STRING), NEW p \in Nat \ {0}, NEW q \in p + 1 .. Len(memory) + 1
    PROVE  /\ Lexeme(p, q) \in Seq(STRING)
           /\ Len(Lexeme(p, q)) = q - p
           /\ \A i \in 1 .. q - p : Lexeme(p, q)[i] = Char(p + i - 1)
<1>1. /\ Len(memory) \in Nat /\ q \in Nat /\ q - 1 <= Len(memory) /\ p <= q - 1
  OBVIOUS
<1>2. /\ Lexeme(p, q) \in Seq(STRING) /\ Len(Lexeme(p, q)) = q - p
      /\ \A i \in 1 .. q - p : Lexeme(p, q)[i] = memory[p + i - 1]
  BY <1>1 DEF Lexeme
<1>3. \A i \in 1 .. q - p : Char(p + i - 1) = memory[p + i - 1]
  BY <1>1 DEF Char, CharIn
<1>4. QED BY <1>2, <1>3

(* All characters from the j-th on, by place. *)
LEMMA AllPlaces ==
    ASSUME memory \in Seq(STRING), NEW p \in Nat \ {0}, NEW q \in p + 1 .. Len(memory) + 1,
           NEW j \in Nat \ {0}, NEW chars
    PROVE  All(Lexeme(p, q), j, chars) <=> \A i \in p + j - 1 .. q - 1 : Char(i) \in chars
<1>1. /\ Len(Lexeme(p, q)) = q - p /\ q \in Nat
      /\ \A i \in 1 .. q - p : Lexeme(p, q)[i] = Char(p + i - 1)
  <2>1. Len(memory) \in Nat /\ q \in Nat
    OBVIOUS
  <2>2. QED BY <2>1, LexemeShape
<1>2. ASSUME All(Lexeme(p, q), j, chars), NEW i \in p + j - 1 .. q - 1
      PROVE  Char(i) \in chars
  <2>1. i - p + 1 \in j .. q - p /\ i - p + 1 \in 1 .. q - p /\ p + (i - p + 1) - 1 = i
    BY <1>1
  <2>2. Lexeme(p, q)[i - p + 1] \in chars
    BY <1>1, <1>2, <2>1 DEF All
  <2>3. QED BY <1>1, <2>1, <2>2
<1>3. ASSUME \A i \in p + j - 1 .. q - 1 : Char(i) \in chars, NEW i \in j .. q - p
      PROVE  Lexeme(p, q)[i] \in chars
  <2>1. p + i - 1 \in p + j - 1 .. q - 1 /\ i \in 1 .. q - p
    BY <1>1
  <2>2. QED BY <1>1, <1>3, <2>1
<1>4. QED BY <1>1, <1>2, <1>3 DEF All

LEMMA LexemeKinds ==
    ASSUME memory \in Seq(STRING), NEW p \in Nat \ {0}, NEW q \in p + 1 .. Len(memory) + 1
    PROVE  /\ IsWord(Lexeme(p, q)) <=> /\ Char(p) \in Alpha
                                       /\ \A i \in p + 1 .. q - 1 : Char(i) \in WordChar
           /\ IsDecimal(Lexeme(p, q)) <=> \A i \in p .. q - 1 : Char(i) \in Digit
           /\ IsBinary(Lexeme(p, q)) <=>
                  /\ p + 2 < q /\ Char(p) = "0" /\ Char(p + 1) = "b"
                  /\ \A i \in p + 2 .. q - 1 : Char(i) \in BinaryDigit
           /\ IsHex(Lexeme(p, q)) <=>
                  /\ p + 2 < q /\ Char(p) = "0" /\ Char(p + 1) = "x"
                  /\ \A i \in p + 2 .. q - 1 : Char(i) \in HexDigit
           /\ IsString(Lexeme(p, q)) <=>
                  /\ p + 1 < q /\ Char(p) = QuoteMark /\ Char(q - 1) = QuoteMark
                  /\ \A i \in p + 1 .. q - 2 : Char(i) \notin {QuoteMark, NUL}
           /\ \A c : Lexeme(p, q) = <<c>> <=> q = p + 1 /\ Char(p) = c
<1> DEFINE s == Lexeme(p, q)
<1>1. /\ s \in Seq(STRING) /\ Len(s) = q - p /\ q \in Nat
      /\ \A i \in 1 .. q - p : s[i] = Char(p + i - 1)
  <2>1. Len(memory) \in Nat /\ q \in Nat
    OBVIOUS
  <2>2. QED BY <2>1, LexemeShape
<1>2. s[1] = Char(p) /\ (p + 1 < q => s[2] = Char(p + 1)) /\ s[Len(s)] = Char(q - 1)
  <2>1. 1 \in 1 .. q - p /\ (p + 1 < q => 2 \in 1 .. q - p) /\ q - p \in 1 .. q - p
    BY <1>1
  <2>2. p + 1 - 1 = p /\ p + 2 - 1 = p + 1 /\ p + (q - p) - 1 = q - 1
    BY <1>1
  <2> HIDE DEF s
  <2>3. QED BY <1>1, <2>1, <2>2
<1>3. \A chars : /\ All(s, 1, chars) <=> \A i \in p .. q - 1 : Char(i) \in chars
                 /\ All(s, 2, chars) <=> \A i \in p + 1 .. q - 1 : Char(i) \in chars
                 /\ All(s, 3, chars) <=> \A i \in p + 2 .. q - 1 : Char(i) \in chars
  <2>1. p + 1 - 1 = p /\ p + 2 - 1 = p + 1 /\ p + 3 - 1 = p + 2
    OBVIOUS
  <2>2. \A j \in Nat \ {0} : \A chars :
            All(s, j, chars) <=> \A i \in p + j - 1 .. q - 1 : Char(i) \in chars
    BY AllPlaces
  <2>3. 1 \in Nat \ {0} /\ 2 \in Nat \ {0} /\ 3 \in Nat \ {0}
    OBVIOUS
  <2> HIDE DEF s
  <2>4. QED BY <2>1, <2>2, <2>3
<1> HIDE DEF s
<1>4. IsWord(s) <=> Char(p) \in Alpha /\ \A i \in p + 1 .. q - 1 : Char(i) \in WordChar
  BY <1>1, <1>2, <1>3 DEF IsWord
<1>5. IsDecimal(s) <=> \A i \in p .. q - 1 : Char(i) \in Digit
  BY <1>1, <1>3 DEF IsDecimal
<1>6. IsBinary(s) <=> /\ p + 2 < q /\ Char(p) = "0" /\ Char(p + 1) = "b"
                      /\ \A i \in p + 2 .. q - 1 : Char(i) \in BinaryDigit
  BY <1>1, <1>2, <1>3 DEF IsBinary
<1>7. IsHex(s) <=> /\ p + 2 < q /\ Char(p) = "0" /\ Char(p + 1) = "x"
                   /\ \A i \in p + 2 .. q - 1 : Char(i) \in HexDigit
  BY <1>1, <1>2, <1>3 DEF IsHex
<1>8. IsString(s) <=> /\ p + 1 < q /\ Char(p) = QuoteMark /\ Char(q - 1) = QuoteMark
                      /\ \A i \in p + 1 .. q - 2 : Char(i) \notin {QuoteMark, NUL}
  <2>1. ASSUME p + 1 < q
        PROVE  (\A i \in 2 .. Len(s) - 1 : s[i] \notin {QuoteMark, NUL})
               <=> (\A i \in p + 1 .. q - 2 : Char(i) \notin {QuoteMark, NUL})
    <3>1. \A i \in 2 .. Len(s) - 1 : /\ s[i] = Char(p + i - 1)
                                     /\ p + i - 1 \in p + 1 .. q - 2
      BY <1>1, <2>1
    <3>2. \A i \in p + 1 .. q - 2 : /\ i - p + 1 \in 2 .. Len(s) - 1
                                    /\ s[i - p + 1] = Char(i)
      <4>1. \A i \in p + 1 .. q - 2 : /\ i - p + 1 \in 2 .. Len(s) - 1
                                      /\ i - p + 1 \in 1 .. q - p
                                      /\ p + (i - p + 1) - 1 = i
        BY <1>1, <2>1
      <4>2. QED BY <1>1, <4>1
    <3>3. QED BY <3>1, <3>2
  <2>2. QED BY <1>1, <1>2, <2>1 DEF IsString
<1>9. ASSUME NEW c
      PROVE  s = <<c>> <=> q = p + 1 /\ Char(p) = c
  <2>1. ASSUME s = <<c>> PROVE q = p + 1 /\ Char(p) = c
    <3>1. Len(<<c>>) = 1 /\ <<c>>[1] = c
      OBVIOUS
    <3>2. Len(s) = 1 /\ s[1] = c
      BY <2>1, <3>1
    <3>3. q - p = 1
      BY <1>1, <3>2
    <3>4. q = p + 1
      BY <1>1, <3>3
    <3>5. QED BY <1>2, <3>2, <3>4
  <2>2. ASSUME q = p + 1, Char(p) = c PROVE s = <<c>>
    <3>1. Len(s) = 1 /\ s[1] = c
      BY <1>1, <1>2, <2>2
    <3>2. s = [i \in 1 .. 1 |-> c]
      BY <1>1, <3>1
    <3>3. QED BY <3>2
  <2>3. QED BY <2>1, <2>2
<1>10. QED BY <1>4, <1>5, <1>6, <1>7, <1>8, <1>9 DEF s

LEMMA TypesShape ==
    /\ {"EOF", "NL", "IDENT", "NUM", "STR", "ERR"} \subseteq Types
    /\ \A c \in Signs : Sign[c] \in Types /\ Sign[c] \notin {"EOF", "ERR", "STR"}
    /\ \A s : /\ ident_type(s) \in Types
              /\ ident_type(s) \notin {"EOF", "ERR", "STR"}
<1>1. /\ {"EOF", "NL", "IDENT", "NUM", "STR", "ERR"} \subseteq Types
      /\ \A c \in Signs : Sign[c] \in Types
  BY DEF Types, Signs
<1>2. \A c \in Signs : Sign[c] \notin {"EOF", "ERR", "STR"}
  BY DEF Sign, Signs
<1>3. ASSUME NEW s
      PROVE  ident_type(s) \in Types /\ ident_type(s) \notin {"EOF", "ERR", "STR"}
  BY ReservedAssumption DEF ident_type, Types
<1>4. QED BY <1>1, <1>2, <1>3

(* The types a lexeme may have are told by its first character. *)
LEMMA TypesByFirst ==
    ASSUME memory \in Seq(STRING), NEW p \in Nat \ {0}, NEW q \in p + 1 .. Len(memory) + 1
    PROVE  LET s == Lexeme(p, q)
           IN  /\ Char(p) \in Alpha =>
                      TypesOf(s) = IF IsWord(s) THEN {ident_type(s)} ELSE {}
               /\ Char(p) \in Digit =>
                      TypesOf(s) = IF IsDecimal(s) \/ IsBinary(s) \/ IsHex(s)
                                   THEN {"NUM"} ELSE {}
               /\ Char(p) \in {Newline, ";"} =>
                      TypesOf(s) = IF q = p + 1 THEN {"NL"} ELSE {}
               /\ Char(p) \in Signs =>
                      TypesOf(s) = IF q = p + 1 THEN {Sign[Char(p)]} ELSE {}
               /\ Char(p) = QuoteMark =>
                      TypesOf(s) = IF IsString(s) THEN {"STR"} ELSE {}
               /\ Char(p) \notin Alpha \cup Digit \cup Signs \cup {Newline, ";", QuoteMark} =>
                      TypesOf(s) = {}
<1> DEFINE s == Lexeme(p, q)
<1>1. /\ IsWord(s) => Char(p) \in Alpha
      /\ IsDecimal(s) \/ IsBinary(s) \/ IsHex(s) => Char(p) \in Digit
      /\ IsString(s) => Char(p) = QuoteMark
      /\ \A c : s = <<c>> <=> q = p + 1 /\ Char(p) = c
  <2>1. p \in p .. q - 1
    OBVIOUS
  <2>2. /\ IsWord(s) => Char(p) \in Alpha
        /\ IsString(s) => Char(p) = QuoteMark
        /\ \A c : s = <<c>> <=> q = p + 1 /\ Char(p) = c
    BY LexemeKinds
  <2>3. IsDecimal(s) => Char(p) \in Digit
    BY <2>1, LexemeKinds
  <2>4. IsBinary(s) \/ IsHex(s) => Char(p) = "0"
    BY LexemeKinds
  <2>5. QED BY <2>2, <2>3, <2>4, Classes
<1> HIDE DEF s
<1> DEFINE Of(t) == \/ t = "NL" /\ q = p + 1 /\ Char(p) \in {Newline, ";"}
                    \/ q = p + 1 /\ Char(p) \in Signs /\ t = Sign[Char(p)]
                    \/ IsWord(s) /\ t = ident_type(s)
                    \/ t = "NUM" /\ (IsDecimal(s) \/ IsBinary(s) \/ IsHex(s))
                    \/ t = "STR" /\ IsString(s)
<1>2. TypesOf(s) = {t \in Types : Of(t)}
  <2>1. s \in {<<Newline>>, <<";">>} <=> q = p + 1 /\ Char(p) \in {Newline, ";"}
    BY <1>1
  <2>2. \A t : (\E c \in DOMAIN Sign : s = <<c>> /\ t = Sign[c])
               <=> q = p + 1 /\ Char(p) \in Signs /\ t = Sign[Char(p)]
    BY <1>1 DEF Signs
  <2>3. QED BY <2>1, <2>2 DEF TypesOf, ident_type
<1>3. /\ {"EOF", "NL", "IDENT", "NUM", "STR", "ERR"} \subseteq Types
      /\ \A c \in Signs : Sign[c] \in Types
      /\ ident_type(s) \in Types
  BY TypesShape
<1>4. ASSUME Char(p) \in Alpha PROVE TypesOf(s) = IF IsWord(s) THEN {ident_type(s)} ELSE {}
  BY <1>1, <1>2, <1>3, <1>4, Classes
<1>5. ASSUME Char(p) \in Digit
      PROVE  TypesOf(s) = IF IsDecimal(s) \/ IsBinary(s) \/ IsHex(s) THEN {"NUM"} ELSE {}
  BY <1>1, <1>2, <1>3, <1>5, Classes
<1>6. ASSUME Char(p) \in {Newline, ";"}
      PROVE  TypesOf(s) = IF q = p + 1 THEN {"NL"} ELSE {}
  BY <1>1, <1>2, <1>3, <1>6, Classes
<1>7. ASSUME Char(p) \in Signs
      PROVE  TypesOf(s) = IF q = p + 1 THEN {Sign[Char(p)]} ELSE {}
  BY <1>1, <1>2, <1>3, <1>7, Classes
<1>8. ASSUME Char(p) = QuoteMark PROVE TypesOf(s) = IF IsString(s) THEN {"STR"} ELSE {}
  BY <1>1, <1>2, <1>3, <1>8, Classes
<1>9. ASSUME Char(p) \notin Alpha \cup Digit \cup Signs \cup {Newline, ";", QuoteMark}
      PROVE  TypesOf(s) = {}
  BY <1>1, <1>2, <1>9
<1>10. QED BY <1>4, <1>5, <1>6, <1>7, <1>8, <1>9 DEF s

-----------------------------------------------------------------------------
(* A call of lexer_next_token.                                             *)

(* LongestMatch for one token. *)
Longest(type, from, to) ==
    LET longer == {q \in from + 1 .. Len(memory) : TypesOf(Lexeme(from, q)) # {}}
        open == type = "STR" /\ Char(to - 1) = NUL
    IN  CASE type = "EOF" -> TRUE
          [] type = "ERR" ->
                 \/ longer = {} /\ to = from + 1
                 \/ longer = {from + 1} /\ to = from + 2
                    /\ Lexeme(from, from + 2) \in {<<"0", "b">>, <<"0", "x">>}
          [] open -> longer = {}
          [] OTHER -> /\ TypesOf(Lexeme(from, to)) = {type}
                      /\ \A q \in longer : q <= to

MInv == IInv /\ LongestMatch

Good(token, start, to, line, column) ==
    /\ Turn(token, to)
    /\ Longest(token.type, Skipped, to)
    /\ start \in 1 .. to
    /\ line \in 1 .. Len(memory) + 1 /\ line <= to
    /\ column \in Nat \ {0}

LEMMA LongestIs ==
    LongestMatch <=> \A k \in DOMAIN tokens :
                         Longest(tokens[k].type, spans[k].from, spans[k].to)
  BY DEF LongestMatch, Longest

LEMMA GoodKeeps ==
    ASSUME MInv, NEW token, NEW start, NEW to, NEW line, NEW column,
           Good(token, start, to, line, column), Give(token, start, to, line, column)
    PROVE  MInv'
<1>1. UNCHANGED <<text, memory>>
  BY DEF Give
<1>2. CASE mode = "printing" /\ token.type \in {"ERR", "EOF"}
  <2>1. Restart
    BY <1>2 DEF Give
  <2>2. LongestMatch'
    BY <2>1 DEF Restart, LongestMatch
  <2>3. QED BY <1>1, <2>1, <2>2, RestartKeeps DEF MInv
<1>3. CASE ~(mode = "printing" /\ token.type \in {"ERR", "EOF"})
  <2>1. /\ tokens' = Append(tokens, token)
        /\ spans' = Append(spans, [from |-> Skipped, to |-> to])
        /\ mode' = IF token.type = "EOF" THEN "done" ELSE mode
        /\ start_position' = start /\ current_position' = to
        /\ current_line' = line /\ current_column' = column
    BY <1>3 DEF Give
  <2>2. mode' \in {"printing", "parsing", "done"}
    BY <2>1 DEF MInv, IInv, Reading
  <2>3. IInv'
    BY <1>1, <2>1, <2>2, TokenKeeps DEF MInv, Good
  <2>4. PICK n \in Nat : n = Len(tokens) + 1
    BY DEF MInv, IInv, Reading
  <2>5. /\ DOMAIN tokens' = 1 .. n /\ tokens'[n] = token
        /\ spans'[n].from = Skipped /\ spans'[n].to = to
        /\ \A k \in 1 .. n : k # n => /\ k \in DOMAIN tokens /\ tokens'[k] = tokens[k]
                                      /\ spans'[k] = spans[k]
    <3> DEFINE span == [from |-> Skipped, to |-> to]
    <3>1. /\ tokens \in Seq(TokenSet) /\ token \in TokenSet
          /\ spans \in Seq(SpanSet) /\ Len(spans) = Len(tokens)
      BY DEF MInv, IInv, Reading, Good, Turn
    <3>2. span \in SpanSet
      <4>1. Skipped \in Nat \ {0}
        BY InvSkipped DEF MInv
      <4>2. to \in Nat \ {0}
        BY <4>1, TurnEnds DEF MInv, Good, Turn
      <4>3. QED BY <4>1, <4>2 DEF SpanSet
    <3>3. span.from = Skipped /\ span.to = to
      OBVIOUS
    <3> HIDE DEF span
    <3>4. spans' = Append(spans, span)
      BY <2>1 DEF span
    <3>5. /\ DOMAIN tokens' = 1 .. n /\ tokens'[n] = token /\ spans'[n] = span
          /\ \A k \in 1 .. n : k # n => /\ k \in DOMAIN tokens /\ tokens'[k] = tokens[k]
                                        /\ spans'[k] = spans[k]
      BY <2>1, <2>4, <3>1, <3>2, <3>4
    <3>6. QED BY <3>3, <3>5
  <2>6. \A k \in DOMAIN tokens' : Longest(tokens'[k].type, spans'[k].from, spans'[k].to)
    <3>1. SUFFICES ASSUME NEW k \in 1 .. n
                   PROVE  Longest(tokens'[k].type, spans'[k].from, spans'[k].to)
      BY <2>5
    <3>2. CASE k = n
      BY <2>5, <3>2 DEF Good
    <3>3. CASE k # n
      BY <2>5, <3>3, LongestIs DEF MInv
    <3>4. QED BY <3>2, <3>3
  <2>7. LongestMatch'
    <3>1. LongestMatch' <=> \A k \in DOMAIN tokens' :
                                Longest(tokens[k].type, spans[k].from, spans[k].to)'
      BY DEF LongestMatch, Longest
    <3>2. \A k \in DOMAIN tokens' :
              Longest(tokens[k].type, spans[k].from, spans[k].to)'
              <=> Longest(tokens'[k].type, spans'[k].from, spans'[k].to)
      BY <1>1 DEF Longest, Lexeme, Char
    <3>3. QED BY <2>6, <3>1, <3>2
  <2>8. QED BY <2>3, <2>7 DEF MInv
<1>4. QED BY <1>2, <1>3

LEMMA Where ==
    ASSUME MInv
    PROVE  /\ memory \in Seq(STRING) /\ Len(memory) \in Nat
           /\ Skipped \in Nat \ {0} /\ Skipped >= current_position
           /\ current_position \in Nat \ {0} /\ current_column \in Nat \ {0}
           /\ current_line \in 1 .. Len(memory) + 1 /\ current_line <= Skipped
           /\ First = Char(Skipped)
           /\ First # NUL => Skipped \in 1 .. Len(memory)
<1>1. Skipped \in Nat \ {0} /\ Skipped >= current_position
  BY InvSkipped DEF MInv
<1>2. /\ memory \in Seq(STRING) /\ Len(memory) \in Nat
      /\ current_position \in Nat \ {0} /\ current_column \in Nat \ {0}
      /\ current_line \in 1 .. Len(memory) + 1 /\ current_line <= current_position
  BY DEF MInv, IInv, MemoryOK, Reading
<1>3. First = Char(Skipped)
  BY DEF First
<1>4. First # NUL => Skipped \in 1 .. Len(memory)
  BY <1>1, <1>2, <1>3, CharNat
<1>5. QED BY <1>1, <1>2, <1>3, <1>4

LEMMA GiveToKeeps ==
    ASSUME MInv, NEW type \in Types, NEW to \in Nat, GiveTo(type, to),
           IF type = "EOF" THEN to = Skipped /\ First = NUL ELSE Skipped < to,
           \A i \in Skipped .. to - 1 : Char(i) # NUL,
           Longest(type, Skipped, to)
    PROVE  MInv'
<1> DEFINE column == ColumnAt(to)
           token == make_token(type, Skipped, to, current_line, column)
<1>1. /\ to >= Skipped /\ column \in Nat \ {0}
      /\ Skipped \in 1 .. to /\ current_line <= to
  BY Where DEF ColumnAt
<1>2. token \in TokenSet /\ token.type = type
  <2> HIDE DEF column
  <2>1. QED BY <1>1, Where DEF make_token, TokenSet
<1>3. Give(token, Skipped, to, current_line, column)
  BY DEF GiveTo
<1> HIDE DEF column, token
<1>4. Turn(token, to)
  BY <1>2 DEF Turn
<1>5. Good(token, Skipped, to, current_line, column)
  BY <1>1, <1>2, <1>4, Where DEF Good
<1>6. QED BY <1>3, <1>5, GoodKeeps

LEMMA GiveErrorKeeps ==
    ASSUME MInv, NEW message \in Messages, NEW to \in Nat, GiveError(message, to),
           Skipped < to, \A i \in Skipped .. to - 1 : Char(i) # NUL,
           Longest("ERR", Skipped, to)
    PROVE  MInv'
<1> DEFINE column == ColumnAt(to)
           token == error_token(message, column)
<1>1. column \in Nat \ {0} /\ Skipped \in 1 .. to /\ current_line <= to
  BY Where DEF ColumnAt
<1>2. token \in TokenSet /\ token.type = "ERR"
  <2> HIDE DEF column
  <2>1. QED BY <1>1, Where DEF error_token, TokenSet
<1>3. Give(token, Skipped, to, current_line, column)
  BY DEF GiveError
<1> HIDE DEF column, token
<1>4. Turn(token, to)
  BY <1>2 DEF Turn
<1>5. Good(token, Skipped, to, current_line, column)
  BY <1>1, <1>2, <1>4, Where DEF Good
<1>6. QED BY <1>3, <1>5, GoodKeeps

LEMMA EndKeeps == ASSUME MInv, end_of_text PROVE MInv'
<1>1. First = NUL /\ GiveTo("EOF", Skipped)
  BY DEF end_of_text
<1>2. Skipped \in Nat /\ "EOF" \in Types
  BY Where, TypesShape
<1>3. Longest("EOF", Skipped, Skipped)
  BY DEF Longest
<1>4. QED BY <1>1, <1>2, <1>3, GiveToKeeps

(* The end of the characters of a kind. *)
LEMMA EndShape ==
    ASSUME MInv, NEW p \in Nat \ {0}, NEW chars, NUL \notin chars
    PROVE  /\ End(p, chars) \in Nat /\ End(p, chars) >= p
           /\ Char(End(p, chars)) \notin chars
           /\ \A i \in p .. End(p, chars) - 1 : Char(i) \in chars /\ Char(i) # NUL
           /\ p <= Len(memory) + 1 => End(p, chars) <= Len(memory) + 1
<1>1. memory \in Seq(STRING) /\ Len(memory) \in Nat
  BY Where
<1>2. /\ End(p, chars) \in Nat /\ End(p, chars) >= p
      /\ Char(End(p, chars)) \notin chars
      /\ \A i \in p .. End(p, chars) - 1 : Char(i) \in chars /\ Char(i) # NUL
  BY <1>1, SpanShape DEF End, Char
<1>3. ASSUME p <= Len(memory) + 1, End(p, chars) > Len(memory) + 1 PROVE FALSE
  <2>1. Len(memory) + 1 \in p .. End(p, chars) - 1 /\ Len(memory) + 1 \in Nat
    BY <1>1, <1>2, <1>3
  <2>2. QED BY <1>1, <1>2, <2>1, CharNat
<1>4. QED BY <1>1, <1>2, <1>3

LEMMA IdentKeeps == ASSUME MInv, make_ident PROVE MInv'
<1> DEFINE to == End(Skipped, WordChar)
           type == ident_type(Lexeme(Skipped, to))
<1>1. First \in Alpha /\ GiveTo(type, to)
  BY DEF make_ident
<1>2. /\ Skipped \in 1 .. Len(memory) /\ Skipped \in Nat \ {0} /\ First = Char(Skipped)
      /\ memory \in Seq(STRING) /\ Len(memory) \in Nat
  BY <1>1, Where, CharClasses
<1>3. /\ to \in Nat /\ to >= Skipped /\ to <= Len(memory) + 1
      /\ Char(to) \notin WordChar
      /\ \A i \in Skipped .. to - 1 : Char(i) \in WordChar /\ Char(i) # NUL
  <2>1. NUL \notin WordChar
    BY CharClasses
  <2>2. Skipped <= Len(memory) + 1
    BY <1>2
  <2>3. QED BY <1>2, <2>1, <2>2, EndShape
<1> HIDE DEF to
<1>4. Skipped < to
  BY <1>1, <1>2, <1>3 DEF WordChar
<1>5. type \in Types /\ type \notin {"EOF", "ERR", "STR"}
  BY TypesShape
<1>6. \A q \in Skipped + 1 .. Len(memory) + 1 :
          TypesOf(Lexeme(Skipped, q)) = IF IsWord(Lexeme(Skipped, q))
                                        THEN {ident_type(Lexeme(Skipped, q))} ELSE {}
  BY <1>1, <1>2, TypesByFirst
<1>7. \A q \in Skipped + 1 .. Len(memory) + 1 :
          IsWord(Lexeme(Skipped, q)) <=> /\ Char(Skipped) \in Alpha
                                         /\ \A i \in Skipped + 1 .. q - 1 : Char(i) \in WordChar
  BY <1>2, LexemeKinds
<1>8. TypesOf(Lexeme(Skipped, to)) = {type}
  BY <1>1, <1>2, <1>3, <1>4, <1>6, <1>7
<1>9. ASSUME NEW q \in Skipped + 1 .. Len(memory), TypesOf(Lexeme(Skipped, q)) # {}
      PROVE  q <= to
  <2>1. \A i \in Skipped + 1 .. q - 1 : Char(i) \in WordChar
    BY <1>2, <1>6, <1>7, <1>9
  <2>2. QED BY <1>2, <1>3, <1>4, <2>1
<1> HIDE DEF type
<1>10. Longest(type, Skipped, to)
  BY <1>5, <1>8, <1>9 DEF Longest
<1>11. QED BY <1>1, <1>3, <1>4, <1>5, <1>10, GiveToKeeps

(* When a lexeme that starts with a digit is a number. *)
LEMMA NumberTypes ==
    ASSUME MInv, First \in Digit, NEW q \in Skipped + 1 .. Len(memory) + 1
    PROVE  TypesOf(Lexeme(Skipped, q)) =
               IF \/ \A i \in Skipped .. q - 1 : Char(i) \in Digit
                  \/ /\ Skipped + 2 < q /\ First = "0" /\ Char(Skipped + 1) = "b"
                     /\ \A i \in Skipped + 2 .. q - 1 : Char(i) \in BinaryDigit
                  \/ /\ Skipped + 2 < q /\ First = "0" /\ Char(Skipped + 1) = "x"
                     /\ \A i \in Skipped + 2 .. q - 1 : Char(i) \in HexDigit
               THEN {"NUM"} ELSE {}
<1>1. /\ memory \in Seq(STRING) /\ Len(memory) \in Nat /\ Skipped \in Nat \ {0}
      /\ First = Char(Skipped)
  BY Where
<1>2. LET s == Lexeme(Skipped, q)
      IN  TypesOf(s) = IF IsDecimal(s) \/ IsBinary(s) \/ IsHex(s) THEN {"NUM"} ELSE {}
  BY <1>1, TypesByFirst
<1>3. LET s == Lexeme(Skipped, q)
      IN  /\ IsDecimal(s) <=> \A i \in Skipped .. q - 1 : Char(i) \in Digit
          /\ IsBinary(s) <=>
                 /\ Skipped + 2 < q /\ Char(Skipped) = "0" /\ Char(Skipped + 1) = "b"
                 /\ \A i \in Skipped + 2 .. q - 1 : Char(i) \in BinaryDigit
          /\ IsHex(s) <=>
                 /\ Skipped + 2 < q /\ Char(Skipped) = "0" /\ Char(Skipped + 1) = "x"
                 /\ \A i \in Skipped + 2 .. q - 1 : Char(i) \in HexDigit
  BY <1>1, LexemeKinds
<1>4. QED BY <1>1, <1>2, <1>3

LEMMA NumberKeeps == ASSUME MInv, make_number PROVE MInv'
<1> DEFINE to == End(Skipped, Digit)
<1>1. First \in Digit /\ ~HasBase /\ GiveTo("NUM", to)
  BY DEF make_number
<1>2. /\ Skipped \in 1 .. Len(memory) /\ Skipped \in Nat \ {0} /\ First = Char(Skipped)
      /\ Len(memory) \in Nat
  BY <1>1, Where, CharClasses
<1>3. /\ to \in Nat /\ to >= Skipped /\ to <= Len(memory) + 1
      /\ Char(to) \notin Digit
      /\ \A i \in Skipped .. to - 1 : Char(i) \in Digit /\ Char(i) # NUL
  <2>1. NUL \notin Digit
    BY CharClasses
  <2>2. Skipped <= Len(memory) + 1
    BY <1>2
  <2>3. QED BY <1>2, <2>1, <2>2, EndShape
<1> HIDE DEF to
<1>4. Skipped < to
  BY <1>1, <1>2, <1>3
<1>5. ~(First = "0" /\ Char(Skipped + 1) \in {"b", "x"})
  BY <1>1 DEF HasBase
<1>6. ASSUME NEW q \in Skipped + 1 .. Len(memory) + 1
      PROVE  TypesOf(Lexeme(Skipped, q)) =
                 IF \A i \in Skipped .. q - 1 : Char(i) \in Digit THEN {"NUM"} ELSE {}
  BY <1>1, <1>5, NumberTypes
<1>7. TypesOf(Lexeme(Skipped, to)) = {"NUM"}
  BY <1>2, <1>3, <1>4, <1>6
<1>8. ASSUME NEW q \in Skipped + 1 .. Len(memory), TypesOf(Lexeme(Skipped, q)) # {}
      PROVE  q <= to
  <2>1. \A i \in Skipped .. q - 1 : Char(i) \in Digit
    BY <1>2, <1>6, <1>8
  <2>2. QED BY <1>2, <1>3, <1>4, <2>1
<1>9. Longest("NUM", Skipped, to)
  BY <1>7, <1>8 DEF Longest
<1>10. QED BY <1>1, <1>3, <1>4, <1>9, TypesShape, GiveToKeeps

(* The digits behind a base. *)
LEMMA BaseShape ==
    ASSUME MInv, First \in Digit, HasBase
    PROVE  /\ First = "0" /\ Char(Skipped + 1) \in {"b", "x"}
           /\ Skipped + 1 \in 1 .. Len(memory)
           /\ BaseDigits = IF Char(Skipped + 1) = "b" THEN BinaryDigit ELSE HexDigit
           /\ NUL \notin BaseDigits
           /\ \A i \in {Skipped, Skipped + 1} : Char(i) # NUL
           /\ \A q \in Skipped + 1 .. Len(memory) + 1 :
                  TypesOf(Lexeme(Skipped, q)) =
                      IF \/ q = Skipped + 1
                         \/ /\ Skipped + 2 < q
                            /\ \A i \in Skipped + 2 .. q - 1 : Char(i) \in BaseDigits
                      THEN {"NUM"} ELSE {}
<1>1. /\ First = "0" /\ Char(Skipped + 1) \in {"b", "x"} /\ First = Char(Skipped)
      /\ Skipped \in Nat \ {0} /\ memory \in Seq(STRING) /\ Len(memory) \in Nat
  BY Where DEF HasBase
<1>2. Char(Skipped + 1) # NUL /\ Char(Skipped) # NUL
  BY <1>1, CharClasses
<1>3. Skipped + 1 \in 1 .. Len(memory)
  BY <1>1, <1>2, CharNat
<1>4. BaseDigits = IF Char(Skipped + 1) = "b" THEN BinaryDigit ELSE HexDigit
  BY DEF BaseDigits
<1>5. NUL \notin BaseDigits
  BY <1>4, CharClasses
<1>6. ASSUME NEW q \in Skipped + 1 .. Len(memory) + 1
      PROVE  TypesOf(Lexeme(Skipped, q)) =
                 IF \/ q = Skipped + 1
                    \/ Skipped + 2 < q /\ \A i \in Skipped + 2 .. q - 1 : Char(i) \in BaseDigits
                 THEN {"NUM"} ELSE {}
  <2>1. (\A i \in Skipped .. q - 1 : Char(i) \in Digit) <=> q = Skipped + 1
    <3>1. Char(Skipped + 1) \notin Digit
      BY <1>1, Classes
    <3>2. QED BY <1>1, <3>1
  <2>2. "b" # "x"
    OBVIOUS
  <2>3. QED BY <1>1, <1>4, <2>1, <2>2, NumberTypes
<1>7. QED BY <1>1, <1>2, <1>3, <1>4, <1>5, <1>6

LEMMA BasedKeeps == ASSUME MInv, make_based PROVE MInv'
<1> DEFINE to == End(Skipped + 2, BaseDigits)
<1>1. /\ First \in Digit /\ HasBase /\ Char(Skipped + 2) \in BaseDigits
      /\ GiveTo("NUM", to)
  BY DEF make_based
<1>2. Skipped \in Nat \ {0} /\ Len(memory) \in Nat
  BY Where
<1>3. /\ NUL \notin BaseDigits /\ Skipped + 1 \in 1 .. Len(memory)
      /\ \A i \in {Skipped, Skipped + 1} : Char(i) # NUL
      /\ \A q \in Skipped + 1 .. Len(memory) + 1 :
             TypesOf(Lexeme(Skipped, q)) =
                 IF \/ q = Skipped + 1
                    \/ Skipped + 2 < q /\ \A i \in Skipped + 2 .. q - 1 : Char(i) \in BaseDigits
                 THEN {"NUM"} ELSE {}
  BY <1>1, BaseShape
<1>4. /\ to \in Nat /\ to >= Skipped + 2 /\ to <= Len(memory) + 1
      /\ Char(to) \notin BaseDigits
      /\ \A i \in Skipped + 2 .. to - 1 : Char(i) \in BaseDigits /\ Char(i) # NUL
  <2>1. Skipped + 2 \in Nat \ {0} /\ Skipped + 2 <= Len(memory) + 1
    BY <1>2, <1>3
  <2>2. QED BY <1>3, <2>1, EndShape
<1> HIDE DEF to
<1>5. Skipped + 2 < to
  <2>1. to # Skipped + 2
    BY <1>1, <1>4
  <2>2. QED BY <1>2, <1>4, <2>1
<1>6. \A i \in Skipped .. to - 1 : Char(i) # NUL
  <2>1. \A i \in Skipped .. to - 1 : i \in {Skipped, Skipped + 1} \/ i \in Skipped + 2 .. to - 1
    BY <1>2, <1>4
  <2>2. QED BY <1>3, <1>4, <2>1
<1>7. TypesOf(Lexeme(Skipped, to)) = {"NUM"}
  BY <1>2, <1>3, <1>4, <1>5
<1>8. ASSUME NEW q \in Skipped + 1 .. Len(memory), TypesOf(Lexeme(Skipped, q)) # {}
      PROVE  q <= to
  <2>1. \/ q = Skipped + 1
        \/ Skipped + 2 < q /\ \A i \in Skipped + 2 .. q - 1 : Char(i) \in BaseDigits
    BY <1>2, <1>3, <1>8
  <2>2. QED BY <1>2, <1>4, <1>5, <2>1
<1>9. Longest("NUM", Skipped, to)
  BY <1>7, <1>8 DEF Longest
<1>10. Skipped < to /\ "NUM" \in Types
  BY <1>2, <1>4, <1>5, TypesShape
<1>11. QED BY <1>1, <1>4, <1>6, <1>9, <1>10, GiveToKeeps

LEMMA BadBaseKeeps == ASSUME MInv, BadBase PROVE MInv'
<1> DEFINE to == Skipped + 2
<1>1. /\ First \in Digit /\ HasBase /\ Char(to) \notin BaseDigits
      /\ GiveError("BAD_BASE", to)
  BY DEF BadBase
<1>2. /\ Skipped \in Nat \ {0} /\ Len(memory) \in Nat /\ memory \in Seq(STRING)
      /\ to \in Nat /\ First = Char(Skipped)
  BY Where
<1>3. /\ First = "0" /\ Char(Skipped + 1) \in {"b", "x"}
      /\ Skipped + 1 \in 1 .. Len(memory)
      /\ \A i \in {Skipped, Skipped + 1} : Char(i) # NUL
      /\ \A q \in Skipped + 1 .. Len(memory) + 1 :
             TypesOf(Lexeme(Skipped, q)) =
                 IF \/ q = Skipped + 1
                    \/ to < q /\ \A i \in to .. q - 1 : Char(i) \in BaseDigits
                 THEN {"NUM"} ELSE {}
  BY <1>1, BaseShape
<1>4. {q \in Skipped + 1 .. Len(memory) : TypesOf(Lexeme(Skipped, q)) # {}} = {Skipped + 1}
  <2>1. \A q \in Skipped + 1 .. Len(memory) :
            TypesOf(Lexeme(Skipped, q)) # {} <=> q = Skipped + 1
    BY <1>1, <1>2, <1>3
  <2>2. QED BY <1>3, <2>1
<1>5. Lexeme(Skipped, to) \in {<<"0", "b">>, <<"0", "x">>}
  <2>1. /\ Lexeme(Skipped, to) \in Seq(STRING) /\ Len(Lexeme(Skipped, to)) = 2
        /\ \A i \in 1 .. 2 : Lexeme(Skipped, to)[i] = Char(Skipped + i - 1)
    <3>1. to \in Skipped + 1 .. Len(memory) + 1 /\ to - Skipped = 2
      BY <1>2, <1>3
    <3> HIDE DEF to
    <3>2. QED BY <1>2, <3>1, LexemeShape
  <2>2. Lexeme(Skipped, to)[1] = "0" /\ Lexeme(Skipped, to)[2] \in {"b", "x"}
    <3>1. Skipped + 1 - 1 = Skipped /\ Skipped + 2 - 1 = Skipped + 1
      BY <1>2
    <3>2. Lexeme(Skipped, to)[1] = Char(Skipped)
          /\ Lexeme(Skipped, to)[2] = Char(Skipped + 1)
      BY <2>1, <3>1
    <3>3. QED BY <1>2, <1>3, <3>2
  <2> DEFINE s == Lexeme(Skipped, to)
  <2> HIDE DEF s
  <2>3. s = <<"0", "b">> \/ s = <<"0", "x">>
    BY <2>1, <2>2 DEF s
  <2>4. QED BY <2>3 DEF s
<1>6. Skipped < to /\ \A i \in Skipped .. to - 1 : Char(i) # NUL
  BY <1>2, <1>3
<1>7. Longest("ERR", Skipped, to)
  BY <1>4, <1>5 DEF Longest
<1> HIDE DEF to
<1>8. GiveError("BAD_BASE", to) /\ to \in Nat
  BY <1>1, <1>2
<1>9. QED BY <1>6, <1>7, <1>8, GiveErrorKeeps DEF Messages

(* A token of one character. *)
LEMMA SingleLongest ==
    ASSUME MInv, NEW type, NEW to, to = Skipped + 1, First # NUL,
           type \notin {"EOF", "ERR", "STR"},
           \A q \in Skipped + 1 .. Len(memory) + 1 :
               TypesOf(Lexeme(Skipped, q)) = IF q = Skipped + 1 THEN {type} ELSE {}
    PROVE  Longest(type, Skipped, to)
<1>1. Skipped \in 1 .. Len(memory) /\ Len(memory) \in Nat /\ Skipped \in Nat
  BY Where
<1>2. TypesOf(Lexeme(Skipped, to)) = {type}
  <2>1. to \in Skipped + 1 .. Len(memory) + 1
    BY <1>1
  <2>2. QED BY <2>1
<1>3. ASSUME NEW q \in Skipped + 1 .. Len(memory), TypesOf(Lexeme(Skipped, q)) # {}
      PROVE  q <= to
  BY <1>1, <1>3
<1>4. QED BY <1>2, <1>3 DEF Longest

(* The place behind one character. *)
LEMMA Behind1 ==
    ASSUME MInv, First # NUL, NEW to, to = Skipped + 1
    PROVE  /\ to \in Nat /\ Skipped < to /\ Skipped \in 1 .. to
           /\ \A i \in Skipped .. to - 1 : Char(i) # NUL
<1>1. Skipped \in Nat \ {0} /\ Char(Skipped) # NUL
  BY Where
<1>2. to \in Nat /\ Skipped < to /\ Skipped \in 1 .. to /\ to - 1 = Skipped
  BY <1>1
<1>3. \A i \in Skipped .. to - 1 : i = Skipped
  BY <1>1, <1>2
<1>4. QED BY <1>1, <1>2, <1>3

LEMMA NewlineKeeps == ASSUME MInv, make_newline PROVE MInv'
<1> DEFINE to == Skipped + 1
           token == make_token("NL", Skipped, to, current_line, ColumnAt(to))
<1>1. /\ First \in {Newline, ";"}
      /\ Give(token, Skipped, to, current_line + 1, 1) \/ GiveTo("NL", to)
  BY DEF make_newline
<1>2. First # NUL
  BY <1>1, CharClasses DEF NUL
<1>3. /\ memory \in Seq(STRING) /\ Len(memory) \in Nat
      /\ Skipped \in 1 .. Len(memory) /\ Skipped \in Nat \ {0} /\ First = Char(Skipped)
      /\ current_line \in Nat \ {0} /\ current_line <= Skipped
  BY <1>2, Where
<1>4. \A q \in Skipped + 1 .. Len(memory) + 1 :
          TypesOf(Lexeme(Skipped, q)) = IF q = Skipped + 1 THEN {"NL"} ELSE {}
  BY <1>1, <1>3, TypesByFirst
<1>5. Longest("NL", Skipped, to)
  <2>1. "NL" \notin {"EOF", "ERR", "STR"}
    OBVIOUS
  <2>2. QED BY <1>2, <1>4, <2>1, SingleLongest
<1>6. /\ to \in Nat /\ Skipped < to /\ Skipped \in 1 .. to
      /\ \A i \in Skipped .. to - 1 : Char(i) # NUL
  BY <1>2, Behind1
<1>7. token \in TokenSet /\ token.type = "NL"
  <2> DEFINE column == ColumnAt(to) - (to - Skipped)
  <2>1. column \in Int /\ to - Skipped \in Int
    BY Where DEF ColumnAt
  <2>2. token = [type |-> "NL", lexeme |-> Skipped, length |-> to - Skipped,
                 line |-> current_line, column |-> column]
    BY DEF make_token
  <2> HIDE DEF column, to
  <2>3. QED BY <1>3, <2>1, <2>2, TypesShape DEF TokenSet
<1>8. current_line + 1 \in 1 .. Len(memory) + 1 /\ current_line + 1 <= to
  BY <1>3
<1> HIDE DEF to, token
<1>9. Turn(token, to)
  BY <1>6, <1>7 DEF Turn
<1>10. Good(token, Skipped, to, current_line + 1, 1)
  BY <1>5, <1>6, <1>7, <1>8, <1>9 DEF Good
<1>11. CASE Give(token, Skipped, to, current_line + 1, 1)
  BY <1>10, <1>11, GoodKeeps
<1>12. CASE GiveTo("NL", to)
  BY <1>5, <1>6, <1>12, TypesShape, GiveToKeeps
<1>13. QED BY <1>1, <1>11, <1>12

LEMMA SignKeeps == ASSUME MInv, make_sign PROVE MInv'
<1> DEFINE to == Skipped + 1
           type == Sign[First]
<1>1. First \in Signs /\ GiveTo(type, to)
  BY DEF make_sign, Signs
<1>2. First # NUL
  BY <1>1, CharClasses
<1>3. /\ memory \in Seq(STRING) /\ Len(memory) \in Nat
      /\ Skipped \in Nat \ {0} /\ First = Char(Skipped)
  BY Where
<1>4. \A q \in Skipped + 1 .. Len(memory) + 1 :
          TypesOf(Lexeme(Skipped, q)) = IF q = Skipped + 1 THEN {type} ELSE {}
  BY <1>1, <1>3, TypesByFirst
<1>5. type \in Types /\ type \notin {"EOF", "ERR", "STR"}
  BY <1>1, TypesShape
<1> HIDE DEF type
<1>6. Longest(type, Skipped, to)
  BY <1>2, <1>4, <1>5, SingleLongest
<1>7. /\ to \in Nat /\ Skipped < to
      /\ \A i \in Skipped .. to - 1 : Char(i) # NUL
  BY <1>2, Behind1
<1> HIDE DEF to
<1>8. QED BY <1>1, <1>5, <1>6, <1>7, GiveToKeeps

LEMMA UnexpectedKeeps == ASSUME MInv, Unexpected PROVE MInv'
<1> DEFINE to == Skipped + 1
<1>1. /\ First \notin Alpha \cup Digit \cup Signs \cup {Newline, ";", QuoteMark}
      /\ First # NUL /\ GiveError("UNEXPECTED", to)
  BY DEF Unexpected, Signs
<1>2. /\ memory \in Seq(STRING) /\ Len(memory) \in Nat
      /\ Skipped \in Nat \ {0} /\ First = Char(Skipped)
  BY Where
<1>3. {q \in Skipped + 1 .. Len(memory) : TypesOf(Lexeme(Skipped, q)) # {}} = {}
  <2>1. ASSUME NEW q \in Skipped + 1 .. Len(memory) PROVE TypesOf(Lexeme(Skipped, q)) = {}
    <3>1. q \in Skipped + 1 .. Len(memory) + 1
      BY <1>2
    <3>2. QED BY <1>1, <1>2, <3>1, TypesByFirst
  <2>2. QED BY <2>1
<1>4. Longest("ERR", Skipped, to)
  BY <1>3 DEF Longest
<1>5. /\ to \in Nat /\ Skipped < to
      /\ \A i \in Skipped .. to - 1 : Char(i) # NUL
  BY <1>1, Behind1
<1> HIDE DEF to
<1>6. "UNEXPECTED" \in Messages
  BY DEF Messages
<1>7. QED BY <1>1, <1>4, <1>5, <1>6, GiveErrorKeeps

-----------------------------------------------------------------------------
(* Strings.                                                                *)

(* The newlines in the places from p to q. *)
LEMMA NewlinesIn ==
    ASSUME NEW p \in Nat, NEW q \in Nat, p <= q
    PROVE  LET newlines == {i \in p .. q - 1 : Char(i) = Newline}
           IN  /\ IsFiniteSet(newlines)
               /\ Cardinality(newlines) \in Nat /\ Cardinality(newlines) <= q - p
               /\ newlines # {} =>
                      (CHOOSE i \in newlines : \A j \in newlines : j <= i) \in p .. q - 1
<1> DEFINE newlines == {i \in p .. q - 1 : Char(i) = Newline}
<1>1. newlines \subseteq p .. q - 1 /\ newlines \in SUBSET Nat
  OBVIOUS
<1>2. IsFiniteSet(p .. q - 1) /\ Cardinality(p .. q - 1) = q - p
  <2>1. p \in Int /\ q - 1 \in Int
    OBVIOUS
  <2>2. /\ IsFiniteSet(p .. q - 1)
        /\ Cardinality(p .. q - 1) = IF p > q - 1 THEN 0 ELSE (q - 1) - p + 1
    BY <2>1, FS_Interval
  <2>3. QED BY <2>2
<1>3. /\ IsFiniteSet(newlines) /\ Cardinality(newlines) \in Nat
      /\ Cardinality(newlines) <= q - p
  BY <1>1, <1>2, FS_Subset, FS_CardinalityType
<1>4. ASSUME newlines # {}
      PROVE  (CHOOSE i \in newlines : \A j \in newlines : j <= i) \in p .. q - 1
  <2>1. newlines \in SUBSET (0 .. q)
    OBVIOUS
  <2> HIDE DEF newlines
  <2>2. \E i \in newlines : \A j \in newlines : j <= i
    BY <1>4, <2>1, LastPlace
  <2>3. QED BY <1>1, <2>2
<1>5. QED BY <1>3, <1>4

(* A closed string is the longest; an open one is no token at all. *)
LEMMA StringLongest ==
    ASSUME MInv, First = QuoteMark, NEW to, NEW end, end = to + 1, to = Quote(Skipped + 1)
    PROVE  /\ to \in Nat /\ Skipped < to /\ to <= Len(memory) + 1
           /\ \A i \in Skipped .. to - 1 : Char(i) # NUL
           /\ Longest("STR", Skipped, end)
<1> DEFINE types(q) == TypesOf(Lexeme(Skipped, q))
           closes(q) == /\ Skipped + 1 < q /\ Char(q - 1) = QuoteMark
                        /\ \A i \in Skipped + 1 .. q - 2 : Char(i) \notin {QuoteMark, NUL}
<1>1. /\ NUL # QuoteMark /\ First # NUL /\ First = Char(Skipped)
      /\ Skipped \in 1 .. Len(memory) /\ Skipped \in Nat \ {0}
      /\ memory \in Seq(STRING) /\ Len(memory) \in Nat
  BY Where, CharClasses
<1>2. /\ to \in Nat /\ to >= Skipped + 1 /\ Char(to) \in {QuoteMark, NUL}
      /\ \A i \in Skipped + 1 .. to - 1 : Char(i) \notin {QuoteMark, NUL}
  <2> DEFINE from == Skipped + 1
  <2>1. from \in Nat \ {0}
    BY <1>1
  <2> HIDE DEF from
  <2>2. /\ Quote(from) \in Nat /\ Quote(from) >= from
        /\ Char(Quote(from)) \in {QuoteMark, NUL}
        /\ \A i \in from .. Quote(from) - 1 : Char(i) \notin {QuoteMark, NUL}
    BY <1>1, <2>1, QuoteShape
  <2>3. QED BY <2>2 DEF from
<1>3. \A i \in Skipped .. to - 1 : Char(i) # NUL
  <2>1. \A i \in Skipped .. to - 1 : i = Skipped \/ i \in Skipped + 1 .. to - 1
    BY <1>1, <1>2
  <2>2. QED BY <1>1, <1>2, <2>1
<1>4. to <= Len(memory) + 1
  <2>1. to - 1 \in Skipped .. to - 1 /\ to - 1 \in Nat
    BY <1>1, <1>2
  <2>2. QED BY <1>1, <1>2, <1>3, <2>1, CharNat
<1>5. ASSUME NEW q \in Skipped + 1 .. Len(memory) + 1
      PROVE  types(q) = IF closes(q) THEN {"STR"} ELSE {}
  <2>1. types(q) = IF IsString(Lexeme(Skipped, q)) THEN {"STR"} ELSE {}
    BY <1>1, TypesByFirst
  <2>2. IsString(Lexeme(Skipped, q)) <=> Char(Skipped) = QuoteMark /\ closes(q)
    BY <1>1, LexemeKinds
  <2> HIDE DEF types, closes
  <2>3. QED BY <1>1, <2>1, <2>2
<1>6. ASSUME NEW q \in Skipped + 1 .. Len(memory) + 1, closes(q)
      PROVE  q = to + 1 /\ Char(to) = QuoteMark
  <2>1. q \in Nat /\ q - 1 \in Nat /\ Skipped + 1 < q
    BY <1>1, <1>6
  <2>2. q - 1 >= to
    <3>1. ASSUME q - 1 < to PROVE FALSE
      <4>1. q - 1 \in Skipped + 1 .. to - 1
        BY <1>1, <1>2, <2>1, <3>1
      <4>2. QED BY <1>2, <1>6, <4>1
    <3>2. QED BY <1>2, <2>1, <3>1
  <2>3. q - 1 <= to
    <3>1. ASSUME q - 1 > to PROVE FALSE
      <4>1. to \in Skipped + 1 .. q - 2
        BY <1>1, <1>2, <2>1, <3>1
      <4>2. QED BY <1>2, <1>6, <4>1
    <3>2. QED BY <1>2, <2>1, <3>1
  <2>4. q - 1 = to /\ q = to + 1
    BY <1>2, <2>1, <2>2, <2>3
  <2>5. QED BY <1>6, <2>4
<1>7. /\ end \in Nat /\ end - 1 = to /\ end - 2 = to - 1 /\ Skipped + 1 < end
      /\ end \in Skipped + 1 .. Len(memory) + 2
  BY <1>1, <1>2, <1>4
<1>8. CASE Char(to) = QuoteMark
  <2>1. closes(end)
    BY <1>2, <1>7, <1>8
  <2>2. end \in Skipped + 1 .. Len(memory) + 1
    <3>1. to <= Len(memory)
      BY <1>1, <1>2, <1>8, CharNat
    <3>2. QED BY <1>1, <1>2, <1>7, <3>1
  <2>3. types(end) = {"STR"}
    BY <1>5, <2>1, <2>2
  <2>4. ASSUME NEW q \in Skipped + 1 .. Len(memory), types(q) # {}
        PROVE  q <= end
    <3>1. q \in Skipped + 1 .. Len(memory) + 1
      BY <1>1
    <3> HIDE DEF types, closes
    <3>2. q = to + 1
      BY <1>5, <1>6, <2>4, <3>1
    <3>3. QED BY <1>7, <3>2
  <2>5. Char(end - 1) # NUL
    BY <1>1, <1>7, <1>8
  <2>6. Longest("STR", Skipped, end)
    BY <2>3, <2>4, <2>5 DEF Longest
  <2>7. QED BY <1>2, <1>3, <1>4, <1>1, <2>6
<1>9. CASE Char(to) = NUL
  <2>1. Char(end - 1) = NUL
    BY <1>7, <1>9
  <2>2. {q \in Skipped + 1 .. Len(memory) : types(q) # {}} = {}
    <3>1. ASSUME NEW q \in Skipped + 1 .. Len(memory) PROVE types(q) = {}
      <4>1. q \in Skipped + 1 .. Len(memory) + 1
        BY <1>1
      <4> HIDE DEF types, closes
      <4>2. ~closes(q)
        BY <1>1, <1>6, <1>9, <4>1
      <4>3. QED BY <1>5, <4>1, <4>2
    <3>2. QED BY <3>1
  <2>3. Longest("STR", Skipped, end)
    BY <2>1, <2>2 DEF Longest
  <2>4. QED BY <1>2, <1>3, <1>4, <1>1, <2>3
<1>10. QED BY <1>2, <1>8, <1>9

LEMMA StringKeeps == ASSUME MInv, make_string PROVE MInv'
<1> DEFINE from == Skipped + 1
           to == Quote(from)
           end == to + 1
           newlines == {i \in from .. to - 1 : Char(i) = Newline}
           last == CHOOSE i \in newlines : \A j \in newlines : j <= i
           line == current_line + Cardinality(newlines)
           column == IF newlines = {} THEN ColumnAt(to) ELSE 1 + to - last
           token == make_token("STR", from, to, line, column)
<1>1. First = QuoteMark /\ Give(token, from, end, line, column + 1)
  BY DEF make_string
<1>2. /\ to \in Nat /\ Skipped < to /\ to <= Len(memory) + 1
      /\ \A i \in Skipped .. to - 1 : Char(i) # NUL
      /\ Longest("STR", Skipped, end)
  BY <1>1, StringLongest
<1>3. /\ Skipped \in Nat \ {0} /\ Skipped >= current_position /\ Len(memory) \in Nat
      /\ current_position \in Nat \ {0} /\ current_column \in Nat \ {0}
      /\ current_line \in Nat \ {0} /\ current_line <= Skipped
      /\ memory \in Seq(STRING)
  BY Where
<1>4. /\ Cardinality(newlines) \in Nat /\ Cardinality(newlines) <= to - from
      /\ newlines # {} => last \in from .. to - 1
  <2>1. from \in Nat /\ from <= to
    BY <1>2, <1>3
  <2> HIDE DEF from, to
  <2>2. QED BY <1>2, <2>1, NewlinesIn
<1>5. line \in Nat \ {0} /\ line <= to - 1
  <2> HIDE DEF to, newlines
  <2>1. QED BY <1>2, <1>3, <1>4
<1>6. column \in Nat \ {0}
  <2> HIDE DEF to, newlines, last
  <2>1. QED BY <1>2, <1>3, <1>4 DEF ColumnAt
<1>7. from \in Nat /\ to - from \in Int /\ Skipped < end - 1 /\ from \in 1 .. end
      /\ end \in Nat /\ Skipped < end /\ end - 1 = to /\ end - 2 = to - 1
  <2> HIDE DEF to
  <2>1. QED BY <1>2, <1>3
<1>8. Char(to) \in {QuoteMark, NUL}
  <2>1. from \in Nat \ {0}
    BY <1>3
  <2>2. QED BY <1>3, <2>1, QuoteShape
<1>9. token \in TokenSet /\ token.type = "STR"
  <2> HIDE DEF from, to, line, column
  <2>1. QED BY <1>5, <1>6, <1>7, TypesShape DEF make_token, TokenSet
<1> HIDE DEF from, to, end, newlines, last, line, column, token
<1>10. Turn(token, end)
  <2>1. CASE Char(to) = NUL
    <3>1. \A i \in Skipped .. end - 2 : Char(i) # NUL
      BY <1>2, <1>7
    <3>2. QED BY <1>7, <1>9, <2>1, <3>1 DEF Turn
  <2>2. CASE Char(to) = QuoteMark
    <3>1. \A i \in Skipped .. end - 1 : i = to \/ i \in Skipped .. to - 1
      BY <1>2, <1>3, <1>7
    <3>2. \A i \in Skipped .. end - 1 : Char(i) # NUL
      BY <1>2, <2>2, <3>1, CharClasses
    <3>3. QED BY <1>7, <1>9, <3>2 DEF Turn
  <2>3. QED BY <1>8, <2>1, <2>2
<1>11. line \in 1 .. Len(memory) + 1 /\ line <= end /\ column + 1 \in Nat \ {0}
  BY <1>2, <1>3, <1>5, <1>6, <1>7
<1>12. Good(token, from, end, line, column + 1)
  BY <1>2, <1>7, <1>9, <1>10, <1>11 DEF Good
<1>13. QED BY <1>1, <1>12, GoodKeeps

-----------------------------------------------------------------------------
(* The theorems.                                                           *)

LEMMA InitHolds == ASSUME Init PROVE MInv
<1>1. PICK b \in Behind : memory = text \o <<NUL>> \o b
  BY DEF Init
<1>2. text \in Seq(STRING) /\ b \in Seq(STRING) /\ <<NUL>> \in Seq(STRING)
  <2>1. text \in Texts
    BY DEF Init
  <2>2. text \in Seq(STRING)
    BY <2>1, TextsAssumption
  <2>3. b \in Seq(STRING)
    BY <1>1, BehindAssumption
  <2>4. <<NUL>> \in Seq(STRING)
    <3>1. NUL \in STRING
      BY BehindAssumption
    <3>2. \A S, c : c \in S => <<c>> \in Seq(S)
      OBVIOUS
    <3>3. QED BY <3>1, <3>2
  <2>5. QED BY <2>2, <2>3, <2>4
<1>3. /\ memory \in Seq(STRING) /\ Len(text) + 1 <= Len(memory)
      /\ memory[Len(text) + 1] = NUL
  BY <1>1, <1>2
<1>4. Char(Len(text) + 1) = NUL
  BY <1>2, <1>3 DEF Char, CharIn
<1>5. MemoryOK
  BY <1>2, <1>3, <1>4 DEF MemoryOK
<1>6. Reading
  BY <1>2, <1>3 DEF Init, Reading
<1>7. TokensCover /\ InsideUnlessOpen /\ LongestMatch
  BY <1>2 DEF Init, TokensCover, InsideUnlessOpen, LongestMatch
<1>8. QED BY <1>5, <1>6, <1>7 DEF MInv, IInv

LEMMA NextKeeps == ASSUME MInv, [Next]_vars PROVE MInv'
<1>1. CASE Next
  <2>1. \/ end_of_text \/ make_ident \/ make_number \/ make_based \/ BadBase
        \/ make_newline \/ make_sign \/ make_string \/ Unexpected
    BY <1>1 DEF Next, lexer_next_token
  <2>2. end_of_text \/ make_ident => MInv'
    BY EndKeeps, IdentKeeps
  <2>3. make_number \/ make_based \/ BadBase => MInv'
    BY NumberKeeps, BasedKeeps, BadBaseKeeps
  <2>4. make_newline \/ make_sign => MInv'
    BY NewlineKeeps, SignKeeps
  <2>5. make_string \/ Unexpected => MInv'
    BY StringKeeps, UnexpectedKeeps
  <2>6. QED BY <2>1, <2>2, <2>3, <2>4, <2>5
<1>2. CASE UNCHANGED vars
  <2>1. /\ UNCHANGED <<text, memory, tokens, spans, mode>>
        /\ UNCHANGED <<start_position, current_position, current_line, current_column>>
    BY <1>2 DEF vars, lex
  <2>2. MemoryOK'
    BY <2>1 DEF MInv, IInv, MemoryOK, Char
  <2>3. Reading'
    BY <2>1 DEF MInv, IInv, Reading
  <2>4. TokensCover'
    BY <2>1 DEF MInv, IInv, TokensCover, Gap, Ignored, Char
  <2>5. InsideUnlessOpen'
    BY <2>1 DEF MInv, IInv, InsideUnlessOpen
  <2>6. LongestMatch'
    <3>1. LongestMatch' <=> \A k \in DOMAIN tokens' :
                                Longest(tokens[k].type, spans[k].from, spans[k].to)'
      BY DEF LongestMatch, Longest
    <3>2. \A k \in DOMAIN tokens :
              Longest(tokens[k].type, spans[k].from, spans[k].to)'
              <=> Longest(tokens[k].type, spans[k].from, spans[k].to)
      BY <2>1 DEF Longest, Lexeme, Char
    <3>3. QED BY <2>1, <3>1, <3>2, LongestIs DEF MInv
  <2>7. QED BY <2>2, <2>3, <2>4, <2>5, <2>6 DEF MInv, IInv
<1>3. QED BY <1>1, <1>2

(* The lexer's invariant: it is where its last token ends, and the tokens  *)
(* so far are those that the text asks for.                                *)
THEOREM Invariance == Spec => []MInv
<1>1. Init => MInv
  BY InitHolds
<1>2. MInv /\ [Next]_vars => MInv'
  BY NextKeeps
<1>3. QED BY <1>1, <1>2, PTL DEF Spec

(* The lexer's positions stay within the memory, at most two behind it.    *)
THEOREM TypeSafety == Spec => []TypeOK
<1>1. MInv => TypeOK
  <2>1. SUFFICES ASSUME MInv PROVE TypeOK
    OBVIOUS
  <2>2. /\ tokens \in Seq(TokenSet) /\ spans \in Seq(SpanSet) /\ Len(spans) = Len(tokens)
    BY <2>1 DEF MInv, IInv, Reading
  <2>3. \A k \in DOMAIN tokens : tokens[k].type \in Types
    <3>1. \A t \in TokenSet : t.type \in Types
      BY TypesShape DEF TokenSet
    <3>2. QED BY <2>2, <3>1
  <2>4. DOMAIN spans = DOMAIN tokens
    BY <2>2
  <2>5. QED BY <2>1, <2>3, <2>4 DEF MInv, IInv, Reading, TypeOK
<1>2. QED BY <1>1, Invariance, PTL

(* No character of a text is lost: what lies between two tokens is blanks  *)
(* and comments, and only the NUL is the end.                              *)
THEOREM TokensInOrder == Spec => []TokensCover
<1>1. MInv => TokensCover
  BY DEF MInv, IInv
<1>2. QED BY <1>1, Invariance, PTL

(* Every token is the longest that the text allows where it starts.        *)
THEOREM MaximalMunch == Spec => []LongestMatch
<1>1. MInv => LongestMatch
  BY DEF MInv
<1>2. QED BY <1>1, Invariance, PTL

(* The NUL is passed by an unclosed string, and by nothing else.           *)
THEOREM NulPassed == Spec => []InsideUnlessOpen
<1>1. MInv => InsideUnlessOpen
  BY DEF MInv, IInv
<1>2. QED BY <1>1, Invariance, PTL

-----------------------------------------------------------------------------
(* Lines and columns.                                                      *)

LEMMA NoNewlines ==
    /\ Newline \notin Blank /\ Newline \notin WordChar /\ Newline \notin Digit
    /\ Newline \notin BinaryDigit /\ Newline \notin HexDigit /\ Newline \notin Signs
    /\ Newline \notin {NUL, QuoteMark, ";", "0", "b", "x"}
<1>1. Newline \notin Blank
  BY DEF Newline, Blank
<1>2. Newline \notin Digit /\ Newline \notin BinaryDigit /\ Newline \notin HexDigit
  BY DEF Newline, Digit, OctalDigit, BinaryDigit, HexDigit
<1>3. Newline \notin {NUL, QuoteMark, ";", "0", "b", "x"}
  BY DEF Newline, NUL, QuoteMark
<1>4. QED BY <1>1, <1>2, <1>3, Classes DEF WordChar

(* The newlines before a place, its line, and the last of them, or 0.      *)
Newlines(m, i) == {j \in 1 .. i - 1 : CharIn(m, j) = Newline}
LineIn(m, i) == 1 + Cardinality(Newlines(m, i))
LastIn(m, i) == Max(Newlines(m, i) \cup {0})

LEMMA LastInIs ==
    ASSUME NEW m, NEW i \in Nat \ {0}
    PROVE  /\ LastIn(m, i) \in 0 .. i - 1
           /\ LastIn(m, i) # 0 => CharIn(m, LastIn(m, i)) = Newline
           /\ \A j \in 1 .. i - 1 : CharIn(m, j) = Newline => j <= LastIn(m, i)
<1> DEFINE S == Newlines(m, i) \cup {0}
<1>1. S \in SUBSET (0 .. i) /\ S \subseteq 0 .. i - 1 /\ S # {}
  BY DEF Newlines
<1>2. PICK x \in S : \A y \in S : y <= x
  <2> HIDE DEF S
  <2>1. QED BY <1>1, LastPlace
<1>3. \A y \in S : x >= y
  BY <1>1, <1>2
<1>4. Max(S) \in S /\ \A y \in S : Max(S) >= y
  <2> HIDE DEF S
  <2>1. QED BY <1>3 DEF Max
<1>5. LastIn(m, i) = Max(S)
  BY DEF LastIn
<1>6. QED BY <1>1, <1>4, <1>5 DEF Newlines

(* Where there is no newline, lines and the last newline stay.             *)
LEMMA SameLine ==
    ASSUME NEW m, NEW p \in Nat \ {0}, NEW q \in Nat, p <= q,
           \A i \in p .. q - 1 : CharIn(m, i) # Newline
    PROVE  LineIn(m, q) = LineIn(m, p) /\ LastIn(m, q) = LastIn(m, p)
<1>1. Newlines(m, q) = Newlines(m, p)
  BY DEF Newlines
<1>2. QED BY <1>1 DEF LineIn, LastIn

LEMMA FiniteNewlines ==
    ASSUME NEW m, NEW p \in Nat \ {0}
    PROVE  IsFiniteSet(Newlines(m, p)) /\ Cardinality(Newlines(m, p)) \in Nat
<1>1. IsFiniteSet(1 .. p - 1) /\ Newlines(m, p) \in SUBSET (1 .. p - 1)
  BY FS_Interval DEF Newlines
<1>2. IsFiniteSet(Newlines(m, p))
  BY <1>1, FS_Subset
<1>3. QED BY <1>2, FS_CardinalityType

(* Past newlines, there are as many lines more, and the last of them is    *)
(* the last newline.                                                       *)
LEMMA MoreLines ==
    ASSUME NEW m, NEW p \in Nat \ {0}, NEW q \in Nat, p <= q
    PROVE  LET newlines == {i \in p .. q - 1 : CharIn(m, i) = Newline}
           IN  /\ LineIn(m, q) = LineIn(m, p) + Cardinality(newlines)
               /\ newlines # {} =>
                      LastIn(m, q) = CHOOSE i \in newlines : \A j \in newlines : j <= i
<1> DEFINE newlines == {i \in p .. q - 1 : CharIn(m, i) = Newline}
<1>1. Newlines(m, q) = Newlines(m, p) \cup newlines
      /\ Newlines(m, p) \cap newlines = {}
  BY DEF Newlines
<1>2. IsFiniteSet(Newlines(m, p)) /\ IsFiniteSet(newlines)
      /\ Cardinality(Newlines(m, p)) \in Nat /\ Cardinality(newlines) \in Nat
  <2>1. IsFiniteSet(p .. q - 1) /\ newlines \in SUBSET (p .. q - 1)
    BY FS_Interval
  <2>2. IsFiniteSet(newlines)
    BY <2>1, FS_Subset
  <2>3. QED BY <2>2, FiniteNewlines, FS_CardinalityType
<1>3. Cardinality(Newlines(m, q)) = Cardinality(Newlines(m, p)) + Cardinality(newlines)
  <2> HIDE DEF newlines
  <2>1. Cardinality(Newlines(m, p) \cap newlines) = 0
    BY <1>1, FS_EmptySet
  <2>2. Cardinality(Newlines(m, p) \cup newlines)
            = Cardinality(Newlines(m, p)) + Cardinality(newlines)
              - Cardinality(Newlines(m, p) \cap newlines)
    BY <1>2, FS_Union
  <2>3. QED BY <1>1, <1>2, <2>1, <2>2
<1>4. LineIn(m, q) = LineIn(m, p) + Cardinality(newlines)
  <2> HIDE DEF newlines
  <2>1. QED BY <1>2, <1>3 DEF LineIn
<1>5. ASSUME newlines # {}
      PROVE  LastIn(m, q) = CHOOSE i \in newlines : \A j \in newlines : j <= i
  <2>1. /\ LastIn(m, q) \in 0 .. q - 1
        /\ LastIn(m, q) # 0 => CharIn(m, LastIn(m, q)) = Newline
        /\ \A j \in 1 .. q - 1 : CharIn(m, j) = Newline => j <= LastIn(m, q)
    BY LastInIs
  <2>2. PICK x \in newlines : TRUE
    BY <1>5
  <2>3. x \in p .. q - 1 /\ x <= LastIn(m, q)
    BY <2>1, <2>2
  <2>4. LastIn(m, q) \in newlines
    BY <2>1, <2>3
  <2>5. \A j \in newlines : j <= LastIn(m, q)
    BY <2>1
  <2>6. \A i \in newlines : (\A j \in newlines : j <= i) => i = LastIn(m, q)
    BY <2>4, <2>5
  <2> HIDE DEF newlines
  <2>7. QED BY <2>4, <2>5, <2>6
<1>6. QED BY <1>4, <1>5

(* No string or newline lies in what is skipped.                           *)
LEMMA SkippedLine ==
    ASSUME MInv
    PROVE  LineIn(memory, Skipped) = LineIn(memory, current_position)
           /\ LastIn(memory, Skipped) = LastIn(memory, current_position)
           /\ Skipped \in Nat \ {0} /\ Skipped >= current_position
           /\ current_position \in Nat \ {0}
<1>1. /\ Skipped \in Nat \ {0} /\ Skipped >= current_position
      /\ \A i \in current_position .. Skipped - 1 :
             Char(i) # NUL /\ Ignored(i, current_position .. Skipped - 1)
  BY InvSkipped DEF MInv
<1>2. current_position \in Nat \ {0}
  BY Where
<1>3. ASSUME NEW i \in current_position .. Skipped - 1 PROVE Char(i) # Newline
  <2>1. CASE Char(i) \in Blank
    BY <2>1, NoNewlines
  <2>2. CASE \E j \in current_position .. Skipped - 1 :
                 j <= i /\ \A m \in j .. i : Char(m) \notin {Newline, NUL}
    BY <1>1, <1>2, <2>2
  <2>3. QED BY <1>1, <2>1, <2>2 DEF Ignored
<1>4. QED BY <1>1, <1>2, <1>3, SameLine DEF Char

(* The column of a place, when ts are the tokens so far and ss their spans. *)
ColumnIn(m, ts, ss, i) ==
    LET last == LastIn(m, i)
    IN  IF \E k \in DOMAIN ts : ts[k].type = "STR" /\ ss[k].from < last /\ last < ss[k].to
        THEN i - last + 1 ELSE i - last

(* PlacesExact for one token, with the columns of its first and second     *)
(* place, and of its last.                                                 *)
TokenPlaced(m, token, from, to, first, second, last) ==
    CASE token.type = "ERR" -> token.line = LineIn(m, from) /\ token.column = last
      [] token.type = "STR" ->
             IF LineIn(m, from) = LineIn(m, to - 1)
             THEN token.line = LineIn(m, from) /\ token.column = second
             ELSE token.line = LineIn(m, to - 1) /\ token.column = last - token.length
      [] OTHER -> token.line = LineIn(m, from) /\ token.column = first

PlacesIn(m, ts, ss) ==
    \A k \in DOMAIN ts : TokenPlaced(m, ts[k], ss[k].from, ss[k].to,
                                     ColumnIn(m, ts, ss, ss[k].from),
                                     ColumnIn(m, ts, ss, ss[k].from + 1),
                                     ColumnIn(m, ts, ss, ss[k].to - 1))

LEMMA PlacesAre == PlacesExact <=> PlacesIn(memory, tokens, spans)
<1>1. \A l, c, m, d : [line |-> l, column |-> c] = [line |-> m, column |-> d] <=> l = m /\ c = d
  OBVIOUS
<1>2. \A i : LineOf(i) = LineIn(memory, i)
  BY DEF LineOf, LineIn, NewlinesBefore, Newlines, Char
<1>3. \A i : ColumnOf(i) = ColumnIn(memory, tokens, spans, i)
  BY DEF ColumnOf, ColumnIn, InString, LastIn, NewlinesBefore, Newlines, Char
<1>4. QED BY <1>1, <1>2, <1>3 DEF PlacesExact, PlacesIn, TokenPlaced

(* The lexer's own line and column are those of where it is, counted from  *)
(* the text.                                                               *)
Placed == /\ current_line = LineIn(memory, current_position)
          /\ current_column = ColumnIn(memory, tokens, spans, current_position)
          /\ PlacesIn(memory, tokens, spans)

(* The column of i once a token of a type from one place to another is     *)
(* given.                                                                  *)
ColumnAfter(type, from, to, i) ==
    LET last == LastIn(memory, i)
    IN  IF \/ \E k \in DOMAIN tokens : /\ tokens[k].type = "STR"
                                       /\ spans[k].from < last /\ last < spans[k].to
           \/ type = "STR" /\ from < last /\ last < to
        THEN i - last + 1 ELSE i - last

(* The n-th token is given.                                                *)
Adds(token, from, to, n) ==
    /\ n \in Nat /\ n = Len(tokens) + 1
    /\ tokens' = Append(tokens, token)
    /\ spans' = Append(spans, [from |-> from, to |-> to])

LEMMA GivesOne ==
    ASSUME MInv, NEW token, NEW from, NEW to, NEW n, Adds(token, from, to, n)
    PROVE  /\ DOMAIN tokens' = 1 .. n
           /\ DOMAIN tokens = 1 .. n - 1
           /\ tokens'[n] = token
           /\ spans'[n].from = from /\ spans'[n].to = to
           /\ \A k \in DOMAIN tokens :
                  /\ tokens'[k] = tokens[k] /\ spans'[k] = spans[k]
                  /\ spans[k].from \in Nat \ {0} /\ spans[k].to \in Nat
                  /\ spans[k].from <= spans[k].to
                  /\ spans[k].to <= current_position
                  /\ tokens[k].type # "EOF" => spans[k].from < spans[k].to
<1> DEFINE span == [from |-> from, to |-> to]
           S == TokenSet \cup {token}
           T == SpanSet \cup {span}
<1>1. /\ tokens \in Seq(TokenSet) /\ spans \in Seq(SpanSet) /\ Len(spans) = Len(tokens)
      /\ \A k \in DOMAIN spans : spans[k].to <= current_position
      /\ TokensCover
  BY DEF MInv, IInv, Reading
<1>2. tokens \in Seq(S) /\ spans \in Seq(T) /\ token \in S /\ span \in T
  <2>1. TokenSet \subseteq S /\ SpanSet \subseteq T /\ token \in S /\ span \in T
    OBVIOUS
  <2> HIDE DEF S, T
  <2>2. QED BY <1>1, <2>1
<1>3. span.from = from /\ span.to = to
  OBVIOUS
<1> HIDE DEF span, S, T
<1>4. /\ DOMAIN tokens' = 1 .. n /\ DOMAIN tokens = 1 .. n - 1 /\ DOMAIN spans = 1 .. n - 1
      /\ tokens'[n] = token /\ spans'[n] = span
      /\ \A k \in 1 .. n - 1 : tokens'[k] = tokens[k] /\ spans'[k] = spans[k]
  BY <1>1, <1>2 DEF span, Adds
<1>5. ASSUME NEW k \in DOMAIN tokens
      PROVE  /\ spans[k].from \in Nat \ {0} /\ spans[k].to \in Nat
             /\ spans[k].to <= current_position
             /\ spans[k].from <= spans[k].to
             /\ tokens[k].type # "EOF" => spans[k].from < spans[k].to
  <2>0. k \in DOMAIN spans
    BY <1>4
  <2>1. spans[k] \in SpanSet /\ spans[k].to <= current_position
    BY <1>1, <2>0
  <2>2. spans[k].from \in Nat \ {0} /\ spans[k].to \in Nat
    BY <2>1 DEF SpanSet
  <2>3. IF tokens[k].type = "EOF" THEN spans[k].to = spans[k].from
                                  ELSE spans[k].from < spans[k].to
    BY <1>1 DEF TokensCover
  <2>4. QED BY <2>1, <2>2, <2>3
<1>6. \A k \in DOMAIN tokens : tokens'[k] = tokens[k] /\ spans'[k] = spans[k]
  BY <1>4
<1>7. QED BY <1>3, <1>4, <1>5, <1>6

(* The first place. *)
LEMMA FirstPlaced ==
    ASSUME NEW m, NEW ss
    PROVE  LineIn(m, 1) = 1 /\ ColumnIn(m, <<>>, ss, 1) = 1
<1>1. Newlines(m, 1) = {}
  BY DEF Newlines
<1>2. LineIn(m, 1) = 1
  BY <1>1, FS_EmptySet DEF LineIn
<1>3. LastIn(m, 1) = 0
  <2>1. LastIn(m, 1) \in 0 .. 1 - 1
    BY LastInIs
  <2>2. QED BY <2>1
<1>4. QED BY <1>2, <1>3 DEF ColumnIn

(* Giving a token keeps the places of the others, and the lexer's own when *)
(* it counts as the text does.                                             *)
LEMMA GivePlaces ==
    ASSUME MInv, Placed, NEW token, NEW start, NEW from, NEW to \in Nat, NEW line, NEW column,
           Give(token, start, to, line, column), from = Skipped, from <= to,
           line = LineIn(memory, to), column = ColumnAfter(token.type, from, to, to),
           TokenPlaced(memory, token, from, to, ColumnAfter(token.type, from, to, from),
                       ColumnAfter(token.type, from, to, from + 1),
                       ColumnAfter(token.type, from, to, to - 1))
    PROVE  Placed'
<1>1. memory' = memory /\ current_position \in Nat \ {0} /\ from \in Nat \ {0}
      /\ from >= current_position
  BY SkippedLine DEF Give
<1>2. CASE mode = "printing" /\ token.type \in {"ERR", "EOF"}
  <2>1. tokens' = <<>> /\ current_position' = 1 /\ current_line' = 1 /\ current_column' = 1
    BY <1>2 DEF Give, Restart
  <2>2. PlacesIn(memory, tokens', spans')
    BY <2>1 DEF PlacesIn
  <2>3. LineIn(memory, 1) = 1 /\ ColumnIn(memory, tokens', spans', 1) = 1
    BY <2>1, FirstPlaced
  <2>4. QED BY <1>1, <2>1, <2>2, <2>3 DEF Placed
<1>3. CASE ~(mode = "printing" /\ token.type \in {"ERR", "EOF"})
  <2>1. /\ tokens' = Append(tokens, token)
        /\ spans' = Append(spans, [from |-> from, to |-> to])
        /\ current_position' = to /\ current_line' = line /\ current_column' = column
    BY <1>3 DEF Give
  <2>n. PICK n \in Nat : n = Len(tokens) + 1
    BY DEF MInv, IInv, Reading
  <2>2. /\ DOMAIN tokens' = 1 .. n /\ DOMAIN tokens = 1 .. n - 1
        /\ tokens'[n] = token
        /\ spans'[n].from = from /\ spans'[n].to = to
        /\ \A k \in DOMAIN tokens :
               /\ tokens'[k] = tokens[k] /\ spans'[k] = spans[k]
               /\ spans[k].from \in Nat \ {0} /\ spans[k].to \in Nat
               /\ spans[k].from <= spans[k].to
               /\ spans[k].to <= current_position
               /\ tokens[k].type # "EOF" => spans[k].from < spans[k].to
    <3>1. Adds(token, from, to, n)
      BY <2>1, <2>n DEF Adds
    <3>2. QED BY <3>1, GivesOne
  <2>3. n \in 1 .. n /\ \A k \in 1 .. n : k = n \/ k \in 1 .. n - 1
    BY <2>n, <2>2
  <2> DEFINE Col(i) == ColumnIn(memory, tokens, spans, i)
             ColNew(i) == ColumnIn(memory, tokens', spans', i)
  <2>4. ASSUME NEW i PROVE ColNew(i) = ColumnAfter(token.type, from, to, i)
    <3>1. ASSUME NEW last
          PROVE  (\E k \in DOMAIN tokens' : /\ tokens'[k].type = "STR"
                                            /\ spans'[k].from < last /\ last < spans'[k].to)
                 <=> \/ \E k \in DOMAIN tokens : /\ tokens[k].type = "STR"
                                                 /\ spans[k].from < last /\ last < spans[k].to
                     \/ token.type = "STR" /\ from < last /\ last < to
      BY <2>2, <2>3
    <3>2. QED BY <3>1 DEF ColumnIn, ColumnAfter
  <2>5. ASSUME NEW i \in Nat \ {0}, i <= current_position PROVE ColNew(i) = Col(i)
    <3>1. LastIn(memory, i) \in 0 .. i - 1
      BY LastInIs
    <3>2. ~(from < LastIn(memory, i))
      BY <1>1, <2>5, <3>1
    <3>3. ColumnAfter(token.type, from, to, i) = Col(i)
      BY <3>2 DEF ColumnAfter, ColumnIn
    <3>4. QED BY <2>4, <3>3
  <2> HIDE DEF Col, ColNew
  <2>6. ASSUME NEW k \in DOMAIN tokens', NEW f, NEW t, f = spans'[k].from, t = spans'[k].to
        PROVE  TokenPlaced(memory, tokens'[k], f, t, ColNew(f), ColNew(f + 1), ColNew(t - 1))
    <3>1. CASE k = n
      BY <2>2, <2>4, <2>6, <3>1
    <3>2. CASE k # n
      <4>1. k \in DOMAIN tokens
        BY <2>2, <2>3, <3>2
      <4>2. /\ tokens'[k] = tokens[k] /\ f = spans[k].from /\ t = spans[k].to
            /\ f \in Nat \ {0} /\ t \in Nat /\ f <= t /\ t <= current_position
            /\ tokens[k].type # "EOF" => f < t
        BY <2>2, <2>6, <4>1
      <4>3. TokenPlaced(memory, tokens[k], f, t, Col(f), Col(f + 1), Col(t - 1))
        BY <4>1, <4>2 DEF Placed, PlacesIn, Col
      <4>4. ColNew(f) = Col(f)
        BY <1>1, <2>5, <4>2
      <4>5. ASSUME tokens[k].type = "STR" PROVE ColNew(f + 1) = Col(f + 1)
        BY <1>1, <2>5, <4>2, <4>5
      <4>6. ASSUME tokens[k].type \in {"STR", "ERR"} PROVE ColNew(t - 1) = Col(t - 1)
        BY <1>1, <2>5, <4>2, <4>6
      <4>7. QED BY <4>2, <4>3, <4>4, <4>5, <4>6 DEF TokenPlaced
    <3>3. QED BY <3>1, <3>2
  <2>7. PlacesIn(memory, tokens', spans')
    BY <2>6 DEF PlacesIn, ColNew
  <2>8. QED BY <1>1, <2>1, <2>4, <2>7 DEF Placed, ColNew
<1>4. QED BY <1>2, <1>3

(* Where no newline is passed, the line is the lexer's, and columns go on. *)
LEMMA OnLine ==
    ASSUME MInv, Placed, NEW to \in Nat, Skipped <= to,
           \A i \in Skipped .. to - 1 : Char(i) # Newline, NEW type, NEW end
    PROVE  /\ LineIn(memory, Skipped) = current_line /\ LineIn(memory, to) = current_line
           /\ ColumnAfter(type, Skipped, end, to) = ColumnAt(to)
<1> DEFINE p == current_position
           q == Skipped
           last == LastIn(memory, p)
<1>1. /\ q \in Nat \ {0} /\ p \in Nat \ {0} /\ p <= q
      /\ LineIn(memory, q) = LineIn(memory, p) /\ LastIn(memory, q) = last
  BY SkippedLine
<1>2. LineIn(memory, to) = LineIn(memory, q) /\ LastIn(memory, to) = LastIn(memory, q)
  <2> HIDE DEF q
  <2>1. QED BY <1>1, SameLine DEF Char, q
<1>3. last \in 0 .. p - 1
  BY <1>1, LastInIs
<1>4. ~(q < last)
  <2> HIDE DEF q, last
  <2>1. QED BY <1>1, <1>3
<1>5. ColumnAt(to) = current_column + (to - p)
  BY DEF ColumnAt
<1>6. current_column = ColumnIn(memory, tokens, spans, p)
      /\ current_line = LineIn(memory, p)
  BY DEF Placed
<1>7. CASE \E k \in DOMAIN tokens : /\ tokens[k].type = "STR"
                                    /\ spans[k].from < last /\ last < spans[k].to
  <2>1. ColumnAfter(type, q, end, to) = to - last + 1 /\ current_column = p - last + 1
    BY <1>1, <1>2, <1>6, <1>7 DEF ColumnAfter, ColumnIn
  <2> HIDE DEF p, last
  <2>2. QED BY <1>1, <1>2, <1>3, <1>5, <1>6, <2>1
<1>8. CASE ~\E k \in DOMAIN tokens : /\ tokens[k].type = "STR"
                                     /\ spans[k].from < last /\ last < spans[k].to
  <2>1. ColumnAfter(type, q, end, to) = to - last /\ current_column = p - last
    BY <1>1, <1>2, <1>4, <1>6, <1>8 DEF ColumnAfter, ColumnIn
  <2> HIDE DEF p, last
  <2>2. QED BY <1>1, <1>2, <1>3, <1>5, <1>6, <2>1
<1>9. QED BY <1>7, <1>8

LEMMA GiveToPlaces ==
    ASSUME MInv, Placed, NEW type, NEW to \in Nat, GiveTo(type, to),
           type \notin {"STR", "ERR"}, Skipped <= to,
           \A i \in Skipped .. to - 1 : Char(i) # Newline
    PROVE  Placed'
<1> DEFINE from == Skipped
           column == ColumnAt(to)
           token == make_token(type, from, to, current_line, column)
<1>1. Give(token, from, to, current_line, column)
  BY DEF GiveTo
<1>2. /\ from \in Nat \ {0} /\ current_position \in Nat \ {0}
      /\ current_column \in Nat \ {0}
  BY Where
<1>3. /\ LineIn(memory, from) = current_line /\ LineIn(memory, to) = current_line
      /\ ColumnAfter(type, from, to, to) = column
  BY OnLine
<1>4. ColumnAfter(type, from, to, from) = ColumnAt(from)
  <2>1. from \in Nat /\ from <= from /\ \A i \in from .. from - 1 : Char(i) # Newline
    BY <1>2
  <2> HIDE DEF from
  <2>2. QED BY <2>1, OnLine DEF from
<1>5. ColumnAt(from) = column - (to - from)
  <2> HIDE DEF from
  <2>1. QED BY <1>2 DEF ColumnAt
<1>6. token.type = type /\ token.line = current_line /\ token.column = ColumnAt(from)
  BY <1>5 DEF make_token
<1> HIDE DEF from, column, token
<1>7. TokenPlaced(memory, token, from, to, ColumnAfter(token.type, from, to, from),
                  ColumnAfter(token.type, from, to, from + 1),
                  ColumnAfter(token.type, from, to, to - 1))
  BY <1>3, <1>4, <1>6 DEF TokenPlaced
<1>8. from = Skipped /\ from <= to
  BY DEF from
<1>9. QED BY <1>1, <1>3, <1>6, <1>7, <1>8, GivePlaces

LEMMA GiveErrorPlaces ==
    ASSUME MInv, Placed, NEW message, NEW to \in Nat, GiveError(message, to),
           Skipped < to, \A i \in Skipped .. to - 1 : Char(i) # Newline
    PROVE  Placed'
<1> DEFINE from == Skipped
           column == ColumnAt(to)
           token == error_token(message, column)
<1>1. Give(token, from, to, current_line, column)
  BY DEF GiveError
<1>2. /\ from \in Nat \ {0} /\ current_position \in Nat \ {0}
      /\ current_column \in Nat \ {0}
  BY Where
<1>3. /\ LineIn(memory, from) = current_line /\ LineIn(memory, to) = current_line
      /\ ColumnAfter("ERR", from, to, to) = column
  <2>1. Skipped <= to
    BY <1>2
  <2>2. QED BY <2>1, OnLine
<1>4. ColumnAfter("ERR", from, to, to - 1) = ColumnAt(to - 1)
  <2>1. to - 1 \in Nat /\ from <= to - 1 /\ \A i \in from .. (to - 1) - 1 : Char(i) # Newline
    BY <1>2
  <2> DEFINE end == to - 1
  <2> HIDE DEF from, end
  <2>2. QED BY <2>1, OnLine DEF from, end
<1>5. ColumnAt(to - 1) = column - 1
  BY <1>2 DEF ColumnAt
<1>6. token.type = "ERR" /\ token.line = current_line /\ token.column = ColumnAt(to - 1)
  BY <1>5 DEF error_token
<1> HIDE DEF column, token
<1>7. TokenPlaced(memory, token, from, to, ColumnAfter(token.type, from, to, from),
                  ColumnAfter(token.type, from, to, from + 1),
                  ColumnAfter(token.type, from, to, to - 1))
  BY <1>3, <1>4, <1>6 DEF TokenPlaced
<1>8. from = Skipped /\ from <= to
  BY <1>2
<1> HIDE DEF from
<1>9. QED BY <1>1, <1>3, <1>6, <1>7, <1>8, GivePlaces

LEMMA NewlinePlaces == ASSUME MInv, Placed, make_newline PROVE Placed'
<1> DEFINE from == Skipped
           to == from + 1
           token == make_token("NL", from, to, current_line, ColumnAt(to))
<1>1. /\ from \in Nat \ {0} /\ current_position \in Nat \ {0} /\ current_position <= from
      /\ current_column \in Nat \ {0} /\ First = Char(from)
  BY Where
<1>2. to \in Nat /\ to - 1 = from /\ from \in from .. to - 1 /\ from < to
      /\ \A i \in from .. to - 1 : i = from
  <2> HIDE DEF from
  <2>1. QED BY <1>1
<1>3. CASE First = ";" /\ GiveTo("NL", to)
  <2>1. \A i \in from .. to - 1 : Char(i) # Newline
    BY <1>1, <1>2, <1>3, NoNewlines
  <2>2. from <= to
    BY <1>1
  <2> HIDE DEF to
  <2>3. QED BY <1>2, <1>3, <2>1, <2>2, GiveToPlaces
<1>4. CASE First = Newline /\ Give(token, from, to, current_line + 1, 1)
  <2>1. from \in Nat /\ from <= from /\ \A i \in from .. from - 1 : Char(i) # Newline
    BY <1>1
  <2>2. /\ LineIn(memory, from) = current_line
        /\ ColumnAfter("NL", from, to, from) = ColumnAt(from)
    <3> HIDE DEF to
    <3>1. QED BY <2>1, OnLine
  <2> HIDE DEF from
  <2>3. ColumnAt(from) = ColumnAt(to) - (to - from)
    BY <1>1 DEF ColumnAt
  <2> HIDE DEF to
  <2>4. token.type = "NL" /\ token.line = current_line /\ token.column = ColumnAt(from)
    BY <2>3 DEF make_token
  <2>5. CharIn(memory, from) = Newline
    BY <1>1, <1>4 DEF Char
  <2>6. {i \in from .. to - 1 : CharIn(memory, i) = Newline} = {from}
    BY <1>2, <2>5
  <2>7. Cardinality({from}) = 1 /\ {from} # {}
        /\ (CHOOSE i \in {from} : \A j \in {from} : j <= i) = from
    BY <1>1, FS_Singleton
  <2>8. LineIn(memory, to) = current_line + 1 /\ LastIn(memory, to) = from
    BY <1>1, <1>2, <2>2, <2>6, <2>7, MoreLines
  <2>9. \A k \in DOMAIN tokens : ~(from < spans[k].to)
    <3>1. /\ spans \in Seq(SpanSet) /\ DOMAIN spans = DOMAIN tokens
          /\ \A k \in DOMAIN spans : spans[k].to <= current_position
      BY DEF MInv, IInv, Reading
    <3>2. \A k \in DOMAIN spans : spans[k] \in SpanSet
      BY <3>1
    <3>3. \A k \in DOMAIN tokens : spans[k].to \in Nat
      BY <3>1, <3>2 DEF SpanSet
    <3>4. QED BY <1>1, <3>1, <3>3
  <2>10. ColumnAfter("NL", from, to, to) = 1
    BY <1>1, <1>2, <2>8, <2>9 DEF ColumnAfter
  <2> HIDE DEF token
  <2>11. TokenPlaced(memory, token, from, to, ColumnAfter(token.type, from, to, from),
                     ColumnAfter(token.type, from, to, from + 1),
                     ColumnAfter(token.type, from, to, to - 1))
    BY <2>2, <2>4 DEF TokenPlaced
  <2>12. from = Skipped /\ from <= to
    BY <1>1, <1>2 DEF from
  <2>13. QED BY <1>2, <1>4, <2>4, <2>8, <2>10, <2>11, <2>12, GivePlaces
<1>5. QED BY <1>3, <1>4 DEF make_newline

LEMMA StringPlaces == ASSUME MInv, Placed, make_string PROVE Placed'
<1> DEFINE start == Skipped
           from == start + 1
           to == Quote(from)
           end == to + 1
           newlines == {i \in from .. to - 1 : Char(i) = Newline}
           last == CHOOSE i \in newlines : \A j \in newlines : j <= i
           line == current_line + Cardinality(newlines)
           column == IF newlines = {} THEN ColumnAt(to) ELSE 1 + to - last
           token == make_token("STR", from, to, line, column)
           Column(i) == ColumnAfter("STR", start, end, i)
<1>1. First = QuoteMark /\ Give(token, from, end, line, column + 1)
  BY DEF make_string
<1>2. /\ start \in Nat \ {0} /\ current_position \in Nat \ {0} /\ current_position <= start
      /\ current_column \in Nat \ {0} /\ First = Char(start) /\ memory \in Seq(STRING)
      /\ current_line \in Nat
  BY Where
<1>3. from \in Nat \ {0} /\ from - 1 = start
  BY <1>2
<1>4. to \in Nat \ {0} /\ to >= from /\ Char(to) \in {QuoteMark, NUL}
  BY <1>2, <1>3, QuoteShape
<1>5. end \in Nat /\ end - 1 = to /\ from <= to /\ start < from /\ start <= end /\ to < end
  <2> HIDE DEF to
  <2>1. QED BY <1>2, <1>3, <1>4
<1> HIDE DEF start
<1>6. Char(start) # Newline /\ Char(to) # Newline
  BY <1>1, <1>2, <1>4, NoNewlines
<1> HIDE DEF from, to, end
<1>7. LineIn(memory, start) = current_line /\ LineIn(memory, from) = current_line
      /\ Column(from) = ColumnAt(from)
  <2>1. \A i \in start .. from - 1 : Char(i) # Newline
    BY <1>3, <1>6
  <2>2. start <= from /\ from \in Nat
    BY <1>3, <1>5
  <2>3. QED BY <2>1, <2>2, OnLine DEF start
<1>8. /\ LineIn(memory, to) = line
      /\ newlines # {} => LastIn(memory, to) = last
  BY <1>3, <1>4, <1>5, <1>7, MoreLines DEF Char
<1>9. LineIn(memory, end) = line /\ LastIn(memory, end) = LastIn(memory, to)
  <2>1. \A i \in to .. end - 1 : CharIn(memory, i) # Newline
    BY <1>4, <1>5, <1>6 DEF Char
  <2>2. to <= end
    BY <1>4, <1>5
  <2>3. QED BY <1>4, <1>5, <1>8, <2>1, <2>2, SameLine
<1>10. token.type = "STR" /\ token.line = line /\ token.length = to - from
       /\ token.column = column - (to - from)
  BY DEF make_token
<1>11. /\ Cardinality(newlines) \in Nat
       /\ newlines # {} => last \in from .. to - 1
  BY <1>3, <1>4, <1>5, NewlinesIn
<1>12. Column(end) = column + 1
       /\ IF LineIn(memory, start) = LineIn(memory, end - 1)
          THEN line = LineIn(memory, start) /\ Column(start + 1) = column - (to - from)
          ELSE line = LineIn(memory, end - 1) /\ Column(end - 1) = column
  <2>1. CASE newlines = {}
    <3>1. Cardinality(newlines) = 0
      BY <2>1, FS_EmptySet
    <3>2. line = current_line /\ column = ColumnAt(to)
      BY <1>2, <2>1, <3>1
    <3>3. \A i \in start .. end - 1 : i \in from .. to - 1 \/ i = start \/ i = to
      BY <1>2, <1>3, <1>4, <1>5
    <3>4. \A i \in start .. end - 1 : Char(i) # Newline
      BY <1>6, <2>1, <3>3
    <3>5. Column(end) = ColumnAt(end)
      BY <1>5, <3>4, OnLine DEF start
    <3>6. ColumnAt(end) = column + 1 /\ ColumnAt(from) = column - (to - from)
      BY <1>2, <1>3, <1>4, <1>5, <3>2 DEF ColumnAt, end
    <3>7. start + 1 = from
      BY DEF from
    <3> HIDE DEF Column, column, newlines, line
    <3>8. QED BY <1>5, <1>7, <1>8, <3>2, <3>5, <3>6, <3>7
  <2>2. CASE newlines # {}
    <3>1. last \in from .. to - 1
      <4> HIDE DEF last, newlines
      <4>1. QED BY <1>11, <2>2
    <3>2. LastIn(memory, to) = last /\ LastIn(memory, end) = last
      BY <1>8, <1>9, <2>2
    <3>3. column = 1 + to - last
      BY <2>2
    <3>4. Cardinality(newlines) # 0
      <4>1. \A S : IsFiniteSet(S) /\ Cardinality(S) = 0 => S = {}
        BY FS_EmptySet
      <4>2. IsFiniteSet(newlines)
        BY <1>3, <1>4, <1>5, NewlinesIn
      <4> HIDE DEF newlines
      <4>3. QED BY <2>2, <4>1, <4>2
    <3>5. line # current_line
      <4>1. Cardinality(newlines) \in Nat
        BY <1>11
      <4> HIDE DEF newlines
      <4>2. QED BY <1>2, <3>4, <4>1
    <3> HIDE DEF last, line, column, newlines
    <3>6. start < last /\ last < end /\ last < to
      BY <1>2, <1>3, <1>4, <1>5, <3>1
    <3>7. Column(to) = to - last + 1 /\ Column(end) = end - last + 1
      BY <3>2, <3>6 DEF ColumnAfter
    <3>8. Column(to) = column /\ Column(end) = column + 1
      <4> HIDE DEF Column
      <4>1. QED BY <1>3, <1>4, <1>5, <3>1, <3>3, <3>7 DEF end
    <3>9. QED BY <1>5, <1>7, <1>8, <3>5, <3>8
  <2>3. QED BY <2>1, <2>2
<1> HIDE DEF column, line, newlines, token
<1>13. TokenPlaced(memory, token, start, end, ColumnAfter(token.type, start, end, start),
                   ColumnAfter(token.type, start, end, start + 1),
                   ColumnAfter(token.type, start, end, end - 1))
  BY <1>10, <1>12 DEF TokenPlaced
<1>14. start = Skipped
  BY DEF start
<1>15. QED BY <1>1, <1>5, <1>9, <1>10, <1>12, <1>13, <1>14, GivePlaces

LEMMA WordPlaces == ASSUME MInv, Placed, make_ident \/ make_number PROVE Placed'
<1>1. ASSUME NEW chars, NUL \notin chars, Newline \notin chars, NEW type,
             type \notin {"STR", "ERR"}, GiveTo(type, End(Skipped, chars))
      PROVE  Placed'
  <2> DEFINE to == End(Skipped, chars)
  <2>1. to \in Nat /\ Skipped <= to /\ \A i \in Skipped .. to - 1 : Char(i) \in chars
    BY <1>1, Where, EndShape
  <2> HIDE DEF to
  <2>2. \A i \in Skipped .. to - 1 : Char(i) # Newline
    BY <1>1, <2>1
  <2>3. GiveTo(type, to)
    BY <1>1 DEF to
  <2>4. QED BY <1>1, <2>1, <2>2, <2>3, GiveToPlaces
<1>2. CASE make_ident
  <2> DEFINE type == ident_type(Lexeme(Skipped, End(Skipped, WordChar)))
  <2>1. GiveTo(type, End(Skipped, WordChar))
    BY <1>2 DEF make_ident
  <2>2. type \notin {"STR", "ERR"}
    BY TypesShape
  <2>3. NUL \notin WordChar
    BY CharClasses
  <2> HIDE DEF type
  <2>4. QED BY <1>1, <2>1, <2>2, <2>3, NoNewlines
<1>3. CASE make_number
  <2>1. GiveTo("NUM", End(Skipped, Digit))
    BY <1>3 DEF make_number
  <2>2. NUL \notin Digit
    BY CharClasses
  <2>3. QED BY <1>1, <2>1, <2>2, NoNewlines
<1>4. QED BY <1>2, <1>3

LEMMA BasePlaces == ASSUME MInv, Placed, make_based \/ BadBase PROVE Placed'
<1> DEFINE digits == Skipped + 2
           to == End(digits, BaseDigits)
<1>1. Skipped \in Nat \ {0} /\ First = Char(Skipped)
  BY Where
<1>2. Char(Skipped) = "0" /\ Char(Skipped + 1) \in {"b", "x"}
  BY <1>1 DEF make_based, BadBase, HasBase
<1>3. digits \in Nat \ {0} /\ Skipped < digits
      /\ \A i \in Skipped .. digits - 1 : i = Skipped \/ i = Skipped + 1
  BY <1>1
<1>4. \A i \in Skipped .. digits - 1 : Char(i) # Newline
  BY <1>2, <1>3, NoNewlines
<1>5. CASE make_based
  <2>1. GiveTo("NUM", to)
    BY <1>5 DEF make_based
  <2>2. NUL \notin BaseDigits /\ Newline \notin BaseDigits
    BY CharClasses, NoNewlines DEF BaseDigits
  <2>3. to \in Nat /\ digits <= to /\ \A i \in digits .. to - 1 : Char(i) \in BaseDigits
    <3> HIDE DEF digits
    <3>1. QED BY <1>3, <2>2, EndShape
  <2> HIDE DEF to, digits
  <2>4. \A i \in Skipped .. to - 1 : i \in Skipped .. digits - 1 \/ i \in digits .. to - 1
    BY <1>1, <1>3, <2>3
  <2>5. \A i \in Skipped .. to - 1 : Char(i) # Newline
    BY <1>4, <2>2, <2>3, <2>4
  <2>6. Skipped <= to
    BY <1>1, <1>3, <2>3
  <2>7. QED BY <2>1, <2>3, <2>5, <2>6, GiveToPlaces
<1>6. CASE BadBase
  <2>1. GiveError("BAD_BASE", digits)
    BY <1>6 DEF BadBase
  <2> HIDE DEF digits
  <2>2. QED BY <1>3, <1>4, <2>1, GiveErrorPlaces
<1>7. QED BY <1>5, <1>6

LEMMA SignPlaces == ASSUME MInv, Placed, make_sign \/ Unexpected PROVE Placed'
<1> DEFINE to == Skipped + 1
<1>1. Skipped \in Nat \ {0} /\ First = Char(Skipped)
  BY Where
<1>2. First # Newline
  <2>1. make_sign => First \in Signs
    BY DEF make_sign, Signs
  <2>2. Unexpected => First # Newline
    BY DEF Unexpected
  <2>3. QED BY <2>1, <2>2, NoNewlines
<1>3. to \in Nat /\ Skipped < to /\ Skipped <= to /\ \A i \in Skipped .. to - 1 : i = Skipped
  BY <1>1
<1>4. \A i \in Skipped .. to - 1 : Char(i) # Newline
  BY <1>1, <1>2, <1>3
<1>5. CASE make_sign
  <2> DEFINE type == Sign[First]
  <2>1. First \in Signs /\ GiveTo(type, to)
    BY <1>5 DEF make_sign, Signs
  <2>2. type \notin {"STR", "ERR"}
    BY <2>1 DEF Sign, Signs
  <2> HIDE DEF to, type
  <2>3. QED BY <1>3, <1>4, <2>1, <2>2, GiveToPlaces
<1>6. CASE Unexpected
  <2>1. GiveError("UNEXPECTED", to)
    BY <1>6 DEF Unexpected
  <2> HIDE DEF to
  <2>2. QED BY <1>3, <1>4, <2>1, GiveErrorPlaces
<1>7. QED BY <1>5, <1>6

LEMMA EndPlaces == ASSUME MInv, Placed, end_of_text PROVE Placed'
<1>1. GiveTo("EOF", Skipped) /\ Skipped \in Nat /\ Skipped <= Skipped
  BY Where DEF end_of_text
<1>2. \A i \in Skipped .. Skipped - 1 : Char(i) # Newline
  BY <1>1
<1>3. QED BY <1>1, <1>2, GiveToPlaces

LEMMA InitPlaces == ASSUME Init PROVE Placed
<1>1. tokens = <<>> /\ current_position = 1 /\ current_line = 1 /\ current_column = 1
  BY DEF Init
<1>2. PlacesIn(memory, tokens, spans)
  BY <1>1 DEF PlacesIn
<1>3. LineIn(memory, 1) = 1 /\ ColumnIn(memory, tokens, spans, 1) = 1
  BY <1>1, FirstPlaced
<1>4. QED BY <1>1, <1>2, <1>3 DEF Placed

LEMMA NextPlaces == ASSUME MInv, Placed, [Next]_vars PROVE Placed'
<1>1. CASE Next
  BY <1>1, EndPlaces, WordPlaces, BasePlaces, NewlinePlaces, SignPlaces, StringPlaces
     DEF Next, lexer_next_token
<1>2. CASE UNCHANGED vars
  <2>1. /\ memory' = memory /\ tokens' = tokens /\ spans' = spans
        /\ current_position' = current_position /\ current_line' = current_line
        /\ current_column' = current_column
    BY <1>2 DEF vars, lex
  <2>2. QED BY <2>1 DEF Placed
<1>3. QED BY <1>1, <1>2

(* The lexer's line and column are those of where it is, counted from the  *)
(* text, and so are those of all tokens so far.                            *)
THEOREM PlaceInvariance == Spec => [](MInv /\ Placed)
<1>1. Init => MInv /\ Placed
  BY InitHolds, InitPlaces
<1>2. MInv /\ Placed /\ [Next]_vars => (MInv /\ Placed)'
  BY NextKeeps, NextPlaces
<1>3. QED BY <1>1, <1>2, PTL DEF Spec

(* Every token has the line and the column that the text gives it, but for *)
(* what a string with newlines does to the columns behind it.              *)
THEOREM TokenPlaces == Spec => []PlacesExact
<1>1. MInv /\ Placed => PlacesExact
  BY PlacesAre DEF Placed
<1>2. QED BY <1>1, PlaceInvariance, PTL

-----------------------------------------------------------------------------
(* Sums and folds.                                                         *)

(* What holds at 0 and goes from each number to the next, up to a bound,   *)
(* holds up to the bound.                                                  *)
LEMMA Counting ==
    ASSUME NEW n \in Nat, NEW S, 0 \in S, \A i \in 0 .. n - 1 : i \in S => i + 1 \in S
    PROVE  \A i \in 0 .. n : i \in S
<1> DEFINE Bad == {i \in 0 .. n : i \notin S}
<1>1. CASE Bad = {}
  BY <1>1
<1>2. CASE Bad # {}
  <2>0. Bad \in SUBSET Nat
    OBVIOUS
  <2> HIDE DEF Bad
  <2>1. PICK i \in Bad : \A j \in Bad : i <= j
    BY <1>2, <2>0, LeastElement
  <2> USE DEF Bad
  <2>2. i # 0 /\ i - 1 \in 0 .. n - 1 /\ i - 1 \notin Bad
    BY <2>1
  <2> QED
    BY <2>1, <2>2
<1> QED
  BY <1>1, <1>2

(* A finite set can be folded, whatever element is taken first.            *)
Foldable(T, V, base, step, pick) ==
    /\ IsFiniteSet(T) /\ base \in V /\ step \in [T -> [V -> V]]
    /\ \A s \in SUBSET T : s # {} => pick[s] \in s

(* f is such a fold.                                                       *)
Folds(T, V, base, step, pick, f) ==
    /\ f \in [SUBSET T -> V]
    /\ \A s \in SUBSET T :
           f[s] = IF s = {} THEN base ELSE step[pick[s]][f[s \ {pick[s]}]]

(* A fold over a finite set exists, as FoldSet of the community modules    *)
(* supposes when it chooses one.                                           *)
LEMMA FoldExists ==
    ASSUME NEW T, NEW V, NEW base, NEW step, NEW pick, Foldable(T, V, base, step, pick)
    PROVE  \E f : Folds(T, V, base, step, pick, f)
<1>0. /\ IsFiniteSet(T) /\ base \in V /\ step \in [T -> [V -> V]]
      /\ \A s \in SUBSET T : s # {} => pick[s] \in s
  BY DEF Foldable
<1> DEFINE n == Cardinality(T)
           Next1(f, s) == IF s = {} THEN base ELSE step[pick[s]][f[s \ {pick[s]}]]
           Upto1(f, k) == \A s \in SUBSET T : Cardinality(s) <= k => f[s] = Next1(f, s)
           S == {k \in Nat : \E f \in [SUBSET T -> V] : Upto1(f, k)}
<1>1. \A s \in SUBSET T : IsFiniteSet(s) /\ Cardinality(s) \in Nat /\ Cardinality(s) <= n
  BY <1>0, FS_Subset, FS_CardinalityType
<1>2. n \in Nat
  BY <1>0, FS_CardinalityType
<1>3. \A f \in [SUBSET T -> V] : \A s \in SUBSET T : Next1(f, s) \in V
  BY <1>0
<1>4. 0 \in S
  <2> DEFINE f == [s \in SUBSET T |-> base]
  <2>1. \A s \in SUBSET T : Cardinality(s) <= 0 => s = {}
    BY <1>1, FS_EmptySet
  <2>2. f \in [SUBSET T -> V] /\ Upto1(f, 0)
    BY <1>0, <2>1
  <2> QED
    BY <2>2
<1>5. ASSUME NEW k \in 0 .. n - 1, k \in S PROVE k + 1 \in S
  <2>1. PICK f \in [SUBSET T -> V] : Upto1(f, k)
    BY <1>5
  <2> DEFINE g == [s \in SUBSET T |-> Next1(f, s)]
  <2>2. g \in [SUBSET T -> V]
    BY <1>3
  <2>3. ASSUME NEW s \in SUBSET T, Cardinality(s) <= k + 1 PROVE g[s] = Next1(g, s)
    <3>1. CASE s = {}
      BY <3>1
    <3>2. CASE s # {}
      <4> DEFINE t == s \ {pick[s]}
      <4>1. t \in SUBSET T /\ Cardinality(t) <= k
        <5>1. pick[s] \in s /\ IsFiniteSet(s) /\ Cardinality(s) \in Nat
          BY <1>0, <1>1, <3>2
        <5>2. Cardinality(t) = Cardinality(s) - 1
          BY <5>1, FS_RemoveElement
        <5>3. QED BY <2>3, <5>1, <5>2
      <4>2. f[t] = Next1(f, t)
        BY <2>1, <4>1
      <4>3. g[t] = f[t]
        BY <4>1, <4>2
      <4> QED
        BY <3>2, <4>3
    <3> QED
      BY <3>1, <3>2
  <2>4. Upto1(g, k + 1)
    BY <2>3
  <2> HIDE DEF g, Upto1
  <2> QED
    BY <2>2, <2>4
<1> HIDE DEF S
<1>6. n \in S
  BY <1>2, <1>4, <1>5, Counting
<1>7. PICK f \in [SUBSET T -> V] : Upto1(f, n)
  BY <1>6 DEF S
<1>8. \A s \in SUBSET T : f[s] = Next1(f, s)
  BY <1>1, <1>7
<1>9. Folds(T, V, base, step, pick, f)
  BY <1>8 DEF Folds
<1>10. QED BY <1>9

(* A sum over a finite set, whatever element is taken first.               *)
Summing(T, g, f) ==
    [s \in SUBSET T |-> IF s = {} THEN 0
                        ELSE g[CHOOSE x \in s : TRUE] + f[s \ {CHOOSE x \in s : TRUE}]]

(* Every sum of integers over a finite set exists.                         *)
LEMMA SummingExists ==
    ASSUME NEW T, IsFiniteSet(T), NEW g \in [T -> Int]
    PROVE  \E f : f = Summing(T, g, f)
<1> DEFINE pick == [s \in SUBSET T |-> CHOOSE x \in s : TRUE]
           step == [x \in T |-> [v \in Int |-> g[x] + v]]
<1>1. \A s \in SUBSET T : s # {} => pick[s] \in s
  OBVIOUS
<1>2. step \in [T -> [Int -> Int]] /\ \A x \in T, v \in Int : step[x][v] = g[x] + v
  OBVIOUS
<1>3. \A s \in SUBSET T : pick[s] = CHOOSE x \in s : TRUE
  OBVIOUS
<1> HIDE DEF pick, step
<1>4. PICK f : Folds(T, Int, 0, step, pick, f)
  <2>1. Foldable(T, Int, 0, step, pick)
    BY <1>1, <1>2 DEF Foldable
  <2>2. QED BY <2>1, FoldExists
<1>4a. f \in [SUBSET T -> Int] /\ \A s \in SUBSET T :
          f[s] = IF s = {} THEN 0 ELSE step[pick[s]][f[s \ {pick[s]}]]
  BY <1>4 DEF Folds
<1>5. ASSUME NEW s \in SUBSET T, s # {} PROVE f[s] = g[pick[s]] + f[s \ {pick[s]}]
  <2>1. pick[s] \in T /\ s \ {pick[s]} \in SUBSET T
    BY <1>1, <1>5
  <2>2. f[s \ {pick[s]}] \in Int
    BY <1>4a, <2>1
  <2>3. QED BY <1>2, <1>4a, <1>5, <2>1, <2>2
<1>6. f[{}] = 0
  BY <1>4a
<1>7. f = Summing(T, g, f)
  <2>1. \A s \in SUBSET T : f[s] = Summing(T, g, f)[s]
    BY <1>3, <1>5, <1>6 DEF Summing
  <2>2. QED BY <1>4a, <2>1 DEF Summing
<1>8. QED BY <1>7

(* F gives an integer for every part of T; that of a part is the sum of    *)
(* some element and of the rest, or of any element and of the rest.        *)
Sums(T, F) == F \in [SUBSET T -> Int] /\ F[{}] = 0
TakesSome(T, g, F) == \A s \in SUBSET T : s # {} => \E x \in s : F[s] = g[x] + F[s \ {x}]
TakesAny(T, g, F) == \A s \in SUBSET T : \A x \in s : F[s] = g[x] + F[s \ {x}]

(* A sum is an integer, and takes the element that was chosen first.       *)
LEMMA SumIs ==
    ASSUME NEW T, IsFiniteSet(T), NEW g \in [T -> Int], NEW F, F = Summing(T, g, F)
    PROVE  Sums(T, F) /\ TakesSome(T, g, F)
<1> DEFINE pick == [s \in SUBSET T |-> CHOOSE x \in s : TRUE]
<1>1. \A s \in SUBSET T : s # {} => pick[s] \in s
  OBVIOUS
<1>3. \A s \in SUBSET T : pick[s] = CHOOSE x \in s : TRUE
  OBVIOUS
<1> HIDE DEF pick
<1>8. F = [s \in SUBSET T |-> IF s = {} THEN 0
                              ELSE g[CHOOSE x \in s : TRUE] + F[s \ {CHOOSE x \in s : TRUE}]]
  BY DEF Summing
<1>9. F[{}] = 0
  BY <1>8
<1>10. ASSUME NEW s \in SUBSET T, s # {}
       PROVE  F[s] = g[pick[s]] + F[s \ {pick[s]}]
  BY <1>3, <1>8, <1>10 DEF Summing
<1>11. F \in [SUBSET T -> Int]
  <2> DEFINE S == {k \in Nat : \A s \in SUBSET T : Cardinality(s) <= k => F[s] \in Int}
             n == Cardinality(T)
  <2>1. n \in Nat /\ \A s \in SUBSET T : IsFiniteSet(s) /\ Cardinality(s) \in Nat
                                         /\ Cardinality(s) <= n
    BY FS_Subset, FS_CardinalityType
  <2>2. 0 \in S
    <3>1. \A s \in SUBSET T : Cardinality(s) <= 0 => s = {}
      BY <2>1, FS_EmptySet
    <3>2. ASSUME NEW s \in SUBSET T, Cardinality(s) <= 0 PROVE F[s] \in Int
      <4>1. s = {}
        BY <3>1, <3>2
      <4>2. QED BY <1>9, <4>1
    <3>3. QED BY <3>2
  <2>3. ASSUME NEW k \in 0 .. n - 1, k \in S PROVE k + 1 \in S
    <3>1. ASSUME NEW s \in SUBSET T, Cardinality(s) <= k + 1 PROVE F[s] \in Int
      <4>1. CASE s = {}
        BY <1>9, <4>1
      <4>2. CASE s # {}
        <5> DEFINE t == s \ {pick[s]}
        <5>1. t \in SUBSET T /\ Cardinality(t) <= k /\ pick[s] \in T
          BY <1>1, <2>1, <3>1, <4>2, FS_RemoveElement
        <5>2. F[t] \in Int
          BY <2>3, <5>1
        <5>3. F[s] = g[pick[s]] + F[t]
          BY <1>10, <4>2
        <5> HIDE DEF t
        <5>4. QED BY <5>1, <5>2, <5>3
      <4>3. QED BY <4>1, <4>2
    <3>2. QED BY <3>1
  <2> HIDE DEF S, n
  <2>4. n \in S
    <3>1. \A i \in 0 .. n : i \in S
      BY <2>1, <2>2, <2>3, Counting
    <3>2. QED BY <2>1, <3>1
  <2>5. \A s \in SUBSET T : F[s] \in Int
    BY <2>1, <2>4 DEF S
  <2>6. \E S0 : F = [s \in SUBSET T |-> F[s]]
    BY <1>8
  <2>7. QED BY <2>5, <2>6
<1>12. QED BY <1>1, <1>9, <1>10, <1>11 DEF Sums, TakesSome

(* A sum may be taken in any order.                                        *)
LEMMA SumOver ==
    ASSUME NEW T, IsFiniteSet(T), NEW g \in [T -> Int], NEW F, F = Summing(T, g, F)
    PROVE  Sums(T, F) /\ TakesAny(T, g, F)
<1> DEFINE Free(s) == \A x \in s : F[s] = g[x] + F[s \ {x}]
           S == {k \in Nat : \A s \in SUBSET T : Cardinality(s) <= k => Free(s)}
           n == Cardinality(T)
<1>1. /\ F \in [SUBSET T -> Int] /\ F[{}] = 0
      /\ \A s \in SUBSET T : s # {} => \E x \in s : F[s] = g[x] + F[s \ {x}]
  <2>1. Sums(T, F) /\ TakesSome(T, g, F)
    BY SumIs
  <2>2. QED BY <2>1 DEF Sums, TakesSome
<1>2. n \in Nat /\ \A s \in SUBSET T : IsFiniteSet(s) /\ Cardinality(s) \in Nat
                                       /\ Cardinality(s) <= n
  BY FS_Subset, FS_CardinalityType
<1>3. 0 \in S
  <2>1. \A s \in SUBSET T : Cardinality(s) <= 0 => s = {}
    BY <1>2, FS_EmptySet
  <2>2. QED BY <2>1
<1>4. ASSUME NEW k \in 0 .. n - 1, k \in S PROVE k + 1 \in S
  <2>1. ASSUME NEW s \in SUBSET T, Cardinality(s) <= k + 1, NEW x \in s
        PROVE  F[s] = g[x] + F[s \ {x}]
    <3>2. PICK y \in s : F[s] = g[y] + F[s \ {y}]
      BY <1>1, <2>1
    <3>3. CASE x = y
      BY <3>2, <3>3
    <3>4. CASE x # y
      <4>1. /\ s \ {x} \in SUBSET T /\ Cardinality(s \ {x}) <= k /\ y \in s \ {x}
            /\ s \ {y} \in SUBSET T /\ Cardinality(s \ {y}) <= k /\ x \in s \ {y}
        BY <1>2, <2>1, <3>4, FS_RemoveElement
      <4>2. Free(s \ {x}) /\ Free(s \ {y})
        BY <1>4, <4>1
      <4>3. (s \ {x}) \ {y} = (s \ {y}) \ {x}
        OBVIOUS
      <4>4. PICK t \in SUBSET T : t = (s \ {x}) \ {y}
        OBVIOUS
      <4>5. F[s \ {x}] = g[y] + F[t] /\ F[s \ {y}] = g[x] + F[t]
        BY <4>1, <4>2, <4>3, <4>4
      <4>6. F[t] \in Int /\ g[x] \in Int /\ g[y] \in Int
        BY <1>1
      <4>7. QED BY <3>2, <4>5, <4>6
    <3>5. QED BY <3>3, <3>4
  <2>2. QED BY <2>1
<1> HIDE DEF S, n
<1>5. \A i \in 0 .. n : i \in S
  BY <1>2, <1>3, <1>4, Counting
<1>6. n \in S
  BY <1>2, <1>5
<1>7. \A s \in SUBSET T : Free(s)
  BY <1>2, <1>6 DEF S
<1>8. QED BY <1>1, <1>7 DEF Sums, TakesAny

-----------------------------------------------------------------------------
(* The value of digits is the sum over their places.                       *)
Term(digits, base) == [i \in DOMAIN digits |-> DigitValue(digits[i]) * base ^ (Len(digits) - i)]

(* ValueIn is the sum of the terms of n digits.                            *)
IsSum(n, digits, base) ==
    \E F : /\ Sums(1 .. n, F) /\ TakesAny(1 .. n, Term(digits, base), F)
           /\ ValueIn(digits, base) = F[1 .. n]

(* ValueIn is a sum wherever the powers of the base are integers.          *)
LEMMA ValueSum ==
    ASSUME NEW n \in Nat, NEW digits, DOMAIN digits = 1 .. n, NEW base,
           Term(digits, base) \in [1 .. n -> Int]
    PROVE  IsSum(n, digits, base)
<1> DEFINE T == 1 .. n
           g == Term(digits, base)
           Spells(f) == f = [s \in SUBSET DOMAIN digits |->
               IF s = {} THEN 0
               ELSE LET x == CHOOSE x \in s : TRUE
                    IN  DigitValue(digits[x]) * base ^ (Len(digits) - x) + f[s \ {x}]]
           F == CHOOSE f : Spells(f)
<1>1. ValueIn(digits, base) = F[DOMAIN digits]
  BY DEF ValueIn, MapThenSumSet, MapThenFoldSet
<1>2. IsFiniteSet(T) /\ g \in [T -> Int]
  BY FS_Interval
<1>3. ASSUME NEW f PROVE Spells(f) <=> f = Summing(T, g, f)
  <2>1. \A x \in T : g[x] = DigitValue(digits[x]) * base ^ (Len(digits) - x)
    BY DEF Term
  <2>2. ASSUME NEW s \in SUBSET T, s # {}
        PROVE  LET x == CHOOSE x \in s : TRUE
               IN  DigitValue(digits[x]) * base ^ (Len(digits) - x) + f[s \ {x}]
                   = g[x] + f[s \ {x}]
    <3>1. PICK y \in T : y = CHOOSE x \in s : TRUE
      BY <2>2
    <3> HIDE DEF g
    <3>2. DigitValue(digits[y]) * base ^ (Len(digits) - y) = g[y]
      BY <2>1
    <3>3. QED BY <3>1, <3>2, Zenon
  <2> HIDE DEF g
  <2> DEFINE A(s) == IF s = {} THEN 0
                     ELSE LET x == CHOOSE x \in s : TRUE
                          IN  DigitValue(digits[x]) * base ^ (Len(digits) - x) + f[s \ {x}]
             B(s) == IF s = {} THEN 0
                     ELSE g[CHOOSE x \in s : TRUE] + f[s \ {CHOOSE x \in s : TRUE}]
  <2>3. \A s \in SUBSET T : A(s) = B(s)
    BY <2>2, Zenon
  <2>4. Spells(f) <=> f = [s \in SUBSET T |-> A(s)]
    BY Zenon
  <2>5. f = Summing(T, g, f) <=> f = [s \in SUBSET T |-> B(s)]
    BY Zenon DEF Summing
  <2> HIDE DEF A, B, Spells
  <2>6. [s \in SUBSET T |-> A(s)] = [s \in SUBSET T |-> B(s)]
    BY <2>3
  <2>7. QED BY <2>4, <2>5, <2>6
<1> HIDE DEF T, g, Spells
<1>4. PICK f : f = Summing(T, g, f)
  BY <1>2, SummingExists
<1>5. Spells(F)
  BY <1>3, <1>4
<1> HIDE DEF F
<1>6. F = Summing(T, g, F)
  BY <1>3, <1>5
<1>7. Sums(T, F) /\ TakesAny(T, g, F)
  BY <1>2, <1>6, SumOver
<1>8. QED BY <1>1, <1>7 DEF T, g, IsSum

(* strtoll's number, digit by digit.                                       *)
Shift(v, d, radix, limit) == IF v * radix + d > limit THEN limit ELSE v * radix + d

(* The number strtoll makes of digits, as Strtoll writes it.               *)
Reads(digits, radix, limit) ==
    LET shift(v, d) == IF v * radix + d > limit THEN limit ELSE v * radix + d
    IN  FoldLeft(shift, 0, digits)

(* f has what strtoll has made of each prefix.                             *)
ShiftsIn(n, digits, radix, limit, f) ==
    /\ f[{}] = 0
    /\ \A k \in 0 .. n - 1 : f[1 .. k + 1] = Shift(f[1 .. k], digits[k + 1], radix, limit)

(* The number strtoll makes is what it has made of the whole.              *)
IsShifts(n, digits, radix, limit) ==
    \E f : ShiftsIn(n, digits, radix, limit, f) /\ Reads(digits, radix, limit) = f[1 .. n]

(* FoldLeft takes the last place of a prefix.                              *)
LEMMA LastOfPrefix ==
    ASSUME NEW k \in Nat
    PROVE  Max(1 .. k + 1) = k + 1 /\ (1 .. k + 1) \ {k + 1} = 1 .. k /\ 1 .. k + 1 # {}
  BY DEF Max

(* strtoll shifts one digit after the other into its number.               *)
LEMMA ReadsShifts ==
    ASSUME NEW n \in Nat, NEW digits \in [1 .. n -> Nat], NEW radix \in Nat, NEW limit \in Nat
    PROVE  IsShifts(n, digits, radix, limit)
<1> DEFINE T == 1 .. n
           Spells(f) == f = [s \in SUBSET DOMAIN digits |->
               IF s = {} THEN 0
               ELSE LET x == Max(s)
                    IN  IF f[s \ {x}] * radix + digits[x] > limit THEN limit
                        ELSE f[s \ {x}] * radix + digits[x]]
           F == CHOOSE f : Spells(f)
           pick == [s \in SUBSET T |-> Max(s)]
           step == [x \in T |-> [v \in Nat |-> Shift(v, digits[x], radix, limit)]]
<1>1. Reads(digits, radix, limit) = F[DOMAIN digits]
  BY DEF Reads, FoldLeft, MapThenFoldSet
<1>2. Foldable(T, Nat, 0, step, pick)
  <2>1. IsFiniteSet(T)
    BY FS_Interval
  <2>2. step \in [T -> [Nat -> Nat]]
    <3>1. \A x \in T, v \in Nat : Shift(v, digits[x], radix, limit) \in Nat
      BY DEF Shift
    <3>2. QED BY <3>1
  <2>3. ASSUME NEW s \in SUBSET T, s # {} PROVE pick[s] \in s
    <3>1. s \in SUBSET (0 .. n)
      OBVIOUS
    <3>2. PICK x \in s : \A y \in s : y <= x
      BY <2>3, <3>1, LastPlace
    <3>3. \A y \in s : x >= y
      BY <3>2
    <3>4. Max(s) \in s
      BY <3>3 DEF Max
    <3>5. QED BY <3>4
  <2> HIDE DEF T, step, pick
  <2>4. QED BY <2>1, <2>2, <2>3 DEF Foldable
<1>3. PICK f : Folds(T, Nat, 0, step, pick, f)
  <2> HIDE DEF T, step, pick
  <2>1. QED BY <1>2, FoldExists
<1>4. Spells(f)
  <2>1. f \in [SUBSET T -> Nat]
    BY <1>3 DEF Folds
  <2>2. ASSUME NEW s \in SUBSET T, s # {}
        PROVE  f[s] = Shift(f[s \ {Max(s)}], digits[Max(s)], radix, limit)
    <3>1. pick[s] = Max(s) /\ pick[s] \in T
      BY <1>2, <2>2 DEF Foldable
    <3>2. f[s \ {pick[s]}] \in Nat
      BY <2>1
    <3>3. f[s] = step[pick[s]][f[s \ {pick[s]}]]
      BY <1>3, <2>2 DEF Folds
    <3>4. \A x \in T, v \in Nat : step[x][v] = Shift(v, digits[x], radix, limit)
      OBVIOUS
    <3> HIDE DEF pick, step
    <3>5. QED BY <3>1, <3>2, <3>3, <3>4
  <2>3. f[{}] = 0
    BY <1>3 DEF Folds
  <2>4. QED BY <2>1, <2>2, <2>3 DEF Shift
<1>5. Spells(F)
  <2> HIDE DEF Spells
  <2>1. QED BY <1>4
<1> HIDE DEF F
<1>6. F[{}] = 0
  BY <1>5
<1>7. ASSUME NEW k \in 0 .. n - 1
      PROVE  F[1 .. k + 1] = Shift(F[1 .. k], digits[k + 1], radix, limit)
  <2>1. Max(1 .. k + 1) = k + 1 /\ (1 .. k + 1) \ {k + 1} = 1 .. k /\ 1 .. k + 1 # {}
    <3>1. k \in Nat
      OBVIOUS
    <3>2. QED BY <3>1, LastOfPrefix
  <2>2. 1 .. k + 1 \in SUBSET DOMAIN digits
    OBVIOUS
  <2>3. \A s \in SUBSET DOMAIN digits : s # {} =>
            F[s] = Shift(F[s \ {Max(s)}], digits[Max(s)], radix, limit)
    BY <1>5 DEF Shift
  <2> HIDE DEF Spells
  <2>4. QED BY <2>1, <2>2, <2>3
<1>8. QED BY <1>1, <1>6, <1>7 DEF ShiftsIn, IsShifts

-----------------------------------------------------------------------------
(* What a digit counts.                                                    *)
Counts(c, v) ==
    \/ c = <<"0", "1", "2", "3", "4", "5", "6", "7", "8", "9", "a", "b", "c", "d", "e", "f">>[v + 1]
    \/ v > 9 /\ c = <<"A", "B", "C", "D", "E", "F">>[v - 9]

(* A hexadecimal digit counts from 0 to 15.                                *)
LEMMA DigitCounts == \A c \in HexDigit : DigitValue(c) \in 0 .. 15
<1>1. /\ Counts("0", 0) /\ Counts("1", 1) /\ Counts("2", 2) /\ Counts("3", 3)
      /\ Counts("4", 4) /\ Counts("5", 5) /\ Counts("6", 6) /\ Counts("7", 7)
      /\ Counts("8", 8) /\ Counts("9", 9)
  BY DEF Counts
<1>2. /\ Counts("a", 10) /\ Counts("b", 11) /\ Counts("c", 12) /\ Counts("d", 13)
      /\ Counts("e", 14) /\ Counts("f", 15)
  BY DEF Counts
<1>3. /\ Counts("A", 10) /\ Counts("B", 11) /\ Counts("C", 12) /\ Counts("D", 13)
      /\ Counts("E", 14) /\ Counts("F", 15)
  BY DEF Counts
<1>4. ASSUME NEW c \in HexDigit PROVE \E v \in 0 .. 15 : Counts(c, v)
  <2>1. CASE c \in Digit
    BY <1>1, <2>1 DEF Digit, OctalDigit, BinaryDigit
  <2>2. CASE c \notin Digit
    BY <1>2, <1>3, <2>2 DEF HexDigit
  <2>3. QED BY <2>1, <2>2
<1>5. \A c : DigitValue(c) = CHOOSE v \in 0 .. 15 : Counts(c, v)
  BY DEF DigitValue, Counts
<1>6. QED BY <1>4, <1>5

(* The digit 0 counts 0.                                                   *)
LEMMA ZeroCounts == DigitValue("0") = 0
<1>1. Counts("0", 0)
  BY DEF Counts
<1>2. ASSUME NEW v \in 1 .. 15 PROVE ~Counts("0", v)
  <2>1. v \in {1, 2, 3, 4, 5, 6, 7, 8, 9, 10, 11, 12, 13, 14, 15}
    OBVIOUS
  <2>2. QED BY <2>1 DEF Counts
<1>3. DigitValue("0") = CHOOSE v \in 0 .. 15 : Counts("0", v)
  BY DEF DigitValue, Counts
<1>4. PICK v \in 0 .. 15 : v = DigitValue("0") /\ Counts("0", v)
  BY <1>1, <1>3
<1>5. QED BY <1>2, <1>4

(* The powers of a base that n digits need.                                *)
Powers(b, n) == b ^ 0 = 1 /\ \A i \in 1 .. n : b ^ i \in Nat \ {0} /\ b ^ i = b * b ^ (i - 1)

(* A number that stays at its limit, as strtoll's does.                    *)
AtMost(v, limit) == IF v > limit THEN limit ELSE v

(* Multiplying by a base, and what one more digit does.                    *)
Grows(b, h, d, p, limit) ==
    /\ h * b + d \in Nat
    /\ d * p + h * (b * p) = (h * b + d) * p
    /\ Shift(AtMost(h, limit), d, b, limit) = AtMost(h * b + d, limit)

(* One more digit shifts a number by its base; a number at the limit stays *)
(* there.                                                                  *)
LEMMA OneMore ==
    ASSUME NEW b \in {2, 8, 10, 16}, NEW h \in Nat, NEW d \in 0 .. 15, NEW p \in Nat,
           NEW limit \in Nat
    PROVE  Grows(b, h, d, p, limit)
<1>1. h * b + d \in Nat
  OBVIOUS
<1>2. d * p + h * (b * p) = (h * b + d) * p
  OBVIOUS
<1>3. Shift(AtMost(h, limit), d, b, limit) = AtMost(h * b + d, limit)
  BY DEF Shift, AtMost
<1>4. QED BY <1>1, <1>2, <1>3 DEF Grows

(* strtoll makes the value of digits, if it fits.                          *)
Digits(n, digits) ==
    DOMAIN digits = 1 .. n /\ Len(digits) = n /\ \A i \in 1 .. n : digits[i] \in HexDigit

(* strtoll's number is the value of the digits or the limit.               *)
ReadsValue(n, digits, b, limit) ==
    /\ ValueIn(digits, b) \in Nat
    /\ Reads([i \in 1 .. n |-> DigitValue(digits[i])], b, limit)
       = AtMost(ValueIn(digits, b), limit)

(* A prefix of digits, read by strtoll up to the limit, is the sum over    *)
(* its places up to the limit.                                             *)
LEMMA NumberRead ==
    ASSUME NEW n \in Nat, NEW digits, Digits(n, digits),
           NEW b \in {2, 8, 10, 16}, Powers(b, n), NEW limit \in Nat
    PROVE  ReadsValue(n, digits, b, limit)
<1>0. DOMAIN digits = 1 .. n /\ Len(digits) = n /\ \A i \in 1 .. n : digits[i] \in HexDigit
  BY DEF Digits
<1> DEFINE d == [i \in 1 .. n |-> DigitValue(digits[i])]
           g == Term(digits, b)
<1>1. \A i \in 1 .. n : d[i] \in 0 .. 15
  BY <1>0, DigitCounts
<1>2. \A i \in 0 .. n : b ^ i \in Nat
  BY DEF Powers
<1>3. \A i \in 1 .. n : g[i] = d[i] * b ^ (n - i)
  BY <1>0 DEF Term
<1>4. g \in [1 .. n -> Int]
  <2>1. DOMAIN g = 1 .. n /\ g = [i \in 1 .. n |-> g[i]]
    BY <1>0 DEF Term
  <2> HIDE DEF g, d
  <2>2. ASSUME NEW i \in 1 .. n PROVE g[i] \in Int
    <3>1. d[i] \in Nat /\ n - i \in 0 .. n
      BY <1>1
    <3>2. b ^ (n - i) \in Nat
      BY <1>2, <3>1
    <3>3. QED BY <1>3, <3>1, <3>2
  <2>3. QED BY <2>1, <2>2
<1>5. PICK F : /\ Sums(1 .. n, F) /\ TakesAny(1 .. n, g, F)
               /\ ValueIn(digits, b) = F[1 .. n]
  <2>1. IsSum(n, digits, b)
    BY <1>0, <1>4, ValueSum
  <2>2. QED BY <2>1 DEF IsSum
<1>6. d \in [1 .. n -> Nat]
  BY <1>1
<1>7. PICK f : /\ ShiftsIn(n, d, b, limit, f)
               /\ Reads(d, b, limit) = f[1 .. n]
  <2>1. b \in Nat
    OBVIOUS
  <2> HIDE DEF d
  <2>2. IsShifts(n, d, b, limit)
    BY <1>6, <2>1, ReadsShifts
  <2>3. QED BY <2>2 DEF IsShifts
<1> HIDE DEF d, g
<1> DEFINE Agree(k) == \E h \in Nat : /\ F[1 .. k] = h * b ^ (n - k)
                                      /\ f[1 .. k] = AtMost(h, limit)
           S == {k \in 0 .. n : Agree(k)}
<1>8. 0 \in S
  <2>1. F[1 .. 0] = 0 /\ f[1 .. 0] = 0
    <3>1. 1 .. 0 = {}
      OBVIOUS
    <3>2. QED BY <1>5, <1>7, <3>1 DEF Sums, ShiftsIn
  <2>2. 0 * b ^ (n - 0) = 0 /\ AtMost(0, limit) = 0
    <3>1. b ^ (n - 0) \in Nat
      BY <1>2
    <3>2. QED BY <3>1 DEF AtMost
  <2>3. Agree(0)
    BY <2>1, <2>2
  <2>4. QED BY <2>3
<1>9. ASSUME NEW k \in 0 .. n - 1, k \in S PROVE k + 1 \in S
  <2>1. PICK h \in Nat : /\ F[1 .. k] = h * b ^ (n - k)
                         /\ f[1 .. k] = AtMost(h, limit)
    BY <1>9
  <2>2. PICK p \in Nat : p = b ^ (n - (k + 1))
    <3>1. n - (k + 1) \in 0 .. n
      OBVIOUS
    <3>2. QED BY <1>2, <3>1
  <2>3. b ^ (n - k) = b * p
    <3>1. n - k \in 1 .. n /\ n - k - 1 = n - (k + 1)
      OBVIOUS
    <3>2. b ^ (n - k) = b * b ^ (n - k - 1)
      BY <3>1 DEF Powers
    <3>3. QED BY <2>2, <3>1, <3>2
  <2>4. PICK c \in 0 .. 15 : c = d[k + 1]
    BY <1>1
  <2>5. F[1 .. k + 1] = c * p + F[1 .. k]
    <3>1. k \in Nat /\ k + 1 \in 1 .. k + 1 /\ k + 1 \in 1 .. n /\ 1 .. k + 1 \in SUBSET (1 .. n)
      OBVIOUS
    <3>2. (1 .. k + 1) \ {k + 1} = 1 .. k
      BY <3>1, LastOfPrefix
    <3>3. F[1 .. k + 1] = g[k + 1] + F[(1 .. k + 1) \ {k + 1}]
      BY <1>5, <3>1 DEF TakesAny
    <3>4. g[k + 1] = c * p
      BY <1>3, <2>2, <2>4, <3>1
    <3>5. QED BY <3>2, <3>3, <3>4
  <2>6. f[1 .. k + 1] = Shift(AtMost(h, limit), c, b, limit)
    BY <1>7, <2>1, <2>4 DEF ShiftsIn
  <2>7. /\ h * b + c \in Nat
        /\ c * p + h * (b * p) = (h * b + c) * p
        /\ Shift(AtMost(h, limit), c, b, limit) = AtMost(h * b + c, limit)
    <3>1. Grows(b, h, c, p, limit)
      BY OneMore
    <3>2. QED BY <3>1 DEF Grows
  <2>8. F[1 .. k + 1] = (h * b + c) * b ^ (n - (k + 1)) /\ f[1 .. k + 1] = AtMost(h * b + c, limit)
    <3>1. F[1 .. k + 1] = (h * b + c) * p
      BY <2>1, <2>3, <2>5, <2>7
    <3>2. QED BY <2>2, <2>6, <2>7, <3>1
  <2>9. QED BY <2>7, <2>8
<1> HIDE DEF S, Agree
<1>10. \A i \in 0 .. n : i \in S
  BY <1>8, <1>9, Counting
<1>11. Agree(n)
  BY <1>10 DEF S
<1>12. PICK h \in Nat : F[1 .. n] = h * b ^ (n - n) /\ f[1 .. n] = AtMost(h, limit)
  BY <1>11 DEF Agree
<1>13. F[1 .. n] = h
  <2>1. b ^ (n - n) = 1
    BY DEF Powers
  <2>2. QED BY <1>12, <2>1
<1>14. QED BY <1>5, <1>7, <1>12, <1>13 DEF d, ReadsValue

(* The value of the single digit 0.                                        *)
LEMMA ZeroValue ==
    ASSUME NEW digits, DOMAIN digits = 1 .. 1, Len(digits) = 1, digits[1] = "0",
           NEW b \in {8, 10}, b ^ 0 = 1
    PROVE  ValueIn(digits, b) = 0
<1> DEFINE g == Term(digits, b)
<1>1. g = [i \in 1 .. 1 |-> 0]
  <2>1. \A i \in 1 .. 1 : i = 1
    OBVIOUS
  <2>2. g[1] = 0
    <3>1. g[1] = DigitValue(digits[1]) * b ^ (1 - 1)
      BY DEF Term
    <3>2. b ^ (1 - 1) = 1
      OBVIOUS
    <3>3. QED BY <3>1, <3>2, ZeroCounts
  <2>3. DOMAIN g = 1 .. 1 /\ g = [i \in 1 .. 1 |-> g[i]]
    BY DEF Term
  <2>4. QED BY <2>1, <2>2, <2>3
<1>2. g \in [1 .. 1 -> Int]
  BY <1>1
<1>3. PICK F : /\ Sums(1 .. 1, F) /\ TakesAny(1 .. 1, g, F)
               /\ ValueIn(digits, b) = F[1 .. 1]
  <2> HIDE DEF g
  <2>1. 1 \in Nat
    OBVIOUS
  <2>2. IsSum(1, digits, b)
    BY <1>2, <2>1, ValueSum DEF g
  <2>3. QED BY <2>2 DEF IsSum, g
<1>4. F[1 .. 1] = g[1] + F[(1 .. 1) \ {1}] /\ (1 .. 1) \ {1} = {}
  BY <1>3 DEF TakesAny
<1>5. g[1] = 0 /\ F[{}] = 0
  BY <1>1, <1>3 DEF Sums
<1> HIDE DEF g
<1>6. QED BY <1>3, <1>4, <1>5

-----------------------------------------------------------------------------
(* strtoll.                                                                *)
Space == {" ", "\t", "\n", "\r"}

(* The end of a span is the first character that is not of it.             *)
LEMMA SpanIs ==
    ASSUME NEW m \in Seq(STRING), NEW p \in Nat \ {0}, NEW chars, NUL \notin chars,
           NEW to \in Nat, p <= to, CharIn(m, to) \notin chars,
           \A i \in p .. to - 1 : CharIn(m, i) \in chars
    PROVE  SpanEnd(m, p, chars) = to
<1> DEFINE q == SpanEnd(m, p, chars)
<1>1. /\ q \in Nat /\ q >= p /\ CharIn(m, q) \notin chars
      /\ \A i \in p .. q - 1 : CharIn(m, i) \in chars
  BY SpanShape
<1> HIDE DEF q
<1>2. ~(q < to)
  BY <1>1
<1>3. ~(to < q)
  BY <1>1
<1>4. QED BY <1>1, <1>2, <1>3 DEF q

(* How the classes of digits lie in each other.                            *)
LEMMA DigitClasses ==
    /\ NUL \notin Space /\ NUL \notin OctalDigit
    /\ BinaryDigit \subseteq OctalDigit /\ OctalDigit \subseteq Digit /\ Digit \subseteq HexDigit
    /\ HexDigit \cap Space = {} /\ "+" \notin HexDigit /\ "-" \notin HexDigit
    /\ "0" \in BinaryDigit
<1>1. NUL \notin Space /\ NUL \notin OctalDigit /\ "0" \in BinaryDigit
  BY DEF NUL, Space, OctalDigit, BinaryDigit
<1>2. BinaryDigit \subseteq OctalDigit /\ OctalDigit \subseteq Digit /\ Digit \subseteq HexDigit
  BY DEF Digit, HexDigit, OctalDigit
<1>3. HexDigit \cap Space = {}
  BY DEF HexDigit, Digit, OctalDigit, BinaryDigit, Space
<1>4. "+" \notin HexDigit /\ "-" \notin HexDigit
  BY DEF HexDigit, Digit, OctalDigit, BinaryDigit
<1>5. QED BY <1>1, <1>2, <1>3, <1>4

(* The digits of each base.                                                *)
LEMMA DigitsOfIs ==
    /\ DigitsOf(2) = BinaryDigit /\ DigitsOf(8) = OctalDigit
    /\ DigitsOf(10) = Digit /\ DigitsOf(16) = HexDigit
  BY DEF DigitsOf

(* A prefix 0x that strtoll takes.                                         *)
HexAt(m, p) == /\ CharIn(m, p) = "0"
               /\ CharIn(m, p + 1) \in {"x", "X"} /\ CharIn(m, p + 2) \in HexDigit

(* Where the digits start that strtoll reads, and in which base.           *)
ReadsFrom(m, p, base, first, radix) ==
    \/ base = 2 /\ radix = 2 /\ first = p
    \/ base = 0 /\ HexAt(m, p) /\ radix = 16 /\ first = p + 2
    \/ /\ base = 0 /\ ~HexAt(m, p) /\ first = p
       /\ radix = IF CharIn(m, p) = "0" THEN 8 ELSE 10

(* What strtoll gives for digits that start at first and end at to.        *)
StrtollIs(m, p, base, first, radix, to) ==
    Strtoll(m, p, base) =
        IF to = first THEN [end |-> p, number |-> 0]
        ELSE [end |-> to,
              number |-> Reads([i \in 1 .. to - first |-> DigitValue(m[first + i - 1])],
                               radix, MaxNumber)]

(* strtoll without spaces and sign reads a span of digits of its base.     *)
LEMMA StrtollShape ==
    ASSUME NEW m \in Seq(STRING), NEW p \in Nat \ {0}, NEW base, NEW first, NEW radix,
           CharIn(m, p) \notin Space, CharIn(m, p) \notin {"+", "-"},
           ReadsFrom(m, p, base, first, radix), NEW to, to = SpanEnd(m, first, DigitsOf(radix))
    PROVE  StrtollIs(m, p, base, first, radix, to)
<1> DEFINE sign == SpanEnd(m, p, {" ", "\t", "\n", "\r"})
           at == IF CharIn(m, sign) \in {"+", "-"} THEN sign + 1 ELSE sign
           hex == /\ base = 0 /\ CharIn(m, at) = "0"
                  /\ CharIn(m, at + 1) \in {"x", "X"} /\ CharIn(m, at + 2) \in HexDigit
           rad == IF base # 0 THEN base
                  ELSE IF hex THEN 16
                  ELSE IF CharIn(m, at) = "0" THEN 8 ELSE 10
           fst == IF hex THEN at + 2 ELSE at
           stop == SpanEnd(m, fst, DigitsOf(rad))
           digits == [i \in 1 .. stop - fst |-> DigitValue(m[fst + i - 1])]
           limit == IF CharIn(m, sign) = "-" THEN MaxNumber + 1 ELSE MaxNumber
           size == Reads(digits, rad, limit)
<1>1. Strtoll(m, p, base) =
          IF stop = fst THEN [end |-> p, number |-> 0]
          ELSE [end |-> stop, number |-> IF CharIn(m, sign) = "-" THEN -size ELSE size]
  BY DEF Strtoll, Reads, FoldLeft, MapThenFoldSet
<1>2. sign = p
  <2>1. CharIn(m, p) \notin {" ", "\t", "\n", "\r"} /\ NUL \notin {" ", "\t", "\n", "\r"}
    BY DigitClasses DEF Space
  <2>2. p .. p - 1 = {}
    OBVIOUS
  <2>3. p \in Nat /\ p <= p
    OBVIOUS
  <2>4. PICK chars : chars = {" ", "\t", "\n", "\r"}
    OBVIOUS
  <2>5. SpanEnd(m, p, chars) = p
    BY <2>1, <2>2, <2>3, <2>4, SpanIs
  <2>6. QED BY <2>4, <2>5
<1> HIDE DEF sign, size
<1>3. at = p
  BY <1>2
<1> HIDE DEF at
<1>4. hex <=> base = 0 /\ HexAt(m, p)
  BY <1>3 DEF HexAt
<1> HIDE DEF hex
<1>5. fst = first /\ rad = radix
  BY <1>3, <1>4 DEF ReadsFrom
<1> HIDE DEF fst, rad
<1>6. stop = to
  BY <1>5
<1> HIDE DEF stop
<1>7. size = Reads([i \in 1 .. to - first |-> DigitValue(m[first + i - 1])], radix, MaxNumber)
  BY <1>2, <1>5, <1>6 DEF size
<1>8. QED BY <1>1, <1>2, <1>5, <1>6, <1>7 DEF StrtollIs

(* strtoll gives the value of the span, or the largest number.             *)
LEMMA StrtollReads ==
    ASSUME NEW m \in Seq(STRING), NEW p \in Nat \ {0}, NEW base, NEW first, NEW radix,
           CharIn(m, p) \notin Space, CharIn(m, p) \notin {"+", "-"},
           ReadsFrom(m, p, base, first, radix), NEW to, to = SpanEnd(m, first, DigitsOf(radix)),
           to # first, Powers(radix, to - first)
    PROVE  /\ Strtoll(m, p, base).end = to
           /\ ValueIn(SubSeq(m, first, to - 1), radix) \in Nat
           /\ Strtoll(m, p, base).number
              = AtMost(ValueIn(SubSeq(m, first, to - 1), radix), MaxNumber)
<1>1. first \in Nat \ {0} /\ radix \in {2, 8, 10, 16}
  BY DEF ReadsFrom
<1>2. NUL \notin DigitsOf(radix) /\ DigitsOf(radix) \subseteq HexDigit
  BY <1>1, DigitsOfIs, DigitClasses, CharClasses
<1>3. /\ to \in Nat /\ to >= first
      /\ \A i \in first .. to - 1 : CharIn(m, i) \in DigitsOf(radix)
  BY <1>1, <1>2, SpanShape
<1> DEFINE s == SubSeq(m, first, to - 1)
           n == to - first
<1>4. n \in Nat \ {0}
  BY <1>1, <1>3
<1>5. to - 1 <= Len(m) /\ Len(m) \in Nat
  <2>1. to - 1 \in first .. to - 1 /\ to - 1 \in Nat
    BY <1>1, <1>3, <1>4
  <2>2. CharIn(m, to - 1) # NUL
    BY <1>2, <1>3, <2>1
  <2>3. QED BY <2>1, <2>2, CharBehind
<1>6. /\ Len(s) = n /\ DOMAIN s = 1 .. n
      /\ \A i \in 1 .. n : s[i] = m[first + i - 1]
  BY <1>1, <1>3, <1>4, <1>5
<1> HIDE DEF s
<1>7. \A i \in 1 .. n : s[i] \in HexDigit
  <2>1. ASSUME NEW i \in 1 .. n PROVE s[i] \in HexDigit
    <3>1. first + i - 1 \in first .. to - 1 /\ first + i - 1 \in 1 .. Len(m)
      BY <1>1, <1>3, <1>5
    <3>2. CharIn(m, first + i - 1) = m[first + i - 1]
      BY <3>1 DEF CharIn
    <3>3. QED BY <1>2, <1>3, <1>6, <3>1, <3>2
  <2>2. QED BY <2>1
<1> HIDE DEF n
<1>8. MaxNumber \in Nat
  BY NumbersAssumption
<1>9. /\ ValueIn(s, radix) \in Nat
      /\ Reads([i \in 1 .. n |-> DigitValue(s[i])], radix, MaxNumber)
         = AtMost(ValueIn(s, radix), MaxNumber)
  <2>1. Powers(radix, n)
    BY DEF n
  <2>2. Digits(n, s) /\ n \in Nat
    BY <1>4, <1>6, <1>7 DEF Digits
  <2>3. ReadsValue(n, s, radix, MaxNumber)
    BY <1>1, <1>8, <2>1, <2>2, NumberRead
  <2>4. QED BY <2>3 DEF ReadsValue
<1>10. [i \in 1 .. n |-> DigitValue(s[i])] = [i \in 1 .. n |-> DigitValue(m[first + i - 1])]
  BY <1>6
<1>11. Strtoll(m, p, base) =
           [end |-> to,
            number |-> Reads([i \in 1 .. n |-> DigitValue(m[first + i - 1])], radix, MaxNumber)]
  <2>1. StrtollIs(m, p, base, first, radix, to)
    BY StrtollShape
  <2>2. QED BY <2>1 DEF StrtollIs, n
<1>12. PICK v : v = Reads([i \in 1 .. n |-> DigitValue(m[first + i - 1])], radix, MaxNumber)
  OBVIOUS
<1>13. v = AtMost(ValueIn(s, radix), MaxNumber)
  BY <1>9, <1>10, <1>12
<1>14. Strtoll(m, p, base) = [end |-> to, number |-> v]
  BY <1>11, <1>12
<1>15. Strtoll(m, p, base).end = to /\ Strtoll(m, p, base).number = v
  BY <1>14
<1>16. QED BY <1>9, <1>13, <1>15 DEF s

(* What starts no number.                                                  *)
LEMMA StrtollStays ==
    ASSUME NEW m \in Seq(STRING), NEW p \in Nat \ {0}, CharIn(m, p) \notin Digit,
           CharIn(m, p) \notin Space, CharIn(m, p) \notin {"+", "-"}
    PROVE  Strtoll(m, p, 0) = [end |-> p, number |-> 0]
<1>1. "0" \in Digit /\ NUL \notin Digit
  BY Classes, CharClasses
<1>2. ReadsFrom(m, p, 0, p, 10)
  BY <1>1 DEF ReadsFrom, HexAt
<1>3. SpanEnd(m, p, DigitsOf(10)) = p
  <2>1. \A i \in p .. p - 1 : CharIn(m, i) \in Digit
    OBVIOUS
  <2>2. p \in Nat /\ p <= p
    OBVIOUS
  <2>3. SpanEnd(m, p, Digit) = p
    BY <1>1, <2>1, <2>2, SpanIs
  <2>4. QED BY <2>3, DigitsOfIs
<1>4. PICK radix, to : radix = 10 /\ to = p /\ to = SpanEnd(m, p, DigitsOf(radix))
  BY <1>3
<1>5. PICK base : base = 0 /\ ReadsFrom(m, p, base, p, radix)
  BY <1>2, <1>4
<1>6. StrtollIs(m, p, base, p, radix, to)
  BY <1>4, <1>5, StrtollShape
<1>7. QED BY <1>4, <1>5, <1>6 DEF StrtollIs

(* What starts with a space: strtoll stays, or reads on behind it.         *)
LEMMA StrtollPasses ==
    ASSUME NEW m \in Seq(STRING), NEW p \in Nat \ {0}, CharIn(m, p) \in Space
    PROVE  Strtoll(m, p, 0).end # p + 1
<1> DEFINE sign == SpanEnd(m, p, {" ", "\t", "\n", "\r"})
           at == IF CharIn(m, sign) \in {"+", "-"} THEN sign + 1 ELSE sign
           hex == /\ 0 = 0 /\ CharIn(m, at) = "0"
                  /\ CharIn(m, at + 1) \in {"x", "X"} /\ CharIn(m, at + 2) \in HexDigit
           rad == IF 0 # 0 THEN 0
                  ELSE IF hex THEN 16
                  ELSE IF CharIn(m, at) = "0" THEN 8 ELSE 10
           fst == IF hex THEN at + 2 ELSE at
           stop == SpanEnd(m, fst, DigitsOf(rad))
           digits == [i \in 1 .. stop - fst |-> DigitValue(m[fst + i - 1])]
           limit == IF CharIn(m, sign) = "-" THEN MaxNumber + 1 ELSE MaxNumber
           size == Reads(digits, rad, limit)
<1>1. Strtoll(m, p, 0) =
          IF stop = fst THEN [end |-> p, number |-> 0]
          ELSE [end |-> stop, number |-> IF CharIn(m, sign) = "-" THEN -size ELSE size]
  BY DEF Strtoll, Reads, FoldLeft, MapThenFoldSet
<1>2. sign \in Nat /\ sign > p
  <2>1. PICK chars : chars = {" ", "\t", "\n", "\r"}
    OBVIOUS
  <2>2. NUL \notin chars /\ CharIn(m, p) \in chars
    BY <2>1, DigitClasses DEF Space
  <2> HIDE DEF sign, at, hex, rad, fst, stop, digits, limit, size
  <2>3. /\ SpanEnd(m, p, chars) \in Nat /\ SpanEnd(m, p, chars) >= p
        /\ CharIn(m, SpanEnd(m, p, chars)) \notin chars
    BY <2>2, SpanShape
  <2>4. SpanEnd(m, p, chars) # p
    BY <2>2, <2>3
  <2>5. SpanEnd(m, p, chars) = sign
    BY <2>1 DEF sign
  <2>6. QED BY <2>3, <2>4, <2>5
<1> HIDE DEF sign, size
<1>3. at \in Nat /\ at > p
  BY <1>2
<1> HIDE DEF at
<1>4. rad \in {8, 10, 16} /\ fst \in Nat \ {0} /\ fst > p
  BY <1>3
<1> HIDE DEF rad, fst, hex
<1>5. NUL \notin DigitsOf(rad)
  BY <1>4, DigitsOfIs, DigitClasses, CharClasses
<1>6. stop \in Nat /\ stop >= fst
  BY <1>4, <1>5, SpanShape
<1> HIDE DEF stop
<1>7. QED BY <1>1, <1>4, <1>6

-----------------------------------------------------------------------------
(* parse_number.                                                           *)

(* A prefix 0b that parse_number takes.                                    *)
BinaryAt(m, p, length) == length > 2 /\ CharIn(m, p) = "0" /\ CharIn(m, p + 1) = "b"

(* Which digits parse_number reads, and in which base.                     *)
Parses(m, p, length, first, radix) ==
    \/ BinaryAt(m, p, length) /\ first = p + 2 /\ radix = 2
    \/ ~BinaryAt(m, p, length) /\ ReadsFrom(m, p, 0, first, radix)

(* parse_number gives the number, and takes the token if strtoll ended at  *)
(* the token's end.                                                        *)
ParsesTo(m, p, length, to, value) ==
    /\ value \in Nat
    /\ to = p + length =>
           parse_number(m, p, length) = [ok |-> TRUE, number |-> AtMost(value, MaxNumber)]
    /\ to # p + length =>
           parse_number(m, p, length) = [ok |-> FALSE, number |-> AtMost(value, MaxNumber)]

(* parse_number gives the value of the digits, or the largest number.      *)
LEMMA ParseReads ==
    ASSUME NEW m \in Seq(STRING), NEW p \in Nat \ {0}, NEW length, NEW first, NEW radix,
           Parses(m, p, length, first, radix), NEW to, to = SpanEnd(m, first, DigitsOf(radix)),
           CharIn(m, first) \in DigitsOf(radix), Powers(radix, to - first)
    PROVE  ParsesTo(m, p, length, to, ValueIn(SubSeq(m, first, to - 1), radix))
<1> DEFINE v == ValueIn(SubSeq(m, first, to - 1), radix)
           StrtollTo(q, base) == /\ v \in Nat /\ Strtoll(m, q, base).end = to
                                 /\ Strtoll(m, q, base).number = AtMost(v, MaxNumber)
<1>1. first \in Nat \ {0} /\ radix \in {2, 8, 10, 16}
  BY DEF Parses, ReadsFrom
<1>2. /\ NUL \notin DigitsOf(radix) /\ DigitsOf(radix) \subseteq HexDigit
      /\ "0" \in HexDigit
  BY <1>1, DigitsOfIs, DigitClasses, CharClasses
<1>3. to # first
  BY <1>1, <1>2, SpanShape
<1>4. ASSUME NEW c \in HexDigit PROVE c \notin Space /\ c \notin {"+", "-"}
  BY DigitClasses
<1>5. CASE BinaryAt(m, p, length)
  <2>1. first = p + 2 /\ radix = 2
    BY <1>5 DEF Parses
  <2>2. PICK base : base = 2
    OBVIOUS
  <2>3. ReadsFrom(m, first, base, first, radix)
    BY <2>1, <2>2 DEF ReadsFrom
  <2>4. CharIn(m, first) \notin Space /\ CharIn(m, first) \notin {"+", "-"}
    BY <1>2, <1>4
  <2>5. StrtollTo(first, base)
    BY <1>1, <1>3, <2>3, <2>4, StrtollReads
  <2>6. parse_number(m, p, length) = [ok |-> Strtoll(m, p + 2, 2).end = p + length,
                                      number |-> Strtoll(m, p + 2, 2).number]
    BY <1>5 DEF parse_number, BinaryAt
  <2> HIDE DEF v
  <2>7. QED BY <2>1, <2>2, <2>5, <2>6 DEF ParsesTo, v
<1>6. CASE ~BinaryAt(m, p, length)
  <2>1. PICK base : base = 0 /\ ReadsFrom(m, p, base, first, radix)
    BY <1>6 DEF Parses
  <2>2. CharIn(m, p) \in HexDigit
    BY <1>2, <2>1 DEF ReadsFrom, HexAt
  <2>3. CharIn(m, p) \notin Space /\ CharIn(m, p) \notin {"+", "-"}
    BY <1>4, <2>2
  <2>4. StrtollTo(p, base)
    BY <1>3, <2>1, <2>3, StrtollReads
  <2>5. parse_number(m, p, length) = [ok |-> Strtoll(m, p, 0).end = p + length,
                                      number |-> Strtoll(m, p, 0).number]
    BY <1>6 DEF parse_number, BinaryAt
  <2> HIDE DEF v
  <2>6. QED BY <2>1, <2>4, <2>5 DEF ParsesTo, v
<1>7. QED BY <1>5, <1>6

(* What does not start like a number is refused, but for nothing at all.   *)
LEMMA ParseStays ==
    ASSUME NEW m \in Seq(STRING), NEW p \in Nat \ {0}, NEW length \in Nat,
           CharIn(m, p) \notin Digit, CharIn(m, p) \notin Space, CharIn(m, p) \notin {"+", "-"}
    PROVE  parse_number(m, p, length) = [ok |-> length = 0, number |-> 0]
<1>1. Strtoll(m, p, 0) = [end |-> p, number |-> 0]
  BY StrtollStays
<1>2. CharIn(m, p) # "0"
  BY Classes
<1>3. p = p + length <=> length = 0
  OBVIOUS
<1>4. QED BY <1>1, <1>2, <1>3 DEF parse_number

(* A single space is refused.                                              *)
LEMMA ParsePasses ==
    ASSUME NEW m \in Seq(STRING), NEW p \in Nat \ {0}, CharIn(m, p) \in Space
    PROVE  ~parse_number(m, p, 1).ok
<1>1. Strtoll(m, p, 0).end # p + 1
  BY StrtollPasses
<1>2. ~(1 > 2)
  OBVIOUS
<1>3. parse_number(m, p, 1).ok <=> Strtoll(m, p, 0).end = p + 1
  <2>1. parse_number(m, p, 1) = [ok |-> Strtoll(m, p, 0).end = p + 1,
                                 number |-> Strtoll(m, p, 0).number]
    BY <1>2 DEF parse_number
  <2>2. \A b, n : [ok |-> b, number |-> n].ok = b
    OBVIOUS
  <2>3. parse_number(m, p, 1).ok = (Strtoll(m, p, 0).end = p + 1)
    BY <2>1, <2>2
  <2>4. QED BY <2>3, Zenon
<1>4. QED BY <1>1, <1>3

-----------------------------------------------------------------------------
(* The source.                                                             *)

(* The memory is the text, its NUL and what happens to lie behind.         *)
SourceIs == text \in Texts /\ \E b \in Behind : memory = text \o <<NUL>> \o b

(* A sequence joined from two and an element between them.                 *)
JoinedIs(S, t, c, r, m) ==
    /\ Len(m) = Len(t) + 1 + Len(r) /\ Len(t) \in Nat /\ Len(r) \in Nat
    /\ m[Len(t) + 1] = c /\ m \in Seq(S)

(* Where the parts of a joined sequence are.                               *)
LEMMA Joined ==
    ASSUME NEW S, NEW t \in Seq(S), NEW c \in S, NEW r \in Seq(S), NEW m, m = t \o <<c>> \o r
    PROVE  JoinedIs(S, t, c, r, m)
<1>1. PICK u : u = t \o <<c>>
  OBVIOUS
<1>2. u \in Seq(S) /\ Len(u) = Len(t) + 1 /\ u[Len(t) + 1] = c
  BY <1>1
<1>3. m = u \o r
  BY <1>1
<1>4. QED BY <1>2, <1>3 DEF JoinedIs

(* Characters without a NUL are all in the text, or all behind it.         *)
LEMMA PowersHere ==
    ASSUME SourceIs, NEW from \in Nat \ {0}, NEW to \in Nat, from <= to,
           \A i \in from .. to - 1 : Char(i) # NUL, NEW b \in {2, 8, 10, 16}
    PROVE  Powers(b, to - from)
<1>1. PICK r \in Behind : memory = text \o <<NUL>> \o r
  BY DEF SourceIs
<1>2. text \in Texts /\ text \in Seq(STRING) /\ r \in Seq(STRING) /\ NUL \in STRING
  BY TextsAssumption, BehindAssumption DEF SourceIs
<1>3. /\ Len(memory) = Len(text) + 1 + Len(r) /\ Len(text) \in Nat /\ Len(r) \in Nat
      /\ memory[Len(text) + 1] = NUL /\ memory \in Seq(STRING)
  <2>1. PICK t, S, c, m : t = text /\ S = STRING /\ c = NUL /\ m = memory
    OBVIOUS
  <2>2. m = t \o <<c>> \o r /\ t \in Seq(S) /\ c \in S /\ r \in Seq(S)
    BY <1>1, <1>2, <2>1
  <2>3. JoinedIs(S, t, c, r, m)
    BY <2>2, Joined
  <2>4. QED BY <2>1, <2>3 DEF JoinedIs
<1>4. Char(Len(text) + 1) = NUL
  BY <1>3 DEF Char, CharIn
<1>5. ASSUME NEW s \in Texts \cup Behind, to - from <= Len(s), Len(s) \in Nat
      PROVE  Powers(b, to - from)
  <2>1. /\ b ^ 0 = 1
        /\ \A i \in 1 .. Len(s) : b ^ i \in Nat \ {0} /\ b ^ i = b * b ^ (i - 1)
    BY DigitPowersAssumption
  <2>2. \A i \in 1 .. to - from : i \in 1 .. Len(s)
    BY <1>5
  <2>3. QED BY <2>1, <2>2 DEF Powers
<1>6. CASE to = from
  <2>1. b ^ 0 = 1
    BY DigitPowersAssumption
  <2>2. 1 .. to - from = {}
    BY <1>6
  <2>3. QED BY <2>1, <2>2 DEF Powers
<1>7. CASE to # from
  <2>1. ~(Len(text) + 1 \in from .. to - 1)
    BY <1>4
  <2>2. to - 1 <= Len(memory)
    <3>1. to - 1 \in from .. to - 1 /\ to - 1 \in Nat
      BY <1>7
    <3>2. QED BY <1>3, <3>1, CharNat
  <2>3. to - from <= Len(text) \/ to - from <= Len(r)
    BY <1>3, <1>7, <2>1, <2>2
  <2>4. QED BY <1>2, <1>3, <1>5, <2>3
<1>8. QED BY <1>6, <1>7

-----------------------------------------------------------------------------
(* What numbers are read as.                                               *)

(* What NumbersExact says of a number token.                               *)
NumberRight(from, to) ==
    LET s == Lexeme(from, to)
        read == parse_number(memory, from, to - from)
        swallowed == s = <<"0">> /\ Char(to) = "X" /\ Char(to + 1) \in HexDigit
    IN  IF (IsDecimal(s) /\ s[1] = "0" /\ ~All(s, 1, OctalDigit)) \/ swallowed
        THEN ~read.ok
        ELSE read = [ok |-> TRUE, number |-> Min({MaxNumber, Value(s)})]

(* A token without a NUL.                                                  *)
Covers(from, to) == /\ SourceIs /\ memory \in Seq(STRING)
                    /\ from \in Nat \ {0} /\ to \in from + 1 .. Len(memory) + 1
                    /\ \A i \in from .. to - 1 : Char(i) # NUL

(* A run of characters of a class that ends at to.                         *)
Run(from, to, chars) == Char(to) \notin chars /\ \A i \in from .. to - 1 : Char(i) \in chars

(* The smaller of two numbers, as NumbersExact writes it.                  *)
LEMMA AtMostIs ==
    ASSUME NEW v \in Nat
    PROVE  Min({MaxNumber, v}) = AtMost(v, MaxNumber)
  BY NumbersAssumption DEF Min, AtMost

(* Digits of a base without a NUL can be added up.                         *)
LEMMA RunPowers ==
    ASSUME SourceIs, memory \in Seq(STRING), NEW first \in Nat \ {0}, NEW b \in {2, 8, 10, 16},
           NEW to, to = SpanEnd(memory, first, DigitsOf(b))
    PROVE  Powers(b, to - first) /\ to \in Nat /\ to >= first
<1>1. NUL \notin DigitsOf(b)
  BY DigitsOfIs, DigitClasses, CharClasses
<1>2. /\ to \in Nat /\ to >= first
      /\ \A i \in first .. to - 1 : CharIn(memory, i) \in DigitsOf(b)
  BY <1>1, SpanShape
<1>3. \A i \in first .. to - 1 : Char(i) # NUL
  BY <1>1, <1>2 DEF Char
<1>4. QED BY <1>2, <1>3, PowersHere

(* What is read of a run of digits.                                        *)
LEMMA ParseHere ==
    ASSUME SourceIs, memory \in Seq(STRING), NEW p \in Nat \ {0}, NEW length, NEW first, NEW radix,
           Parses(memory, p, length, first, radix), Char(first) \in DigitsOf(radix),
           NEW to, to = SpanEnd(memory, first, DigitsOf(radix))
    PROVE  ParsesTo(memory, p, length, to, ValueIn(SubSeq(memory, first, to - 1), radix))
<1>1. first \in Nat \ {0} /\ radix \in {2, 8, 10, 16}
  BY DEF Parses, ReadsFrom
<1>2. Powers(radix, to - first)
  BY <1>1, RunPowers
<1>3. PICK m : m = memory
  OBVIOUS
<1>4. /\ m \in Seq(STRING) /\ Parses(m, p, length, first, radix)
      /\ to = SpanEnd(m, first, DigitsOf(radix)) /\ CharIn(m, first) \in DigitsOf(radix)
  BY <1>3 DEF Char
<1>5. ParsesTo(m, p, length, to, ValueIn(SubSeq(m, first, to - 1), radix))
  BY <1>2, <1>4, ParseReads
<1>6. QED BY <1>3, <1>5

(* A run is a span.                                                        *)
LEMMA RunIs ==
    ASSUME memory \in Seq(STRING), NEW from \in Nat \ {0}, NEW to \in Nat, from <= to,
           NEW chars, NUL \notin chars, Run(from, to, chars)
    PROVE  SpanEnd(memory, from, chars) = to
<1>1. CharIn(memory, to) \notin chars /\ \A i \in from .. to - 1 : CharIn(memory, i) \in chars
  BY DEF Run, Char
<1>2. QED BY <1>1, SpanIs

(* The end of a lexeme.                                                    *)
LEMMA LexemeEnd ==
    ASSUME memory \in Seq(STRING), NEW from \in Nat \ {0}, NEW to \in from + 1 .. Len(memory) + 1,
           NEW j \in Nat \ {0}, from + j <= to
    PROVE  SubSeq(Lexeme(from, to), j, Len(Lexeme(from, to))) = SubSeq(memory, from + j - 1, to - 1)
<1> DEFINE s == Lexeme(from, to)
           t == SubSeq(s, j, Len(s))
           u == SubSeq(memory, from + j - 1, to - 1)
<1>1. Len(memory) \in Nat /\ to \in Nat /\ from + j - 1 \in Nat \ {0} /\ to - 1 <= Len(memory)
      /\ from <= to - 1
  OBVIOUS
<1>2. s \in Seq(STRING) /\ Len(s) = to - from /\ \A i \in 1 .. to - from : s[i] = memory[from + i - 1]
  <2>1. /\ Lexeme(from, to) \in Seq(STRING) /\ Len(Lexeme(from, to)) = to - from
        /\ \A i \in 1 .. to - from : Lexeme(from, to)[i] = memory[from + i - 1]
    <3>1. /\ Lexeme(from, to) \in Seq(STRING) /\ Len(Lexeme(from, to)) = to - from
          /\ \A i \in 1 .. to - from : Lexeme(from, to)[i] = Char(from + i - 1)
      BY LexemeShape
    <3>2. \A i \in 1 .. to - from : Char(from + i - 1) = memory[from + i - 1]
      BY <1>1 DEF Char, CharIn
    <3>3. QED BY <3>1, <3>2
  <2>2. QED BY <2>1
<1> HIDE DEF s
<1>3. t = [i \in 1 .. to - from - j + 1 |-> s[j + i - 1]]
  BY <1>1, <1>2
<1>4. u = [i \in 1 .. to - from - j + 1 |-> memory[from + j - 1 + i - 1]]
  BY <1>1
<1>5. ASSUME NEW i \in 1 .. to - from - j + 1
      PROVE  s[j + i - 1] = memory[from + j - 1 + i - 1]
  <2>1. j + i - 1 \in 1 .. to - from /\ from + (j + i - 1) - 1 = from + j - 1 + i - 1
    BY <1>1
  <2>2. QED BY <1>2, <2>1
<1> HIDE DEF t, u
<1>6. t = u
  BY <1>3, <1>4, <1>5
<1>7. QED BY <1>6 DEF s, t, u

(* A decimal token is read as NumbersExact says: as octal if it starts     *)
(* with 0, and not at all if an 8 or 9, or a swallowed X, ends the reading *)
(* elsewhere than the token ends.                                          *)
LEMMA DecimalRight ==
    ASSUME NEW from, NEW to, Covers(from, to), Run(from, to, Digit),
           ~(Char(from) = "0" /\ Char(from + 1) \in {"b", "x"})
    PROVE  NumberRight(from, to)
<1> DEFINE s == Lexeme(from, to)
           read == parse_number(memory, from, to - from)
           length == to - from
           hex == HexAt(memory, from)
<1>1. /\ SourceIs /\ memory \in Seq(STRING) /\ from \in Nat \ {0} /\ to \in Nat /\ from < to
      /\ to \in from + 1 .. Len(memory) + 1 /\ Len(memory) \in Nat
  BY DEF Covers
<1>2. /\ s[1] = Char(from) /\ Len(s) = length
  <2>1. 1 \in 1 .. to - from /\ from + 1 - 1 = from
    BY <1>1
  <2>2. /\ Len(Lexeme(from, to)) = to - from
        /\ \A i \in 1 .. to - from : Lexeme(from, to)[i] = Char(from + i - 1)
    BY <1>1, LexemeShape
  <2> HIDE DEF s
  <2>3. QED BY <2>1, <2>2 DEF s
<1>3. /\ Char(to) \notin Digit /\ \A i \in from .. to - 1 : Char(i) \in Digit
      /\ Char(from) \in Digit
  BY <1>1 DEF Run
<1>4. /\ IsDecimal(s) /\ ~IsBinary(s) /\ ~IsHex(s)
      /\ s = <<"0">> <=> to = from + 1 /\ Char(from) = "0"
  <2>1. /\ IsDecimal(Lexeme(from, to)) <=> \A i \in from .. to - 1 : Char(i) \in Digit
        /\ IsBinary(Lexeme(from, to)) => Char(from) = "0" /\ Char(from + 1) = "b"
        /\ IsHex(Lexeme(from, to)) => Char(from) = "0" /\ Char(from + 1) = "x"
        /\ \A c : Lexeme(from, to) = <<c>> <=> to = from + 1 /\ Char(from) = c
    BY <1>1, LexemeKinds
  <2> HIDE DEF s
  <2>2. QED BY <1>3, <2>1 DEF s
<1>5. All(s, 1, OctalDigit) <=> \A i \in from .. to - 1 : Char(i) \in OctalDigit
  <2>1. from + 1 - 1 = from
    BY <1>1
  <2>2. QED BY <1>1, <2>1, AllPlaces
<1>6. Value(s) = ValueIn(s, IF s[1] = "0" THEN 8 ELSE 10)
  BY <1>4 DEF Value
<1>7. SubSeq(memory, from, to - 1) = s
  BY DEF Lexeme
<1>8. ~BinaryAt(memory, from, length)
  BY DEF BinaryAt, Char
<1>9. hex <=> s = <<"0">> /\ Char(to) = "X" /\ Char(to + 1) \in HexDigit
  <2>1. hex <=> Char(from) = "0" /\ Char(from + 1) \in {"x", "X"} /\ Char(from + 2) \in HexDigit
    BY DEF HexAt, Char
  <2>2. "X" \notin Digit
    BY DEF Digit, OctalDigit, BinaryDigit
  <2>3. ASSUME hex PROVE to = from + 1
    <3>1. Char(from + 1) = "X"
      BY <2>1, <2>3
    <3>2. ~(from + 1 \in from .. to - 1)
      BY <1>3, <2>2, <3>1
    <3>3. QED BY <1>1, <3>2
  <2>4. from + 1 + 1 = from + 2
    BY <1>1
  <2>5. QED BY <1>4, <2>1, <2>3, <2>4
<1> HIDE DEF s, read, hex
<1>10. CASE hex
  <2> DEFINE e == SpanEnd(memory, from + 2, DigitsOf(16))
             v == ValueIn(SubSeq(memory, from + 2, e - 1), 16)
  <2>1. Char(from + 2) \in DigitsOf(16)
    BY <1>10, DigitsOfIs DEF HexAt, Char, hex
  <2>2. Parses(memory, from, length, from + 2, 16)
    BY <1>8, <1>10 DEF Parses, ReadsFrom, hex
  <2>3. ParsesTo(memory, from, length, e, v)
    BY <1>1, <2>1, <2>2, ParseHere
  <2>4. e \in Nat /\ e # from + 1
    <3>0. from + 2 \in Nat \ {0}
      BY <1>1
    <3>1. NUL \notin DigitsOf(16)
      BY DigitsOfIs, CharClasses
    <3>2. e \in Nat /\ e >= from + 2
      BY <1>1, <3>0, <3>1, SpanShape
    <3> HIDE DEF e
    <3>3. QED BY <1>1, <3>2
  <2>5. from + length = from + 1
    BY <1>1, <1>4, <1>9, <1>10
  <2> HIDE DEF e, v
  <2>6. ~read.ok
    BY <2>3, <2>4, <2>5 DEF ParsesTo, read
  <2>7. QED BY <1>9, <1>10, <2>6 DEF NumberRight, s, read
<1>11. CASE ~hex
  <2> DEFINE b == IF Char(from) = "0" THEN 8 ELSE 10
             e == SpanEnd(memory, from, DigitsOf(b))
             v == ValueIn(SubSeq(memory, from, e - 1), b)
  <2>1. Char(from) \in DigitsOf(b)
    BY <1>3, DigitsOfIs, DigitClasses
  <2>2. Parses(memory, from, length, from, b)
    BY <1>8, <1>11 DEF Parses, ReadsFrom, hex, Char
  <2>3. ParsesTo(memory, from, length, e, v)
    BY <1>1, <2>1, <2>2, ParseHere
  <2>4. from + length = to
    BY <1>1
  <2>5. e = to <=> (Char(from) = "0" => All(s, 1, OctalDigit))
    <3>1. CASE Char(from) # "0"
      <4>1. e = to
        <5>0. b = 10 /\ from <= to
          BY <1>1, <3>1
        <5>1. DigitsOf(b) = Digit /\ NUL \notin Digit /\ from <= to
          BY <5>0, DigitsOfIs, CharClasses
        <5>2. SpanEnd(memory, from, Digit) = to
          BY <1>1, <5>1, RunIs
        <5>3. QED BY <5>1, <5>2
      <4>2. QED BY <3>1, <4>1
    <3>2. CASE Char(from) = "0" /\ All(s, 1, OctalDigit)
      <4>1. Run(from, to, OctalDigit)
        BY <1>3, <1>5, <3>2, DigitClasses DEF Run, s
      <4>2. e = to
        BY <1>1, <3>2, <4>1, RunIs, DigitsOfIs, DigitClasses
      <4>3. QED BY <3>2, <4>2
    <3>3. CASE Char(from) = "0" /\ ~All(s, 1, OctalDigit)
      <4>1. DigitsOf(b) = OctalDigit /\ NUL \notin OctalDigit
        BY <3>3, DigitsOfIs, DigitClasses
      <4>2. \A i \in from .. e - 1 : Char(i) \in OctalDigit
        BY <1>1, <4>1, SpanShape DEF Char
      <4>3. QED BY <1>5, <3>3, <4>2 DEF s
    <3>4. QED BY <3>1, <3>2, <3>3
  <2> HIDE DEF e, v
  <2>6. CASE e = to
    <3>1. v = Value(s)
      BY <1>2, <1>6, <1>7, <2>6 DEF v
    <3>2. v \in Nat /\ read = [ok |-> TRUE, number |-> AtMost(v, MaxNumber)]
      BY <2>3, <2>4, <2>6 DEF ParsesTo, read
    <3>3. read = [ok |-> TRUE, number |-> Min({MaxNumber, Value(s)})]
      BY <3>1, <3>2, AtMostIs
    <3>4. QED BY <1>2, <1>9, <1>11, <2>5, <2>6, <3>3 DEF NumberRight, s, read
  <2>7. CASE e # to
    <3>1. ~read.ok
      BY <2>3, <2>4, <2>7 DEF ParsesTo, read
    <3>2. QED BY <1>2, <1>4, <2>5, <2>7, <3>1 DEF NumberRight, s, read
  <2>8. QED BY <2>6, <2>7
<1>12. QED BY <1>10, <1>11

(* A token with a prefix 0b or 0x is read as its value.                    *)
LEMMA BasedRight ==
    ASSUME NEW from, NEW to, Covers(from, to), from + 2 < to, Char(from) = "0",
           \/ Char(from + 1) = "b" /\ Run(from + 2, to, BinaryDigit)
           \/ Char(from + 1) = "x" /\ Run(from + 2, to, HexDigit)
    PROVE  NumberRight(from, to)
<1> DEFINE s == Lexeme(from, to)
           read == parse_number(memory, from, to - from)
           length == to - from
           b == IF Char(from + 1) = "b" THEN 2 ELSE 16
           v == ValueIn(SubSeq(memory, from + 2, to - 1), b)
<1>1. /\ SourceIs /\ memory \in Seq(STRING) /\ from \in Nat \ {0} /\ to \in Nat /\ from < to
      /\ to \in from + 1 .. Len(memory) + 1 /\ Len(memory) \in Nat
  BY DEF Covers
<1>2. /\ DigitsOf(b) = IF Char(from + 1) = "b" THEN BinaryDigit ELSE HexDigit
      /\ NUL \notin DigitsOf(b)
  BY DigitsOfIs, CharClasses
<1>3. "b" # "x" /\ Run(from + 2, to, DigitsOf(b)) /\ Char(from + 1) \in {"b", "x"}
  BY <1>2
<1>4. Char(from + 2) \in DigitsOf(b)
  BY <1>1, <1>3 DEF Run
<1>5. ~IsDecimal(s) /\ s # <<"0">> /\ (IsBinary(s) <=> b = 2) /\ (IsHex(s) <=> b = 16)
  <2>1. /\ IsDecimal(Lexeme(from, to)) <=> \A i \in from .. to - 1 : Char(i) \in Digit
        /\ IsBinary(Lexeme(from, to)) <=>
               /\ from + 2 < to /\ Char(from) = "0" /\ Char(from + 1) = "b"
               /\ \A i \in from + 2 .. to - 1 : Char(i) \in BinaryDigit
        /\ IsHex(Lexeme(from, to)) <=>
               /\ from + 2 < to /\ Char(from) = "0" /\ Char(from + 1) = "x"
               /\ \A i \in from + 2 .. to - 1 : Char(i) \in HexDigit
        /\ \A c : Lexeme(from, to) = <<c>> <=> to = from + 1 /\ Char(from) = c
    BY <1>1, LexemeKinds
  <2>2. Char(from + 1) \notin Digit /\ from + 1 \in from .. to - 1
    <3>1. Char(from + 1) \notin Digit
      BY <1>3, Classes
    <3>2. from + 1 \in from .. to - 1
      BY <1>1
    <3>3. QED BY <3>1, <3>2
  <2>3. \A i \in from + 2 .. to - 1 : Char(i) \in DigitsOf(b)
    BY <1>3 DEF Run
  <2>4. to # from + 1
    BY <1>1
  <2> HIDE DEF s
  <2>5. QED BY <1>2, <1>3, <2>1, <2>2, <2>3, <2>4 DEF s
<1>6. SubSeq(s, 3, Len(s)) = SubSeq(memory, from + 2, to - 1)
  <2>1. from + 3 <= to /\ from + 3 - 1 = from + 2 /\ 3 \in Nat \ {0}
    BY <1>1
  <2>2. SubSeq(s, 3, Len(s)) = SubSeq(memory, from + 3 - 1, to - 1)
    BY <1>1, <2>1, LexemeEnd
  <2>3. QED BY <2>1, <2>2
<1>7. Value(s) = v
  BY <1>3, <1>5, <1>6 DEF Value
<1>8. Parses(memory, from, length, from + 2, b)
  <2>1. CASE Char(from + 1) = "b"
    BY <1>1, <2>1 DEF Parses, BinaryAt, Char
  <2>2. CASE Char(from + 1) = "x"
    <3>1. HexAt(memory, from) /\ ~BinaryAt(memory, from, length) /\ b = 16
      BY <1>2, <1>4, <2>2 DEF HexAt, BinaryAt, Char
    <3>2. QED BY <3>1 DEF Parses, ReadsFrom
  <2>3. QED BY <1>3, <2>1, <2>2
<1>9. SpanEnd(memory, from + 2, DigitsOf(b)) = to
  <2>1. from + 2 \in Nat \ {0} /\ from + 2 <= to
    BY <1>1
  <2> HIDE DEF b
  <2>2. QED BY <1>1, <1>2, <1>3, <2>1, RunIs
<1> HIDE DEF b
<1>10. ParsesTo(memory, from, length, to, v)
  BY <1>1, <1>4, <1>8, <1>9, ParseHere
<1>11. from + length = to
  BY <1>1
<1> HIDE DEF v, s, length
<1>12. v \in Nat /\ read = [ok |-> TRUE, number |-> AtMost(v, MaxNumber)]
  BY <1>10, <1>11 DEF ParsesTo, length
<1>13. read = [ok |-> TRUE, number |-> Min({MaxNumber, Value(s)})]
  BY <1>7, <1>12, AtMostIs
<1>14. QED BY <1>5, <1>13 DEF NumberRight, s

(* What is no number.                                                      *)
NoNumber == Alpha \cup Signs \cup {";", NUL}

(* What starts no number starts like no number for strtoll, and a newline  *)
(* is a space to it.                                                       *)
LEMMA WordSigns ==
    /\ \A c \in NoNumber :
           c \notin Digit /\ c \notin Space /\ c \notin {"+", "-"}
    /\ Newline \in Space
<1>1. \A c \in Alpha : c \notin Digit /\ c \notin Space /\ c \notin {"+", "-"}
  <2>1. Alpha \cap Digit = {}
    BY Classes
  <2>2. " " \notin Alpha /\ "\t" \notin Alpha /\ "\n" \notin Alpha /\ "\r" \notin Alpha
    BY DEF Alpha
  <2>3. "+" \notin Alpha /\ "-" \notin Alpha
    BY DEF Alpha
  <2>4. QED BY <2>1, <2>2, <2>3 DEF Space
<1>2. \A c \in Signs \cup {";"} : c \notin Digit /\ c \notin Space /\ c \notin {"+", "-"}
  <2>1. Signs \cup {";"} = {":", ",", "[", "]", ";"}
    BY DEF Signs, Sign
  <2>2. \A c \in {":", ",", "[", "]", ";"} : c \notin Digit
    BY DEF Digit, OctalDigit, BinaryDigit
  <2>3. \A c \in {":", ",", "[", "]", ";"} : c \notin Space /\ c \notin {"+", "-"}
    BY DEF Space
  <2>4. QED BY <2>1, <2>2, <2>3
<1>3. NUL \notin Digit /\ NUL \notin Space /\ NUL \notin {"+", "-"} /\ Newline \in Space
  BY CharClasses DEF NUL, Newline, Space
<1>4. QED BY <1>1, <1>2, <1>3 DEF NoNumber

(* What starts no number is refused, but for the empty token.              *)
LEMMA OtherRight ==
    ASSUME memory \in Seq(STRING), NEW from \in Nat \ {0}, NEW to \in Nat, from <= to,
           Char(from) \in NoNumber
    PROVE  parse_number(memory, from, to - from) = [ok |-> to = from, number |-> 0]
<1>0. to - from \in Nat /\ (to - from = 0 <=> to = from)
  OBVIOUS
<1>1. PICK m, n : m = memory /\ n = to - from
  OBVIOUS
<1>2. /\ m \in Seq(STRING) /\ n \in Nat
      /\ CharIn(m, from) \notin Digit /\ CharIn(m, from) \notin Space
      /\ CharIn(m, from) \notin {"+", "-"}
  <2>1. Char(from) = CharIn(m, from)
    BY <1>1 DEF Char
  <2>2. QED BY <1>0, <1>1, <2>1, WordSigns
<1>3. parse_number(m, from, n) = [ok |-> n = 0, number |-> 0]
  BY <1>2, ParseStays
<1>4. n = 0 <=> to = from
  BY <1>0, <1>1
<1>5. QED BY <1>1, <1>3, <1>4

(* A newline is refused.                                                   *)
LEMMA NewlineRight ==
    ASSUME memory \in Seq(STRING), NEW from \in Nat \ {0}, Char(from) = Newline
    PROVE  ~parse_number(memory, from, 1).ok
<1>1. PICK m : m = memory
  OBVIOUS
<1>2. m \in Seq(STRING) /\ CharIn(m, from) \in Space
  BY <1>1, WordSigns DEF Char
<1>3. ~parse_number(m, from, 1).ok
  BY <1>2, ParsePasses
<1>4. QED BY <1>1, <1>3

-----------------------------------------------------------------------------
(* What variables are read as.                                             *)

(* What RegistersExact says of an identifier.                              *)
RegisterRight(from, to) ==
    LET s == Lexeme(from, to)
        digits == Tail(s)
        read == parse_ident(memory, from, to - from)
    IN  IF /\ s[1] = "x" /\ IsDecimal(digits)
           /\ digits[1] = "0" => Len(digits) = 1
           /\ ValueIn(digits, 10) <= MaxVariable
        THEN read = [ok |-> TRUE, variable |-> ValueIn(digits, 10)]
        ELSE ~read.ok

(* parse_ident takes x and a number of a variable.                         *)
LEMMA IdentReads ==
    ASSUME NEW m, NEW p, NEW length, NEW v, v \in 0 .. MaxVariable,
           parse_number(m, p + 1, length - 1) = [ok |-> TRUE, number |-> v],
           CharIn(m, p) = "x", length > 1, ~(length > 2 /\ CharIn(m, p + 1) = "0")
    PROVE  parse_ident(m, p, length) = [ok |-> TRUE, variable |-> v]
<1> DEFINE read == parse_number(m, p + 1, length - 1)
<1>1. read.ok = TRUE /\ read.number = v
  OBVIOUS
<1>2. parse_ident(m, p, length) =
          [ok |-> /\ CharIn(m, p) = "x" /\ length > 1
                  /\ ~(length > 2 /\ CharIn(m, p + 1) = "0")
                  /\ read.ok /\ read.number \in 0 .. MaxVariable,
           variable |-> read.number]
  BY DEF parse_ident
<1> HIDE DEF read
<1>3. (/\ CharIn(m, p) = "x" /\ length > 1
       /\ ~(length > 2 /\ CharIn(m, p + 1) = "0")
       /\ read.ok /\ read.number \in 0 .. MaxVariable) = TRUE
  BY <1>1
<1>4. QED BY <1>1, <1>2, <1>3

(* parse_ident refuses everything else.                                    *)
LEMMA IdentRefuses ==
    ASSUME NEW m, NEW p, NEW length,
           \/ CharIn(m, p) # "x"
           \/ ~(length > 1)
           \/ length > 2 /\ CharIn(m, p + 1) = "0"
           \/ ~parse_number(m, p + 1, length - 1).ok
           \/ parse_number(m, p + 1, length - 1).number \notin 0 .. MaxVariable
    PROVE  ~parse_ident(m, p, length).ok
  BY DEF parse_ident

(* The tail of a lexeme.                                                   *)
LEMMA TailShape ==
    ASSUME memory \in Seq(STRING), NEW from \in Nat \ {0}, NEW to \in from + 1 .. Len(memory) + 1
    PROVE  /\ Lexeme(from, to)[1] = Char(from)
           /\ from + 1 < to => Tail(Lexeme(from, to)) = Lexeme(from + 1, to)
           /\ to = from + 1 => ~IsDecimal(Tail(Lexeme(from, to)))
<1>1. /\ Lexeme(from, to) \in Seq(STRING) /\ Len(Lexeme(from, to)) = to - from
      /\ \A i \in 1 .. to - from : Lexeme(from, to)[i] = Char(from + i - 1)
  BY LexemeShape
<1>2. PICK s : s = Lexeme(from, to)
  OBVIOUS
<1>3. s \in Seq(STRING) /\ Len(s) = to - from /\ to \in Nat /\ from < to /\ Len(memory) \in Nat
  BY <1>1, <1>2
<1>4. s[1] = Char(from)
  <2>1. 1 \in 1 .. to - from /\ from + 1 - 1 = from
    BY <1>3
  <2>2. QED BY <1>1, <1>2, <2>1
<1>5. Tail(s) \in Seq(STRING) /\ Len(Tail(s)) = to - from - 1
      /\ \A i \in 1 .. to - from - 1 : Tail(s)[i] = s[i + 1]
  BY <1>3
<1>6. ASSUME from + 1 < to PROVE Tail(s) = Lexeme(from + 1, to)
  <2>1. PICK t : t = Lexeme(from + 1, to)
    OBVIOUS
  <2>2. from + 1 \in Nat \ {0} /\ to \in from + 1 + 1 .. Len(memory) + 1
    BY <1>3, <1>6
  <2>3. /\ t \in Seq(STRING) /\ Len(t) = to - (from + 1)
        /\ \A i \in 1 .. to - (from + 1) : t[i] = Char(from + 1 + i - 1)
    BY <2>1, <2>2, LexemeShape
  <2>4. ASSUME NEW i \in 1 .. to - from - 1 PROVE Tail(s)[i] = t[i]
    <3>1. i + 1 \in 1 .. to - from /\ from + (i + 1) - 1 = from + 1 + i - 1
      BY <1>3
    <3>2. i \in 1 .. to - (from + 1)
      BY <1>3
    <3>3. s[i + 1] = Char(from + 1 + i - 1)
      BY <1>1, <1>2, <3>1
    <3>4. QED BY <1>5, <2>3, <3>2, <3>3
  <2>5. to - (from + 1) = to - from - 1
    BY <1>3
  <2>6. PICK u : u = Tail(s)
    OBVIOUS
  <2>7. /\ u \in Seq(STRING) /\ Len(u) = Len(t)
        /\ \A i \in 1 .. Len(u) : u[i] = t[i]
    BY <1>5, <2>3, <2>4, <2>5, <2>6
  <2>8. u = t
    BY <2>3, <2>7
  <2>9. QED BY <2>1, <2>6, <2>8
<1>7. ASSUME to = from + 1 PROVE ~IsDecimal(Tail(s))
  <2>1. Len(Tail(s)) = 0
    BY <1>3, <1>5, <1>7
  <2>2. ~(0 >= 1)
    OBVIOUS
  <2>3. QED BY <2>1, <2>2 DEF IsDecimal
<1>8. QED BY <1>2, <1>4, <1>6, <1>7

(* An identifier is read as RegistersExact says.                           *)
LEMMA RegisterIs ==
    ASSUME NEW from, NEW to, Covers(from, to), Char(from) \in Alpha, Run(from, to, WordChar)
    PROVE  RegisterRight(from, to)
<1> DEFINE s == Lexeme(from, to)
           q == from + 1
           t == Lexeme(q, to)
           digits == Tail(s)
           number == parse_number(memory, q, to - from - 1)
           read == parse_ident(memory, from, to - from)
           Named == /\ s[1] = "x" /\ IsDecimal(digits)
                    /\ digits[1] = "0" => Len(digits) = 1
                    /\ ValueIn(digits, 10) <= MaxVariable
<1>1. /\ SourceIs /\ memory \in Seq(STRING) /\ from \in Nat \ {0} /\ to \in Nat /\ from < to
      /\ to \in from + 1 .. Len(memory) + 1 /\ Len(memory) \in Nat
  BY DEF Covers
<1>2. /\ s[1] = Char(from)
      /\ q < to => digits = t
      /\ to = q => ~IsDecimal(digits)
  BY <1>1, TailShape
<1>3. q \in Nat \ {0} /\ (q < to \/ to = q) /\ (q < to => to \in q + 1 .. Len(memory) + 1)
  BY <1>1
<1>4. /\ Char(to) \notin WordChar
      /\ q < to => Char(q) \in WordChar
  BY <1>1, <1>3 DEF Run
<1>5. /\ Named => RegisterRight(from, to) <=> read = [ok |-> TRUE, variable |-> ValueIn(digits, 10)]
      /\ ~Named => RegisterRight(from, to) <=> ~read.ok
  BY DEF RegisterRight
<1> HIDE DEF s, digits
<1>6. CASE to = q
  <2>1. ~(to - from > 1)
    BY <1>1, <1>6
  <2>2. PICK m : m = memory
    OBVIOUS
  <2>3. ~parse_ident(m, from, to - from).ok
    BY <2>1, IdentRefuses
  <2>4. ~read.ok /\ ~Named
    BY <1>2, <1>6, <2>2, <2>3
  <2>5. QED BY <1>5, <2>4
<1>7. CASE q < to
  <2>1. /\ digits = t /\ Len(digits) = to - q /\ digits[1] = Char(q)
        /\ IsDecimal(digits) <=> \A i \in q .. to - 1 : Char(i) \in Digit
    <3>1. /\ Len(Lexeme(q, to)) = to - q
          /\ \A i \in 1 .. to - q : Lexeme(q, to)[i] = Char(q + i - 1)
      BY <1>1, <1>3, <1>7, LexemeShape
    <3>2. 1 \in 1 .. to - q /\ q + 1 - 1 = q
      BY <1>1, <1>3, <1>7
    <3>3. IsDecimal(Lexeme(q, to)) <=> \A i \in q .. to - 1 : Char(i) \in Digit
      BY <1>1, <1>3, <1>7, LexemeKinds
    <3>4. Lexeme(q, to)[1] = Char(q)
      BY <3>1, <3>2
    <3>5. QED BY <1>2, <1>7, <3>1, <3>3, <3>4
  <2>2. /\ to - q \in Nat \ {0} /\ to - from - 1 = to - q /\ to - from > 1
        /\ to - from > 2 <=> q + 1 < to
    BY <1>1, <1>7
  <2>3. SubSeq(memory, q, to - 1) = t
    BY DEF Lexeme
  <2> HIDE DEF t, q
  <2>4. ASSUME NEW v \in Nat, v <= MaxVariable, number = [ok |-> TRUE, number |-> v],
               Char(from) = "x", ~(q + 1 < to /\ Char(q) = "0")
        PROVE  read = [ok |-> TRUE, variable |-> v]
    <3>1. PICK m, n : m = memory /\ n = to - from
      OBVIOUS
    <3>2. /\ parse_number(m, from + 1, n - 1) = [ok |-> TRUE, number |-> v]
          /\ CharIn(m, from) = "x" /\ n > 1 /\ ~(n > 2 /\ CharIn(m, from + 1) = "0")
          /\ v \in 0 .. MaxVariable
      BY <2>2, <2>4, <3>1, NumbersAssumption DEF Char, q
    <3>3. parse_ident(m, from, n) = [ok |-> TRUE, variable |-> v]
      BY <3>2, IdentReads
    <3>4. QED BY <3>1, <3>3
  <2>5. ASSUME \/ Char(from) # "x"
               \/ q + 1 < to /\ Char(q) = "0"
               \/ ~number.ok
               \/ number.number \notin 0 .. MaxVariable
        PROVE  ~read.ok
    <3>1. PICK m, n : m = memory /\ n = to - from
      OBVIOUS
    <3>2. \/ CharIn(m, from) # "x"
          \/ n > 2 /\ CharIn(m, from + 1) = "0"
          \/ ~parse_number(m, from + 1, n - 1).ok
          \/ parse_number(m, from + 1, n - 1).number \notin 0 .. MaxVariable
      BY <2>2, <2>5, <3>1 DEF Char, q
    <3>3. ~parse_ident(m, from, n).ok
      BY <3>2, IdentRefuses
    <3>4. QED BY <3>1, <3>3
  <2>6. CASE Char(q) \notin Digit
    <3>1. Char(q) \in NoNumber
      BY <1>4, <1>7, <2>6 DEF WordChar, NoNumber
    <3>2. parse_number(memory, q, to - q) = [ok |-> to = q, number |-> 0]
      BY <1>1, <1>3, <1>7, <3>1, OtherRight
    <3>3. to # q
      BY <1>1, <1>3, <1>7
    <3>4. ~number.ok
      <4>1. parse_number(memory, q, to - q) = [ok |-> FALSE, number |-> 0]
        BY <3>2, <3>3
      <4>2. number = [ok |-> FALSE, number |-> 0]
        BY <2>2, <4>1
      <4>3. QED BY <4>2
    <3>5. ~IsDecimal(digits)
      <4>1. q \in q .. to - 1
        BY <1>1, <1>3, <1>7
      <4>2. QED BY <2>1, <2>6, <4>1
    <3>6. QED BY <1>5, <2>5, <3>4, <3>5
  <2>7. CASE Char(q) = "0" /\ q + 1 < to
    <3>1. ~read.ok
      BY <2>5, <2>7
    <3>2. Len(digits) # 1
      BY <1>1, <1>3, <2>1, <2>7
    <3>3. QED BY <1>5, <2>1, <2>7, <3>1, <3>2
  <2>8. CASE Char(q) \in Digit /\ ~(Char(q) = "0" /\ q + 1 < to)
    <3> DEFINE b == IF Char(q) = "0" THEN 8 ELSE 10
               e == SpanEnd(memory, q, DigitsOf(b))
               v == ValueIn(SubSeq(memory, q, e - 1), b)
    <3>1. ~BinaryAt(memory, q, to - q) /\ ~HexAt(memory, q)
      <4>1. CASE Char(q) = "0"
        <5>1. to = q + 1 /\ ~(to - q > 2)
          BY <1>1, <1>3, <1>7, <2>8, <4>1
        <5>2. Char(q + 1) \notin {"x", "X"}
          BY <1>4, <5>1 DEF WordChar, Alpha
        <5>3. QED BY <5>1, <5>2 DEF BinaryAt, HexAt, Char
      <4>2. CASE Char(q) # "0"
        BY <4>2 DEF BinaryAt, HexAt, Char
      <4>3. QED BY <4>1, <4>2
    <3>2. Parses(memory, q, to - q, q, b)
      BY <3>1 DEF Parses, ReadsFrom, Char
    <3>3. DigitsOf(b) = (IF Char(q) = "0" THEN OctalDigit ELSE Digit) /\ NUL \notin DigitsOf(b)
      BY DigitsOfIs, DigitClasses, CharClasses
    <3>4. Char(q) \in DigitsOf(b)
      BY <2>8, <3>3, DigitClasses
    <3>5. ParsesTo(memory, q, to - q, e, v)
      BY <1>1, <1>3, <3>2, <3>4, ParseHere
    <3>6. q + (to - q) = to
      BY <1>1, <1>3
    <3>7. /\ e \in Nat /\ Char(e) \notin DigitsOf(b)
          /\ \A i \in q .. e - 1 : Char(i) \in DigitsOf(b)
      BY <1>1, <1>3, <3>3, SpanShape DEF Char
    <3>8. Char(to) \notin Digit /\ OctalDigit \subseteq Digit
      BY <1>4, DigitClasses DEF WordChar
    <3>9. e = to <=> IsDecimal(digits)
      <4>1. ASSUME e = to PROVE \A i \in q .. to - 1 : Char(i) \in Digit
        BY <3>3, <3>7, <3>8, <4>1
      <4>2. ASSUME \A i \in q .. to - 1 : Char(i) \in Digit PROVE e = to
        <5>1. \A i \in q .. to - 1 : Char(i) \in DigitsOf(b)
          <6>1. CASE Char(q) = "0"
            <7>1. \A i \in q .. to - 1 : i = q
              BY <1>1, <1>3, <1>7, <2>8, <6>1
            <7>2. QED BY <3>4, <7>1
          <6>2. CASE Char(q) # "0"
            BY <3>3, <4>2, <6>2
          <6>3. QED BY <6>1, <6>2
        <5>2. Run(q, to, DigitsOf(b)) /\ q <= to
          BY <1>1, <1>3, <1>7, <3>3, <3>8, <5>1 DEF Run
        <5> HIDE DEF b
        <5>3. QED BY <1>1, <1>3, <3>3, <5>2, RunIs
      <4>3. QED BY <2>1, <4>1, <4>2
    <3> HIDE DEF e, v
    <3>10. CASE e # to
      <4>1. ~number.ok
        BY <2>2, <3>5, <3>6, <3>10 DEF ParsesTo
      <4>2. QED BY <1>5, <2>5, <3>9, <3>10, <4>1
    <3>11. CASE e = to
      <4>1. v \in Nat /\ number = [ok |-> TRUE, number |-> AtMost(v, MaxNumber)]
        BY <2>2, <3>5, <3>6, <3>11 DEF ParsesTo
      <4>2. v = ValueIn(t, b) /\ v = ValueIn(digits, b)
        BY <2>1, <2>3, <3>11 DEF v
      <4>3. v = ValueIn(digits, 10)
        <5>1. CASE Char(q) = "0"
          <6>1. to = q + 1 /\ Len(digits) = 1
            BY <1>1, <1>3, <1>7, <2>1, <2>8, <5>1
          <6>2. DOMAIN digits = 1 .. 1
            <7>1. Lexeme(q, to) \in Seq(STRING)
              BY <1>1, <1>3, <1>7, LexemeShape
            <7>2. QED BY <2>1, <6>1, <7>1 DEF t
          <6>3. 8 ^ 0 = 1 /\ 10 ^ 0 = 1
            BY DigitPowersAssumption
          <6>4. ValueIn(digits, 8) = 0 /\ ValueIn(digits, 10) = 0
            BY <2>1, <5>1, <6>1, <6>2, <6>3, ZeroValue
          <6>5. QED BY <4>2, <5>1, <6>4
        <5>2. CASE Char(q) # "0"
          BY <4>2, <5>2
        <5>3. QED BY <5>1, <5>2
      <4>4. digits[1] = "0" => Len(digits) = 1
        BY <1>1, <1>3, <1>7, <2>1, <2>8
      <4>5. Named <=> Char(from) = "x" /\ v <= MaxVariable
        BY <1>2, <3>9, <3>11, <4>3, <4>4
      <4>6. /\ MaxNumber \in Nat /\ MaxVariable \in Nat /\ MaxVariable < MaxNumber
        BY NumbersAssumption
      <4> HIDE DEF Named, number, read
      <4>7. CASE Named
        <5>1. AtMost(v, MaxNumber) = v /\ v <= MaxVariable /\ Char(from) = "x"
          BY <4>1, <4>5, <4>6, <4>7 DEF AtMost
        <5>2. read = [ok |-> TRUE, variable |-> v]
          BY <2>4, <2>8, <4>1, <5>1
        <5>3. QED BY <1>5, <4>3, <4>7, <5>2 DEF Named
      <4>8. CASE ~Named
        <5>1. Char(from) # "x" \/ number.number \notin 0 .. MaxVariable
          BY <4>1, <4>5, <4>6, <4>8 DEF AtMost
        <5>2. ~read.ok
          BY <2>5, <5>1
        <5>3. QED BY <1>5, <4>8, <5>2
      <4>9. QED BY <4>7, <4>8
    <3>12. QED BY <3>10, <3>11
  <2>9. QED BY <2>6, <2>7, <2>8
<1>8. QED BY <1>3, <1>6, <1>7

-----------------------------------------------------------------------------
(* What is read of the tokens.                                             *)

(* What NumbersExact and RegistersExact say of one token.                  *)
RightIn(m, token, from, to) ==
    LET s == SubSeq(m, from, to - 1)
        digits == Tail(s)
        read == parse_number(m, token.lexeme, token.length)
        variable == parse_ident(m, token.lexeme, token.length)
        swallowed == s = <<"0">> /\ CharIn(m, to) = "X" /\ CharIn(m, to + 1) \in HexDigit
    IN  /\ token.type # "ERR" =>
               CASE token.type = "NUM" ->
                        IF (IsDecimal(s) /\ s[1] = "0" /\ ~All(s, 1, OctalDigit)) \/ swallowed
                        THEN ~read.ok
                        ELSE read = [ok |-> TRUE, number |-> Min({MaxNumber, Value(s)})]
                 [] token.type = "EOF" -> read = [ok |-> TRUE, number |-> 0]
                 [] token.type = "STR" -> TRUE
                 [] OTHER -> ~read.ok
        /\ token.type = "IDENT" =>
               IF /\ s[1] = "x" /\ IsDecimal(digits)
                  /\ digits[1] = "0" => Len(digits) = 1
                  /\ ValueIn(digits, 10) <= MaxVariable
               THEN variable = [ok |-> TRUE, variable |-> ValueIn(digits, 10)]
               ELSE ~variable.ok

(* The same of all tokens.                                                 *)
ReadsIn(m, ts, ss) == \A k \in DOMAIN ts : RightIn(m, ts[k], ss[k].from, ss[k].to)

(* The two properties together, in terms of the variables they read.       *)
LEMMA ReadsAre == NumbersExact /\ RegistersExact <=> ReadsIn(memory, tokens, spans)
<1>1. NumbersExact /\ RegistersExact => ReadsIn(memory, tokens, spans)
  BY DEF NumbersExact, RegistersExact, ReadsIn, RightIn, Lexeme, Char
<1>2. ReadsIn(memory, tokens, spans) => NumbersExact
  BY DEF NumbersExact, ReadsIn, RightIn, Lexeme, Char
<1>3. ReadsIn(memory, tokens, spans) => RegistersExact
  BY DEF RegistersExact, ReadsIn, RightIn, Lexeme, Char
<1>4. QED BY <1>1, <1>2, <1>3

(* The invariant that is inductive with MInv.                              *)
SourceRead == SourceIs /\ ReadsIn(memory, tokens, spans)

(* Giving a token keeps what is read of the others.                        *)
LEMMA GiveReads ==
    ASSUME MInv, SourceRead, NEW token, NEW start, NEW to, NEW line, NEW column,
           Give(token, start, to, line, column), RightIn(memory, token, Skipped, to)
    PROVE  SourceRead'
<1>1. memory' = memory /\ text' = text /\ SourceIs'
  BY DEF Give, SourceRead, SourceIs
<1>2. CASE mode = "printing" /\ token.type \in {"ERR", "EOF"}
  <2>1. tokens' = <<>>
    BY <1>2 DEF Give, Restart
  <2>2. ReadsIn(memory, tokens', spans')
    BY <2>1 DEF ReadsIn
  <2>3. QED BY <1>1, <2>2 DEF SourceRead
<1>3. CASE ~(mode = "printing" /\ token.type \in {"ERR", "EOF"})
  <2>1. PICK n, from : n \in Nat /\ n = Len(tokens) + 1 /\ from = Skipped
    BY DEF MInv, IInv, Reading
  <2>2. Adds(token, from, to, n)
    BY <1>3, <2>1 DEF Give, Adds
  <2>3. /\ DOMAIN tokens' = 1 .. n /\ DOMAIN tokens = 1 .. n - 1
        /\ tokens'[n] = token /\ spans'[n].from = from /\ spans'[n].to = to
        /\ \A k \in DOMAIN tokens : tokens'[k] = tokens[k] /\ spans'[k] = spans[k]
    BY <2>2, GivesOne
  <2>4. ASSUME NEW k \in DOMAIN tokens'
        PROVE  RightIn(memory, tokens'[k], spans'[k].from, spans'[k].to)
    <3>1. CASE k = n
      BY <2>1, <2>3, <3>1
    <3>2. CASE k # n
      <4>1. k \in DOMAIN tokens
        BY <2>1, <2>3, <3>2
      <4>2. RightIn(memory, tokens[k], spans[k].from, spans[k].to)
        BY <4>1 DEF SourceRead, ReadsIn
      <4>3. QED BY <2>3, <4>1, <4>2
    <3>3. QED BY <3>1, <3>2
  <2>5. ReadsIn(memory, tokens', spans')
    BY <2>4 DEF ReadsIn
  <2>6. QED BY <1>1, <2>5 DEF SourceRead
<1>4. QED BY <1>2, <1>3

(* Giving a token of characters from where reading begins.                 *)
LEMMA MadeReads ==
    ASSUME MInv, SourceRead, NEW type, NEW start, NEW to, NEW line, NEW column, NEW l, NEW c,
           Give(make_token(type, Skipped, to, l, c), start, to, line, column),
           type = "NUM" => NumberRight(Skipped, to),
           type = "IDENT" => RegisterRight(Skipped, to),
           type = "EOF" => parse_number(memory, Skipped, to - Skipped) = [ok |-> TRUE, number |-> 0],
           type \notin {"NUM", "EOF", "STR", "ERR"} =>
               ~parse_number(memory, Skipped, to - Skipped).ok
    PROVE  SourceRead'
<1> DEFINE token == make_token(type, Skipped, to, l, c)
<1>1. token.type = type /\ token.lexeme = Skipped /\ token.length = to - Skipped
  BY DEF make_token
<1> HIDE DEF token
<1>2. ASSUME type = "IDENT" PROVE RightIn(memory, token, Skipped, to)
  BY <1>1, <1>2 DEF RightIn, RegisterRight, Lexeme
<1>3. ASSUME type = "NUM" PROVE RightIn(memory, token, Skipped, to)
  BY <1>1, <1>3 DEF RightIn, NumberRight, Lexeme, Char
<1>4. ASSUME type \notin {"IDENT", "NUM"} PROVE RightIn(memory, token, Skipped, to)
  BY <1>1, <1>4 DEF RightIn
<1>5. RightIn(memory, token, Skipped, to)
  BY <1>2, <1>3, <1>4
<1>6. Give(token, start, to, line, column)
  BY DEF token
<1>7. QED BY <1>5, <1>6, GiveReads

(* Nothing is claimed of an error token.                                   *)
LEMMA ErrorReads ==
    ASSUME MInv, SourceRead, NEW message, NEW to, GiveError(message, to)
    PROVE  SourceRead'
<1> DEFINE token == error_token(message, ColumnAt(to))
<1>1. token.type = "ERR"
  BY DEF error_token
<1> HIDE DEF token
<1>2. RightIn(memory, token, Skipped, to)
  BY <1>1 DEF RightIn
<1>3. Give(token, Skipped, to, current_line, ColumnAt(to))
  BY DEF GiveError, token
<1>4. QED BY <1>2, <1>3, GiveReads

(* A token from where reading begins, without a NUL, lies in the memory.   *)
LEMMA CoversIs ==
    ASSUME MInv, SourceRead, NEW to \in Nat, Skipped < to,
           \A i \in Skipped .. to - 1 : Char(i) # NUL
    PROVE  Covers(Skipped, to)
<1>1. Skipped \in Nat \ {0} /\ memory \in Seq(STRING) /\ Len(memory) \in Nat
  BY Where
<1>2. to - 1 \in Nat /\ to - 1 \in Skipped .. to - 1
  BY <1>1
<1>3. to - 1 <= Len(memory)
  BY <1>1, <1>2, CharNat
<1>4. to \in Skipped + 1 .. Len(memory) + 1
  BY <1>1, <1>3
<1>5. QED BY <1>1, <1>4 DEF Covers, SourceRead

(* A word is read as RegistersExact says.                                  *)
LEMMA WordReads == ASSUME MInv, SourceRead, make_ident PROVE SourceRead'
<1> DEFINE to == End(Skipped, WordChar)
           type == ident_type(Lexeme(Skipped, to))
<1>1. First \in Alpha /\ GiveTo(type, to)
  BY DEF make_ident
<1>2. Skipped \in Nat \ {0} /\ memory \in Seq(STRING) /\ First = Char(Skipped)
  BY Where
<1>3. /\ to \in Nat /\ to >= Skipped /\ Char(to) \notin WordChar
      /\ \A i \in Skipped .. to - 1 : Char(i) \in WordChar /\ Char(i) # NUL
  BY <1>2, CharClasses, EndShape
<1>4. type \notin {"EOF", "ERR", "STR"}
  BY TypesShape
<1>5. type # "NUM"
  BY ReservedAssumption DEF ident_type
<1> HIDE DEF to, type
<1>6. to # Skipped
  BY <1>1, <1>2, <1>3 DEF WordChar
<1>7. Skipped < to
  BY <1>2, <1>3, <1>6
<1>8. Covers(Skipped, to)
  BY <1>3, <1>7, CoversIs
<1>9. RegisterRight(Skipped, to)
  <2>1. Run(Skipped, to, WordChar) /\ Char(Skipped) \in Alpha
    BY <1>1, <1>2, <1>3 DEF Run
  <2>2. PICK from : from = Skipped
    OBVIOUS
  <2>3. Covers(from, to) /\ Run(from, to, WordChar) /\ Char(from) \in Alpha
    BY <1>8, <2>1, <2>2
  <2>4. RegisterRight(from, to)
    BY <2>3, RegisterIs
  <2>5. QED BY <2>2, <2>4
<1>10. ~parse_number(memory, Skipped, to - Skipped).ok
  <2>1. Char(Skipped) \in NoNumber /\ Skipped <= to
    BY <1>1, <1>2, <1>3 DEF NoNumber
  <2>2. parse_number(memory, Skipped, to - Skipped) = [ok |-> to = Skipped, number |-> 0]
    BY <1>2, <1>3, <2>1, OtherRight
  <2>3. parse_number(memory, Skipped, to - Skipped) = [ok |-> FALSE, number |-> 0]
    BY <1>6, <2>2
  <2>4. QED BY <2>3
<1>11. QED BY <1>1, <1>4, <1>5, <1>9, <1>10, MadeReads DEF GiveTo

(* A decimal number is read as NumbersExact says.                          *)
LEMMA NumberReads == ASSUME MInv, SourceRead, make_number PROVE SourceRead'
<1> DEFINE to == End(Skipped, Digit)
<1>1. First \in Digit /\ ~HasBase /\ GiveTo("NUM", to)
  BY DEF make_number
<1>2. Skipped \in Nat \ {0} /\ memory \in Seq(STRING) /\ First = Char(Skipped)
  BY Where
<1>3. /\ to \in Nat /\ to >= Skipped /\ Char(to) \notin Digit
      /\ \A i \in Skipped .. to - 1 : Char(i) \in Digit /\ Char(i) # NUL
  BY <1>2, CharClasses, EndShape
<1> HIDE DEF to
<1>4. Skipped < to
  <2>1. to # Skipped
    BY <1>1, <1>2, <1>3
  <2>2. QED BY <1>2, <1>3, <2>1
<1>5. Covers(Skipped, to)
  BY <1>3, <1>4, CoversIs
<1>6. Run(Skipped, to, Digit) /\ ~(Char(Skipped) = "0" /\ Char(Skipped + 1) \in {"b", "x"})
  BY <1>1, <1>2, <1>3 DEF Run, HasBase
<1>7. NumberRight(Skipped, to)
  <2>1. PICK from : from = Skipped
    OBVIOUS
  <2>2. /\ Covers(from, to) /\ Run(from, to, Digit)
        /\ ~(Char(from) = "0" /\ Char(from + 1) \in {"b", "x"})
    BY <1>5, <1>6, <2>1
  <2>3. NumberRight(from, to)
    BY <2>2, DecimalRight
  <2>4. QED BY <2>1, <2>3
<1>8. QED BY <1>1, <1>7, MadeReads DEF GiveTo

(* So is a number with a prefix.                                           *)
LEMMA BasedReads == ASSUME MInv, SourceRead, make_based PROVE SourceRead'
<1> DEFINE to == End(Skipped + 2, BaseDigits)
<1>1. /\ First \in Digit /\ HasBase /\ Char(Skipped + 2) \in BaseDigits
      /\ GiveTo("NUM", to)
  BY DEF make_based
<1>2. Skipped \in Nat \ {0} /\ memory \in Seq(STRING) /\ First = Char(Skipped)
  BY Where
<1>3. /\ First = "0" /\ Char(Skipped + 1) \in {"b", "x"} /\ NUL \notin BaseDigits
      /\ BaseDigits = IF Char(Skipped + 1) = "b" THEN BinaryDigit ELSE HexDigit
      /\ \A i \in {Skipped, Skipped + 1} : Char(i) # NUL
  BY <1>1, BaseShape
<1>4. /\ to \in Nat /\ to >= Skipped + 2 /\ Char(to) \notin BaseDigits
      /\ \A i \in Skipped + 2 .. to - 1 : Char(i) \in BaseDigits /\ Char(i) # NUL
  <2>1. Skipped + 2 \in Nat \ {0}
    BY <1>2
  <2>2. QED BY <1>3, <2>1, EndShape
<1> HIDE DEF to
<1>5. Skipped + 2 < to
  <2>1. to # Skipped + 2
    BY <1>1, <1>4
  <2>2. QED BY <1>2, <1>4, <2>1
<1>6. Covers(Skipped, to)
  <2>1. \A i \in Skipped .. to - 1 : i \in {Skipped, Skipped + 1} \/ i \in Skipped + 2 .. to - 1
    BY <1>2, <1>4
  <2>2. \A i \in Skipped .. to - 1 : Char(i) # NUL
    BY <1>3, <1>4, <2>1
  <2>3. Skipped < to
    BY <1>2, <1>4, <1>5
  <2>4. QED BY <1>4, <2>2, <2>3, CoversIs
<1>7. \/ Char(Skipped + 1) = "b" /\ Run(Skipped + 2, to, BinaryDigit)
      \/ Char(Skipped + 1) = "x" /\ Run(Skipped + 2, to, HexDigit)
  <2>1. Run(Skipped + 2, to, BaseDigits) /\ "b" # "x"
    BY <1>4 DEF Run
  <2>2. QED BY <1>3, <2>1
<1>8. NumberRight(Skipped, to)
  <2>1. PICK from : from = Skipped
    OBVIOUS
  <2>2. /\ Covers(from, to) /\ from + 2 < to /\ Char(from) = "0"
        /\ \/ Char(from + 1) = "b" /\ Run(from + 2, to, BinaryDigit)
           \/ Char(from + 1) = "x" /\ Run(from + 2, to, HexDigit)
    BY <1>2, <1>3, <1>5, <1>6, <1>7, <2>1
  <2>3. NumberRight(from, to)
    BY <2>2, BasedRight
  <2>4. QED BY <2>1, <2>3
<1>9. QED BY <1>1, <1>8, MadeReads DEF GiveTo

(* What starts no number, by its first character.                          *)
LEMMA SingleReads ==
    ASSUME MInv, SourceRead, First \in NoNumber, NEW to, to = Skipped + 1
    PROVE  ~parse_number(memory, Skipped, to - Skipped).ok
<1>1. Skipped \in Nat \ {0} /\ memory \in Seq(STRING) /\ First = Char(Skipped)
  BY Where
<1>2. to \in Nat /\ Skipped <= to /\ to # Skipped
  BY <1>1
<1>3. parse_number(memory, Skipped, to - Skipped) = [ok |-> to = Skipped, number |-> 0]
  BY <1>1, <1>2, OtherRight
<1>4. parse_number(memory, Skipped, to - Skipped) = [ok |-> FALSE, number |-> 0]
  BY <1>2, <1>3
<1>5. QED BY <1>4

(* A sign is no number.                                                    *)
LEMMA SignReads == ASSUME MInv, SourceRead, make_sign PROVE SourceRead'
<1> DEFINE to == Skipped + 1
           type == Sign[First]
<1>1. First \in Signs /\ GiveTo(type, to)
  BY DEF make_sign, Signs
<1>2. type \notin {"EOF", "ERR", "STR", "NUM", "IDENT"}
  BY <1>1 DEF Sign, Signs
<1>3. First \in NoNumber
  BY <1>1 DEF NoNumber
<1> HIDE DEF type
<1>4. ~parse_number(memory, Skipped, to - Skipped).ok
  BY <1>3, SingleReads
<1> HIDE DEF to
<1>5. QED BY <1>1, <1>2, <1>4, MadeReads DEF GiveTo

(* Neither is the end of a line.                                           *)
LEMMA LineReads == ASSUME MInv, SourceRead, make_newline PROVE SourceRead'
<1> DEFINE to == Skipped + 1
           token == make_token("NL", Skipped, to, current_line, ColumnAt(to))
<1>1. Skipped \in Nat \ {0} /\ memory \in Seq(STRING) /\ First = Char(Skipped)
  BY Where
<1>2. CASE First = Newline /\ Give(token, Skipped, to, current_line + 1, 1)
  <2>1. PICK from : from = Skipped
    OBVIOUS
  <2>2. from \in Nat \ {0} /\ Char(from) = Newline
    BY <1>1, <1>2, <2>1
  <2>3. ~parse_number(memory, from, 1).ok
    BY <1>1, <2>2, NewlineRight
  <2>4. to - Skipped = 1
    BY <1>1
  <2>5. ~parse_number(memory, Skipped, to - Skipped).ok
    BY <2>1, <2>3, <2>4
  <2> HIDE DEF to
  <2>6. QED BY <1>2, <2>5, MadeReads
<1>3. CASE First = ";" /\ GiveTo("NL", to)
  <2>1. First \in NoNumber
    BY <1>3 DEF NoNumber
  <2>2. ~parse_number(memory, Skipped, to - Skipped).ok
    BY <2>1, SingleReads
  <2>3. Give(token, Skipped, to, current_line, ColumnAt(to))
    BY <1>3 DEF GiveTo
  <2> HIDE DEF to
  <2>4. QED BY <2>2, <2>3, MadeReads
<1>4. QED BY <1>2, <1>3 DEF make_newline

(* The end of file is read as 0.                                           *)
LEMMA EndReads == ASSUME MInv, SourceRead, end_of_text PROVE SourceRead'
<1>1. First = NUL /\ GiveTo("EOF", Skipped)
  BY DEF end_of_text
<1>2. /\ Skipped \in Nat \ {0} /\ Skipped \in Nat /\ memory \in Seq(STRING)
      /\ First = Char(Skipped) /\ Skipped <= Skipped
  BY Where
<1>3. Char(Skipped) \in NoNumber
  BY <1>1, <1>2 DEF NoNumber
<1>4. parse_number(memory, Skipped, Skipped - Skipped) = [ok |-> Skipped = Skipped, number |-> 0]
  BY <1>2, <1>3, OtherRight
<1>5. parse_number(memory, Skipped, Skipped - Skipped) = [ok |-> TRUE, number |-> 0]
  BY <1>4
<1>6. QED BY <1>1, <1>5, MadeReads DEF GiveTo

(* Nothing is claimed of the number of a string.                           *)
LEMMA StringReads == ASSUME MInv, SourceRead, make_string PROVE SourceRead'
<1>1. PICK from, to, l, c, start, end, line, column :
          Give(make_token("STR", from, to, l, c), start, end, line, column)
  BY DEF make_string
<1> DEFINE token == make_token("STR", from, to, l, c)
<1>2. token.type = "STR"
  BY DEF make_token
<1> HIDE DEF token
<1>3. RightIn(memory, token, Skipped, end)
  BY <1>2 DEF RightIn
<1>4. Give(token, start, end, line, column)
  BY <1>1 DEF token
<1>5. QED BY <1>3, <1>4, GiveReads

(* An error keeps what is read of the others.                              *)
LEMMA FailReads == ASSUME MInv, SourceRead, BadBase \/ Unexpected PROVE SourceRead'
  BY ErrorReads DEF BadBase, Unexpected

(* Before the first token there is nothing to read.                        *)
LEMMA InitReads == ASSUME Init PROVE SourceRead
<1>1. SourceIs
  BY DEF Init, SourceIs
<1>2. ReadsIn(memory, tokens, spans)
  BY DEF Init, ReadsIn
<1>3. QED BY <1>1, <1>2 DEF SourceRead

(* Every step keeps what is read of the tokens.                            *)
LEMMA NextReads == ASSUME MInv, SourceRead, [Next]_vars PROVE SourceRead'
<1>1. CASE Next
  BY <1>1, EndReads, WordReads, NumberReads, BasedReads, LineReads, SignReads, StringReads,
     FailReads DEF Next, lexer_next_token
<1>2. CASE UNCHANGED vars
  <2>1. memory' = memory /\ text' = text /\ tokens' = tokens /\ spans' = spans
    BY <1>2 DEF vars
  <2>2. SourceIs'
    BY <2>1 DEF SourceRead, SourceIs
  <2>3. QED BY <2>1, <2>2 DEF SourceRead
<1>3. QED BY <1>1, <1>2

(* What the parser reads of a token depends on the text alone, which no    *)
(* step changes.                                                           *)
THEOREM ReadInvariance == Spec => [](MInv /\ SourceRead)
<1>1. Init => MInv /\ SourceRead
  BY InitHolds, InitReads
<1>2. MInv /\ SourceRead /\ [Next]_vars => (MInv /\ SourceRead)'
  BY NextKeeps, NextReads
<1>3. QED BY <1>1, <1>2, PTL DEF Spec

(* parse_number makes of every number token its value, or the largest      *)
(* number when that is smaller; it refuses octal numbers with an 8 or a 9, *)
(* a 0 whose X strtoll takes for its own, and all tokens but numbers,      *)
(* strings and the end of file.                                            *)
THEOREM NumbersRead == Spec => []NumbersExact
<1>1. SourceRead => NumbersExact
  BY ReadsAre DEF SourceRead
<1>2. QED BY <1>1, ReadInvariance, PTL

(* parse_ident takes exactly x and a decimal number, without leading       *)
(* zeros, up to the last variable, and gives that number.                  *)
THEOREM RegistersRead == Spec => []RegistersExact
<1>1. SourceRead => RegistersExact
  BY ReadsAre DEF SourceRead
<1>2. QED BY <1>1, ReadInvariance, PTL
=============================================================================
