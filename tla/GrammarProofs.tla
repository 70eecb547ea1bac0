--------------------------- MODULE GrammarProofs ---------------------------
(* The turns of parse_commands against the reference grammar of Parser:    *)
(* an error is reported for the sources that are not legal, and no others. *)
EXTENDS ParserProofs

(* There is a command or a bad line between two lines. *)
Between(q, r) == \E s \in LineStarts : q <= s /\ s < r /\ ~Blank(s)

(* The lines before c are right, but for the one of the pending label l. *)
LinesFit(c, l) == \A q \in LineStarts : q < c /\ q # l => Blank(q) \/ Statement(Body(q))

(* Two labels before c are not for the same command, and only a pending    *)
(* label waits for its command.                                            *)
LabelsApart(c) == \A q, r \in LineStarts : q < r /\ r < c /\ HasLabel(q) /\ HasLabel(r) =>
                      Between(q, r)
LabelsUsed(c) == \A q \in LineStarts : q < c /\ HasLabel(q) => Between(q, c)

(* A turn begins behind a label, or at the start or the end of a line. *)
BehindLabel(c, l) == c = l + 2 /\ l \in LineStarts /\ HasLabel(l) /\ TokenAt(c).type # "EOF"
AtEdge(c) == c \in LineStarts \/ TokenAt(c).type \in {"NL", "EOF"}

RightSoFar(c, l) == /\ IF l = NULL THEN AtEdge(c) /\ LabelsUsed(c) ELSE BehindLabel(c, l)
                    /\ LinesFit(c, l)
                    /\ LabelsApart(c)

GInv == /\ IInv
        /\ ErrorsExact
        /\ phase = "parsing" /\ ~oom => RightSoFar(current, pending)

-----------------------------------------------------------------------------

LEMMA NewlineIsBlank ==
    ASSUME NEW q, TokenAt(q).type = "NL"
    PROVE  Blank(q) /\ ~HasLabel(q) /\ Body(q) = q
  BY DEF Blank, HasLabel, Body

(* The grammar's statements are the lines that parse_cmd takes. *)
LEMMA StatementIsLine ==
    ASSUME source \in Seq(Token), NEW p \in 1 .. Len(source)
    PROVE  Statement(p) <=> IsLine(p)
<1> SUFFICES ASSUME TokenAt(p).type \in Keywords
             PROVE  Statement(p) <=> IsLine(p)
  BY DEF Statement, IsLine
<1> DEFINE slots == Slots(TokenAt(p).type)
           line == Line(TokenAt(p).type)
           k == Filled(p)
<1>1. /\ Len(line) = Len(slots) + 1 /\ line[Len(line)] = "end"
      /\ \A j \in 1 .. Len(slots) : line[j] = slots[j]
  BY LineShape
<1>2. slots \in Seq(SlotKinds) /\ Len(slots) \in Nat /\ DOMAIN slots = 1 .. Len(slots)
  BY SlotsShape
<1>3. /\ k \in 0 .. Len(line)
      /\ \A j \in 1 .. k : Fits(TokenAt(p + j), line[j])
      /\ k < Len(line) => ~Fits(TokenAt(p + k + 1), line[k + 1])
  BY FilledShape
<1>4. \A t : Fits(t, "end") <=> t.type \in {"NL", "EOF"}
  BY DEF Fits
<1>5. Statement(p) <=> /\ \A j \in DOMAIN slots : Fits(TokenAt(p + j), slots[j])
                       /\ TokenAt(p + Len(slots) + 1).type \in {"NL", "EOF"}
  BY DEF Statement
<1>6. IsLine(p) <=> k = Len(line)
  BY DEF IsLine
<1> HIDE DEF slots, line, k
<1>7. CASE k = Len(line)
  <2>1. \A j \in DOMAIN slots : Fits(TokenAt(p + j), slots[j])
    BY <1>1, <1>2, <1>3, <1>7
  <2>2. Fits(TokenAt(p + Len(slots) + 1), "end")
    <3>1. Len(slots) + 1 \in 1 .. k /\ p + (Len(slots) + 1) = p + Len(slots) + 1
      BY <1>1, <1>2, <1>7
    <3>2. QED BY <1>1, <1>3, <1>7, <3>1
  <2>3. QED BY <1>4, <1>5, <1>6, <1>7, <2>1, <2>2
<1>8. CASE k < Len(line)
  <2>1. ~Fits(TokenAt(p + k + 1), line[k + 1])
    BY <1>3, <1>8
  <2>2. ASSUME k < Len(slots) PROVE ~Statement(p)
    <3>1. k + 1 \in DOMAIN slots /\ line[k + 1] = slots[k + 1] /\ p + (k + 1) = p + k + 1
      BY <1>1, <1>2, <1>3, <2>2
    <3>2. ~Fits(TokenAt(p + (k + 1)), slots[k + 1])
      BY <2>1, <3>1
    <3>3. QED BY <1>5, <3>1, <3>2
  <2>3. ASSUME k = Len(slots) PROVE ~Statement(p)
    <3>1. ~Fits(TokenAt(p + Len(slots) + 1), "end")
      BY <1>1, <2>1, <2>3
    <3>2. QED BY <1>4, <1>5, <3>1
  <2>4. k < Len(slots) \/ k = Len(slots)
    <3>1. k \in 0 .. Len(line) /\ Len(line) = Len(slots) + 1 /\ Len(slots) \in Nat
      BY <1>1, <1>2, <1>3
    <3>2. QED BY <1>8, <3>1
  <2>5. ~Statement(p)
    BY <2>2, <2>3, <2>4
  <2>6. ~IsLine(p)
    BY <1>1, <1>3, <1>6, <1>8
  <2>7. QED BY <2>5, <2>6
<1>9. QED BY <1>1, <1>2, <1>3, <1>7, <1>8

LEMMA LineStartsShape ==
    ASSUME source \in Seq(Token)
    PROVE  /\ LineStarts \subseteq 1 .. Len(source)
           /\ \A q \in LineStarts : q = 1 \/ TokenAt(q - 1).type = "NL"
           /\ \A q \in 2 .. Len(source) : TokenAt(q - 1).type = "NL" => q \in LineStarts
           /\ 1 \in LineStarts \/ TokenAt(1).type = "EOF"
<1>1. Len(source) \in Nat
  OBVIOUS
<1>2. \A q \in 2 .. Len(source) : TokenAt(q - 1) = source[q - 1]
  BY <1>1 DEF TokenAt
<1>3. Len(source) < 1 => TokenAt(1) = Eof
  BY <1>1 DEF TokenAt
<1>4. QED BY <1>1, <1>2, <1>3 DEF LineStarts, Positions, Eof

(* Where a turn is: the lines that begin from current to Start are blank,  *)
(* and Start begins a line, unless a label is right before it.             *)
LEMMA TurnInGrammar ==
    ASSUME GInv, Reads, ~oom
    PROVE  /\ source \in Seq(Token) /\ Len(source) \in Nat /\ LineStarts \subseteq 1 .. Len(source)
           /\ source' = source /\ ~had_error /\ phase = "parsing"
           /\ current \in Nat \ {0} /\ current <= Len(source)
           /\ Start \in Nat \ {0} /\ current <= Start /\ Start <= Len(source) + 1
           /\ TokenAt(Start).type # "NL"
           /\ RightSoFar(current, pending)
           /\ \A q \in LineStarts : current <= q /\ q < Start => Blank(q) /\ ~HasLabel(q)
           /\ pending = NULL => Start \in LineStarts \/ TokenAt(Start).type = "EOF"
           /\ Start # current => Start \in LineStarts \/ TokenAt(Start).type = "EOF"
           /\ pending # NULL =>
                  /\ current = pending + 2 /\ pending \in LineStarts /\ HasLabel(pending)
                  /\ Body(pending) = current
                  /\ \A q \in LineStarts : pending < q => current < q
                  /\ Start # current => Blank(pending)
<1>1. /\ source \in Seq(Token) /\ Len(source) \in Nat /\ source' = source
      /\ ~had_error /\ phase = "parsing"
      /\ current \in Nat \ {0} /\ current <= Len(source) + 1
      /\ Start \in current .. Len(source) + 1
  BY AtTurn DEF GInv, IInv, Parsing
<1>2. current <= Len(source)
  BY <1>1, TokenAtShape DEF Reads
<1>3. LineStarts \subseteq 1 .. Len(source)
  BY <1>1, LineStartsShape
<1>4. /\ Start \in Nat \ {0} /\ current <= Start /\ Start <= Len(source) + 1
      /\ TokenAt(Start).type # "NL"
      /\ \A q \in Nat : current <= q /\ q < Start => TokenAt(q).type = "NL"
  BY <1>1, StartShape
<1>5. RightSoFar(current, pending)
  BY <1>1 DEF GInv
<1>6. \A q \in LineStarts : current <= q /\ q < Start => Blank(q) /\ ~HasLabel(q)
  BY <1>3, <1>4, NewlineIsBlank
<1>7. Start # current => Start \in LineStarts \/ TokenAt(Start).type = "EOF"
  <2> SUFFICES ASSUME Start # current, Start <= Len(source) PROVE Start \in LineStarts
    BY <1>1, <1>4, TokenAtShape
  <2>1. TokenAt(Start - 1).type = "NL" /\ Start \in 2 .. Len(source)
    BY <1>1, <1>4
  <2>2. QED BY <1>1, <2>1, LineStartsShape
<1>8. pending = NULL => Start \in LineStarts \/ TokenAt(Start).type = "EOF"
  BY <1>4, <1>5, <1>7 DEF RightSoFar, AtEdge
<1>9. ASSUME pending # NULL
      PROVE  /\ current = pending + 2 /\ pending \in LineStarts /\ HasLabel(pending)
             /\ Body(pending) = current
             /\ \A q \in LineStarts : pending < q => current < q
             /\ Start # current => Blank(pending)
  <2>1. current = pending + 2 /\ pending \in LineStarts /\ HasLabel(pending)
    BY <1>5, <1>9 DEF RightSoFar, BehindLabel
  <2>2. Body(pending) = current
    BY <2>1 DEF Body
  <2>3. pending + 1 \notin LineStarts /\ pending + 2 \notin LineStarts
    <3>1. TokenAt(pending).type # "NL" /\ TokenAt(pending + 1).type # "NL"
      BY <2>1 DEF HasLabel
    <3>2. pending \in Nat \ {0} /\ (pending + 1) - 1 = pending /\ (pending + 2) - 1 = pending + 1
          /\ pending + 1 # 1 /\ pending + 2 # 1
      BY <1>1, <1>3, <2>1
    <3>3. QED BY <1>1, <3>1, <3>2, LineStartsShape
  <2>4. \A q \in LineStarts : pending < q => current < q
    BY <1>1, <1>3, <2>1, <2>3
  <2>5. Start # current => Blank(pending)
    BY <1>1, <1>4, <2>2 DEF Blank
  <2>6. QED BY <2>1, <2>2, <2>4, <2>5
<1>10. QED BY <1>1, <1>2, <1>3, <1>4, <1>5, <1>6, <1>7, <1>8, <1>9

(* The line l that a turn finds when it finds no label. *)
Found(l) == /\ l \in LineStarts
            /\ Body(l) = Start /\ l <= Start /\ ~Blank(l)
            /\ \A q \in LineStarts : q <= Start => q <= l
            /\ pending # NULL => pending = l \/ Blank(pending)

LEMMA LineFound ==
    ASSUME GInv, Reads, ~oom, ~AtLabel, TokenAt(Start).type # "EOF"
    PROVE  \E l : Found(l)
<1>1. /\ current \in Nat \ {0} /\ Start \in Nat \ {0} /\ current <= Start
      /\ LineStarts \subseteq 1 .. Len(source) /\ Len(source) \in Nat
      /\ TokenAt(Start).type # "NL"
      /\ pending = NULL => Start \in LineStarts
      /\ Start # current => Start \in LineStarts
      /\ pending # NULL => /\ current = pending + 2 /\ pending \in LineStarts
                           /\ Body(pending) = current
                           /\ \A q \in LineStarts : pending < q => current < q
                           /\ Start # current => Blank(pending)
  BY TurnInGrammar
<1>2. \A q \in LineStarts : q \in Nat
  BY <1>1
<1> DEFINE l == pending
<1>3. pending # NULL => /\ l \in Nat /\ l \in LineStarts /\ l < current
                        /\ \A q \in LineStarts : l < q => current < q
  <2> SUFFICES ASSUME pending # NULL
               PROVE  /\ l \in Nat /\ l \in LineStarts /\ l < current
                      /\ \A q \in LineStarts : l < q => current < q
    OBVIOUS
  <2>1. l \in LineStarts /\ current = l + 2
    BY <1>1
  <2>2. l \in Nat
    BY <1>2, <2>1
  <2>3. \A q \in LineStarts : l < q => current < q
    BY <1>1
  <2> HIDE DEF l
  <2>4. l < current
    BY <2>1, <2>2
  <2>5. QED BY <2>1, <2>2, <2>3, <2>4
<1>4. CASE Start \in LineStarts
  <2>1. ~HasLabel(Start)
    BY DEF AtLabel, HasLabel
  <2>2. Body(Start) = Start
    BY <2>1 DEF Body
  <2>3. ~Blank(Start)
    BY <1>1, <2>2 DEF Blank
  <2>4. pending # NULL => Blank(pending)
    <3> SUFFICES ASSUME pending # NULL PROVE Start # current
      BY <1>1
    <3>1. l < Start => current < Start
      BY <1>4, <1>3
    <3>2. QED BY <1>1, <1>3, <3>1
  <2>5. Found(Start)
    BY <1>1, <1>4, <2>2, <2>3, <2>4 DEF Found
  <2>6. QED BY <2>5
<1>5. CASE Start \notin LineStarts
  <2>1. Start = current /\ pending # NULL
    BY <1>1, <1>5
  <2>2. pending \in LineStarts /\ Body(pending) = Start /\ pending <= Start
    BY <1>1, <1>3, <2>1
  <2>3. ~Blank(pending)
    BY <1>1, <2>2 DEF Blank
  <2>4. \A q \in LineStarts : q <= Start => q <= pending
    <3> SUFFICES ASSUME NEW q \in LineStarts, q <= Start, ~(q <= l) PROVE FALSE
      OBVIOUS
    <3>1. q \in Nat /\ l \in Nat /\ l < q
      BY <1>2, <1>3, <2>1
    <3>2. current < q
      BY <1>3, <2>1, <3>1
    <3>3. QED BY <1>1, <2>1, <3>1, <3>2
  <2>5. Found(pending)
    BY <2>2, <2>3, <2>4 DEF Found
  <2>6. QED BY <2>5
<1>6. QED BY <1>4, <1>5

-----------------------------------------------------------------------------
(* The ways out of the loop with memory enough.                            *)

(* When the end of the file is reached, all lines are right. *)
LEMMA LegalAtEnd ==
    ASSUME GInv, Reads, ~oom, TokenAt(Start).type = "EOF"
    PROVE  Legal
<1>1. /\ source \in Seq(Token) /\ Len(source) \in Nat /\ LineStarts \subseteq 1 .. Len(source)
      /\ current \in Nat /\ current <= Len(source) /\ Start \in Nat \ {0}
      /\ RightSoFar(current, pending)
      /\ \A q \in LineStarts : current <= q /\ q < Start => Blank(q) /\ ~HasLabel(q)
      /\ pending # NULL => pending < current /\ Blank(pending)
  <2>1. Start # current
    BY TurnInGrammar, TokenAtShape
  <2>2. QED BY <2>1, TurnInGrammar
<1>2. Start = Len(source) + 1
  BY <1>1, TokenAtShape, TurnInGrammar
<1>3. \A q \in LineStarts : q < current \/ (Blank(q) /\ ~HasLabel(q))
  BY <1>1, <1>2
<1>4. \A q \in LineStarts : Blank(q) \/ Statement(Body(q))
  <2>1. \A q \in LineStarts : q < current /\ q # pending => Blank(q) \/ Statement(Body(q))
    BY <1>1 DEF RightSoFar, LinesFit
  <2>2. \A q \in LineStarts : q # NULL
    BY <1>1, ParserNullAssumption
  <2>3. QED BY <1>1, <1>3, <2>1, <2>2
<1>5. \A q, r \in LineStarts : q < r /\ HasLabel(q) /\ HasLabel(r) => Between(q, r)
  BY <1>1, <1>3 DEF RightSoFar, LabelsApart
<1>6. QED BY <1>4, <1>5 DEF Legal, Between

(* A line that does not fit is not legal. *)
LEMMA IllegalLine ==
    ASSUME GInv, Reads, ~oom, ~AtLabel, TokenAt(Start).type # "EOF", ~IsLine(Start)
    PROVE  ~Legal
<1>1. PICK l : Found(l)
  BY LineFound
<1>2. source \in Seq(Token) /\ Start \in 1 .. Len(source)
  BY TurnInGrammar, TokenAtShape
<1>3. ~Statement(Start)
  BY <1>2, StatementIsLine
<1>4. QED BY <1>1, <1>3 DEF Legal, Found

(* Nor are two labels for one command. *)
LEMMA IllegalLabel ==
    ASSUME GInv, Reads, ~oom, AtLabel, pending # NULL
    PROVE  ~Legal
<1>1. /\ LineStarts \subseteq 1 .. Len(source) /\ Len(source) \in Nat
      /\ current \in Nat \ {0} /\ Start \in Nat \ {0} /\ current <= Start
      /\ \A q \in LineStarts : current <= q /\ q < Start => Blank(q) /\ ~HasLabel(q)
      /\ Start # current => Start \in LineStarts \/ TokenAt(Start).type = "EOF"
      /\ current = pending + 2 /\ pending \in LineStarts /\ HasLabel(pending)
      /\ Body(pending) = current
      /\ \A q \in LineStarts : pending < q => current < q
      /\ Start # current => Blank(pending)
  BY TurnInGrammar
<1>2. TokenAt(Start).type = "IDENT" /\ HasLabel(Start)
  BY DEF AtLabel, HasLabel
<1>3. CASE Start = current
  <2>1. ~Blank(pending) /\ ~Statement(Body(pending))
    BY <1>1, <1>2, <1>3 DEF Blank, Statement, Keywords
  <2>2. QED BY <1>1, <2>1 DEF Legal
<1>4. CASE Start # current
  <2>1. Start \in LineStarts /\ Blank(pending) /\ pending < Start
    BY <1>1, <1>2, <1>4
  <2>2. \A s \in LineStarts : pending <= s /\ s < Start => Blank(s)
    BY <1>1, <2>1
  <2>3. QED BY <1>1, <1>2, <2>1, <2>2 DEF Legal
<1>5. QED BY <1>3, <1>4

(* The invariant behind the loop. *)
LEMMA LoopLeft ==
    ASSUME GInv, IInv', source' = source, phase' # "parsing",
           ~oom' => (had_error' <=> ~Legal)
    PROVE  GInv'
<1>1. Legal' <=> Legal
  BY DEF Legal, LineStarts, Positions, Blank, Body, HasLabel, Statement, TokenAt
<1>2. QED BY <1>1 DEF GInv, ErrorsExact

LEMMA OutOfMemory ==
    ASSUME GInv, IInv',
           LabelNoMemory \/ LabelAtEndNoMemory \/ CommandNoMemory \/ OperandNoMemory
    PROVE  GInv'
<1>1. source' = source /\ phase' = "parsed" /\ oom' = TRUE
  BY DEF LabelNoMemory, LabelAtEndNoMemory, CommandNoMemory, OperandNoMemory, Reads,
         NoCommand, Leave
<1>2. QED BY <1>1, LoopLeft

LEMMA ErrorStep ==
    ASSUME GInv, IInv', SecondLabel \/ Unrecognized \/ Refused
    PROVE  GInv'
<1>1. Reads /\ source' = source /\ phase' = "parsed" /\ oom' = oom /\ had_error' = TRUE
  BY DEF SecondLabel, Unrecognized, Refused, Reads, NoCommand, Leave
<1>2. ASSUME ~oom PROVE ~Legal
  <2>1. CASE SecondLabel
    BY <1>1, <1>2, <2>1, IllegalLabel DEF SecondLabel
  <2>2. CASE Unrecognized \/ Refused
    <3>1. ~AtLabel /\ TokenAt(Start).type # "EOF" /\ ~IsLine(Start)
      BY <2>2 DEF Unrecognized, Refused, IsLine, Keywords
    <3>2. QED BY <1>1, <1>2, <3>1, IllegalLine
  <2>3. QED BY <2>1, <2>2
<1>3. QED BY <1>1, <1>2, LoopLeft

LEMMA NothingLeftStep == ASSUME GInv, IInv', NothingLeft PROVE GInv'
<1>1. /\ Reads /\ source' = source /\ phase' = "parsed" /\ oom' = oom
      /\ TokenAt(Start).type = "EOF" /\ had_error' = had_error
  BY DEF NothingLeft, Reads, NoCommand, Leave
<1>2. ASSUME ~oom PROVE ~had_error' /\ Legal
  BY <1>1, <1>2, TurnInGrammar, LegalAtEnd
<1>3. QED BY <1>1, <1>2, LoopLeft

LEMMA AtEndLegal == ASSUME GInv, IInv', AtEnd PROVE GInv'
<1>1. /\ source' = source /\ phase' = "parsed" /\ oom' = oom /\ phase = "parsing"
      /\ TokenAt(current).type = "EOF"
      /\ pending = NULL => had_error' = had_error
  BY DEF AtEnd, Leave
<1>2. /\ source \in Seq(Token) /\ Len(source) \in Nat /\ ~had_error
      /\ current \in 1 .. Len(source) + 1
  BY <1>1 DEF GInv, IInv, Parsing, TypeOK
<1>3. current = Len(source) + 1
  BY <1>1, <1>2, TokenAtShape
<1>4. ASSUME ~oom PROVE ~had_error' /\ Legal
  <2>1. RightSoFar(current, pending)
    BY <1>1, <1>4 DEF GInv
  <2>2. pending = NULL
    <3> SUFFICES ASSUME pending # NULL PROVE FALSE
      OBVIOUS
    <3>1. TokenAt(current).type # "EOF"
      BY <2>1 DEF RightSoFar, BehindLabel
    <3>2. QED BY <1>1, <3>1
  <2>3. \A q \in LineStarts : q \in Nat /\ q < current /\ q # NULL
    BY <1>2, <1>3, LineStartsShape, ParserNullAssumption
  <2>4. \A q \in LineStarts : Blank(q) \/ Statement(Body(q))
    BY <2>1, <2>2, <2>3 DEF RightSoFar, LinesFit
  <2>5. \A q, r \in LineStarts : q < r /\ HasLabel(q) /\ HasLabel(r) => Between(q, r)
    BY <2>1, <2>3 DEF RightSoFar, LabelsApart
  <2>6. QED BY <1>1, <1>2, <2>2, <2>4, <2>5 DEF Legal, Between
<1>5. QED BY <1>1, <1>4, LoopLeft

-----------------------------------------------------------------------------
(* A label, and a command behind it or none.                               *)

LEMMA BetweenWiden ==
    ASSUME LineStarts \subseteq Nat, NEW q, NEW c \in Nat, NEW d \in Nat, c <= d, Between(q, c)
    PROVE  Between(q, d)
  BY DEF Between

LEMMA LabelFits ==
    ASSUME GInv, Reads, ~oom, AtLabel, pending = NULL
    PROVE  /\ Start \in LineStarts /\ HasLabel(Start)
           /\ \A q \in LineStarts : q < Start + 2 => q <= Start
           /\ LinesFit(Start + 2, Start)
           /\ LabelsApart(Start + 2)
<1>1. /\ source \in Seq(Token) /\ Len(source) \in Nat /\ LineStarts \subseteq 1 .. Len(source)
      /\ current \in Nat \ {0} /\ Start \in Nat \ {0} /\ current <= Start
      /\ RightSoFar(current, NULL)
      /\ \A q \in LineStarts : current <= q /\ q < Start => Blank(q) /\ ~HasLabel(q)
      /\ Start \in LineStarts \/ TokenAt(Start).type = "EOF"
  BY TurnInGrammar
<1>2. TokenAt(Start).type = "IDENT" /\ HasLabel(Start)
  BY DEF AtLabel, HasLabel
<1>3. Start \in LineStarts
  BY <1>1, <1>2
<1>4. \A q \in LineStarts : q \in Nat /\ q # NULL
  BY <1>1, ParserNullAssumption
<1>5. \A q \in LineStarts : q < Start + 2 => q <= Start
  <2>1. Start + 1 \notin LineStarts
    <3>1. Start + 1 # 1 /\ (Start + 1) - 1 = Start
      BY <1>1
    <3>2. QED BY <1>1, <1>2, <3>1, LineStartsShape
  <2>2. QED BY <1>1, <1>4, <2>1
<1>6. LinesFit(Start + 2, Start)
  <2> SUFFICES ASSUME NEW q \in LineStarts, q < Start + 2, q # Start
               PROVE  Blank(q) \/ Statement(Body(q))
    BY DEF LinesFit
  <2>1. q < Start
    BY <1>1, <1>4, <1>5
  <2>2. CASE q < current
    BY <1>1, <1>4, <2>2 DEF RightSoFar, LinesFit
  <2>3. CASE current <= q
    BY <1>1, <2>1, <2>3
  <2>4. QED BY <1>1, <1>4, <2>2, <2>3
<1>7. LabelsApart(Start + 2)
  <2> SUFFICES ASSUME NEW q \in LineStarts, NEW r \in LineStarts, q < r, r < Start + 2,
                      HasLabel(q), HasLabel(r)
               PROVE  Between(q, r)
    BY DEF LabelsApart
  <2>1. r <= Start /\ q < Start /\ q \in Nat /\ r \in Nat
    BY <1>1, <1>4, <1>5
  <2>2. q < current
    BY <1>1, <2>1
  <2>3. CASE r < current
    BY <1>1, <2>3 DEF RightSoFar, LabelsApart
  <2>4. CASE current <= r
    <3>1. Between(q, current)
      BY <1>1, <2>2 DEF RightSoFar, LabelsUsed
    <3>2. LineStarts \subseteq Nat
      BY <1>1
    <3>3. QED BY <1>1, <2>1, <2>4, <3>1, <3>2, BetweenWiden
  <2>5. QED BY <1>1, <2>1, <2>3, <2>4
<1>8. QED BY <1>2, <1>3, <1>5, <1>6, <1>7

LEMMA RightPrimed ==
    ASSUME source' = source, RightSoFar(current', pending')
    PROVE  RightSoFar(current, pending)'
<1>1. \A i : TokenAt(i)' = TokenAt(i)
  BY DEF TokenAt
<1>2. LineStarts' = LineStarts
  BY DEF LineStarts, Positions
<1>3. \A q : /\ HasLabel(q)' <=> HasLabel(q)
             /\ Body(q)' = Body(q)
             /\ Blank(q)' <=> Blank(q)
  BY <1>1 DEF HasLabel, Body, Blank
<1>4. \A q : Statement(q)' <=> Statement(q)
  BY <1>1 DEF Statement
<1>5. \A q, r : Between(q, r)' <=> Between(q, r)
  BY <1>2, <1>3 DEF Between
<1>6. \A c, l : /\ LinesFit(c, l)' <=> LinesFit(c, l)
                /\ LabelsApart(c)' <=> LabelsApart(c)
                /\ LabelsUsed(c)' <=> LabelsUsed(c)
  BY <1>2, <1>3, <1>4, <1>5 DEF LinesFit, LabelsApart, LabelsUsed
<1>7. QED BY <1>1, <1>2, <1>3, <1>6 DEF RightSoFar, LinesFit, LabelsApart, LabelsUsed, AtEdge, BehindLabel

LEMMA LabelPendsRight == ASSUME GInv, IInv', LabelPends PROVE GInv'
<1>1. /\ Reads /\ AtLabel /\ pending = NULL /\ source' = source
      /\ TokenAt(Start + 2).type # "EOF"
      /\ current' = Start + 2 /\ pending' = Start
      /\ phase' = phase /\ oom' = oom /\ phase = "parsing"
  BY DEF LabelPends, Stay, Reads
<1>2. ASSUME ~oom PROVE RightSoFar(current', pending')
  <2>1. /\ Start \in LineStarts /\ HasLabel(Start) /\ Start \in Nat
        /\ LinesFit(Start + 2, Start) /\ LabelsApart(Start + 2)
    BY <1>1, <1>2, LabelFits, TurnInGrammar
  <2>2. BehindLabel(Start + 2, Start)
    BY <1>1, <2>1 DEF BehindLabel
  <2>3. QED BY <1>1, <2>1, <2>2, ParserNullAssumption DEF RightSoFar
<1>3. ErrorsExact'
  BY <1>1 DEF ErrorsExact
<1>4. QED BY <1>1, <1>2, <1>3, RightPrimed DEF GInv

(* A label that was put is no failed allocation. *)
LEMMA AddedOom ==
    ASSUME NEW command, NEW p, NEW label, Add(command, p, label), oom \in BOOLEAN, ~oom'
    PROVE  ~oom
  BY DEF Add

LEMMA LabelAtEndLegal == ASSUME GInv, IInv', LabelAtEnd PROVE GInv'
<1>1. /\ Reads /\ AtLabel /\ pending = NULL /\ source' = source /\ phase' = "parsed"
      /\ TokenAt(Start + 2).type = "EOF"
      /\ had_error' = had_error
      /\ Add([type |-> "NOP"], Start + 2, Start)
  BY DEF LabelAtEnd, Reads, Leave
<1>2. ASSUME ~oom' PROVE ~had_error' /\ Legal
  <2>1. oom \in BOOLEAN /\ ~oom
    BY <1>1, <1>2, AddedOom DEF GInv, IInv, TypeOK
  <2>2. /\ LineStarts \subseteq 1 .. Len(source) /\ Len(source) \in Nat /\ Start \in Nat \ {0}
        /\ ~had_error
    BY <1>1, <2>1, TurnInGrammar
  <2>3. Start + 2 = Len(source) + 1
    BY <1>1, LabelRead DEF GInv
  <2>4. /\ HasLabel(Start)
        /\ \A q \in LineStarts : q < Start + 2 => q <= Start
        /\ LinesFit(Start + 2, Start) /\ LabelsApart(Start + 2)
    BY <1>1, <2>1, LabelFits
  <2>5. \A q \in LineStarts : q < Start + 2
    BY <2>2, <2>3
  <2>6. Blank(Start)
    BY <1>1, <2>4 DEF Blank, Body
  <2>7. \A q \in LineStarts : Blank(q) \/ Statement(Body(q))
    BY <2>4, <2>5, <2>6 DEF LinesFit
  <2>8. \A q, r \in LineStarts : q < r /\ HasLabel(q) /\ HasLabel(r) => Between(q, r)
    BY <2>4, <2>5 DEF LabelsApart
  <2>9. QED BY <1>1, <2>2, <2>7, <2>8 DEF Legal, Between
<1>3. QED BY <1>1, <1>2, LoopLeft

-----------------------------------------------------------------------------
(* A command.                                                              *)

LEMMA FitsNoNewline ==
    ASSUME NEW t, NEW slot \in SlotKinds, Fits(t, slot)
    PROVE  t.type # "NL"
<1>1. CASE slot \in {"reg", "base", "label", "string"}
  BY <1>1 DEF Fits, IsRegister
<1>2. CASE slot \in {"imm", "value"}
  BY <1>2 DEF Fits, IsRegister, IsImmediate
<1>3. CASE slot = "count"
  <2>1. Number(t) # NoNumber
    BY <1>3 DEF Fits
  <2>2. QED BY <2>1 DEF Number
<1>4. CASE slot \in {"COMMA", "LBRACKET", "RBRACKET"}
  BY <1>4 DEF Fits
<1>5. QED BY <1>1, <1>2, <1>3, <1>4 DEF SlotKinds

(* No line begins inside a line, and a line ends at a newline or at the    *)
(* end of the file.                                                        *)
LEMMA NoLineWithin ==
    ASSUME source \in Seq(Token), NEW p \in 1 .. Len(source), IsLine(p)
    PROVE  LET e == p + Len(Line(TokenAt(p).type))
           IN  /\ e \in Nat /\ p < e /\ TokenAt(e).type \in {"NL", "EOF"}
               /\ \A q \in LineStarts : q < e => q <= p
<1> DEFINE type == TokenAt(p).type
           n == Len(Slots(type))
           e == p + Len(Line(type))
<1>1. type \in Keywords /\ n \in Nat /\ e = p + n + 1
  <2>1. type \in Keywords
    BY DEF IsLine
  <2>2. n \in Nat
    BY <2>1, SlotsShape
  <2>3. Len(Line(type)) = n + 1
    BY <2>1, LineShape
  <2> HIDE DEF n
  <2>4. QED BY <2>1, <2>2, <2>3
<1>2. e \in Nat /\ p < e /\ TokenAt(e).type \in {"NL", "EOF"}
  BY <1>1, FilledWithin
<1>3. \A j \in 0 .. n : TokenAt(p + j).type # "NL"
  <2> SUFFICES ASSUME NEW j \in 0 .. n PROVE TokenAt(p + j).type # "NL"
    OBVIOUS
  <2>1. CASE j = 0
    <3>1. p + j = p
      BY <2>1
    <3>2. QED BY <1>1, <3>1 DEF Keywords
  <2>2. CASE j # 0
    <3>1. j \in 1 .. n
      BY <1>1, <2>2
    <3>2. Fits(TokenAt(p + j), Slots(type)[j])
      BY <3>1, LineFits
    <3>3. Slots(type)[j] \in SlotKinds
      BY <1>1, <3>1, SlotsShape
    <3>4. QED BY <3>2, <3>3, FitsNoNewline
  <2>3. QED BY <2>1, <2>2
<1> HIDE DEF e, n, type
<1>4. ASSUME NEW q \in LineStarts, q < e, ~(q <= p) PROVE FALSE
  <2>1. q \in 1 .. Len(source) /\ Len(source) \in Nat
    BY <1>4, LineStartsShape
  <2>2. q # 1 /\ q - p - 1 \in 0 .. n /\ p + (q - p - 1) = q - 1
    BY <1>1, <1>4, <2>1
  <2>3. TokenAt(q - 1).type # "NL"
    BY <1>3, <2>2
  <2>4. QED BY <1>4, <2>2, <2>3, LineStartsShape
<1>5. QED BY <1>2, <1>4 DEF e, type

LEMMA LineRight ==
    ASSUME GInv, Reads, ~oom, ~AtLabel, IsLine(Start)
    PROVE  RightSoFar(Start + Len(Line(TokenAt(Start).type)), NULL)
<1> DEFINE e == Start + Len(Line(TokenAt(Start).type))
<1>1. /\ source \in Seq(Token) /\ Len(source) \in Nat /\ LineStarts \subseteq 1 .. Len(source)
      /\ current \in Nat \ {0} /\ Start \in Nat \ {0} /\ current <= Start
      /\ RightSoFar(current, pending)
      /\ \A q \in LineStarts : current <= q /\ q < Start => Blank(q) /\ ~HasLabel(q)
  BY TurnInGrammar
<1>2. TokenAt(Start).type # "EOF" /\ Start \in 1 .. Len(source)
  <2>1. TokenAt(Start).type # "EOF"
    BY DEF IsLine, Keywords
  <2>2. QED BY <1>1, <2>1, TokenAtShape
<1>3. /\ e \in Nat /\ Start < e /\ TokenAt(e).type \in {"NL", "EOF"}
      /\ \A q \in LineStarts : q < e => q <= Start
  BY <1>1, <1>2, NoLineWithin
<1>4. PICK l : Found(l)
  BY <1>2, LineFound
<1>5. /\ l \in LineStarts /\ Body(l) = Start /\ l <= Start /\ ~Blank(l)
      /\ \A q \in LineStarts : q <= Start => q <= l
      /\ pending # NULL => pending = l \/ Blank(pending)
  BY <1>4 DEF Found
<1>6. Statement(Body(l))
  BY <1>1, <1>2, <1>5, StatementIsLine
<1>7. \A q \in LineStarts : q \in Nat /\ q # NULL
  BY <1>1, ParserNullAssumption
<1> HIDE DEF e
<1>8. LinesFit(e, NULL)
  <2> SUFFICES ASSUME NEW q \in LineStarts, q < e PROVE Blank(q) \/ Statement(Body(q))
    BY DEF LinesFit
  <2>1. CASE q = l
    BY <1>6, <2>1
  <2>2. CASE q = pending /\ q # l
    BY <1>5, <1>7, <2>2
  <2>3. CASE q # l /\ q # pending /\ q < current
    BY <1>1, <1>7, <2>3 DEF RightSoFar, LinesFit
  <2>4. CASE q # l /\ current <= q
    <3>1. q <= l /\ q \in Nat /\ l \in Nat
      BY <1>3, <1>5, <1>7
    <3>2. q < Start
      BY <1>1, <1>5, <2>4, <3>1
    <3>3. QED BY <1>1, <2>4, <3>2
  <2>5. QED BY <1>1, <1>7, <2>1, <2>2, <2>3, <2>4
<1>9. LabelsApart(e)
  <2> SUFFICES ASSUME NEW q \in LineStarts, NEW r \in LineStarts, q < r, r < e,
                      HasLabel(q), HasLabel(r)
               PROVE  Between(q, r)
    BY DEF LabelsApart
  <2>1. r \in Nat /\ r <= Start /\ r # Start
    BY <1>3, <1>7 DEF AtLabel, HasLabel
  <2>2. r < current
    BY <1>1, <2>1
  <2>3. QED BY <1>1, <2>2 DEF RightSoFar, LabelsApart
<1>10. LabelsUsed(e)
  <2> SUFFICES ASSUME NEW q \in LineStarts, q < e PROVE Between(q, e)
    BY DEF LabelsUsed
  <2>1. q <= l /\ l \in Nat /\ l < e
    BY <1>1, <1>3, <1>5, <1>7
  <2>2. QED BY <1>5, <2>1 DEF Between
<1>11. AtEdge(e)
  BY <1>3 DEF AtEdge
<1>12. QED BY <1>8, <1>9, <1>10, <1>11 DEF RightSoFar, e

LEMMA ParsedRight == ASSUME GInv, IInv', Parsed PROVE GInv'
<1>1. /\ Reads /\ ~AtLabel /\ IsLine(Start) /\ source' = source
      /\ current' = Start + Len(Line(TokenAt(Start).type)) /\ pending' = NULL
      /\ phase' = phase /\ phase = "parsing"
  BY DEF Parsed, Stay, Reads
<1>2. ~oom' => ~oom
  <2>1. oom \in BOOLEAN
    BY DEF GInv, IInv, TypeOK
  <2>2. Add(CommandAt(Start), Start, pending)
    BY DEF Parsed
  <2> DEFINE c == CommandAt(Start)
  <2> HIDE DEF c
  <2>3. Add(c, Start, pending)
    BY <2>2 DEF c
  <2>4. QED BY <2>1, <2>3, AddedOom
<1>3. ~oom' => RightSoFar(current', pending')
  BY <1>1, <1>2, LineRight
<1>4. ErrorsExact'
  BY <1>1 DEF ErrorsExact
<1>5. QED BY <1>1, <1>3, <1>4, RightPrimed DEF GInv

-----------------------------------------------------------------------------

LEMMA GrammarAtInit == ASSUME Init PROVE GInv
<1>1. current = 1 /\ pending = NULL /\ phase = "parsing" /\ IInv
  BY InitHolds DEF Init
<1>2. /\ source \in Seq(Token) /\ LineStarts \subseteq 1 .. Len(source)
      /\ \A q \in LineStarts : ~(q < 1)
  BY <1>1, LineStartsShape DEF IInv, TypeOK
<1>3. AtEdge(1)
  BY <1>2, LineStartsShape DEF AtEdge
<1>4. LinesFit(1, NULL) /\ LabelsUsed(1)
  BY <1>2 DEF LinesFit, LabelsUsed
<1>5. LabelsApart(1)
  BY <1>2 DEF LabelsApart
<1>6. RightSoFar(1, NULL)
  BY <1>3, <1>4, <1>5 DEF RightSoFar
<1>7. QED BY <1>1, <1>6 DEF GInv, ErrorsExact

(* The invariant of the loop with the grammar: before the parser's         *)
(* position all lines are right, and each label has its command.           *)
THEOREM GrammarInvariance == Spec => []GInv
<1>1. Init => GInv
  BY GrammarAtInit
<1>2. IInv' /\ GInv /\ [Next]_vars => GInv'
  <2> SUFFICES ASSUME IInv', GInv, [Next]_vars PROVE GInv'
    OBVIOUS
  <2>1. CASE parse_commands
    BY <2>1, AtEndLegal, ErrorStep, OutOfMemory, LabelPendsRight, LabelAtEndLegal,
       NothingLeftStep, ParsedRight DEF parse_commands
  <2>2. CASE free_command
    <3>1. /\ source' = source /\ had_error' = had_error /\ oom' = oom
          /\ phase = "parsed" /\ phase' = "released"
      BY <2>2 DEF free_command
    <3>2. QED BY <3>1, LoopLeft DEF GInv, ErrorsExact
  <2>3. CASE UNCHANGED vars
    <3>1. UNCHANGED <<source, current, had_error, phase, pending, oom>>
      BY <2>3 DEF vars
    <3>2. CASE phase = "parsing"
      <4>1. ErrorsExact'
        BY <3>1, <3>2 DEF ErrorsExact
      <4>2. ~oom => RightSoFar(current', pending')
        BY <3>1, <3>2 DEF GInv
      <4>3. QED BY <3>1, <4>1, <4>2, RightPrimed DEF GInv
    <3>3. CASE phase # "parsing"
      BY <3>1, <3>3, LoopLeft DEF GInv, ErrorsExact
    <3>4. QED BY <3>2, <3>3
  <2>4. QED BY <2>1, <2>2, <2>3 DEF Next
<1>3. QED BY <1>1, <1>2, Invariance, PTL DEF Spec

(* With memory enough, parse_commands reports an error for the sources     *)
(* that the grammar refuses and for no other, whatever the source.         *)
THEOREM ErrorsReported == Spec => []ErrorsExact
<1>1. GInv => ErrorsExact
  BY DEF GInv
<1>2. QED BY <1>1, GrammarInvariance, PTL
=============================================================================
