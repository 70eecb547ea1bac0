------------------------------- MODULE Lexer -------------------------------
(***************************************************************************)
(* src/src/ci/lexer.c: lexer_next_token reads the next token of a source   *)
(* that ends with a NUL.  One action is one call; they differ in the token *)
(* they make.  print_lexed_tokens calls it to the first error or the end,  *)
(* after which the lexer is initialized again for the parser.  Characters  *)
(* are one-letter strings; the parser is taken to ask for every token, the *)
(* end of file included, where lexer_next_token stays.                     *)
(***************************************************************************)
EXTENDS Numbers

CONSTANTS
    Texts,     \* the sources, without their NUL
    Behind,    \* what may be found behind the NUL
    Reserved   \* the keywords, as sequences of characters, with their types

ASSUME TextsAssumption == \A s \in Texts : s \in Seq(STRING) /\ \A i \in DOMAIN s : s[i] # NUL
ASSUME BehindAssumption == NUL \in STRING /\ \A b \in Behind : b \in Seq(STRING)

(* A keyword is no end of file, error, number, string or newline.          *)
ASSUME ReservedAssumption ==
    \A s \in DOMAIN Reserved : Reserved[s] \notin {"EOF", "ERR", "NUM", "STR", "NL"}

(* Facts of arithmetic, not restrictions: what ^ means for the bases and   *)
(* the places of a text, which the provers do not know.                    *)
ASSUME DigitPowersAssumption ==
    \A b \in {2, 8, 10, 16} :
        /\ b ^ 0 = 1
        /\ \A s \in Texts \cup Behind : \A i \in 1 .. Len(s) :
               b ^ i \in Nat \ {0} /\ b ^ i = b * b ^ (i - 1)

VARIABLES
    text,
    memory,          \* the text, its NUL, and what is behind it
    start_position, current_position, current_line, current_column,
    tokens,          \* the tokens given so far
    spans,           \* ghost: for each token where its characters begin and end
    mode             \* who asks: "printing", "parsing", or nobody: "done"

lex == <<start_position, current_position, current_line, current_column>>
vars == <<text, memory, lex, tokens, spans, mode>>

Alpha == {"a", "b", "c", "d", "e", "f", "g", "h", "i", "j", "k", "l", "m",
          "n", "o", "p", "q", "r", "s", "t", "u", "v", "w", "x", "y", "z",
          "A", "B", "C", "D", "E", "F", "G", "H", "I", "J", "K", "L", "M",
          "N", "O", "P", "Q", "R", "S", "T", "U", "V", "W", "X", "Y", "Z", "_", "."}
WordChar == Alpha \cup Digit
Blank == {" ", "\r", "\t"}
Newline == "\n"
QuoteMark == "\""

Char(i) == CharIn(memory, i)
End(p, chars) == SpanEnd(memory, p, chars)

(* The first newline, quote or NUL at or behind p. *)
LineEnd(p) == CHOOSE q \in p .. Len(memory) + p :
                  /\ Char(q) \in {Newline, NUL}
                  /\ \A i \in p .. q - 1 : Char(i) \notin {Newline, NUL}

(* Mutant: the NUL is not looked for. *)
QuoteOnly(p) == CHOOSE q \in p .. Len(memory) + 2 :
                    /\ Char(q) = QuoteMark \/ q = Len(memory) + 2
                    /\ \A i \in p .. q - 1 : Char(i) # QuoteMark

Quote(p) == CHOOSE q \in p .. Len(memory) + p :
                /\ Char(q) \in {QuoteMark, NUL}
                /\ \A i \in p .. q - 1 : Char(i) \notin {QuoteMark, NUL}

Init == /\ text \in Texts
        /\ \E b \in Behind : memory = text \o <<NUL>> \o b
        /\ start_position = 1 /\ current_position = 1
        /\ current_line = 1 /\ current_column = 1
        /\ tokens = <<>> /\ spans = <<>>
        /\ mode \in {"printing", "parsing"}

-----------------------------------------------------------------------------
(* lexer_next_token.                                                       *)

(* Mutant: the comment takes the newline along. *)
SkipsNewline == LET p == End(current_position, Blank)
                IN  IF Char(p) = "/" /\ Char(p + 1) = "/" THEN LineEnd(p) + 1 ELSE p

(* Where skip_whitespace leaves the lexer: behind blanks, and behind one   *)
(* comment.                                                                *)
Skipped == LET p == End(current_position, Blank)
           IN  IF Char(p) = "/" /\ Char(p + 1) = "/" THEN LineEnd(p) ELSE p

First == Char(Skipped)

(* The column at q, when no newline was consumed on the way. *)
ColumnAt(q) == current_column + (q - current_position)

make_token(type, from, to, line, column) ==
    [type |-> type, lexeme |-> from, length |-> to - from, line |-> line,
     column |-> column - (to - from)]

error_token(message, column) ==
    [type |-> "ERR", lexeme |-> message, line |-> current_line, column |-> column - 1]

(* Mutant: the lexer is initialized again, but for its line. *)
RestartKeepsLine == /\ tokens' = <<>> /\ spans' = <<>>
                    /\ mode' = "parsing"
                    /\ start_position' = 1 /\ current_position' = 1
                    /\ current_column' = 1
                    /\ UNCHANGED current_line

(* Mutant: the tokens are printed over and over. *)
RestartPrints == /\ tokens' = <<>> /\ spans' = <<>>
                 /\ start_position' = 1 /\ current_position' = 1
                 /\ current_line' = 1 /\ current_column' = 1
                 /\ UNCHANGED mode

(* print_lexed_tokens stops at an error or the end; init.c starts again. *)
Restart == /\ tokens' = <<>> /\ spans' = <<>>
           /\ mode' = "parsing"
           /\ start_position' = 1 /\ current_position' = 1
           /\ current_line' = 1 /\ current_column' = 1

(* Gives a token and leaves the lexer at a position, line and column. *)
Give(token, start, to, line, column) ==
    /\ mode # "done"
    /\ IF mode = "printing" /\ token.type \in {"ERR", "EOF"}
       THEN Restart
       ELSE /\ tokens' = Append(tokens, token)
            /\ spans' = Append(spans, [from |-> Skipped, to |-> to])
            /\ mode' = IF token.type = "EOF" THEN "done" ELSE mode
            /\ start_position' = start /\ current_position' = to
            /\ current_line' = line /\ current_column' = column
    /\ UNCHANGED <<text, memory>>

(* A token that reaches from where it starts to a position. *)
GiveTo(type, to) == Give(make_token(type, Skipped, to, current_line, ColumnAt(to)),
                         Skipped, to, current_line, ColumnAt(to))

GiveError(message, to) == Give(error_token(message, ColumnAt(to)),
                               Skipped, to, current_line, ColumnAt(to))

end_of_text == First = NUL /\ GiveTo("EOF", Skipped)

(* The characters from p to q, and the type of an identifier. *)
Lexeme(p, q) == SubSeq(memory, p, q - 1)
ident_type(s) == IF s \in DOMAIN Reserved THEN Reserved[s] ELSE "IDENT"

make_ident == /\ First \in Alpha
              /\ LET to == End(Skipped, WordChar)
                 IN  GiveTo(ident_type(Lexeme(Skipped, to)), to)

(* Mutant: a base letter is looked for behind any digit. *)
HasBaseAnyDigit == First \in Digit /\ Char(Skipped + 1) \in {"b", "x"}

HasBase == First = "0" /\ Char(Skipped + 1) \in {"b", "x"}

make_number == /\ First \in Digit /\ ~HasBase
               /\ GiveTo("NUM", End(Skipped, Digit))

(* make_binary and make_hex *)
BaseDigits == IF Char(Skipped + 1) = "b" THEN BinaryDigit ELSE HexDigit

make_based == /\ First \in Digit /\ HasBase
              /\ Char(Skipped + 2) \in BaseDigits
              /\ GiveTo("NUM", End(Skipped + 2, BaseDigits))

BadBase == /\ First \in Digit /\ HasBase
           /\ Char(Skipped + 2) \notin BaseDigits
           /\ GiveError("BAD_BASE", Skipped + 2)

(* The newline's column is that of the line it ends. *)
make_newline ==
    LET token == make_token("NL", Skipped, Skipped + 1, current_line, ColumnAt(Skipped + 1))
    IN  \/ First = Newline /\ Give(token, Skipped, Skipped + 1, current_line + 1, 1)
        \/ First = ";" /\ GiveTo("NL", Skipped + 1)

Sign == [c \in {":", ",", "[", "]"} |-> CASE c = ":" -> "COLON" [] c = "," -> "COMMA"
                                          [] c = "[" -> "LBRACKET" [] c = "]" -> "RBRACKET"]

make_sign == First \in DOMAIN Sign /\ GiveTo(Sign[First], Skipped + 1)

(* A string ends at a quote or the NUL, which is skipped like a quote.  A  *)
(* newline in it starts a line at column 1, and is itself advanced over.   *)
make_string ==
    /\ First = QuoteMark
    /\ LET from == Skipped + 1
           to == Quote(from)
           newlines == {i \in from .. to - 1 : Char(i) = Newline}
           line == current_line + Cardinality(newlines)
           column == IF newlines = {} THEN ColumnAt(to)
                     ELSE 1 + to - (CHOOSE i \in newlines : \A j \in newlines : j <= i)
       IN  Give(make_token("STR", from, to, line, column), from, to + 1, line, column + 1)

Unexpected == /\ First \notin Alpha \cup Digit \cup DOMAIN Sign
              /\ First \notin {NUL, Newline, ";", QuoteMark}
              /\ GiveError("UNEXPECTED", Skipped + 1)

lexer_next_token ==
    \/ end_of_text \/ make_ident \/ make_number \/ make_based \/ BadBase
    \/ make_newline \/ make_sign \/ make_string \/ Unexpected

Next == lexer_next_token

Spec == Init /\ [][Next]_vars

(* The parser, or print_lexed_tokens, asks until it has the end of file. *)
FairSpec == Spec /\ WF_vars(Next)

-----------------------------------------------------------------------------
(* Properties.                                                             *)

Types == {"EOF", "NL", "IDENT", "NUM", "STR", "ERR"} \cup {Sign[c] : c \in DOMAIN Sign}
         \cup {Reserved[s] : s \in DOMAIN Reserved}

TypeOK == /\ start_position \in 1 .. current_position
          /\ current_position \in 1 .. Len(memory) + 2
          /\ current_line \in 1 .. Len(memory) + 1
          /\ current_column \in Nat \ {0}
          /\ \A k \in DOMAIN tokens : tokens[k].type \in Types
          /\ DOMAIN spans = DOMAIN tokens
          /\ mode \in {"printing", "parsing", "done"}

(* The tokens cover the text in its order: what lies between two tokens is *)
(* blanks and comments, a comment lies within its line, and the last token *)
(* is the NUL.                                                             *)
Gap(k) == (IF k = 1 THEN 1 ELSE spans[k - 1].to) .. spans[k].from - 1

Ignored(i, gap) ==
    \/ Char(i) \in Blank
    \/ \E j \in gap : /\ j <= i /\ Char(j) = "/" /\ j + 1 \in gap /\ Char(j + 1) = "/"
                      /\ \A m \in j .. i : Char(m) \notin {Newline, NUL}

TokensCover ==
    /\ \A k \in DOMAIN tokens : \A i \in Gap(k) : Ignored(i, Gap(k))
    /\ \A k \in DOMAIN tokens : IF tokens[k].type = "EOF"
                                THEN spans[k].to = spans[k].from /\ Char(spans[k].from) = NUL
                                ELSE spans[k].from < spans[k].to

(* The reference grammar of tokens, as sets of character sequences.        *)
All(s, from, chars) == \A i \in from .. Len(s) : s[i] \in chars

IsWord(s) == Len(s) >= 1 /\ s[1] \in Alpha /\ All(s, 2, WordChar)
IsDecimal(s) == Len(s) >= 1 /\ All(s, 1, Digit)
IsBinary(s) == Len(s) >= 3 /\ s[1] = "0" /\ s[2] = "b" /\ All(s, 3, BinaryDigit)
IsHex(s) == Len(s) >= 3 /\ s[1] = "0" /\ s[2] = "x" /\ All(s, 3, HexDigit)
IsString(s) == /\ Len(s) >= 2 /\ s[1] = QuoteMark /\ s[Len(s)] = QuoteMark
               /\ \A i \in 2 .. Len(s) - 1 : s[i] \notin {QuoteMark, NUL}

TypesOf(s) ==
    {t \in Types : \/ t = "NL" /\ s \in {<<Newline>>, <<";">>}
                   \/ \E c \in DOMAIN Sign : s = <<c>> /\ t = Sign[c]
                   \/ IsWord(s) /\ t = IF s \in DOMAIN Reserved THEN Reserved[s] ELSE "IDENT"
                   \/ t = "NUM" /\ (IsDecimal(s) \/ IsBinary(s) \/ IsHex(s))
                   \/ t = "STR" /\ IsString(s)}

(* A token is the longest stretch of text that is a token, and of its      *)
(* type.  Errors are a base without a digit, though its 0 is a number, and *)
(* one character that starts no token; a string that nothing closes, at    *)
(* the end of the text, is a string all the same.                          *)
LongestMatch ==
    \A k \in DOMAIN tokens :
        LET from == spans[k].from
            longer == {q \in from + 1 .. Len(memory) : TypesOf(Lexeme(from, q)) # {}}
            open == tokens[k].type = "STR" /\ Char(spans[k].to - 1) = NUL
        IN  CASE tokens[k].type = "EOF" -> TRUE
              [] tokens[k].type = "ERR" ->
                     \/ longer = {} /\ spans[k].to = from + 1
                     \/ longer = {from + 1} /\ spans[k].to = from + 2
                        /\ Lexeme(from, from + 2) \in {<<"0", "b">>, <<"0", "x">>}
              [] open -> longer = {}
              [] OTHER -> /\ TypesOf(Lexeme(from, spans[k].to)) = {tokens[k].type}
                          /\ \A q \in longer : q <= spans[k].to

(* Lines and columns, counted again from the text: a token's are those of  *)
(* its first character.  Behind a string with a newline in it, columns are *)
(* one too high up to the line's end, and the string itself has the line   *)
(* it ends on and a column as if it began there; a bad base has the column *)
(* of its letter.                                                          *)
NewlinesBefore(i) == {j \in 1 .. i - 1 : Char(j) = Newline}
LineOf(i) == 1 + Cardinality(NewlinesBefore(i))

InString(i) == \E k \in DOMAIN tokens : /\ tokens[k].type = "STR"
                                        /\ spans[k].from < i /\ i < spans[k].to

ColumnOf(i) ==
    LET last == Max(NewlinesBefore(i) \cup {0})
    IN  IF InString(last) THEN i - last + 1 ELSE i - last

PlacesExact ==
    \A k \in DOMAIN tokens :
        LET from == spans[k].from
            to == spans[k].to
            place == CASE tokens[k].type = "ERR" -> [line |-> LineOf(from), column |-> ColumnOf(to - 1)]
                       [] tokens[k].type = "STR" ->
                              IF LineOf(from) = LineOf(to - 1)
                              THEN [line |-> LineOf(from), column |-> ColumnOf(from + 1)]
                              ELSE [line |-> LineOf(to - 1),
                                    column |-> ColumnOf(to - 1) - tokens[k].length]
                       [] OTHER -> [line |-> LineOf(from), column |-> ColumnOf(from)]
        IN  [line |-> tokens[k].line, column |-> tokens[k].column] = place

(* The lexer is behind the NUL exactly when a string was not closed.       *)
InsideUnlessOpen ==
    current_position > Len(text) + 1 <=>
        \E k \in DOMAIN tokens : tokens[k].type = "STR" /\ spans[k].to = Len(text) + 2

(* What parse_number makes of a number is its value, or the largest number *)
(* when that is smaller.  A leading 0 means octal, so that a later 8 or 9  *)
(* is refused; and as strtoll reads on behind the token, so is a 0 with an *)
(* X and a hexadecimal digit behind it.  Of all other tokens, strings and  *)
(* the end of file alone may count as numbers.                             *)
ValueIn(digits, base) ==
    MapThenSumSet(LAMBDA i : DigitValue(digits[i]) * base ^ (Len(digits) - i), DOMAIN digits)

Value(s) == CASE IsBinary(s) -> ValueIn(SubSeq(s, 3, Len(s)), 2)
              [] IsHex(s) -> ValueIn(SubSeq(s, 3, Len(s)), 16)
              [] IsDecimal(s) -> ValueIn(s, IF s[1] = "0" THEN 8 ELSE 10)

NumbersExact ==
    \A k \in DOMAIN tokens : tokens[k].type # "ERR" =>
        LET s == Lexeme(spans[k].from, spans[k].to)
            read == parse_number(memory, tokens[k].lexeme, tokens[k].length)
            swallowed == /\ s = <<"0">> /\ Char(spans[k].to) = "X"
                         /\ Char(spans[k].to + 1) \in HexDigit
        IN  CASE tokens[k].type = "NUM" ->
                     IF (IsDecimal(s) /\ s[1] = "0" /\ ~All(s, 1, OctalDigit)) \/ swallowed
                     THEN ~read.ok
                     ELSE read = [ok |-> TRUE, number |-> Min({MaxNumber, Value(s)})]
              [] tokens[k].type = "EOF" -> read = [ok |-> TRUE, number |-> 0]
              [] tokens[k].type = "STR" -> TRUE
              [] OTHER -> ~read.ok

(* A variable is x and a decimal number without leading zeros, up to the   *)
(* last one.                                                               *)
RegistersExact ==
    \A k \in DOMAIN tokens : tokens[k].type = "IDENT" =>
        LET s == Lexeme(spans[k].from, spans[k].to)
            digits == Tail(s)
            read == parse_ident(memory, tokens[k].lexeme, tokens[k].length)
        IN  IF /\ s[1] = "x" /\ IsDecimal(digits)
               /\ digits[1] = "0" => Len(digits) = 1
               /\ ValueIn(digits, 10) <= MaxVariable
            THEN read = [ok |-> TRUE, variable |-> ValueIn(digits, 10)]
            ELSE ~read.ok

(* Every text has an end.                                                  *)
Ends == <>(mode = "done")

(* token.h:18: a token's line and column are those where it starts, from 1 *)
(* on, wherever a string takes the lexer to another line.                  *)
PlaceOfLexeme ==
    \A k \in DOMAIN tokens : tokens[k].type # "ERR" =>
        LET i == tokens[k].lexeme
        IN  /\ tokens[k].line = LineOf(i)
            /\ tokens[k].column = i - Max(NewlinesBefore(i) \cup {0})

(* lexer.h:17: current_position is a position "within the source string".  *)
StaysInside == current_position <= Len(text) + 1
=============================================================================
