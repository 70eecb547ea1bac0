------------------------------- MODULE Parser -------------------------------
(***************************************************************************)
(* src/src/ci/parser.c: parse_commands reads the tokens of a source and    *)
(* builds the list of commands and the label table, then init.c gives the  *)
(* list back with free_command.  One action is one turn of the loop of     *)
(* parse_commands: it skips newlines and reads a label or a command.       *)
(*                                                                         *)
(* A token is what the parser asks of it: its type, for an identifier its  *)
(* name, for a string its text, for numbers and strings what parse_number  *)
(* makes of the lexeme.  Every allocation may fail.  The heap is the set   *)
(* of blocks the parser allocated and did not free, each named by its kind *)
(* and the token it was made for; labels is the map that hashtable.c       *)
(* implements.                                                             *)
(***************************************************************************)
EXTENDS Commands, FiniteSets

CONSTANTS
    Sources,     \* the token sequences to be parsed
    Register,    \* the names that parse_ident accepts, with their index
    BaseLetter,  \* the names of one letter that are a base, with the base
    NoNumber,    \* parse_number fails
    NULL         \* the null pointer

(* The tokens that start a command; a branch token has its condition. *)
Keywords == {"NOP", "RET", "MOV", "PRINT", "ADD", "SUB", "CMP", "CMP_U", "AND", "ORR", "EOR",
             "ASR", "LSR", "LSL", "PUT", "LOAD", "STORE", "BRANCH", "CALL"}

Token == [type: Keywords \ {"BRANCH"}]
         \cup [type: {"BRANCH"}, condition: Conditions]
         \cup [type: {"COLON", "COMMA", "LBRACKET", "RBRACKET", "NL", "ERR"}]
         \cup [type: {"IDENT"}, name: Label]
         \cup [type: {"NUM"}, number: Word \cup {NoNumber}]
         \cup [type: {"STR"}, text: Seq(Byte \ {0}), number: Word \cup {NoNumber}]

ASSUME SourcesAssumption == Sources \subseteq Seq(Token)
ASSUME RegisterAssumption == /\ DOMAIN Register \subseteq Label
                             /\ \A n \in DOMAIN Register : Register[n] \in VarIndex
ASSUME BaseLetterAssumption == /\ DOMAIN BaseLetter \subseteq Label
                               /\ \A n \in DOMAIN BaseLetter : BaseLetter[n] \in Bases
ASSUME ParserNullAssumption == NULL \notin Nat /\ NoNumber \notin Word

VARIABLES
    source,       \* the tokens
    current,      \* position of parser->current; parser->next is behind it
    had_error,
    phase,        \* of ci_run_source: "parsing", "parsed" or "released"
    commands,     \* the list from head to tail
    origin,       \* ghost: for each command the token it was made for
    labels,       \* the label table
    pending,      \* position of the token in pending_label, or NULL
    heap,
    double_free,  \* ghost: a block that is not allocated was freed
    oom           \* ghost: an allocation has failed

result == <<commands, origin, labels>>
vars == <<source, current, had_error, phase, result, pending, heap, double_free, oom>>

Eof == [type |-> "EOF"]
TokenAt(i) == IF i <= Len(source) THEN source[i] ELSE Eof

Block(kind, i) == [kind |-> kind, at |-> i]

(* The blocks of the command made for the token at i, and of the list. *)
BlocksOf(i) == {Block("command", i)}
               \cup IF TokenAt(i).type \in {"PUT", "BRANCH", "CALL"}
                    THEN {Block("operand", i)} ELSE {}
ListBlocks == UNION {BlocksOf(origin[i]) : i \in DOMAIN origin}

Init == /\ source \in Sources
        /\ current = 1
        /\ had_error = FALSE
        /\ phase = "parsing"
        /\ commands = <<>>
        /\ origin = <<>>
        /\ labels = [n \in Label |-> 0]
        /\ pending = NULL
        /\ heap = {}
        /\ double_free = FALSE
        /\ oom = FALSE

-----------------------------------------------------------------------------
(* What parse_cmd expects behind a keyword, one operator for each of its   *)
(* cases.                                                                  *)

NopLine == <<>>
RetLine == <<>>
MovLine == <<"reg", "COMMA", "imm">>
PrintLine == <<"value", "COMMA", "base">>
AddSubLine == <<"reg", "COMMA", "reg", "COMMA", "value">>
CmpLine == <<"reg", "COMMA", "value">>
CmpULine == <<"reg", "COMMA", "value">>
BitwiseLine == <<"reg", "COMMA", "reg", "COMMA", "reg">>
ShiftLine == <<"reg", "COMMA", "reg", "COMMA", "imm">>
PutLine == <<"string", "COMMA", "value">>
AccessLine == <<"reg", "COMMA", "LBRACKET", "value", "COMMA", "count", "RBRACKET">>
BranchLine == <<"label">>
CallLine == <<"label">>

Slots(type) ==
    CASE type = "NOP"                    -> NopLine
      [] type = "RET"                    -> RetLine
      [] type = "MOV"                    -> MovLine
      [] type = "PRINT"                  -> PrintLine
      [] type \in {"ADD", "SUB"}         -> AddSubLine
      [] type = "CMP"                    -> CmpLine
      [] type = "CMP_U"                  -> CmpULine
      [] type \in {"AND", "ORR", "EOR"}  -> BitwiseLine
      [] type \in {"ASR", "LSR", "LSL"}  -> ShiftLine
      [] type = "PUT"                    -> PutLine
      [] type \in {"LOAD", "STORE"}      -> AccessLine
      [] type = "BRANCH"                 -> BranchLine
      [] type = "CALL"                   -> CallLine

(* Mutant: what follows the last operand is not looked at. *)
OpenLine(type) == Slots(type)

Line(type) == Append(Slots(type), "end")

(* parse_number: of an empty lexeme, that of the end of file, it makes 0. *)
Number(t) == CASE t.type \in {"NUM", "STR"} -> t.number
               [] t.type = "EOF"            -> 0
               [] OTHER                     -> NoNumber

IsRegister(t) == t.type = "IDENT" /\ t.name \in DOMAIN Register

(* Mutant: parse_number's answer is ignored. *)
IsNumberToken(t) == t.type = "NUM"

IsImmediate(t) == t.type = "NUM" /\ Number(t) # NoNumber

(* The byte count of a load or store is not asked to be a number token. *)
Fits(t, slot) ==
    CASE slot = "reg"    -> IsRegister(t)
      [] slot = "imm"    -> IsImmediate(t)
      [] slot = "value"  -> IsRegister(t) \/ IsImmediate(t)
      [] slot = "base"   -> t.type = "IDENT" /\ t.name \in DOMAIN BaseLetter
      [] slot = "string" -> t.type = "STR"
      [] slot = "label"  -> t.type = "IDENT"
      [] slot = "count"  -> Number(t) # NoNumber
      [] slot = "end"    -> t.type \in {"NL", "EOF"}
      [] OTHER           -> t.type = slot

(* The slots of the line at p that are filled before the first that is not. *)
Filled(p) ==
    LET line == Line(TokenAt(p).type)
    IN  CHOOSE k \in 0 .. Len(line) :
            /\ \A j \in 1 .. k : Fits(TokenAt(p + j), line[j])
            /\ k < Len(line) => ~Fits(TokenAt(p + k + 1), line[k + 1])

IsLine(p) == TokenAt(p).type \in Keywords /\ Filled(p) = Len(Line(TokenAt(p).type))

Var(t) == [type |-> "VAR", var |-> Register[t.name]]
Imm(t) == [type |-> "IMM", imm |-> Number(t)]
Value(t) == IF t.type = "IDENT" THEN Var(t) ELSE Imm(t)
Name(t) == [type |-> "STR", str |-> t.name]

(* The command that the line at p becomes. *)
CommandAt(p) ==
    LET t == TokenAt(p)
        a == [j \in 1 .. 7 |-> TokenAt(p + j)]
    IN  CASE t.type \in {"NOP", "RET"} -> [type |-> t.type]
          [] t.type = "MOV" -> [type |-> "MOV", destination |-> Var(a[1]), val_a |-> Imm(a[3])]
          [] t.type = "PRINT" ->
                 [type |-> "PRINT", val_a |-> Value(a[1]),
                  val_b |-> [type |-> "BASE", base |-> BaseLetter[a[3].name]]]
          [] t.type \in {"CMP", "CMP_U"} ->
                 [type |-> t.type, val_a |-> Var(a[1]), val_b |-> Value(a[3])]
          [] t.type \in {"ADD", "SUB", "AND", "ORR", "EOR", "ASR", "LSR", "LSL"} ->
                 [type |-> t.type, destination |-> Var(a[1]), val_a |-> Var(a[3]),
                  val_b |-> Value(a[5])]
          [] t.type = "PUT" ->
                 [type |-> "PUT", val_a |-> [type |-> "STR", str |-> a[1].text],
                  val_b |-> Value(a[3])]
          [] t.type \in {"LOAD", "STORE"} ->
                 [type |-> t.type, destination |-> Var(a[1]), val_a |-> Value(a[4]),
                  val_b |-> Imm(a[6])]
          [] t.type = "BRANCH" ->
                 [type |-> "BRANCH", val_a |-> Name(a[1]), branch_condition |-> t.condition]
          [] t.type = "CALL" -> [type |-> "CALL", val_a |-> Name(a[1])]

-----------------------------------------------------------------------------
(* The loop of parse_commands.                                             *)

(* Where the newlines at current end. *)
Start == CHOOSE p \in current .. Len(source) + 1 :
             /\ TokenAt(p).type # "NL"
             /\ \A q \in current .. p - 1 : TokenAt(q).type = "NL"

AtLabel == TokenAt(Start).type = "IDENT" /\ TokenAt(Start + 1).type = "COLON"

(* A turn that reads something: the current token is not the end.          *)
Reads == phase = "parsing" /\ TokenAt(current).type # "EOF" /\ UNCHANGED source

(* Mutant: an error does not leave the loop. *)
LeaveUnlessError(label, h, error) ==
    /\ phase' = IF error THEN "parsing" ELSE "parsed"
    /\ pending' = NULL
    /\ heap' = h
    /\ had_error' = error
    /\ UNCHANGED double_free

(* The end of parse_commands, with pending_label, heap h and whether there *)
(* was an error: a label still pending is freed, and an error.             *)
Leave(label, h, error) ==
    /\ phase' = "parsed"
    /\ pending' = label
    /\ IF label = NULL
       THEN /\ heap' = h
            /\ had_error' = error
            /\ UNCHANGED double_free
       ELSE /\ heap' = h \ {Block("label", label)}
            /\ had_error' = TRUE
            /\ double_free' = (double_free \/ Block("label", label) \notin h)

Stay(label, h) == /\ pending' = label
                  /\ heap' = h
                  /\ UNCHANGED <<phase, had_error, double_free>>

Held(label) == IF label = NULL THEN {} ELSE {Block("label", label)}

(* Mutant: the list grows at its head. *)
AddAtHead(command, p, label) ==
    /\ commands' = <<command>> \o commands
    /\ origin' = <<p>> \o origin
    /\ UNCHANGED <<labels, oom>>

(* Mutant: the label is given to the tail, before the command is linked. *)
AddLabelsTail(command, p, label) ==
    /\ commands' = Append(commands, command)
    /\ origin' = Append(origin, p)
    /\ IF label = NULL THEN UNCHANGED labels
       ELSE labels' = [labels EXCEPT ![TokenAt(label).name] = Len(commands)]
    /\ UNCHANGED oom

(* A command at the tail of the list and, when a label waits for it, in    *)
(* the table: ht_put's answer is ignored.                                  *)
Add(command, p, label) ==
    /\ commands' = Append(commands, command)
    /\ origin' = Append(origin, p)
    /\ IF label = NULL THEN UNCHANGED <<labels, oom>>
       ELSE LET name == TokenAt(label).name
            IN  \/ /\ labels' = [labels EXCEPT ![name] = Len(commands) + 1]
                   /\ UNCHANGED oom
                \/ /\ labels[name] = 0
                   /\ oom' = TRUE
                   /\ UNCHANGED labels

(* Nothing is left to read. *)
AtEnd == /\ phase = "parsing"
         /\ TokenAt(current).type = "EOF"
         /\ Leave(pending, heap, had_error)
         /\ UNCHANGED <<source, current, result, oom>>

(* A label while one is pending: the pending one is freed, and again when  *)
(* the loop is left.                                                       *)
SecondLabel == /\ Reads /\ AtLabel /\ pending # NULL
               /\ current' = Start
               /\ Leave(pending, heap \ Held(pending), TRUE)
               /\ UNCHANGED <<result, oom>>

LabelNoMemory == /\ Reads /\ AtLabel /\ pending = NULL
                 /\ current' = Start
                 /\ oom' = TRUE
                 /\ Leave(NULL, heap, TRUE)
                 /\ UNCHANGED result

LabelPends == /\ Reads /\ AtLabel /\ pending = NULL
              /\ TokenAt(Start + 2).type # "EOF"
              /\ current' = Start + 2
              /\ Stay(Start, heap \cup Held(Start))
              /\ UNCHANGED <<result, oom>>

(* A label that the end of file follows: a NOP is made for it. *)
LabelAtEnd == /\ Reads /\ AtLabel /\ pending = NULL
              /\ TokenAt(Start + 2).type = "EOF"
              /\ current' = Start + 2
              /\ Add([type |-> "NOP"], Start + 2, Start)
              /\ Leave(NULL, heap \cup BlocksOf(Start + 2), had_error)

(* When there is no memory for the NOP, the label is freed twice. *)
LabelAtEndNoMemory == /\ Reads /\ AtLabel /\ pending = NULL
                      /\ TokenAt(Start + 2).type = "EOF"
                      /\ current' = Start + 2
                      /\ oom' = TRUE
                      /\ Leave(Start, heap, TRUE)
                      /\ UNCHANGED result

(* Mutant: the pending label is not freed when a command is refused. *)
NoCommandKeepsLabel(h, error) == /\ Leave(NULL, h, error)
                                 /\ UNCHANGED result

(* parse_cmd returns NULL: the pending label is freed, the loop left. *)
NoCommand(h, error) == /\ Leave(NULL, h \ Held(pending), error)
                       /\ UNCHANGED result

(* Only newlines were left. *)
NothingLeft == /\ Reads /\ ~AtLabel
               /\ TokenAt(Start).type = "EOF"
               /\ current' = Start
               /\ NoCommand(heap, had_error)
               /\ UNCHANGED oom

CommandNoMemory == /\ Reads /\ ~AtLabel
                   /\ TokenAt(Start).type # "EOF"
                   /\ current' = Start
                   /\ oom' = TRUE
                   /\ NoCommand(heap, TRUE)

(* A token that starts no command. *)
Unrecognized == /\ Reads /\ ~AtLabel
                /\ TokenAt(Start).type \notin Keywords \cup {"EOF"}
                /\ current' = Start
                /\ NoCommand(heap, TRUE)
                /\ UNCHANGED oom

(* What a refused line leaves allocated: put's string, once it was read.   *)
LeftBehind(p) == IF TokenAt(p).type = "PUT" /\ Filled(p) >= 1
                 THEN {Block("operand", p)} ELSE {}

(* A line that stops fitting: current stays at the bad token. *)
Refused == /\ Reads /\ ~AtLabel
           /\ TokenAt(Start).type \in Keywords /\ ~IsLine(Start)
           /\ current' = Start + Filled(Start) + 1
           /\ NoCommand(heap \cup LeftBehind(Start), TRUE)
           /\ UNCHANGED oom

(* Mutant: a string that could not be allocated is no error. *)
OperandUnreported == /\ Reads /\ ~AtLabel
                     /\ TokenAt(Start).type \in {"PUT", "BRANCH", "CALL"} /\ Filled(Start) >= 1
                     /\ current' = Start + 1
                     /\ oom' = TRUE
                     /\ NoCommand(heap, FALSE)

(* No memory for the string of a put, branch or call. *)
OperandNoMemory == /\ Reads /\ ~AtLabel
                   /\ TokenAt(Start).type \in {"PUT", "BRANCH", "CALL"} /\ Filled(Start) >= 1
                   /\ current' = Start + 1
                   /\ oom' = TRUE
                   /\ NoCommand(heap, TRUE)

Parsed == /\ Reads /\ ~AtLabel
          /\ IsLine(Start)
          /\ current' = Start + Len(Line(TokenAt(Start).type))
          /\ Add(CommandAt(Start), Start, pending)
          /\ Stay(NULL, (heap \ Held(pending)) \cup BlocksOf(Start))

parse_commands ==
    \/ AtEnd
    \/ SecondLabel \/ LabelNoMemory \/ LabelPends \/ LabelAtEnd \/ LabelAtEndNoMemory
    \/ NothingLeft \/ CommandNoMemory \/ Unrecognized \/ Refused \/ OperandNoMemory \/ Parsed

(* Mutant: nothing is freed after an error. *)
free_commandUnlessError == /\ phase = "parsed" /\ ~had_error
                           /\ phase' = "released"
                           /\ heap' = heap \ ListBlocks
                           /\ UNCHANGED <<source, current, had_error, result, pending,
                                          double_free, oom>>

(* free_command, at the end of ci_run_source with or without an error. *)
free_command == /\ phase = "parsed"
                /\ phase' = "released"
                /\ heap' = heap \ ListBlocks
                /\ double_free' = (double_free \/ ~(ListBlocks \subseteq heap))
                /\ UNCHANGED <<source, current, had_error, result, pending, oom>>

Next == parse_commands \/ free_command

Spec == Init /\ [][Next]_vars

(* parse_commands and free_command are loops on one thread. *)
FairSpec == Spec /\ WF_vars(Next)

-----------------------------------------------------------------------------
(* Properties.                                                             *)

Positions == 1 .. Len(source)

TypeOK == /\ source \in Seq(Token)
          /\ current \in 1 .. Len(source) + 2
          /\ phase \in {"parsing", "parsed", "released"}
          /\ had_error \in BOOLEAN /\ (had_error => phase # "parsing")
          /\ Len(origin) = Len(commands)
          /\ pending \in Positions \cup {NULL}
          /\ heap \subseteq [kind: {"command", "operand", "label"}, at: 1 .. Len(source) + 1]
          /\ double_free \in BOOLEAN /\ oom \in BOOLEAN

(* Whatever was parsed, and whatever failed, the list and the table are a  *)
(* program: operands of the kinds that interpret reads without asking, and *)
(* labels of commands that are in the list and not freed.                  *)
HandsOverProgram == IsProgram([commands |-> commands, labels |-> labels])

(* The reference grammar, line by line: a line may have a label, then a    *)
(* command, and no two labels without a command from one to the other.     *)
LineStarts == {q \in Positions : q = 1 \/ source[q - 1].type = "NL"}
HasLabel(q) == TokenAt(q).type = "IDENT" /\ TokenAt(q + 1).type = "COLON"
Body(q) == IF HasLabel(q) THEN q + 2 ELSE q
Blank(q) == TokenAt(Body(q)).type \in {"NL", "EOF"}

Statement(p) ==
    LET slots == Slots(TokenAt(p).type)
    IN  /\ TokenAt(p).type \in Keywords
        /\ \A j \in DOMAIN slots : Fits(TokenAt(p + j), slots[j])
        /\ TokenAt(p + Len(slots) + 1).type \in {"NL", "EOF"}

Legal == /\ \A q \in LineStarts : Blank(q) \/ Statement(Body(q))
         /\ \A q, r \in LineStarts : q < r /\ HasLabel(q) /\ HasLabel(r) =>
                \E s \in LineStarts : q <= s /\ s < r /\ ~Blank(s)

(* With memory enough, an error is reported for the illegal sources and    *)
(* for no other.                                                           *)
ErrorsExact == phase # "parsing" /\ ~oom => (had_error <=> ~Legal)

(* The commands are those of the source from its start to where the parser *)
(* is, in their order; only the last, when it was refused, is missing.     *)
Made == {origin[i] : i \in DOMAIN origin} \cap Positions
Seen == {q \in Positions : q < current /\ source[q].type \in Keywords}

NothingSkipped ==
    /\ \A i, j \in DOMAIN origin : i < j => origin[i] < origin[j]
    /\ Made \subseteq Seen
    /\ ~had_error => Made = Seen
    /\ \A q \in Seen \ Made : \A r \in Seen : r <= q

(* A name stands for the command that follows its last definition, over    *)
(* any newlines; a definition that nothing follows changes nothing.  When  *)
(* an allocation failed a name may be missing, but is never misplaced.     *)
Definitions(n) == {q \in Positions : q + 1 < current /\ HasLabel(q) /\ source[q].name = n}
Followed(q) == \E i \in DOMAIN origin : origin[i] > q

LabelsMeanNext ==
    \A n \in Label : ~oom \/ labels[n] # 0 =>
        IF \A q \in Definitions(n) : ~Followed(q)
        THEN labels[n] = 0
        ELSE \E q \in Definitions(n) :
                 /\ labels[n] \in DOMAIN origin /\ origin[labels[n]] > q
                 /\ \A i \in 1 .. labels[n] - 1 : origin[i] < q
                 /\ \A r \in Definitions(n) : r > q => ~Followed(r)

(* On every path, failed allocations included, the parser has allocated    *)
(* the list's blocks and the pending label, and in the end nothing; all    *)
(* that it ever loses is the string of a put that was refused behind it,   *)
(* and all that it ever frees twice is a label.                            *)
Lost == {Block("operand", q) : q \in {p \in Seen \ Made : source[p].type = "PUT" /\ current > p + 1}}

HeapExact ==
    /\ heap = Lost \cup (IF phase = "released" THEN {} ELSE ListBlocks)
                   \cup (IF phase = "parsing" THEN Held(pending) ELSE {})
    /\ double_free => phase # "parsing" /\ pending # NULL

(* An allocation that failed is reported, whichever it was and wherever    *)
(* the parser was, unless it was that of a label's entry in the table: the *)
(* label is then missing, or was defined again later.                      *)
FailuresReported ==
    phase # "parsing" /\ oom /\ ~had_error =>
        \E n \in Label : \E q \in Definitions(n) :
            /\ Followed(q)
            /\ labels[n] = 0 \/ \E r \in Definitions(n) : r > q /\ Followed(r)

(* Every source is parsed to its end or to an error, and given back.       *)
Ends == <>(phase = "released")

(* README.md:62: a syntax error stops the parser, which returns what it    *)
(* parsed; the program must then be able to go on, so no block may have    *)
(* been freed twice.                                                       *)
NothingFreedTwice == ~oom => ~double_free
=============================================================================
