------------------------------ MODULE Pipeline ------------------------------
(***************************************************************************)
(* src/src/ci/init.c: ci_run_source makes the label table, has the source  *)
(* parsed, has the commands interpreted when there was no error, and frees *)
(* commands and table.  It composes Parser and Interpreter, which share    *)
(* the list of commands and the table.  The code goes on when ht_init had  *)
(* no memory: the table then has 16 buckets at address NULL, and whoever   *)
(* looks into it stops the process.                                        *)
(***************************************************************************)
EXTENDS Commands, FiniteSets

CONSTANTS
    Sources, Register, BaseLetter, NoNumber,      \* Parser's
    MemCapacity, ValidBytes, FrameAddr, Freed,    \* Interpreter's
    NULL

VARIABLES
    source, current, had_error, phase, commands, origin, labels, pending, heap,
    double_free, oom,                                              \* Parser's
    pc, running, variables, is_greater, is_less, is_equal, mem,
    frames, stack, chain, failed, printed, stray,                  \* Interpreter's
    stage,    \* of ci_run_source
    table,    \* ht_init had memory for the buckets
    answer    \* what ci_run_source returns

Parsing == INSTANCE Parser

Run == INSTANCE Interpreter WITH
    prog <- [commands |-> commands, labels |-> labels],
    current <- pc, had_error <- failed, Programs <- {}

(* What Parser and Interpreter assume of their constants. *)
ASSUME SourcesAssumption == Sources \subseteq Seq(Parsing!Token)
ASSUME RegisterAssumption == /\ DOMAIN Register \subseteq Label
                             /\ \A n \in DOMAIN Register : Register[n] \in VarIndex
ASSUME BaseLetterAssumption == /\ DOMAIN BaseLetter \subseteq Label
                               /\ \A n \in DOMAIN BaseLetter : BaseLetter[n] \in Bases
ASSUME ParserNullAssumption == NULL \notin Nat /\ NoNumber \notin Word
ASSUME MemAssumption == /\ MemCapacity \in Word \ {0} /\ 2 * MemCapacity <= Base
                        /\ ValidBytes \subseteq 1 .. WordBytes /\ 1 \in ValidBytes
ASSUME FramesAssumption == NULL \notin FrameAddr
ASSUME FreedAssumption == Freed \notin [variables: [VarIndex -> Word], return_address: Nat,
                                        next: FrameAddr \cup {NULL}]

parser == <<source, current, had_error, phase, commands, origin, labels, pending, heap,
            double_free, oom>>
interpreter == <<pc, running, variables, is_greater, is_less, is_equal, mem,
                 frames, stack, chain, failed, printed, stray>>
vars == <<parser, interpreter, stage, table, answer>>

(* The interpreter's variables before and after interpreter_init; mem is   *)
(* static.                                                                 *)
Start == IF commands = <<>> THEN 0 ELSE 1

Init == /\ Parsing!Init
        /\ pc = 0 /\ running = FALSE
        /\ variables = [r \in VarIndex |-> 0]
        /\ is_greater = FALSE /\ is_less = FALSE /\ is_equal = FALSE
        /\ mem = [x \in Run!Location |-> 0]
        /\ frames = [a \in FrameAddr |-> Freed] /\ stack = NULL /\ chain = <<>>
        /\ failed = FALSE /\ printed = Run!Nothing /\ stray = FALSE
        /\ stage = "ht_init"
        /\ table = FALSE
        /\ answer = 0

-----------------------------------------------------------------------------

Stage(from, to) == stage = from /\ stage' = to

ht_init == /\ Stage("ht_init", "parse_commands")
           /\ table' \in BOOLEAN
           /\ UNCHANGED <<parser, interpreter, answer>>

(* Whether the turn of parse_commands gets to ht_put, if it has memory. *)
PutsLabel == IF Parsing!AtLabel
             THEN pending = NULL /\ Parsing!TokenAt(Parsing!Start + 2).type = "EOF"
             ELSE pending # NULL /\ Parsing!IsLine(Parsing!Start)

parse_commands == /\ stage = "parse_commands"
                  /\ Parsing!parse_commands
                  /\ ~table /\ PutsLabel => commands' = commands
                  /\ UNCHANGED <<interpreter, stage, table, answer>>

(* Mutant: what was parsed is accepted as if there had been no error. *)
ParserErrorReturns0 == /\ Stage("parse_commands", "free_command")
                       /\ phase = "parsed" /\ had_error
                       /\ answer' = 0
                       /\ UNCHANGED <<parser, interpreter, table>>

ParserError == /\ Stage("parse_commands", "free_command")
               /\ phase = "parsed" /\ had_error
               /\ answer' = -1
               /\ UNCHANGED <<parser, interpreter, table>>

(* Mutant: the commands are freed before they are interpreted. *)
StartInterpretFreed ==
    /\ Stage("parse_commands", "interpret")
    /\ phase = "parsed" /\ ~had_error
    /\ pc' = Start /\ running' = (Start # 0)
    /\ heap' = heap \ Parsing!ListBlocks
    /\ UNCHANGED <<source, current, had_error, phase, commands, origin, labels, pending,
                   double_free, oom, variables, is_greater, is_less, is_equal, mem, frames,
                   stack, chain, failed, printed, stray, table, answer>>

(* interpreter_init, and interpret's first test. *)
StartInterpret ==
    /\ Stage("parse_commands", "interpret")
    /\ phase = "parsed" /\ ~had_error
    /\ pc' = Start /\ running' = (Start # 0)
    /\ UNCHANGED <<parser, variables, is_greater, is_less, is_equal, mem, frames, stack,
                   chain, failed, printed, stray, table, answer>>

(* Whether the turn of interpret gets to ht_get, if it has memory. *)
GetsLabel == /\ running
             /\ \/ Run!cmd.type = "CALL"
                \/ Run!cmd.type = "BRANCH" /\ Run!Taken(Run!cmd.branch_condition)

interpret == /\ stage = "interpret"
             /\ UNCHANGED <<parser, stage, table, answer>>
             /\ IF ~table /\ GetsLabel THEN Run!CallNoMemory ELSE Run!Step

Interpreted == /\ Stage("interpret", "free_command")
               /\ ~running
               /\ answer' = IF failed THEN -1 ELSE 0
               /\ UNCHANGED <<parser, interpreter, table>>

free_command == /\ Stage("free_command", "ht_free")
                /\ Parsing!free_command
                /\ UNCHANGED <<interpreter, table, answer>>

ht_free == /\ Stage("ht_free", "returned")
           /\ table
           /\ UNCHANGED <<parser, interpreter, table, answer>>

(* The process stops: it looks into a table that has no buckets, or free   *)
(* notices that a block was freed twice.                                   *)
LooksIntoTable == \/ stage = "parse_commands" /\ phase = "parsing" /\ PutsLabel
                  \/ stage = "interpret" /\ GetsLabel
                  \/ stage = "ht_free"

Crash == /\ (~table /\ stage # "ht_init" /\ LooksIntoTable) \/ double_free
         /\ stage \notin {"returned", "crashed"}
         /\ stage' = "crashed"
         /\ UNCHANGED <<parser, interpreter, table, answer>>

Next == \/ ht_init \/ parse_commands \/ ParserError \/ StartInterpret
        \/ interpret \/ Interpreted \/ free_command \/ ht_free \/ Crash

Spec == Init /\ [][Next]_vars

(* One thread, which waits for nothing. *)
FairSpec == Spec /\ WF_vars(Next)

-----------------------------------------------------------------------------
(* Properties.                                                             *)

TypeOK == /\ Parsing!TypeOK
          /\ stage \in {"ht_init", "parse_commands", "interpret", "free_command", "ht_free",
                        "returned", "crashed"}
          /\ stage = "interpret" => Run!TypeOK
          /\ table \in BOOLEAN
          /\ answer \in {-1, 0}

(* interpret runs on what parse_commands accepted, and on commands and     *)
(* operands that are still allocated.                                      *)
RunsWhatWasParsed ==
    stage = "interpret" => /\ ~had_error /\ (~oom => Parsing!Legal)
                           /\ Parsing!ListBlocks \subseteq heap

(* When ci_run_source returns, the parser's blocks are freed but for the   *)
(* strings it loses, and the call records but for those of calls that the  *)
(* program did not return from.                                            *)
FreedAtReturn ==
    stage = "returned" => /\ heap = Parsing!Lost
                          /\ \A a \in FrameAddr : frames[a] # Freed =>
                                 \E i \in DOMAIN chain : chain[i] = a

(* 0 is returned for the programs that are legal and that ran without an   *)
(* error, and, with memory enough, for all of them.                        *)
AnswerExact ==
    stage = "returned" /\ ~oom => (answer = 0 <=> Parsing!Legal /\ ~failed)

(* A branch that is taken and a call lead to the command that follows the  *)
(* last definition of the name in the source, whatever allocation failed.  *)
LastDefinition(name) ==
    CHOOSE q \in Parsing!Definitions(name) :
        /\ Parsing!Followed(q)
        /\ \A r \in Parsing!Definitions(name) : Parsing!Followed(r) => r <= q

Jumps == /\ running /\ ~failed' /\ stage' = "interpret"
         /\ \/ Run!cmd.type = "CALL"
            \/ Run!cmd.type = "BRANCH" /\ Run!Taken(Run!cmd.branch_condition)

JumpsFollowLabels ==
    [][ Jumps => LET q == LastDefinition(Run!cmd.val_a.str)
                 IN  /\ pc' \in DOMAIN origin /\ origin[pc'] > q
                     /\ \A i \in 1 .. pc' - 1 : origin[i] < q ]_vars

(* ci_run_source returns or stops the process, unless the program branches *)
(* or calls backward: a source that is refused, and a program that only    *)
(* leads forward, come to an end, whatever failed.                         *)
Finishes == [](stage = "interpret" => Run!Forward) => <>(stage \in {"returned", "crashed"})

(* init.h:17: ci_run_source returns 0 or -1.  hashtable.h has ht_init say  *)
(* whether it succeeded, so that a table for which there is no memory is   *)
(* noticed: nothing stops the process but a block that is freed twice.     *)
StopsOnlyIfFreedTwice == stage = "crashed" => double_free
=============================================================================
