---------------------------- MODULE Interpreter ----------------------------
(***************************************************************************)
(* src/src/ci/interpreter.c: interpret walks the list of commands that the *)
(* parser built, over 32 variables, three flags, a memory (mem.c), a stack *)
(* of call records on the heap and the label table.  One action is one     *)
(* turn of the loop; the switch's cases are the actions, and the loop's    *)
(* test, current != NULL, is part of each.                                 *)
(*                                                                         *)
(* The list is a sequence and a Command* the position in it, 0 for NULL.   *)
(* What is printed is abstracted to the base and the values printed by the *)
(* last command.  The chain of call records is a ghost beside the pointer. *)
(***************************************************************************)
EXTENDS Memory, Commands

CONSTANTS
    Programs,      \* what parse_commands may hand over: commands and labels
    FrameAddr,     \* addresses malloc may give a StackRecord
    NULL,          \* the null pointer
    Freed          \* an address that is not allocated

ASSUME ProgramsAssumption == \A p \in Programs : IsProgram(p)
ASSUME FramesAssumption == NULL \notin FrameAddr
ASSUME FreedAssumption == Freed \notin [variables: [VarIndex -> Word],
                                        return_address: Nat,
                                        next: FrameAddr \cup {NULL}]

VARIABLES
    prog,        \* the commands and the label table, which nothing changes
    current,     \* the command about to be executed, 0 for NULL
    running,     \* interpret has not returned
    variables,
    is_greater, is_less, is_equal,
    mem,
    frames,      \* the heap of call records
    stack,       \* intr->stack
    chain,       \* ghost: the records pushed and not popped, top first
    had_error,
    printed,     \* what the last command printed
    stray        \* ghost: an access touched bytes outside mem

flags == <<is_greater, is_less, is_equal>>
calls == <<frames, stack, chain>>
control == <<prog, current, running, calls>>
vars == <<prog, current, running, variables, flags, mem, calls, had_error, printed, stray>>

Nothing == [base |-> "none", text |-> <<>>]

(* interpreter_init, mem's static zeroes, and the loop's first test. *)
Init == /\ prog \in Programs
        /\ current = (IF prog.commands = <<>> THEN 0 ELSE 1)
        /\ running = (current # 0)
        /\ variables = [r \in VarIndex |-> 0]
        /\ is_greater = FALSE /\ is_less = FALSE /\ is_equal = FALSE
        /\ mem = [x \in Location |-> 0]
        /\ frames = [a \in FrameAddr |-> Freed]
        /\ stack = NULL
        /\ chain = <<>>
        /\ had_error = FALSE
        /\ printed = Nothing
        /\ stray = FALSE

-----------------------------------------------------------------------------
(* The loop.                                                               *)

cmd == prog.commands[current]
Executes(types) == running /\ cmd.type \in types

(* current->next *)
NextOf(c) == IF c < Len(prog.commands) THEN c + 1 ELSE 0

GoTo(c) == current' = c /\ running' = (c # 0) /\ UNCHANGED <<prog, had_error>>
Advance == GoTo(NextOf(current)) /\ UNCHANGED calls

(* Mutant: a return is missing after had_error is set. *)
FailGoesOn == had_error' = TRUE /\ UNCHANGED <<prog, current, running>>

Fail == had_error' = TRUE /\ running' = FALSE /\ UNCHANGED <<prog, current>>

Quiet == printed' = Nothing
KeepFlags == UNCHANGED flags
KeepMemory == UNCHANGED <<mem, stray>>

(* The value of an operand that may be a variable or an immediate. *)
ValueOf(op) == IF op.type = "VAR" THEN variables[op.var] ELSE op.imm

SetDestination(w) == variables' = [variables EXCEPT ![cmd.destination.var] = w]

-----------------------------------------------------------------------------
(* Moves, arithmetic, logic and comparisons.                               *)

CMD_NOP == /\ Executes({"NOP"})
           /\ Advance
           /\ Quiet /\ KeepFlags /\ KeepMemory /\ UNCHANGED variables

(* The one result, or any of the results, that a command's type gives. *)
Results(type, a, b) ==
    CASE type = "MOV" -> {a}
      [] type = "ADD" -> {Wrap(a + b)}
      [] type = "SUB" -> {Wrap(a - b)}
      [] type = "AND" -> And(a, b)
      [] type = "ORR" -> Orr(a, b)
      [] type = "EOR" -> Eor(a, b)
      [] type = "ASR" -> Asr(a, b)
      [] type = "LSR" -> Lsr(a, b)
      [] type = "LSL" -> Lsl(a, b)

Computes(types, b) ==
    /\ Executes(types)
    /\ \E w \in Results(cmd.type, ValueOf(cmd.val_a), b) : SetDestination(w)
    /\ Advance
    /\ Quiet /\ KeepFlags /\ KeepMemory

CMD_MOV == Computes({"MOV"}, 0)
CMD_ADD_SUB == Computes({"ADD", "SUB"}, ValueOf(cmd.val_b))
CMD_BITWISE == Computes({"AND", "ORR", "EOR"}, variables[cmd.val_b.var])
CMD_SHIFT == Computes({"ASR", "LSR", "LSL"}, cmd.val_b.imm)

SetFlags(left, right) == /\ is_greater' = (left > right)
                         /\ is_less' = (left < right)
                         /\ is_equal' = (left = right)

Compares(types, left, right) ==
    /\ Executes(types)
    /\ SetFlags(left, right)
    /\ Advance
    /\ Quiet /\ KeepMemory /\ UNCHANGED variables

CMD_CMP == Compares({"CMP"}, Signed(ValueOf(cmd.val_a)), Signed(ValueOf(cmd.val_b)))
CMD_CMP_U == Compares({"CMP_U"}, ValueOf(cmd.val_a), ValueOf(cmd.val_b))

-----------------------------------------------------------------------------
(* Printing.                                                               *)

(* How many characters print ..., S finds at addr: up to a zero byte or    *)
(* the end of memory.                                                      *)
TextLength(addr) ==
    CHOOSE n \in 0 .. MemCapacity - addr :
        /\ \A i \in 0 .. n - 1 : mem[addr + i] # 0
        /\ addr + n \in Location => mem[addr + n] = 0

Text(base, value) ==
    CASE base = "D" -> <<Signed(value)>>
      [] base \in {"X", "B"} -> <<value>>
      [] base = "S" -> [i \in 1 .. TextLength(value) |-> mem[value + i - 1]]

CMD_PRINT ==
    /\ Executes({"PRINT"})
    /\ LET base == cmd.val_b.base
           value == ValueOf(cmd.val_a)
       IN  IF base = "S" /\ value \notin Location
           THEN Fail /\ Quiet /\ UNCHANGED calls
           ELSE Advance /\ printed' = [base |-> base, text |-> Text(base, value)]
    /\ KeepFlags /\ KeepMemory /\ UNCHANGED variables

-----------------------------------------------------------------------------
(* Memory.                                                                 *)

(* put stores a string and its NUL byte by byte, each store with its own   *)
(* check: a store that is refused leaves what was stored before it.        *)
PutCount(addr, bytes) ==
    CHOOSE n \in 0 .. Len(bytes) :
        /\ \A i \in 0 .. n - 1 : Accepts(Wrap(addr + i), 1)
        /\ n < Len(bytes) => ~Accepts(Wrap(addr + n), 1)

CMD_PUT ==
    /\ Executes({"PUT"})
    /\ LET addr == ValueOf(cmd.val_b)
           bytes == Append(cmd.val_a.str, 0)
           n == PutCount(addr, bytes)
       IN  /\ mem' = [x \in Location |-> IF Wrap(x - addr) < n
                                         THEN bytes[Wrap(x - addr) + 1]
                                         ELSE mem[x]]
           /\ stray' = (stray \/ ~Inside(addr, n))
           /\ IF n = Len(bytes) THEN Advance ELSE Fail /\ UNCHANGED calls
    /\ Quiet /\ KeepFlags /\ UNCHANGED variables

CMD_STORE ==
    /\ Executes({"STORE"})
    /\ LET offset == ValueOf(cmd.val_a)
           bytes == cmd.val_b.imm
       IN  IF Accepts(offset, bytes)
           THEN /\ mem' = Stored(mem, offset, bytes, variables[cmd.destination.var])
                /\ stray' = (stray \/ ~Inside(offset, bytes))
                /\ Advance
           ELSE Fail /\ KeepMemory /\ UNCHANGED calls
    /\ Quiet /\ KeepFlags /\ UNCHANGED variables

(* Mutant: the zeroed word is assigned before the check. *)
LoadRefusedZeroes == Fail /\ SetDestination(0) /\ UNCHANGED <<stray, calls>>

LoadRefused == Fail /\ UNCHANGED <<variables, stray, calls>>

CMD_LOAD ==
    /\ Executes({"LOAD"})
    /\ LET offset == ValueOf(cmd.val_a)
           bytes == cmd.val_b.imm
       IN  IF Accepts(offset, bytes)
           THEN /\ \E w \in Loaded(mem, offset, bytes) : SetDestination(w)
                /\ stray' = (stray \/ ~Inside(offset, bytes))
                /\ Advance
           ELSE LoadRefused
    /\ Quiet /\ KeepFlags /\ UNCHANGED mem

-----------------------------------------------------------------------------
(* Branches, calls and returns.  A label is looked up when it is needed:   *)
(* only then an undefined one is an error.                                 *)

Taken(condition) ==
    CASE condition = "ALWAYS"        -> TRUE
      [] condition = "EQUAL"         -> is_equal
      [] condition = "NOT_EQUAL"     -> ~is_equal
      [] condition = "GREATER"       -> is_greater
      [] condition = "LESS"          -> is_less
      [] condition = "GREATER_EQUAL" -> is_greater \/ is_equal
      [] condition = "LESS_EQUAL"    -> is_less \/ is_equal

(* ht_get(intr->labels, label) *)
Target == prog.labels[cmd.val_a.str]

CMD_BRANCH ==
    /\ Executes({"BRANCH"})
    /\ IF ~Taken(cmd.branch_condition) THEN Advance
       ELSE /\ IF Target # 0 THEN GoTo(Target) ELSE Fail
            /\ UNCHANGED calls
    /\ Quiet /\ KeepFlags /\ KeepMemory /\ UNCHANGED variables

KeepData == Quiet /\ KeepFlags /\ KeepMemory /\ UNCHANGED variables

CallNoMemory == /\ Executes({"CALL"})
                /\ Fail
                /\ UNCHANGED calls
                /\ KeepData

(* The record is linked before the label is looked up; when there is no    *)
(* such label it is freed, and intr->stack keeps pointing at it.           *)
CallNoLabel == /\ Executes({"CALL"})
               /\ Target = 0
               /\ \E a \in FrameAddr : /\ frames[a] = Freed
                                       /\ stack' = a
                                       /\ chain' = <<a>> \o chain
               /\ UNCHANGED frames
               /\ Fail
               /\ KeepData

(* Mutant: the record is not linked to the one below. *)
RecordUnlinked == [variables |-> variables, return_address |-> NextOf(current), next |-> NULL]

(* Mutant: a return goes back to the call. *)
RecordReturnsToCall == [variables |-> variables, return_address |-> current, next |-> stack]

(* What a call saves. *)
Record == [variables |-> variables, return_address |-> NextOf(current), next |-> stack]

CallEnters ==
    /\ Executes({"CALL"})
    /\ Target # 0
    /\ \E a \in FrameAddr :
           /\ frames[a] = Freed
           /\ frames' = [frames EXCEPT ![a] = Record]
           /\ stack' = a
           /\ chain' = <<a>> \o chain
    /\ GoTo(Target)
    /\ KeepData

CMD_CALL == CallNoMemory \/ CallNoLabel \/ CallEnters

(* A return with no call pending ends the program. *)
RetEnds == /\ Executes({"RET"})
           /\ stack = NULL
           /\ GoTo(0)
           /\ UNCHANGED calls
           /\ KeepData

(* All variables come back but x0, the result. *)
RetPops == /\ Executes({"RET"})
           /\ stack # NULL
           /\ variables' = [frames[stack].variables EXCEPT ![0] = variables[0]]
           /\ GoTo(frames[stack].return_address)
           /\ stack' = frames[stack].next
           /\ frames' = [frames EXCEPT ![stack] = Freed]
           /\ chain' = Tail(chain)
           /\ Quiet /\ KeepFlags /\ KeepMemory

(* interpret has returned. *)
Returned == ~running /\ UNCHANGED vars

Step == \/ CMD_NOP \/ CMD_MOV \/ CMD_ADD_SUB \/ CMD_BITWISE \/ CMD_SHIFT
        \/ CMD_CMP \/ CMD_CMP_U \/ CMD_PRINT
        \/ CMD_PUT \/ CMD_STORE \/ CMD_LOAD
        \/ CMD_BRANCH \/ CMD_CALL \/ RetEnds \/ RetPops

Next == Step \/ Returned

Spec == Init /\ [][Next]_vars

(* interpret is a loop on one thread: as long as it runs, it takes steps. *)
FairSpec == Spec /\ WF_vars(Step)

-----------------------------------------------------------------------------
(* Properties.                                                             *)

Frame == [variables: [VarIndex -> Word],
          return_address: 0 .. Len(prog.commands),
          next: FrameAddr \cup {NULL}]

TypeOK == /\ IsProgram(prog)
          /\ current \in 0 .. Len(prog.commands)
          /\ running \in BOOLEAN
          /\ running => current # 0
          /\ variables \in [VarIndex -> Word]
          /\ is_greater \in BOOLEAN /\ is_less \in BOOLEAN /\ is_equal \in BOOLEAN
          /\ mem \in Mem
          /\ frames \in [FrameAddr -> Frame \cup {Freed}]
          /\ stack \in FrameAddr \cup {NULL}
          /\ chain \in Seq(FrameAddr)
          /\ had_error \in BOOLEAN
          /\ had_error => ~running
          /\ stray \in BOOLEAN

(* Once something was compared, exactly one of two opposite conditions     *)
(* branches, whatever mix of signed and unsigned comparisons, calls and    *)
(* returns came before; until then no condition but NE does.               *)
BranchesDecided ==
    IF is_greater \/ is_less \/ is_equal
    THEN /\ Taken("EQUAL") # Taken("NOT_EQUAL")
         /\ Taken("GREATER") # Taken("LESS_EQUAL")
         /\ Taken("LESS") # Taken("GREATER_EQUAL")
         /\ Taken("GREATER") => Taken("NOT_EQUAL")
         /\ Taken("LESS") => Taken("NOT_EQUAL")
    ELSE \A c \in Conditions \ {"ALWAYS", "NOT_EQUAL"} : ~Taken(c)

(* While the program runs the records that CALL allocated and no RET freed *)
(* are exactly those linked from intr->stack, in the order of the calls,   *)
(* each once: no record leaks, dangles or is on the stack twice.           *)
FramesChained ==
    running =>
        /\ stack = IF chain = <<>> THEN NULL ELSE chain[1]
        /\ \A i \in DOMAIN chain :
               /\ frames[chain[i]] # Freed
               /\ frames[chain[i]].next = IF i < Len(chain) THEN chain[i + 1] ELSE NULL
        /\ \A i, j \in DOMAIN chain : chain[i] = chain[j] => i = j
        /\ \A a \in FrameAddr : frames[a] # Freed => \E i \in DOMAIN chain : chain[i] = a

(* An access that leaves memory is one whose offset and size wrap.         *)
WrapsWhenStray ==
    ~stray /\ stray' =>
        IF cmd.type = "PUT"
        THEN ValueOf(cmd.val_b) + Len(cmd.val_a.str) + 1 >= Base
        ELSE ValueOf(cmd.val_a) + cmd.val_b.imm >= Base

StraysByWrapping == [][WrapsWhenStray]_vars

(* A command that fails has changed nothing, but for a put that ran over   *)
(* the end of memory: it has stored what fits, and nothing before it.  No  *)
(* access may have left memory, as a put at the last address can.  Only a  *)
(* call of an undefined label moves the stack, to a record that is freed:  *)
(* no record is allocated, freed or, by a call for which there is no       *)
(* memory, pushed.                                                         *)
CleanWhenFailing ==
    ~had_error /\ had_error' /\ ~stray' =>
        /\ UNCHANGED <<variables, flags, frames>>
        /\ \/ UNCHANGED stack
           \/ cmd.type = "CALL" /\ Target = 0 /\ frames'[stack'] = Freed
        /\ \/ UNCHANGED mem
           \/ /\ cmd.type = "PUT"
              /\ LET addr == ValueOf(cmd.val_b)
                 IN  /\ addr \in Location
                     /\ \A x \in Location : mem'[x] = IF x < addr THEN mem[x]
                                                      ELSE cmd.val_a.str[x - addr + 1]

FailsClean == [][CleanWhenFailing]_vars

(* The interpreter computes what ASML says, with the bit patterns read as  *)
(* signed integers, the flags as one relation and the heap's chain of call *)
(* records as a stack, until an access leaves memory.                      *)
Meant == INSTANCE Asml WITH
    Modulus <- Base,
    Top <- WordBits - 1,
    ByteModulus <- 2 ^ ByteBits,
    pc <- IF running THEN current ELSE 0,
    regs <- [r \in VarIndex |-> Signed(variables[r])],
    relation <- IF is_greater THEN "greater" ELSE IF is_less THEN "less"
                ELSE IF is_equal THEN "equal" ELSE "none",
    calls <- IF ~running THEN <<>>
             ELSE [i \in DOMAIN chain |->
                      [saved |-> [r \in VarIndex |-> Signed(frames[chain[i]].variables[r])],
                       return |-> frames[chain[i]].return_address]],
    status <- IF running THEN "running" ELSE IF had_error THEN "error" ELSE "done"

RefinesAsml == Meant!Init /\ [][~stray' => Meant!Next]_(Meant!vars)

(* README.md:63: had_error is set on invalid memory access.  An access     *)
(* that mem_load and mem_store let through stays inside mem.               *)
AccessesInside == ~stray

(* run_tests.sh:56 runs the programs under valgrind --leak-check=full and  *)
(* reports a block that is not freed as LEAK: when interpret has returned, *)
(* every call record is freed, at least when no error stopped it.          *)
NoRecordLeft == ~running /\ ~had_error => \A a \in FrameAddr : frames[a] = Freed

(* A branch or call to a later command only. *)
Forward == \A c \in DOMAIN prog.commands :
              prog.commands[c].type \in {"BRANCH", "CALL"} =>
                  LET to == prog.labels[prog.commands[c].val_a.str] IN to = 0 \/ to > c

(* A program whose branches and calls only lead forward ends: a return     *)
(* goes behind its call, never back to it.                                 *)
ForwardEnds == Forward => <>~running
=============================================================================
