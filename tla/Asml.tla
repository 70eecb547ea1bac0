-------------------------------- MODULE Asml --------------------------------
(***************************************************************************)
(* What an ASML program means, as README.md and the command list of        *)
(* include/ci/command_type.h describe it: variables are signed integers    *)
(* of a fixed width, a comparison leaves one relation for the branches, a  *)
(* call saves the variables and a ret gives all but x0 back, an access     *)
(* outside memory is an error.  There are no bit patterns, no three flags, *)
(* no heap and no pointers.  A program and its commands are as in          *)
(* Interpreter; label 0 is undefined.                                      *)
(***************************************************************************)
EXTENDS Integers, Sequences

CONSTANTS Modulus,     \* number of different values of a variable
          Top,         \* index of a variable's sign bit
          ByteModulus, MemCapacity, ValidBytes, NumVariables

VARIABLES prog, pc, regs, relation, mem, calls, status, printed

vars == <<prog, pc, regs, relation, mem, calls, status, printed>>

Value == -(Modulus \div 2) .. (Modulus \div 2) - 1
VarIndex == 0 .. NumVariables - 1
Location == 0 .. MemCapacity - 1

(* The value of the type that an integer is congruent to. *)
Norm(x) == ((x + Modulus \div 2) % Modulus) - (Modulus \div 2)
Unsigned(x) == x % Modulus

Nothing == [base |-> "none", text |-> <<>>]

(* Of any program. *)
Init == /\ pc = (IF prog.commands = <<>> THEN 0 ELSE 1)
        /\ status = (IF prog.commands = <<>> THEN "done" ELSE "running")
        /\ regs = [r \in VarIndex |-> 0]
        /\ relation = "none"
        /\ mem = [x \in Location |-> 0]
        /\ calls = <<>>
        /\ printed = Nothing

-----------------------------------------------------------------------------
cmd == prog.commands[pc]
Is(types) == status = "running" /\ cmd.type \in types

Operand(op) == IF op.type = "VAR" THEN regs[op.var] ELSE Norm(op.imm)

(* The program goes on at c, or is done at the end of the list. *)
Goto(c, cs) == IF c = 0
               THEN status' = "done" /\ pc' = 0 /\ calls' = <<>>
               ELSE pc' = c /\ calls' = cs /\ UNCHANGED status
After == IF pc < Len(prog.commands) THEN pc + 1 ELSE 0
Continue == Goto(After, calls)
Error == status' = "error" /\ pc' = 0 /\ calls' = <<>>

Silent == printed' = Nothing

-----------------------------------------------------------------------------
BitOf(x, i) == (x \div 2 ^ i) % 2
Bitwise(Op(_, _), x, y) ==
    CHOOSE z \in Value : \A i \in 0 .. Top : BitOf(z, i) = Op(BitOf(x, i), BitOf(y, i))

Band(p, q) == IF p = 1 /\ q = 1 THEN 1 ELSE 0
Bor(p, q) == IF p = 1 \/ q = 1 THEN 1 ELSE 0
Bxor(p, q) == IF p # q THEN 1 ELSE 0

Places(n) == Unsigned(n) % (Top + 1)

Meaning(type, x, y) ==
    CASE type = "MOV" -> x
      [] type = "ADD" -> Norm(x + y)
      [] type = "SUB" -> Norm(x - y)
      [] type = "AND" -> Bitwise(Band, x, y)
      [] type = "ORR" -> Bitwise(Bor, x, y)
      [] type = "EOR" -> Bitwise(Bxor, x, y)
      [] type = "ASR" -> x \div 2 ^ Places(y)
      [] type = "LSR" -> Norm(Unsigned(x) \div 2 ^ Places(y))
      [] type = "LSL" -> Norm(x * 2 ^ Places(y))

Compute == /\ Is({"MOV", "ADD", "SUB", "AND", "ORR", "EOR", "ASR", "LSR", "LSL"})
           /\ regs' = [regs EXCEPT ![cmd.destination.var] =
                  Meaning(cmd.type, Operand(cmd.val_a),
                          IF cmd.type = "MOV" THEN 0 ELSE Operand(cmd.val_b))]
           /\ Continue
           /\ Silent /\ UNCHANGED <<relation, mem>>

Relate(x, y) == IF x < y THEN "less" ELSE IF x > y THEN "greater" ELSE "equal"

Compare == /\ Is({"CMP", "CMP_U"})
           /\ LET x == Operand(cmd.val_a)
                  y == Operand(cmd.val_b)
              IN  relation' = IF cmd.type = "CMP" THEN Relate(x, y)
                                                  ELSE Relate(Unsigned(x), Unsigned(y))
           /\ Continue
           /\ Silent /\ UNCHANGED <<regs, mem>>

Nop == Is({"NOP"}) /\ Continue /\ Silent /\ UNCHANGED <<regs, relation, mem>>

-----------------------------------------------------------------------------
(* The bytes of memory from x on, up to the first zero. *)
TextFrom[x \in 0 .. MemCapacity] ==
    IF x = MemCapacity THEN <<>>
    ELSE IF mem[x] = 0 THEN <<>> ELSE <<mem[x]>> \o TextFrom[x + 1]

Say(base, x) == CASE base = "D" -> <<x>>
                  [] base \in {"X", "B"} -> <<Unsigned(x)>>
                  [] base = "S" -> TextFrom[x]

Show == /\ Is({"PRINT"})
        /\ LET x == Operand(cmd.val_a)
               base == cmd.val_b.base
           IN  IF base = "S" /\ x \notin Location
               THEN Error /\ Silent
               ELSE Continue /\ printed' = [base |-> base, text |-> Say(base, x)]
        /\ UNCHANGED <<regs, relation, mem>>

(* An access is good when all its bytes are in memory. *)
Good(x, n) == n \in ValidBytes /\ x >= 0 /\ x + n <= MemCapacity

ByteAt(x, i) == (x \div ByteModulus ^ i) % ByteModulus

(* The number that the n bytes of memory from x on spell, the first the    *)
(* least significant.                                                      *)
Number(x, n) ==
    LET Above[i \in 0 .. n] ==
            IF i = n THEN 0 ELSE mem[x + i] + ByteModulus * Above[i + 1]
    IN  Above[0]

Load == /\ Is({"LOAD"})
        /\ LET x == Operand(cmd.val_a)
               n == cmd.val_b.imm
           IN  IF Good(x, n)
               THEN regs' = [regs EXCEPT ![cmd.destination.var] = Norm(Number(x, n))] /\ Continue
               ELSE Error /\ UNCHANGED regs
        /\ Silent /\ UNCHANGED <<relation, mem>>

Store == /\ Is({"STORE"})
         /\ LET x == Operand(cmd.val_a)
                n == cmd.val_b.imm
            IN  IF Good(x, n)
                THEN /\ mem' = [y \in Location |-> IF y \in x .. x + n - 1
                            THEN ByteAt(regs[cmd.destination.var], y - x) ELSE mem[y]]
                     /\ Continue
                ELSE Error /\ UNCHANGED mem
         /\ Silent /\ UNCHANGED <<regs, relation>>

(* A string that runs over the end of memory is stored as far as it fits. *)
Put == /\ Is({"PUT"})
       /\ LET x == Operand(cmd.val_b)
              bytes == Append(cmd.val_a.str, 0)
          IN  IF x \in Location
              THEN /\ mem' = [y \in Location |-> IF y \in x .. x + Len(bytes) - 1
                          THEN bytes[y - x + 1] ELSE mem[y]]
                   /\ IF x + Len(bytes) <= MemCapacity THEN Continue ELSE Error
              ELSE Error /\ UNCHANGED mem
       /\ Silent /\ UNCHANGED <<regs, relation>>

-----------------------------------------------------------------------------
(* What the last comparison was, as the condition of a branch sees it. *)
Holds(condition) ==
    \/ condition = "ALWAYS"
    \/ condition = "EQUAL" /\ relation = "equal"
    \/ condition = "NOT_EQUAL" /\ relation # "equal"
    \/ condition = "GREATER" /\ relation = "greater"
    \/ condition = "LESS" /\ relation = "less"
    \/ condition = "GREATER_EQUAL" /\ relation \in {"greater", "equal"}
    \/ condition = "LESS_EQUAL" /\ relation \in {"less", "equal"}

Branch == /\ Is({"BRANCH"})
          /\ LET to == prog.labels[cmd.val_a.str]
             IN  IF ~Holds(cmd.branch_condition) THEN Continue
                 ELSE IF to # 0 THEN Goto(to, calls) ELSE Error
          /\ Silent /\ UNCHANGED <<regs, relation, mem>>

(* A call may find no room for what it saves. *)
Call == /\ Is({"CALL"})
        /\ LET to == prog.labels[cmd.val_a.str]
           IN  \/ Error
               \/ to # 0 /\ Goto(to, <<[saved |-> regs, return |-> After]>> \o calls)
        /\ Silent /\ UNCHANGED <<regs, relation, mem>>

Return == /\ Is({"RET"})
          /\ IF calls = <<>>
             THEN Goto(0, calls) /\ UNCHANGED regs
             ELSE /\ regs' = [calls[1].saved EXCEPT ![0] = regs[0]]
                  /\ Goto(calls[1].return, Tail(calls))
          /\ Silent /\ UNCHANGED <<relation, mem>>

Next == /\ \/ Nop \/ Compute \/ Compare \/ Show \/ Load \/ Store \/ Put
           \/ Branch \/ Call \/ Return
        /\ UNCHANGED prog

Spec == Init /\ [][Next]_vars
=============================================================================
