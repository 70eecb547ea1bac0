------------------------------ MODULE Commands ------------------------------
(***************************************************************************)
(* include/ci/command.h and command_type.h: the commands that parser.c     *)
(* builds and interpreter.c executes.  A program is the list of commands,  *)
(* as a sequence, with the label table, from names to positions in it; 0   *)
(* stands for NULL.                                                        *)
(***************************************************************************)
EXTENDS Words, Sequences

CONSTANTS
    NumVariables,  \* NUM_VARIABLES
    Label          \* label strings

ASSUME NumVariablesAssumption == NumVariables \in Nat \ {0}

VarIndex == 0 .. NumVariables - 1
Conditions == {"ALWAYS", "EQUAL", "NOT_EQUAL", "GREATER", "LESS", "GREATER_EQUAL", "LESS_EQUAL"}
Bases == {"D", "X", "B", "S"}

(* Operands, by the kinds of OperandType. *)
VarOp == [type: {"VAR"}, var: VarIndex]
ImmOp == [type: {"IMM"}, imm: Word]
StrOp == [type: {"STR"}, str: Seq(Byte \ {0})]
LabelOp == [type: {"STR"}, str: Label]
BaseOp == [type: {"BASE"}, base: Bases]

Command ==
    [type: {"NOP", "RET"}]
    \cup [type: {"MOV"}, destination: VarOp, val_a: ImmOp]
    \cup [type: {"ADD", "SUB"}, destination: VarOp, val_a: VarOp, val_b: VarOp \cup ImmOp]
    \cup [type: {"CMP", "CMP_U"}, val_a: VarOp, val_b: VarOp \cup ImmOp]
    \cup [type: {"PRINT"}, val_a: VarOp \cup ImmOp, val_b: BaseOp]
    \cup [type: {"AND", "ORR", "EOR"}, destination: VarOp, val_a: VarOp, val_b: VarOp]
    \cup [type: {"ASR", "LSR", "LSL"}, destination: VarOp, val_a: VarOp, val_b: ImmOp]
    \cup [type: {"PUT"}, val_a: StrOp, val_b: VarOp \cup ImmOp]
    \cup [type: {"LOAD", "STORE"}, destination: VarOp, val_a: VarOp \cup ImmOp, val_b: ImmOp]
    \cup [type: {"BRANCH"}, val_a: LabelOp, branch_condition: Conditions]
    \cup [type: {"CALL"}, val_a: LabelOp]

(* A label stands for a command of the list; not every label is defined. *)
IsProgram(p) == /\ p.commands \in Seq(Command)
                /\ p.labels \in [Label -> 0 .. Len(p.commands)]
=============================================================================
