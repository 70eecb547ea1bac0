--------------------------- MODULE MCInterpreter ---------------------------
(* Interpreter with words of two 2-bit bytes, a memory of 4 bytes, three   *)
(* variables, two call records and families of small programs.             *)
EXTENDS Interpreter, FiniteSets, TLC

CONSTANTS f, g, r1, r2

MCLabel == {f, g}
MCFrameAddr == {r1, r2}

V(r) == [type |-> "VAR", var |-> r]
I(x) == [type |-> "IMM", imm |-> x]
S(s) == [type |-> "STR", str |-> s]
B(b) == [type |-> "BASE", base |-> b]

Nop == [type |-> "NOP"]
Ret == [type |-> "RET"]
Mov(d, x) == [type |-> "MOV", destination |-> V(d), val_a |-> I(x)]
Op(t, d, a, b) == [type |-> t, destination |-> V(d), val_a |-> V(a), val_b |-> b]
Cmp(t, a, b) == [type |-> t, val_a |-> V(a), val_b |-> b]
Show(a, b) == [type |-> "PRINT", val_a |-> a, val_b |-> B(b)]
Put(s, b) == [type |-> "PUT", val_a |-> S(s), val_b |-> b]
Access(t, d, a, n) == [type |-> t, destination |-> V(d), val_a |-> a, val_b |-> I(n)]
Go(c, l) == [type |-> "BRANCH", val_a |-> S(l), branch_condition |-> c]
Call(l) == [type |-> "CALL", val_a |-> S(l)]

(* A program with f at position i, 0 for undefined; g is never defined. *)
Program(cmds, i) == [commands |-> cmds, labels |-> f :> i @@ g :> 0]

(* Every operation on every first and some second arguments, printed. *)
Edges == {0, 1, 3, 7, 8, 15}
Alu == {Program(<<Mov(1, a), Mov(2, b), Op(t, 0, 1, V(2)), Show(V(0), "D")>>, 0) :
            a \in Word, b \in Edges, t \in {"ADD", "SUB", "AND", "ORR", "EOR"}}
       \cup {Program(<<Mov(1, a), Op(t, 1, 1, I(b)), Show(V(1), "X")>>, 0) :
            a \in Word, b \in Edges, t \in {"ADD", "SUB", "ASR", "LSR", "LSL"}}

(* Comparisons, then every branch over a command. *)
Comparisons ==
    {Program(<<Mov(1, a), Mov(2, b), Cmp(t, 1, v), Go(c, f), Mov(0, 1), Nop>>, 6) :
        a \in Edges, b \in Edges, t \in {"CMP", "CMP_U"}, v \in {V(2), I(8)}, c \in Conditions}

(* Stores, loads and strings at and around the ends of memory.             *)
Accesses ==
    {Program(<<Mov(1, v), Mov(2, a), Access("STORE", 1, V(2), n), Access("LOAD", 1, I(b), m),
               Show(V(1), "B")>>, 0) :
        v \in {6, 9, 15}, a \in {0, 1, 2, 3, 4, 8, 13}, n \in 0 .. 3, b \in {0, 1, 2, 3, 4}, m \in 1 .. 3}
Strings ==
    {Program(<<Put(<<3, 3, 3>>, I(0)), Put(s, I(a)), Show(I(b), "S")>>, 0) :
        s \in {<<>>, <<1>>, <<1, 2>>, <<2, 1, 2>>, <<1, 2, 1, 2>>},
        a \in {0, 1, 2, 3, 4, 8, 14}, b \in {0, 1, 3, 4, 15}}

(* Every program of four commands from a set with calls, returns,          *)
(* branches, comparisons and updates of x0 and x1, f anywhere or nowhere.  *)
Moves == {Call(f), Call(g), Ret, Go("ALWAYS", f), Go("NOT_EQUAL", f), Go("LESS", g),
          Cmp("CMP", 1, I(1)), Op("ADD", 0, 0, I(1)), Op("ADD", 1, 1, V(0))}
Control == {Program(<<c1, c2, c3, c4>>, i) :
                c1 \in Moves, c2 \in Moves, c3 \in Moves, c4 \in Moves, i \in 0 .. 4}

(* x0 becomes x1 + ... + 1 by recursion; the frames do or do not suffice.  *)
Recursion ==
    {[commands |-> <<Mov(1, n), Call(f), Show(V(0), "D"), Ret,
                     Cmp("CMP_U", 1, I(0)), Go("EQUAL", g),
                     Op("ADD", 0, 0, V(1)), Op("SUB", 1, 1, I(1)), Call(f), Ret>>,
      labels |-> f :> 5 @@ g :> 10] : n \in 0 .. 2}

(* One access of every kind, address and size, behind a store.             *)
Reach == {Program(<<Mov(1, 6), Access("STORE", 1, I(0), 1), c>>, 0) :
                c \in {Access(t, 1, I(a), n) : t \in {"LOAD", "STORE"}, a \in Word, n \in 0 .. 3}
                      \cup {Put(s, I(a)) : s \in {<<>>, <<1>>, <<1, 2>>, <<2, 1, 2, 1, 2>>},
                                           a \in Word}}

MCPrograms == Alu \cup Comparisons \cup Accesses \cup Reach \cup Strings \cup Control \cup Recursion
              \cup {Program(<<>>, 0)}

(* Accesses at the top of the address space, where offset + bytes wraps.   *)
MCWrapping == {Program(<<Access(t, 0, I(a), 2)>>, 0) : t \in {"LOAD", "STORE"}, a \in {13, 14, 15}}
              \cup {Program(<<Put(<<1>>, I(a))>>, 0) : a \in {13, 14, 15}}

(* Every program of four commands that call, return, branch and compare,   *)
(* for the run about records that are left.                                *)
Enders == {Call(f), Call(g), Ret, Nop, Go("ALWAYS", f), Go("LESS", f), Cmp("CMP", 0, I(1))}
MCEnding == {Program(<<c1, c2, c3, c4>>, i) :
                c1 \in Enders, c2 \in Enders, c3 \in Enders, c4 \in Enders, i \in 0 .. 4}
=============================================================================
