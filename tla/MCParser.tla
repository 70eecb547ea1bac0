------------------------------ MODULE MCParser ------------------------------
(* Parser on words of two 2-bit bytes, two registers, names f and g, a     *)
(* register x, one that is none and a base D, and families of sources.     *)
EXTENDS Parser, TLC

CONSTANTS f, g, x, D

MCLabel == {f, g, x, D}
MCRegister == x :> 1
MCBaseLetter == D :> "D"

T(type) == [type |-> type]
Id(n) == [type |-> "IDENT", name |-> n]
Num(v) == [type |-> "NUM", number |-> v]
Str(s, v) == [type |-> "STR", text |-> s, number |-> v]
Go == [type |-> "BRANCH", condition |-> "EQUAL"]

Upto(S, n) == UNION {[1 .. k -> S] : k \in 0 .. n}

(* Every arrangement of labels, newlines, commands and other tokens.       *)
Layouts == Upto({T("NOP"), T("NL"), Id(f), Id(g), T("COLON")}, 6)

(* Labels and what refers to them. *)
References == Upto({Go, T("NL"), Id(f), T("COLON"), T("RET")}, 6)

(* A line of every kind. *)
C == T("COMMA")
Lines ==
    {<<T(t)>> : t \in {"NOP", "RET"}}
    \cup {<<T("MOV"), Id(x), C, Num(3)>>}
    \cup {<<T("PRINT"), v, C, Id(D)>> : v \in {Id(x), Num(3)}}
    \cup {<<T(t), Id(x), C, Id(x), C, v>> : t \in {"ADD", "SUB"}, v \in {Id(x), Num(3)}}
    \cup {<<T(t), Id(x), C, v>> : t \in {"CMP", "CMP_U"}, v \in {Id(x), Num(3)}}
    \cup {<<T(t), Id(x), C, Id(x), C, Id(x)>> : t \in {"AND", "ORR", "EOR"}}
    \cup {<<T(t), Id(x), C, Id(x), C, Num(1)>> : t \in {"ASR", "LSR", "LSL"}}
    \cup {<<T("PUT"), Str(<<1, 2>>, NoNumber), C, v>> : v \in {Id(x), Num(3)}}
    \cup {<<T(t), Id(x), C, T("LBRACKET"), v, C, Num(2), T("RBRACKET")>> :
              t \in {"LOAD", "STORE"}, v \in {Id(x), Num(3)}}
    \cup {<<Go, Id(f)>>, <<T("CALL"), Id(f)>>}

(* Tokens that may stand where another is expected. *)
Wrong == {Id(x), Id(f), Id(D), Num(0), Num(NoNumber), Str(<<>>, 0), Str(<<3>>, 3), C,
          T("NL"), T("LBRACKET"), T("COLON"), T("ERR"), T("NOP")}

(* The line, cut short, with one token replaced or one more, alone or      *)
(* between a labelled command and another.                                 *)
Variants(l) == {l} \cup {SubSeq(l, 1, k) : k \in 1 .. Len(l)}
               \cup {[l EXCEPT ![k] = t] : k \in DOMAIN l, t \in Wrong}
               \cup {Append(l, t) : t \in Wrong}
Damaged == UNION {Variants(l) : l \in Lines}
Between(l) == <<Id(f), T("COLON"), T("RET"), T("NL"), Id(g), T("COLON")>> \o l
              \o <<T("NL"), Go, Id(g)>>

MCSources == Layouts \cup References \cup Damaged \cup {Between(l) : l \in Damaged}
=============================================================================
