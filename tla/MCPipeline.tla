---------------------------- MODULE MCPipeline ----------------------------
(* Pipeline on words of two 2-bit bytes, a memory of 4 bytes, two          *)
(* variables, two call records and short sources made of whole lines, the  *)
(* last with or without its newline.                                       *)
EXTENDS Pipeline, TLC

CONSTANTS f, v, r1, r2

MCLabel == {f, v}
MCRegister == v :> 1
MCBaseLetter == [n \in {} |-> "D"]
MCFrameAddr == {r1, r2}

T(type) == [type |-> type]
Id(n) == [type |-> "IDENT", name |-> n]
Num(k) == [type |-> "NUM", number |-> k]
Go(c) == <<[type |-> "BRANCH", condition |-> c], Id(f)>>
C == T("COMMA")
NL == <<T("NL")>>

Def == <<Id(f), T("COLON")>>
Str == [type |-> "STR", text |-> <<1>>, number |-> NoNumber]

(* Pieces of a source: a label on a line of its own or before a command,   *)
(* the commands that jump, one that sets the flags, a load outside memory, *)
(* and a put that is refused behind its string.                            *)
Pieces == {Def, Def \o NL, Go("ALWAYS") \o NL, Go("EQUAL") \o NL, <<T("CALL"), Id(f)>> \o NL,
           <<T("RET")>> \o NL, <<T("CMP"), Id(v), C, Num(0)>> \o NL,
           <<T("LOAD"), Id(v), C, T("LBRACKET"), Num(3), C, Num(2), T("RBRACKET")>> \o NL,
           <<T("PUT"), Str>> \o NL}

Whole == {<<>>} \cup Pieces \cup {a \o b : a \in Pieces, b \in Pieces}
MCSources == UNION {{a \o b, a \o b \o <<T("NOP")>>} : a \in Whole, b \in Whole}
             \cup {a \o b \o Def : a \in Whole, b \in Pieces}
=============================================================================
