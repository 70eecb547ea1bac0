------------------------------ MODULE MCLexer ------------------------------
(* Lexer on all short texts over a few characters for each kind of token.  *)
EXTENDS Lexer

Upto(S, n) == UNION {[1 .. k -> S] : k \in 0 .. n}

(* Numbers in all bases and variables; strings, comments and lines; words; *)
(* signs and what is no token.                                             *)
NumberTexts == Upto({"0", "1", "8", "b", "x", "X"}, 5)
LineTexts == Upto({"\"", "\n", " ", "b", "/"}, 6)
WordTexts == Upto({"b", ".", "e", "q", "1", "\t"}, 4)
SignTexts == Upto({":", ",", "[", "]", ";", "#", "/", "0"}, 3)

MCTexts == NumberTexts \cup LineTexts \cup WordTexts \cup SignTexts

(* What malloc or the stack left behind the text. *)
MCBehind == {<<>>, <<"\"", "1">>}

MCReserved == [s \in {<<"b">>, <<"b", ".", "e", "q">>} |->
                  IF Len(s) = 1 THEN "BRANCH" ELSE "BRANCH_EQ"]
=============================================================================
