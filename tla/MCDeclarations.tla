--------------------------- MODULE MCDeclarations ---------------------------
(***************************************************************************)
(* Declarations for TLC: two identifiers, one of them in two spellings,    *)
(* that share a slot with each other and with a reserved word.             *)
(***************************************************************************)
EXTENDS Declarations

MCNames == {"x", "X", "y", "int", "const"}
MCFold == [n \in MCNames |-> IF n = "X" THEN "x" ELSE n]

(* Capitals have other codes than small letters.                           *)
MCCharSum ==
  [n \in MCNames |-> CASE n = "X"                -> 1
                       [] n \in {"x", "y", "int"} -> 2
                       [] OTHER                   -> 3]

Reserved(lexeme, token) == [lexeme |-> lexeme, token |-> token]
MCKeywords ==
  <<Reserved("const", "const"), Reserved("int", "int")>>
=============================================================================
