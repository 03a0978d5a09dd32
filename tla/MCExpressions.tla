--------------------------- MODULE MCExpressions ---------------------------
(***************************************************************************)
(* Expressions for TLC: the literals, symbols and keywords of its runs,    *)
(* and the properties that are about the sentences of Phrases.             *)
(***************************************************************************)
EXTENDS Phrases

Literal(type, address) ==
  [tok |-> "constant", type |-> type, class |-> "const", address |-> address]
Symbol(type, class, address) ==
  [tok |-> "identifier", type |-> type, class |-> class, address |-> address]

(* Numbers and booleans.                                                   *)
MCLiterals == {Literal("float", 16)}
MCSymbols ==
  {Symbol("int", "var", 32), Symbol("logic", "var", 40)}
MCKeywords == {"(", ")", ":=", ";", "int", "+", "-", "/", "and", "=", "not"}

(* Strings, characters, and lists of values.                               *)
MCTextLiterals == {Literal("char", 0), Literal("int", 0)}
MCTextSymbols ==
  {Symbol("string", "var", 512), Symbol("char", "const", 40), Symbol("logic", "var", 41)}
MCTextKeywords == {"(", ")", "[", "]", ":=", ";", ",", "write",
                   "writeln", "readln", "=", "<"}

-----------------------------------------------------------------------------
(* "Generates code to write an expression": the value that is written is   *)
(* the value of the expression.                                            *)
WritesTheValue ==
  status = "ok" =>
    \A i \in DOMAIN effects :
      effects[i].op = "write" => effects[i].args[1] # Garbage
=============================================================================
