----------------------------- MODULE SymbolSet -----------------------------
(***************************************************************************)
(* What the symbol table promises (include/symbol_table.h): a set of       *)
(* symbols with at most one for every lexeme, where lexemes that differ in *)
(* case are the same; a symbol is never lost; and an identifier gets its   *)
(* class, and after it its section and address, once.                      *)
(***************************************************************************)
CONSTANT Fold       (* the lower-case spelling of each spelling            *)
VARIABLE symbols    (* records with the fields of struct symbol            *)

Init == symbols = {}

Insert(new) ==
  /\ symbols' = symbols \union {new}
  /\ \A s \in symbols : Fold[s.lexeme] # Fold[new.lexeme]
  /\ new.class = "none" /\ new.section = "none"

Declare(new) ==
  \E old \in symbols \ symbols' :
    /\ symbols' = (symbols \ {old}) \union {new}
    /\ new.lexeme = old.lexeme
    /\ old.token = "identifier" /\ new.token = old.token
    /\ old.section = "none"
    /\ old.class \in {"none", new.class}

Next == \E new \in symbols' \ symbols : Insert(new) \/ Declare(new)

Spec == Init /\ [][Next]_symbols
=============================================================================
