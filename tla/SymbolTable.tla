---------------------------- MODULE SymbolTable ----------------------------
(***************************************************************************)
(* symbol_table.c: the hash table of reserved words and identifiers.       *)
(*                                                                         *)
(* A slot is an array element and the list that hangs from it; here it is  *)
(* one sequence, empty when the element's lexeme is.  A pointer to a       *)
(* symbol is the slot and the place in it: symbols are only ever appended, *)
(* so that pointers the parser holds stay valid.                           *)
(*                                                                         *)
(* A lexeme is a spelling, a member of Names.  The code looks at it in two *)
(* ways, both through tolower: Fold is the spelling in lower case, CharSum *)
(* the sum of a spelling's characters.                                     *)
(***************************************************************************)
EXTENDS Integers, Sequences

CONSTANTS
  Names,     (* the spellings that occur                                   *)
  Fold,      (* tolower on every character of a spelling                   *)
  CharSum,   (* the sum of the characters of a spelling                    *)
  Capacity   (* slots: 64                                                  *)

ASSUME FoldAssumption ==
  /\ Fold \in [Names -> Names]
  /\ \A n \in Names : Fold[Fold[n]] = Fold[n]
ASSUME CharSumAssumption == CharSum \in [Names -> Nat]
ASSUME CapacityAssumption == Capacity \in Nat \ {0}

TypeTokens == {"int", "float", "char", "string", "boolean"}

(* The tokens a lexeme may have: an identifier, or one of the reserved     *)
(* words.  "constant" are true and false, "command" the words that belong  *)
(* to commands.                                                            *)
WordTokens == {"identifier", "const", "constant", "command"} \union TypeTokens

(* struct symbol, without the link.                                        *)
Symbols ==
  [lexeme : Names, token : WordTokens,
   class : {"none", "var", "const"},
   type : {"none", "float", "int", "char", "logic", "string"},
   section : {"none", "bss", "data", "rodata"},
   address : Nat, size : Nat]

Slots == 0 .. Capacity - 1
Pointers == [slot : Slots, place : Nat \ {0}]
Null == [slot |-> 0, place |-> 0]

Tables == [Slots -> Seq(Symbols)]
EmptyTable == [s \in Slots |-> <<>>]

-----------------------------------------------------------------------------

(* symbol_init                                                             *)
NewSymbol(name, token) ==
  [lexeme |-> name, token |-> token, class |-> "none", type |-> "none",
   section |-> "none", address |-> 0, size |-> 0]

(* A mistake: to add up the characters as they are written.                *)
HashAsSpelled(name) == CharSum[name]

(* hash_symbol_lexeme                                                      *)
HashSymbolLexeme(name) == CharSum[Fold[name]]

SlotOf(name) == HashSymbolLexeme(name) % Capacity

(* is_case_insensitive_equal                                               *)
Same(a, b) == Fold[a] = Fold[b]

(* Where the list of the lexeme's slot has an equal one.                   *)
Places(table, name) ==
  {i \in DOMAIN table[SlotOf(name)] :
     Same(table[SlotOf(name)][i].lexeme, name)}

(* symbol_table_search: the first of them.                                 *)
Search(table, name) ==
  IF Places(table, name) = {} THEN Null
  ELSE [slot |-> SlotOf(name),
        place |-> CHOOSE i \in Places(table, name) :
                    \A j \in Places(table, name) : i <= j]

(* A mistake: only the symbol at the head of the list is compared.         *)
InsertBehindHead(table, name, token) ==
  IF 1 \in Places(table, name) THEN table
  ELSE [table EXCEPT ![SlotOf(name)] = Append(@, NewSymbol(name, token))]

(* symbol_table_insert: at the end of the list, unless it is there.        *)
Insert(table, name, token) ==
  IF Places(table, name) # {} THEN table
  ELSE [table EXCEPT ![SlotOf(name)] = Append(@, NewSymbol(name, token))]

(* What a pointer points to, and writing fields through it.                *)
At(table, pointer) == table[pointer.slot][pointer.place]
Assign(table, pointer, symbol) ==
  [table EXCEPT ![pointer.slot][pointer.place] = symbol]

(* The pointers to symbols.                                                *)
EntriesOf(table) ==
  UNION {{[slot |-> s, place |-> i] : i \in DOMAIN table[s]} : s \in Slots}
=============================================================================
