---------------------------- MODULE Declarations ----------------------------
(***************************************************************************)
(* Declarations of variables and constants, from the lexer's identifiers   *)
(* to the bytes of the generated program (syntatic_start,                  *)
(* syntatic_decl_var, syntatic_decl_const, SR1-SR5, SR8; the part of       *)
(* lexer_get_next_token that looks words up and inserts identifiers).      *)
(*                                                                         *)
(* Nobody inserts an identifier because it is declared: the lexer inserts  *)
(* every name it meets, says once that it is new, and that flag travels    *)
(* with the lookahead until the parser has matched the token, when the     *)
(* lexer has already looked up the next one.  The module composes the      *)
(* symbol table, the lookahead, the parser and Storage.                    *)
(*                                                                         *)
(* A command is any tokens up to a `;' (Commands and Expressions have its  *)
(* structure): what matters here is which identifiers it may use and what  *)
(* it allocates.                                                           *)
(***************************************************************************)
EXTENDS Storage, SymbolTable

CONSTANTS
  NoName,        (* no lexeme                                              *)
  Keywords,      (* the reserved words in the order in which
                    symbol_table_populate_with_keywords inserts them       *)
  ConstantTypes, (* types of constants that are no reserved words          *)
  MaxLiterals    (* bound: literals of commands kept as constants          *)

ASSUME NoNameAssumption == NoName \notin Names
ASSUME KeywordsAssumption ==
  Keywords \in Seq([lexeme : Names, token : WordTokens \ {"identifier"}])
ASSUME ConstantTypesAssumption == ConstantTypes \subseteq Types \ {"logic"}
ASSUME MaxLiteralsAssumption == MaxLiterals \in Nat

VARIABLES
  table,     (* the symbol table                                           *)
  populated, (* reserved words inserted so far                             *)
  entry,     (* ctx->entry: the lookahead                                  *)
  last,      (* ctx->last_entry: the token matched last                    *)
  found,     (* ctx->found_last_token                                      *)
  pc,        (* where the parser is                                        *)
  decl,      (* the C locals of syntatic_decl_var or syntatic_decl_const   *)
  status     (* running, or how the compilation ended                      *)

lookahead == <<entry, last, found>>
declVars == <<vars, table, populated, lookahead, pc, decl, status>>

-----------------------------------------------------------------------------
(* struct lexical_entry.  `symbol' and `new' are of an identifier, `type'  *)
(* and `length' of a constant.                                             *)

Tokens == WordTokens \union {":=", "=", "-", ",", ";", "other"}

Entries ==
  [token : Tokens, name : Names \union {NoName}, new : BOOLEAN,
   symbol : Pointers \union {Null}, type : Types, length : Nat]

(* memset to zero: TOKEN_IDENTIFIER, no lexeme, CONSTANT_TYPE_BOOLEAN.     *)
ZeroEntry == [token |-> "identifier", name |-> NoName, new |-> FALSE,
              symbol |-> Null, type |-> "logic", length |-> 0]

Plain(token) == [ZeroEntry EXCEPT !.token = token]
Constant(t, n) == [Plain("constant") EXCEPT !.type = t, !.length = n]

PlainEntries == {Plain(token) : token \in Tokens \ WordTokens}

(* The length matters for strings only.                                    *)
ConstantEntries ==
  {Constant(t, 0) : t \in ConstantTypes \ {"string"}}
    \union {Constant(t, n) : t \in ConstantTypes \intersect {"string"},
                             n \in Contents}

(* A word the table knows: reserved, or an identifier with its symbol.     *)
KnownWord(name) ==
  LET pointer == Search(table, name)
      token == At(table, pointer).token
  IN [Plain(token) EXCEPT
        !.name = name,
        !.symbol = IF token = "identifier" THEN pointer ELSE Null]

(* A word it does not know becomes an identifier.                          *)
NewWord(name) ==
  [ZeroEntry EXCEPT
     !.name = name, !.new = TRUE,
     !.symbol = Search(Insert(table, name, "identifier"), name)]

(* lexer_get_next_token when it finds a token.                             *)
NextToken ==
  /\ found' = FALSE
  /\ \/ entry' \in PlainEntries \union ConstantEntries /\ UNCHANGED table
     \/ \E name \in Names :
          /\ entry' = IF Search(table, name) = Null
                      THEN NewWord(name) ELSE KnownWord(name)
          /\ table' = Insert(table, name, "identifier")

(* The tokens the lexer returns without looking at another character can   *)
(* be the last of the file.                                                *)
EndsAtOnce(e) ==
  \/ e.token \notin WordTokens
  \/ e.token = "constant" /\ e.type \in {"char", "string"}

(* syntatic_match_token when it returns SYNTATIC_OK.  At the end of the    *)
(* file the lookahead is untouched, or zeroed if only blanks were left.    *)
Match(token) ==
  /\ ~found /\ entry.token = token
  /\ last' = entry
  /\ \/ NextToken
     \/ /\ found' = TRUE
        /\ entry' \in {ZeroEntry} \union (IF EndsAtOnce(entry) THEN {entry} ELSE {})
        /\ UNCHANGED table

NoDecl == [type |-> "logic", id |-> Null, minus |-> FALSE, listed |-> FALSE]

Running(where) == status = "running" /\ pc = where
Goto(where) == pc' = where /\ UNCHANGED <<status, populated>>

(* The parser returns to main, and its locals are gone.  It has failed if  *)
(* another token than the one to match was there, the end of the file, a   *)
(* lexical error, or a semantic rule that does not hold.                   *)
Stop(how) ==
  /\ status' = how /\ pc' = "main"
  /\ entry' = ZeroEntry /\ last' = ZeroEntry /\ found' = FALSE /\ decl' = NoDecl
  /\ UNCHANGED <<vars, table, populated>>

-----------------------------------------------------------------------------
(* main: symbol_table_populate_with_keywords, and the first token.         *)

DeclInit ==
  /\ Init
  /\ table = EmptyTable
  /\ populated = 0
  /\ entry = ZeroEntry
  /\ last = ZeroEntry
  /\ found = FALSE
  /\ pc = "main"
  /\ decl = NoDecl
  /\ status = "running"

Populate ==
  /\ Running("main") /\ populated < Len(Keywords)
  /\ LET word == Keywords[populated + 1] IN
     table' = Insert(table, word.lexeme, word.token)
  /\ populated' = populated + 1
  /\ UNCHANGED <<vars, lookahead, pc, decl, status>>

FirstToken ==
  /\ Running("main") /\ populated = Len(Keywords)
  /\ \/ NextToken /\ Goto("start") /\ UNCHANGED <<vars, last, decl>>
     \/ Stop("failed")

-----------------------------------------------------------------------------
(* syntatic_start and commands.                                            *)

(* syntatic_is_first_of_command                                            *)
StartsCommand == entry.token \in {"identifier", "command", ";"}

StartDeclaration ==
  /\ Running("start") /\ ~found
  /\ entry.token \in TypeTokens \union {"const"}
  /\ \/ /\ Match(entry.token)
        /\ decl' = [NoDecl EXCEPT
             !.type = CASE entry.token = "boolean" -> "logic"
                        [] entry.token = "const"   -> NoDecl.type
                        [] OTHER                   -> entry.token]
        /\ Goto(IF entry.token = "const" THEN "constName" ELSE "varName")
        /\ UNCHANGED vars
     \/ Stop("failed")

(* syntatic_command resets the temporaries first.                          *)
StartCommand ==
  /\ Running("start") /\ ~found /\ StartsCommand
  /\ ResetTmp
  /\ Goto("command")
  /\ UNCHANGED <<table, lookahead, decl>>

StartEnd ==
  /\ Running("start")
  /\ found \/ ~(StartsCommand \/ entry.token \in TypeTokens \union {"const"})
  /\ Stop(IF found THEN "ok" ELSE "failed")

(* An operation of the command allocates a temporary or a literal.         *)
Literals ==
  {v \in Declared : \A p \in EntriesOf(table) :
     LET s == At(table, p) IN <<s.section, s.address>> # <<v.area, v.address>>}

CommandAllocates ==
  /\ Running("command")
  /\ \/ \E size \in ScratchSizes : AllocateTmp(size)
     \/ /\ Cardinality(Literals) < MaxLiterals
        /\ last.token = "constant"
        /\ AddTmp(last.type, last.length)
  /\ UNCHANGED <<table, populated, lookahead, pc, decl, status>>

(* The body of a loop or a conditional, and the commands of a block, are   *)
(* commands of their own: syntatic_command resets again.                   *)
NestedCommand ==
  /\ Running("command") /\ StartsCommand /\ last.token \in {"other", ";"}
  /\ ResetTmp
  /\ UNCHANGED <<table, populated, lookahead, pc, decl, status>>

(* A mistake: the reset comes while the expression is being evaluated, and *)
(* other temporaries are allocated before the operand is read.             *)
WriteResetsEarly ==
  /\ Running("command") /\ last.token \in {"identifier", "constant", "other"}
  /\ ResetForWrite
  /\ UNCHANGED <<table, populated, lookahead, pc, decl, status>>

(* The second and later values of a write list: the temporaries are reset  *)
(* when the expression is complete, which its last token may be ...        *)
WriteResets ==
  /\ Running("command") /\ last.token \in {"identifier", "constant", "other"}
  /\ ResetForWrite
  /\ Goto("write")
  /\ UNCHANGED <<table, lookahead, decl>>

(* ... and codegen_write puts its buffer at the start of the area, loads   *)
(* the value and writes it.                                                *)
WriteBuffer ==
  /\ Running("write")
  /\ \E size \in ScratchSizes : AllocateTmp(size)
  /\ Goto("written")
  /\ UNCHANGED <<table, lookahead, decl>>

WriteEnd ==
  /\ Running("written")
  /\ DropLeftover
  /\ Goto("command")
  /\ UNCHANGED <<table, lookahead, decl>>

(* An identifier, then SR8: it must not be new.  SR10 and the like may     *)
(* fail as well.                                                           *)
CommandWord ==
  /\ Running("command") /\ entry.token = "identifier"
  /\ \/ Match("identifier") /\ Goto("used") /\ UNCHANGED <<vars, decl>>
     \/ Stop("failed")

(* A mistake: the flag is taken from the lookahead.                        *)
UseWordLooksAhead ==
  /\ Running("used")
  /\ \/ ~entry.new /\ Goto("command") /\ UNCHANGED <<vars, table, lookahead, decl>>
     \/ Stop("failed")

UseWord ==
  /\ Running("used")
  /\ \/ ~last.new /\ Goto("command") /\ UNCHANGED <<vars, table, lookahead, decl>>
     \/ Stop("failed")

(* The other tokens of commands.  A `;' or a brace is the last one, or     *)
(* another command of the same body follows.                               *)
CommandToken ==
  /\ Running("command") /\ entry.token # "identifier"
  /\ \/ /\ entry.token # "const"
        /\ Match(entry.token)
        /\ \E where \in {"start", "command"} :
             /\ where = "command" \/ entry.token \in {";", "other"}
             /\ Goto(where)
        /\ UNCHANGED <<vars, decl>>
     \/ Stop("failed")

-----------------------------------------------------------------------------
(* What declarations do with the symbol and the value.                     *)

WithType(symbol, t, class) == [symbol EXCEPT !.type = t, !.class = class]

(* A mistake: the address is the counter before it is aligned.             *)
PlacedBeforeAligning(symbol, area) ==
  [symbol EXCEPT
     !.section = area,
     !.size = SizeFromType(symbol.type),
     !.address = next[area]]

(* The value that codegen_add_value or codegen_add_unnit_value puts into   *)
(* `area', as info describes it.                                           *)
Placed(symbol, area) ==
  [symbol EXCEPT
     !.section = area,
     !.size = SizeFromType(symbol.type),
     !.address = AlignedAddress(next[area], SizeFromType(symbol.type))]

Symbol == At(table, decl.id)

(* SR2                                                                     *)
MaybeSigned(t) == t \notin {"char", "logic", "string"}

(* `name', after a type or a comma.                                        *)
VarName ==
  /\ Running("varName")
  /\ \/ Match("identifier") /\ Goto("varDeclare") /\ UNCHANGED <<vars, decl>>
     \/ Stop("failed")

(* A mistake: an identifier is taken for a new one if it was never given   *)
(* a value.                                                                *)
VarDeclareIfPlain ==
  /\ Running("varDeclare")
  /\ IF At(table, last.symbol).section \in {"data", "rodata"} THEN Stop("failed") ELSE
       /\ table' = Assign(table, last.symbol,
                     WithType(At(table, last.symbol), decl.type, "var"))
       /\ decl' = [decl EXCEPT !.id = last.symbol, !.minus = FALSE]
       /\ Goto("varValue")
       /\ UNCHANGED <<vars, lookahead>>

(* SR4, SR1                                                                *)
VarDeclare ==
  /\ Running("varDeclare")
  /\ IF ~last.new THEN Stop("failed") ELSE
       /\ table' = Assign(table, last.symbol,
                     WithType(At(table, last.symbol), decl.type, "var"))
       /\ decl' = [decl EXCEPT !.id = last.symbol, !.minus = FALSE]
       /\ Goto("varValue")
       /\ UNCHANGED <<vars, lookahead>>

VarAssign ==
  /\ Running("varValue") /\ entry.token = ":="
  /\ \/ Match(":=") /\ Goto("varMinus") /\ UNCHANGED <<vars, decl>>
     \/ Stop("failed")

(* SR2 before the sign is matched.                                         *)
VarMinus ==
  /\ Running("varMinus") /\ entry.token = "-"
  /\ \/ /\ MaybeSigned(Symbol.type)
        /\ Match("-")
        /\ decl' = [decl EXCEPT !.minus = TRUE]
        /\ Goto("varConstant")
        /\ UNCHANGED vars
     \/ Stop("failed")

VarConstant ==
  /\ \/ Running("varMinus") /\ entry.token # "-"
     \/ Running("varConstant")
  /\ \/ Match("constant") /\ Goto("varInit") /\ UNCHANGED <<vars, decl>>
     \/ Stop("failed")

(* SR3, codegen_add_value                                                  *)
VarInit ==
  /\ Running("varInit")
  /\ IF Symbol.type # last.type THEN Stop("failed") ELSE
       /\ AddValue(Symbol.type, Symbol.class, last.length)
       /\ table' = Assign(table, decl.id, Placed(Symbol, "data"))
       /\ Goto("varNext")
       /\ UNCHANGED <<lookahead, decl>>

(* codegen_add_unnit_value                                                 *)
VarPlain ==
  /\ Running("varValue") /\ entry.token # ":="
  /\ AddUnnitValue(Symbol.type)
  /\ table' = Assign(table, decl.id, Placed(Symbol, "bss"))
  /\ Goto("varNext")
  /\ UNCHANGED <<lookahead, decl>>

VarComma ==
  /\ Running("varNext") /\ entry.token = ","
  /\ \/ /\ Match(",")
        /\ decl' = [decl EXCEPT !.listed = TRUE]
        /\ Goto("varName")
        /\ UNCHANGED vars
     \/ Stop("failed")

(* A `;' is matched.  Without one the error is reported in two ways: after *)
(* a list by syntatic_match_token, which looks at found_last_token, and    *)
(* otherwise by the token, which get_lexeme_from_token does not expect to  *)
(* be a zeroed one: UNREACHABLE().                                         *)
VarEnd ==
  /\ Running("varNext") /\ entry.token # ","
  /\ \/ /\ Match(";")
        /\ decl' = NoDecl
        /\ Goto("start")
        /\ UNCHANGED vars
     \/ Stop(IF entry = ZeroEntry /\ ~decl.listed THEN "aborted" ELSE "failed")

ConstName ==
  /\ Running("constName")
  /\ \/ Match("identifier") /\ Goto("constDeclare") /\ UNCHANGED <<vars, decl>>
     \/ Stop("failed")

(* SR4                                                                     *)
ConstDeclare ==
  /\ Running("constDeclare")
  /\ IF ~last.new THEN Stop("failed") ELSE
       /\ decl' = [decl EXCEPT !.id = last.symbol]
       /\ Goto("constEqual")
       /\ UNCHANGED <<vars, table, lookahead>>

ConstEqual ==
  /\ Running("constEqual")
  /\ \/ Match("=") /\ Goto("constMinus") /\ UNCHANGED <<vars, decl>>
     \/ Stop("failed")

ConstMinus ==
  /\ Running("constMinus") /\ entry.token = "-"
  /\ \/ /\ Match("-")
        /\ decl' = [decl EXCEPT !.minus = TRUE]
        /\ Goto("constConstant")
        /\ UNCHANGED vars
     \/ Stop("failed")

ConstConstant ==
  /\ \/ Running("constMinus") /\ entry.token # "-"
     \/ Running("constConstant")
  /\ \/ Match("constant") /\ Goto("constInit") /\ UNCHANGED <<vars, decl>>
     \/ Stop("failed")

(* SR5, SR2, codegen_add_value                                             *)
ConstInit ==
  /\ Running("constInit")
  /\ IF decl.minus /\ ~MaybeSigned(last.type) THEN Stop("failed") ELSE
       /\ AddValue(last.type, "const", last.length)
       /\ table' = Assign(table, decl.id,
                     Placed(WithType(Symbol, last.type, "const"), "rodata"))
       /\ Goto("constEnd")
       /\ UNCHANGED <<lookahead, decl>>

ConstEnd ==
  /\ Running("constEnd")
  /\ \/ /\ Match(";")
        /\ decl' = NoDecl
        /\ Goto("start")
        /\ UNCHANGED vars
     \/ Stop("failed")

Done == status # "running" /\ UNCHANGED declVars

DeclNext ==
  \/ Populate \/ FirstToken
  \/ StartDeclaration \/ StartCommand \/ StartEnd
  \/ CommandAllocates \/ CommandWord \/ UseWord \/ CommandToken
  \/ NestedCommand \/ WriteResets \/ WriteBuffer \/ WriteEnd
  \/ VarName \/ VarDeclare \/ VarAssign \/ VarMinus \/ VarConstant
  \/ VarInit \/ VarPlain \/ VarComma \/ VarEnd
  \/ ConstName \/ ConstDeclare \/ ConstEqual \/ ConstMinus
  \/ ConstConstant \/ ConstInit \/ ConstEnd
  \/ Done

DeclSpec == DeclInit /\ [][DeclNext]_declVars

-----------------------------------------------------------------------------
(* Properties.                                                             *)

(* Types of the variables: the C types, and pointers that point to a       *)
(* symbol of the table.                                                    *)
DeclTypeOK ==
  /\ TypeOK
  /\ table \in Tables
  /\ populated \in 0 .. Len(Keywords)
  /\ entry \in Entries /\ last \in Entries /\ found \in BOOLEAN
  /\ pc \in {"main", "start", "command", "used", "write", "written",
             "varName", "varDeclare", "varValue", "varMinus", "varConstant",
             "varInit", "varNext",
             "constName", "constDeclare", "constEqual", "constMinus",
             "constConstant", "constInit", "constEnd"}
  /\ decl \in [type : Types, id : Pointers \union {Null},
               minus : BOOLEAN, listed : BOOLEAN]
  /\ status \in {"running", "ok", "failed", "aborted"}
  /\ {entry.symbol, last.symbol, decl.id} \subseteq EntriesOf(table) \union {Null}

Identifiers == {p \in EntriesOf(table) : At(table, p).token = "identifier"}

(* The symbol describes a value of the generated program, by its section,  *)
(* address and size, in the section its class asks for.                    *)
HasValue(symbol) ==
  /\ \E v \in Declared :
       /\ v.area = symbol.section
       /\ v.address = symbol.address
       /\ v.size = symbol.size
  /\ symbol.type # "none" /\ symbol.size = SizeFromType(symbol.type)
  /\ symbol.section \in IF symbol.class = "const" THEN {"rodata"}
                        ELSE {"bss", "data"}

(* Names that have been read and are not declared yet: the lookahead, and  *)
(* the identifier that a declaration or SR8 is about to look at.           *)
Pending ==
  (IF entry.new THEN {entry.symbol} ELSE {})
    \union (IF pc \in {"varDeclare", "constDeclare", "used"} /\ last.new
            THEN {last.symbol} ELSE {})
    \union (IF pc \notin {"start", "varNext", "constEnd"} THEN {decl.id} ELSE {})

(* Every identifier in the table but those has a value of its own, so that *)
(* a program that is accepted never names a place nobody reserved.         *)
SymbolsHaveValues == status \in {"running", "ok"} =>
  /\ \A p \in Identifiers \ Pending : HasValue(At(table, p))
  /\ \A p, q \in Identifiers \ Pending :
       p # q => LET s == At(table, p)
                    t == At(table, q)
                IN <<s.section, s.address>> # <<t.section, t.address>>

(* What a command uses has been declared: SR8 looks at a flag of the token *)
(* and not at the symbol.                                                  *)
UsesAreDeclared ==
  pc = "command" /\ last.token = "identifier" /\ last.symbol # Null =>
    HasValue(At(table, last.symbol))

(* A token's symbol is the one of its name, whatever the case it is        *)
(* written in, and no other place of the table holds that name.            *)
NamesFindSymbols ==
  \A e \in {entry, last} :
    e.symbol # Null =>
      {p \in EntriesOf(table) : Same(At(table, p).lexeme, e.name)} = {e.symbol}

(* The table is a set of symbols, one for each name, and declares each     *)
(* name once.                                                              *)
SymbolsOf(t) == UNION {{t[s][i] : i \in DOMAIN t[s]} : s \in Slots}
Set == INSTANCE SymbolSet WITH symbols <- SymbolsOf(table)
ImplementsSymbolSet == Set!Spec
=============================================================================
