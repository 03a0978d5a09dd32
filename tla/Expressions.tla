---------------------------- MODULE Expressions ----------------------------
(***************************************************************************)
(* One command without commands inside, or the condition of a loop or      *)
(* conditional: semantic_and_syntatic.c's syntatic_attr, syntatic_write,   *)
(* syntatic_read, syntatic_paren_exp and the expressions in them           *)
(* (syntatic_exp, _exps, _t, _f), the semantic rules they apply, and what  *)
(* the code that codegen.c generates for them does when it runs.           *)
(*                                                                         *)
(* The C stack is `stack', one frame per function; `ret' is the value that *)
(* the function that returned last left to its caller.  A value is never   *)
(* known to the compiler: a struct codegen_value_info only says where it   *)
(* will be, of which size and type.  So `gen' has next to the compiler's   *)
(* counter of temporaries the memory of the generated program, run up to   *)
(* the last generated instruction.  What is computed are terms: `a - 1'    *)
(* gives the term of a subtraction, whatever a is.                         *)
(***************************************************************************)
EXTENDS ValueTypes, Sequences

CONSTANTS
  Literals,   (* constants that may occur, ...                             *)
  Symbols,    (* ...identifiers that are declared, and...                  *)
  Keywords,   (* ...the other tokens                                       *)
  MaxTokens   (* bound: tokens in the source file                          *)

(* A literal of a type that is kept in .rodata, and a symbol, has an       *)
(* address; areas are told apart no further than TMP and `mem', the rest.  *)
ASSUME LiteralsAssumption ==
  Literals \subseteq [tok : {"constant"}, type : Types, class : {"const"},
                      address : Nat]
ASSUME SymbolsAssumption ==
  Symbols \subseteq [tok : {"identifier"}, type : Types, class : Classes,
                     address : Nat]
ASSUME KeywordsAssumption ==
  Keywords \subseteq STRING \ {"constant", "identifier"}
ASSUME MaxTokensAssumption == MaxTokens \in Nat \ {0}

VARIABLES
  entry,     (* ctx->entry                                                 *)
  found,     (* ctx->found_last_token                                      *)
  input,     (* history: the tokens matched                                *)
  stack,     (* the functions that are active, the innermost last          *)
  ret,       (* the value the last function returned                       *)
  status,    (* running, or how it ended                                   *)
  gen,       (* current_bss_tmp_address, and the program's memory          *)
  effects    (* history: what the program has tested, written and assigned *)

lexVars == <<entry, found, input>>
parseVars == <<stack, ret, status>>
genVars == <<gen, effects>>
vars == <<lexVars, parseVars, genVars>>

-----------------------------------------------------------------------------
(* Tokens.                                                                 *)

Plain(tok) == [tok |-> tok, type |-> "none", class |-> "none", address |-> 0]
Undeclared == Plain("identifier")
Tokens == Literals \union Symbols \union {Undeclared}
            \union {Plain(k) : k \in Keywords}

Signs == {"+", "-"}
TermOperators == {"+", "-", "or"}
FactorOperators == {"*", "/", "and", "mod", "div"}
Comparisons == {"=", "<>", "<", "<=", ">", ">="}
FirstOfF == {"not", "(", "int", "float", "constant", "identifier"}

(* The functions with a loop over operators, syntatic_exps and syntatic_t. *)
Loops == {"exps", "t"}
OperatorsOf(fn) == IF fn = "exps" THEN TermOperators ELSE FactorOperators

-----------------------------------------------------------------------------
(* Where values are, and the memory of the generated program: the values   *)
(* that were stored and that nothing has been stored over since.           *)

Term(op, type, args) == [op |-> op, type |-> type, name |-> 0, args |-> args]
Leaf(token) ==
  [op |-> token.tok, type |-> token.type, name |-> token.address, args |-> <<>>]
Garbage == Term("garbage", "none", <<>>)
LineFeed == Term("line feed", "none", <<>>)

(* struct codegen_value_info, and the value it is about.  The compiler     *)
(* does not know that value and the generated program loads it from the    *)
(* place: it is there for OperandsIntact only.                             *)
Info(area, address, size, type, value) ==
  [area |-> area, address |-> address, size |-> size, type |-> type,
   value |-> value]
NoInfo == Info("tmp", 0, 0, "none", Garbage)
InfoOf(symbol) ==
  Info("mem", symbol.address, SizeFromType(symbol.type), symbol.type, Leaf(symbol))

Stored(area, address, width, value) ==
  [area |-> area, address |-> address, width |-> width, value |-> value]

Clear(memory, area, address, width) ==
  {s \in memory : \/ s.area # area
                  \/ s.address + s.width <= address
                  \/ address + width <= s.address}

Store(memory, area, address, width, value) ==
  Clear(memory, area, address, width)
    \union {Stored(area, address, width, value)}

Holds(memory, info, width) ==
  {s \in memory : s.area = info.area /\ s.address = info.address
                                     /\ s.width = width}

(* Any bytes that are not one stored value are garbage.                    *)
Load(memory, info, width) ==
  IF Holds(memory, info, width) = {} THEN Garbage
  ELSE (CHOOSE s \in Holds(memory, info, width) : TRUE).value

InRodata(literal) == literal.type \in {"string", "float"}
InMemory == Symbols \union {l \in Literals : InRodata(l)}
Static ==
  {Stored("mem", t.address, SizeFromType(t.type), Leaf(t)) : t \in InMemory}

(* Each of them has a place of its own (SymbolsDescribed and               *)
(* DeclValuesDisjoint in DeclarationsProofs).                              *)
ASSUME PlacesAssumption ==
  \A s, t \in InMemory : s.address = t.address => s = t

-----------------------------------------------------------------------------
(* codegen.c: functions from the generator to the generator and the place  *)
(* of the result.                                                          *)

(* get_next_address on the temporaries, and a store of `width' bytes.      *)
Put(g, size, type, width, value) ==
  LET address == AlignedAddress(g.next, size) IN
  [gen |-> [next |-> NextAddress(g.next, size),
            memory |-> Store(g.memory, "tmp", address, width, value)],
   info |-> Info("tmp", address, size, type, value)]

(* codegen_add_tmp                                                         *)
AddTmp(g, literal) ==
  LET size == SizeFromType(literal.type) IN
  IF InRodata(literal)
  THEN [gen |-> g, info |-> InfoOf(literal)]
  ELSE Put(g, size, literal.type, size, Leaf(literal))

(* A mistake: the operand is converted where it is.                        *)
ConvertInPlace(g, info, type) ==
  LET value == Term(type, type, <<Load(g.memory, info, 4)>>) IN
  [gen |-> [g EXCEPT !.memory =
              Store(g.memory, info.area, info.address, 4, value)],
   info |-> Info(info.area, info.address, 4, type, value)]

(* codegen_convert_to_integer, codegen_convert_to_floating_point           *)
Convert(g, info, type) ==
  Put(g, info.size, type, 4, Term(type, type, <<Load(g.memory, info, 4)>>))

(* A mistake: the place of the result is not accounted for.                *)
NegateFreeing(g, info) ==
  LET p == Put(g, info.size, info.type, 4,
               Term("neg", info.type, <<Load(g.memory, info, 4)>>))
  IN [p EXCEPT !.gen.next = g.next]

(* codegen_negate                                                          *)
Negate(g, info) ==
  Put(g, info.size, info.type, 4,
      Term("neg", info.type, <<Load(g.memory, info, 4)>>))

(* codegen_logic_negate                                                    *)
LogicNegate(g, info) ==
  Put(g, info.size, "logic", 1,
      Term("not", "logic", <<Load(g.memory, info, 1)>>))

(* codegen_move_idx_to_tmp, of an index inside the string: the code does   *)
(* not check it, and reads another variable with one that is outside.      *)
MoveIdxToTmp(g, symbol, index) ==
  Put(g, 1, "char", 1,
      Term("at", "char", <<Load(g.memory, InfoOf(symbol), 256),
                           Load(g.memory, index, 4)>>))

(* The assertions of the codegen_perform_* functions.  Those of the other  *)
(* functions (conversions, negations, indices, assignments, conditions)    *)
(* repeat the rule that their caller has just applied to the same values:  *)
(* the guards of the actions below are these rules, so none can fail.      *)
Asserted(op, left, right) ==
  /\ left.type = right.type
  /\ op \in {"+", "-", "*", "/"} => left.type \in {"int", "float"}
  /\ op \in {"mod", "div"} => left.type = "int"
  /\ left.size # 0

(* The operation that is generated: `/' of integers is `div', and strings  *)
(* are compared for being equal or not.                                    *)
Operation(op, type) ==
  CASE op = "/" /\ type = "int" -> "div"
    [] op \in Comparisons \ {"="} /\ type = "string" -> "<>"
    [] OTHER -> op

(* A mistake: the result of a comparison keeps the size of its operands.   *)
PerformKeepingSize(g, op, left, right) ==
  LET width == IF op \in {"and", "or"} THEN 1 ELSE SizeFromType(left.type)
      type == IF op \in Comparisons THEN "logic" ELSE left.type
      value == Term(Operation(op, left.type), left.type,
                    <<Load(g.memory, left, width), Load(g.memory, right, width)>>)
  IN Put(g, left.size, type, IF op \in Comparisons THEN 1 ELSE width, value)

(* codegen_perform_*: both operands are loaded, with the width of the      *)
(* instructions for their type, before the result is stored.               *)
Perform(g, op, left, right) ==
  LET width == IF op \in {"and", "or"} THEN 1 ELSE SizeFromType(left.type)
      value == Term(Operation(op, left.type), left.type,
                    <<Load(g.memory, left, width), Load(g.memory, right, width)>>)
  IN IF op \in Comparisons THEN Put(g, 1, "logic", 1, value)
     ELSE Put(g, left.size, left.type, width, value)

(* codegen_write: where the characters are put before they are written.    *)
BufferSize(type) ==
  CASE type = "string"           -> 257
    [] type = "char"             -> 4
    [] type = "logic"            -> 8
    [] type \in {"int", "float"} -> 32

UseBuffer(g, size) ==
  [next |-> NextAddress(g.next, size),
   memory |-> Clear(g.memory, "tmp", AlignedAddress(g.next, size), size)]

(* write_logic loads eight bytes: the value and whatever follows it.       *)
Fetched(g, info) ==
  {Load(g.memory, info, SizeFromType(info.type))}
    \union (IF info.type = "logic" THEN {Garbage} ELSE {})

(* codegen_read_into, up to the value: 257 bytes are read into a buffer,   *)
(* and numbers and booleans are converted into a temporary after it.       *)
ReadValue(g, type) ==
  LET size == SizeFromType(type)
      address == AlignedAddress(g.next, 257)
      read == UseBuffer(g, 257)
      value == Term("input", type, <<>>)
  IN IF type \in {"char", "string"}
     THEN [gen |-> [read EXCEPT !.memory =
                      Store(read.memory, "tmp", address, size, value)],
           info |-> Info("tmp", address, size, type, value)]
     ELSE Put(read, size, type, size, value)

(* codegen_reset_tmp                                                       *)
ResetTmp(g) == [g EXCEPT !.next = 0]

Assign(symbol, value) == Term("assign", "none", <<Leaf(symbol), value>>)

(* codegen_move_to_id_entry, codegen_move_to_id_entry_idx: what is stored  *)
(* at a symbol.  The index is taken to be inside the string: the generated *)
(* code does not check it, and stores into another variable with one that  *)
(* is outside.                                                             *)
Moved(g, info) == Load(g.memory, info, SizeFromType(info.type))
MovedIdx(g, symbol, info, index) ==
  Term("update", "string", <<Load(g.memory, InfoOf(symbol), 256),
                             Load(g.memory, index, 4), Load(g.memory, info, 1)>>)

-----------------------------------------------------------------------------
(* Semantic rules.                                                         *)

Arithmetic(type) == type \in {"int", "float"}

(* A mistake: only numbers are compared for being equal.                   *)
AcceptsNumbers(op, left, right) ==
  LET numbers == Arithmetic(left) /\ Arithmetic(right) IN
  CASE op \in {"mod", "div"} -> left = "int" /\ right = "int"
    [] op \in {"and", "or"}  -> left = "logic" /\ right = "logic"
    [] op \in {"+", "-", "*", "/", "=", "<>"} -> numbers
    [] OTHER -> numbers \/ (left = right /\ left # "string")

(* SR24, SR25, SR26: the types an operator accepts, ...                    *)
Accepts(op, left, right) ==
  LET numbers == Arithmetic(left) /\ Arithmetic(right) IN
  CASE op \in {"+", "-", "*", "/"} -> numbers
    [] op \in {"mod", "div"}       -> left = "int" /\ right = "int"
    [] op \in {"and", "or"}        -> left = "logic" /\ right = "logic"
    [] op \in {"=", "<>"}          -> numbers \/ left = right
    [] OTHER                       -> numbers \/ (left = right /\ left # "string")

(* A mistake: only the left operand is converted.                          *)
BalanceLeft(g, left, right) ==
  IF left.type = "int" /\ right.type = "float"
  THEN LET c == Convert(g, left, "float")
       IN [gen |-> c.gen, left |-> c.info, right |-> right]
  ELSE [gen |-> g, left |-> left, right |-> right]

(* ...and the conversion of an integer that meets a floating point.        *)
Balance(g, left, right) ==
  CASE left.type = "int" /\ right.type = "float" ->
         LET c == Convert(g, left, "float")
         IN [gen |-> c.gen, left |-> c.info, right |-> right]
    [] left.type = "float" /\ right.type = "int" ->
         LET c == Convert(g, right, "float")
         IN [gen |-> c.gen, left |-> left, right |-> c.info]
    [] OTHER -> [gen |-> g, left |-> left, right |-> right]

-----------------------------------------------------------------------------
(* The parser's control.                                                   *)

Frame(fn, at) ==
  [fn |-> fn, at |-> at, op |-> "none", left |-> NoInfo, symbol |-> Undeclared]

(* What a call pushes: syntatic_exp begins by calling syntatic_exps, and   *)
(* syntatic_t by calling syntatic_f.                                       *)
CallF == <<Frame("f", "start")>>
CallT == <<Frame("t", "first")>> \o CallF
CallExps == <<Frame("exps", "sign")>>
CallExp == <<Frame("exp", "left")>> \o CallExps
CalleeOf(fn) == IF fn = "exps" THEN CallT ELSE CallF

Top == stack[Len(stack)]
Pop == SubSeq(stack, 1, Len(stack) - 1)
At(fn, at) == status = "running" /\ Top.fn = fn /\ Top.at = at

(* The stack when the innermost function has gone on to `at'.              *)
Resume(frame) == Append(Pop, frame)
GoOn(at) == Resume([Top EXCEPT !.at = at])

Fail ==
  status' = "failed" /\ UNCHANGED <<lexVars, stack, ret, genVars>>
SemanticError ==
  status' = "mismatch" /\ UNCHANGED <<stack, ret, genVars>>
AssertionFails ==
  status' = "assertion" /\ UNCHANGED <<lexVars, stack, ret, genVars>>

Return(info) == stack' = Pop /\ ret' = info /\ UNCHANGED status

(* The command is complete.                                                *)
Finish == stack' = <<>> /\ status' = "ok" /\ UNCHANGED ret

(* syntatic_match_token: the next token, or the end of the file, where     *)
(* ctx->entry stays as it is or is zeroed.  Match may always fail instead, *)
(* by a lexical error.                                                     *)
Match(tok) ==
  /\ ~found /\ entry.tok = tok
  /\ input' = Append(input, entry)
  /\ \/ Len(input) + 1 < MaxTokens /\ found' = FALSE /\ entry' \in Tokens
     \/ found' = TRUE /\ entry' \in {entry, Undeclared}

(* A match, after which only the stack changes.                            *)
Take(tok, newStack) ==
  \/ Match(tok) /\ stack' = newStack /\ UNCHANGED <<ret, status, genVars>>
  \/ Fail

(* A match that completes the command.                                     *)
TakeLast(tok) ==
  \/ Match(tok) /\ Finish /\ UNCHANGED genVars
  \/ Fail

(* Functions that only call or return.                                     *)
Step(newStack) ==
  stack' = newStack /\ UNCHANGED <<lexVars, ret, status, genVars>>
Back(info) == Return(info) /\ UNCHANGED <<lexVars, genVars>>

(* A binary operation: the semantic rule, the conversion, the code.        *)
Combine(op, left, right) ==
  LET b == Balance(gen, left, right) IN Perform(b.gen, op, b.left, b.right)

BinaryOK(op, left, right) ==
  LET b == Balance(gen, left, right) IN Asserted(op, b.left, b.right)

-----------------------------------------------------------------------------
(* syntatic_f                                                              *)

Constant ==
  /\ At("f", "start") /\ entry.tok = "constant"
  /\ \/ LET p == AddTmp(gen, entry) IN
        Match("constant") /\ gen' = p.gen /\ Return(p.info) /\ UNCHANGED effects
     \/ Fail

(* SR8: an identifier has been declared.                                   *)
Identifier ==
  /\ At("f", "start") /\ entry.tok = "identifier"
  /\ \/ /\ Match("identifier")
        /\ IF entry.type = "none" THEN SemanticError
           ELSE /\ stack' = Resume([Top EXCEPT !.at = "id", !.symbol = entry])
                /\ UNCHANGED <<ret, status, genVars>>
     \/ Fail

IdentifierValue ==
  At("f", "id") /\ entry.tok # "[" /\ Back(InfoOf(Top.symbol))

(* SR6, SR7: an index goes to a string and is an integer.                  *)
IndexStart ==
  /\ At("f", "id") /\ entry.tok = "["
  /\ \/ /\ Match("[")
        /\ IF Top.symbol.type # "string" THEN SemanticError
           ELSE stack' = GoOn("]") \o CallExp /\ UNCHANGED <<ret, status, genVars>>
     \/ Fail

IndexEnd ==
  /\ At("f", "]")
  /\ IF ret.type # "int" THEN SemanticError /\ UNCHANGED lexVars
     ELSE \/ LET p == MoveIdxToTmp(gen, Top.symbol, ret) IN
             Match("]") /\ gen' = p.gen /\ Return(p.info) /\ UNCHANGED effects
          \/ Fail

Not == At("f", "start") /\ entry.tok = "not" /\ Take("not", GoOn("not") \o CallF)

(* SR14: only booleans are negated with `!'.                               *)
NotEnd ==
  /\ At("f", "not")
  /\ IF ret.type # "logic" THEN SemanticError
     ELSE LET p == LogicNegate(gen, ret) IN
          gen' = p.gen /\ Return(p.info) /\ UNCHANGED effects
  /\ UNCHANGED lexVars

Parenthesis == At("f", "start") /\ entry.tok = "(" /\ Take("(", GoOn(")") \o CallExp)

ParenthesisEnd ==
  /\ At("f", ")")
  /\ \/ Match(")") /\ Return(ret) /\ UNCHANGED genVars
     \/ Fail

Conversion ==
  /\ At("f", "start") /\ entry.tok \in {"int", "float"}
  /\ Take(entry.tok, Resume([Top EXCEPT !.at = "convert(", !.op = entry.tok]))

ConversionStart == At("f", "convert(") /\ Take("(", GoOn("convert)") \o CallExp)

(* SR12, SR13: int() takes a floating point, float() an integer.           *)
ConversionEnd ==
  /\ At("f", "convert)")
  /\ IF ret.type # (IF Top.op = "int" THEN "float" ELSE "int")
     THEN SemanticError /\ UNCHANGED lexVars
     ELSE \/ LET p == Convert(gen, ret, Top.op) IN
             Match(")") /\ gen' = p.gen /\ Return(p.info) /\ UNCHANGED effects
          \/ Fail

NoFactor == At("f", "start") /\ (found \/ entry.tok \notin FirstOfF) /\ Fail

Factor ==
  \/ Constant \/ Identifier \/ IdentifierValue \/ IndexStart \/ IndexEnd
  \/ Not \/ NotEnd \/ Parenthesis \/ ParenthesisEnd
  \/ Conversion \/ ConversionStart \/ ConversionEnd \/ NoFactor

-----------------------------------------------------------------------------
(* syntatic_exps and syntatic_t                                            *)

Sign ==
  /\ At("exps", "sign") /\ entry.tok \in Signs
  /\ Take(entry.tok,
          Resume([Top EXCEPT !.at = "first", !.op = entry.tok]) \o CallT)

NoSign ==
  At("exps", "sign") /\ entry.tok \notin Signs /\ Step(GoOn("first") \o CallT)

(* SR21: a sign goes to a number.  Either sign negates it.                 *)
First(fn) ==
  /\ At(fn, "first")
  /\ IF Top.op = "none"
     THEN Step(Resume([Top EXCEPT !.at = "loop", !.left = ret]))
     ELSE /\ UNCHANGED lexVars
          /\ IF ~Arithmetic(ret.type) THEN SemanticError
             ELSE LET p == Negate(gen, ret) IN
                  /\ gen' = p.gen
                  /\ stack' = Resume([Top EXCEPT !.at = "loop", !.left = p.info])
                  /\ UNCHANGED <<ret, status, effects>>

Operator(fn) ==
  /\ At(fn, "loop") /\ entry.tok \in OperatorsOf(fn)
  /\ Take(entry.tok, Resume([Top EXCEPT !.at = "operand", !.op = entry.tok])
                       \o CalleeOf(fn))

Operand(fn) ==
  /\ At(fn, "operand")
  /\ IF ~Accepts(Top.op, Top.left.type, ret.type)
     THEN SemanticError /\ UNCHANGED lexVars
     ELSE IF ~BinaryOK(Top.op, Top.left, ret) THEN AssertionFails
     ELSE LET p == Combine(Top.op, Top.left, ret) IN
          /\ gen' = p.gen
          /\ stack' = Resume([Top EXCEPT !.at = "loop", !.left = p.info])
          /\ UNCHANGED <<lexVars, ret, status, effects>>

(* A mistake: the loop over operators does not end.                        *)
LastOperandRepeating(fn) ==
  /\ At(fn, "loop") /\ entry.tok \notin OperatorsOf(fn)
  /\ Step(Resume([Top EXCEPT !.at = "first", !.op = "none"]))

LastOperand(fn) ==
  At(fn, "loop") /\ entry.tok \notin OperatorsOf(fn) /\ Back(Top.left)

Operands ==
  \/ Sign \/ NoSign
  \/ \E fn \in Loops : First(fn) \/ Operator(fn) \/ Operand(fn) \/ LastOperand(fn)

-----------------------------------------------------------------------------
(* syntatic_exp                                                            *)

Comparison ==
  /\ At("exp", "left") /\ entry.tok \in Comparisons
  /\ Take(entry.tok,
          Resume([Top EXCEPT !.at = "right", !.op = entry.tok, !.left = ret])
            \o CallExps)

NoComparison == At("exp", "left") /\ entry.tok \notin Comparisons /\ Back(ret)

Compare ==
  /\ At("exp", "right")
  /\ IF ~Accepts(Top.op, Top.left.type, ret.type)
     THEN SemanticError /\ UNCHANGED lexVars
     ELSE IF ~BinaryOK(Top.op, Top.left, ret) THEN AssertionFails
     ELSE LET p == Combine(Top.op, Top.left, ret) IN
          gen' = p.gen /\ Return(p.info) /\ UNCHANGED <<lexVars, effects>>

Expression == Comparison \/ NoComparison \/ Compare

-----------------------------------------------------------------------------
(* Commands.                                                               *)

(* syntatic_paren_exp (SR11: a condition is a boolean), and the test in    *)
(* codegen_eval_loop_expr or codegen_start_if.                             *)
ParenExpStart == At("paren", "start") /\ Take("(", GoOn(")") \o CallExp)

ParenExpEnd ==
  /\ At("paren", ")")
  /\ IF ret.type # "logic" THEN SemanticError /\ UNCHANGED lexVars
     ELSE \/ /\ Match(")") /\ Finish /\ UNCHANGED gen
             /\ effects' = Append(effects,
                             Term("test", "logic", <<Load(gen.memory, ret, 1)>>))
          \/ Fail

(* syntatic_write.  The temporaries are reset between the evaluation of    *)
(* every value but the first and the code that writes it.                  *)
WriteStart ==
  \/ At("write", "start")
       /\ Take(entry.tok, Resume([Top EXCEPT !.at = "(", !.op = entry.tok]))
  \/ At("write", "(") /\ Take("(", GoOn("first") \o CallExp)

(* needs_new_line: `writeln' ends the last value with a line feed.         *)
Written(value) ==
  <<Term("write", ret.type, <<value>>)>>
    \o (IF Top.op = "writeln" /\ entry.tok # "," THEN <<LineFeed>> ELSE <<>>)

(* A mistake: the buffer is used before the value is loaded.               *)
WriteLate(g) ==
  LET used == UseBuffer(g, BufferSize(ret.type)) IN
  /\ \E value \in Fetched(used, ret) :
       effects' = effects \o Written(value)
  /\ gen' = used
  /\ stack' = GoOn(",")
  /\ UNCHANGED <<lexVars, ret, status>>

Write(g) ==
  /\ \E value \in Fetched(g, ret) :
       effects' = effects \o Written(value)
  /\ gen' = UseBuffer(g, BufferSize(ret.type))
  /\ stack' = GoOn(",")
  /\ UNCHANGED <<lexVars, ret, status>>

WriteValue ==
  \/ At("write", "first") /\ Write(gen)
  \/ At("write", "next") /\ Write(ResetTmp(gen))

WriteNext == At("write", ",") /\ entry.tok = "," /\ Take(",", GoOn("next") \o CallExp)

WriteEnd ==
  \/ At("write", ",") /\ entry.tok # "," /\ Take(")", GoOn(";"))
  \/ At("write", ";") /\ TakeLast(";")

(* syntatic_read                                                           *)
ReadStart ==
  \/ At("readln", "start") /\ Take("readln", GoOn("("))
  \/ At("readln", "(") /\ Take("(", GoOn("id"))

(* SR8, SR10: only variables are read or assigned.                         *)
Read ==
  /\ At("readln", "id")
  /\ \/ /\ Match("identifier")
        /\ IF entry.type = "none" \/ entry.class # "var" THEN SemanticError
           ELSE LET p == ReadValue(gen, entry.type)
                    value == Moved(p.gen, p.info)
                IN /\ gen' = [p.gen EXCEPT !.memory =
                                Store(p.gen.memory, "mem", entry.address,
                                      SizeFromType(entry.type), value)]
                   /\ effects' = Append(effects, Assign(entry, value))
                   /\ stack' = GoOn(")")
                   /\ UNCHANGED <<ret, status>>
     \/ Fail

ReadEnd ==
  \/ At("readln", ")") /\ Take(")", GoOn(";"))
  \/ At("readln", ";") /\ TakeLast(";")

(* syntatic_attr                                                           *)
AttrStart ==
  /\ At("attr", "start")
  /\ \/ /\ Match("identifier")
        /\ IF entry.type = "none" \/ entry.class # "var" THEN SemanticError
           ELSE /\ stack' = Resume([Top EXCEPT !.at = "id", !.symbol = entry])
                /\ UNCHANGED <<ret, status, genVars>>
     \/ Fail

AttrIndexStart ==
  /\ At("attr", "id") /\ entry.tok = "["
  /\ \/ /\ Match("[")
        /\ IF Top.symbol.type # "string" THEN SemanticError
           ELSE stack' = GoOn("]") \o CallExp /\ UNCHANGED <<ret, status, genVars>>
     \/ Fail

(* A mistake: the temporaries are reset when the index is complete.        *)
AttrIndexEndResetting ==
  /\ At("attr", "]")
  /\ IF ret.type # "int" THEN SemanticError /\ UNCHANGED lexVars
     ELSE \/ /\ Match("]") /\ gen' = ResetTmp(gen)
             /\ stack' = Resume([Top EXCEPT !.at = ":=", !.op = "index", !.left = ret])
             /\ UNCHANGED <<ret, status, effects>>
          \/ Fail

AttrIndexEnd ==
  /\ At("attr", "]")
  /\ IF ret.type # "int" THEN SemanticError /\ UNCHANGED lexVars
     ELSE Take("]", Resume([Top EXCEPT !.at = ":=", !.op = "index", !.left = ret]))

AttrValue ==
  \/ At("attr", "id") /\ entry.tok # "[" /\ Take(":=", GoOn("value") \o CallExp)
  \/ At("attr", ":=") /\ Take(":=", GoOn("value") \o CallExp)

(* SR9, and the assignment to the symbol or to a character of it.          *)
AttrEnd ==
  LET symbol == Top.symbol
      indexed == Top.op = "index"
      value == IF indexed THEN MovedIdx(gen, symbol, ret, Top.left)
               ELSE Moved(gen, ret)
  IN
  /\ At("attr", "value")
  /\ IF ret.type # (IF indexed THEN "char" ELSE symbol.type)
     THEN SemanticError /\ UNCHANGED lexVars
     ELSE \/ /\ Match(";") /\ Finish
             /\ gen' = [gen EXCEPT !.memory =
                          Store(gen.memory, "mem", symbol.address,
                                SizeFromType(symbol.type), value)]
             /\ effects' = Append(effects, Assign(symbol, value))
          \/ Fail

Command ==
  \/ ParenExpStart \/ ParenExpEnd
  \/ WriteStart \/ WriteValue \/ WriteNext \/ WriteEnd
  \/ ReadStart \/ Read \/ ReadEnd
  \/ AttrStart \/ AttrIndexStart \/ AttrIndexEnd \/ AttrValue \/ AttrEnd

-----------------------------------------------------------------------------
(* The functions that syntatic_command, or syntatic_while and syntatic_if  *)
(* after their own token, call on a first token.                           *)
RootOf(tok) ==
  CASE tok = "identifier"           -> "attr"
    [] tok \in {"write", "writeln"} -> "write"
    [] tok = "readln"               -> "readln"
    [] tok = "("                    -> "paren"

(* syntatic_command has reset the temporaries; what they held is garbage.  *)
Init ==
  /\ entry \in {t \in Tokens : t.tok \in {"identifier", "write", "writeln",
                                          "readln", "("}}
  /\ found = FALSE /\ input = <<>>
  /\ stack = <<Frame(RootOf(entry.tok), "start")>>
  /\ ret = NoInfo /\ status = "running"
  /\ gen = [next |-> 0, memory |-> Static]
  /\ effects = <<>>

Done == status # "running" /\ UNCHANGED vars

Next == Factor \/ Operands \/ Expression \/ Command \/ Done

Spec == Init /\ [][Next]_vars

(* The compiler is one thread that runs until it returns.                  *)
FairSpec == Spec /\ WF_vars(Next)

-----------------------------------------------------------------------------
(* Properties.                                                             *)

InfoOK(info) ==
  /\ info.area \in {"tmp", "mem"} /\ info.address \in Nat /\ info.size \in Nat
  /\ info.type \in Types \union {"none"}

(* Left operands and indices that a function holds while others run, and   *)
(* the value that has just been returned to the innermost function.        *)
HoldsLeft(frame) ==
  \/ frame.fn \in Loops /\ frame.at \in {"loop", "operand"}
  \/ frame.fn = "exp" /\ frame.at = "right"
  \/ frame.fn = "attr" /\ frame.op = "index"
HasResult ==
  /\ status = "running"
  /\ Top.at \in {"]", "not", ")", "convert)", "first", "operand", "left", "right",
                 "value", "next"}
  /\ Top.fn # "readln" /\ <<Top.fn, Top.at>> # <<"write", ")">>
Live ==
  {stack[i].left : i \in {j \in DOMAIN stack : HoldsLeft(stack[j])}}
    \union (IF HasResult THEN {ret} ELSE {})

(* Variables have their types, and a value that is in use has a type and   *)
(* the size of its type.                                                   *)
TypeOK ==
  /\ entry \in Tokens /\ found \in BOOLEAN /\ input \in Seq(Tokens)
  /\ \A i \in DOMAIN stack : InfoOK(stack[i].left) /\ stack[i].symbol \in Tokens
  /\ InfoOK(ret)
  /\ status \in {"running", "ok", "failed", "mismatch", "assertion"}
  /\ gen.next \in Nat
  /\ \A info \in Live : info.type \in Types /\ info.size = SizeFromType(info.type)

(* No assertion of codegen.c fails: the semantic rules have checked and    *)
(* converted the operands of every operation before it is generated.       *)
NoAssertionFails == status # "assertion"

(* While a value is in use, the generated program has it where the         *)
(* compiler believes it is: no temporary, conversion, buffer or reset has  *)
(* reused the place of an operand that is still to be loaded.              *)
OperandsIntact ==
  \A info \in Live : Load(gen.memory, info, info.size) = info.value

(* Every function returns: each loop and each recursion takes a token.     *)
Terminates == <>(status # "running")
=============================================================================
