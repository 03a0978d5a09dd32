------------------------------ MODULE Commands ------------------------------
(***************************************************************************)
(* The statement level of the recursive-descent parser                     *)
(* (semantic_and_syntatic.c: syntatic_start, syntatic_command,             *)
(* syntatic_while, syntatic_if and the one-token lookahead of              *)
(* syntatic_match_token) and the loops and conditionals it has codegen.c   *)
(* generate while it parses.                                               *)
(*                                                                         *)
(* The C call stack is `stack', one frame per syntatic_while/syntatic_if   *)
(* that has generated its first label, and `pc' is where the innermost     *)
(* function is.  What the parser sees is `entry', the token that           *)
(* ctx->entry holds, and `found', ctx->found_last_token; past the end of   *)
(* the file `entry' is stale.  A command without commands inside, a        *)
(* declaration and a parenthesised condition are one token each, whose     *)
(* inside may be wrong in ways this module does not tell apart.            *)
(*                                                                         *)
(* codegen.c does not keep the labels in the C frames: one pair of static  *)
(* buffers holds the labels of the loop, another those of the conditional, *)
(* that was started last.                                                  *)
(***************************************************************************)
EXTENDS Integers, Sequences

CONSTANTS
  LocalCounts,  (* how many labels a command or a condition may use itself *)
  MaxTokens     (* bound: tokens in the source file                        *)

ASSUME LocalCountsAssumption == LocalCounts \subseteq Nat
ASSUME MaxTokensAssumption == MaxTokens \in Nat \ {0}

VARIABLES
  entry,        (* ctx->entry.token                                        *)
  found,        (* ctx->found_last_token                                   *)
  stack,        (* frames of syntatic_while and syntatic_if                *)
  pc,           (* where the innermost frame is                            *)
  status,       (* running, or how the compilation ended                   *)
  reported,     (* an error message was printed                            *)
  counter,      (* current_label_counter                                   *)
  whileLabels,  (* while_loop_start_label, while_loop_end_label            *)
  ifLabels,     (* if_end_label, if_false_label                            *)
  code,         (* the label definitions and jumps generated so far        *)
  input,        (* history: the tokens matched                             *)
  nested        (* history: some loop was inside a loop or if inside an if *)

parserVars == <<entry, found, input>>
genVars == <<counter, whileLabels, ifLabels, code, nested>>
controlVars == <<stack, pc, status, reported>>
vars == <<parserVars, genVars, controlVars>>

(* "simple": IDENTIFIER, READLN, WRITE or WRITELN and all up to its `;'.   *)
(* "decl": a type or CONST and all up to its `;'.  "paren": `( exp )'.     *)
(* "other": any token that starts none of the productions here.            *)
Tokens == {"semicolon", "simple", "while", "if", "else", "lcurly", "rcurly",
           "paren", "decl", "other"}

(* Units whose last token the lexer returns without reading another        *)
(* character, so that they can be the very last character of the file.     *)
EndsAtOnce == {"semicolon", "simple", "lcurly", "rcurly", "paren", "decl"}

(* The last token of such a unit, as the parser sees it when it is stale.  *)
StaleToken(tok) ==
  IF tok \in {"simple", "decl"} THEN "semicolon"
  ELSE IF tok = "paren" THEN "other" ELSE tok

FirstOfCommand == {"semicolon", "simple", "while", "if"}
FirstOfS == FirstOfCommand \union {"decl"}

Def(label) == [op |-> "def", label |-> label]
Jump(label) == [op |-> "jump", label |-> label]
Locals(c, n) == [i \in 1..n |-> Def(c + i - 1)]

-----------------------------------------------------------------------------
(* Lexer and lookahead.                                                    *)

(* lexer_get_next_token after the matched `tok': another token, or the end *)
(* of the file.  At the end `entry' is untouched if no character is left,  *)
(* and zeroed, which reads as an identifier, if only blanks were left.     *)
Advance(tok) ==
  /\ input' = Append(input, tok)
  /\ \/ /\ Len(input) + 1 < MaxTokens
        /\ found' = FALSE
        /\ entry' \in Tokens
     \/ /\ found' = TRUE
        /\ entry' \in {"simple"} \union
             (IF tok \in EndsAtOnce THEN {StaleToken(tok)} ELSE {})

(* syntatic_match_token when it returns SYNTATIC_OK.                       *)
Match(tok) == ~found /\ entry = tok /\ Advance(tok)

(* Any of the errors that end in -1 all the way up: end of file, another   *)
(* token, a lexical error in the next token (which can always be), or      *)
(* something wrong inside a unit, whose code is left out: nothing reads it *)
(* after an error.  All of them are printed.                               *)
Fail ==
  /\ status' = "failed"
  /\ reported' = TRUE
  /\ UNCHANGED <<parserVars, genVars, stack, pc>>

(* UNREACHABLE() is an assertion that fails.  get_lexeme_from_token runs   *)
(* into it if a declaration without a comma misses its `;' at the end of   *)
(* the file and blanks are left (VarEnd in Declarations).                  *)
Unreachable ==
  /\ status' = "aborted"
  /\ UNCHANGED <<parserVars, genVars, stack, pc, reported>>

-----------------------------------------------------------------------------
(* codegen.c                                                               *)

NestsIn(kind) == \E i \in DOMAIN stack : stack[i].kind = kind

(* A new frame; `first' and `second' record what get_next_label gave it.   *)
Push(kind, phase, first, second) ==
  /\ stack' = Append(stack, [kind |-> kind, phase |-> phase, block |-> FALSE,
                             first |-> first, second |-> second])
  /\ nested' = (nested \/ NestsIn(kind))

Frame == stack[Len(stack)]
Pop == SubSeq(stack, 1, Len(stack) - 1)

(* codegen_start_loop                                                      *)
StartLoop ==
  /\ whileLabels' = [start |-> counter, end |-> counter + 1]
  /\ code' = Append(code, Def(counter))
  /\ counter' = counter + 2
  /\ Push("while", "cond", counter, counter + 1)
  /\ UNCHANGED ifLabels

(* The condition's own labels, then codegen_eval_loop_expr                 *)
EvalLoopExpr(n) ==
  /\ code' = code \o Locals(counter, n) \o <<Jump(whileLabels.end)>>
  /\ counter' = counter + n
  /\ stack' = [stack EXCEPT ![Len(stack)].phase = "body"]
  /\ UNCHANGED <<whileLabels, ifLabels, nested>>

(* A mistake: the two labels of the loop change places.                    *)
FinishLoopSwapped ==
  /\ code' = code \o <<Jump(whileLabels.end), Def(whileLabels.start)>>
  /\ stack' = Pop
  /\ UNCHANGED <<counter, whileLabels, ifLabels, nested>>

(* codegen_finish_loop, and syntatic_while returns                         *)
FinishLoop ==
  /\ code' = code \o <<Jump(whileLabels.start), Def(whileLabels.end)>>
  /\ stack' = Pop
  /\ UNCHANGED <<counter, whileLabels, ifLabels, nested>>

(* The condition's own labels, then codegen_start_if                       *)
StartIf(n) ==
  LET end == counter + n
      false == counter + n + 1
  IN
  /\ ifLabels' = [end |-> end, false |-> false]
  /\ code' = code \o Locals(counter, n) \o <<Jump(false)>>
  /\ counter' = counter + n + 2
  /\ Push("if", "then", end, false)
  /\ UNCHANGED whileLabels

(* A mistake: the else is put after the end of the conditional.            *)
StartElseAtEnd ==
  /\ code' = code \o <<Jump(ifLabels.false), Def(ifLabels.end)>>
  /\ UNCHANGED <<counter, whileLabels, ifLabels, nested>>

(* codegen_if_jmp, codegen_start_else                                      *)
StartElse ==
  /\ code' = code \o <<Jump(ifLabels.end), Def(ifLabels.false)>>
  /\ UNCHANGED <<counter, whileLabels, ifLabels, nested>>

(* codegen_finish_if, and syntatic_if returns                              *)
FinishIf(hadElse) ==
  /\ code' = Append(code, Def(IF hadElse THEN ifLabels.end ELSE ifLabels.false))
  /\ stack' = Pop
  /\ UNCHANGED <<counter, whileLabels, ifLabels, nested>>

-----------------------------------------------------------------------------
(* semantic_and_syntatic.c                                                 *)

Running(where) == status = "running" /\ pc = where
Goto(where) == pc' = where /\ UNCHANGED <<status, reported>>

(* main has read a first token.                                            *)
Init ==
  /\ entry \in Tokens
  /\ found = FALSE
  /\ stack = <<>>
  /\ pc = "start"
  /\ status = "running"
  /\ reported = FALSE
  /\ counter = 0
  /\ whileLabels = [start |-> 0, end |-> 0]
  /\ ifLabels = [end |-> 0, false |-> 0]
  /\ code = <<>>
  /\ input = <<>>
  /\ nested = FALSE

(* syntatic_start: the loop over declarations and commands...              *)
StartCommand ==
  /\ Running("start") /\ ~found /\ entry \in FirstOfCommand
  /\ Goto("command")
  /\ UNCHANGED <<parserVars, genVars, stack>>

StartDeclaration ==
  /\ Running("start") /\ ~found /\ entry = "decl"
  /\ \/ Match("decl") /\ UNCHANGED <<genVars, controlVars>>
     \/ Fail
     \/ Unreachable

(* ...and its end: success only at the end of the file.                    *)
StartEnd ==
  /\ Running("start") /\ (found \/ entry \notin FirstOfS)
  /\ IF found
     THEN status' = "ok" /\ UNCHANGED <<parserVars, genVars, stack, pc, reported>>
     ELSE Fail

(* A mistake: an empty command does not match its `;'.                     *)
SimpleCommandStays ==
  /\ Running("command") /\ entry \in {"semicolon", "simple"}
  /\ \/ /\ entry = "semicolon" /\ UNCHANGED parserVars
        /\ Goto("return") /\ UNCHANGED <<genVars, stack>>
     \/ /\ entry = "simple" /\ Match("simple")
        /\ Goto("return") /\ UNCHANGED <<genVars, stack>>
     \/ Fail

(* syntatic_command: `;' or one of write, read and assignment, ...         *)
SimpleCommand ==
  /\ Running("command") /\ entry \in {"semicolon", "simple"}
  /\ \/ /\ Match(entry)
        /\ \E n \in IF entry = "simple" THEN LocalCounts ELSE {0} :
             /\ code' = code \o Locals(counter, n)
             /\ counter' = counter + n
        /\ Goto("return")
        /\ UNCHANGED <<whileLabels, ifLabels, nested, stack>>
     \/ Fail

(* ...a loop, a conditional,...                                            *)
WhileCommand ==
  /\ Running("command") /\ entry = "while"
  /\ \/ Match("while") /\ StartLoop /\ Goto("whileCond")
     \/ Fail

IfCommand ==
  /\ Running("command") /\ entry = "if"
  /\ \/ Match("if") /\ Goto("ifCond") /\ UNCHANGED <<genVars, stack>>
     \/ Fail

(* ...or the default of the switch, UNREACHABLE().                         *)
UnreachableCommand ==
  /\ Running("command") /\ entry \notin FirstOfCommand
  /\ Unreachable

(* syntatic_while and syntatic_if: syntatic_paren_exp and the jump.        *)
WhileCondition ==
  /\ Running("whileCond")
  /\ \/ /\ Match("paren")
        /\ \E n \in LocalCounts : EvalLoopExpr(n)
        /\ Goto("body")
     \/ Fail

IfCondition ==
  /\ Running("ifCond")
  /\ \/ /\ Match("paren")
        /\ \E n \in LocalCounts : StartIf(n)
        /\ Goto("body")
     \/ Fail

(* What follows the condition: one command, a block, or an error, for      *)
(* which syntatic_while returns -1 and syntatic_if 1.                      *)
BodyCommand ==
  /\ Running("body") /\ entry \in FirstOfCommand
  /\ Goto("command")
  /\ UNCHANGED <<parserVars, genVars, stack>>

BodyBlock ==
  /\ Running("body") /\ entry = "lcurly"
  /\ \/ /\ Match("lcurly")
        /\ stack' = [stack EXCEPT ![Len(stack)].block = TRUE]
        /\ Goto("block")
        /\ UNCHANGED genVars
     \/ Fail

(* A mistake: the conditional is finished as if its body were empty.       *)
BodyErrorFinishing ==
  /\ Running("body") /\ entry \notin FirstOfCommand \union {"lcurly"}
  /\ IF Frame.kind = "while"
     THEN Fail
     ELSE /\ reported' = TRUE
          /\ FinishIf(FALSE)
          /\ pc' = "return"
          /\ UNCHANGED <<parserVars, status>>

BodyError ==
  /\ Running("body") /\ entry \notin FirstOfCommand \union {"lcurly"}
  /\ IF Frame.kind = "while"
     THEN Fail
     ELSE /\ reported' = TRUE
          /\ stack' = Pop
          /\ pc' = "return"
          /\ UNCHANGED <<parserVars, genVars, status>>

(* Inside braces: `while (syntatic_is_first_of_command(ctx))'.             *)
BlockCommand ==
  /\ Running("block") /\ entry \in FirstOfCommand
  /\ Goto("command")
  /\ UNCHANGED <<parserVars, genVars, stack>>

(* What a frame does after its body: a loop is finished, a conditional     *)
(* looks for an else, or is finished after its else.                       *)
AfterBody ==
  \/ Frame.kind = "while" /\ FinishLoop /\ Goto("return")
  \/ /\ Frame.kind = "if" /\ Frame.phase = "then"
     /\ Goto("else?") /\ UNCHANGED <<genVars, stack>>
  \/ /\ Frame.kind = "if" /\ Frame.phase = "else"
     /\ FinishIf(TRUE) /\ Goto("return")

(* A mistake: the end of the file ends a block.                            *)
BlockEndAtEof ==
  /\ Running("block") /\ entry \notin FirstOfCommand
  /\ \/ found /\ AfterBody /\ UNCHANGED parserVars
     \/ Match("rcurly") /\ AfterBody
     \/ Fail

BlockEnd ==
  /\ Running("block") /\ entry \notin FirstOfCommand
  /\ \/ Match("rcurly") /\ AfterBody
     \/ Fail

(* A mistake: a body without braces returns to syntatic_start.             *)
ReturnToStart ==
  /\ Running("return")
  /\ UNCHANGED <<parserVars, genVars, stack>>
  /\ IF stack # <<>> /\ Frame.block THEN Goto("block") ELSE Goto("start")

(* A command has returned 0 to the function that called syntatic_command.  *)
Return ==
  /\ Running("return")
  /\ UNCHANGED parserVars
  /\ \/ stack = <<>> /\ Goto("start") /\ UNCHANGED <<genVars, stack>>
     \/ /\ stack # <<>> /\ Frame.block
        /\ Goto("block") /\ UNCHANGED <<genVars, stack>>
     \/ stack # <<>> /\ ~Frame.block /\ AfterBody

(* The jump and the label come before the match, which may fail.           *)
Else ==
  /\ Running("else?") /\ entry = "else"
  /\ StartElse
  /\ \/ /\ Match("else")
        /\ stack' = [stack EXCEPT ![Len(stack)].phase = "else"]
        /\ Goto(IF Frame.block THEN "elseBlock" ELSE "command")
     \/ /\ status' = "failed" /\ reported' = TRUE
        /\ UNCHANGED <<parserVars, stack, pc>>

NoElse ==
  /\ Running("else?") /\ entry # "else"
  /\ FinishIf(FALSE)
  /\ Goto("return")
  /\ UNCHANGED parserVars

ElseBlock ==
  /\ Running("elseBlock")
  /\ \/ Match("lcurly") /\ Goto("block") /\ UNCHANGED <<genVars, stack>>
     \/ Fail

Done == status # "running" /\ UNCHANGED vars

Next ==
  \/ StartCommand \/ StartDeclaration \/ StartEnd
  \/ SimpleCommand \/ WhileCommand \/ IfCommand \/ UnreachableCommand
  \/ WhileCondition \/ IfCondition
  \/ BodyCommand \/ BodyBlock \/ BodyError
  \/ BlockCommand \/ BlockEnd
  \/ Return \/ Else \/ NoElse \/ ElseBlock
  \/ Done

(* The compiler is one thread that runs until it returns.                  *)
Spec == Init /\ [][Next]_vars
FairSpec == Spec /\ WF_vars(Next)

-----------------------------------------------------------------------------
(* Properties.                                                             *)

Frames == [kind : {"while", "if"}, phase : {"cond", "body", "then", "else"},
           block : BOOLEAN, first : Nat, second : Nat]
Ops == [op : {"def", "jump"}, label : Nat]

(* Every variable has its type, and the parser is inside a loop or a       *)
(* conditional exactly when its frame is on the stack.                     *)
TypeOK ==
  /\ entry \in Tokens /\ found \in BOOLEAN
  /\ stack \in Seq(Frames)
  /\ pc \in {"start", "command", "whileCond", "ifCond", "body", "block",
             "return", "else?", "elseBlock"}
  /\ status \in {"running", "ok", "failed", "aborted"}
  /\ reported \in BOOLEAN /\ nested \in BOOLEAN
  /\ counter \in Nat
  /\ whileLabels \in [start : Nat, end : Nat]
  /\ ifLabels \in [end : Nat, false : Nat]
  /\ code \in Seq(Ops)
  /\ input \in Seq(Tokens)
  /\ (pc = "start") => (stack = <<>>)
  /\ (pc \in {"whileCond", "body", "block", "else?", "elseBlock"}) =>
       (stack # <<>>)

(* The units that codegen.h promises: what each frame started.             *)
OpenUnits ==
  [i \in DOMAIN stack |->
     [kind |-> stack[i].kind, phase |-> stack[i].phase,
      first |-> stack[i].first, second |-> stack[i].second]]

Structured == INSTANCE StructuredCode
  WITH open <- OpenUnits,
       aborted <- reported \/ nested \/ status = "aborted"

(* The parser drives the two pairs of label buffers so that every loop and *)
(* conditional is generated with its own labels, as long as no loop is     *)
(* inside a loop and no conditional inside a conditional.                  *)
ImplementsStructuredCode == Structured!Promise

Accepted == status = "ok" /\ ~reported

(* The assembly of an accepted program has no label defined twice and no   *)
(* jump to a label that is not defined.                                    *)
LabelsValid == Structured!LabelsUnique /\ Structured!JumpsResolved

(* That holds for programs without a loop in a loop or an if in an if...   *)
AcceptedIsLabelled == Accepted /\ ~nested => LabelsValid

(* ...and would have to hold for all.                                      *)
NestingIsLabelled == Accepted => LabelsValid

(* "If it's successfull, this function returns 0": a compilation that      *)
(* prints an error never ends with success.                                *)
ErrorsFail == status = "ok" => ~reported

(* The parser always ends, also at the end of the file, where the token it *)
(* looks at is a stale copy of one it has matched.                         *)
Terminates == <>(status # "running")
=============================================================================
