------------------------------- MODULE Lexer -------------------------------
(***************************************************************************)
(* lexer.c: lexer_get_next_token, character by character, called again and *)
(* again until the file ends or an error is found.                         *)
(*                                                                         *)
(* The file is not fixed in advance: every character is chosen when it is  *)
(* read, and so is the end.  A character is a class of those that the      *)
(* lexer treats alike.  What a word means is the symbol table's business   *)
(* (Declarations); here it is a token of its own.                          *)
(*                                                                         *)
(* assert is compiled in, as in every build but Release.                   *)
(***************************************************************************)
EXTENDS Integers, Sequences, FiniteSets

CONSTANTS
  Input,      (* the characters that occur in the file                     *)
  MaxLexeme,  (* MAX_LEXEME_SIZE: 512                                      *)
  MaxSize     (* bound: characters in the file                             *)

Digits == {"0", "1"}                 (* "1" for 1 to 9                     *)
HexDigits == Digits \union {"a"}     (* "a" for a to f and A to F          *)
Letters == {"a", "x", "g"}           (* "g" for the other letters          *)
Alphanumeric == Letters \union Digits
WordChars == Alphanumeric \union {"_"}
Blanks == {" ", "\n"}

(* Tokens of one character that begin no longer one; "+" also stands for   *)
(* - , ; and the brackets, "*" and "=" occur in others.                    *)
Single == {"+", "*", "="}

(* "@" is in the alphabet but in no token outside of strings, characters   *)
(* and comments (? % @); "\r" is like it, but not printable.               *)
Unprintable == {"\n", "\r"}
Alphabet ==
  WordChars \union Blanks \union Single
    \union {".", ":", "&", "|", "!", "<", ">", "/", "'", "\"", "@", "\r"}
Outside == "#"

ASSUME InputAssumption == Input \subseteq Alphabet \union {Outside}
ASSUME BoundsAssumption == MaxLexeme \in Nat \ {0} /\ MaxSize \in Nat

VARIABLES
  state,   (* lexer->state                                                 *)
  lexeme,  (* lexer->lexeme: the characters in the buffer                  *)
  line,    (* lexer->line                                                  *)
  last,    (* the character before the current one, in this call           *)
  back,    (* a character that was put back (--lexer->cursor), or none     *)
  entry,   (* the struct lexical_entry to fill                             *)
  result,  (* of this call; "reading" while there is none                  *)
  size,    (* characters chosen so far                                     *)
  text,    (* history: the characters consumed in this call                *)
  lines    (* history: line feeds consumed in earlier calls                *)

lexerVars == <<state, lexeme, line, last, back, entry, result, size, text, lines>>

(* A token with one spelling is that spelling.                             *)
WordToken == <<"word">>
ConstantToken == <<"constant">>

NoChar == ""
NoEntry == [token |-> <<>>, type |-> "none", line |-> 1, lexeme |-> <<>>]

LineFeeds(s) == Cardinality({i \in DOMAIN s : s[i] = "\n"})

-----------------------------------------------------------------------------
Init ==
  /\ state = "initial" /\ lexeme = <<>> /\ line = 1
  /\ last = NoChar /\ back = <<>>
  /\ entry = NoEntry /\ result = "none"
  /\ size = 0 /\ text = <<>> /\ lines = 0

(* The parser asks for a token, and there are characters left.             *)
NextCall ==
  /\ result \in {"none", "found"}
  /\ back # <<>> \/ size < MaxSize
  /\ state' = "initial" /\ last' = NoChar
  /\ entry' = NoEntry /\ result' = "reading"
  /\ text' = <<>> /\ lines' = lines + LineFeeds(text)
  /\ UNCHANGED <<lexeme, line, back, size>>

(* There are none: the entry is left as it was.                            *)
NextCallAtEnd ==
  /\ result \in {"none", "found"} /\ back = <<>>
  /\ result' = "empty"
  /\ UNCHANGED <<state, lexeme, line, last, back, entry, size, text, lines>>

(* The last character has been read and the token is not complete.         *)
EndOfFile ==
  /\ result = "reading" /\ back = <<>> /\ text # <<>>
  /\ result' = IF state = "initial" THEN "empty" ELSE "unexpected_eof"
  /\ UNCHANGED <<state, lexeme, line, last, back, entry, size, text, lines>>

(* A mistake: lines are counted at the line feed, as if it were read once. *)
NewLineAtFeed(c) == c = "\n"

(* Lines are counted at the character after the line feed.                 *)
NewLine(c) == last = "\n"

LineAt(c) == IF NewLine(c) THEN line + 1 ELSE line
EntryAt(c) == IF NewLine(c) THEN [entry EXCEPT !.line = line] ELSE entry
CountLine(c) == line' = LineAt(c) /\ entry' = EntryAt(c)

(* The start of an iteration: the next character of the file.              *)
Read(c) ==
  /\ result = "reading"
  /\ IF back = <<>> THEN size < MaxSize /\ size' = size + 1
                    ELSE c = Head(back) /\ UNCHANGED size
  /\ last' = c
  /\ UNCHANGED lines

Consume(c) == Read(c) /\ back' = <<>> /\ text' = Append(text, c)

-----------------------------------------------------------------------------
(* What an iteration does with the character.  The buffer was cleared, so  *)
(* that the character after the last one is the NUL, if there is room.     *)

Skip(buffer, c, to) ==
  /\ Consume(c) /\ CountLine(c) /\ state' = to
  /\ lexeme' = buffer /\ UNCHANGED result

(* A mistake: the assertion allows for one byte more.                      *)
AppendLate(buffer, c, to) ==
  IF Len(buffer) = MaxLexeme + 2
  THEN result' = "aborted" /\ UNCHANGED <<lexeme, state>>
  ELSE lexeme' = Append(buffer, c) /\ state' = to /\ UNCHANGED result

(* lexeme_append_or_error: the assertion fails once the buffer, of one     *)
(* byte more than MAX_LEXEME_SIZE, has no room.                            *)
AppendOrError(buffer, c, to) ==
  IF Len(buffer) = MaxLexeme + 1
  THEN result' = "aborted" /\ UNCHANGED <<lexeme, state>>
  ELSE lexeme' = Append(buffer, c) /\ state' = to /\ UNCHANGED result

Keep(buffer, c, to) ==
  /\ Consume(c) /\ CountLine(c)
  /\ AppendOrError(buffer, c, to)

(* LEXER_RESULT_FOUND at c, or before it, which is put back.               *)
Found(c, token, type, filled) ==
  /\ line' = LineAt(c)
  /\ entry' = [EntryAt(c) EXCEPT !.token = token, !.type = type, !.lexeme = filled]
  /\ result' = "found"
  /\ UNCHANGED state

FoundAt(buffer, c, token) ==
  Consume(c) /\ Found(c, token, "none", <<>>) /\ lexeme' = buffer

(* A mistake: a blank after the token is not put back.                     *)
FoundBeforeSkipping(c, token, type, filled) ==
  /\ Read(c) /\ UNCHANGED <<text, lexeme>>
  /\ back' = IF c = " " THEN <<>> ELSE <<c>>
  /\ Found(c, token, type, filled)

FoundBefore(c, token, type, filled) ==
  /\ Read(c) /\ UNCHANGED <<text, lexeme>>
  /\ back' = <<c>>
  /\ Found(c, token, type, filled)

Abort(c) ==
  /\ Consume(c) /\ CountLine(c)
  /\ result' = "aborted"
  /\ UNCHANGED <<state, lexeme>>

Reject(c, error) ==
  /\ Consume(c) /\ CountLine(c)
  /\ result' = error
  /\ UNCHANGED <<state, lexeme>>

(* A line feed in a string takes a line back.                              *)
RejectLineFeed(c) ==
  /\ Consume(c) /\ line' = LineAt(c) - 1 /\ entry' = EntryAt(c)
  /\ result' = "invalid_lexeme"
  /\ UNCHANGED <<state, lexeme>>

(* c is appended before it is found to be wrong, or to be the last of a    *)
(* constant.                                                               *)
KeepAndReject(buffer, c) ==
  /\ Consume(c) /\ CountLine(c) /\ UNCHANGED state
  /\ IF Len(buffer) = MaxLexeme + 1
     THEN result' = "aborted" /\ UNCHANGED lexeme
     ELSE result' = "invalid_lexeme" /\ lexeme' = Append(buffer, c)

KeepAndFind(c, type) ==
  /\ Consume(c) /\ line' = LineAt(c) /\ UNCHANGED state
  /\ IF Len(lexeme) = MaxLexeme + 1
     THEN result' = "aborted" /\ entry' = EntryAt(c) /\ UNCHANGED lexeme
     ELSE /\ result' = "found" /\ lexeme' = Append(lexeme, c)
          /\ entry' = [EntryAt(c) EXCEPT
               !.token = ConstantToken, !.type = type, !.lexeme = Append(lexeme, c)]

-----------------------------------------------------------------------------
(* The switch: an action for each state.                                   *)

InvalidCharacter == Outside \in Input /\ Reject(Outside, "invalid_character")

(* A mistake: the buffer is cleared once a call.                           *)
FirstCharacterKeeps(c, to) == Keep(lexeme, c, to)

(* The buffer is cleared at every character before the first of a token.   *)
FirstCharacter(c, to) == Keep(<<>>, c, to)

Initial(c) ==
  /\ state = "initial"
  /\ \/ c \in Blanks /\ Skip(<<>>, c, "initial")
     \/ c \in Letters \union {"_"} /\ FirstCharacter(c, "keyword_or_identifier")
     \/ c = "1" /\ FirstCharacter(c, "integer_or_float")
     \/ c = "0" /\ FirstCharacter(c, "char_or_number")
     \/ c = "." /\ FirstCharacter(c, "start_float")
     \/ c = "'" /\ FirstCharacter(c, "enter_char_constant")
     \/ c = "\"" /\ FirstCharacter(c, "string_constant")
     \/ c = "/" /\ FirstCharacter(c, "division_or_comentary")
     \/ c \in {"&", "|", ":", "!", "<", ">"} /\ FirstCharacter(c, c)
     \/ c \in Single /\ FoundAt(<<c>>, c, <<c>>)
     \/ c \in {"@", "\r"} /\ KeepAndReject(<<>>, c)

(* symbol_table_search asserts that the word has a NUL in the buffer.      *)
KeywordOrIdentifier(c) ==
  /\ state = "keyword_or_identifier"
  /\ IF c \in WordChars THEN Keep(lexeme, c, state)
     ELSE IF Len(lexeme) > MaxLexeme THEN Abort(c)
     ELSE FoundBefore(c, WordToken, "none", lexeme)

(* && || :=                                                                *)
TwoCharacters(c) ==
  /\ state \in {"&", "|", ":"}
  /\ IF c = (IF state = ":" THEN "=" ELSE state) THEN FoundAt(lexeme, c, <<state, c>>)
     ELSE Reject(c, "invalid_lexeme")

(* ! < > and != <= >=                                                      *)
OneOrTwoCharacters(c) ==
  /\ state \in {"!", "<", ">"}
  /\ IF c = "=" THEN FoundAt(lexeme, c, <<state, c>>)
     ELSE FoundBefore(c, <<state>>, "none", <<>>)

DivisionOrCommentary(c) ==
  /\ state = "division_or_comentary"
  /\ IF c = "*" THEN Skip(lexeme, c, "in_commentary")
     ELSE FoundBefore(c, <<"/">>, "none", <<>>)

InCommentary(c) ==
  /\ state = "in_commentary"
  /\ Skip(lexeme, c, IF c = "*" THEN "leaving_commentary" ELSE "in_commentary")

(* A mistake: a second * does not count.                                   *)
LeavingCommentaryOnce(c) ==
  /\ state = "leaving_commentary"
  /\ Skip(lexeme, c, IF c = "/" THEN "initial" ELSE "in_commentary")

LeavingCommentary(c) ==
  /\ state = "leaving_commentary"
  /\ Skip(lexeme, c, CASE c = "/" -> "initial"
               [] c = "*" -> "leaving_commentary"
               [] OTHER   -> "in_commentary")

EnterCharConstant(c) ==
  /\ state = "enter_char_constant"
  /\ IF c \notin Unprintable THEN Keep(lexeme, c, "leave_char_constant")
     ELSE KeepAndReject(lexeme, c)

LeaveCharConstant(c) ==
  /\ state = "leave_char_constant"
  /\ IF c = "'" THEN KeepAndFind(c, "char") ELSE KeepAndReject(lexeme, c)

StringConstant(c) ==
  /\ state = "string_constant"
  /\ CASE c = "\n" -> RejectLineFeed(c)
       [] c = "\"" -> KeepAndFind(c, "string")
       [] OTHER   -> Keep(lexeme, c, state)

CharOrNumber(c) ==
  /\ state = "char_or_number"
  /\ CASE c = "x"        -> Keep(lexeme, c, "enter_hexadecimal_char")
       [] c \in Digits   -> Keep(lexeme, c, "integer_or_float")
       [] c = "."        -> Keep(lexeme, c, "float")
       [] OTHER          -> FoundBefore(c, ConstantToken, "int", lexeme)

EnterHexadecimalChar(c) ==
  /\ state = "enter_hexadecimal_char"
  /\ IF c \in HexDigits THEN Keep(lexeme, c, "hexadecimal_char")
     ELSE KeepAndReject(lexeme, c)

HexadecimalChar(c) ==
  /\ state = "hexadecimal_char"
  /\ IF c \in HexDigits THEN KeepAndFind(c, "char") ELSE KeepAndReject(lexeme, c)

IntegerOrFloat(c) ==
  /\ state = "integer_or_float"
  /\ CASE c = "."      -> Keep(lexeme, c, "float")
       [] c \in Digits -> Keep(lexeme, c, state)
       [] OTHER        -> FoundBefore(c, ConstantToken, "int", lexeme)

(* A mistake: a point alone is a number.                                   *)
StartFloatAlone(c) ==
  /\ state = "start_float"
  /\ IF c \in Digits THEN Keep(lexeme, c, "float")
     ELSE FoundBefore(c, ConstantToken, "float", lexeme)

StartFloat(c) ==
  /\ state = "start_float"
  /\ IF c \in Digits THEN Keep(lexeme, c, "float")
     ELSE Reject(c, "invalid_lexeme")

FloatConstant(c) ==
  /\ state = "float"
  /\ IF c \in Digits THEN Keep(lexeme, c, state)
     ELSE FoundBefore(c, ConstantToken, "float", lexeme)

Done ==
  /\ result \in {"empty", "invalid_lexeme", "invalid_character",
                 "unexpected_eof", "aborted"}
  /\ UNCHANGED lexerVars

Next ==
  \/ NextCall \/ NextCallAtEnd \/ EndOfFile \/ InvalidCharacter
  \/ \E c \in Input \ {Outside} :
       \/ Initial(c) \/ KeywordOrIdentifier(c)
       \/ TwoCharacters(c) \/ OneOrTwoCharacters(c)
       \/ DivisionOrCommentary(c) \/ InCommentary(c) \/ LeavingCommentary(c)
       \/ EnterCharConstant(c) \/ LeaveCharConstant(c) \/ StringConstant(c)
       \/ CharOrNumber(c) \/ EnterHexadecimalChar(c) \/ HexadecimalChar(c)
       \/ IntegerOrFloat(c) \/ StartFloat(c) \/ FloatConstant(c)
  \/ Done

Spec == Init /\ [][Next]_lexerVars
=============================================================================
