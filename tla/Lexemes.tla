------------------------------ MODULE Lexemes ------------------------------
(***************************************************************************)
(* The lexemes of the language as they are defined (the automaton of Lexer *)
(* knows states, this module only whole texts), and what the lexer makes   *)
(* of them.                                                                *)
(***************************************************************************)
EXTENDS Lexer

Ends(s, a, b) == Len(s) >= 2 /\ Head(s) = a /\ s[Len(s)] = b
Inner(s) == {s[i] : i \in 2 .. Len(s) - 1}
All(s, chars) == \A i \in DOMAIN s : s[i] \in chars
Points(s) == {i \in DOMAIN s : s[i] = "."}

Fixed ==
  {<<c>> : c \in Single \union {"!", "<", ">", "/"}}
    \union {<<"&", "&">>, <<"|", "|">>, <<":", "=">>,
            <<"!", "=">>, <<"<", "=">>, <<">", "=">>}

IsWord(s) == Len(s) >= 1 /\ All(s, WordChars) /\ Head(s) \notin Digits
IsInteger(s) == Len(s) >= 1 /\ All(s, Digits)
IsFloat(s) ==
  /\ Len(s) >= 2 /\ All(s, Digits \union {"."})
  /\ \E i \in DOMAIN s : Points(s) = {i}
IsChar(s) ==
  \/ Len(s) = 3 /\ Ends(s, "'", "'") /\ s[2] \notin Unprintable
  \/ Len(s) = 4 /\ s[1] = "0" /\ s[2] = "x" /\ {s[3], s[4]} \subseteq HexDigits
IsString(s) == Ends(s, "\"", "\"") /\ Inner(s) \intersect {"\"", "\n"} = {}

(* /* up to the first */                                                   *)
IsComment(s) ==
  /\ Len(s) >= 4 /\ s[1] = "/" /\ s[2] = "*"
  /\ {i \in 3 .. Len(s) - 1 : s[i] = "*" /\ s[i + 1] = "/"} = {Len(s) - 1}

(* The token that a whole text is, as token and type.                      *)
TokenOf(s) ==
  CASE s \in Fixed   -> <<s, "none">>
    [] IsWord(s)     -> <<WordToken, "none">>
    [] IsInteger(s)  -> <<ConstantToken, "int">>
    [] IsFloat(s)    -> <<ConstantToken, "float">>
    [] IsChar(s)     -> <<ConstantToken, "char">>
    [] IsString(s)   -> <<ConstantToken, "string">>
    [] OTHER         -> <<>>

(* What may be missing of a lexeme or a comment that has begun.            *)
Completions ==
  {<<>>, <<"=">>, <<"&">>, <<"|">>, <<"1">>, <<"a">>, <<"a", "a">>, <<"'">>,
   <<"a", "'">>, <<"\"">>, <<"*", "/">>, <<"/">>}
Viable(s) == \E e \in Completions : TokenOf(s \o e) # <<>> \/ IsComment(s \o e)

(* Where a token may begin: only blanks and comments are before it.        *)
Starts(s) ==
  LET starts[i \in 1 .. Len(s) + 1] ==
        \/ i = 1
        \/ i > 1 /\ s[i - 1] \in Blanks /\ starts[i - 1]
        \/ \E j \in 1 .. i - 4 : starts[j] /\ IsComment(SubSeq(s, j, i - 1))
  IN {i \in 1 .. Len(s) + 1 : starts[i]}

(* The text after them.                                                    *)
LastStart(s) == CHOOSE i \in Starts(s) : \A j \in Starts(s) : j <= i
RestOf(s) == SubSeq(s, LastStart(s), Len(s))
Rest == RestOf(text)

-----------------------------------------------------------------------------
(* C types, and a buffer that nothing is written behind.                   *)
TypeOK ==
  /\ state \in {"initial", "keyword_or_identifier", "&", "|", ":", "!", "<", ">",
                "division_or_comentary", "in_commentary", "leaving_commentary",
                "enter_char_constant", "leave_char_constant", "string_constant",
                "char_or_number", "enter_hexadecimal_char", "hexadecimal_char",
                "integer_or_float", "start_float", "float"}
  /\ All(lexeme, Input) /\ Len(lexeme) <= MaxLexeme + 1
  /\ line \in 0 .. MaxSize + 1
  /\ Len(back) <= 1 /\ All(back, Input)
  /\ entry.line \in 1 .. MaxSize + 1 /\ All(entry.lexeme, Input)
  /\ result \in {"none", "reading", "found", "empty", "aborted",
                 "invalid_lexeme", "invalid_character", "unexpected_eof"}

(* A token is found exactly where the language has one, and it is the      *)
(* longest: what was put back, or anything else after it, would not go on  *)
(* with it.                                                                *)
LongestMatch ==
  result = "found" =>
    /\ TokenOf(Rest) = <<entry.token, entry.type>>
    /\ \A c \in IF back = <<>> THEN Input ELSE {back[1]} : ~Viable(Append(Rest, c))

(* An error is reported only where no token can go on, and never is one    *)
(* found or the file called empty there.                                   *)
ErrorsAreErrors ==
  CASE result = "invalid_lexeme"    -> ~Viable(Rest)
    [] result = "invalid_character" -> text[Len(text)] = Outside
    [] result = "unexpected_eof"    -> Rest # <<>> /\ Viable(Rest)
    [] result = "empty"             -> entry.token = <<>> => Rest = <<>>
    [] OTHER                        -> TRUE

(* The line of a token or an error is that of its last character: one more *)
(* than the line feeds before it.  A line feed in a string is reported one *)
(* line above.                                                             *)
LineIsRight ==
  result \in {"found", "invalid_lexeme", "invalid_character", "unexpected_eof"} =>
    line = 1 + lines + LineFeeds(SubSeq(text, 1, Len(text) - 1))
           - (IF state = "string_constant" /\ result = "invalid_lexeme" THEN 1 ELSE 0)

(* The lexeme of a word or a constant is its text, and is terminated by a  *)
(* NUL, unless it is a constant that fills the buffer.                     *)
LexemeIsText ==
  result = "found" /\ entry.token \in {WordToken, ConstantToken} =>
    /\ entry.lexeme = Rest
    /\ Len(entry.lexeme) > MaxLexeme => entry.token = ConstantToken

(* The end of the file leaves the entry as it was (and not zeroed) only if *)
(* the last token ended with a character of its own: a word, a number, !,  *)
(* <, > and / never remain in the parser's lookahead.                      *)
EmptyEntry ==
  result = "empty" /\ entry.token # <<>> =>
    /\ entry.token \notin {WordToken, <<"!">>, <<"<">>, <<">">>, <<"/">>}
    /\ entry.type \notin {"int", "float"}
=============================================================================
