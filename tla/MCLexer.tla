------------------------------ MODULE MCLexer ------------------------------
(* Lexemes for TLC.                                                        *)
EXTENDS Lexemes

(* One of each pair of characters that the lexer treats alike.             *)
MCInput == (Alphabet \union {Outside}) \ {"g", "|", ">", "\r"}
=============================================================================
