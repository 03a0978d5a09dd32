----------------------------- MODULE MCRuntime -----------------------------
(***************************************************************************)
(* Runtime for TLC: `boolean flag; int number; string phrase; char letter', *)
(* strings of eight bytes, and lines at the limits of every buffer and of  *)
(* every number.                                                           *)
(***************************************************************************)
EXTENDS ReadWrite

flag == [type |-> "logic", address |-> 0]
number == [type |-> "int", address |-> 1]
phrase == [type |-> "string", address |-> 8]
letter == [type |-> "char", address |-> 16]

MCVariables == {flag, number, phrase, letter}
MCMemSize == 18
MCInitial ==
  {[a \in 0 .. MCMemSize - 1 |-> CASE a = 0 -> logic [] a = 1 -> int [] OTHER -> 0] :
     logic \in {0, 1}, int \in {5, 128}}

(* A number other than 0 as it is written down.                            *)
Numeral(n) ==
  LET k == IF n < 0 THEN -n ELSE n
      beginnings == SelectSeq(<<k \div 1000, k \div 100, k \div 10, k>>, LAMBDA b : b > 0)
  IN (IF n < 0 THEN <<Minus>> ELSE <<>>)
       \o [i \in DOMAIN beginnings |-> Zero + (beginnings[i] % 10)]

Numbers == {-129, -128, 12, 127, 128, 259, 260, 2590}
As(n) == [k \in 1 .. n |-> 65]

MCLines ==
  {Numeral(n) : n \in Numbers} \union {FalseWord, TrueWord} \union {As(n) : n \in {1, 7, 8, 10}}
MCLastLines == {Numeral(12), TrueWord}
=============================================================================
