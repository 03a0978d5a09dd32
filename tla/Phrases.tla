------------------------------ MODULE Phrases ------------------------------
(***************************************************************************)
(* A reference definition of the commands that the parser in Expressions   *)
(* is to accept: which token sequences are well typed, and what they mean. *)
(*                                                                         *)
(*   factor  -> a constant or a symbol | not factor | ( exp )              *)
(*            | int ( exp ) | float ( exp ) | string [ exp ]               *)
(*   term    -> factor | term op factor                                    *)
(*   sum     -> term | sign term | sum op term                             *)
(*   exp     -> sum | sum op sum                                           *)
(*   list    -> exp | list , exp                                           *)
(*   command -> ( exp ) | write ( list ) ; | readln ( var ) ;              *)
(*            | var := exp ; | string [ exp ] := exp ;                     *)
(***************************************************************************)
EXTENDS Expressions

(* What has a value, and what does something when it runs.                 *)
Phrase(tokens, type, value) == [tokens |-> tokens, type |-> type, value |-> value]
Sentence(tokens, does) == [tokens |-> tokens, does |-> does]

OfType(phrases, type) == {p \in phrases : p.type = type}
Writes(p) == Term("write", p.type, <<p.value>>)

(* The types of the operands of an operator, ...                           *)
Numbers == {"int", "float"}
Joins(op, s, t) ==
  \/ op \in {"mod", "div"} /\ s = "int" /\ t = "int"
  \/ op \in {"and", "or"} /\ s = "logic" /\ t = "logic"
  \/ op \notin {"mod", "div", "and", "or"} /\ s \in Numbers /\ t \in Numbers
  \/ op \in Comparisons /\ s = t /\ (s = "string" => op \in {"=", "<>"})

(* ...and the phrases a and b joined by one: an integer that meets a       *)
(* floating point is converted.                                            *)
Join(a, op, b) ==
  LET mixed == a.type # b.type
      type == IF mixed THEN "float" ELSE a.type
      Balanced(p) == IF mixed /\ p.type = "int"
                     THEN Term("float", "float", <<p.value>>) ELSE p.value
  IN Phrase(a.tokens \o <<Plain(op)>> \o b.tokens,
            IF op \in Comparisons THEN "logic" ELSE type,
            Term(IF op = "/" /\ type = "int" THEN "div" ELSE op, type,
                 <<Balanced(a), Balanced(b)>>))

(* All phrases of A and B joined by an operator.                           *)
Operations(A, ops, B) ==
  UNION {UNION {{Join(a, op, b) : op \in {o \in ops \intersect Keywords :
                                            Joins(o, a.type, b.type)}} :
                  b \in B} : a \in A}

-----------------------------------------------------------------------------
(* What of each kind has n tokens, given what has fewer: g[k] has k.       *)
Of(g, kind, n) == IF n \in 1..Len(g) THEN g[n][kind] ELSE {}

Within(tokens, p, close, type, value) ==
  Phrase(tokens \o p.tokens \o <<Plain(close)>>, type, value)
Converted(p, type) ==
  Within(<<Plain(type), Plain("(")>>, p, ")", type, Term(type, type, <<p.value>>))
Indexed(s, p) ==
  Within(<<s, Plain("[")>>, p, "]", "char", Term("at", "char", <<Leaf(s), p.value>>))

Factors(g, n) ==
  {Phrase(<<t>>, t.type, Leaf(t)) : t \in IF n = 1 THEN Literals \union Symbols ELSE {}}
  \union {Phrase(<<Plain("not")>> \o p.tokens, "logic", Term("not", "logic", <<p.value>>)) :
            p \in OfType(Of(g, "factor", n - 1), "logic")}
  \union {Within(<<Plain("(")>>, p, ")", p.type, p.value) : p \in Of(g, "exp", n - 2)}
  \union {Converted(p, "int") : p \in OfType(Of(g, "exp", n - 3), "float")}
  \union {Converted(p, "float") : p \in OfType(Of(g, "exp", n - 3), "int")}
  \union UNION {{Indexed(s, p) : p \in OfType(Of(g, "exp", n - 3), "int")} :
                  s \in OfType(Symbols, "string")}

(* A sign before a number.  A leading "+" is no part of what is promised:   *)
(* syntatic_exps negates after either sign (SR21), and EffectsAreMeant says *)
(* nothing of a command with one, so what this gives it does not matter.   *)
Signed(p, sign) ==
  Phrase(<<Plain(sign)>> \o p.tokens, p.type, Term("neg", p.type, <<p.value>>))
Longer(l, p) ==
  Sentence(l.tokens \o <<Plain(",")>> \o p.tokens, l.does \o <<Writes(p)>>)

(* All phrases of n tokens that an operator joins.                         *)
Binary(g, n, left, ops, right) ==
  UNION {Operations(Of(g, left, k), ops, Of(g, right, n - 1 - k)) : k \in 1..n}

Level(g, n) ==
  LET factor == Factors(g, n)
      term == factor \union Binary(g, n, "term", FactorOperators, "factor")
      signed == UNION {{Signed(p, sign) : p \in {q \in Of(g, "term", n - 1) :
                                                   q.type \in Numbers}} :
                         sign \in Keywords \intersect Signs}
      sum == (term \union signed) \union Binary(g, n, "sum", TermOperators, "term")
      exp == sum \union Binary(g, n, "sum", Comparisons, "sum")
      longer == UNION {UNION {{Longer(l, p) : p \in Of(g, "exp", n - 1 - k)} :
                                l \in Of(g, "list", k)} : k \in 1..n}
  IN [factor |-> factor, term |-> term, sum |-> sum, exp |-> exp,
      list |-> {Sentence(p.tokens, <<Writes(p)>>) : p \in exp} \union longer]

(* All levels up to the nth.                                               *)
Levels[n \in Nat] ==
  IF n = 0 THEN <<>> ELSE LET g == Levels[n - 1] IN Append(g, Level(g, n))

Grammar == Levels[MaxTokens - 2]
Exps(n, type) == OfType(Of(Grammar, "exp", n), type)

-----------------------------------------------------------------------------
(* Commands of n tokens and what they do.                                  *)

Variables == {t \in Symbols : t.class = "var"}

Conditions(n) ==
  {Sentence(<<Plain("(")>> \o p.tokens \o <<Plain(")")>>,
            <<Term("test", "logic", <<p.value>>)>>) : p \in Exps(n - 2, "logic")}

Outputs(n) ==
  UNION {{Sentence(<<Plain(w), Plain("(")>> \o l.tokens \o <<Plain(")"), Plain(";")>>,
                   l.does \o (IF w = "writeln" THEN <<LineFeed>> ELSE <<>>)) :
            l \in Of(Grammar, "list", n - 4)} :
           w \in Keywords \intersect {"write", "writeln"}}

Inputs(n) ==
  {Sentence(<<Plain("readln"), Plain("("), v, Plain(")"), Plain(";")>>,
            <<Assign(v, Term("input", v.type, <<>>))>>) :
     v \in IF n = 5 THEN Variables ELSE {}}

Assignments(n) ==
  UNION {{Sentence(<<v, Plain(":=")>> \o p.tokens \o <<Plain(";")>>,
                   <<Assign(v, p.value)>>) : p \in Exps(n - 3, v.type)} :
           v \in Variables}

(* A character of a string: v[i] := p; where i has k tokens.               *)
Updates(n, k) ==
  UNION {UNION {{Sentence(<<v, Plain("[")>> \o i.tokens \o <<Plain("]"), Plain(":=")>>
                            \o p.tokens \o <<Plain(";")>>,
                          <<Assign(v, Term("update", "string",
                                           <<Leaf(v), i.value, p.value>>))>>) :
                   p \in Exps(n - 5 - k, "char")} : i \in Exps(k, "int")} :
           v \in OfType(Variables, "string")}

CommandsOf(n) ==
  Conditions(n) \union Outputs(n) \union Inputs(n) \union Assignments(n)
    \union UNION {Updates(n, k) : k \in 1..n}

Sentences == UNION {CommandsOf(n) : n \in 1..MaxTokens}

-----------------------------------------------------------------------------
(* What a value that was written is supposed to be, up to what write_logic *)
(* reads next to it.                                                       *)
UpToNeighbours(e) ==
  IF e.op = "write" /\ e.type = "logic" THEN Term("write", "logic", <<>>) ELSE e
Shown(does) == [i \in DOMAIN does |-> UpToNeighbours(does[i])]

Expected == {Sentence(s.tokens, Shown(s.does)) : s \in Sentences}

(* A "+" that follows no operand is a sign.                                *)
Openers == Comparisons \union {"(", "[", ",", ":="}
LeadingPlus(tokens) ==
  \E i \in 2..Len(tokens) : tokens[i].tok = "+" /\ tokens[i - 1].tok \in Openers

(* A command that is accepted is well typed, and the generated program     *)
(* tests, writes and assigns what the reference definition says: no        *)
(* operand is mixed up, converted wrongly or lost before it is loaded.     *)
(* Commands with a leading "+", which the code negates, are left out.      *)
EffectsAreMeant ==
  status = "ok" /\ ~LeadingPlus(input) => Sentence(input, Shown(effects)) \in Expected

(* Beginnings of well-typed commands.                                      *)
Beginnings ==
  UNION {{SubSeq(s.tokens, 1, k) : k \in 0..Len(s.tokens)} : s \in Sentences}

(* A type error is reported only if no well-typed command begins with the  *)
(* tokens that were read.                                                  *)
ErrorsAreErrors ==
  status = "mismatch" /\ ~found => Append(input, entry) \notin Beginnings
=============================================================================
