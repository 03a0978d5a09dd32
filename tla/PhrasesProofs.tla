--------------------------- MODULE PhrasesProofs ---------------------------
(***************************************************************************)
(* ErrorsAreErrors of Phrases, for every set of literals and symbols and   *)
(* every length of the source file: the parser in Expressions rejects no   *)
(* command that is well typed.                                             *)
(*                                                                         *)
(* ExpressionsProofs looks back, at what the functions on the stack have   *)
(* read; this looks ahead.  ForeseenInv says that as long as there is no   *)
(* error, every sentence of the grammar that goes on from the input and    *)
(* the next token goes on with what the functions are left to read, from   *)
(* the innermost one to the command's (Remains).  What one function is     *)
(* left to read is said for each of its places (Comes), in terms of the    *)
(* phrases of the grammar: what y begins with (Takes), and for a loop, how *)
(* it goes on round by round (Continues).                                  *)
(*                                                                         *)
(* That is kept since the grammar leaves the functions no choice: the next *)
(* token tells which production applies, an operator that follows a phrase *)
(* belongs to the innermost loop that has it (FollowIs), and every step    *)
(* that takes a token, calls or returns leaves what the productions leave  *)
(* (ResumeLeaves, CallLeaves, ReturnLeaves).  Where an error is reported   *)
(* nothing could be left, so that no sentence goes on.                     *)
(***************************************************************************)
EXTENDS ExpressionsProofs

(* What the grammar is written in: punctuation, whether or not the source  *)
(* may have it, and the tokens of the source.                              *)
Marking ==
  {"(", ")", "[", "]", ":=", "not", "int", "float", "readln", Comma, Semicolon}
AllTokens == Tokens \union {Plain(k) : k \in Marking}
Strings == Seq(AllTokens)

(* The tokens y begin with k, and z are the others.                        *)
Shows(y, k, z) == k \in AllTokens /\ z \in Strings /\ y = <<k>> \o z

(* Marks are what a phrase is written with.                                *)
LEMMA Marks == \A k \in Keywords \union Marking : Plain(k) \in AllTokens
BY Words DEF AllTokens

(* Strings of tokens, one after the other.                                 *)
LEMMA Joined2 ==
  ASSUME NEW x \in Strings, NEW y \in Strings
  PROVE  /\ x \o y \in Strings /\ Len(x \o y) = Len(x) + Len(y)
         /\ Len(x) \in Nat /\ Len(y) \in Nat
         /\ \A z \in Strings : (x \o y) \o z = x \o (y \o z)
<1>1. x \o y \in Strings /\ Len(x \o y) = Len(x) + Len(y)
  BY ConcatProperties DEF Strings
<1>2. Len(x) \in Nat /\ Len(y) \in Nat
  BY LenProperties DEF Strings
<1>3. \A z \in Strings : (x \o y) \o z = x \o (y \o z)
  BY ConcatAssociative DEF Strings
<1> QED
  BY <1>1, <1>2, <1>3

(* Concatenation under a name: a sequence that is kept whole.              *)
Cat(x, y) == x \o y
LEMMA Cats ==
  \A x, y, z \in Strings :
    Cat(Cat(x, y), z) = Cat(x, Cat(y, z)) /\ Cat(x, y) \in Strings
BY Joined2, Zenon DEF Cat

(* No token is lost.                                                       *)
LEMMA CatLengths ==
  ASSUME NEW x \in Strings, NEW y \in Strings, NEW z \in Strings
  PROVE  Len((x \o y) \o z) = Len(x) + Len(y) + Len(z) /\ (x \o y) \o z \in Strings
<1> DEFINE w == x \o y
<1>1. w \in Strings /\ Len(w) = Len(x) + Len(y)
  BY Joined2
<1> HIDE DEF w
<1>2. w \o z \in Strings /\ Len(w \o z) = Len(w) + Len(z)
  BY <1>1, Joined2
<1>3. Len(w \o z) = Len(x) + Len(y) + Len(z)
  BY <1>1, <1>2
<1> QED
  BY <1>2, <1>3, Zenon DEF w

(* One token is a string.                                                  *)
LEMMA OneWord ==
  ASSUME NEW k \in AllTokens
  PROVE  <<k>> \in Strings /\ Len(<<k>>) = 1
BY DEF Strings

(* What begins with a token, ...                                           *)
LEMMA ShowsAs ==
  ASSUME NEW k \in AllTokens, NEW z \in Strings
  PROVE  Shows(<<k>> \o z, k, z) /\ <<k>> \o z \in Strings
BY OneWord, Joined2 DEF Shows

(* There is one way to see the first token.                                *)
(* ...begins with no other.                                                *)
LEMMA ShowsOnce ==
  ASSUME NEW y, NEW k, NEW z, Shows(y, k, z)
  PROVE  /\ y \in Strings /\ z \in Strings /\ y # <<>> /\ y # z
         /\ Len(y) = Len(z) + 1 /\ Len(z) \in Nat
         /\ \A l, x : Shows(y, l, x) => l = k /\ x = z
<1>1. <<k>> \in Strings /\ Len(<<k>>) = 1 /\ z \in Strings /\ y = <<k>> \o z
  BY OneWord DEF Shows
<1>2. y \in Strings /\ Len(y) = Len(z) + 1 /\ Len(z) \in Nat
  BY <1>1, Joined2
<1>3. y # <<>> /\ y # z
  <2>1. Len(<<>>) = 0
    BY EmptySeq
  <2> QED
    BY <1>2, <2>1
<1>4. \A l, x : Shows(y, l, x) => y[1] = l /\ y = <<l>> \o x /\ x \in Strings
  <2> SUFFICES ASSUME NEW l, NEW x, Shows(y, l, x)
               PROVE  y[1] = l /\ y = <<l>> \o x /\ x \in Strings
    OBVIOUS
  <2>1. <<l>> \in Seq(AllTokens) /\ Len(<<l>>) = 1 /\ x \in Seq(AllTokens) /\ y = <<l>> \o x
    BY OneWord DEF Shows, Strings
  <2>2. Len(x) \in Nat
    BY <2>1, LenProperties
  <2> DEFINE o == <<l>>
  <2>3. o[1] = l
    OBVIOUS
  <2> HIDE DEF o
  <2>4. (o \o x)[1] = o[1]
    <3>1. \A i \in 1 .. Len(o) + Len(x) :
            (o \o x)[i] = IF i <= Len(o) THEN o[i] ELSE x[i - Len(o)]
      BY <2>1, ConcatProperties DEF o
    <3> QED
      BY <2>1, <2>2, <3>1 DEF o
  <2> QED
    BY <2>1, <2>3, <2>4 DEF o, Strings
<1>5. y[1] = k
  BY <1>4
<1>6. ASSUME NEW l, NEW x, Shows(y, l, x) PROVE l = k /\ x = z
  <2>1. l = k /\ y = <<k>> \o x /\ x \in Strings
    BY <1>4, <1>5, <1>6
  <2> DEFINE o == <<k>>
  <2>2. o \in Seq(AllTokens) /\ o \o x = o \o z /\ x \in Seq(AllTokens) /\ z \in Seq(AllTokens)
    BY <1>1, <2>1 DEF Strings
  <2> HIDE DEF o
  <2>3. x = z
    BY <2>2, ConcatSimplifications
  <2> QED
    BY <2>1, <2>3
<1> QED
  BY <1>1, <1>2, <1>3, <1>6

-----------------------------------------------------------------------------
(* Phrases of the grammar, as texts.                                       *)

(* The tokens w are a phrase of a kind and a type, and what begins with    *)
(* such a phrase.                                                          *)
Kinds == {"factor", "term", "sum", "exp", "list"}
TypeAs(kind, p) == IF kind = "list" THEN "none" ELSE p.type
Typed(kind, w, t) == \E p \in What(kind, Len(w)) : p.tokens = w /\ TypeAs(kind, p) = t
Takes(kind, y, z, t) ==
  z \in Strings /\ \E w \in Strings : Typed(kind, w, t) /\ y = w \o z

Inside(y, t, close, z) == \E k : Takes("exp", y, k, t) /\ Shows(k, Plain(close), z)
Other(type) == IF type = "int" THEN "float" ELSE "int"

(* The productions of a factor: y begins with one, z is what follows.      *)
FactorForm(y, z, t) ==
  \/ \E k \in Literals \union Symbols : Shows(y, k, z) /\ t = k.type
  \/ t = "logic" /\ \E m : Shows(y, Plain("not"), m) /\ Takes("factor", m, z, "logic")
  \/ \E m : Shows(y, Plain("("), m) /\ Inside(m, t, ")", z)
  \/ /\ t \in Numbers
     /\ \E m, k : /\ Shows(y, Plain(t), m) /\ Shows(m, Plain("("), k)
                  /\ Inside(k, Other(t), ")", z)
  \/ /\ t = "char"
     /\ \E s \in Symbols : \E m, k : /\ s.type = "string" /\ Shows(y, s, m)
                                 /\ Shows(m, Plain("["), k) /\ Inside(k, "int", "]", z)

(* The type of an operation, and how a loop over operands, or over the     *)
(* values to write, goes on.                                               *)
JoinedType(op, a, b) ==
  IF op \in Comparisons THEN "logic" ELSE IF a # b THEN "float" ELSE a
OperandOf(fn) == IF fn = "t" THEN "factor" ELSE "term"
Links(fn, y, z, a, b) ==
  IF fn \in Loops
  THEN \E op \in OperatorsOf(fn) : \E m, c :
         /\ Shows(y, Plain(op), m) /\ Takes(OperandOf(fn), m, z, c)
         /\ Joins(op, a, c) /\ b = JoinedType(op, a, c)
  ELSE /\ a = b
       /\ \E m, c : Shows(y, Plain(Comma), m) /\ Takes("exp", m, z, c)

(* What has n tokens has n tokens.                                         *)
Sized(n) ==
  \A kind \in Kinds : \A p \in What(kind, n) :
    p.tokens \in Strings /\ Len(p.tokens) = n

SignedTerm(w, t) ==
  /\ t \in Numbers
  /\ \E sign \in Signs, q \in Strings :
       Plain(sign) \in AllTokens /\ w = <<Plain(sign)>> \o q /\ Typed("term", q, t)
Extends(fn, kind, w, t) ==
  \E v, x \in Strings : \E c :
    /\ w = v \o x /\ Len(v) < Len(w) /\ Typed(kind, v, c)
    /\ \A z \in Strings : Links(fn, x \o z, z, c, t)
Compared(y, z, t) ==
  /\ t = "logic"
  /\ \E op \in Comparisons : \E m, k, a, b :
       /\ Takes("sum", y, m, a) /\ Shows(m, Plain(op), k)
       /\ Takes("sum", k, z, b) /\ Joins(op, a, b)

(* What a phrase of n tokens is made of.                                   *)
Made(kind, w, t) ==
  CASE kind = "factor" -> \A z \in Strings : FactorForm(w \o z, z, t)
    [] kind = "term" -> Typed("factor", w, t) \/ Extends("t", "term", w, t)
    [] kind = "sum" -> \/ Typed("term", w, t) \/ SignedTerm(w, t)
                       \/ Extends("exps", "sum", w, t)
    [] kind = "exp" -> Typed("sum", w, t) \/ \A z \in Strings : Compared(w \o z, z, t)
    [] kind = "list" -> (\E c : Typed("exp", w, c)) \/ Extends("write", "list", w, t)

-----------------------------------------------------------------------------
(* A phrase and what follows it.                                           *)
LEMMA TakesOne ==
  ASSUME NEW kind, NEW w \in Strings, NEW t, Typed(kind, w, t), NEW z \in Strings
  PROVE  Takes(kind, w \o z, z, t) /\ w \o z \in Strings
BY Joined2 DEF Takes

(* A part of a phrase.                                                     *)
LEMMA PartIs ==
  ASSUME NEW n \in Nat \ {0}, \A k \in 1..n - 1 : Sized(k),
         NEW kind \in Kinds, NEW k, NEW p \in Of(Levels[n - 1], kind, k)
  PROVE  /\ k \in 1..n - 1 /\ p.tokens \in Strings /\ Len(p.tokens) = k
         /\ Typed(kind, p.tokens, TypeAs(kind, p))
<1>1. p \in Fewer(kind, k, n)
  BY LevelIs, Zenon
<1>2. k \in 1..n - 1 /\ p \in What(kind, k)
  BY <1>1 DEF Fewer
<1>3. p.tokens \in Strings /\ Len(p.tokens) = k
  BY <1>2 DEF Sized
<1> QED
  BY <1>2, <1>3 DEF Typed

(* A string between two others.                                            *)
LEMMA Nested ==
  ASSUME NEW a \in Strings, NEW q \in Strings, NEW c \in Strings
  PROVE  /\ (a \o q) \o c \in Strings
         /\ Len((a \o q) \o c) = Len(a) + Len(q) + Len(c)
         /\ \A z \in Strings : ((a \o q) \o c) \o z = a \o (q \o (c \o z))
<1>1. a \o q \in Strings /\ Len(a \o q) = Len(a) + Len(q)
  BY Joined2
<1> DEFINE b == a \o q
<1>2. ASSUME NEW z \in Strings
      PROVE  (b \o c) \o z = a \o (q \o (c \o z))
  <2>1. (b \o c) \o z = b \o (c \o z) /\ c \o z \in Strings
    BY <1>1, Joined2, ZenonT(40)
  <2>2. \A d \in Strings : b \o d = a \o (q \o d)
    BY Joined2
  <2> HIDE DEF b
  <2> QED
    BY <2>1, <2>2
<1>3. b \o c \in Strings /\ Len(b \o c) = Len(b) + Len(c)
  BY <1>1, Joined2
<1> QED
  BY <1>1, <1>2, <1>3

(* An operation, the other way round.                                      *)
LEMMA OperatedBy ==
  ASSUME NEW A, NEW ops, NEW B, NEW p \in Operations(A, ops, B)
  PROVE  \E a \in A, b \in B, op \in ops \intersect Keywords :
           Joins(op, a.type, b.type) /\ p = Join(a, op, b)
<1> DEFINE Fit(l, r) == {o \in ops \intersect Keywords : Joins(o, l.type, r.type)}
           ByRight(l, r) == {Join(l, o, r) : o \in Fit(l, r)}
           ByLeft(l) == UNION {ByRight(l, r) : r \in B}
<1>1. Operations(A, ops, B) = UNION {ByLeft(l) : l \in A}
  BY Zenon DEF Operations, ByLeft, ByRight, Fit
<1> HIDE DEF ByLeft
<1>2. PICK a \in A : p \in ByLeft(a)
  BY <1>1
<1> USE DEF ByLeft
<1> HIDE DEF ByRight
<1>3. PICK b \in B : p \in ByRight(a, b)
  BY <1>2
<1> USE DEF ByRight
<1> HIDE DEF Fit
<1>4. PICK op \in Fit(a, b) : p = Join(a, op, b)
  BY <1>3, Zenon
<1>5. op \in ops \intersect Keywords /\ Joins(op, a.type, b.type)
  BY <1>4, Zenon DEF Fit
<1> QED
  BY <1>4, <1>5, Zenon

(* The type of an operation.                                               *)
LEMMA JoinType ==
  ASSUME NEW a, NEW op, NEW b
  PROVE  Join(a, op, b).type = JoinedType(op, a.type, b.type)
<1> DEFINE type == JoinedType(op, a.type, b.type)
<1>1. \E x, value : Join(a, op, b) = Phrase(x, type, value)
  BY Zenon DEF Join, JoinedType
<1>2. \A x, y, z : Phrase(x, y, z).type = y
  BY PhraseFields, Zenon
<1> HIDE DEF type
<1>3. PICK x, value : Join(a, op, b) = Phrase(x, type, value)
  BY <1>1
<1>4. Phrase(x, type, value).type = type
  BY <1>2, Zenon
<1>5. Join(a, op, b).type = type
  BY <1>3, <1>4
<1> QED
  BY <1>5 DEF type

(* A phrase that an operator joins.                                        *)
Operator2(n, left, ops, right, p) ==
  \E q, r \in Strings, op \in ops \intersect Keywords : \E a, b :
    /\ Typed(left, q, a) /\ Typed(right, r, b) /\ Joins(op, a, b)
    /\ p.tokens = (q \o <<Plain(op)>>) \o r /\ p.type = JoinedType(op, a, b)
    /\ Len(q) < n /\ Len(q) + 1 + Len(r) = n
(* An operation of the grammar has two operands that fit.                  *)
LEMMA BinaryIs ==
  ASSUME NEW n \in Nat \ {0}, \A k \in 1..n - 1 : Sized(k),
         NEW left \in Kinds \ {"list"}, NEW right \in Kinds \ {"list"}, NEW ops,
         NEW p \in Binary(Levels[n - 1], n, left, ops, right)
  PROVE  /\ Operator2(n, left, ops, right, p)
         /\ p.tokens \in Strings /\ Len(p.tokens) = n
<1> DEFINE g == Levels[n - 1]
           By(k) == Operations(Of(g, left, k), ops, Of(g, right, n - 1 - k))
<1>1. Binary(g, n, left, ops, right) = UNION {By(k) : k \in 1..n}
  BY Zenon DEF Binary
<1> HIDE DEF By
<1>2. PICK k \in 1..n : p \in By(k)
  BY <1>1
<1> USE DEF By
<1> HIDE DEF g
<1>3. PICK a \in Of(g, left, k), b \in Of(g, right, n - 1 - k), op \in ops \intersect Keywords :
        Joins(op, a.type, b.type) /\ p = Join(a, op, b)
  BY <1>2, OperatedBy
<1> USE DEF g
<1>4. /\ k \in 1..n - 1 /\ a.tokens \in Strings /\ Len(a.tokens) = k
      /\ Typed(left, a.tokens, a.type)
  BY <1>3, PartIs DEF TypeAs
<1> DEFINE l == n - 1 - k
<1>5. /\ b.tokens \in Strings /\ Len(b.tokens) = l
      /\ Typed(right, b.tokens, b.type)
  <2>1. b \in Of(Levels[n - 1], right, l)
    BY <1>3
  <2> HIDE DEF l
  <2> QED
    BY <2>1, PartIs DEF TypeAs
<1>6. p.tokens = (a.tokens \o <<Plain(op)>>) \o b.tokens
  BY <1>3, JoinTokens, Zenon
<1>7. p.type = JoinedType(op, a.type, b.type)
  BY <1>3, JoinType, Zenon
<1>8. <<Plain(op)>> \in Strings /\ Len(<<Plain(op)>>) = 1
  BY <1>3, Marks, OneWord
<1>9. p.tokens \in Strings /\ Len(p.tokens) = k + 1 + l
  <2> DEFINE o == <<Plain(op)>>
             x == a.tokens
             y == b.tokens
             w == (x \o o) \o y
  <2>1. o \in Strings /\ x \in Strings /\ y \in Strings
    BY <1>4, <1>5, <1>8
  <2> HIDE DEF o, x, y
  <2>2. w \in Strings /\ Len(w) = Len(x) + Len(o) + Len(y)
    BY <2>1, Nested
  <2> USE DEF o, x, y
  <2> HIDE DEF w, l
  <2>3. p.tokens = w
    BY <1>6 DEF w
  <2> QED
    BY <1>4, <1>5, <1>8, <2>2, <2>3
<1>10. Len(a.tokens) < n /\ Len(a.tokens) + 1 + Len(b.tokens) = n
  BY <1>4, <1>5
<1>11. Operator2(n, left, ops, right, p)
  BY <1>3, <1>4, <1>5, <1>6, <1>7, <1>10 DEF Operator2
<1> QED
  BY <1>4, <1>9, <1>11

-----------------------------------------------------------------------------
(* A phrase is made by one of the productions of its kind.                 *)

(* Two tokens.                                                             *)
LEMMA PairIs ==
  ASSUME NEW a \in AllTokens, NEW b \in AllTokens
  PROVE  /\ <<a, b>> = <<a>> \o <<b>> /\ <<a, b>> \in Strings /\ Len(<<a, b>>) = 2
         /\ \A z \in Strings : /\ Shows(<<a, b>> \o z, a, <<b>> \o z)
                               /\ Shows(<<b>> \o z, b, z)
<1>1. <<a, b>> = <<a>> \o <<b>>
  BY Joined, Zenon
<1>2. <<a>> \in Strings /\ <<b>> \in Strings /\ Len(<<a>>) = 1 /\ Len(<<b>>) = 1
  BY OneWord
<1>3. <<a>> \o <<b>> \in Strings /\ Len(<<a>> \o <<b>>) = 2
  BY <1>2, Joined2
<1>4. ASSUME NEW z \in Strings
      PROVE  Shows((<<a>> \o <<b>>) \o z, a, <<b>> \o z) /\ Shows(<<b>> \o z, b, z)
  <2>1. Shows(<<b>> \o z, b, z) /\ <<b>> \o z \in Strings
    BY ShowsAs
  <2>2. (<<a>> \o <<b>>) \o z = <<a>> \o (<<b>> \o z)
    BY <1>2, Joined2, ZenonT(40)
  <2> QED
    BY <2>1, <2>2, ShowsAs
<1> QED
  BY <1>1, <1>3, <1>4

(* The tokens of a phrase between others.                                  *)
LEMMA WithinTokens ==
  \A tokens, q, close, type, value :
    /\ Within(tokens, q, close, type, value).tokens =
         (tokens \o q.tokens) \o <<Plain(close)>>
    /\ Within(tokens, q, close, type, value).type = type
<1> SUFFICES ASSUME NEW tokens, NEW q, NEW close, NEW type, NEW value
             PROVE  /\ Within(tokens, q, close, type, value).tokens =
                         (tokens \o q.tokens) \o <<Plain(close)>>
                    /\ Within(tokens, q, close, type, value).type = type
  OBVIOUS
<1> DEFINE w == (tokens \o q.tokens) \o <<Plain(close)>>
<1>1. Within(tokens, q, close, type, value) = Phrase(w, type, value)
  BY Zenon DEF Within
<1> HIDE DEF w
<1>2. Phrase(w, type, value).tokens = w /\ Phrase(w, type, value).type = type
  BY PhraseFields
<1> QED
  BY <1>1, <1>2 DEF w

(* A phrase of a type between brackets.                                    *)
LEMMA Bracketed ==
  ASSUME NEW n \in Nat \ {0}, \A k \in 1..n - 1 : Sized(k),
         NEW o \in Strings, NEW p \in Of(Levels[n - 1], "exp", n - 1 - Len(o)),
         NEW close \in Marking
  PROVE  LET w == (o \o p.tokens) \o <<Plain(close)>>
         IN /\ w \in Strings /\ Len(w) = n
            /\ \A z \in Strings :
                 \E m \in Strings : w \o z = o \o m /\ Inside(m, p.type, close, z)
<1> DEFINE q == p.tokens
           c == <<Plain(close)>>
           w == (o \o q) \o c
           l == n - 1 - Len(o)
<1>1. Len(o) \in Nat
  BY Joined2
<1>2. l \in 1..n - 1 /\ q \in Strings /\ Len(q) = l /\ Typed("exp", q, p.type)
  <2>1. p \in Of(Levels[n - 1], "exp", l)
    OBVIOUS
  <2> HIDE DEF l
  <2> QED
    BY <2>1, PartIs DEF Kinds, TypeAs
<1>3. Plain(close) \in AllTokens /\ c \in Strings /\ Len(c) = 1
  BY Marks, OneWord
<1> HIDE DEF q, c
<1>4. w \in Strings /\ Len(w) = n
  <2>1. w \in Strings /\ Len(w) = Len(o) + Len(q) + Len(c)
    <3>1. o \in Strings /\ q \in Strings /\ c \in Strings
      BY <1>2, <1>3
    <3> QED
      BY <3>1, CatLengths, Zenon
  <2> HIDE DEF w
  <2> QED
    BY <1>1, <1>2, <1>3, <2>1
<1>5. ASSUME NEW z \in Strings
      PROVE  \E m \in Strings : w \o z = o \o m /\ Inside(m, p.type, close, z)
  <2> DEFINE k == c \o z
             m == q \o k
  <2>1. w \o z = o \o m
    <3>1. Cat(Cat(Cat(o, q), c), z) = Cat(o, Cat(q, Cat(c, z)))
      BY <1>2, <1>3, Cats
    <3> QED
      BY <3>1, Zenon DEF Cat
  <2>2. Shows(k, Plain(close), z) /\ k \in Strings
    BY <1>3, ShowsAs DEF c
  <2> HIDE DEF k
  <2>3. Takes("exp", m, k, p.type) /\ m \in Strings
    BY <1>2, <2>2, TakesOne
  <2> QED
    BY <2>1, <2>2, <2>3 DEF Inside
<1> HIDE DEF w
<1>6. /\ w \in Strings /\ Len(w) = n
      /\ \A z \in Strings :
           \E m \in Strings : w \o z = o \o m /\ Inside(m, p.type, close, z)
  BY <1>4, <1>5
<1> QED
  BY <1>6, Zenon DEF w, q, c

(* Factors.                                                                *)
LEMMA FactorMade ==
  ASSUME NEW n \in Nat \ {0}, \A k \in 1..n - 1 : Sized(k), NEW p \in What("factor", n)
  PROVE  /\ p.tokens \in Strings /\ Len(p.tokens) = n
         /\ Made("factor", p.tokens, p.type)
<1> DEFINE g == Levels[n - 1]
           Good(q) == /\ q.tokens \in Strings /\ Len(q.tokens) = n
                      /\ \A z \in Strings : FactorForm(q.tokens \o z, z, q.type)
           atoms == {Phrase(<<t>>, t.type, Leaf(t)) :
                       t \in IF n = 1 THEN Literals \union Symbols ELSE {}}
           nots == {Phrase(<<Plain("not")>> \o q.tokens, "logic",
                           Term("not", "logic", <<q.value>>)) :
                      q \in OfType(Of(g, "factor", n - 1), "logic")}
           parens == {Within(<<Plain("(")>>, q, ")", q.type, q.value) : q \in Of(g, "exp", n - 2)}
           ints == {Converted(q, "int") : q \in OfType(Of(g, "exp", n - 3), "float")}
           floats == {Converted(q, "float") : q \in OfType(Of(g, "exp", n - 3), "int")}
           At_(s) == {Indexed(s, q) : q \in OfType(Of(g, "exp", n - 3), "int")}
           ats == UNION {At_(s) : s \in OfType(Symbols, "string")}
<1>1. p \in Factors(g, n)
  BY KindsAre, Zenon
<1>2. Factors(g, n) = ((((atoms \union nots) \union parens) \union ints) \union floats) \union ats
  BY Zenon DEF Factors
<1> DEFINE q1 == n - 1
           q2 == n - 2
           q3 == n - 3
<1>0. /\ q1 = n - 1 /\ q2 = n - 1 - 1 /\ q3 = n - 1 - 2
      /\ q2 = n - 2 /\ q3 = n - 3
  OBVIOUS
<1>3. ASSUME p \in atoms PROVE Good(p)
  <2>1. PICK t \in IF n = 1 THEN Literals \union Symbols ELSE {} :
          p = Phrase(<<t>>, t.type, Leaf(t))
    BY <1>3, Zenon
  <2>2. n = 1 /\ t \in Literals \union Symbols
    BY <2>1
  <2>3. p.tokens = <<t>> /\ p.type = t.type
    BY <2>1, PhraseFields
  <2>4. t \in AllTokens
    BY <2>2, Words DEF AllTokens
  <2>5. \A z \in Strings : Shows(<<t>> \o z, t, z)
    BY <2>4, ShowsAs
  <2> QED
    BY <2>2, <2>3, <2>4, <2>5, OneWord DEF FactorForm
<1>4. ASSUME p \in nots PROVE Good(p)
  <2>1. PICK q \in OfType(Of(g, "factor", n - 1), "logic") :
          p = Phrase(<<Plain("not")>> \o q.tokens, "logic", Term("not", "logic", <<q.value>>))
    BY <1>4, Zenon
  <2> DEFINE o == <<Plain("not")>>
             r == q.tokens
             v == Term("not", "logic", <<q.value>>)
             w == o \o r
  <2>2. p.tokens = w /\ p.type = "logic"
    <3>1. p = Phrase(w, "logic", v)
      BY <2>1, Zenon
    <3> HIDE DEF w, v
    <3> QED
      BY <3>1, PhraseFields
  <2>3. q \in Of(g, "factor", n - 1) /\ q.type = "logic"
    BY <2>1, Zenon DEF OfType
  <2>4. r \in Strings /\ Len(r) = n - 1 /\ Typed("factor", r, "logic")
    <3>1. r \in Strings /\ Len(r) = n - 1 /\ Typed("factor", r, TypeAs("factor", q))
      BY <2>3, PartIs, ZenonT(40) DEF Kinds
    <3>2. TypeAs("factor", q) = "logic"
      BY <2>3 DEF TypeAs
    <3> QED
      BY <3>1, <3>2
  <2>5. Plain("not") \in AllTokens /\ o \in Strings /\ Len(o) = 1
    BY Marks, OneWord DEF Marking
  <2> HIDE DEF o, r
  <2>6. w \in Strings /\ Len(w) = n
    <3>1. w \in Strings /\ Len(w) = Len(o) + Len(r)
      BY <2>4, <2>5, Joined2
    <3> HIDE DEF w
    <3> QED
      BY <2>4, <2>5, <3>1
  <2> USE DEF o, r
  <2>7. ASSUME NEW z \in Strings
        PROVE  FactorForm(w \o z, z, "logic")
    <3> HIDE DEF o, r
    <3> DEFINE m == r \o z
    <3>1. Takes("factor", m, z, "logic") /\ m \in Strings
      BY <2>4, TakesOne
    <3>2. w \o z = o \o m
      <4>1. Cat(Cat(o, r), z) = Cat(o, Cat(r, z))
        BY <2>4, <2>5, Cats
      <4> QED
        BY <4>1, Zenon DEF Cat
    <3> HIDE DEF m
    <3>3. Shows(o \o m, Plain("not"), m)
      BY <2>5, <3>1, ShowsAs DEF o
    <3> QED
      BY <3>1, <3>2, <3>3 DEF FactorForm
  <2> HIDE DEF w
  <2> QED
    BY <2>2, <2>6, <2>7
<1>5. ASSUME p \in parens PROVE Good(p)
  <2> DEFINE o == <<Plain("(")>>
  <2>1. PICK q \in Of(g, "exp", n - 2) : p = Within(o, q, ")", q.type, q.value)
    BY <1>5, Zenon
  <2>2. Plain("(") \in AllTokens /\ o \in Strings /\ Len(o) = 1
    BY Marks, OneWord DEF Marking
  <2> DEFINE w == (o \o q.tokens) \o <<Plain(")")>>
  <2>3. p.tokens = w /\ p.type = q.type
    <3> DEFINE t == q.type
               v == q.value
               c == ")"
    <3>1. p = Within(o, q, c, t, v)
      BY <2>1, Zenon
    <3> HIDE DEF o, t, v, c
    <3>2. /\ Within(o, q, c, t, v).tokens = (o \o q.tokens) \o <<Plain(c)>>
          /\ Within(o, q, c, t, v).type = t
      BY WithinTokens
    <3>3. p.tokens = (o \o q.tokens) \o <<Plain(c)>> /\ p.type = t
      BY <3>1, <3>2, Zenon
    <3> QED
      BY <3>3, Zenon DEF t, c
  <2> HIDE DEF o
  <2>4. q \in Of(g, "exp", n - 1 - Len(o)) /\ ")" \in Marking
    BY <1>0, <2>1, <2>2 DEF Marking
  <2>5. /\ p.tokens \in Strings /\ Len(p.tokens) = n
        /\ \A z \in Strings :
             \E m \in Strings : p.tokens \o z = o \o m /\ Inside(m, p.type, ")", z)
    <3>1. /\ w \in Strings /\ Len(w) = n
          /\ \A z \in Strings :
               \E m \in Strings : w \o z = o \o m /\ Inside(m, q.type, ")", z)
      BY <2>2, <2>4, Bracketed, Zenon
    <3> HIDE DEF w
    <3> QED
      BY <2>3, <3>1
  <2>6. ASSUME NEW z \in Strings
        PROVE  FactorForm(p.tokens \o z, z, p.type)
    <3>1. PICK m \in Strings : p.tokens \o z = o \o m /\ Inside(m, p.type, ")", z)
      BY <2>5
    <3>2. Shows(p.tokens \o z, Plain("("), m)
      BY <2>2, <3>1, ShowsAs DEF o
    <3> QED
      BY <3>1, <3>2 DEF FactorForm
  <2> QED
    BY <2>5, <2>6
<1>6. ASSUME NEW type \in {"int", "float"},
             NEW q \in OfType(Of(g, "exp", n - 3), Other(type)), p = Converted(q, type)
      PROVE  Good(p)
  <2> DEFINE o == <<Plain(type), Plain("(")>>
  <2>1. p = Within(o, q, ")", type, Term(type, type, <<q.value>>))
    BY <1>6, Zenon DEF Converted
  <2>2. Plain("(") \in AllTokens /\ Plain(type) \in AllTokens
    BY Marks DEF Marking
  <2> DEFINE w == (o \o q.tokens) \o <<Plain(")")>>
  <2>3. p.tokens = w /\ p.type = type
    <3> DEFINE v == Term(type, type, <<q.value>>)
               c == ")"
    <3>1. p = Within(o, q, c, type, v)
      BY <2>1, Zenon
    <3> HIDE DEF o, v, c
    <3>2. /\ Within(o, q, c, type, v).tokens = (o \o q.tokens) \o <<Plain(c)>>
          /\ Within(o, q, c, type, v).type = type
      BY WithinTokens
    <3>3. p.tokens = (o \o q.tokens) \o <<Plain(c)>> /\ p.type = type
      BY <3>1, <3>2, Zenon
    <3> QED
      BY <3>3, Zenon DEF c
  <2>4. o \in Strings /\ Len(o) = 2
        /\ \A z \in Strings : Shows(o \o z, Plain(type), <<Plain("(")>> \o z)
                              /\ Shows(<<Plain("(")>> \o z, Plain("("), z)
    BY <2>2, PairIs
  <2> HIDE DEF o
  <2>5. q.type = Other(type) /\ q \in Of(g, "exp", n - 1 - Len(o)) /\ ")" \in Marking
    <3>1. q \in Of(g, "exp", n - 3) /\ q.type = Other(type)
      BY <1>6, Zenon DEF OfType
    <3> QED
      BY <1>0, <2>4, <3>1 DEF Marking
  <2>6. /\ p.tokens \in Strings /\ Len(p.tokens) = n
        /\ \A z \in Strings :
             \E m \in Strings : p.tokens \o z = o \o m /\ Inside(m, Other(type), ")", z)
    <3>1. /\ w \in Strings /\ Len(w) = n
          /\ \A z \in Strings :
               \E m \in Strings : w \o z = o \o m /\ Inside(m, q.type, ")", z)
      BY <2>4, <2>5, Bracketed, Zenon
    <3> HIDE DEF w
    <3> QED
      BY <2>3, <2>5, <3>1
  <2>7. ASSUME NEW z \in Strings
        PROVE  FactorForm(p.tokens \o z, z, type)
    <3>1. PICK m \in Strings : p.tokens \o z = o \o m /\ Inside(m, Other(type), ")", z)
      BY <2>6
    <3>2. type \in Numbers
      BY DEF Numbers
    <3> QED
      BY <2>4, <3>1, <3>2 DEF FactorForm
  <2> QED
    BY <2>3, <2>6, <2>7
<1>7. ASSUME p \in ats PROVE Good(p)
  <2>1. PICK s \in OfType(Symbols, "string") : p \in At_(s)
    BY <1>7, Zenon
  <2>2. PICK q \in OfType(Of(g, "exp", n - 3), "int") : p = Indexed(s, q)
    BY <2>1, Zenon
  <2> DEFINE o == <<s, Plain("[")>>
  <2>3. p = Within(o, q, "]", "char", Term("at", "char", <<Leaf(s), q.value>>))
    BY <2>2, Zenon DEF Indexed
  <2>4. s \in Symbols /\ s.type = "string" /\ s \in AllTokens /\ Plain("[") \in AllTokens
    BY Marks, Words DEF Marking, OfType, AllTokens
  <2> DEFINE w == (o \o q.tokens) \o <<Plain("]")>>
  <2>5. p.tokens = w /\ p.type = "char"
    <3> DEFINE v == Term("at", "char", <<Leaf(s), q.value>>)
               c == "]"
               t == "char"
    <3>1. p = Within(o, q, c, t, v)
      BY <2>3, Zenon
    <3> HIDE DEF o, v, c, t
    <3>2. /\ Within(o, q, c, t, v).tokens = (o \o q.tokens) \o <<Plain(c)>>
          /\ Within(o, q, c, t, v).type = t
      BY WithinTokens
    <3>3. p.tokens = (o \o q.tokens) \o <<Plain(c)>> /\ p.type = t
      BY <3>1, <3>2, Zenon
    <3> QED
      BY <3>3, Zenon DEF c, t
  <2>6. o \in Strings /\ Len(o) = 2
        /\ \A z \in Strings : Shows(o \o z, s, <<Plain("[")>> \o z)
                              /\ Shows(<<Plain("[")>> \o z, Plain("["), z)
    BY <2>4, PairIs
  <2> HIDE DEF o
  <2>7. q.type = "int" /\ q \in Of(g, "exp", n - 1 - Len(o)) /\ "]" \in Marking
    <3>1. q \in Of(g, "exp", n - 3) /\ q.type = "int"
      BY <2>2, Zenon DEF OfType
    <3> QED
      BY <1>0, <2>6, <3>1 DEF Marking
  <2>8. /\ p.tokens \in Strings /\ Len(p.tokens) = n
        /\ \A z \in Strings :
             \E m \in Strings : p.tokens \o z = o \o m /\ Inside(m, "int", "]", z)
    <3>1. /\ w \in Strings /\ Len(w) = n
          /\ \A z \in Strings :
               \E m \in Strings : w \o z = o \o m /\ Inside(m, q.type, "]", z)
      BY <2>6, <2>7, Bracketed, ZenonT(40)
    <3> HIDE DEF w
    <3> QED
      BY <2>5, <2>7, <3>1
  <2>9. ASSUME NEW z \in Strings
        PROVE  FactorForm(p.tokens \o z, z, "char")
    <3>1. PICK m \in Strings : p.tokens \o z = o \o m /\ Inside(m, "int", "]", z)
      BY <2>8
    <3> QED
      BY <2>4, <2>6, <3>1 DEF FactorForm
  <2> QED
    BY <2>5, <2>8, <2>9
<1> HIDE DEF Good, atoms, nots, parens, ats, g
<1>8. ASSUME p \in ints PROVE Good(p)
  BY <1>6, <1>8, Zenon DEF Other
<1>9. ASSUME p \in floats PROVE Good(p)
  BY <1>6, <1>9, Zenon DEF Other
<1> HIDE DEF ints, floats
<1>10. Good(p)
  BY <1>1, <1>2, <1>3, <1>4, <1>5, <1>7, <1>8, <1>9
<1> QED
  BY <1>10 DEF Good, Made

(* An operand more.                                                        *)
LEMMA OperandMore ==
  ASSUME NEW n \in Nat \ {0}, NEW fn \in Loops, NEW p,
         Operator2(n, Produces(fn), OperatorsOf(fn), OperandOf(fn), p)
  PROVE  Len(p.tokens) = n => Extends(fn, Produces(fn), p.tokens, p.type)
<1>1. PICK q, r, op, a, b :
        /\ q \in Strings /\ r \in Strings /\ op \in OperatorsOf(fn) \intersect Keywords
        /\ Typed(Produces(fn), q, a) /\ Typed(OperandOf(fn), r, b) /\ Joins(op, a, b)
        /\ p.tokens = (q \o <<Plain(op)>>) \o r /\ p.type = JoinedType(op, a, b)
        /\ Len(q) < n
  BY DEF Operator2
<1> DEFINE o == <<Plain(op)>>
           x == o \o r
<1>2. Plain(op) \in AllTokens /\ o \in Strings
  BY <1>1, Marks, OneWord
<1>3. p.tokens = q \o x /\ x \in Strings
  BY <1>1, <1>2, Joined2
<1>4. ASSUME NEW z \in Strings
      PROVE  Links(fn, x \o z, z, a, p.type)
  <2> DEFINE m == r \o z
  <2>1. Takes(OperandOf(fn), m, z, b) /\ m \in Strings
    BY <1>1, TakesOne
  <2>2. x \o z = o \o m
    <3>1. Cat(Cat(o, r), z) = Cat(o, Cat(r, z))
      BY <1>1, <1>2, Cats
    <3> QED
      BY <3>1, Zenon DEF Cat
  <2> HIDE DEF m
  <2>3. Shows(x \o z, Plain(op), m)
    BY <1>2, <2>1, <2>2, ShowsAs
  <2> QED
    BY <1>1, <2>1, <2>3 DEF Links
<1> HIDE DEF x
<1> QED
  BY <1>1, <1>3, <1>4 DEF Extends

(* The loops and what they read.                                           *)
LEMMA LoopKinds ==
  /\ Produces("t") = "term" /\ Produces("exps") = "sum"
  /\ OperandOf("t") = "factor" /\ OperandOf("exps") = "term"
  /\ OperatorsOf("t") = FactorOperators /\ OperatorsOf("exps") = TermOperators
  /\ "t" \in Loops /\ "exps" \in Loops
BY DEF Produces, OperandOf, OperatorsOf, Loops

(* The productions of a term, ...                                          *)
LEMMA TermMade ==
  ASSUME NEW n \in Nat \ {0}, \A k \in 1..n - 1 : Sized(k), NEW p \in What("term", n)
  PROVE  /\ p.tokens \in Strings /\ Len(p.tokens) = n
         /\ Made("term", p.tokens, p.type)
<1> DEFINE g == Levels[n - 1]
<1>1. What("term", n) =
        What("factor", n) \union Binary(g, n, "term", FactorOperators, "factor")
  BY KindsAre, Zenon
<1> HIDE DEF g
<1>2. CASE p \in What("factor", n)
  <2>1. p.tokens \in Strings /\ Len(p.tokens) = n
    BY <1>2, FactorMade
  <2>2. Typed("factor", p.tokens, p.type)
    BY <1>2, <2>1 DEF Typed, TypeAs
  <2> QED
    BY <2>1, <2>2 DEF Made
<1>3. CASE p \in Binary(g, n, "term", FactorOperators, "factor")
  <2>1. /\ Operator2(n, "term", FactorOperators, "factor", p)
        /\ p.tokens \in Strings /\ Len(p.tokens) = n
    BY <1>3, BinaryIs DEF g, Kinds
  <2>2. Extends("t", "term", p.tokens, p.type)
    BY <2>1, OperandMore, LoopKinds
  <2> QED
    BY <2>1, <2>2 DEF Made
<1> QED
  BY <1>1, <1>2, <1>3

(* ...of a sum, ...                                                        *)
LEMMA SumMade ==
  ASSUME NEW n \in Nat \ {0}, \A k \in 1..n - 1 : Sized(k), NEW p \in What("sum", n)
  PROVE  /\ p.tokens \in Strings /\ Len(p.tokens) = n
         /\ Made("sum", p.tokens, p.type)
<1> DEFINE g == Levels[n - 1]
           By(sign) == {Signed(q, sign) : q \in {r \in Of(g, "term", n - 1) : r.type \in Numbers}}
           signed == UNION {By(sign) : sign \in Keywords \intersect Signs}
<1>1. What("sum", n) =
        (What("term", n) \union signed) \union Binary(g, n, "sum", TermOperators, "term")
  BY KindsAre, Zenon
<1> HIDE DEF g
<1>2. CASE p \in What("term", n)
  <2>1. p.tokens \in Strings /\ Len(p.tokens) = n
    BY <1>2, TermMade
  <2>2. Typed("term", p.tokens, p.type)
    BY <1>2, <2>1 DEF Typed, TypeAs
  <2> QED
    BY <2>1, <2>2 DEF Made
<1>3. CASE p \in Binary(g, n, "sum", TermOperators, "term")
  <2>1. /\ Operator2(n, "sum", TermOperators, "term", p)
        /\ p.tokens \in Strings /\ Len(p.tokens) = n
    BY <1>3, BinaryIs DEF g, Kinds
  <2>2. Extends("exps", "sum", p.tokens, p.type)
    BY <2>1, OperandMore, LoopKinds
  <2> QED
    BY <2>1, <2>2 DEF Made
<1>4. CASE p \in signed
  <2> HIDE DEF By
  <2>1. PICK sign \in Keywords \intersect Signs : p \in By(sign)
    BY <1>4
  <2>2. PICK q \in {r \in Of(g, "term", n - 1) : r.type \in Numbers} : p = Signed(q, sign)
    BY <2>1, Zenon DEF By
  <2>3. q \in Of(g, "term", n - 1) /\ q.type \in Numbers
    BY <2>2
  <2>4. p = Phrase(<<Plain(sign)>> \o q.tokens, q.type, Term("neg", q.type, <<q.value>>))
    BY <2>2, Zenon DEF Signed
  <2> DEFINE o == <<Plain(sign)>>
             r == q.tokens
             w == o \o r
             v == Term("neg", q.type, <<q.value>>)
  <2>5. p.tokens = w /\ p.type = q.type
    <3>1. p = Phrase(w, q.type, v)
      BY <2>4, Zenon
    <3> HIDE DEF w, v
    <3> QED
      BY <3>1, PhraseFields
  <2>6. q.tokens \in Strings /\ Len(q.tokens) = n - 1 /\ Typed("term", q.tokens, q.type)
    BY <2>3, PartIs DEF g, Kinds, TypeAs
  <2>7. Plain(sign) \in AllTokens /\ <<Plain(sign)>> \in Strings /\ Len(<<Plain(sign)>>) = 1
    BY <2>1, Marks, OneWord
  <2>8. p.tokens \in Strings /\ Len(p.tokens) = n
    <3>1. o \in Strings /\ r \in Strings /\ Len(o) = 1 /\ Len(r) = n - 1
      BY <2>6, <2>7
    <3> HIDE DEF o, r
    <3>2. w \in Strings /\ Len(w) = Len(o) + Len(r)
      BY <3>1, Joined2
    <3> HIDE DEF w
    <3> QED
      BY <2>5, <3>1, <3>2
  <2>9. SignedTerm(p.tokens, p.type)
    BY <2>1, <2>3, <2>5, <2>6, <2>7 DEF SignedTerm
  <2> QED
    BY <2>8, <2>9 DEF Made
<1> QED
  BY <1>1, <1>2, <1>3, <1>4

(* ...of an expression...                                                  *)
LEMMA ExpMade ==
  ASSUME NEW n \in Nat \ {0}, \A k \in 1..n - 1 : Sized(k), NEW p \in What("exp", n)
  PROVE  /\ p.tokens \in Strings /\ Len(p.tokens) = n
         /\ Made("exp", p.tokens, p.type)
<1> DEFINE g == Levels[n - 1]
<1>1. What("exp", n) = What("sum", n) \union Binary(g, n, "sum", Comparisons, "sum")
  BY KindsAre, Zenon
<1> HIDE DEF g
<1>2. CASE p \in What("sum", n)
  <2>1. p.tokens \in Strings /\ Len(p.tokens) = n
    BY <1>2, SumMade
  <2>2. Typed("sum", p.tokens, p.type)
    BY <1>2, <2>1 DEF Typed, TypeAs
  <2> QED
    BY <2>1, <2>2 DEF Made
<1>3. CASE p \in Binary(g, n, "sum", Comparisons, "sum")
  <2>1. /\ Operator2(n, "sum", Comparisons, "sum", p)
        /\ p.tokens \in Strings /\ Len(p.tokens) = n
    BY <1>3, BinaryIs DEF g, Kinds
  <2>2. PICK q, r, op, a, b :
          /\ q \in Strings /\ r \in Strings /\ op \in Comparisons \intersect Keywords
          /\ Typed("sum", q, a) /\ Typed("sum", r, b) /\ Joins(op, a, b)
          /\ p.tokens = (q \o <<Plain(op)>>) \o r /\ p.type = JoinedType(op, a, b)
    BY <2>1 DEF Operator2
  <2>3. p.type = "logic"
    BY <2>2 DEF JoinedType
  <2>4. Plain(op) \in AllTokens /\ <<Plain(op)>> \in Strings
    BY <2>2, Marks, OneWord
  <2>5. ASSUME NEW z \in Strings
        PROVE  Compared(p.tokens \o z, z, p.type)
    <3> DEFINE k == r \o z
               m == <<Plain(op)>> \o k
    <3>1. Takes("sum", k, z, b) /\ k \in Strings
      BY <2>2, TakesOne
    <3>2. p.tokens \o z = q \o m
      <4> DEFINE o == <<Plain(op)>>
      <4>1. o \in Strings /\ q \in Strings /\ r \in Strings
        BY <2>2, <2>4
      <4> HIDE DEF o
      <4>2. Cat(Cat(Cat(q, o), r), z) = Cat(q, Cat(o, Cat(r, z)))
        BY <4>1, Cats
      <4>3. p.tokens = (q \o o) \o r
        BY <2>2, Zenon DEF o
      <4>4. p.tokens \o z = q \o (o \o (r \o z))
        BY <4>2, <4>3, Zenon DEF Cat
      <4> QED
        BY <4>4, Zenon DEF o
    <3> HIDE DEF k
    <3>3. Shows(m, Plain(op), k) /\ m \in Strings
      BY <2>4, <3>1, ShowsAs
    <3> HIDE DEF m
    <3>4. Takes("sum", q \o m, m, a)
      BY <2>2, <3>3, TakesOne
    <3> QED
      BY <2>2, <2>3, <3>1, <3>2, <3>3, <3>4 DEF Compared
  <2> QED
    BY <2>1, <2>5 DEF Made
<1> QED
  BY <1>1, <1>2, <1>3

(* ...and of a list.                                                       *)
LEMMA ListMade ==
  ASSUME NEW n \in Nat \ {0}, \A k \in 1..n - 1 : Sized(k), NEW p \in What("list", n)
  PROVE  /\ p.tokens \in Strings /\ Len(p.tokens) = n
         /\ Made("list", p.tokens, "none")
<1> DEFINE g == Levels[n - 1]
           one == {Sentence(q.tokens, <<Writes(q)>>) : q \in What("exp", n)}
           After(l, k) == {Longer(l, q) : q \in Of(g, "exp", n - 1 - k)}
           By(k) == UNION {After(l, k) : l \in Of(g, "list", k)}
           longer == UNION {By(k) : k \in 1..n}
<1>1. What("list", n) = one \union longer
  BY KindsAre, Zenon
<1>2. CASE p \in one
  <2>1. PICK q \in What("exp", n) : p = Sentence(q.tokens, <<Writes(q)>>)
    BY <1>2, Zenon
  <2>2. p.tokens = q.tokens
    BY <2>1, PhraseFields
  <2>3. q.tokens \in Strings /\ Len(q.tokens) = n
    BY ExpMade
  <2>4. Typed("exp", p.tokens, q.type)
    BY <2>2, <2>3 DEF Typed, TypeAs
  <2> QED
    BY <2>2, <2>3, <2>4 DEF Made
<1>3. CASE p \in longer
  <2> HIDE DEF By
  <2>1. PICK k \in 1..n : p \in By(k)
    BY <1>3
  <2> HIDE DEF After, g
  <2>2. PICK l \in Of(g, "list", k) : p \in After(l, k)
    BY <2>1, Zenon DEF By
  <2> DEFINE j == n - 1 - k
  <2>3. PICK q \in Of(g, "exp", j) : p = Longer(l, q)
    BY <2>2, Zenon DEF After
  <2> HIDE DEF j
  <2>4. p = Sentence(l.tokens \o <<Plain(",")>> \o q.tokens, l.does \o <<Writes(q)>>)
    BY <2>3, Zenon DEF Longer
  <2> DEFINE o == <<Plain(Comma)>>
             x == o \o q.tokens
  <2>5. p.tokens = (l.tokens \o o) \o q.tokens
    BY <2>4, PhraseFields DEF Comma
  <2>6. /\ k \in 1..n - 1 /\ l.tokens \in Strings /\ Len(l.tokens) = k
        /\ Typed("list", l.tokens, "none")
    BY <2>2, PartIs DEF g, Kinds, TypeAs
  <2>7. q.tokens \in Strings /\ Len(q.tokens) = j /\ Typed("exp", q.tokens, q.type)
    BY <2>3, PartIs DEF g, Kinds, TypeAs
  <2>8. Plain(Comma) \in AllTokens /\ o \in Strings /\ Len(o) = 1
    BY Marks, OneWord DEF Marking
  <2>9. p.tokens \in Strings /\ Len(p.tokens) = k + 1 + j
    <3> DEFINE u == l.tokens
               v == q.tokens
               w == (u \o o) \o v
    <3>1. u \in Strings /\ v \in Strings
      BY <2>6, <2>7
    <3> HIDE DEF u, v, o
    <3>2. w \in Strings /\ Len(w) = Len(u) + Len(o) + Len(v)
      <4>1. u \in Strings /\ o \in Strings /\ v \in Strings
        BY <2>8, <3>1
      <4> QED
        BY <4>1, CatLengths, Zenon
    <3> USE DEF u, v, o
    <3> HIDE DEF w
    <3>3. p.tokens = w
      BY <2>5, Zenon DEF w
    <3> QED
      BY <2>6, <2>7, <2>8, <3>2, <3>3
  <2>10. p.tokens \in Strings /\ Len(p.tokens) = n
    BY <2>6, <2>9 DEF j
  <2>11. p.tokens = l.tokens \o x /\ x \in Strings
    <3> DEFINE u == l.tokens
               v == q.tokens
    <3>1. u \in Strings /\ v \in Strings
      BY <2>6, <2>7
    <3>2. p.tokens = (u \o o) \o v
      BY <2>5, Zenon
    <3> HIDE DEF u, v, o
    <3>3. Cat(Cat(u, o), v) = Cat(u, Cat(o, v)) /\ Cat(o, v) \in Strings
      BY <2>8, <3>1, Cats
    <3>4. p.tokens = u \o (o \o v) /\ o \o v \in Strings
      BY <3>2, <3>3, Zenon DEF Cat
    <3> QED
      BY <3>4, Zenon DEF u, v
  <2>12. ASSUME NEW z \in Strings
         PROVE  Links("write", x \o z, z, "none", "none")
    <3> DEFINE m == q.tokens \o z
    <3>1. Takes("exp", m, z, q.type) /\ m \in Strings
      BY <2>7, TakesOne
    <3>2. x \o z = o \o m
      <4> DEFINE v == q.tokens
      <4>1. v \in Strings
        BY <2>7
      <4> HIDE DEF v, o
      <4>2. Cat(Cat(o, v), z) = Cat(o, Cat(v, z))
        BY <2>8, <4>1, Cats
      <4> USE DEF v
      <4> QED
        BY <4>2, Zenon DEF Cat
    <3> HIDE DEF m
    <3>3. Shows(x \o z, Plain(Comma), m)
      BY <2>8, <3>1, <3>2, ShowsAs
    <3> QED
      BY <3>1, <3>3 DEF Links, Loops
  <2> HIDE DEF x
  <2>13. Extends("write", "list", p.tokens, "none")
    <3> DEFINE v == l.tokens
    <3>1. v \in Strings /\ Len(v) < Len(p.tokens) /\ Typed("list", v, "none")
      BY <2>6, <2>10
    <3>2. p.tokens = v \o x /\ x \in Strings
      BY <2>11
    <3> HIDE DEF v
    <3> QED
      BY <2>12, <3>1, <3>2 DEF Extends
  <2> QED
    BY <2>10, <2>13 DEF Made
<1> QED
  BY <1>1, <1>2, <1>3

(* What has n tokens has n tokens.                                         *)
LEMMA AllSized == \A n \in Nat \ {0} : Sized(n)
<1> SUFFICES ASSUME NEW c \in Nat \ {0}, ~Sized(c) PROVE FALSE
  OBVIOUS
<1> DEFINE T == {n \in Nat \ {0} : ~Sized(n)}
<1>1. T \subseteq Nat /\ T # {}
  OBVIOUS
<1>2. PICK n \in T : \A k \in T : n <= k
  BY <1>1, Smallest
<1>3. n \in Nat \ {0} /\ ~Sized(n)
  OBVIOUS
<1>4. \A k \in 1..n - 1 : Sized(k)
  <2> SUFFICES ASSUME NEW k \in 1..n - 1, ~Sized(k) PROVE FALSE
    OBVIOUS
  <2>1. k \in T /\ ~(n <= k)
    BY <1>3
  <2> QED
    BY <1>2, <2>1
<1> HIDE DEF T
<1>5. Sized(n)
  BY <1>3, <1>4, FactorMade, TermMade, SumMade, ExpMade, ListMade DEF Sized, Kinds
<1> QED
  BY <1>3, <1>5

(* A phrase of any length comes of one of its productions.                 *)
LEMMA MadeOf ==
  ASSUME NEW kind \in Kinds, NEW w, NEW t, Typed(kind, w, t)
  PROVE  /\ w \in Strings /\ Made(kind, w, t) /\ Len(w) \in Nat \ {0}
<1>1. PICK p \in What(kind, Len(w)) : p.tokens = w /\ TypeAs(kind, p) = t
  BY DEF Typed
<1> DEFINE n == Len(w)
<1>2. n \in Nat \ {0}
  BY <1>1 DEF What
<1>3. \A k \in 1..n - 1 : Sized(k)
  <2>1. \A k \in 1..n - 1 : k \in Nat \ {0}
    BY <1>2
  <2> QED
    BY <2>1, AllSized
<1>4. p \in What(kind, n)
  BY <1>1
<1> HIDE DEF n
<1>5. w \in Strings
  BY <1>1, <1>2, <1>4, AllSized DEF Sized
<1>6. kind # "list" => t = p.type
  BY <1>1 DEF TypeAs
<1>7. kind = "list" => t = "none"
  BY <1>1 DEF TypeAs
<1>8. CASE kind = "factor"
  BY <1>1, <1>2, <1>3, <1>4, <1>6, <1>8, FactorMade
<1>9. CASE kind = "term"
  BY <1>1, <1>2, <1>3, <1>4, <1>6, <1>9, TermMade
<1>10. CASE kind = "sum"
  BY <1>1, <1>2, <1>3, <1>4, <1>6, <1>10, SumMade
<1>11. CASE kind = "exp"
  BY <1>1, <1>2, <1>3, <1>4, <1>6, <1>11, ExpMade
<1>12. CASE kind = "list"
  BY <1>1, <1>2, <1>3, <1>4, <1>7, <1>12, ListMade
<1>13. Made(kind, w, t)
  BY <1>8, <1>9, <1>10, <1>11, <1>12 DEF Kinds
<1> QED
  BY <1>2, <1>5, <1>13 DEF n

-----------------------------------------------------------------------------
(* A loop over operands or over values, round by round.                    *)

(* How a loop goes on from y, where it has a type, to z: the text before   *)
(* each of its rounds, and the types so far.                               *)
Continues(fn, a, y, z, b) ==
  \E n \in Nat : \E S : \E types \in [0..n -> S], at \in [0..n -> Strings] :
    /\ types[0] = a /\ types[n] = b /\ at[0] = y /\ at[n] = z
    /\ \A k \in 1..n : Links(fn, at[k - 1], at[k], types[k - 1], types[k])

(* A loop may end, ...                                                     *)
LEMMA ContinuesNot ==
  ASSUME NEW fn, NEW a, NEW y \in Strings
  PROVE  Continues(fn, a, y, y, a)
<1> DEFINE types == [k \in 0..0 |-> a]
           at == [k \in 0..0 |-> y]
           S == {a}
<1>1. types \in [0..0 -> S] /\ types[0] = a /\ at \in [0..0 -> Strings] /\ at[0] = y
  OBVIOUS
<1> HIDE DEF types, at, S
<1>2. \A k \in 1..0 : FALSE
  OBVIOUS
<1>3. 0 \in Nat
  OBVIOUS
<1> QED
  BY <1>1, <1>2, <1>3 DEF Continues

(* ...or have one more round at its end.                                   *)
LEMMA ContinuesMore ==
  ASSUME NEW fn, NEW a, NEW y, NEW m, NEW b, Continues(fn, a, y, m, b),
         NEW z \in Strings, NEW c, Links(fn, m, z, b, c)
  PROVE  Continues(fn, a, y, z, c)
<1>0. PICK n \in Nat : \E S : \E types \in [0..n -> S], at \in [0..n -> Strings] :
        /\ types[0] = a /\ types[n] = b /\ at[0] = y /\ at[n] = m
        /\ \A k \in 1..n : Links(fn, at[k - 1], at[k], types[k - 1], types[k])
  BY DEF Continues
<1>1. PICK S : \E types \in [0..n -> S], at \in [0..n -> Strings] :
        /\ types[0] = a /\ types[n] = b /\ at[0] = y /\ at[n] = m
        /\ \A k \in 1..n : Links(fn, at[k - 1], at[k], types[k - 1], types[k])
  BY <1>0
<1>2. PICK types \in [0..n -> S], at \in [0..n -> Strings] :
        /\ types[0] = a /\ types[n] = b /\ at[0] = y /\ at[n] = m
        /\ \A k \in 1..n : Links(fn, at[k - 1], at[k], types[k - 1], types[k])
  BY <1>1
<1> DEFINE l == n + 1
           R == S \union {c}
<1>3. /\ l \in Nat /\ l \notin 0..n /\ 0..l = 0..n \union {l} /\ l - 1 = n /\ 0 \in 0..n
      /\ n \in 0..n
      /\ 1..l = 1..n \union {l} /\ \A k \in 1..n : k \in 0..n /\ k - 1 \in 0..n
  OBVIOUS
<1>4. c \in R /\ \A k \in 0..n : types[k] \in R
  OBVIOUS
<1> HIDE DEF l, R
<1> DEFINE newTypes == [k \in 0..l |-> IF k = l THEN c ELSE types[k]]
           newAt == [k \in 0..l |-> IF k = l THEN z ELSE at[k]]
<1>5. /\ newTypes \in [0..l -> R] /\ newTypes[l] = c
      /\ \A k \in 0..n : newTypes[k] = types[k]
  BY <1>3, <1>4
<1>6. /\ newAt \in [0..l -> Strings] /\ newAt[l] = z
      /\ \A k \in 0..n : newAt[k] = at[k]
  BY <1>3
<1> HIDE DEF newTypes, newAt
<1>7. ASSUME NEW k \in 1..l
      PROVE  Links(fn, newAt[k - 1], newAt[k], newTypes[k - 1], newTypes[k])
  <2>1. CASE k = l
    BY <1>2, <1>3, <1>5, <1>6, <2>1
  <2>2. CASE k \in 1..n
    BY <1>2, <1>3, <1>5, <1>6, <2>2
  <2> QED
    BY <1>3, <2>1, <2>2
<1>8. newTypes[0] = a /\ newAt[0] = y
  BY <1>2, <1>3, <1>5, <1>6
<1> QED
  BY <1>3, <1>5, <1>6, <1>7, <1>8, ZenonT(40) DEF Continues

(* The first round.                                                        *)
LEMMA ContinuesWith ==
  ASSUME NEW fn, NEW a, NEW y, NEW z, NEW b, Continues(fn, a, y, z, b)
  PROVE  /\ y \in Strings /\ z \in Strings
         /\ \/ y = z /\ a = b
            \/ \E m \in Strings : \E c : Links(fn, y, m, a, c) /\ Continues(fn, c, m, z, b)
<1>0. PICK n \in Nat : \E S : \E types \in [0..n -> S], at \in [0..n -> Strings] :
        /\ types[0] = a /\ types[n] = b /\ at[0] = y /\ at[n] = z
        /\ \A k \in 1..n : Links(fn, at[k - 1], at[k], types[k - 1], types[k])
  BY DEF Continues
<1>1. PICK S : \E types \in [0..n -> S], at \in [0..n -> Strings] :
        /\ types[0] = a /\ types[n] = b /\ at[0] = y /\ at[n] = z
        /\ \A k \in 1..n : Links(fn, at[k - 1], at[k], types[k - 1], types[k])
  BY <1>0
<1>2. PICK types \in [0..n -> S], at \in [0..n -> Strings] :
        /\ types[0] = a /\ types[n] = b /\ at[0] = y /\ at[n] = z
        /\ \A k \in 1..n : Links(fn, at[k - 1], at[k], types[k - 1], types[k])
  BY <1>1
<1>3. 0 \in 0..n /\ n \in 0..n
  OBVIOUS
<1>4. y \in Strings /\ z \in Strings
  BY <1>2, <1>3
<1>5. CASE n = 0
  BY <1>2, <1>4, <1>5
<1>6. CASE n # 0
  <2> DEFINE l == n - 1
             newTypes == [k \in 0..l |-> types[k + 1]]
             newAt == [k \in 0..l |-> at[k + 1]]
  <2>1. /\ l \in Nat /\ 0 \in 0..l /\ l \in 0..l /\ l + 1 = n /\ 1 \in 1..n /\ 1 \in 0..n
        /\ 1 - 1 = 0 /\ 0 + 1 = 1
        /\ \A k \in 0..l : k + 1 \in 0..n
        /\ \A k \in 1..l : /\ k + 1 \in 1..n /\ k \in 0..l /\ k - 1 \in 0..l
                           /\ (k + 1) - 1 = (k - 1) + 1
    BY <1>6
  <2> HIDE DEF l
  <2>2. /\ newTypes \in [0..l -> S] /\ \A k \in 0..l : newTypes[k] = types[k + 1]
    BY <2>1
  <2>3. /\ newAt \in [0..l -> Strings] /\ \A k \in 0..l : newAt[k] = at[k + 1]
    BY <2>1
  <2> HIDE DEF newTypes, newAt
  <2>4. Links(fn, y, at[1], a, types[1])
    BY <1>2, <2>1
  <2>5. ASSUME NEW k \in 1..l
        PROVE  Links(fn, newAt[k - 1], newAt[k], newTypes[k - 1], newTypes[k])
    <3>1. Links(fn, at[(k + 1) - 1], at[k + 1], types[(k + 1) - 1], types[k + 1])
      BY <1>2, <2>1
    <3> QED
      BY <2>1, <2>2, <2>3, <3>1
  <2>6. newTypes[0] = types[1] /\ newTypes[l] = b /\ newAt[0] = at[1] /\ newAt[l] = z
    BY <1>2, <2>1, <2>2, <2>3
  <2>7. Continues(fn, types[1], at[1], z, b)
    BY <2>1, <2>2, <2>3, <2>5, <2>6 DEF Continues
  <2>8. at[1] \in Strings
    BY <2>1
  <2> QED
    BY <1>4, <2>4, <2>7, <2>8
<1> QED
  BY <1>5, <1>6

(* A loop and what it begins with.                                         *)
LoopOf(fn) == IF fn = "t" THEN "term" ELSE IF fn = "exps" THEN "sum" ELSE "list"
HasSign(y, z, t) ==
  /\ t \in Numbers
  /\ \E sign \in Signs : \E m : Shows(y, Plain(sign), m) /\ Takes("term", m, z, t)
Starts(fn, y, z, t) ==
  CASE fn = "t" -> Takes("factor", y, z, t)
    [] fn = "exps" -> Takes("term", y, z, t) \/ HasSign(y, z, t)
    [] fn = "write" -> t = "none" /\ \E c : Takes("exp", y, z, c)
Divided(fn, y, z, t) ==
  \E m \in Strings : \E a : Starts(fn, y, m, a) /\ Continues(fn, a, m, z, t)

(* A phrase of a loop is a first operand, or one with a last round.        *)
LEMMA StartOrMore ==
  ASSUME NEW fn \in {"t", "exps", "write"}, NEW w, NEW t, Typed(LoopOf(fn), w, t)
  PROVE  /\ w \in Strings /\ Len(w) \in Nat \ {0}
         /\ \/ \A z \in Strings : Starts(fn, w \o z, z, t)
            \/ Extends(fn, LoopOf(fn), w, t)
<1> DEFINE kind == LoopOf(fn)
<1>1. kind \in Kinds
  BY DEF LoopOf, Kinds
<1>2. w \in Strings /\ Made(kind, w, t) /\ Len(w) \in Nat \ {0}
  BY <1>1, MadeOf
<1>3. CASE fn = "t"
  <2>1. Typed("factor", w, t) \/ Extends("t", "term", w, t)
    BY <1>2, <1>3 DEF Made, LoopOf
  <2> QED
    BY <1>2, <1>3, <2>1, TakesOne DEF Starts, LoopOf
<1>4. CASE fn = "exps"
  <2>1. Typed("term", w, t) \/ SignedTerm(w, t) \/ Extends("exps", "sum", w, t)
    BY <1>2, <1>4 DEF Made, LoopOf
  <2>2. ASSUME SignedTerm(w, t), NEW z \in Strings PROVE HasSign(w \o z, z, t)
    <3>1. PICK sign \in Signs, q \in Strings :
            /\ Plain(sign) \in AllTokens /\ w = <<Plain(sign)>> \o q
            /\ Typed("term", q, t)
      BY <2>2 DEF SignedTerm
    <3>2. Takes("term", q \o z, z, t) /\ q \o z \in Strings
      BY <3>1, TakesOne
    <3>3. <<Plain(sign)>> \in Strings
      BY <3>1, OneWord
    <3>4. w \o z = <<Plain(sign)>> \o (q \o z)
      BY <3>1, <3>3, Joined2
    <3>5. Shows(w \o z, Plain(sign), q \o z)
      BY <3>1, <3>2, <3>4, ShowsAs
    <3> QED
      BY <2>2, <3>2, <3>5 DEF HasSign, SignedTerm
  <2> QED
    BY <1>2, <1>4, <2>1, <2>2, TakesOne DEF Starts, LoopOf
<1>5. CASE fn = "write"
  <2>1. (\E c : Typed("exp", w, c)) \/ Extends("write", "list", w, t)
    BY <1>2, <1>5 DEF Made, LoopOf
  <2>2. t = "none"
    BY <1>5 DEF Typed, TypeAs, LoopOf
  <2> QED
    BY <1>2, <1>5, <2>1, <2>2, TakesOne DEF Starts, LoopOf
<1> QED
  BY <1>2, <1>3, <1>4, <1>5

(* A left-recursive production is a loop.                                  *)
LEMMA Divides ==
  ASSUME NEW fn \in {"t", "exps", "write"}, NEW y, NEW z, NEW t, Takes(LoopOf(fn), y, z, t)
  PROVE  Divided(fn, y, z, t)
<1> DEFINE Bad(n) == \E w \in Strings, r \in Strings : \E b :
                       Len(w) = n /\ Typed(LoopOf(fn), w, b) /\ ~Divided(fn, w \o r, r, b)
           T == {n \in Nat : Bad(n)}
<1>1. PICK w \in Strings : z \in Strings /\ Typed(LoopOf(fn), w, t) /\ y = w \o z
  BY DEF Takes
<1>2. ASSUME ~Divided(fn, y, z, t) PROVE FALSE
  <2>1. Len(w) \in T
    <3>1. Len(w) \in Nat
      BY Joined2
    <3> QED
      BY <1>1, <1>2, <3>1
  <2>2. PICK n \in T : \A k \in T : n <= k
    <3>1. T \subseteq Nat /\ T # {}
      BY <2>1
    <3> HIDE DEF T
    <3> QED
      BY <3>1, Smallest
  <2>3. PICK v, r, b :
          v \in Strings /\ r \in Strings /\
          Len(v) = n /\ Typed(LoopOf(fn), v, b) /\ ~Divided(fn, v \o r, r, b)
    BY <2>2
  <2>4. CASE \A x \in Strings : Starts(fn, v \o x, x, b)
    BY <2>3, <2>4, ContinuesNot DEF Divided
  <2>5. CASE Extends(fn, LoopOf(fn), v, b)
    <3>1. PICK u, x, c :
            /\ u \in Strings /\ x \in Strings
            /\ v = u \o x /\ Len(u) < Len(v) /\ Typed(LoopOf(fn), u, c)
            /\ \A s \in Strings : Links(fn, x \o s, s, c, b)
      BY <2>5 DEF Extends
    <3>2. Len(u) \in Nat /\ Len(u) \notin T
      <4>1. Len(u) \in Nat /\ Len(v) \in Nat
        BY <2>3, <3>1, Joined2
      <4>2. ~(n <= Len(u))
        BY <2>3, <3>1, <4>1
      <4> QED
        BY <2>2, <4>1, <4>2
    <3>3. x \o r \in Strings /\ v \o r = u \o (x \o r)
      <4>1. u \in Strings /\ x \in Strings /\ r \in Strings
        BY <2>3, <3>1
      <4>2. Cat(x, r) \in Strings /\ Cat(Cat(u, x), r) = Cat(u, Cat(x, r))
        BY <4>1, Cats
      <4>3. v = u \o x
        BY <3>1
      <4> QED
        BY <4>2, <4>3, Zenon DEF Cat
    <3>4. Divided(fn, u \o (x \o r), x \o r, c)
      BY <3>1, <3>2, <3>3
    <3>5. PICK m, a : /\ m \in Strings /\ Starts(fn, u \o (x \o r), m, a)
                      /\ Continues(fn, a, m, x \o r, c)
      BY <3>4 DEF Divided
    <3>6. Continues(fn, a, m, r, b)
      <4> DEFINE s == x \o r
      <4>1. r \in Strings /\ Links(fn, s, r, c, b) /\ Continues(fn, a, m, s, c)
        BY <2>3, <3>1, <3>5
      <4> HIDE DEF s
      <4> QED
        BY <4>1, ContinuesMore
    <3> QED
      BY <2>3, <3>3, <3>5, <3>6 DEF Divided
  <2> QED
    BY <2>3, <2>4, <2>5, StartOrMore
<1> QED
  BY <1>2

-----------------------------------------------------------------------------
(* What a phrase begins with.                                              *)

(* The productions, of what begins with a phrase.                          *)
LEMMA FactorIs ==
  ASSUME NEW y, NEW z, NEW t, Takes("factor", y, z, t)
  PROVE  FactorForm(y, z, t)
BY MadeOf DEF Takes, Kinds, Made

LEMMA ExpIs ==
  ASSUME NEW y, NEW z, NEW t, Takes("exp", y, z, t)
  PROVE  Takes("sum", y, z, t) \/ Compared(y, z, t)
<1>1. PICK w \in Strings : z \in Strings /\ Typed("exp", w, t) /\ y = w \o z
  BY DEF Takes
<1>2. Typed("sum", w, t) \/ \A x \in Strings : Compared(w \o x, x, t)
  BY <1>1, MadeOf DEF Kinds, Made
<1> QED
  BY <1>1, <1>2, TakesOne

(* What begins with a phrase is of tokens.                                 *)
LEMMA TakesWords ==
  ASSUME NEW kind, NEW y, NEW z, NEW t, Takes(kind, y, z, t)
  PROVE  y \in Strings /\ z \in Strings
BY Joined2 DEF Takes

(* What a phrase begins with.                                              *)
LEMMA PlainTok == \A k : Plain(k).tok = k /\ Plain(k).type = "none"
BY DEF Plain

(* A factor begins with one of the tokens that syntatic_f takes, ...       *)
LEMMA FactorBegins ==
  ASSUME NEW y, NEW z, NEW t, Takes("factor", y, z, t)
  PROVE  \E k, m : Shows(y, k, m) /\ k.tok \in FirstOfF
<1>1. FactorForm(y, z, t)
  BY FactorIs
<1>2. \A k \in Literals \union Symbols : k.tok \in {"constant", "identifier"}
  BY LiteralsAssumption, SymbolsAssumption
<1>3. CASE \E k \in Literals \union Symbols : Shows(y, k, z) /\ t = k.type
  BY <1>2, <1>3 DEF FirstOfF
<1>4. CASE \E m : Shows(y, Plain("not"), m) /\ Takes("factor", m, z, "logic")
  BY <1>4, PlainTok DEF FirstOfF
<1>5. CASE \E m : Shows(y, Plain("("), m) /\ Inside(m, t, ")", z)
  BY <1>5, PlainTok DEF FirstOfF
<1>6. CASE /\ t \in Numbers
           /\ \E m, k : /\ Shows(y, Plain(t), m) /\ Shows(m, Plain("("), k)
                        /\ Inside(k, Other(t), ")", z)
  BY <1>6, PlainTok DEF FirstOfF, Numbers
<1>7. CASE \E s \in Symbols : \E m, k : /\ s.type = "string" /\ Shows(y, s, m)
                                    /\ Shows(m, Plain("["), k) /\ Inside(k, "int", "]", z)
  BY <1>2, <1>7 DEF FirstOfF
<1> QED
  BY <1>1, <1>3, <1>4, <1>5, <1>6, <1>7 DEF FactorForm

(* ...and so does a term.                                                  *)
LEMMA TermBegins ==
  ASSUME NEW y, NEW z, NEW t, Takes("term", y, z, t)
  PROVE  \E k, m : Shows(y, k, m) /\ k.tok \in FirstOfF
<1>1. PICK m, a : m \in Strings /\ Starts("t", y, m, a)
  BY Divides DEF LoopOf, Divided
<1> QED
  BY <1>1, FactorBegins DEF Starts

(* A sum has a sign, or begins with a factor.                              *)
LEMMA SumIs ==
  ASSUME NEW y, NEW z, NEW t, Takes("sum", y, z, t)
  PROVE  \E m \in Strings : \E a : /\ Takes("term", y, m, a) \/ HasSign(y, m, a)
                               /\ Continues("exps", a, m, z, t)
<1>1. PICK m, a : m \in Strings /\ Starts("exps", y, m, a) /\ Continues("exps", a, m, z, t)
  BY Divides DEF LoopOf, Divided
<1> QED
  BY <1>1 DEF Starts

-----------------------------------------------------------------------------
(* What is left for a function to read.  Of the tokens y it reads those    *)
(* before z, given a value of type t if it waits for one, and returns one  *)
(* of type u (a command: none).                                            *)
FactorComes(f, t, y, z, u) ==
  /\ f.at = "start" => Takes("factor", y, z, u)
  /\ f.at = "id" => \/ y = z /\ u = f.symbol.type
                    \/ /\ f.symbol.type = "string" /\ u = "char"
                       /\ \E m : Shows(y, Plain("["), m) /\ Inside(m, "int", "]", z)
  /\ f.at = "]" => t = "int" /\ u = "char" /\ Shows(y, Plain("]"), z)
  /\ f.at = "not" => t = "logic" /\ u = "logic" /\ y = z
  /\ f.at = ")" => u = t /\ Shows(y, Plain(")"), z)
  /\ f.at = "convert(" =>
       u = f.op /\ \E m : Shows(y, Plain("("), m) /\ Inside(m, Other(f.op), ")", z)
  /\ f.at = "convert)" => u = f.op /\ t = Other(f.op) /\ Shows(y, Plain(")"), z)

LoopComes(f, t, y, z, u) ==
  /\ f.at = "sign" => Takes("sum", y, z, u)
  /\ f.at = "first" => (f.op # "none" => t \in Numbers) /\ Continues(f.fn, t, y, z, u)
  /\ f.at = "loop" => Continues(f.fn, f.left.type, y, z, u)
  /\ f.at = "operand" =>
       Joins(f.op, f.left.type, t)
         /\ Continues(f.fn, JoinedType(f.op, f.left.type, t), y, z, u)

ExpComes(f, t, y, z, u) ==
  /\ f.at = "left" =>
       \/ y = z /\ u = t
       \/ /\ u = "logic"
          /\ \E op \in Comparisons : \E m, c :
               Shows(y, Plain(op), m) /\ Takes("sum", m, z, c) /\ Joins(op, t, c)
  /\ f.at = "right" => y = z /\ u = "logic" /\ Joins(f.op, f.left.type, t)

ParenComes(f, t, y, z) ==
  /\ f.at = "start" => \E m : Shows(y, Plain("("), m) /\ Inside(m, "logic", ")", z)
  /\ f.at = ")" => t = "logic" /\ Shows(y, Plain(")"), z)

Ends(y, z) == Shows(y, Plain(Semicolon), z)
Closes(y, z) == \E m : Shows(y, Plain(")"), m) /\ Ends(m, z)
Lists(y, z) ==
  \E m, k : Shows(y, Plain("("), m) /\ Takes("list", m, k, "none") /\ Closes(k, z)
ListGoesOn(y, z) == \E m : Continues("write", "none", y, m, "none") /\ Closes(m, z)
WriteComes(f, y, z) ==
  /\ f.at = "start" => \E k, m : Shows(y, k, m) /\ Lists(m, z)
  /\ f.at = "(" => Lists(y, z)
  /\ f.at \in {"first", "next", Comma} => ListGoesOn(y, z)
  /\ f.at = Semicolon => Ends(y, z)

NameComes(y, z) == \E v \in Variables : \E m : Shows(y, v, m) /\ Closes(m, z)
ReadComes(f, y, z) ==
  /\ f.at = "start" =>
       \E m, k : /\ Shows(y, Plain("readln"), m) /\ Shows(m, Plain("("), k)
                 /\ NameComes(k, z)
  /\ f.at = "(" => \E m : Shows(y, Plain("("), m) /\ NameComes(m, z)
  /\ f.at = "id" => NameComes(y, z)
  /\ f.at = ")" => Closes(y, z)
  /\ f.at = Semicolon => Ends(y, z)

(* ... := exp ;                                                            *)
ValueComes(y, z, t) ==
  \E m, k : Shows(y, Plain(":="), m) /\ Takes("exp", m, k, t) /\ Ends(k, z)
TargetComes(s, y, z) ==
  \/ ValueComes(y, z, s.type)
  \/ s.type = "string" /\ \E m, k : /\ Shows(y, Plain("["), m) /\ Inside(m, "int", "]", k)
                                    /\ ValueComes(k, z, "char")
AttrComes(f, t, y, z) ==
  /\ f.at = "start" => \E v \in Variables : \E m : Shows(y, v, m) /\ TargetComes(v, m, z)
  /\ f.at = "id" => TargetComes(f.symbol, y, z)
  /\ f.at = "]" => t = "int" /\ \E m : Shows(y, Plain("]"), m) /\ ValueComes(m, z, "char")
  /\ f.at = ":=" => ValueComes(y, z, "char")
  /\ f.at = "value" => /\ t = (IF f.op = "index" THEN "char" ELSE f.symbol.type)
                       /\ Ends(y, z)

Fitting(f) ==
  \/ f.fn = "f" /\ f.at \in {"start", "id", "]", "not", ")", "convert(", "convert)"}
  \/ f.fn \in Loops /\ f.at \in {"sign", "first", "loop", "operand"}
  \/ f.fn = "exp" /\ f.at \in {"left", "right"}
  \/ f.fn = "paren" /\ f.at \in {"start", ")"}
  \/ f.fn = "write" /\ f.at \in {"start", "(", "first", "next", Comma, Semicolon}
  \/ f.fn = "readln" /\ f.at \in {"start", "(", "id", ")", Semicolon}
  \/ f.fn = "attr" /\ f.at \in {"start", "id", "]", ":=", "value"}

Comes(f, t, y, z, u) ==
  /\ y \in Strings /\ z \in Strings /\ Fitting(f)
  /\ f.fn = "f" => FactorComes(f, t, y, z, u)
  /\ f.fn \in Loops => LoopComes(f, t, y, z, u)
  /\ f.fn = "exp" => ExpComes(f, t, y, z, u)
  /\ f.fn = "paren" => ParenComes(f, t, y, z)
  /\ f.fn = "write" => WriteComes(f, y, z)
  /\ f.fn = "readln" => ReadComes(f, y, z)
  /\ f.fn = "attr" => AttrComes(f, t, y, z)

(* What is left for the first n functions, given a value of type t.        *)
Remains(s, n, t, y) ==
  \E S : \E types \in [0..n -> S], at \in [0..n -> Strings] :
    /\ types[n] = t /\ at[n] = y /\ at[0] = <<>>
    /\ \A k \in 1..n : Comes(s[k], types[k], at[k], at[k - 1], types[k - 1])

-----------------------------------------------------------------------------
(* Nothing is left for no function.                                        *)
LEMMA RemainsNot ==
  ASSUME NEW s, NEW t, NEW y
  PROVE  Remains(s, 0, t, y) <=> y = <<>>
<1>1. ASSUME y = <<>> PROVE Remains(s, 0, t, y)
  <2> DEFINE at == [k \in 0..0 |-> y]
             types == [k \in 0..0 |-> t]
             S == {t}
  <2>1. /\ at \in [0..0 -> Strings] /\ at[0] = y
        /\ types \in [0..0 -> S] /\ types[0] = t
    BY <1>1, EmptySeq DEF Strings
  <2> HIDE DEF at, types, S
  <2>2. \A k \in 1..0 : FALSE
    OBVIOUS
  <2> QED
    BY <1>1, <2>1, <2>2 DEF Remains
<1>2. ASSUME Remains(s, 0, t, y) PROVE y = <<>>
  BY <1>2 DEF Remains
<1> QED
  BY <1>1, <1>2

(* What is left for one function more, ...                                 *)
LEMMA RemainsPut ==
  ASSUME NEW s, NEW n \in Nat, NEW u, NEW z, Remains(s, n, u, z),
         NEW t, NEW y, Comes(s[n + 1], t, y, z, u)
  PROVE  Remains(s, n + 1, t, y)
<1>1. PICK S : \E types \in [0..n -> S], at \in [0..n -> Strings] :
        /\ types[n] = u /\ at[n] = z /\ at[0] = <<>>
        /\ \A k \in 1..n : Comes(s[k], types[k], at[k], at[k - 1], types[k - 1])
  BY DEF Remains
<1>2. PICK types \in [0..n -> S], at \in [0..n -> Strings] :
        /\ types[n] = u /\ at[n] = z /\ at[0] = <<>>
        /\ \A k \in 1..n : Comes(s[k], types[k], at[k], at[k - 1], types[k - 1])
  BY <1>1
<1> DEFINE l == n + 1
           R == S \union {t}
<1>3. /\ l \in Nat /\ l \notin 0..n /\ 0..l = 0..n \union {l} /\ l - 1 = n /\ 0 \in 0..n
      /\ n \in 0..n /\ l \in 0..l
      /\ 1..l = 1..n \union {l} /\ \A k \in 1..n : k \in 0..n /\ k - 1 \in 0..n
  OBVIOUS
<1>4. t \in R /\ (\A k \in 0..n : types[k] \in R) /\ y \in Strings
  BY DEF Comes
<1>5. Comes(s[l], t, y, z, u)
  OBVIOUS
<1> HIDE DEF l, R
<1> DEFINE newTypes == [k \in 0..l |-> IF k = l THEN t ELSE types[k]]
           newAt == [k \in 0..l |-> IF k = l THEN y ELSE at[k]]
<1>6. /\ newTypes \in [0..l -> R] /\ newTypes[l] = t
      /\ \A k \in 0..n : newTypes[k] = types[k]
  BY <1>3, <1>4
<1>7. /\ newAt \in [0..l -> Strings] /\ newAt[l] = y
      /\ \A k \in 0..n : newAt[k] = at[k]
  BY <1>3, <1>4
<1> HIDE DEF newTypes, newAt
<1>8. ASSUME NEW k \in 1..l
      PROVE  Comes(s[k], newTypes[k], newAt[k], newAt[k - 1], newTypes[k - 1])
  <2>1. CASE k = l
    BY <1>2, <1>3, <1>5, <1>6, <1>7, <2>1
  <2>2. CASE k \in 1..n
    BY <1>2, <1>3, <1>6, <1>7, <2>2
  <2> QED
    BY <1>3, <2>1, <2>2
<1>9. newAt[0] = <<>>
  BY <1>2, <1>3, <1>7
<1>10. Remains(s, l, t, y)
  BY <1>6, <1>7, <1>8, <1>9 DEF Remains
<1> QED
  BY <1>10 DEF l

(* ...and for one less.                                                    *)
LEMMA RemainsTake ==
  ASSUME NEW s, NEW n \in Nat \ {0}, NEW t, NEW y, Remains(s, n, t, y)
  PROVE  \E z, u : Comes(s[n], t, y, z, u) /\ Remains(s, n - 1, u, z)
<1>1. PICK S : \E types \in [0..n -> S], at \in [0..n -> Strings] :
        /\ types[n] = t /\ at[n] = y /\ at[0] = <<>>
        /\ \A k \in 1..n : Comes(s[k], types[k], at[k], at[k - 1], types[k - 1])
  BY DEF Remains
<1>2. PICK types \in [0..n -> S], at \in [0..n -> Strings] :
        /\ types[n] = t /\ at[n] = y /\ at[0] = <<>>
        /\ \A k \in 1..n : Comes(s[k], types[k], at[k], at[k - 1], types[k - 1])
  BY <1>1
<1> DEFINE l == n - 1
<1>3. /\ l \in Nat /\ n \in 1..n /\ l \in 0..l /\ 0 \in 0..l
      /\ (\A k \in 0..l : k \in 0..n)
      /\ \A k \in 1..l : k \in 1..n /\ k \in 0..l /\ k - 1 \in 0..l
  OBVIOUS
<1>4. Comes(s[n], t, y, at[l], types[l])
  BY <1>2, <1>3
<1> HIDE DEF l
<1> DEFINE newTypes == [k \in 0..l |-> types[k]]
           newAt == [k \in 0..l |-> at[k]]
<1>5. /\ newTypes \in [0..l -> S] /\ newAt \in [0..l -> Strings]
      /\ \A k \in 0..l : newTypes[k] = types[k] /\ newAt[k] = at[k]
  BY <1>3
<1> HIDE DEF newTypes, newAt
<1>6. ASSUME NEW k \in 1..l
      PROVE  Comes(s[k], newTypes[k], newAt[k], newAt[k - 1], newTypes[k - 1])
  BY <1>2, <1>3, <1>5
<1>7. newAt[0] = <<>> /\ newAt[l] = at[l] /\ newTypes[l] = types[l]
  BY <1>2, <1>3, <1>5
<1>8. Remains(s, l, types[l], at[l])
  BY <1>5, <1>6, <1>7 DEF Remains
<1> QED
  BY <1>4, <1>8 DEF l

(* What is left depends on the functions alone.                            *)
LEMMA RemainsSame ==
  ASSUME NEW s, NEW r, NEW n \in Nat, NEW t, NEW y, Remains(s, n, t, y),
         \A k \in 1..n : r[k] = s[k]
  PROVE  Remains(r, n, t, y)
BY DEF Remains

-----------------------------------------------------------------------------
(* What follows a phrase.                                                  *)

(* What follows a phrase: what the functions below wait for.               *)
Closing == {")", "]", Comma, Semicolon}
After(kind) ==
  Closing \union (IF kind # "exp" THEN Comparisons ELSE {})
    \union (IF kind \in {"term", "factor"} THEN TermOperators ELSE {})
    \union (IF kind = "factor" THEN FactorOperators ELSE {})

ShowsOneOf(y, toks) == \E k, m : Shows(y, k, m) /\ k.tok \in toks

(* A mark that is shown.                                                   *)
LEMMA ShowsMark ==
  ASSUME NEW y, NEW k, NEW m, Shows(y, Plain(k), m), NEW toks, k \in toks
  PROVE  ShowsOneOf(y, toks)
BY PlainTok DEF ShowsOneOf

(* A loop that has ended, or its next operator.                            *)
LEMMA LoopShows ==
  ASSUME NEW fn \in Loops, NEW a, NEW y, NEW z, NEW b, Continues(fn, a, y, z, b)
  PROVE  (y = z /\ a = b) \/ ShowsOneOf(y, OperatorsOf(fn))
<1>1. CASE \E m \in Strings : \E c : Links(fn, y, m, a, c)
  <2>1. PICK m, c : m \in Strings /\ Links(fn, y, m, a, c)
    BY <1>1
  <2>2. PICK op, k : op \in OperatorsOf(fn) /\ Shows(y, Plain(op), k)
    BY <2>1 DEF Links
  <2> QED
    BY <2>2, ShowsMark
<1> QED
  BY <1>1, ContinuesWith

(* A list has ended, or a comma follows.                                   *)
LEMMA ListShows ==
  ASSUME NEW y, NEW z, ListGoesOn(y, z)
  PROVE  ShowsOneOf(y, {Comma, ")"})
<1>1. PICK m : Continues("write", "none", y, m, "none") /\ Closes(m, z)
  BY DEF ListGoesOn
<1>2. CASE y = m
  BY <1>1, <1>2, ShowsMark DEF Closes
<1>3. CASE \E x \in Strings : \E c : Links("write", y, x, "none", c)
  <2>1. PICK x, c : x \in Strings /\ Links("write", y, x, "none", c)
    BY <1>3
  <2>2. PICK k : Shows(y, Plain(Comma), k)
    BY <2>1 DEF Links, Loops
  <2> QED
    BY <2>2, ShowsMark
<1> QED
  BY <1>1, <1>2, <1>3, ContinuesWith

(* The functions by their kinds.                                           *)
LEMMA FunctionNames ==
  /\ Loops = {"t", "exps"} /\ Inner = {"f", "t", "exps", "exp"}
  /\ Roots = {"paren", "write", "readln", "attr"}
BY DEF Loops, Inner, Roots

(* A function that waits reads nothing more, or what may follow what it    *)
(* waits for.                                                              *)
LEMMA ComesNext ==
  ASSUME NEW f, NEW t, NEW y, NEW z, NEW u, Comes(f, t, y, z, u), Awaits(f)
  PROVE  \/ y = z /\ f.fn \in Inner /\ After(Produces(f.fn)) \subseteq After(Wants(f))
         \/ ShowsOneOf(y, After(Wants(f)))
<1>0. Closing \subseteq After(Wants(f)) /\ ")" \in Closing /\ "]" \in Closing
      /\ Comma \in Closing /\ Semicolon \in Closing
  BY DEF After, Closing
<1>1. CASE f.fn = "f"
  <2>1. f.at \in {"]", "not", ")", "convert)"} /\ FactorComes(f, t, y, z, u)
    BY <1>1 DEF Comes, Fitting, Awaits, Loops
  <2>2. CASE f.at = "not"
    BY <1>1, <2>1, <2>2 DEF FactorComes, Inner, Produces, Wants
  <2>3. CASE f.at # "not"
    BY <1>0, <2>1, <2>3, ShowsMark DEF FactorComes
  <2> QED
    BY <2>2, <2>3
<1>2. CASE f.fn \in Loops
  <2>1. f.at \in {"first", "operand"} /\ LoopComes(f, t, y, z, u)
    BY <1>2 DEF Comes, Fitting, Awaits, Loops
  <2>2. PICK a : Continues(f.fn, a, y, z, u)
    BY <2>1 DEF LoopComes
  <2>3. OperatorsOf(f.fn) \subseteq After(Wants(f))
    BY <1>2 DEF OperatorsOf, After, Wants, Loops
  <2>4. f.fn \in Inner /\ After(Produces(f.fn)) \subseteq After(Wants(f))
    BY <1>2 DEF After, Wants, Produces, Loops, Inner
  <2>5. CASE ShowsOneOf(y, OperatorsOf(f.fn))
    BY <2>3, <2>5 DEF ShowsOneOf
  <2> QED
    BY <1>2, <2>2, <2>4, <2>5, LoopShows
<1>3. CASE f.fn = "exp"
  <2>1. f.at \in {"left", "right"} /\ ExpComes(f, t, y, z, u)
    BY <1>3 DEF Comes, Fitting, Loops
  <2>2. Comparisons \subseteq After(Wants(f)) /\ f.fn \in Inner
        /\ After(Produces(f.fn)) \subseteq After(Wants(f))
    BY <1>3 DEF After, Wants, Produces, Inner
  <2>3. CASE y = z
    BY <2>2, <2>3
  <2>4. CASE y # z
    <3>1. PICK op, m : op \in Comparisons /\ Shows(y, Plain(op), m)
      BY <2>1, <2>4 DEF ExpComes
    <3> QED
      BY <2>2, <3>1, ShowsMark
  <2> QED
    BY <2>3, <2>4
<1>4. CASE f.fn = "paren"
  <2>1. f.at = ")" /\ ParenComes(f, t, y, z)
    BY <1>4 DEF Comes, Fitting, Awaits, Loops
  <2> QED
    BY <1>0, <2>1, ShowsMark DEF ParenComes
<1>5. CASE f.fn = "write"
  <2>1. f.at \in {"first", "next"} /\ WriteComes(f, y, z)
    <3>1. Comma # "]" /\ f.at # Comma /\ f.at # Semicolon
      BY Zenon DEF Comma, Semicolon, Awaits
    <3> QED
      BY <1>5, <3>1 DEF Comes, Fitting, Awaits, Loops
  <2>2. ShowsOneOf(y, {Comma, ")"})
    BY <2>1, ListShows DEF WriteComes
  <2> QED
    BY <1>0, <2>2 DEF ShowsOneOf
<1>6. CASE f.fn = "readln"
  BY <1>6 DEF Awaits
<1>7. CASE f.fn = "attr"
  <2>1. f.at \in {"]", "value"} /\ AttrComes(f, t, y, z)
    BY <1>7 DEF Comes, Fitting, Awaits, Loops
  <2> QED
    BY <1>0, <2>1, ShowsMark DEF AttrComes, Ends
<1> QED
  BY <1>1, <1>2, <1>3, <1>4, <1>5, <1>6, <1>7 DEF Comes, Fitting

(* What is left after what the kth function waits for.                     *)
LEMMA FollowIs ==
  ASSUME StackOK(stack), Linked(stack), NEW c \in 1..Len(stack) - 1, NEW t, NEW y,
         Remains(stack, c, t, y), y # <<>>
  PROVE  ShowsOneOf(y, After(Wants(stack[c])))
<1> DEFINE Fine(k) == \A b, z : Remains(stack, k, b, z) /\ z # <<>>
                                  => ShowsOneOf(z, After(Wants(stack[k])))
           T == {k \in 1..Len(stack) - 1 : ~Fine(k)}
<1>0. Len(stack) \in Nat
  <2>1. PICK S : stack \in Seq(S)
    BY DEF StackOK, IsSeq
  <2> QED
    BY <2>1, LenProperties
<1> SUFFICES ASSUME ~Fine(c) PROVE FALSE
  OBVIOUS
<1>1. c \in T /\ T \subseteq Nat
  BY <1>0
<1>2. PICK k \in T : \A j \in T : k <= j
  <2> HIDE DEF T
  <2> QED
    BY <1>1, Smallest
<1>3. k \in 1..Len(stack) - 1 /\ ~Fine(k)
  OBVIOUS
<1>4. PICK b, z : /\ Remains(stack, k, b, z) /\ z # <<>>
                  /\ ~ShowsOneOf(z, After(Wants(stack[k])))
  BY <1>3
<1>5. k \in Nat \ {0}
  BY <1>0, <1>3
<1>6. PICK x, u : Comes(stack[k], b, z, x, u) /\ Remains(stack, k - 1, u, x)
  BY <1>4, <1>5, RemainsTake
<1>7. Awaits(stack[k]) /\ Wants(stack[k]) = Produces(stack[k + 1].fn)
  BY <1>3 DEF Linked
<1>8. /\ z = x /\ stack[k].fn \in Inner
      /\ After(Produces(stack[k].fn)) \subseteq After(Wants(stack[k]))
  BY <1>4, <1>6, <1>7, ComesNext
<1>9. k # 1
  <2>1. stack[1].fn \in Roots
    BY <1>0, <1>3 DEF StackOK
  <2> QED
    BY <1>8, <2>1 DEF Inner, Roots
<1>10. k - 1 \in 1..Len(stack) - 1 /\ ~(k <= k - 1) /\ (k - 1) + 1 = k
  BY <1>0, <1>3, <1>9
<1>11. Fine(k - 1)
  BY <1>2, <1>10
<1>12. ShowsOneOf(z, After(Wants(stack[k - 1])))
  BY <1>4, <1>6, <1>8, <1>11
<1>13. Wants(stack[k - 1]) = Produces(stack[k].fn)
  BY <1>10 DEF Linked
<1> QED
  BY <1>4, <1>8, <1>12, <1>13 DEF ShowsOneOf

-----------------------------------------------------------------------------
(* The invariant.                                                          *)

(* While no error is found, every command that goes on from what has been  *)
(* read and the next token goes on with what the functions on the stack    *)
(* are left to read.                                                       *)
Foreseen ==
  \A s \in Sentences : \A y, z :
    s.tokens = input \o y /\ Shows(y, entry, z)
      => Remains(stack, Len(stack), ret.type, y)

(* The inductive invariant, together with IInv and MeantInv.               *)
ForeseenInv ==
  /\ status = "running" /\ ~found => Foreseen
  /\ ErrorsAreErrors

-----------------------------------------------------------------------------
(* The tokens of the source are among those of the grammar.                *)
LEMMA TokensInWords == Tokens \subseteq AllTokens /\ Seq(Tokens) \subseteq Strings
<1>1. Tokens \subseteq AllTokens
  BY DEF AllTokens
<1>2. ASSUME NEW s \in Seq(Tokens) PROVE s \in Strings
  BY <1>1, SeqMonotonic DEF Strings
<1> QED
  BY <1>1, <1>2

(* What has been matched is read.                                          *)
LEMMA MatchShows ==
  ASSUME LexInv, NEW tok, Match(tok), NEW w, NEW y, NEW z, w = input' \o y,
         Shows(y, entry', z)
  PROVE  w = input \o (<<entry>> \o y) /\ Shows(<<entry>> \o y, entry, y)
<1>1. input \in Strings /\ entry \in AllTokens /\ y \in Strings
  BY TokensInWords, ShowsOnce DEF LexInv
<1>2. <<entry>> \in Strings
  BY <1>1, OneWord
<1>3. input' = input \o <<entry>>
  BY AppendIsConcat DEF Match, LexInv
<1>4. (input \o <<entry>>) \o y = input \o (<<entry>> \o y)
  BY <1>1, <1>2, Joined2, ZenonT(40)
<1> QED
  BY <1>1, <1>3, <1>4, ShowsAs

(* An error is one if nothing is left that the functions could read.       *)
LEMMA NoBeginning ==
  ASSUME NEW x \in Seq(Tokens), NEW e \in Tokens, NEW s \in Sentences, NEW k \in 0..Len(s.tokens),
         SubSeq(s.tokens, 1, k) = Append(x, e), s.tokens \in Strings
  PROVE  \E y, z : s.tokens = x \o y /\ Shows(y, e, z)
<1> DEFINE w == s.tokens
           n == Len(w)
           z == SubSeq(w, k + 1, n)
<1>1. n \in Nat /\ k \in 0..n /\ w \in Seq(AllTokens)
  BY LenProperties DEF Strings
<1>2. \A i \in 1..n : w[i] \in AllTokens
  BY <1>1, ElementOfSeq
<1> HIDE DEF w, n
<1>3. z \in Strings
  <2>1. k + 1 \in Int /\ n \in Int /\ \A i \in k + 1..n : w[i] \in AllTokens
    BY <1>1, <1>2
  <2> QED
    BY <2>1, SubSeqProperties DEF Strings
<1>4. w = SubSeq(w, 1, k) \o z
  <2>1. w = SubSeq(w, 1, n)
    BY <1>1, SubSeqFull DEF n
  <2>2. SubSeq(w, 1, n) = SubSeq(w, 1, k) \o SubSeq(w, k + 1, n)
    <3>1. 1 \in 1..n + 1 /\ k \in 1 - 1..n /\ n \in k..n
      BY <1>1
    <3>2. 1 \in 1..Len(w) + 1 /\ k \in 1 - 1..Len(w) /\ n \in k..Len(w)
      BY <3>1, Zenon DEF n
    <3> QED
      BY <1>1, <3>2, ConcatAdjacentSubSeq, Zenon
  <2> QED
    BY <2>1, <2>2
<1> HIDE DEF z
<1>5. x \in Strings /\ e \in AllTokens /\ <<e>> \in Strings
  BY TokensInWords, OneWord
<1>6. Append(x, e) = x \o <<e>>
  BY AppendIsConcat
<1>7. w = x \o (<<e>> \o z)
  <2> DEFINE o == <<e>>
  <2>1. o \in Strings
    BY <1>5
  <2> HIDE DEF o
  <2>2. Cat(Cat(x, o), z) = Cat(x, Cat(o, z))
    BY <1>3, <1>5, <2>1, Cats
  <2>3. (x \o o) \o z = x \o (o \o z)
    BY <2>2, Zenon DEF Cat
  <2>4. w = (x \o o) \o z
    BY <1>4, <1>6, Zenon DEF w, o
  <2> QED
    BY <2>3, <2>4, Zenon DEF o
<1>8. Shows(<<e>> \o z, e, z)
  BY <1>3, <1>5, ShowsAs
<1> QED
  BY <1>7, <1>8 DEF w

-----------------------------------------------------------------------------
(* Sentences are what the functions of the commands read.                  *)

(* What the grammar has for the commands.                                  *)
LEMMA GrammarIs ==
  ASSUME NEW kind \in Kinds, NEW k, k <= MaxTokens - 2, NEW p \in Of(Grammar, kind, k)
  PROVE  p.tokens \in Strings /\ Typed(kind, p.tokens, TypeAs(kind, p))
<1> DEFINE m == MaxTokens - 2
<1>1. k \in 1..Len(Levels[m]) /\ p \in Levels[m][k][kind]
  BY DEF Of, Grammar
<1>2. k \in Nat \ {0} /\ m \in Nat /\ k \in 1..m
  <2>1. k \in Int /\ 1 <= k
    <3> DEFINE l == Len(Levels[m])
    <3>1. k \in 1..l
      BY <1>1
    <3> HIDE DEF l
    <3> QED
      BY <3>1
  <2> QED
    BY <2>1, MaxTokensAssumption
<1> HIDE DEF m
<1>3. p \in What(kind, k)
  BY <1>1, <1>2, LevelsStay DEF What
<1>4. p.tokens \in Strings /\ Len(p.tokens) = k
  BY <1>2, <1>3, AllSized DEF Sized
<1> QED
  BY <1>3, <1>4 DEF Typed

(* The expressions of a type.                                              *)
LEMMA ExpsAre ==
  ASSUME NEW k, k <= MaxTokens - 2, NEW type, NEW p \in Exps(k, type)
  PROVE  p.tokens \in Strings /\ Typed("exp", p.tokens, type)
<1>1. p \in Of(Grammar, "exp", k) /\ p.type = type
  BY Zenon DEF Exps, OfType
<1> QED
  BY <1>1, GrammarIs DEF Kinds, TypeAs

(* A set of phrases that is not empty is of no more tokens.                *)
LEMMA ExpsHave ==
  ASSUME NEW k, NEW type, NEW p \in Exps(k, type)
  PROVE  k \in Int /\ 1 <= k
<1> DEFINE l == Len(Grammar)
<1>1. k \in 1..l
  BY DEF Exps, OfType, Of
<1> HIDE DEF l
<1> QED
  BY <1>1

(* The empty string...                                                     *)
LEMMA NothingLeft == <<>> \in Strings /\ \A w \in Strings : w \o <<>> = w
BY EmptySeq, ConcatEmptySeq DEF Strings

(* ...and one token, at the end of a sentence.                             *)
LEMMA OneLeft ==
  ASSUME NEW k \in AllTokens
  PROVE  Shows(<<k>>, k, <<>>) /\ <<k>> \in Strings
<1>1. <<k>> \o <<>> = <<k>>
  BY OneWord, NothingLeft
<1> QED
  BY <1>1, ShowsAs, NothingLeft

(* The tokens are what the function for their first one reads.             *)
Readable(w) ==
  \E k, m : /\ Shows(w, k, m)
            /\ \A f, t, u : f.fn = RootOf(k.tok) /\ f.at = "start"
                              => Comes(f, t, w, <<>>, u)

(* Punctuation is written as it is.                                        *)
LEMMA MarksAre ==
  \A k \in Marking : Plain(k) \in AllTokens /\ Plain(k).tok = k
BY Marks, PlainTok

-----------------------------------------------------------------------------
(* The first token of a sentence tells the function that reads it.         *)
LEMMA ConditionsReadable ==
  ASSUME NEW n \in 1..MaxTokens, NEW s \in Conditions(n)
  PROVE  Readable(s.tokens)
<1> DEFINE l == n - 2
<1>1. l <= MaxTokens - 2
  BY MaxTokensAssumption
<1>2. PICK p \in Exps(n - 2, "logic") :
        s = Sentence(<<Plain("(")>> \o p.tokens \o <<Plain(")")>>,
                     <<Term("test", "logic", <<p.value>>)>>)
  BY Zenon DEF Conditions
<1> HIDE DEF l
<1>3. p.tokens \in Strings /\ Typed("exp", p.tokens, "logic")
  BY <1>1, <1>2, ExpsAre DEF l
<1> DEFINE a == Plain("(")
           b == Plain(")")
           q == p.tokens
<1>4. a \in AllTokens /\ b \in AllTokens /\ a.tok = "("
  BY MarksAre DEF Marking
<1>5. s.tokens = (<<a>> \o q) \o <<b>>
  BY <1>2, PhraseFields, Zenon
<1>6. <<a>> \in Strings /\ <<b>> \in Strings /\ Shows(<<b>>, b, <<>>)
  BY <1>4, OneLeft
<1>7. s.tokens = <<a>> \o (q \o <<b>>) /\ q \o <<b>> \in Strings /\ s.tokens \in Strings
  <2> DEFINE o1 == <<a>>
             c1 == <<b>>
  <2>1. o1 \in Strings /\ c1 \in Strings /\ q \in Strings
    BY <1>3, <1>6
  <2> HIDE DEF o1, c1, q
  <2>2. /\ Cat(Cat(o1, q), c1) = Cat(o1, Cat(q, c1))
        /\ Cat(q, c1) \in Strings /\ Cat(o1, Cat(q, c1)) \in Strings
    BY <2>1, Cats
  <2>3. s.tokens = (o1 \o q) \o c1
    BY <1>5, Zenon DEF o1, c1, q
  <2>4. s.tokens = o1 \o (q \o c1) /\ q \o c1 \in Strings
    BY <2>2, <2>3, Zenon DEF Cat
  <2>5. o1 \o (q \o c1) \in Strings
    BY <2>2, Zenon DEF Cat
  <2> QED
    BY <2>4, <2>5, Zenon DEF o1, c1
<1>8. Shows(s.tokens, a, q \o <<b>>)
  BY <1>4, <1>7, ShowsAs
<1>9. Takes("exp", q \o <<b>>, <<b>>, "logic")
  BY <1>3, <1>6, TakesOne
<1>10. Inside(q \o <<b>>, "logic", ")", <<>>)
  BY <1>6, <1>9 DEF Inside
<1>11. RootOf(a.tok) = "paren"
  BY <1>4 DEF RootOf
<1>12. ASSUME NEW f, f.fn = "paren", f.at = "start", NEW t, NEW u
       PROVE  Comes(f, t, s.tokens, <<>>, u)
  BY <1>7, <1>8, <1>10, <1>12, NothingLeft DEF Comes, Fitting, ParenComes, Loops
<1> QED
  BY <1>8, <1>11, <1>12 DEF Readable

LEMMA OutputsReadable ==
  ASSUME NEW n \in 1..MaxTokens, NEW s \in Outputs(n)
  PROVE  Readable(s.tokens)
<1> DEFINE l == n - 4
           With(v) ==
             {Sentence(<<Plain(v), Plain("(")>> \o m.tokens \o <<Plain(")"), Plain(Semicolon)>>,
                       m.does \o (IF v = "writeln" THEN <<LineFeed>> ELSE <<>>)) :
                m \in Of(Grammar, "list", n - 4)}
<1>1. l <= MaxTokens - 2
  BY MaxTokensAssumption
<1>2. Outputs(n) = UNION {With(v) : v \in Keywords \intersect {"write", "writeln"}}
  BY Zenon DEF Outputs, Semicolon
<1> HIDE DEF With
<1>3. PICK v \in Keywords \intersect {"write", "writeln"} : s \in With(v)
  BY <1>2, Zenon
<1>4. PICK p \in Of(Grammar, "list", n - 4) :
        s = Sentence(<<Plain(v), Plain("(")>> \o p.tokens \o <<Plain(")"), Plain(Semicolon)>>,
                     p.does \o (IF v = "writeln" THEN <<LineFeed>> ELSE <<>>))
  BY <1>3, Zenon DEF With
<1> HIDE DEF l
<1>5. p.tokens \in Strings /\ Typed("list", p.tokens, "none")
  BY <1>1, <1>4, GrammarIs DEF l, Kinds, TypeAs
<1> DEFINE h == Plain(v)
           a == Plain("(")
           b == Plain(")")
           c == Plain(Semicolon)
           q == p.tokens
<1>6. /\ h \in AllTokens /\ a \in AllTokens /\ b \in AllTokens /\ c \in AllTokens
      /\ h.tok = v
  BY <1>3, Marks, PlainTok DEF Marking
<1>7. s.tokens = (<<h, a>> \o q) \o <<b, c>>
  BY <1>4, PhraseFields, Zenon
<1>8. /\ <<h, a>> \in Strings /\ <<b, c>> \in Strings
      /\ \A z \in Strings : Shows(<<h, a>> \o z, h, <<a>> \o z) /\ Shows(<<a>> \o z, a, z)
  BY <1>6, PairIs
<1>9. Shows(<<b, c>>, b, <<c>>) /\ Shows(<<c>>, c, <<>>)
  <2>1. <<b, c>> = <<b>> \o <<c>> /\ <<c>> \in Strings /\ Shows(<<c>>, c, <<>>)
    BY <1>6, PairIs, OneLeft
  <2> QED
    BY <1>6, <2>1, ShowsAs
<1> DEFINE r == q \o <<b, c>>
<1>10. s.tokens = <<h, a>> \o r /\ r \in Strings /\ s.tokens \in Strings
  <2> DEFINE o1 == <<h, a>>
             c1 == <<b, c>>
  <2>1. o1 \in Strings /\ c1 \in Strings /\ q \in Strings
    BY <1>5, <1>8
  <2> HIDE DEF o1, c1, q
  <2>2. /\ Cat(Cat(o1, q), c1) = Cat(o1, Cat(q, c1))
        /\ Cat(q, c1) \in Strings /\ Cat(o1, Cat(q, c1)) \in Strings
    BY <2>1, Cats
  <2>3. s.tokens = (o1 \o q) \o c1
    BY <1>7, Zenon DEF o1, c1, q
  <2>4. s.tokens = o1 \o (q \o c1) /\ q \o c1 \in Strings
    BY <2>2, <2>3, Zenon DEF Cat
  <2>5. o1 \o (q \o c1) \in Strings
    BY <2>2, Zenon DEF Cat
  <2> QED
    BY <2>4, <2>5, Zenon DEF o1, c1
<1>11. Takes("list", r, <<b, c>>, "none")
  BY <1>5, <1>8, TakesOne
<1>12. Closes(<<b, c>>, <<>>)
  BY <1>9 DEF Closes, Ends
<1> HIDE DEF r
<1>13. Shows(s.tokens, h, <<a>> \o r) /\ Shows(<<a>> \o r, a, r)
  BY <1>8, <1>10
<1>14. Lists(<<a>> \o r, <<>>)
  BY <1>11, <1>12, <1>13 DEF Lists
<1>15. RootOf(h.tok) = "write"
  BY <1>3, <1>6 DEF RootOf
<1>16. ASSUME NEW f, f.fn = "write", f.at = "start", NEW t, NEW u
       PROVE  Comes(f, t, s.tokens, <<>>, u)
  <2>1. "start" \notin {"(", "first", "next", Comma, Semicolon}
    BY Punctuation DEF Places
  <2>2. WriteComes(f, s.tokens, <<>>)
    BY <1>13, <1>14, <1>16, <2>1 DEF WriteComes
  <2> QED
    BY <1>10, <1>16, <2>2, NothingLeft DEF Comes, Fitting, Loops
<1> QED
  BY <1>13, <1>15, <1>16 DEF Readable

LEMMA InputsReadable ==
  ASSUME NEW n \in 1..MaxTokens, NEW s \in Inputs(n)
  PROVE  Readable(s.tokens)
<1>1. Inputs(n) = {Sentence(<<Plain("readln"), Plain("("), u, Plain(")"), Plain(Semicolon)>>,
                            <<InputTo(u)>>) : u \in IF n = 5 THEN Variables ELSE {}}
  BY Zenon DEF Inputs, InputTo, Semicolon
<1>2. PICK v \in IF n = 5 THEN Variables ELSE {} :
        s = Sentence(<<Plain("readln"), Plain("("), v, Plain(")"), Plain(Semicolon)>>,
                     <<InputTo(v)>>)
  BY <1>1, Zenon
<1>3. v \in Variables
  OBVIOUS
<1> DEFINE h == Plain("readln")
           a == Plain("(")
           b == Plain(")")
           c == Plain(Semicolon)
<1>4. /\ h \in AllTokens /\ a \in AllTokens /\ b \in AllTokens /\ c \in AllTokens
      /\ h.tok = "readln"
  BY Marks, PlainTok DEF Marking
<1>5. v \in AllTokens
  BY <1>3, TokensInWords, Words DEF Variables
<1>6. s.tokens = ((<<h, a>> \o <<v>>) \o <<b>>) \o <<c>>
  <2>1. s.tokens = <<h, a, v, b, c>>
    BY <1>2, PhraseFields, ZenonT(40)
  <2>2. InARow(h, a, v, b, c)
    BY <1>4, <1>5, Rows
  <2> HIDE DEF h, a, b, c
  <2> QED
    BY <2>1, <2>2, Zenon DEF InARow
<1> HIDE DEF h, a, b, c
<1>7. /\ <<h, a>> \in Strings /\ <<v>> \in Strings /\ <<b>> \in Strings /\ <<c>> \in Strings
      /\ \A z \in Strings : Shows(<<h, a>> \o z, h, <<a>> \o z) /\ Shows(<<a>> \o z, a, z)
  BY <1>4, <1>5, PairIs, OneWord
<1> DEFINE x == <<b>> \o <<c>>
           y == <<v>> \o x
<1>8. x \in Strings /\ y \in Strings
  BY <1>7, Joined2
<1>9. s.tokens = <<h, a>> \o y /\ s.tokens \in Strings
  <2>1. \A z \in Strings : (<<h, a>> \o <<v>>) \o z = <<h, a>> \o (<<v>> \o z)
    BY <1>7, Joined2
  <2>2. <<h, a>> \o <<v>> \in Strings
    BY <1>7, Joined2
  <2>3. s.tokens = (<<h, a>> \o <<v>>) \o x
    BY <1>6, <1>7, <2>2, Joined2
  <2>4. s.tokens = <<h, a>> \o y
    BY <1>8, <2>1, <2>3
  <2> QED
    BY <1>7, <1>8, <2>4, Joined2
<1>10. Shows(y, v, x) /\ Shows(x, b, <<c>>) /\ Shows(<<c>>, c, <<>>)
  BY <1>4, <1>5, <1>7, <1>8, ShowsAs, OneLeft
<1> HIDE DEF x, y
<1>11. Shows(s.tokens, h, <<a>> \o y) /\ Shows(<<a>> \o y, a, y)
  BY <1>7, <1>8, <1>9
<1>12. NameComes(y, <<>>)
  BY <1>3, <1>10 DEF NameComes, Closes, Ends, b, c
<1>13. RootOf(h.tok) = "readln"
  BY <1>4 DEF RootOf
<1>14. ASSUME NEW f, f.fn = "readln", f.at = "start", NEW t, NEW u
       PROVE  Comes(f, t, s.tokens, <<>>, u)
  <2>1. "start" \notin {"(", "id", ")", Semicolon}
    BY Punctuation DEF Places
  <2>2. ReadComes(f, s.tokens, <<>>)
    BY <1>11, <1>12, <1>14, <2>1 DEF ReadComes, h, a
  <2> QED
    BY <1>9, <1>14, <2>2, NothingLeft DEF Comes, Fitting, Loops
<1> QED
  BY <1>11, <1>13, <1>14 DEF Readable

LEMMA AssignmentsReadable ==
  ASSUME NEW n \in 1..MaxTokens, NEW s \in Assignments(n)
  PROVE  Readable(s.tokens)
<1> DEFINE l == n - 3
           To(u) == {Sentence(<<u, Plain(":=")>> \o q.tokens \o <<Plain(Semicolon)>>,
                              <<Assign(u, q.value)>>) : q \in Exps(n - 3, u.type)}
<1>1. l <= MaxTokens - 2
  BY MaxTokensAssumption
<1>2. Assignments(n) = UNION {To(u) : u \in Variables}
  BY Zenon DEF Assignments, Semicolon
<1> HIDE DEF To
<1>3. PICK v \in Variables : s \in To(v)
  BY <1>2, Zenon
<1>4. PICK p \in Exps(n - 3, v.type) :
        s = Sentence(<<v, Plain(":=")>> \o p.tokens \o <<Plain(Semicolon)>>,
                     <<Assign(v, p.value)>>)
  BY <1>3, Zenon DEF To
<1> HIDE DEF l
<1>5. p.tokens \in Strings /\ Typed("exp", p.tokens, v.type)
  BY <1>1, <1>4, ExpsAre DEF l
<1> DEFINE a == Plain(":=")
           c == Plain(Semicolon)
           q == p.tokens
<1>6. v \in AllTokens /\ a \in AllTokens /\ c \in AllTokens /\ v.tok = "identifier"
  BY Marks, TokensInWords, Words, SymbolsAssumption DEF Marking, Variables
<1>7. s.tokens = (<<v, a>> \o q) \o <<c>>
  BY <1>4, PhraseFields, Zenon
<1>8. /\ <<v, a>> \in Strings /\ <<c>> \in Strings /\ Shows(<<c>>, c, <<>>)
      /\ \A z \in Strings : Shows(<<v, a>> \o z, v, <<a>> \o z) /\ Shows(<<a>> \o z, a, z)
  BY <1>6, PairIs, OneLeft
<1> DEFINE r == q \o <<c>>
<1>9. s.tokens = <<v, a>> \o r /\ r \in Strings /\ s.tokens \in Strings
  <2> DEFINE o1 == <<v, a>>
             c1 == <<c>>
  <2>1. o1 \in Strings /\ c1 \in Strings /\ q \in Strings
    BY <1>5, <1>8
  <2> HIDE DEF o1, c1, q
  <2>2. /\ Cat(Cat(o1, q), c1) = Cat(o1, Cat(q, c1))
        /\ Cat(q, c1) \in Strings /\ Cat(o1, Cat(q, c1)) \in Strings
    BY <2>1, Cats
  <2>3. s.tokens = (o1 \o q) \o c1
    BY <1>7, Zenon DEF o1, c1, q
  <2>4. s.tokens = o1 \o (q \o c1) /\ q \o c1 \in Strings
    BY <2>2, <2>3, Zenon DEF Cat
  <2>5. o1 \o (q \o c1) \in Strings
    BY <2>2, Zenon DEF Cat
  <2> QED
    BY <2>4, <2>5, Zenon DEF o1, c1
<1>10. Takes("exp", r, <<c>>, v.type)
  BY <1>5, <1>8, TakesOne
<1> HIDE DEF r
<1>11. Shows(s.tokens, v, <<a>> \o r) /\ Shows(<<a>> \o r, a, r)
  BY <1>8, <1>9
<1>12. TargetComes(v, <<a>> \o r, <<>>)
  BY <1>8, <1>10, <1>11 DEF TargetComes, ValueComes, Ends
<1>13. RootOf(v.tok) = "attr"
  BY <1>6 DEF RootOf
<1>14. ASSUME NEW f, f.fn = "attr", f.at = "start", NEW t, NEW u
       PROVE  Comes(f, t, s.tokens, <<>>, u)
  BY <1>3, <1>9, <1>11, <1>12, <1>14, NothingLeft DEF Comes, Fitting, AttrComes, Loops
<1> QED
  BY <1>11, <1>13, <1>14 DEF Readable

LEMMA UpdatesReadable ==
  ASSUME NEW n \in 1..MaxTokens, NEW j, NEW s \in Updates(n, j)
  PROVE  Readable(s.tokens)
<1> DEFINE At1(x, y) ==
             {Sentence(<<x, Plain("[")>> \o y.tokens \o <<Plain("]"), Plain(":=")>>
                         \o q.tokens \o <<Plain(Semicolon)>>,
                       <<Assign(x, Term("update", "string",
                                        <<Leaf(x), y.value, q.value>>))>>) :
                q \in Exps(n - 5 - j, "char")}
           Of1(x) == UNION {At1(x, y) : y \in Exps(j, "int")}
<1>1. Updates(n, j) = UNION {Of1(x) : x \in OfType(Variables, "string")}
  BY Zenon DEF Updates, Semicolon
<1> HIDE DEF Of1
<1>2. PICK v \in OfType(Variables, "string") : s \in Of1(v)
  BY <1>1, Zenon
<1> USE DEF Of1
<1> HIDE DEF At1
<1>3. PICK i \in Exps(j, "int") : s \in At1(v, i)
  BY <1>2, Zenon
<1> USE DEF At1
<1>4. PICK p \in Exps(n - 5 - j, "char") :
        s = Sentence(<<v, Plain("[")>> \o i.tokens \o <<Plain("]"), Plain(":=")>>
                       \o p.tokens \o <<Plain(Semicolon)>>,
                     <<Assign(v, Term("update", "string",
                                      <<Leaf(v), i.value, p.value>>))>>)
  BY <1>3, Zenon
<1> HIDE DEF At1, Of1
<1> DEFINE l == n - 5 - j
<1>5. j <= MaxTokens - 2 /\ l <= MaxTokens - 2
  <2>1. j \in Int /\ 1 <= j
    BY <1>3, ExpsHave
  <2>2. l \in Int /\ 1 <= l
    BY <1>4, ExpsHave
  <2> QED
    BY <2>1, <2>2, MaxTokensAssumption
<1> HIDE DEF l
<1>6. p.tokens \in Strings /\ Typed("exp", p.tokens, "char")
  BY <1>4, <1>5, ExpsAre DEF l
<1>7. i.tokens \in Strings /\ Typed("exp", i.tokens, "int")
  BY <1>3, <1>5, ExpsAre
<1>8. v \in Variables /\ v.type = "string"
  BY <1>2, Zenon DEF OfType
<1> DEFINE a == Plain("[")
           b == Plain("]")
           d == Plain(":=")
           c == Plain(Semicolon)
           q == p.tokens
           o == i.tokens
<1>9. /\ v \in AllTokens /\ a \in AllTokens /\ b \in AllTokens /\ c \in AllTokens
      /\ d \in AllTokens /\ v.tok = "identifier"
  BY <1>8, Marks, TokensInWords, Words, SymbolsAssumption DEF Marking, Variables
<1>10. s.tokens = (((<<v, a>> \o o) \o <<b, d>>) \o q) \o <<c>>
  BY <1>4, PhraseFields, Zenon
<1>11. /\ <<v, a>> \in Strings /\ <<c>> \in Strings /\ Shows(<<c>>, c, <<>>)
       /\ <<b, d>> \in Strings
       /\ \A z \in Strings : Shows(<<v, a>> \o z, v, <<a>> \o z) /\ Shows(<<a>> \o z, a, z)
       /\ \A z \in Strings : Shows(<<b, d>> \o z, b, <<d>> \o z) /\ Shows(<<d>> \o z, d, z)
  BY <1>9, PairIs, OneLeft
<1> DEFINE r == q \o <<c>>
           x == <<b, d>> \o r
           y == o \o x
<1>12. r \in Strings /\ x \in Strings /\ y \in Strings
  BY <1>6, <1>7, <1>11, Joined2
<1>13. s.tokens = <<v, a>> \o y /\ s.tokens \in Strings
  <2> DEFINE o1 == <<v, a>>
             c1 == <<b, d>>
             e1 == <<c>>
  <2>1. /\ o1 \in Strings /\ c1 \in Strings /\ e1 \in Strings /\ q \in Strings
        /\ o \in Strings
    BY <1>6, <1>7, <1>11
  <2> HIDE DEF o1, c1, e1, q, o, r, x, y
  <2>2. /\ Cat(Cat(Cat(Cat(o1, o), c1), q), e1) = Cat(o1, Cat(o, Cat(c1, Cat(q, e1))))
        /\ Cat(o1, Cat(o, Cat(c1, Cat(q, e1)))) \in Strings
    <3> DEFINE g == Cat(o1, o)
               h == Cat(g, c1)
               k == Cat(q, e1)
               m == Cat(c1, k)
    <3>1. g \in Strings /\ k \in Strings
      BY <2>1, Cats
    <3> HIDE DEF g, k
    <3>2. h \in Strings /\ m \in Strings /\ Cat(h, k) = Cat(g, m)
      BY <2>1, <3>1, Cats
    <3> HIDE DEF h
    <3>3. Cat(Cat(h, q), e1) = Cat(h, k)
      BY <2>1, <3>2, Cats DEF k
    <3> HIDE DEF m
    <3>4. Cat(g, m) = Cat(o1, Cat(o, m)) /\ Cat(o1, Cat(o, m)) \in Strings
      BY <2>1, <3>2, Cats DEF g
    <3> QED
      BY <3>2, <3>3, <3>4, Zenon DEF g, h, k, m
  <2>3. s.tokens = (((o1 \o o) \o c1) \o q) \o e1
    BY <1>10, Zenon DEF o1, c1, e1, q, o
  <2>4. s.tokens = Cat(o1, Cat(o, Cat(c1, Cat(q, e1))))
    BY <2>2, <2>3, Zenon DEF Cat
  <2>5. s.tokens \in Strings
    BY <2>2, <2>4
  <2>6. s.tokens = o1 \o (o \o (c1 \o (q \o e1)))
    BY <2>4, Zenon DEF Cat
  <2> QED
    BY <2>5, <2>6, Zenon DEF o1, c1, e1, q, o, r, x, y
<1>14. Takes("exp", r, <<c>>, "char") /\ Takes("exp", y, x, "int")
  BY <1>6, <1>7, <1>11, <1>12, TakesOne
<1>15. Shows(x, b, <<d>> \o r) /\ Shows(<<d>> \o r, d, r)
  BY <1>11, <1>12
<1> HIDE DEF r, x, y
<1>16. Shows(s.tokens, v, <<a>> \o y) /\ Shows(<<a>> \o y, a, y)
  BY <1>11, <1>12, <1>13
<1>17. ValueComes(<<d>> \o r, <<>>, "char") /\ Inside(y, "int", "]", <<d>> \o r)
  BY <1>11, <1>14, <1>15 DEF ValueComes, Ends, Inside
<1>18. TargetComes(v, <<a>> \o y, <<>>)
  BY <1>8, <1>16, <1>17 DEF TargetComes
<1>19. RootOf(v.tok) = "attr"
  BY <1>9 DEF RootOf
<1>20. ASSUME NEW f, f.fn = "attr", f.at = "start", NEW t, NEW u
       PROVE  Comes(f, t, s.tokens, <<>>, u)
  BY <1>8, <1>13, <1>16, <1>18, <1>20, NothingLeft DEF Comes, Fitting, AttrComes, Loops
<1> QED
  BY <1>16, <1>19, <1>20 DEF Readable

(* So it is for all sentences.                                             *)
LEMMA AllReadable == \A s \in Sentences : Readable(s.tokens) /\ s.tokens \in Strings
<1> SUFFICES ASSUME NEW s \in Sentences PROVE Readable(s.tokens) /\ s.tokens \in Strings
  OBVIOUS
<1>1. PICK n \in 1..MaxTokens : s \in CommandsOf(n)
  BY Zenon DEF Sentences
<1>2. \/ s \in Conditions(n) \/ s \in Outputs(n) \/ s \in Inputs(n) \/ s \in Assignments(n)
      \/ \E j \in 1..n : s \in Updates(n, j)
  BY <1>1, Zenon DEF CommandsOf
<1>3. Readable(s.tokens)
  BY <1>2, ConditionsReadable, OutputsReadable, InputsReadable, AssignmentsReadable,
     UpdatesReadable
<1> QED
  BY <1>3, ShowsOnce DEF Readable

-----------------------------------------------------------------------------
(* What a step does to what is left.                                       *)

(* What the innermost function reads of the tokens y, up to z, if those    *)
(* below it go on from there, and what is left after a step.               *)
Awaited(y, z, u) ==
  Comes(Top, ret.type, y, z, u) /\ Remains(stack, Len(stack) - 1, u, z)
Then(y) == Remains(stack', Len(stack'), ret'.type, y)

(* A sentence that goes on is awaited by the innermost function.           *)
LEMMA ForeseenAwaits ==
  ASSUME IInv, ForeseenInv, status = "running", ~found,
         NEW s \in Sentences, NEW y, NEW m, s.tokens = input \o y, Shows(y, entry, m)
  PROVE  \E z, u : Awaited(y, z, u)
<1>1. Len(stack) \in Nat \ {0}
  BY TopFacts
<1>2. Remains(stack, Len(stack), ret.type, y)
  BY DEF ForeseenInv, Foreseen
<1>3. \E z, u : Comes(stack[Len(stack)], ret.type, y, z, u)
                  /\ Remains(stack, Len(stack) - 1, u, z)
  BY <1>1, <1>2, RemainsTake
<1> QED
  BY <1>3 DEF Awaited, Top

(* The grammar does not change.                                            *)
LEMMA SameSentences == Sentences' = Sentences /\ Beginnings' = Beginnings
OBVIOUS

(* A step that takes a token...                                            *)
LEMMA MatchForesees ==
  ASSUME IInv, ForeseenInv, status = "running", status' = status, NEW tok, Match(tok),
         \A y, m, z, u : Shows(y, entry, m) /\ Awaited(y, z, u) => Then(m)
  PROVE  ForeseenInv'
<1>1. Foreseen'
  <2> SUFFICES ASSUME NEW s \in Sentences, NEW y, NEW z, s.tokens = input' \o y,
                      Shows(y, entry', z)
               PROVE  Then(y)
    BY SameSentences DEF Foreseen, Then
  <2> DEFINE x == <<entry>> \o y
  <2>1. s.tokens = input \o x /\ Shows(x, entry, y)
    BY MatchShows DEF IInv
  <2> HIDE DEF x
  <2>2. \E w, u : Awaited(x, w, u)
    BY <2>1, ForeseenAwaits DEF Match
  <2> QED
    BY <2>1, <2>2
<1> QED
  BY <1>1 DEF ForeseenInv, ErrorsAreErrors

(* ...and one that takes none.                                             *)
LEMMA StayForesees ==
  ASSUME IInv, ForeseenInv, status = "running", status' = status, UNCHANGED lexVars,
         \A y, m, z, u : Shows(y, entry, m) /\ Awaited(y, z, u) => Then(y)
  PROVE  ForeseenInv'
<1>0. entry' = entry /\ found' = found /\ input' = input
  BY DEF lexVars
<1>1. ASSUME ~found PROVE Foreseen'
  <2> SUFFICES ASSUME NEW s \in Sentences, NEW y, NEW z, s.tokens = input \o y,
                      Shows(y, entry, z)
               PROVE  Then(y)
    BY <1>0, SameSentences DEF Foreseen, Then
  <2>2. \E w, u : Awaited(y, w, u)
    BY <1>1, ForeseenAwaits
  <2> QED
    BY <2>2
<1> QED
  BY <1>0, <1>1 DEF ForeseenInv, ErrorsAreErrors

(* An error is reported when the functions could not read what follows.    *)
LEMMA MatchRejects ==
  ASSUME IInv, ForeseenInv, status = "running", status' = "mismatch", NEW tok, Match(tok),
         \A y, m, z, u : ~(Shows(y, entry, m) /\ Awaited(y, z, u))
  PROVE  ForeseenInv'
<1>1. ASSUME ~found', Append(input', entry') \in Beginnings PROVE FALSE
  <2>1. PICK s \in Sentences : Append(input', entry')
                                 \in {SubSeq(s.tokens, 1, k) : k \in 0..Len(s.tokens)}
    BY <1>1 DEF Beginnings
  <2>2. PICK k \in 0..Len(s.tokens) : SubSeq(s.tokens, 1, k) = Append(input', entry')
    BY <2>1
  <2>3. s.tokens \in Strings
    BY AllReadable
  <2>4. LexInv'
    BY Lexes DEF IInv
  <2>5. \E y, z : s.tokens = input' \o y /\ Shows(y, entry', z)
    BY <2>2, <2>3, <2>4, NoBeginning DEF LexInv
  <2>6. PICK y, z : s.tokens = input' \o y /\ Shows(y, entry', z)
    BY <2>5
  <2> DEFINE x == <<entry>> \o y
  <2>7. s.tokens = input \o x /\ Shows(x, entry, y)
    BY <2>6, MatchShows DEF IInv
  <2> HIDE DEF x
  <2> QED
    BY <2>7, ForeseenAwaits DEF Match
<1> QED
  BY <1>1, SameSentences DEF ForeseenInv, ErrorsAreErrors

(* The same without taking a token.                                        *)
LEMMA StayRejects ==
  ASSUME IInv, ForeseenInv, status = "running", status' = "mismatch", UNCHANGED lexVars,
         \A y, m, z, u : ~(Shows(y, entry, m) /\ Awaited(y, z, u))
  PROVE  ForeseenInv'
<1>0. entry' = entry /\ found' = found /\ input' = input
  BY DEF lexVars
<1>1. ASSUME ~found, Append(input, entry) \in Beginnings PROVE FALSE
  <2>1. PICK s \in Sentences : Append(input, entry)
                                 \in {SubSeq(s.tokens, 1, k) : k \in 0..Len(s.tokens)}
    BY <1>1 DEF Beginnings
  <2>2. PICK k \in 0..Len(s.tokens) : SubSeq(s.tokens, 1, k) = Append(input, entry)
    BY <2>1
  <2>3. s.tokens \in Strings
    BY AllReadable
  <2>4. PICK y, z : s.tokens = input \o y /\ Shows(y, entry, z)
    BY <2>2, <2>3, NoBeginning DEF IInv, LexInv
  <2> QED
    BY <1>1, <2>4, ForeseenAwaits
<1> QED
  BY <1>0, <1>1, SameSentences DEF ForeseenInv, ErrorsAreErrors

(* A command that ends reports no error of types.                          *)
LEMMA EndForesees ==
  ASSUME status' \notin {"running", "mismatch"}
  PROVE  ForeseenInv'
BY DEF ForeseenInv, ErrorsAreErrors

LEMMA FailForesees == ASSUME Fail PROVE ForeseenInv'
BY EndForesees DEF Fail

-----------------------------------------------------------------------------
(* What is left when the innermost function goes on, ...                   *)
LEMMA ResumeLeaves ==
  ASSUME IInv, status = "running", NEW f, stack' = Resume(f), NEW y, NEW z, NEW u,
         Comes(f, ret'.type, y, z, u), Remains(stack, Len(stack) - 1, u, z)
  PROVE  Then(y)
<1> DEFINE n == Len(stack)
           l == n - 1
<1>1. /\ stack # <<>> /\ IsSeq(stack) /\ n \in Nat \ {0}
  BY TopFacts
<1>2. Len(stack') = n /\ (\A i \in 1..n - 1 : stack'[i] = stack[i]) /\ stack'[n] = f
  BY <1>1, Resumed DEF Resume, Pop
<1>3. l \in Nat /\ l + 1 = n
  BY <1>1
<1>4. Remains(stack, l, u, z) /\ \A i \in 1..l : stack'[i] = stack[i]
  BY <1>2
<1>5. Comes(stack'[l + 1], ret'.type, y, z, u)
  BY <1>2, <1>3
<1>6. Len(stack') = l + 1
  BY <1>2, <1>3
<1> HIDE DEF n, l
<1>7. Remains(stack', l, u, z)
  BY <1>3, <1>4, RemainsSame
<1>8. Remains(stack', l + 1, ret'.type, y)
  BY <1>3, <1>5, <1>7, RemainsPut
<1> QED
  BY <1>6, <1>8 DEF Then

(* ...when it returns, ...                                                 *)
LEMMA ReturnLeaves ==
  ASSUME IInv, status = "running", Len(stack) > 1, stack' = Pop, NEW y,
         Remains(stack, Len(stack) - 1, ret'.type, y)
  PROVE  Then(y)
<1> DEFINE n == Len(stack)
           l == n - 1
<1>1. IsSeq(stack) /\ n \in Nat \ {0}
  BY TopFacts
<1>2. Len(stack') = l /\ (\A i \in 1..l : stack'[i] = stack[i])
  BY <1>1, Popped DEF Pop
<1>3. l \in Nat /\ Remains(stack, l, ret'.type, y)
  BY <1>1
<1> HIDE DEF n, l
<1>4. Remains(stack', l, ret'.type, y)
  BY <1>2, <1>3, RemainsSame
<1> QED
  BY <1>2, <1>4 DEF Then

-----------------------------------------------------------------------------
(* ...and when it calls another.                                           *)
LEMMA CallComes ==
  ASSUME NEW c \in Calls, NEW t, NEW y, NEW z, NEW u, Takes(Produces(c[1].fn), y, z, u)
  PROVE  /\ IsSeq(c) /\ Len(c) \in {1, 2}
         /\ Len(c) = 1 => Comes(c[1], t, y, z, u)
         /\ Len(c) = 2 => \E m, a : Comes(c[2], t, y, m, a) /\ Comes(c[1], a, m, z, u)
<1> DEFINE f == Frame("f", "start")
           p == Frame("t", "first")
           s == Frame("exps", "sign")
           x == Frame("exp", "left")
<1>1. /\ f.fn = "f" /\ f.at = "start" /\ p.fn = "t" /\ p.at = "first" /\ p.op = "none"
      /\ s.fn = "exps" /\ s.at = "sign" /\ s.op = "none" /\ x.fn = "exp" /\ x.at = "left"
  BY FrameFacts
<1> HIDE DEF f, p, s, x
<1>2. CallF = <<f>> /\ CallExps = <<s>> /\ CallT = <<p, f>> /\ CallExp = <<x, s>>
  <2>1. CallF = <<f>> /\ CallExps = <<s>>
    BY DEF CallF, CallExps, f, s
  <2>2. CallT = <<p>> \o <<f>> /\ CallExp = <<x>> \o <<s>>
    BY <2>1 DEF CallT, CallExp, p, x
  <2> QED
    BY <2>1, <2>2, Joined
<1>3. IsSeq(c) /\ y \in Strings /\ z \in Strings
  BY CallFrames, TakesWords
<1>4. ASSUME NEW b, NEW k, Takes("factor", y, k, b) PROVE Comes(f, t, y, k, b)
  <2>1. FactorComes(f, t, y, k, b) /\ Fitting(f)
    BY <1>1, <1>4 DEF FactorComes, Fitting
  <2> QED
    BY <1>1, <1>4, <2>1, TakesWords DEF Comes, Loops
<1>5. ASSUME NEW b, NEW k, Takes("sum", y, k, b) PROVE Comes(s, t, y, k, b)
  <2>1. LoopComes(s, t, y, k, b) /\ Fitting(s)
    BY <1>1, <1>5 DEF LoopComes, Fitting, Loops
  <2> QED
    BY <1>1, <1>5, <2>1, TakesWords DEF Comes, Loops
<1>6. CASE c = <<f>>
  <2>1. Takes("factor", y, z, u)
    BY <1>1, <1>6 DEF Produces
  <2> QED
    BY <1>3, <1>4, <1>6, <2>1
<1>7. CASE c = <<s>>
  <2>1. Takes("sum", y, z, u)
    BY <1>1, <1>7 DEF Produces
  <2> QED
    BY <1>3, <1>5, <1>7, <2>1
<1>8. CASE c = <<p, f>>
  <2>1. Takes("term", y, z, u)
    BY <1>1, <1>8 DEF Produces
  <2>2. PICK m, a : m \in Strings /\ Starts("t", y, m, a) /\ Continues("t", a, m, z, u)
    BY <2>1, Divides DEF Divided, LoopOf
  <2>3. Takes("factor", y, m, a)
    BY <2>2 DEF Starts
  <2>4. LoopComes(p, a, m, z, u) /\ Fitting(p)
    BY <1>1, <2>2 DEF LoopComes, Fitting, Loops
  <2>5. Comes(p, a, m, z, u)
    BY <1>1, <1>3, <2>2, <2>4 DEF Comes, Loops
  <2>6. Comes(f, t, y, m, a)
    BY <1>4, <2>3
  <2>7. c[1] = p /\ c[2] = f /\ Len(c) = 2
    BY <1>8
  <2> QED
    BY <1>3, <2>5, <2>6, <2>7
<1>9. CASE c = <<x, s>>
  <2>1. Takes("exp", y, z, u)
    BY <1>1, <1>9 DEF Produces
  <2>2. c[1] = x /\ c[2] = s /\ Len(c) = 2
    BY <1>9
  <2>3. CASE Takes("sum", y, z, u)
    <3>1. ExpComes(x, u, z, z, u) /\ Fitting(x)
      BY <1>1 DEF ExpComes, Fitting
    <3>2. Comes(x, u, z, z, u)
      BY <1>1, <1>3, <3>1 DEF Comes, Loops
    <3> QED
      BY <1>3, <1>5, <2>2, <2>3, <3>2
  <2>4. CASE Compared(y, z, u)
    <3>1. PICK op \in Comparisons : \E m, k, a, b :
            /\ Takes("sum", y, m, a) /\ Shows(m, Plain(op), k)
            /\ Takes("sum", k, z, b) /\ Joins(op, a, b)
      BY <2>4 DEF Compared
    <3>2. PICK m, k, a, b :
            /\ Takes("sum", y, m, a) /\ Shows(m, Plain(op), k)
            /\ Takes("sum", k, z, b) /\ Joins(op, a, b)
      BY <3>1
    <3>3. u = "logic" /\ m \in Strings
      BY <2>4, <3>2, TakesWords DEF Compared
    <3>4. ExpComes(x, a, m, z, u) /\ Fitting(x)
      BY <1>1, <3>2, <3>3 DEF ExpComes, Fitting
    <3>5. Comes(x, a, m, z, u)
      BY <1>1, <1>3, <3>3, <3>4 DEF Comes, Loops
    <3> QED
      BY <1>3, <1>5, <2>2, <3>2, <3>5
  <2> QED
    BY <2>1, <2>3, <2>4, ExpIs
<1> QED
  BY <1>2, <1>6, <1>7, <1>8, <1>9 DEF Calls

(* The functions that are called, and the one that waits.                  *)
LEMMA CallLeaves ==
  ASSUME IInv, status = "running", NEW f, NEW c \in Calls, stack' = Resume(f) \o c,
         NEW y, NEW m, NEW z, NEW t, NEW u,
         Takes(Produces(c[1].fn), y, m, t),
         Comes(f, t, m, z, u), Remains(stack, Len(stack) - 1, u, z)
  PROVE  Then(y)
<1> DEFINE n == Len(stack)
           l == n - 1
           r == Resume(f)
           s == stack'
<1>1. stack # <<>> /\ IsSeq(stack) /\ n \in Nat \ {0}
  BY TopFacts
<1>2. /\ IsSeq(r) /\ Len(r) = n /\ (\A i \in 1..n - 1 : r[i] = stack[i]) /\ r[n] = f
  BY <1>1, Resumed DEF Resume, Pop
<1>3. /\ IsSeq(c) /\ Len(c) \in {1, 2}
      /\ Len(c) = 1 => Comes(c[1], ret'.type, y, m, t)
      /\ Len(c) = 2 => \E k, a : Comes(c[2], ret'.type, y, k, a) /\ Comes(c[1], a, k, m, t)
  BY CallComes
<1>4. s = r \o c
  OBVIOUS
<1> HIDE DEF r, s
<1>5. /\ Len(s) = n + Len(c) /\ (\A i \in 1..n : s[i] = r[i])
      /\ \A i \in 1..Len(c) : s[n + i] = c[i]
  <2>1. IsSeq(r) /\ IsSeq(c) /\ s = r \o c
    BY <1>2, <1>3, <1>4
  <2>2. Len(s) = Len(r) + Len(c)
    BY <2>1, Pushed
  <2>3. \A i \in 1..Len(r) : s[i] = r[i]
    BY <2>1, Pushed
  <2>4. \A i \in 1..Len(c) : s[Len(r) + i] = c[i]
    BY <2>1, Pushed
  <2> QED
    BY <1>2, <2>2, <2>3, <2>4
<1>6. l \in Nat /\ l + 1 = n /\ n \in Nat /\ (\A i \in 1..l : s[i] = stack[i]) /\ s[l + 1] = f
      /\ n + 1 \in Nat
  BY <1>1, <1>2, <1>5
<1>7. Remains(stack, l, u, z)
  OBVIOUS
<1> HIDE DEF l
<1>8. Remains(s, l, u, z)
  BY <1>6, <1>7, RemainsSame
<1>9. Remains(s, l + 1, t, m)
  BY <1>6, <1>8, RemainsPut
<1>10. Remains(s, n, t, m)
  BY <1>6, <1>9
<1> HIDE DEF n
<1>11. CASE Len(c) = 1
  <2>1. s[n + 1] = c[1] /\ Len(s) = n + 1
    BY <1>5, <1>11
  <2>2. Remains(s, n + 1, ret'.type, y)
    BY <1>3, <1>6, <1>10, <1>11, <2>1, RemainsPut
  <2> QED
    BY <2>1, <2>2 DEF Then, s
<1>12. CASE Len(c) = 2
  <2> DEFINE o == n + 1
  <2>1. s[n + 1] = c[1] /\ s[o + 1] = c[2] /\ Len(s) = o + 1 /\ o \in Nat
    BY <1>5, <1>6, <1>12
  <2>2. PICK k, a : Comes(c[2], ret'.type, y, k, a) /\ Comes(c[1], a, k, m, t)
    BY <1>3, <1>12
  <2>3. Remains(s, n + 1, a, k)
    BY <1>6, <1>10, <2>1, <2>2, RemainsPut
  <2>4. Remains(s, o, a, k)
    BY <2>3
  <2> HIDE DEF o
  <2>5. Remains(s, o + 1, ret'.type, y)
    BY <2>1, <2>2, <2>4, RemainsPut
  <2> QED
    BY <2>1, <2>5 DEF Then, s
<1> QED
  BY <1>3, <1>11, <1>12

(* A token is taken, and the function goes on, ...                         *)
LEMMA TakeForesees ==
  ASSUME IInv, ForeseenInv, status = "running", NEW tok, NEW f, Take(tok, Resume(f)),
         \A y, m, z, u : entry.tok = tok /\ Shows(y, entry, m) /\ Awaited(y, z, u)
                           => Comes(f, ret.type, m, z, u)
  PROVE  ForeseenInv'
<1>1. CASE Fail
  BY <1>1, FailForesees
<1>2. CASE Match(tok) /\ stack' = Resume(f) /\ UNCHANGED <<ret, status, genVars>>
  <2>1. entry.tok = tok /\ ret' = ret /\ status' = status
    BY <1>2 DEF Match
  <2>2. ASSUME NEW y, NEW m, NEW z, NEW u, Shows(y, entry, m), Awaited(y, z, u)
        PROVE  Then(m)
    <3>1. Comes(f, ret'.type, m, z, u) /\ Remains(stack, Len(stack) - 1, u, z)
      BY <2>1, <2>2 DEF Awaited
    <3> QED
      BY <1>2, <3>1, ResumeLeaves
  <2> QED
    BY <1>2, <2>1, <2>2, MatchForesees
<1> QED
  BY <1>1, <1>2 DEF Take

(* ...or calls another, ...                                                *)
LEMMA TakeCallForesees ==
  ASSUME IInv, ForeseenInv, status = "running", NEW tok, NEW f, NEW c \in Calls,
         Take(tok, Resume(f) \o c),
         \A y, m, z, u : entry.tok = tok /\ Shows(y, entry, m) /\ Awaited(y, z, u)
                           => \E k, a : /\ Takes(Produces(c[1].fn), m, k, a)
                                        /\ Comes(f, a, k, z, u)
  PROVE  ForeseenInv'
<1>1. CASE Fail
  BY <1>1, FailForesees
<1>2. CASE Match(tok) /\ stack' = Resume(f) \o c /\ UNCHANGED <<ret, status, genVars>>
  <2>1. entry.tok = tok /\ ret' = ret /\ status' = status
    BY <1>2 DEF Match
  <2>2. ASSUME NEW y, NEW m, NEW z, NEW u, Shows(y, entry, m), Awaited(y, z, u)
        PROVE  Then(m)
    <3>1. PICK k, a : Takes(Produces(c[1].fn), m, k, a) /\ Comes(f, a, k, z, u)
      BY <2>1, <2>2
    <3>2. Remains(stack, Len(stack) - 1, u, z)
      BY <2>2 DEF Awaited
    <3> QED
      BY <1>2, <3>1, <3>2, CallLeaves
  <2> QED
    BY <1>2, <2>1, <2>2, MatchForesees
<1> QED
  BY <1>1, <1>2 DEF Take

(* ...or returns.                                                          *)
LEMMA MatchReturnForesees ==
  ASSUME IInv, ForeseenInv, status = "running", Len(stack) > 1, NEW tok, Match(tok),
         NEW info, Return(info),
         \A y, m, z, u : Shows(y, entry, m) /\ Comes(Top, ret.type, y, z, u)
                           => m = z /\ info.type = u
  PROVE  ForeseenInv'
<1>1. ret' = info /\ status' = status /\ stack' = Pop
  BY DEF Return
<1>2. ASSUME NEW y, NEW m, NEW z, NEW u, Shows(y, entry, m), Awaited(y, z, u)
      PROVE  Then(m)
  <2>1. Remains(stack, Len(stack) - 1, ret'.type, m)
    BY <1>1, <1>2 DEF Awaited
  <2> QED
    BY <1>1, <2>1, ReturnLeaves
<1> QED
  BY <1>1, <1>2, MatchForesees

(* It returns without taking a token.                                      *)
LEMMA ReturnForesees ==
  ASSUME IInv, ForeseenInv, status = "running", Len(stack) > 1, UNCHANGED lexVars,
         NEW info, Return(info),
         \A y, m, z, u : Shows(y, entry, m) /\ Comes(Top, ret.type, y, z, u)
                           => y = z /\ info.type = u
  PROVE  ForeseenInv'
<1>1. ret' = info /\ status' = status /\ stack' = Pop
  BY DEF Return
<1>2. ASSUME NEW y, NEW m, NEW z, NEW u, Shows(y, entry, m), Awaited(y, z, u)
      PROVE  Then(y)
  <2>1. Remains(stack, Len(stack) - 1, ret'.type, y)
    BY <1>1, <1>2 DEF Awaited
  <2> QED
    BY <1>1, <2>1, ReturnLeaves
<1> QED
  BY <1>1, <1>2, StayForesees

(* It goes on without taking a token.                                      *)
LEMMA ResumeForesees ==
  ASSUME IInv, ForeseenInv, status = "running", status' = status, ret' = ret,
         UNCHANGED lexVars, NEW f, stack' = Resume(f),
         \A y, m, z, u : Shows(y, entry, m) /\ Comes(Top, ret.type, y, z, u)
                           => Comes(f, ret.type, y, z, u)
  PROVE  ForeseenInv'
<1>1. ASSUME NEW y, NEW m, NEW z, NEW u, Shows(y, entry, m), Awaited(y, z, u)
      PROVE  Then(y)
  <2>1. Comes(f, ret'.type, y, z, u) /\ Remains(stack, Len(stack) - 1, u, z)
    BY <1>1 DEF Awaited
  <2> QED
    BY <2>1, ResumeLeaves
<1> QED
  BY <1>1, StayForesees

(* An error without taking a token.                                        *)
LEMMA ErrorForesees ==
  ASSUME IInv, ForeseenInv, status = "running", SemanticError, UNCHANGED lexVars,
         \A y, z, u : ~Comes(Top, ret.type, y, z, u)
  PROVE  ForeseenInv'
BY StayRejects DEF SemanticError, Awaited

(* What follows what the innermost function returns.                       *)
LEMMA FollowTop ==
  ASSUME IInv, MeantInv, status = "running", Top.fn \in Inner, NEW t, NEW y,
         Remains(stack, Len(stack) - 1, t, y), y # <<>>
  PROVE  ShowsOneOf(y, After(Produces(Top.fn)))
<1> DEFINE c == Len(stack) - 1
<1>1. Len(stack) \in Nat \ {0} /\ Len(stack) > 1 /\ StackOK(stack) /\ Linked(stack)
  BY TopFacts DEF MeantInv, IInv
<1>2. c \in 1..Len(stack) - 1 /\ c + 1 = Len(stack) /\ Remains(stack, c, t, y)
  BY <1>1
<1> HIDE DEF c
<1>3. ShowsOneOf(y, After(Wants(stack[c])))
  BY <1>1, <1>2, FollowIs
<1>4. Wants(stack[c]) = Produces(stack[c + 1].fn)
  BY <1>1, <1>2, WaitsFor
<1> QED
  BY <1>2, <1>3, <1>4 DEF Top

(* The token that is read next.                                            *)
LEMMA ShownTok ==
  ASSUME NEW y, NEW m, Shows(y, entry, m), NEW toks, ShowsOneOf(y, toks)
  PROVE  entry.tok \in toks
BY ShowsOnce DEF ShowsOneOf

(* ...if it is in a phrase.                                                *)
LEMMA ShownMark ==
  ASSUME NEW y, NEW m, Shows(y, entry, m), NEW k, NEW x, Shows(y, Plain(k), x)
  PROVE  entry.tok = k /\ x = m
BY ShowsOnce, PlainTok

(* What begins with a token is a factor of one kind.                       *)
LEMMA FactorShows ==
  ASSUME NEW y, NEW m, Shows(y, entry, m), NEW z, NEW t, Takes("factor", y, z, t)
  PROVE  /\ entry.tok = "constant" => m = z /\ t = entry.type
         /\ entry.tok = "identifier" =>
              /\ entry \in Symbols
              /\ \/ m = z /\ t = entry.type
                 \/ /\ entry.type = "string" /\ t = "char"
                    /\ \E k : Shows(m, Plain("["), k) /\ Inside(k, "int", "]", z)
         /\ entry.tok = "not" => t = "logic" /\ Takes("factor", m, z, "logic")
         /\ entry.tok = "(" => Inside(m, t, ")", z)
         /\ entry.tok \in Numbers =>
              /\ t = entry.tok
              /\ \E k : Shows(m, Plain("("), k) /\ Inside(k, Other(t), ")", z)
<1>1. FactorForm(y, z, t)
  BY FactorIs
<1>2. /\ \A k \in Literals : k.tok = "constant"
      /\ \A k \in Symbols : k.tok = "identifier"
  BY LiteralsAssumption, SymbolsAssumption
<1>3. CASE \E k \in Literals \union Symbols : Shows(y, k, z) /\ t = k.type
  <2>1. PICK k \in Literals \union Symbols : Shows(y, k, z) /\ t = k.type
    BY <1>3
  <2>2. k = entry /\ m = z
    BY <2>1, ShowsOnce
  <2> QED
    BY <1>2, <2>1, <2>2 DEF Numbers
<1>4. CASE t = "logic" /\ \E k : Shows(y, Plain("not"), k) /\ Takes("factor", k, z, "logic")
  BY <1>4, ShownMark DEF Numbers
<1>5. CASE \E k : Shows(y, Plain("("), k) /\ Inside(k, t, ")", z)
  BY <1>5, ShownMark DEF Numbers
<1>6. CASE /\ t \in Numbers
           /\ \E x, k : /\ Shows(y, Plain(t), x) /\ Shows(x, Plain("("), k)
                        /\ Inside(k, Other(t), ")", z)
  <2>1. PICK x, k : /\ Shows(y, Plain(t), x) /\ Shows(x, Plain("("), k)
                    /\ Inside(k, Other(t), ")", z)
    BY <1>6
  <2>2. entry.tok = t /\ x = m
    BY <2>1, ShownMark
  <2> QED
    BY <1>6, <2>1, <2>2 DEF Numbers
<1>7. CASE /\ t = "char"
           /\ \E s \in Symbols : \E x, k : /\ s.type = "string" /\ Shows(y, s, x)
                                       /\ Shows(x, Plain("["), k) /\ Inside(k, "int", "]", z)
  <2>1. PICK s \in Symbols : \E x, k : /\ s.type = "string" /\ Shows(y, s, x)
                                   /\ Shows(x, Plain("["), k) /\ Inside(k, "int", "]", z)
    BY <1>7
  <2>2. PICK x, k : /\ s.type = "string" /\ Shows(y, s, x)
                    /\ Shows(x, Plain("["), k) /\ Inside(k, "int", "]", z)
    BY <2>1
  <2>3. s = entry /\ x = m
    BY <2>2, ShowsOnce
  <2> QED
    BY <1>2, <1>7, <2>2, <2>3 DEF Numbers
<1> QED
  BY <1>1, <1>3, <1>4, <1>5, <1>6, <1>7 DEF FactorForm

(* What is left at a place of a function.                                  *)
LEMMA ComesAre ==
  ASSUME NEW f, NEW t, NEW y, NEW z, NEW u
  PROVE  /\ f.fn = "f" => (Comes(f, t, y, z, u) <=>
              /\ y \in Strings /\ z \in Strings /\ Fitting(f) /\ FactorComes(f, t, y, z, u))
         /\ f.fn \in Loops => (Comes(f, t, y, z, u) <=>
              /\ y \in Strings /\ z \in Strings /\ Fitting(f) /\ LoopComes(f, t, y, z, u))
         /\ f.fn = "exp" => (Comes(f, t, y, z, u) <=>
              /\ y \in Strings /\ z \in Strings /\ Fitting(f) /\ ExpComes(f, t, y, z, u))
         /\ f.fn = "paren" => (Comes(f, t, y, z, u) <=>
              /\ y \in Strings /\ z \in Strings /\ Fitting(f) /\ ParenComes(f, t, y, z))
         /\ f.fn = "write" => (Comes(f, t, y, z, u) <=>
              /\ y \in Strings /\ z \in Strings /\ Fitting(f) /\ WriteComes(f, y, z))
         /\ f.fn = "readln" => (Comes(f, t, y, z, u) <=>
              /\ y \in Strings /\ z \in Strings /\ Fitting(f) /\ ReadComes(f, y, z))
         /\ f.fn = "attr" => (Comes(f, t, y, z, u) <=>
              /\ y \in Strings /\ z \in Strings /\ Fitting(f) /\ AttrComes(f, t, y, z))
<1>1. f.fn = "f" => (Comes(f, t, y, z, u) <=>
        /\ y \in Strings /\ z \in Strings /\ Fitting(f) /\ FactorComes(f, t, y, z, u))
  BY DEF Comes, Loops
<1>2. f.fn \in Loops => (Comes(f, t, y, z, u) <=>
        /\ y \in Strings /\ z \in Strings /\ Fitting(f) /\ LoopComes(f, t, y, z, u))
  BY DEF Comes, Loops
<1>3. f.fn = "exp" => (Comes(f, t, y, z, u) <=>
        /\ y \in Strings /\ z \in Strings /\ Fitting(f) /\ ExpComes(f, t, y, z, u))
  BY DEF Comes, Loops
<1>4. f.fn = "paren" => (Comes(f, t, y, z, u) <=>
        /\ y \in Strings /\ z \in Strings /\ Fitting(f) /\ ParenComes(f, t, y, z))
  BY DEF Comes, Loops
<1>5. f.fn = "write" => (Comes(f, t, y, z, u) <=>
        /\ y \in Strings /\ z \in Strings /\ Fitting(f) /\ WriteComes(f, y, z))
  BY DEF Comes, Loops
<1>6. f.fn = "readln" => (Comes(f, t, y, z, u) <=>
        /\ y \in Strings /\ z \in Strings /\ Fitting(f) /\ ReadComes(f, y, z))
  BY DEF Comes, Loops
<1>7. f.fn = "attr" => (Comes(f, t, y, z, u) <=>
        /\ y \in Strings /\ z \in Strings /\ Fitting(f) /\ AttrComes(f, t, y, z))
  BY DEF Comes, Loops
<1> QED
  BY <1>1, <1>2, <1>3, <1>4, <1>5, <1>6, <1>7

(* A factor is read by what goes on from its first token.                  *)
LEMMA FactorStarts ==
  ASSUME Top.fn = "f", Top.at = "start", NEW y, NEW z, NEW u, Comes(Top, ret.type, y, z, u)
  PROVE  Takes("factor", y, z, u)
BY ComesAre DEF FactorComes

-----------------------------------------------------------------------------
(* syntatic_f                                                              *)

(* One lemma per action: what was foreseen still is.                       *)
LEMMA ConstantForesees == ASSUME IInv, ForeseenInv, Constant PROVE ForeseenInv'
<1>1. CASE Fail
  BY <1>1, FailForesees
<1>2. CASE ~Fail
  <2> DEFINE p == AddTmp(gen, entry)
  <2>1. /\ status = "running" /\ Top.fn = "f" /\ Top.at = "start"
        /\ entry.tok = "constant" /\ Match("constant") /\ Return(p.info)
    BY <1>2 DEF Constant, At
  <2>2. p.info.type = entry.type
    BY AddTmpMeans
  <2> HIDE DEF p
  <2>3. Len(stack) > 1
    BY <2>1, TopFacts DEF Inner
  <2>4. ASSUME NEW y, NEW m, NEW z, NEW u, Shows(y, entry, m), Comes(Top, ret.type, y, z, u)
        PROVE  m = z /\ p.info.type = u
    BY <2>1, <2>2, <2>4, FactorStarts, FactorShows
  <2> QED
    BY <2>1, <2>3, <2>4, MatchReturnForesees
<1> QED
  BY <1>1, <1>2

LEMMA IdentifierForesees == ASSUME IInv, ForeseenInv, Identifier PROVE ForeseenInv'
<1>1. /\ status = "running" /\ Top.fn = "f" /\ Top.at = "start"
      /\ entry.tok = "identifier"
  BY DEF Identifier, At
<1>2. CASE Fail
  BY <1>2, FailForesees
<1>3. CASE ~Fail /\ entry.type = "none"
  <2>1. Match("identifier") /\ status' = "mismatch"
    BY <1>3 DEF Identifier, SemanticError
  <2>2. ASSUME NEW y, NEW m, NEW z, NEW u, Shows(y, entry, m), Awaited(y, z, u)
        PROVE  FALSE
    <3>1. entry \in Symbols
      BY <1>1, <2>2, FactorStarts, FactorShows DEF Awaited
    <3>2. entry.type \in Types
      BY <3>1, SymbolsAssumption
    <3> QED
      BY <1>3, <3>2 DEF Types
  <2> QED
    BY <1>1, <2>1, <2>2, MatchRejects
<1>4. CASE ~Fail /\ entry.type # "none"
  <2> DEFINE f == [Top EXCEPT !.at = "id", !.symbol = entry]
  <2>1. /\ Match("identifier") /\ stack' = Resume(f) /\ UNCHANGED <<ret, status, genVars>>
    BY <1>4 DEF Identifier
  <2>2. f.fn = "f" /\ f.at = "id" /\ f.symbol = entry
    <3>1. DOMAIN Top = FrameFields
      BY <1>1, TopFacts DEF FrameOK
    <3> QED
      BY <1>1, <3>1 DEF FrameFields
  <2> HIDE DEF f
  <2>3. Take("identifier", Resume(f))
    BY <2>1 DEF Take
  <2>4. ASSUME NEW y, NEW m, NEW z, NEW u, Shows(y, entry, m), Awaited(y, z, u)
        PROVE  Comes(f, ret.type, m, z, u)
    <3>1. Takes("factor", y, z, u)
      BY <1>1, <2>4, FactorStarts DEF Awaited
    <3>2. \/ m = z /\ u = entry.type
          \/ /\ entry.type = "string" /\ u = "char"
             /\ \E k : Shows(m, Plain("["), k) /\ Inside(k, "int", "]", z)
      BY <1>1, <2>4, <3>1, FactorShows
    <3>3. FactorComes(f, ret.type, m, z, u) /\ Fitting(f)
      BY <2>2, <3>2 DEF FactorComes, Fitting
    <3>4. m \in Strings /\ z \in Strings
      BY <2>4, <3>1, ShowsOnce, TakesWords
    <3> QED
      BY <2>2, <3>3, <3>4, ComesAre
  <2> QED
    BY <1>1, <2>3, <2>4, TakeForesees
<1> QED
  BY <1>2, <1>3, <1>4

LEMMA IdentifierValueForesees ==
  ASSUME IInv, ForeseenInv, IdentifierValue PROVE ForeseenInv'
<1> DEFINE info == InfoOf(Top.symbol)
<1>1. /\ status = "running" /\ Top.fn = "f" /\ Top.at = "id" /\ entry.tok # "["
      /\ Return(info) /\ UNCHANGED lexVars
  BY DEF IdentifierValue, At, Back
<1>2. info.type = Top.symbol.type
  BY InfoMeans
<1> HIDE DEF info
<1>3. Len(stack) > 1
  BY <1>1, TopFacts DEF Inner
<1>4. ASSUME NEW y, NEW m, NEW z, NEW u, Shows(y, entry, m), Comes(Top, ret.type, y, z, u)
      PROVE  y = z /\ info.type = u
  <2>1. \/ y = z /\ u = Top.symbol.type
        \/ \E k : Shows(y, Plain("["), k)
    BY <1>1, <1>4, ComesAre DEF FactorComes
  <2> QED
    BY <1>1, <1>2, <1>4, <2>1, ShownMark
<1> QED
  BY <1>1, <1>3, <1>4, ReturnForesees

(* No index may follow a factor.                                           *)
LEMMA NoIndexFollows == "[" \notin After("factor")
BY DEF After, Closing, Comparisons, TermOperators, FactorOperators, Comma, Semicolon

LEMMA IndexStartForesees ==
  ASSUME IInv, MeantInv, ForeseenInv, IndexStart PROVE ForeseenInv'
<1>1. status = "running" /\ Top.fn = "f" /\ Top.at = "id" /\ entry.tok = "["
  BY DEF IndexStart, At
<1>2. CASE Fail
  BY <1>2, FailForesees
<1>3. ASSUME NEW y, NEW m, NEW z, NEW u, Shows(y, entry, m), Awaited(y, z, u)
      PROVE  Top.symbol.type = "string" /\ u = "char" /\ Inside(m, "int", "]", z)
  <2>1. \/ y = z /\ u = Top.symbol.type
        \/ /\ Top.symbol.type = "string" /\ u = "char"
           /\ \E k : Shows(y, Plain("["), k) /\ Inside(k, "int", "]", z)
    BY <1>1, <1>3, ComesAre DEF FactorComes, Awaited
  <2>2. y # z
    <3>1. ASSUME y = z PROVE FALSE
      <4>1. Remains(stack, Len(stack) - 1, u, y) /\ y # <<>>
        BY <1>3, <3>1, ShowsOnce DEF Awaited
      <4>2. ShowsOneOf(y, After("factor"))
        BY <1>1, <4>1, FollowTop DEF Inner, Produces
      <4> QED
        BY <1>1, <1>3, <4>2, ShownTok, NoIndexFollows
    <3> QED
      BY <3>1
  <2> QED
    BY <1>3, <2>1, <2>2, ShownMark
<1>4. CASE ~Fail /\ Top.symbol.type # "string"
  <2>1. Match("[") /\ status' = "mismatch"
    BY <1>4 DEF IndexStart, SemanticError
  <2> QED
    BY <1>1, <1>3, <1>4, <2>1, MatchRejects
<1>5. CASE ~Fail /\ Top.symbol.type = "string"
  <2> DEFINE f == [Top EXCEPT !.at = "]"]
  <2>1. Match("[") /\ stack' = Resume(f) \o CallExp /\ UNCHANGED <<ret, status, genVars>>
    BY <1>5 DEF IndexStart, GoOn
  <2>2. f.fn = "f" /\ f.at = "]"
    BY <1>1, TopMoved
  <2> HIDE DEF f
  <2>3. Take("[", Resume(f) \o CallExp)
    BY <2>1 DEF Take
  <2>4. ASSUME NEW y, NEW m, NEW z, NEW u, Shows(y, entry, m), Awaited(y, z, u)
        PROVE  \E k, a : Takes("exp", m, k, a) /\ Comes(f, a, k, z, u)
    <3>1. PICK k : Takes("exp", m, k, "int") /\ Shows(k, Plain("]"), z)
      BY <1>3, <2>4 DEF Inside
    <3>2. FactorComes(f, "int", k, z, u) /\ Fitting(f)
      BY <1>3, <2>2, <2>4, <3>1 DEF FactorComes, Fitting
    <3>3. Comes(f, "int", k, z, u)
      BY <2>2, <3>1, <3>2, ShowsOnce, ComesAre
    <3> QED
      BY <3>1, <3>3
  <2>5. Produces(CallExp[1].fn) = "exp" /\ CallExp \in Calls
    BY CallKinds
  <2> QED
    BY <1>1, <2>3, <2>4, <2>5, TakeCallForesees
<1> QED
  BY <1>2, <1>4, <1>5

LEMMA IndexEndForesees == ASSUME IInv, ForeseenInv, IndexEnd PROVE ForeseenInv'
<1>1. status = "running" /\ Top.fn = "f" /\ Top.at = "]"
  BY DEF IndexEnd, At
<1>2. CASE Fail
  BY <1>2, FailForesees
<1>3. ASSUME NEW y, NEW z, NEW u, Comes(Top, ret.type, y, z, u)
      PROVE  ret.type = "int" /\ u = "char" /\ Shows(y, Plain("]"), z)
  BY <1>1, <1>3, ComesAre DEF FactorComes
<1>4. CASE ~Fail /\ ret.type # "int"
  <2>1. SemanticError /\ UNCHANGED lexVars
    BY <1>4 DEF IndexEnd
  <2> QED
    BY <1>1, <1>3, <1>4, <2>1, ErrorForesees
<1>5. CASE ~Fail /\ ret.type = "int"
  <2> DEFINE p == MoveIdxToTmp(gen, Top.symbol, ret)
  <2>1. Match("]") /\ Return(p.info)
    BY <1>5 DEF IndexEnd
  <2>2. p.info.type = "char"
    BY PutMeans DEF MoveIdxToTmp
  <2> HIDE DEF p
  <2>3. Len(stack) > 1
    BY <1>1, TopFacts DEF Inner
  <2>4. ASSUME NEW y, NEW m, NEW z, NEW u, Shows(y, entry, m), Comes(Top, ret.type, y, z, u)
        PROVE  m = z /\ p.info.type = u
    BY <1>3, <2>2, <2>4, ShownMark
  <2> QED
    BY <1>1, <2>1, <2>3, <2>4, MatchReturnForesees
<1> QED
  BY <1>2, <1>4, <1>5

LEMMA NotForesees == ASSUME IInv, ForeseenInv, Not PROVE ForeseenInv'
<1> DEFINE f == [Top EXCEPT !.at = "not"]
<1>1. /\ status = "running" /\ Top.fn = "f" /\ Top.at = "start" /\ entry.tok = "not"
      /\ Take("not", Resume(f) \o CallF)
  BY DEF Not, At, GoOn
<1>2. f.fn = "f" /\ f.at = "not"
  BY <1>1, TopMoved
<1> HIDE DEF f
<1>3. ASSUME NEW y, NEW m, NEW z, NEW u, Shows(y, entry, m), Awaited(y, z, u)
      PROVE  \E k, a : Takes("factor", m, k, a) /\ Comes(f, a, k, z, u)
  <2>1. u = "logic" /\ Takes("factor", m, z, "logic")
    BY <1>1, <1>3, FactorStarts, FactorShows DEF Awaited
  <2>2. FactorComes(f, "logic", z, z, u) /\ Fitting(f)
    BY <1>2, <2>1 DEF FactorComes, Fitting
  <2>3. Comes(f, "logic", z, z, u)
    BY <1>2, <2>1, <2>2, TakesWords, ComesAre
  <2> QED
    BY <2>1, <2>3
<1>4. Produces(CallF[1].fn) = "factor" /\ CallF \in Calls
  BY CallKinds
<1> QED
  BY <1>1, <1>3, <1>4, TakeCallForesees

LEMMA NotEndForesees == ASSUME IInv, ForeseenInv, NotEnd PROVE ForeseenInv'
<1>1. status = "running" /\ Top.fn = "f" /\ Top.at = "not" /\ UNCHANGED lexVars
  BY DEF NotEnd, At
<1>2. ASSUME NEW y, NEW z, NEW u, Comes(Top, ret.type, y, z, u)
      PROVE  ret.type = "logic" /\ u = "logic" /\ y = z
  BY <1>1, <1>2, ComesAre DEF FactorComes
<1>3. CASE ret.type # "logic"
  <2>1. SemanticError
    BY <1>3 DEF NotEnd
  <2> QED
    BY <1>1, <1>2, <1>3, <2>1, ErrorForesees
<1>4. CASE ret.type = "logic"
  <2> DEFINE p == LogicNegate(gen, ret)
  <2>1. Return(p.info)
    BY <1>4 DEF NotEnd
  <2>2. p.info.type = "logic"
    BY PutMeans DEF LogicNegate
  <2> HIDE DEF p
  <2>3. Len(stack) > 1
    BY <1>1, TopFacts DEF Inner
  <2> QED
    BY <1>1, <1>2, <2>1, <2>2, <2>3, ReturnForesees
<1> QED
  BY <1>3, <1>4

(* An expression follows, and what f waits for.                            *)
LEMMA ExpFollows ==
  ASSUME NEW f, f.fn = "f", f.at \in {")", "convert)"},
         NEW m, NEW t, NEW z, Inside(m, t, ")", z), NEW u,
         f.at = ")" => u = t, f.at = "convert)" => u = f.op /\ t = Other(f.op)
  PROVE  \E k, a : Takes("exp", m, k, a) /\ Comes(f, a, k, z, u)
<1>1. PICK k : Takes("exp", m, k, t) /\ Shows(k, Plain(")"), z)
  BY DEF Inside
<1>2. FactorComes(f, t, k, z, u) /\ Fitting(f)
  BY <1>1 DEF FactorComes, Fitting
<1>3. Comes(f, t, k, z, u)
  BY <1>1, <1>2, ShowsOnce, ComesAre
<1> QED
  BY <1>1, <1>3

LEMMA ParenthesisForesees == ASSUME IInv, ForeseenInv, Parenthesis PROVE ForeseenInv'
<1> DEFINE f == [Top EXCEPT !.at = ")"]
<1>1. /\ status = "running" /\ Top.fn = "f" /\ Top.at = "start" /\ entry.tok = "("
      /\ Take("(", Resume(f) \o CallExp)
  BY DEF Parenthesis, At, GoOn
<1>2. f.fn = "f" /\ f.at = ")"
  BY <1>1, TopMoved
<1> HIDE DEF f
<1>3. ASSUME NEW y, NEW m, NEW z, NEW u, Shows(y, entry, m), Awaited(y, z, u)
      PROVE  \E k, a : Takes("exp", m, k, a) /\ Comes(f, a, k, z, u)
  <2>1. Inside(m, u, ")", z)
    BY <1>1, <1>3, FactorStarts, FactorShows DEF Awaited
  <2> QED
    BY <1>2, <2>1, ExpFollows
<1>4. Produces(CallExp[1].fn) = "exp" /\ CallExp \in Calls
  BY CallKinds
<1> QED
  BY <1>1, <1>3, <1>4, TakeCallForesees

LEMMA ParenthesisEndForesees == ASSUME IInv, ForeseenInv, ParenthesisEnd PROVE ForeseenInv'
<1>1. status = "running" /\ Top.fn = "f" /\ Top.at = ")"
  BY DEF ParenthesisEnd, At
<1>2. CASE Fail
  BY <1>2, FailForesees
<1>3. CASE ~Fail
  <2>1. Match(")") /\ Return(ret)
    BY <1>3 DEF ParenthesisEnd
  <2>2. Len(stack) > 1
    BY <1>1, TopFacts DEF Inner
  <2>3. ASSUME NEW y, NEW m, NEW z, NEW u, Shows(y, entry, m), Comes(Top, ret.type, y, z, u)
        PROVE  m = z /\ ret.type = u
    <3>1. u = ret.type /\ Shows(y, Plain(")"), z)
      BY <1>1, <2>3, ComesAre DEF FactorComes
    <3> QED
      BY <2>3, <3>1, ShownMark
  <2> QED
    BY <1>1, <2>1, <2>2, <2>3, MatchReturnForesees
<1> QED
  BY <1>2, <1>3

LEMMA ConversionForesees == ASSUME IInv, ForeseenInv, Conversion PROVE ForeseenInv'
<1> DEFINE f == [Top EXCEPT !.at = "convert(", !.op = entry.tok]
<1>1. /\ status = "running" /\ Top.fn = "f" /\ Top.at = "start"
      /\ entry.tok \in Numbers /\ Take(entry.tok, Resume(f))
  BY DEF Conversion, At, Numbers
<1>2. f.fn = "f" /\ f.at = "convert(" /\ f.op = entry.tok
  <2>1. DOMAIN Top = FrameFields
    BY <1>1, TopFacts DEF FrameOK
  <2> QED
    BY <1>1, <2>1 DEF FrameFields
<1> HIDE DEF f
<1>3. ASSUME NEW y, NEW m, NEW z, NEW u, Shows(y, entry, m), Awaited(y, z, u)
      PROVE  Comes(f, ret.type, m, z, u)
  <2>1. Takes("factor", y, z, u)
    BY <1>1, <1>3, FactorStarts DEF Awaited
  <2>2. u = entry.tok /\ \E k : Shows(m, Plain("("), k) /\ Inside(k, Other(u), ")", z)
    BY <1>1, <1>3, <2>1, FactorShows
  <2>3. FactorComes(f, ret.type, m, z, u) /\ Fitting(f)
    BY <1>2, <2>2 DEF FactorComes, Fitting
  <2>4. m \in Strings /\ z \in Strings
    BY <1>3, <2>1, ShowsOnce, TakesWords
  <2> QED
    BY <1>2, <2>3, <2>4, ComesAre
<1> QED
  BY <1>1, <1>3, TakeForesees

LEMMA ConversionStartForesees ==
  ASSUME IInv, ForeseenInv, ConversionStart PROVE ForeseenInv'
<1> DEFINE f == [Top EXCEPT !.at = "convert)"]
<1>1. /\ status = "running" /\ Top.fn = "f" /\ Top.at = "convert("
      /\ Take("(", Resume(f) \o CallExp)
  BY DEF ConversionStart, At, GoOn
<1>2. f.fn = "f" /\ f.at = "convert)" /\ f.op = Top.op
  BY <1>1, TopMoved
<1> HIDE DEF f
<1>3. ASSUME NEW y, NEW m, NEW z, NEW u, Shows(y, entry, m), Awaited(y, z, u)
      PROVE  \E k, a : Takes("exp", m, k, a) /\ Comes(f, a, k, z, u)
  <2>1. u = Top.op /\ \E k : Shows(y, Plain("("), k) /\ Inside(k, Other(Top.op), ")", z)
    BY <1>1, <1>3, ComesAre DEF FactorComes, Awaited
  <2>2. Inside(m, Other(f.op), ")", z) /\ u = f.op
    BY <1>2, <1>3, <2>1, ShownMark
  <2> QED
    BY <1>2, <2>2, ExpFollows
<1>4. Produces(CallExp[1].fn) = "exp" /\ CallExp \in Calls
  BY CallKinds
<1> QED
  BY <1>1, <1>3, <1>4, TakeCallForesees

LEMMA ConversionEndForesees == ASSUME IInv, ForeseenInv, ConversionEnd PROVE ForeseenInv'
<1>1. status = "running" /\ Top.fn = "f" /\ Top.at = "convert)"
  BY DEF ConversionEnd, At
<1>2. CASE Fail
  BY <1>2, FailForesees
<1>3. ASSUME NEW y, NEW z, NEW u, Comes(Top, ret.type, y, z, u)
      PROVE  u = Top.op /\ ret.type = Other(Top.op) /\ Shows(y, Plain(")"), z)
  BY <1>1, <1>3, ComesAre DEF FactorComes
<1>4. CASE ~Fail /\ ret.type # Other(Top.op)
  <2>1. SemanticError /\ UNCHANGED lexVars
    BY <1>4 DEF ConversionEnd, Other
  <2> QED
    BY <1>1, <1>3, <1>4, <2>1, ErrorForesees
<1>5. CASE ~Fail /\ ret.type = Other(Top.op)
  <2> DEFINE p == Convert(gen, ret, Top.op)
  <2>1. Match(")") /\ Return(p.info)
    BY <1>5 DEF ConversionEnd, Other
  <2>2. p.info.type = Top.op
    BY PutMeans DEF Convert
  <2> HIDE DEF p
  <2>3. Len(stack) > 1
    BY <1>1, TopFacts DEF Inner
  <2>4. ASSUME NEW y, NEW m, NEW z, NEW u, Shows(y, entry, m), Comes(Top, ret.type, y, z, u)
        PROVE  m = z /\ p.info.type = u
    BY <1>3, <2>2, <2>4, ShownMark
  <2> QED
    BY <1>1, <2>1, <2>3, <2>4, MatchReturnForesees
<1> QED
  BY <1>2, <1>4, <1>5

LEMMA FactorForesees == ASSUME IInv, MeantInv, ForeseenInv, Factor PROVE ForeseenInv'
<1>1. CASE NoFactor
  BY <1>1, FailForesees DEF NoFactor
<1> QED
  BY <1>1, ConstantForesees, IdentifierForesees, IdentifierValueForesees,
     IndexStartForesees, IndexEndForesees, NotForesees, NotEndForesees,
     ParenthesisForesees, ParenthesisEndForesees, ConversionForesees,
     ConversionStartForesees, ConversionEndForesees DEF Factor

-----------------------------------------------------------------------------
(* syntatic_t and syntatic_exps                                            *)

(* No factor begins with a sign.                                           *)
LEMMA NoSignBegins == Signs \intersect FirstOfF = {}
BY DEF Signs, FirstOfF

LEMMA SignForesees == ASSUME IInv, ForeseenInv, Sign PROVE ForeseenInv'
<1> DEFINE f == [Top EXCEPT !.at = "first", !.op = entry.tok]
<1>1. /\ status = "running" /\ Top.fn = "exps" /\ Top.at = "sign"
      /\ entry.tok \in Signs /\ Take(entry.tok, Resume(f) \o CallT)
  BY DEF Sign, At
<1>2. f.fn = "exps" /\ f.at = "first"
  <2>1. DOMAIN Top = FrameFields
    BY <1>1, TopFacts DEF FrameOK
  <2> QED
    BY <1>1, <2>1 DEF FrameFields
<1> HIDE DEF f
<1>3. ASSUME NEW y, NEW m, NEW z, NEW u, Shows(y, entry, m), Awaited(y, z, u)
      PROVE  \E k, a : Takes("term", m, k, a) /\ Comes(f, a, k, z, u)
  <2>1. Takes("sum", y, z, u)
    BY <1>1, <1>3, ComesAre DEF LoopComes, Awaited, Loops
  <2>2. PICK k, a : /\ Takes("term", y, k, a) \/ HasSign(y, k, a)
                    /\ Continues("exps", a, k, z, u)
    BY <2>1, SumIs
  <2>3. ~Takes("term", y, k, a)
    <3>1. ASSUME Takes("term", y, k, a) PROVE entry.tok \in FirstOfF
      BY <1>3, <3>1, TermBegins, ShowsOnce
    <3> QED
      BY <1>1, <3>1, NoSignBegins
  <2>4. a \in Numbers /\ Takes("term", m, k, a)
    BY <1>3, <2>2, <2>3, ShownMark DEF HasSign
  <2>5. LoopComes(f, a, k, z, u) /\ Fitting(f)
    BY <1>2, <2>2, <2>4 DEF LoopComes, Fitting, Loops
  <2>6. k \in Strings /\ z \in Strings
    BY <2>1, <2>4, TakesWords
  <2>7. Comes(f, a, k, z, u)
    BY <1>2, <2>5, <2>6, ComesAre DEF Loops
  <2> QED
    BY <2>4, <2>7
<1>4. Produces(CallT[1].fn) = "term" /\ CallT \in Calls
  BY CallKinds
<1> QED
  BY <1>1, <1>3, <1>4, TakeCallForesees

(* Before its first token a sum has noted no sign.                         *)
LEMMA NoSignYet ==
  ASSUME IInv, MeantInv, status = "running", Top.fn = "exps", Top.at = "sign"
  PROVE  Top.op = "none"
<1>1. PICK w : HasRead(Top, w, effects, entry.tok, ret)
  BY Telling
<1>2. ~Awaits(Top) /\ Top.fn \in Loops
  BY DEF Awaits, Loops
<1>3. LoopBegun(Top, w)
  BY <1>1, <1>2, OwnTokens, BegunIs
<1> QED
  BY <1>3 DEF LoopBegun

LEMMA NoSignForesees == ASSUME IInv, MeantInv, ForeseenInv, NoSign PROVE ForeseenInv'
<1> DEFINE f == [Top EXCEPT !.at = "first"]
<1>1. /\ status = "running" /\ Top.fn = "exps" /\ Top.at = "sign"
      /\ stack' = Resume(f) \o CallT /\ status' = status /\ entry.tok \notin Signs
      /\ UNCHANGED lexVars
  BY DEF NoSign, At, Step, GoOn
<1>2. f.fn = "exps" /\ f.at = "first" /\ f.op = "none"
  BY <1>1, TopMoved, NoSignYet
<1> HIDE DEF f
<1>3. Produces(CallT[1].fn) = "term" /\ CallT \in Calls
  BY CallKinds
<1>4. ASSUME NEW y, NEW m, NEW z, NEW u, Shows(y, entry, m), Awaited(y, z, u)
      PROVE  Then(y)
  <2>1. Takes("sum", y, z, u) /\ Remains(stack, Len(stack) - 1, u, z)
    BY <1>1, <1>4, ComesAre DEF LoopComes, Awaited, Loops
  <2>2. PICK k, a : /\ Takes("term", y, k, a) \/ HasSign(y, k, a)
                    /\ Continues("exps", a, k, z, u)
    BY <2>1, SumIs
  <2>3. Takes("term", y, k, a)
    BY <1>1, <1>4, <2>2, ShownMark DEF HasSign
  <2>4. LoopComes(f, a, k, z, u) /\ Fitting(f)
    BY <1>2, <2>2 DEF LoopComes, Fitting, Loops
  <2>5. k \in Strings /\ z \in Strings
    BY <2>1, <2>3, TakesWords
  <2>6. Comes(f, a, k, z, u)
    BY <1>2, <2>4, <2>5, ComesAre DEF Loops
  <2>7. Takes(Produces(CallT[1].fn), y, k, a)
    BY <1>3, <2>3
  <2> QED
    BY <1>1, <1>3, <2>1, <2>6, <2>7, CallLeaves
<1> QED
  BY <1>1, <1>4, StayForesees

(* A loop goes on with a left operand.                                     *)
LEMMA LoopForesees ==
  ASSUME IInv, ForeseenInv, status = "running", status' = status, ret' = ret,
         UNCHANGED lexVars, Top.fn \in Loops, NEW info, LoopsWith(info),
         \A y, z, u : Comes(Top, ret.type, y, z, u)
                        => Continues(Top.fn, info.type, y, z, u)
  PROVE  ForeseenInv'
<1> DEFINE f == [Top EXCEPT !.at = "loop", !.left = info]
<1>1. stack' = Resume(f)
  BY DEF LoopsWith
<1>2. f.fn = Top.fn /\ f.at = "loop" /\ f.left = info
  <2>1. DOMAIN Top = FrameFields
    BY <1>1, TopFacts DEF FrameOK
  <2> QED
    BY <1>1, <2>1 DEF FrameFields
<1> HIDE DEF f
<1>3. ASSUME NEW y, NEW m, NEW z, NEW u, Shows(y, entry, m), Comes(Top, ret.type, y, z, u)
      PROVE  Comes(f, ret.type, y, z, u)
  <2>1. Continues(f.fn, f.left.type, y, z, u)
    BY <1>2, <1>3
  <2>2. LoopComes(f, ret.type, y, z, u) /\ Fitting(f)
    BY <1>2, <2>1 DEF LoopComes, Fitting
  <2>3. y \in Strings /\ z \in Strings
    BY <1>3 DEF Comes
  <2> QED
    BY <1>2, <2>2, <2>3, ComesAre
<1> QED
  BY <1>1, <1>3, ResumeForesees

(* The first operand of a loop...                                          *)
LEMMA FirstForesees ==
  ASSUME IInv, ForeseenInv, NEW fn \in Loops, First(fn) PROVE ForeseenInv'
<1>1. status = "running" /\ Top.fn = fn /\ Top.at = "first"
  BY DEF First, At
<1>2. ASSUME NEW y, NEW z, NEW u, Comes(Top, ret.type, y, z, u)
      PROVE  /\ Top.op # "none" => ret.type \in Numbers
             /\ Continues(Top.fn, ret.type, y, z, u)
  BY <1>1, <1>2, ComesAre DEF LoopComes
<1>3. CASE Top.op = "none"
  <2>1. LoopsWith(ret) /\ status' = status /\ ret' = ret /\ UNCHANGED lexVars
    BY <1>3 DEF First, Step, LoopsWith
  <2> QED
    BY <1>1, <1>2, <2>1, LoopForesees
<1>4. CASE Top.op # "none" /\ ~Arithmetic(ret.type)
  <2>1. SemanticError /\ UNCHANGED lexVars
    BY <1>4 DEF First
  <2> QED
    BY <1>1, <1>2, <1>4, <2>1, ErrorForesees DEF Arithmetic, Numbers
<1>5. CASE Top.op # "none" /\ Arithmetic(ret.type)
  <2> DEFINE p == Negate(gen, ret)
  <2>1. LoopsWith(p.info) /\ status' = status /\ ret' = ret /\ UNCHANGED lexVars
    BY <1>5 DEF First, LoopsWith
  <2>2. p.info.type = ret.type
    BY PutMeans DEF Negate
  <2> HIDE DEF p
  <2> QED
    BY <1>1, <1>2, <2>1, <2>2, LoopForesees
<1> QED
  BY <1>3, <1>4, <1>5

(* The operators of syntatic_t do not follow a term, nor those of          *)
(* syntatic_exps a sum.                                                    *)
LEMMA NoOperatorFollows ==
  /\ \A fn \in Loops : After(Produces(fn)) \intersect OperatorsOf(fn) = {}
  /\ After("exp") \intersect Comparisons = {}
<1>1. After(Produces("t")) \intersect OperatorsOf("t") = {}
  BY DEF After, Produces, OperatorsOf, Closing, Comparisons, TermOperators,
         FactorOperators, Comma, Semicolon
<1>2. After(Produces("exps")) \intersect OperatorsOf("exps") = {}
  BY DEF After, Produces, OperatorsOf, Closing, Comparisons, TermOperators,
         FactorOperators, Comma, Semicolon
<1>3. After("exp") \intersect Comparisons = {}
  BY DEF After, Closing, Comparisons, Comma, Semicolon
<1> QED
  BY <1>1, <1>2, <1>3 DEF Loops

(* ...and each operator, ...                                               *)
LEMMA OperatorForesees ==
  ASSUME IInv, MeantInv, ForeseenInv, NEW fn \in Loops, Operator(fn) PROVE ForeseenInv'
<1> DEFINE f == [Top EXCEPT !.at = "operand", !.op = entry.tok]
<1>1. /\ status = "running" /\ Top.fn = fn /\ Top.at = "loop"
      /\ entry.tok \in OperatorsOf(fn) /\ Take(entry.tok, Resume(f) \o CalleeOf(fn))
  BY DEF Operator, At
<1>2. f.fn = fn /\ f.at = "operand" /\ f.op = entry.tok /\ f.left = Top.left
  <2>1. DOMAIN Top = FrameFields
    BY <1>1, TopFacts DEF FrameOK
  <2> QED
    BY <1>1, <2>1 DEF FrameFields
<1> HIDE DEF f
<1>3. ASSUME NEW y, NEW m, NEW z, NEW u, Shows(y, entry, m), Awaited(y, z, u)
      PROVE  \E k, a : Takes(OperandOf(fn), m, k, a) /\ Comes(f, a, k, z, u)
  <2>1. /\ Continues(fn, Top.left.type, y, z, u) /\ Remains(stack, Len(stack) - 1, u, z)
        /\ y \in Strings /\ z \in Strings
    BY <1>1, <1>3, ComesAre DEF LoopComes, Awaited
  <2>2. y # z
    <3>1. ASSUME y = z PROVE FALSE
      <4>1. Remains(stack, Len(stack) - 1, u, y) /\ y # <<>>
        BY <1>3, <2>1, <3>1, ShowsOnce
      <4>2. ShowsOneOf(y, After(Produces(fn)))
        BY <1>1, <4>1, FollowTop DEF Inner, Loops
      <4> QED
        BY <1>1, <1>3, <4>2, ShownTok, NoOperatorFollows
    <3> QED
      BY <3>1
  <2>3. PICK x, c : Links(fn, y, x, Top.left.type, c) /\ Continues(fn, c, x, z, u)
    BY <2>1, <2>2, ContinuesWith
  <2>4. PICK op, k, b :
          /\ Shows(y, Plain(op), k) /\ Takes(OperandOf(fn), k, x, b)
          /\ Joins(op, Top.left.type, b) /\ c = JoinedType(op, Top.left.type, b)
    BY <2>3 DEF Links
  <2>5. op = entry.tok /\ k = m
    BY <1>3, <2>4, ShownMark
  <2>6. LoopComes(f, b, x, z, u) /\ Fitting(f)
    BY <1>2, <2>3, <2>4, <2>5 DEF LoopComes, Fitting
  <2>7. Comes(f, b, x, z, u)
    BY <1>2, <2>1, <2>4, <2>6, TakesWords, ComesAre
  <2> QED
    BY <2>4, <2>5, <2>7
<1>4. Produces(CalleeOf(fn)[1].fn) = OperandOf(fn) /\ CalleeOf(fn) \in Calls
  BY CallKinds DEF CalleeOf, OperandOf, Loops
<1> QED
  BY <1>1, <1>3, <1>4, TakeCallForesees

(* ...where the rules of the parser are those of the grammar, ...          *)
LEMMA AcceptsJoined ==
  ASSUME NEW op \in BinaryOperators, NEW a, NEW b
  PROVE  Accepts(op, a, b) <=> Joins(op, a, b)
BY DEF Accepts, Arithmetic, Joins, Numbers, BinaryOperators, TermOperators,
       FactorOperators, Comparisons

(* The result of an operation has the type of the phrases it joins.        *)
LEMMA CombineTypes ==
  ASSUME GenOK(gen), NEW left, NEW right, InPlace(gen, left), InPlace(gen, right),
         NEW op \in BinaryOperators, Accepts(op, left.type, right.type)
  PROVE  Combine(op, left, right).info.type = JoinedType(op, left.type, right.type)
<1> DEFINE a == Phrase(<<>>, left.type, left.value)
           b == Phrase(<<>>, right.type, right.value)
<1>1. /\ a.type = left.type /\ a.value = left.value
      /\ b.type = right.type /\ b.value = right.value
  BY PhraseFields
<1> HIDE DEF a, b
<1>2. Combine(op, left, right).info.type = Join(a, op, b).type
  BY <1>1, CombineMeans
<1>3. Join(a, op, b).type = JoinedType(op, a.type, b.type)
  BY JoinType
<1> QED
  BY <1>1, <1>2, <1>3

(* ...and each operand.                                                    *)
LEMMA OperandForesees ==
  ASSUME IInv, ForeseenInv, NEW fn \in Loops, Operand(fn) PROVE ForeseenInv'
<1>1. status = "running" /\ Top.fn = fn /\ Top.at = "operand" /\ GenOK(gen)
  BY DEF Operand, At, IInv
<1>2. Top.op \in BinaryOperators /\ InPlace(gen, Top.left) /\ InPlace(gen, ret)
  <2>1. FrameOK(Top) /\ HoldsLeft(Top) /\ Awaits(Top)
    BY <1>1, TopFacts DEF HoldsLeft, Awaits, Loops
  <2> QED
    BY <1>1, <2>1, TopFacts DEF FrameOK, BinaryOperators, OperatorsOf, Loops
<1>3. ASSUME NEW y, NEW z, NEW u, Comes(Top, ret.type, y, z, u)
      PROVE  /\ Accepts(Top.op, Top.left.type, ret.type)
             /\ Continues(Top.fn, JoinedType(Top.op, Top.left.type, ret.type), y, z, u)
  BY <1>1, <1>2, <1>3, ComesAre, AcceptsJoined DEF LoopComes
<1>4. CASE ~Accepts(Top.op, Top.left.type, ret.type)
  <2>1. SemanticError /\ UNCHANGED lexVars
    BY <1>4 DEF Operand
  <2> QED
    BY <1>1, <1>3, <1>4, <2>1, ErrorForesees
<1>5. CASE Accepts(Top.op, Top.left.type, ret.type)
  <2> DEFINE p == Combine(Top.op, Top.left, ret)
  <2>1. BinaryOK(Top.op, Top.left, ret)
    BY <1>1, <1>2, <1>5, CombineGenerates
  <2>2. LoopsWith(p.info) /\ status' = status /\ ret' = ret /\ UNCHANGED lexVars
    BY <1>5, <2>1 DEF Operand, LoopsWith
  <2>3. p.info.type = JoinedType(Top.op, Top.left.type, ret.type)
    BY <1>1, <1>2, <1>5, CombineTypes
  <2> HIDE DEF p
  <2> QED
    BY <1>1, <1>3, <2>2, <2>3, LoopForesees
<1> QED
  BY <1>4, <1>5

LEMMA LastOperandForesees ==
  ASSUME IInv, ForeseenInv, NEW fn \in Loops, LastOperand(fn) PROVE ForeseenInv'
<1>1. /\ status = "running" /\ Top.fn = fn /\ Top.at = "loop"
      /\ entry.tok \notin OperatorsOf(fn) /\ Return(Top.left) /\ UNCHANGED lexVars
  BY DEF LastOperand, At, Back
<1>2. Len(stack) > 1
  BY <1>1, TopFacts DEF Inner, Loops
<1>3. ASSUME NEW y, NEW m, NEW z, NEW u, Shows(y, entry, m), Comes(Top, ret.type, y, z, u)
      PROVE  y = z /\ Top.left.type = u
  <2>1. Continues(fn, Top.left.type, y, z, u)
    BY <1>1, <1>3, ComesAre DEF LoopComes
  <2>2. (y = z /\ Top.left.type = u) \/ ShowsOneOf(y, OperatorsOf(fn))
    BY <2>1, LoopShows
  <2> QED
    BY <1>1, <1>3, <2>2, ShownTok
<1> QED
  BY <1>1, <1>2, <1>3, ReturnForesees

LEMMA OperandsForesee == ASSUME IInv, MeantInv, ForeseenInv, Operands PROVE ForeseenInv'
BY SignForesees, NoSignForesees, FirstForesees, OperatorForesees, OperandForesees,
   LastOperandForesees DEF Operands

-----------------------------------------------------------------------------
(* syntatic_exp                                                            *)

LEMMA ComparisonForesees ==
  ASSUME IInv, MeantInv, ForeseenInv, Comparison PROVE ForeseenInv'
<1> DEFINE f == [Top EXCEPT !.at = "right", !.op = entry.tok, !.left = ret]
<1>1. /\ status = "running" /\ Top.fn = "exp" /\ Top.at = "left"
      /\ entry.tok \in Comparisons /\ Take(entry.tok, Resume(f) \o CallExps)
  BY DEF Comparison, At
<1>2. f.fn = "exp" /\ f.at = "right" /\ f.op = entry.tok /\ f.left = ret
  <2>1. DOMAIN Top = FrameFields
    BY <1>1, TopFacts DEF FrameOK
  <2> QED
    BY <1>1, <2>1 DEF FrameFields
<1> HIDE DEF f
<1>3. ASSUME NEW y, NEW m, NEW z, NEW u, Shows(y, entry, m), Awaited(y, z, u)
      PROVE  \E k, a : Takes("sum", m, k, a) /\ Comes(f, a, k, z, u)
  <2>1. ExpComes(Top, ret.type, y, z, u) /\ Remains(stack, Len(stack) - 1, u, z)
    BY <1>1, <1>3, ComesAre DEF Awaited
  <2>2. y # z
    <3>1. ASSUME y = z PROVE FALSE
      <4>1. Remains(stack, Len(stack) - 1, u, y) /\ y # <<>>
        BY <1>3, <2>1, <3>1, ShowsOnce
      <4>2. ShowsOneOf(y, After("exp"))
        BY <1>1, <4>1, FollowTop DEF Inner, Produces
      <4> QED
        BY <1>1, <1>3, <4>2, ShownTok, NoOperatorFollows
    <3> QED
      BY <3>1
  <2>3. /\ u = "logic"
        /\ \E op \in Comparisons : \E k, c :
             Shows(y, Plain(op), k) /\ Takes("sum", k, z, c) /\ Joins(op, ret.type, c)
    BY <1>1, <2>1, <2>2 DEF ExpComes
  <2>4. PICK op, k, c :
          Shows(y, Plain(op), k) /\ Takes("sum", k, z, c) /\ Joins(op, ret.type, c)
    BY <2>3
  <2>5. op = entry.tok /\ k = m
    BY <1>3, <2>4, ShownMark
  <2>6. ExpComes(f, c, z, z, u) /\ Fitting(f)
    BY <1>2, <2>3, <2>4, <2>5 DEF ExpComes, Fitting
  <2>7. Comes(f, c, z, z, u)
    BY <1>2, <2>4, <2>6, TakesWords, ComesAre
  <2> QED
    BY <2>4, <2>5, <2>7
<1>4. Produces(CallExps[1].fn) = "sum" /\ CallExps \in Calls
  BY CallKinds
<1> QED
  BY <1>1, <1>3, <1>4, TakeCallForesees

LEMMA NoComparisonForesees ==
  ASSUME IInv, ForeseenInv, NoComparison PROVE ForeseenInv'
<1>1. /\ status = "running" /\ Top.fn = "exp" /\ Top.at = "left"
      /\ entry.tok \notin Comparisons /\ Return(ret) /\ UNCHANGED lexVars
  BY DEF NoComparison, At, Back
<1>2. Len(stack) > 1
  BY <1>1, TopFacts DEF Inner
<1>3. ASSUME NEW y, NEW m, NEW z, NEW u, Shows(y, entry, m), Comes(Top, ret.type, y, z, u)
      PROVE  y = z /\ ret.type = u
  <2>1. \/ y = z /\ u = ret.type
        \/ \E op \in Comparisons : \E k : Shows(y, Plain(op), k)
    BY <1>1, <1>3, ComesAre DEF ExpComes
  <2> QED
    BY <1>1, <1>3, <2>1, ShownMark
<1> QED
  BY <1>1, <1>2, <1>3, ReturnForesees

LEMMA CompareForesees == ASSUME IInv, ForeseenInv, Compare PROVE ForeseenInv'
<1>1. status = "running" /\ Top.fn = "exp" /\ Top.at = "right" /\ GenOK(gen)
  BY DEF Compare, At, IInv
<1>2. /\ Top.op \in BinaryOperators /\ Top.op \in Comparisons
      /\ InPlace(gen, Top.left) /\ InPlace(gen, ret)
  <2>1. FrameOK(Top) /\ HoldsLeft(Top) /\ Awaits(Top)
    BY <1>1, TopFacts DEF HoldsLeft, Awaits
  <2> QED
    BY <1>1, <2>1, TopFacts DEF FrameOK, BinaryOperators
<1>3. ASSUME NEW y, NEW z, NEW u, Comes(Top, ret.type, y, z, u)
      PROVE  Accepts(Top.op, Top.left.type, ret.type) /\ y = z /\ u = "logic"
  BY <1>1, <1>2, <1>3, ComesAre, AcceptsJoined DEF ExpComes
<1>4. CASE ~Accepts(Top.op, Top.left.type, ret.type)
  <2>1. SemanticError /\ UNCHANGED lexVars
    BY <1>4 DEF Compare
  <2> QED
    BY <1>1, <1>3, <1>4, <2>1, ErrorForesees
<1>5. CASE Accepts(Top.op, Top.left.type, ret.type)
  <2> DEFINE p == Combine(Top.op, Top.left, ret)
  <2>1. BinaryOK(Top.op, Top.left, ret)
    BY <1>1, <1>2, <1>5, CombineGenerates
  <2>2. Return(p.info) /\ UNCHANGED lexVars
    BY <1>5, <2>1 DEF Compare
  <2>3. p.info.type = "logic"
    BY <1>1, <1>2, <1>5, CombineTypes DEF JoinedType
  <2> HIDE DEF p
  <2>4. Len(stack) > 1
    BY <1>1, TopFacts DEF Inner
  <2> QED
    BY <1>1, <1>3, <2>2, <2>3, <2>4, ReturnForesees
<1> QED
  BY <1>4, <1>5

LEMMA ExpressionForesees ==
  ASSUME IInv, MeantInv, ForeseenInv, Expression PROVE ForeseenInv'
BY ComparisonForesees, NoComparisonForesees, CompareForesees DEF Expression

-----------------------------------------------------------------------------
(* The functions of the commands.                                          *)

(* A command calls for an expression, or goes on, at a token.              *)
LEMMA CommandCallForesees ==
  ASSUME IInv, ForeseenInv, status = "running", NEW tok, NEW at,
         Take(tok, GoOn(at) \o CallExp),
         \A f, y, m, z, u : Moves(f, at) /\ entry.tok = tok /\ Shows(y, entry, m)
                                         /\ Awaited(y, z, u)
           => \E k, a : Takes("exp", m, k, a) /\ Comes(f, a, k, z, u)
  PROVE  ForeseenInv'
<1> DEFINE f == [Top EXCEPT !.at = at]
<1>1. Moves(f, at)
  BY TopMoved, Zenon DEF Moves
<1>2. Take(tok, Resume(f) \o CallExp)
  BY DEF GoOn
<1> HIDE DEF f
<1>3. Produces(CallExp[1].fn) = "exp" /\ CallExp \in Calls
  BY CallKinds
<1>4. \A y, m, z, u : entry.tok = tok /\ Shows(y, entry, m) /\ Awaited(y, z, u)
        => \E k, a : Takes("exp", m, k, a) /\ Comes(f, a, k, z, u)
  BY <1>1
<1> QED
  BY <1>2, <1>3, <1>4, TakeCallForesees

LEMMA CommandMoveForesees ==
  ASSUME IInv, ForeseenInv, status = "running", NEW tok, NEW at, Take(tok, GoOn(at)),
         \A f, y, m, z, u : Moves(f, at) /\ entry.tok = tok /\ Shows(y, entry, m)
                                         /\ Comes(Top, ret.type, y, z, u)
           => Comes(f, ret.type, m, z, u)
  PROVE  ForeseenInv'
<1> DEFINE f == [Top EXCEPT !.at = at]
<1>1. Moves(f, at)
  BY TopMoved, Zenon DEF Moves
<1>2. Take(tok, Resume(f))
  BY DEF GoOn
<1> HIDE DEF f
<1>3. \A y, m, z, u : entry.tok = tok /\ Shows(y, entry, m) /\ Awaited(y, z, u)
        => Comes(f, ret.type, m, z, u)
  BY <1>1 DEF Awaited
<1> QED
  BY <1>2, <1>3, TakeForesees

(* The last token of a command.                                            *)
LEMMA TakeLastForesees == ASSUME NEW tok, TakeLast(tok) PROVE ForeseenInv'
BY FailForesees, EndForesees DEF TakeLast, Finish

-----------------------------------------------------------------------------
(* syntatic_paren_exp                                                      *)

LEMMA ParenExpStartForesees ==
  ASSUME IInv, ForeseenInv, ParenExpStart PROVE ForeseenInv'
<1>1. /\ status = "running" /\ Top.fn = "paren" /\ Top.at = "start"
      /\ Take("(", GoOn(")") \o CallExp)
  BY DEF ParenExpStart, At
<1>2. ASSUME NEW f, NEW y, NEW m, NEW z, NEW u, Moves(f, ")"), Shows(y, entry, m),
             Awaited(y, z, u)
      PROVE  \E k, a : Takes("exp", m, k, a) /\ Comes(f, a, k, z, u)
  <2>1. \E k : Shows(y, Plain("("), k) /\ Inside(k, "logic", ")", z)
    BY <1>1, <1>2, ComesAre DEF ParenComes, Awaited
  <2>2. PICK k : Takes("exp", m, k, "logic") /\ Shows(k, Plain(")"), z)
    BY <1>2, <2>1, ShownMark DEF Inside
  <2>3. f.fn = "paren" /\ f.at = ")"
    BY <1>1, <1>2 DEF Moves
  <2>4. ParenComes(f, "logic", k, z) /\ Fitting(f)
    BY <2>2, <2>3 DEF ParenComes, Fitting
  <2>5. Comes(f, "logic", k, z, u)
    BY <2>2, <2>3, <2>4, ShowsOnce, ComesAre
  <2> QED
    BY <2>2, <2>5
<1> QED
  BY <1>1, <1>2, CommandCallForesees

LEMMA ParenExpEndForesees == ASSUME IInv, ForeseenInv, ParenExpEnd PROVE ForeseenInv'
<1>1. status = "running" /\ Top.fn = "paren" /\ Top.at = ")"
  BY DEF ParenExpEnd, At
<1>2. CASE Fail
  BY <1>2, FailForesees
<1>3. CASE ret.type # "logic"
  <2>1. SemanticError /\ UNCHANGED lexVars
    BY <1>3 DEF ParenExpEnd
  <2>2. ASSUME NEW y, NEW z, NEW u, Comes(Top, ret.type, y, z, u) PROVE FALSE
    BY <1>1, <1>3, <2>2, ComesAre DEF ParenComes
  <2> QED
    BY <1>1, <2>1, <2>2, ErrorForesees
<1>4. CASE ~Fail /\ ret.type = "logic"
  <2>1. status' = "ok"
    BY <1>4 DEF ParenExpEnd, Finish
  <2> QED
    BY <2>1, EndForesees
<1> QED
  BY <1>2, <1>3, <1>4

-----------------------------------------------------------------------------
(* syntatic_write                                                          *)

(* What is left of a list and after it.                                    *)
LEMMA WriteGoesOn ==
  ASSUME NEW f, f.fn = "write", f.at \in {"first", "next", Comma},
         NEW y, NEW z, y \in Strings, z \in Strings, ListGoesOn(y, z), NEW t, NEW u
  PROVE  Comes(f, t, y, z, u)
<1>1. f.at \notin {"start", "(", Semicolon}
  BY Punctuation DEF Places
<1>2. WriteComes(f, y, z) /\ Fitting(f)
  BY <1>1 DEF WriteComes, Fitting
<1> QED
  BY <1>2, ComesAre

LEMMA WriteFirstForesees ==
  ASSUME IInv, ForeseenInv, At("write", "("), Take("(", GoOn("first") \o CallExp)
  PROVE  ForeseenInv'
<1>1. status = "running" /\ Top.fn = "write" /\ Top.at = "("
  BY DEF At
<1>2. ASSUME NEW f, NEW y, NEW m, NEW z, NEW u, Moves(f, "first"), Shows(y, entry, m),
             Awaited(y, z, u)
      PROVE  \E k, a : Takes("exp", m, k, a) /\ Comes(f, a, k, z, u)
  <2>1. Lists(y, z) /\ z \in Strings
    BY <1>1, <1>2, ComesAre DEF WriteComes, Awaited
  <2>2. PICK x, k : Shows(y, Plain("("), x) /\ Takes("list", x, k, "none") /\ Closes(k, z)
    BY <2>1 DEF Lists
  <2>3. Takes("list", m, k, "none")
    BY <1>2, <2>2, ShownMark
  <2>4. Divided("write", m, k, "none")
    BY <2>3, Divides DEF LoopOf
  <2>5. PICK n, a : n \in Strings /\ Starts("write", m, n, a)
                    /\ Continues("write", a, n, k, "none")
    BY <2>4 DEF Divided
  <2>6. PICK c : a = "none" /\ Takes("exp", m, n, c)
    BY <2>5 DEF Starts
  <2>7. ListGoesOn(n, z)
    BY <2>2, <2>5, <2>6 DEF ListGoesOn
  <2>8. f.fn = "write" /\ f.at = "first"
    BY <1>1, <1>2 DEF Moves
  <2>9. Comes(f, c, n, z, u)
    BY <2>1, <2>5, <2>7, <2>8, WriteGoesOn
  <2> QED
    BY <2>6, <2>9
<1> QED
  BY <1>1, <1>2, CommandCallForesees

LEMMA WriteNameForesees ==
  ASSUME IInv, ForeseenInv, At("write", "start"), NEW f,
         f = [Top EXCEPT !.at = "(", !.op = entry.tok], Take(entry.tok, Resume(f))
  PROVE  ForeseenInv'
<1>1. status = "running" /\ Top.fn = "write" /\ Top.at = "start"
  BY DEF At
<1>2. f.fn = "write" /\ f.at = "("
  <2>1. DOMAIN Top = FrameFields
    BY <1>1, TopFacts DEF FrameOK
  <2> QED
    BY <1>1, <2>1 DEF FrameFields
<1>3. ASSUME NEW y, NEW m, NEW z, NEW u, Shows(y, entry, m), Awaited(y, z, u)
      PROVE  Comes(f, ret.type, m, z, u)
  <2>1. z \in Strings /\ \E k, x : Shows(y, k, x) /\ Lists(x, z)
    BY <1>1, <1>3, ComesAre DEF WriteComes, Awaited
  <2>2. Lists(m, z) /\ m \in Strings
    BY <1>3, <2>1, ShowsOnce
  <2>3. f.at # Comma /\ f.at # Semicolon
    BY <1>2, Punctuation DEF Places
  <2>4. WriteComes(f, m, z) /\ Fitting(f)
    BY <1>2, <2>2, <2>3 DEF WriteComes, Fitting
  <2> QED
    BY <1>2, <2>1, <2>2, <2>4, ComesAre
<1> QED
  BY <1>1, <1>3, TakeForesees

LEMMA WriteStartForesees == ASSUME IInv, ForeseenInv, WriteStart PROVE ForeseenInv'
BY WriteNameForesees, WriteFirstForesees DEF WriteStart

LEMMA WriteForesees ==
  ASSUME IInv, ForeseenInv, status = "running", Top.fn = "write",
         Top.at \in {"first", "next"}, NEW g, Write(g)
  PROVE  ForeseenInv'
<1> DEFINE f == [Top EXCEPT !.at = Comma]
<1>1. stack' = Resume(f) /\ UNCHANGED lexVars /\ ret' = ret /\ status' = status
  BY WriteIs DEF GoOn
<1>2. f.fn = "write" /\ f.at = Comma
  BY TopMoved
<1> HIDE DEF f
<1>3. ASSUME NEW y, NEW m, NEW z, NEW u, Shows(y, entry, m), Comes(Top, ret.type, y, z, u)
      PROVE  Comes(f, ret.type, y, z, u)
  <2>1. ListGoesOn(y, z) /\ y \in Strings /\ z \in Strings
    BY <1>3, ComesAre DEF WriteComes
  <2> QED
    BY <1>2, <2>1, WriteGoesOn
<1> QED
  BY <1>1, <1>3, ResumeForesees

LEMMA WriteValueForesees == ASSUME IInv, ForeseenInv, WriteValue PROVE ForeseenInv'
BY WriteForesees DEF WriteValue, At

LEMMA WriteNextForesees == ASSUME IInv, ForeseenInv, WriteNext PROVE ForeseenInv'
<1>1. /\ status = "running" /\ Top.fn = "write" /\ Top.at = Comma
      /\ Take(Comma, GoOn("next") \o CallExp) /\ entry.tok = Comma
  BY WriteNextIs DEF At
<1>2. ASSUME NEW f, NEW y, NEW m, NEW z, NEW u, Moves(f, "next"), Shows(y, entry, m),
             Awaited(y, z, u)
      PROVE  \E k, a : Takes("exp", m, k, a) /\ Comes(f, a, k, z, u)
  <2>1. ListGoesOn(y, z) /\ z \in Strings
    BY <1>1, <1>2, ComesAre DEF WriteComes, Awaited
  <2>2. PICK x : Continues("write", "none", y, x, "none") /\ Closes(x, z)
    BY <2>1 DEF ListGoesOn
  <2>3. y # x
    <3>1. Comma # ")"
      BY Punctuation DEF Places
    <3> QED
      BY <1>1, <1>2, <2>2, <3>1, ShownMark DEF Closes
  <2>4. PICK k, c : /\ k \in Strings /\ Links("write", y, k, "none", c)
                    /\ Continues("write", c, k, x, "none")
    BY <2>2, <2>3, ContinuesWith
  <2>5. c = "none" /\ \E n, a : Shows(y, Plain(Comma), n) /\ Takes("exp", n, k, a)
    BY <2>4 DEF Links, Loops
  <2>6. PICK a : Takes("exp", m, k, a)
    BY <1>2, <2>5, ShownMark
  <2>7. ListGoesOn(k, z)
    BY <2>2, <2>4, <2>5 DEF ListGoesOn
  <2>8. f.fn = "write" /\ f.at = "next"
    BY <1>1, <1>2 DEF Moves
  <2>9. Comes(f, a, k, z, u)
    BY <2>1, <2>4, <2>7, <2>8, WriteGoesOn
  <2> QED
    BY <2>6, <2>9
<1> QED
  BY <1>1, <1>2, CommandCallForesees

LEMMA ListEndForesees ==
  ASSUME IInv, ForeseenInv, At("write", Comma), entry.tok # Comma,
         Take(")", GoOn(Semicolon))
  PROVE  ForeseenInv'
<1>1. status = "running" /\ Top.fn = "write" /\ Top.at = Comma
  BY DEF At
<1>2. ASSUME NEW f, NEW y, NEW m, NEW z, NEW u, Moves(f, Semicolon), Shows(y, entry, m),
             Comes(Top, ret.type, y, z, u)
      PROVE  Comes(f, ret.type, m, z, u)
  <2>1. ListGoesOn(y, z) /\ z \in Strings
    BY <1>1, <1>2, ComesAre DEF WriteComes
  <2>2. PICK x : Continues("write", "none", y, x, "none") /\ Closes(x, z)
    BY <2>1 DEF ListGoesOn
  <2>3. y = x
    <3>1. ASSUME NEW k, NEW c, Links("write", y, k, "none", c) PROVE FALSE
      <4>1. \E n : Shows(y, Plain(Comma), n)
        BY <3>1 DEF Links, Loops
      <4> QED
        BY <1>2, <4>1, ShownMark
    <3> QED
      BY <2>2, <3>1, ContinuesWith
  <2>4. Ends(m, z)
    BY <1>2, <2>2, <2>3, ShownMark DEF Closes
  <2>5. f.fn = "write" /\ f.at = Semicolon
    BY <1>1, <1>2 DEF Moves
  <2>6. f.at \notin {"start", "(", "first", "next", Comma}
    BY <2>5, Punctuation DEF Places
  <2>7. WriteComes(f, m, z) /\ Fitting(f) /\ m \in Strings
    BY <1>2, <2>4, <2>5, <2>6, ShowsOnce DEF WriteComes, Fitting
  <2> QED
    BY <2>1, <2>5, <2>7, ComesAre
<1> QED
  BY <1>1, <1>2, CommandMoveForesees

LEMMA WriteEndForesees == ASSUME IInv, ForeseenInv, WriteEnd PROVE ForeseenInv'
BY WriteEndIs, ListEndForesees, TakeLastForesees

-----------------------------------------------------------------------------
(* syntatic_read                                                           *)

(* What is left of the command at a place.                                 *)
LEMMA ReadGoesOn ==
  ASSUME NEW f, f.fn = "readln", NEW y, NEW z, y \in Strings, z \in Strings, NEW t, NEW u,
         \/ f.at = "(" /\ \E m : Shows(y, Plain("("), m) /\ NameComes(m, z)
         \/ f.at = "id" /\ NameComes(y, z)
         \/ f.at = ")" /\ Closes(y, z)
         \/ f.at = Semicolon /\ Ends(y, z)
  PROVE  Comes(f, t, y, z, u)
<1>1. Semicolon \notin {"start", "(", "id", ")"}
  BY Punctuation DEF Places
<1>2. ReadComes(f, y, z) /\ Fitting(f)
  BY <1>1 DEF ReadComes, Fitting
<1> QED
  BY <1>2, ComesAre

LEMMA ReadFirstForesees ==
  ASSUME IInv, ForeseenInv, At("readln", "start"), Take("readln", GoOn("("))
  PROVE  ForeseenInv'
<1>1. status = "running" /\ Top.fn = "readln" /\ Top.at = "start"
  BY DEF At
<1>2. ASSUME NEW f, NEW y, NEW m, NEW z, NEW u, Moves(f, "("), Shows(y, entry, m),
             Comes(Top, ret.type, y, z, u)
      PROVE  Comes(f, ret.type, m, z, u)
  <2>1. /\ z \in Strings
        /\ \E x, k : /\ Shows(y, Plain("readln"), x) /\ Shows(x, Plain("("), k)
                     /\ NameComes(k, z)
    BY <1>1, <1>2, ComesAre DEF ReadComes
  <2>2. m \in Strings /\ \E k : Shows(m, Plain("("), k) /\ NameComes(k, z)
    BY <1>2, <2>1, ShownMark, ShowsOnce
  <2>3. f.fn = "readln" /\ f.at = "("
    BY <1>1, <1>2 DEF Moves
  <2> QED
    BY <2>1, <2>2, <2>3, ReadGoesOn
<1> QED
  BY <1>1, <1>2, CommandMoveForesees

LEMMA ReadOpenForesees ==
  ASSUME IInv, ForeseenInv, At("readln", "("), Take("(", GoOn("id"))
  PROVE  ForeseenInv'
<1>1. status = "running" /\ Top.fn = "readln" /\ Top.at = "("
  BY DEF At
<1>2. ASSUME NEW f, NEW y, NEW m, NEW z, NEW u, Moves(f, "id"), Shows(y, entry, m),
             Comes(Top, ret.type, y, z, u)
      PROVE  Comes(f, ret.type, m, z, u)
  <2>1. z \in Strings /\ \E k : Shows(y, Plain("("), k) /\ NameComes(k, z)
    BY <1>1, <1>2, ComesAre DEF ReadComes
  <2>2. m \in Strings /\ NameComes(m, z)
    BY <1>2, <2>1, ShownMark, ShowsOnce
  <2>3. f.fn = "readln" /\ f.at = "id"
    BY <1>1, <1>2 DEF Moves
  <2> QED
    BY <2>1, <2>2, <2>3, ReadGoesOn
<1> QED
  BY <1>1, <1>2, CommandMoveForesees

LEMMA ReadStartForesees == ASSUME IInv, ForeseenInv, ReadStart PROVE ForeseenInv'
BY ReadFirstForesees, ReadOpenForesees DEF ReadStart

LEMMA ReadForesees == ASSUME IInv, ForeseenInv, Read PROVE ForeseenInv'
<1>1. status = "running" /\ Top.fn = "readln" /\ Top.at = "id"
  BY DEF Read, At
<1>2. ASSUME NEW y, NEW m, NEW z, NEW u, Shows(y, entry, m), Awaited(y, z, u)
      PROVE  /\ entry \in Variables /\ Closes(m, z) /\ m \in Strings /\ z \in Strings
             /\ Remains(stack, Len(stack) - 1, u, z)
  <2>1. NameComes(y, z) /\ z \in Strings /\ Remains(stack, Len(stack) - 1, u, z)
    BY <1>1, <1>2, ComesAre DEF ReadComes, Awaited
  <2>2. PICK v \in Variables : \E x : Shows(y, v, x) /\ Closes(x, z)
    BY <2>1 DEF NameComes
  <2> QED
    BY <1>2, <2>1, <2>2, ShowsOnce
<1>3. CASE Fail
  BY <1>3, FailForesees
<1>4. CASE ~Fail /\ (entry.type = "none" \/ entry.class # "var")
  <2>1. Match("identifier") /\ status' = "mismatch"
    BY <1>4 DEF Read, SemanticError
  <2>2. \A t \in Variables : t.type # "none" /\ t.class = "var"
    BY SymbolsAssumption DEF Variables, Types
  <2> QED
    BY <1>1, <1>2, <1>4, <2>1, <2>2, MatchRejects
<1>5. CASE ~Fail /\ ~(entry.type = "none" \/ entry.class # "var")
  <2> DEFINE f == [Top EXCEPT !.at = ")"]
  <2>1. Match("identifier") /\ stack' = Resume(f) /\ ret' = ret /\ status' = status
    BY <1>5, Zenon DEF Read, GoOn
  <2>2. f.fn = "readln" /\ f.at = ")"
    BY <1>1, TopMoved
  <2> HIDE DEF f
  <2>3. ASSUME NEW y, NEW m, NEW z, NEW u, Shows(y, entry, m), Awaited(y, z, u)
        PROVE  Then(m)
    <3>1. /\ Closes(m, z) /\ m \in Strings /\ z \in Strings
          /\ Remains(stack, Len(stack) - 1, u, z)
      BY <1>2, <2>3
    <3>2. Comes(f, ret'.type, m, z, u)
      BY <2>2, <3>1, ReadGoesOn
    <3> QED
      BY <1>1, <2>1, <3>1, <3>2, ResumeLeaves
  <2> QED
    BY <1>1, <2>1, <2>3, MatchForesees
<1> QED
  BY <1>3, <1>4, <1>5

(* After the variable.                                                     *)
LEMMA ReadCloseForesees ==
  ASSUME IInv, ForeseenInv, At("readln", ")"), Take(")", GoOn(Semicolon))
  PROVE  ForeseenInv'
<1>1. status = "running" /\ Top.fn = "readln" /\ Top.at = ")"
  BY DEF At
<1>2. ASSUME NEW f, NEW y, NEW m, NEW z, NEW u, Moves(f, Semicolon), Shows(y, entry, m),
             Comes(Top, ret.type, y, z, u)
      PROVE  Comes(f, ret.type, m, z, u)
  <2>1. z \in Strings /\ Closes(y, z)
    BY <1>1, <1>2, ComesAre DEF ReadComes
  <2>2. m \in Strings /\ Ends(m, z)
    BY <1>2, <2>1, ShownMark, ShowsOnce DEF Closes
  <2>3. f.fn = "readln" /\ f.at = Semicolon
    BY <1>1, <1>2 DEF Moves
  <2> QED
    BY <2>1, <2>2, <2>3, ReadGoesOn
<1> QED
  BY <1>1, <1>2, CommandMoveForesees

LEMMA ReadEndForesees == ASSUME IInv, ForeseenInv, ReadEnd PROVE ForeseenInv'
BY ReadEndIs, ReadCloseForesees, TakeLastForesees

-----------------------------------------------------------------------------
(* syntatic_attr                                                           *)

(* What is left of an assignment at a place.                               *)
LEMMA AttrGoesOn ==
  ASSUME NEW f, f.fn = "attr", NEW y, NEW z, y \in Strings, z \in Strings, NEW t, NEW u,
         \/ f.at = "id" /\ TargetComes(f.symbol, y, z)
         \/ f.at = "]" /\ t = "int" /\ \E m : Shows(y, Plain("]"), m) /\ ValueComes(m, z, "char")
         \/ f.at = ":=" /\ ValueComes(y, z, "char")
         \/ /\ f.at = "value" /\ t = (IF f.op = "index" THEN "char" ELSE f.symbol.type)
            /\ Ends(y, z)
  PROVE  Comes(f, t, y, z, u)
<1>1. AttrComes(f, t, y, z) /\ Fitting(f)
  BY DEF AttrComes, Fitting
<1> QED
  BY <1>1, ComesAre

LEMMA AttrStartForesees == ASSUME IInv, ForeseenInv, AttrStart PROVE ForeseenInv'
<1>1. status = "running" /\ Top.fn = "attr" /\ Top.at = "start"
  BY DEF AttrStart, At
<1>2. ASSUME NEW y, NEW m, NEW z, NEW u, Shows(y, entry, m), Awaited(y, z, u)
      PROVE  entry \in Variables /\ TargetComes(entry, m, z) /\ m \in Strings /\ z \in Strings
  <2>1. z \in Strings /\ \E v \in Variables : \E x : Shows(y, v, x) /\ TargetComes(v, x, z)
    BY <1>1, <1>2, ComesAre DEF AttrComes, Awaited
  <2>2. PICK v \in Variables : \E x : Shows(y, v, x) /\ TargetComes(v, x, z)
    BY <2>1
  <2> QED
    BY <1>2, <2>1, <2>2, ShowsOnce
<1>3. CASE Fail
  BY <1>3, FailForesees
<1>4. CASE ~Fail /\ (entry.type = "none" \/ entry.class # "var")
  <2>1. Match("identifier") /\ status' = "mismatch"
    BY <1>4 DEF AttrStart, SemanticError
  <2>2. \A t \in Variables : t.type # "none" /\ t.class = "var"
    BY SymbolsAssumption DEF Variables, Types
  <2> QED
    BY <1>1, <1>2, <1>4, <2>1, <2>2, MatchRejects
<1>5. CASE ~Fail /\ ~(entry.type = "none" \/ entry.class # "var")
  <2> DEFINE f == [Top EXCEPT !.at = "id", !.symbol = entry]
  <2>1. Take("identifier", Resume(f))
    BY <1>5 DEF AttrStart, Take
  <2>2. f.fn = "attr" /\ f.at = "id" /\ f.symbol = entry
    <3>1. DOMAIN Top = FrameFields
      BY <1>1, TopFacts DEF FrameOK
    <3> QED
      BY <1>1, <3>1 DEF FrameFields
  <2> HIDE DEF f
  <2>3. ASSUME NEW y, NEW m, NEW z, NEW u, Shows(y, entry, m), Awaited(y, z, u)
        PROVE  Comes(f, ret.type, m, z, u)
    BY <1>2, <2>2, <2>3, AttrGoesOn
  <2> QED
    BY <1>1, <2>1, <2>3, TakeForesees
<1> QED
  BY <1>3, <1>4, <1>5

(* The target of an assignment is indexed, or its value comes.             *)
LEMMA TargetIs ==
  ASSUME NEW s, NEW y, NEW m, NEW z, Shows(y, entry, m), TargetComes(s, y, z)
  PROVE  /\ entry.tok = "[" => /\ s.type = "string"
                               /\ \E k : Inside(m, "int", "]", k) /\ ValueComes(k, z, "char")
         /\ entry.tok # "[" => ValueComes(y, z, s.type)
<1>1. CASE ValueComes(y, z, s.type)
  <2>1. \E x : Shows(y, Plain(":="), x)
    BY <1>1 DEF ValueComes
  <2> QED
    BY <1>1, <2>1, ShownMark
<1>2. CASE /\ s.type = "string"
           /\ \E x, k : /\ Shows(y, Plain("["), x) /\ Inside(x, "int", "]", k)
                        /\ ValueComes(k, z, "char")
  BY <1>2, ShownMark
<1> QED
  BY <1>1, <1>2 DEF TargetComes

LEMMA AttrIndexStartForesees == ASSUME IInv, ForeseenInv, AttrIndexStart PROVE ForeseenInv'
<1>1. status = "running" /\ Top.fn = "attr" /\ Top.at = "id" /\ entry.tok = "["
  BY DEF AttrIndexStart, At
<1>2. ASSUME NEW y, NEW m, NEW z, NEW u, Shows(y, entry, m), Awaited(y, z, u)
      PROVE  /\ Top.symbol.type = "string" /\ z \in Strings
             /\ \E k : Inside(m, "int", "]", k) /\ ValueComes(k, z, "char")
  <2>1. z \in Strings /\ TargetComes(Top.symbol, y, z)
    BY <1>1, <1>2, ComesAre DEF AttrComes, Awaited
  <2> QED
    BY <1>1, <1>2, <2>1, TargetIs
<1>3. CASE Fail
  BY <1>3, FailForesees
<1>4. CASE ~Fail /\ Top.symbol.type # "string"
  <2>1. Match("[") /\ status' = "mismatch"
    BY <1>4 DEF AttrIndexStart, SemanticError
  <2> QED
    BY <1>1, <1>2, <1>4, <2>1, MatchRejects
<1>5. CASE ~Fail /\ Top.symbol.type = "string"
  <2>1. Take("[", GoOn("]") \o CallExp)
    BY <1>5 DEF AttrIndexStart, Take
  <2>2. ASSUME NEW f, NEW y, NEW m, NEW z, NEW u, Moves(f, "]"), Shows(y, entry, m),
               Awaited(y, z, u)
        PROVE  \E k, a : Takes("exp", m, k, a) /\ Comes(f, a, k, z, u)
    <3>1. PICK x : Inside(m, "int", "]", x) /\ ValueComes(x, z, "char")
      BY <1>2, <2>2
    <3>2. PICK k : Takes("exp", m, k, "int") /\ Shows(k, Plain("]"), x)
      BY <3>1 DEF Inside
    <3>3. f.fn = "attr" /\ f.at = "]"
      BY <1>1, <2>2 DEF Moves
    <3>4. k \in Strings /\ z \in Strings
      BY <1>2, <2>2, <3>2, ShowsOnce
    <3>5. Comes(f, "int", k, z, u)
      BY <3>1, <3>2, <3>3, <3>4, AttrGoesOn
    <3> QED
      BY <3>2, <3>5
  <2> QED
    BY <1>1, <2>1, <2>2, CommandCallForesees
<1> QED
  BY <1>3, <1>4, <1>5

LEMMA AttrIndexEndForesees == ASSUME IInv, ForeseenInv, AttrIndexEnd PROVE ForeseenInv'
<1>1. status = "running" /\ Top.fn = "attr" /\ Top.at = "]"
  BY DEF AttrIndexEnd, At
<1>2. ASSUME NEW y, NEW z, NEW u, Comes(Top, ret.type, y, z, u)
      PROVE  /\ ret.type = "int" /\ z \in Strings
             /\ \E m : Shows(y, Plain("]"), m) /\ ValueComes(m, z, "char")
  BY <1>1, <1>2, ComesAre DEF AttrComes
<1>3. CASE ret.type # "int"
  <2>1. SemanticError /\ UNCHANGED lexVars
    BY <1>3 DEF AttrIndexEnd
  <2> QED
    BY <1>1, <1>2, <1>3, <2>1, ErrorForesees
<1>4. CASE ret.type = "int"
  <2> DEFINE f == [Top EXCEPT !.at = ":=", !.op = "index", !.left = ret]
  <2>1. Take("]", Resume(f))
    BY <1>4 DEF AttrIndexEnd
  <2>2. f.fn = "attr" /\ f.at = ":="
    <3>1. DOMAIN Top = FrameFields
      BY <1>1, TopFacts DEF FrameOK
    <3> QED
      BY <1>1, <3>1 DEF FrameFields
  <2> HIDE DEF f
  <2>3. ASSUME NEW y, NEW m, NEW z, NEW u, Shows(y, entry, m), Awaited(y, z, u)
        PROVE  Comes(f, ret.type, m, z, u)
    <3>1. ValueComes(m, z, "char") /\ z \in Strings /\ m \in Strings
      BY <1>2, <2>3, ShownMark, ShowsOnce DEF Awaited
    <3> QED
      BY <2>2, <3>1, AttrGoesOn
  <2> QED
    BY <1>1, <2>1, <2>3, TakeForesees
<1> QED
  BY <1>3, <1>4

(* A target is noted as indexed when its index has been read.              *)
LEMMA IndexNoted ==
  ASSUME IInv, MeantInv, status = "running", Top.fn = "attr"
  PROVE  /\ Top.at = "id" => Top.op # "index"
         /\ Top.at = ":=" => Top.op = "index"
<1>1. PICK w : HasRead(Top, w, effects, entry.tok, ret)
  BY Telling
<1>2. ASSUME Top.at \in {"id", ":="} PROVE AttrBegun(Top, w, effects)
  <2>1. ~Awaits(Top)
    BY <1>2 DEF Awaits
  <2> QED
    BY <1>1, <2>1, OwnTokens, BegunIs
<1> QED
  BY <1>2 DEF AttrBegun

LEMMA AttrValueForesees == ASSUME IInv, MeantInv, ForeseenInv, AttrValue PROVE ForeseenInv'
<1>1. /\ status = "running" /\ Top.fn = "attr" /\ Take(":=", GoOn("value") \o CallExp)
      /\ Top.at = ":=" \/ (Top.at = "id" /\ entry.tok # "[")
  BY DEF AttrValue, At
<1> DEFINE type == IF Top.op = "index" THEN "char" ELSE Top.symbol.type
<1>2. ASSUME NEW y, NEW m, NEW z, NEW u, Shows(y, entry, m), Awaited(y, z, u)
      PROVE  ValueComes(y, z, type) /\ z \in Strings
  <2>1. AttrComes(Top, ret.type, y, z) /\ z \in Strings
    BY <1>1, <1>2, ComesAre DEF Awaited
  <2>2. CASE Top.at = "id"
    <3>1. TargetComes(Top.symbol, y, z) /\ entry.tok # "[" /\ Top.op # "index"
      BY <1>1, <2>1, <2>2, IndexNoted DEF AttrComes
    <3> QED
      BY <1>2, <2>1, <3>1, TargetIs
  <2>3. CASE Top.at = ":="
    BY <1>1, <2>1, <2>3, IndexNoted DEF AttrComes
  <2> QED
    BY <1>1, <2>2, <2>3
<1>3. ASSUME NEW f, NEW y, NEW m, NEW z, NEW u, Moves(f, "value"), Shows(y, entry, m),
             Awaited(y, z, u)
      PROVE  \E k, a : Takes("exp", m, k, a) /\ Comes(f, a, k, z, u)
  <2>1. ValueComes(y, z, type) /\ z \in Strings
    BY <1>2, <1>3
  <2>2. /\ f.fn = "attr" /\ f.at = "value"
        /\ type = (IF f.op = "index" THEN "char" ELSE f.symbol.type)
    BY <1>1, <1>3 DEF Moves
  <2> HIDE DEF type
  <2>3. PICK k : Takes("exp", m, k, type) /\ Ends(k, z)
    BY <1>3, <2>1, ShownMark DEF ValueComes
  <2>4. Comes(f, type, k, z, u)
    BY <2>1, <2>2, <2>3, TakesWords, AttrGoesOn
  <2> QED
    BY <2>3, <2>4
<1> QED
  BY <1>1, <1>3, CommandCallForesees

LEMMA AttrEndForesees == ASSUME IInv, ForeseenInv, AttrEnd PROVE ForeseenInv'
<1>1. /\ status = "running" /\ Top.fn = "attr" /\ Top.at = "value"
      /\ \/ Fail \/ Assigns
         \/ SemanticError /\ UNCHANGED lexVars /\ ret.type # AssignedType
  BY Zenon DEF AttrEnd, At, Assigns, Assigned, AssignedType, Semicolon
<1>2. CASE Fail
  BY <1>2, FailForesees
<1>3. CASE Assigns
  BY <1>3, EndForesees DEF Assigns, Finish
<1>4. CASE SemanticError /\ UNCHANGED lexVars /\ ret.type # AssignedType
  <2>1. ASSUME NEW y, NEW z, NEW u, Comes(Top, ret.type, y, z, u) PROVE FALSE
    BY <1>1, <1>4, <2>1, ComesAre DEF AttrComes, AssignedType
  <2> QED
    BY <1>1, <1>4, <2>1, ErrorForesees
<1> QED
  BY <1>1, <1>2, <1>3, <1>4

LEMMA CommandForesees == ASSUME IInv, MeantInv, ForeseenInv, Command PROVE ForeseenInv'
BY ParenExpStartForesees, ParenExpEndForesees, WriteStartForesees, WriteValueForesees,
   WriteNextForesees, WriteEndForesees, ReadStartForesees, ReadForesees, ReadEndForesees,
   AttrStartForesees, AttrIndexStartForesees, AttrIndexEndForesees, AttrValueForesees,
   AttrEndForesees DEF Command

-----------------------------------------------------------------------------
(* The specification.                                                      *)

(* Every command that begins with the first token is foreseen by the       *)
(* function that is called for it.                                         *)
LEMMA ForeseenFirst == ASSUME Init PROVE ForeseenInv
<1> DEFINE f == Frame(RootOf(entry.tok), "start")
<1>1. status = "running" /\ input = <<>> /\ stack = <<f>>
  BY DEF Init
<1>2. f.fn = RootOf(entry.tok) /\ f.at = "start"
  BY FrameFacts
<1> HIDE DEF f
<1>3. Len(stack) = 1 /\ stack[1] = f
  BY <1>1
<1>4. ASSUME NEW s \in Sentences, NEW y, NEW z, s.tokens = input \o y, Shows(y, entry, z)
      PROVE  Remains(stack, 1, ret.type, y)
  <2>1. y \in Strings
    BY <1>4, ShowsOnce
  <2>2. s.tokens = y
    BY <1>1, <1>4, <2>1, ConcatEmptySeq DEF Strings
  <2>3. PICK k, m : /\ Shows(y, k, m)
                    /\ \A g, t, u : g.fn = RootOf(k.tok) /\ g.at = "start"
                                      => Comes(g, t, y, <<>>, u)
    BY <2>2, AllReadable DEF Readable
  <2>4. k = entry
    BY <1>4, <2>3, ShowsOnce
  <2>5. Comes(stack[0 + 1], ret.type, y, <<>>, ret.type)
    BY <1>2, <1>3, <2>3, <2>4
  <2>6. Remains(stack, 0, ret.type, <<>>)
    BY RemainsNot
  <2>7. Remains(stack, 0 + 1, ret.type, y)
    BY <2>5, <2>6, RemainsPut
  <2> QED
    BY <2>7
<1>5. Foreseen
  BY <1>3, <1>4 DEF Foreseen
<1> QED
  BY <1>1, <1>5 DEF ForeseenInv, ErrorsAreErrors

(* A step that changes nothing.                                            *)
LEMMA SameForesees == ASSUME ForeseenInv, UNCHANGED vars PROVE ForeseenInv'
<1>1. /\ entry' = entry /\ found' = found /\ input' = input /\ stack' = stack
      /\ ret' = ret /\ status' = status
  BY DEF vars, lexVars, parseVars, genVars
<1>2. ASSUME status = "running", ~found PROVE Foreseen'
  <2>1. Foreseen
    BY <1>2 DEF ForeseenInv
  <2> QED
    BY <1>1, <2>1, SameSentences DEF Foreseen
<1>3. ErrorsAreErrors'
  BY <1>1, SameSentences DEF ErrorsAreErrors, ForeseenInv
<1> QED
  BY <1>1, <1>2, <1>3 DEF ForeseenInv

(* Every step keeps what is foreseen.                                      *)
LEMMA NextForesees == ASSUME IInv, MeantInv, ForeseenInv, [Next]_vars PROVE ForeseenInv'
<1>1. CASE Factor
  BY <1>1, FactorForesees
<1>2. CASE Operands
  BY <1>2, OperandsForesee
<1>3. CASE Expression
  BY <1>3, ExpressionForesees
<1>4. CASE Command
  BY <1>4, CommandForesees
<1>5. CASE UNCHANGED vars
  BY <1>5, SameForesees
<1> QED
  BY <1>1, <1>2, <1>3, <1>4, <1>5 DEF Next, Done

(* A semantic error is reported for a reason: no well-typed command of the *)
(* reference grammar begins with the tokens that were read and the next    *)
(* one, so that no command of the language is rejected for its types.      *)
THEOREM ErrorsFound == Spec => []ErrorsAreErrors
<1>1. ForeseenInv => ErrorsAreErrors
  BY DEF ForeseenInv
<1>2. Init => MeantInv /\ ForeseenInv
  BY ToldFirst, ForeseenFirst
<1>3. IInv /\ MeantInv /\ [Next]_vars => MeantInv'
  BY NextTells
<1>4. IInv /\ MeantInv /\ ForeseenInv /\ [Next]_vars => ForeseenInv'
  BY NextForesees
<1> QED
  BY <1>1, <1>2, <1>3, <1>4, Inductive, PTL DEF Spec
=============================================================================
