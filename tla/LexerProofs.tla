---------------------------- MODULE LexerProofs ----------------------------
(***************************************************************************)
(* The automaton of Lexer finds the lexemes of Lexemes, in files of any    *)
(* size and with a buffer of any size.                                     *)
(*                                                                         *)
(* Two descriptions of the language are compared.  Lexemes knows whole     *)
(* texts: which are tokens, which can still become one (Viable), and where *)
(* a token may begin (Starts, the least set with the first place that is   *)
(* closed under blanks and comments).  The automaton knows a state.  The   *)
(* invariant says what a state knows of the text since the last start      *)
(* (Begun), and that all of the text before is blanks and comments         *)
(* (Decided), so that the rest is known again after each character         *)
(* (RestStep).                                                             *)
(*                                                                         *)
(* That a token is the longest, and that an error is one, are negative     *)
(* facts: no completion of a text is a lexeme.  They follow from the first *)
(* character of a lexeme, which tells of what kind it is.  That the end of *)
(* the file is unexpected is a positive one: each state has a completion.  *)
(*                                                                         *)
(* Lines are counted one character late: the invariant has the line feeds  *)
(* of the text, but for the last character (Fed).                          *)
(***************************************************************************)
EXTENDS Lexemes, SequenceTheorems, FiniteSetTheorems, WellFoundedInduction, TLAPS

-----------------------------------------------------------------------------
(* Numbers.                                                                *)

LessThan == {ss \in Nat \X Nat : ss[1] < ss[2]}

LEMMA Least ==
  ASSUME NEW T, T \subseteq Nat, T # {}
  PROVE  \E x \in T : \A y \in T : x <= y
<1>1. IsWellFoundedOn(LessThan, Nat)
  BY NatLessThanWellFounded DEF OpToRel, LessThan
<1>2. \E x \in T : \A y \in T : ~ (<<y, x>> \in LessThan)
  BY <1>1, WFMin
<1>3. PICK x \in T : \A y \in T : ~ (<<y, x>> \in LessThan)
  BY <1>2
<1>4. ASSUME NEW y \in T PROVE x <= y
  <2>1. x \in Nat /\ y \in Nat /\ <<y, x>> \notin LessThan
    BY <1>3
  <2>2. ~(y < x)
    BY <2>1 DEF LessThan
  <2> QED
    BY <2>1, <2>2
<1> QED
  BY <1>4

LEMMA Greatest ==
  ASSUME NEW T, NEW b \in Nat, T \subseteq 0..b, T # {}
  PROVE  \E x \in T : \A y \in T : y <= x
<1> DEFINE U == {b - x : x \in T}
<1>1. U \subseteq Nat /\ U # {}
  <2>1. U \subseteq Nat
    OBVIOUS
  <2>2. PICK x \in T : TRUE
    OBVIOUS
  <2>3. b - x \in U
    OBVIOUS
  <2> QED
    BY <2>1, <2>3
<1>2. PICK u \in U : \A v \in U : u <= v
  BY <1>1, Least
<1>3. PICK x \in T : u = b - x
  OBVIOUS
<1>4. ASSUME NEW y \in T PROVE y <= x
  <2>1. b - y \in U
    OBVIOUS
  <2>2. b - x <= b - y
    BY <1>2, <1>3, <2>1
  <2>3. x \in Int /\ y \in Int /\ b \in Int
    OBVIOUS
  <2> HIDE DEF U
  <2> QED
    BY <2>2, <2>3
<1> QED
  BY <1>4

-----------------------------------------------------------------------------
(* Texts.                                                                  *)

LEMMA Appended ==
  ASSUME NEW S, NEW s \in Seq(S), NEW c \in S
  PROVE  LET t == Append(s, c)
         IN /\ t \in Seq(S) /\ Len(t) = Len(s) + 1 /\ Len(s) \in Nat
            /\ \A i \in 1..Len(s) : t[i] = s[i]
            /\ t[Len(s) + 1] = c
            /\ \A i \in 1..Len(s) : s[i] \in S
<1>1. Len(s) \in Nat /\ \A i \in 1..Len(s) : s[i] \in S
  BY LenProperties, ElementOfSeq
<1> QED
  BY <1>1, AppendProperties

LEMMA Part ==
  ASSUME NEW S, NEW s \in Seq(S), NEW j \in Nat \ {0}, NEW k \in 0..Len(s),
         j <= k + 1
  PROVE  LET p == SubSeq(s, j, k)
         IN /\ p \in Seq(S) /\ Len(p) = k - j + 1 /\ Len(p) \in Nat
            /\ \A i \in 1..k - j + 1 : p[i] = s[j + i - 1]
<1>1. Len(s) \in Nat /\ \A i \in 1..Len(s) : s[i] \in S
  BY LenProperties, ElementOfSeq
<1>2. j \in Int /\ k \in Int /\ \A i \in j..k : s[i] \in S
  BY <1>1
<1> DEFINE p == SubSeq(s, j, k)
<1>3. /\ p \in Seq(S)
      /\ Len(p) = IF j <= k THEN k - j + 1 ELSE 0
      /\ \A i \in 1..(k - j + 1) : p[i] = s[j + i - 1]
  BY <1>2, SubSeqProperties
<1> HIDE DEF p
<1>4. Len(p) = k - j + 1 /\ k - j + 1 \in Nat
  BY <1>1, <1>3
<1> QED
  BY <1>3, <1>4 DEF p

LEMMA SamePart ==
  ASSUME NEW S, NEW s \in Seq(S), NEW c \in S,
         NEW j \in Nat \ {0}, NEW k \in 0..Len(s), j <= k + 1
  PROVE  SubSeq(Append(s, c), j, k) = SubSeq(s, j, k)
<1> DEFINE t == Append(s, c)
           p == SubSeq(s, j, k)
           q == SubSeq(t, j, k)
<1>1. /\ t \in Seq(S) /\ Len(t) = Len(s) + 1 /\ Len(s) \in Nat
      /\ \A i \in 1..Len(s) : t[i] = s[i]
  BY Appended
<1> HIDE DEF t
<1>2. k \in 0..Len(t)
  BY <1>1
<1>3. /\ p \in Seq(S) /\ Len(p) = k - j + 1 /\ Len(p) \in Nat
      /\ \A i \in 1..k - j + 1 : p[i] = s[j + i - 1]
  BY Part
<1>4. /\ q \in Seq(S) /\ Len(q) = k - j + 1
      /\ \A i \in 1..k - j + 1 : q[i] = t[j + i - 1]
  BY <1>1, <1>2, Part
<1> HIDE DEF p, q
<1>5. \A i \in 1..k - j + 1 : j + i - 1 \in 1..Len(s)
  BY <1>1
<1>6. \A i \in 1..Len(p) : p[i] = q[i]
  BY <1>1, <1>3, <1>4, <1>5
<1>7. p = q
  BY <1>3, <1>4, <1>6, SeqEqual
<1> QED
  BY <1>7 DEF p, q, t

LEMMA LongerPart ==
  ASSUME NEW S, NEW s \in Seq(S), NEW c \in S,
         NEW j \in Nat \ {0}, j <= Len(s) + 1
  PROVE  SubSeq(Append(s, c), j, Len(s) + 1) = Append(SubSeq(s, j, Len(s)), c)
<1> DEFINE n == Len(s)
           t == Append(s, c)
           p == SubSeq(s, j, n)
           u == Append(p, c)
           q == SubSeq(t, j, n + 1)
<1>1. /\ t \in Seq(S) /\ Len(t) = n + 1 /\ n \in Nat
      /\ \A i \in 1..n : t[i] = s[i]
      /\ t[n + 1] = c
  BY Appended
<1>2. /\ p \in Seq(S) /\ Len(p) = n - j + 1 /\ Len(p) \in Nat
      /\ \A i \in 1..n - j + 1 : p[i] = s[j + i - 1]
  <2>1. n \in 0..Len(s)
    BY <1>1
  <2> QED
    BY <2>1, Part
<1> HIDE DEF t, n
<1>3. /\ q \in Seq(S) /\ Len(q) = n + 1 - j + 1
      /\ \A i \in 1..n + 1 - j + 1 : q[i] = t[j + i - 1]
  <2>1. n + 1 \in 0..Len(t) /\ j <= n + 1 + 1
    BY <1>1 DEF n
  <2> QED
    BY <1>1, <2>1, Part
<1> HIDE DEF p, q
<1>4. /\ u \in Seq(S) /\ Len(u) = Len(p) + 1
      /\ \A i \in 1..Len(p) : u[i] = p[i]
      /\ u[Len(p) + 1] = c
  BY <1>2, Appended
<1> HIDE DEF u
<1>5. Len(u) = Len(q)
  BY <1>1, <1>2, <1>3, <1>4
<1>6. \A i \in 1..Len(q) : u[i] = q[i]
  <2> SUFFICES ASSUME NEW i \in 1..Len(q) PROVE u[i] = q[i]
    OBVIOUS
  <2>1. CASE i = Len(q)
    BY <1>1, <1>2, <1>3, <1>4, <2>1
  <2>2. CASE i # Len(q)
    <3>1. i \in 1..n + 1 - j + 1 /\ i # n + 1 - j + 1
      BY <1>3, <2>2
    <3>2. j \in Nat \ {0} /\ j <= n + 1 /\ n \in Nat
      BY <1>1 DEF n
    <3>3. i \in 1..n - j + 1 /\ j + i - 1 \in 1..n
      BY <3>1, <3>2
    <3>4. i \in 1..Len(p)
      BY <1>2, <3>3
    <3> QED
      BY <1>1, <1>2, <1>3, <1>4, <3>1, <3>3, <3>4
  <2> QED
    BY <2>1, <2>2
<1>7. u = q
  BY <1>3, <1>4, <1>5, <1>6, SeqEqual
<1> QED
  BY <1>7 DEF u, q, t, p, n

-----------------------------------------------------------------------------
(* Comments, and where a token may begin.                                  *)

LEMMA CommentFacts ==
  ASSUME NEW p, IsComment(p), Len(p) \in Nat
  PROVE  Len(p) >= 4 /\ p[1] = "/" /\ p[2] = "*" /\ p[Len(p) - 1] = "*"
BY DEF IsComment

(* A comment has no comment at its beginning but itself.                   *)
LEMMA OneComment ==
  ASSUME NEW S, NEW s \in Seq(S), NEW j \in Nat \ {0}, NEW k \in 0..Len(s),
         NEW m \in 0..Len(s), j <= k + 1, k < m,
         IsComment(SubSeq(s, j, k))
  PROVE  ~IsComment(SubSeq(s, j, m))
<1> DEFINE p == SubSeq(s, j, k)
           q == SubSeq(s, j, m)
<1>1. Len(s) \in Nat
  BY LenProperties
<1>2. /\ Len(p) = k - j + 1 /\ Len(p) \in Nat
      /\ \A i \in 1..k - j + 1 : p[i] = s[j + i - 1]
  BY Part
<1>3. /\ Len(q) = m - j + 1 /\ Len(q) \in Nat
      /\ \A i \in 1..m - j + 1 : q[i] = s[j + i - 1]
  <2>1. j <= m + 1
    BY <1>1
  <2> QED
    BY <2>1, Part
<1>4. IsComment(p)
  OBVIOUS
<1> HIDE DEF p, q
<1>5. /\ Len(p) >= 4 /\ Len(p) < Len(q)
      /\ p[Len(p) - 1] = "*" /\ p[Len(p) - 1 + 1] = "/"
  <2>1. Len(p) < Len(q)
    BY <1>1, <1>2, <1>3
  <2>2. Len(p) >= 4 /\ Len(p) - 1 \in {i \in 3..Len(p) - 1 : p[i] = "*" /\ p[i + 1] = "/"}
    BY <1>4 DEF IsComment
  <2> QED
    BY <2>1, <2>2
<1>6. q[Len(p) - 1] = "*" /\ q[Len(p) - 1 + 1] = "/"
  <2>1. Len(p) - 1 \in 1..Len(p) /\ Len(p) - 1 + 1 \in 1..Len(p)
    BY <1>2, <1>5
  <2>2. \A i \in 1..Len(p) : q[i] = p[i]
    BY <1>1, <1>2, <1>3, <1>5
  <2> QED
    BY <1>5, <2>1, <2>2
<1>7. Len(p) - 1 \in 3..Len(q) - 1 /\ Len(p) - 1 # Len(q) - 1
  BY <1>2, <1>3, <1>5
<1>8. ~IsComment(q)
  BY <1>6, <1>7 DEF IsComment
<1> QED
  BY <1>8 DEF q

IsBegin(s, f, i) ==
  \/ i = 1
  \/ i > 1 /\ s[i - 1] \in Blanks /\ f[i - 1]
  \/ \E j \in 1 .. i - 4 : f[j] /\ IsComment(SubSeq(s, j, i - 1))
Begins(s, f) == f = [i \in 1..Len(s) + 1 |-> IsBegin(s, f, i)]

Closed(s, T) ==
  /\ 1 \in T
  /\ \A i \in 1..Len(s) : i \in T /\ s[i] \in Blanks => i + 1 \in T
  /\ \A i \in 1..Len(s) : \A j \in 1..i - 3 :
       j \in T /\ IsComment(SubSeq(s, j, i)) => i + 1 \in T

(* The recursive definition of Starts defines something: the least set     *)
(* that is closed.                                                         *)
LEMMA BeginsExist ==
  ASSUME NEW s, Len(s) \in Nat
  PROVE  \E f : Begins(s, f)
<1> DEFINE n == Len(s)
           L == {i \in 1..n + 1 : \A T \in SUBSET (1..n + 1) : Closed(s, T) => i \in T}
           f == [i \in 1..n + 1 |-> i \in L]
<1>1. Closed(s, L)
  BY DEF Closed
<1>2. ASSUME NEW i \in 1..n + 1, ~IsBegin(s, f, i)
      PROVE  i \notin L
  <2> DEFINE T == L \ {i}
  <2>1. T \in SUBSET (1..n + 1)
    OBVIOUS
  <2>2. Closed(s, T)
    <3>1. i # 1
      BY <1>2 DEF IsBegin
    <3>2. ASSUME NEW k \in 1..n, k \in T, s[k] \in Blanks PROVE k + 1 \in T
      <4>1. k + 1 \in L /\ f[k]
        BY <1>1, <3>2 DEF Closed
      <4>2. k + 1 # i
        BY <1>2, <3>2, <4>1 DEF IsBegin
      <4> QED
        BY <4>1, <4>2
    <3>3. ASSUME NEW k \in 1..n, NEW j \in 1..k - 3, j \in T,
                 IsComment(SubSeq(s, j, k))
          PROVE  k + 1 \in T
      <4>1. k + 1 \in L /\ f[j]
        BY <1>1, <3>3 DEF Closed
      <4>2. k + 1 # i
        <5>1. k + 1 = i => j \in 1..i - 4 /\ IsComment(SubSeq(s, j, i - 1))
          BY <3>3
        <5> QED
          BY <1>2, <4>1, <5>1 DEF IsBegin
      <4> QED
        BY <4>1, <4>2
    <3> QED
      BY <1>1, <3>1, <3>2, <3>3 DEF Closed
  <2> QED
    BY <2>1, <2>2
<1>3. ASSUME NEW i \in 1..n + 1, IsBegin(s, f, i)
      PROVE  i \in L
  <2>1. CASE i = 1
    BY <1>1, <2>1 DEF Closed
  <2>2. CASE i > 1 /\ s[i - 1] \in Blanks /\ f[i - 1]
    <3> HIDE DEF L
    <3>1. i - 1 \in 1..n /\ i = i - 1 + 1 /\ i - 1 \in 1..n + 1
      BY <2>2
    <3>2. i - 1 \in L
      BY <2>2, <3>1
    <3> QED
      BY <1>1, <2>2, <3>1, <3>2 DEF Closed
  <2>3. CASE \E j \in 1 .. i - 4 : f[j] /\ IsComment(SubSeq(s, j, i - 1))
    <3>1. PICK j \in 1 .. i - 4 : f[j] /\ IsComment(SubSeq(s, j, i - 1))
      BY <2>3
    <3> HIDE DEF L
    <3>2. j \in 1..(i - 1) - 3 /\ i - 1 \in 1..n /\ i = i - 1 + 1 /\ j \in 1..n + 1
      OBVIOUS
    <3>3. j \in L
      BY <3>1, <3>2
    <3> QED
      BY <1>1, <3>1, <3>2, <3>3 DEF Closed
  <2> QED
    BY <1>3, <2>1, <2>2, <2>3 DEF IsBegin
<1> HIDE DEF L
<1>4. ASSUME NEW i \in 1..n + 1
      PROVE  IsBegin(s, f, i) = (i \in L)
  <2>1. IsBegin(s, f, i) <=> i \in L
    BY <1>2, <1>3
  <2>2. IsBegin(s, f, i) \in BOOLEAN
    BY Zenon DEF IsBegin
  <2> QED
    BY <2>1, <2>2
<1>5. Begins(s, f)
  BY <1>4, Zenon DEF Begins
<1> QED
  BY <1>5

LEMMA StartsBegin ==
  ASSUME NEW s, Len(s) \in Nat
  PROVE  /\ Starts(s) \subseteq 1..Len(s) + 1
         /\ Closed(s, Starts(s))
         /\ \A i \in Starts(s) :
              \/ i = 1
              \/ i - 1 \in 1..Len(s) /\ s[i - 1] \in Blanks /\ i - 1 \in Starts(s)
              \/ \E j \in 1..i - 4 : j \in Starts(s) /\ IsComment(SubSeq(s, j, i - 1))
<1> DEFINE f == CHOOSE f : f = [i \in 1 .. Len(s) + 1 |->
        \/ i = 1
        \/ i > 1 /\ s[i - 1] \in Blanks /\ f[i - 1]
        \/ \E j \in 1 .. i - 4 : f[j] /\ IsComment(SubSeq(s, j, i - 1))]
           n == Len(s)
<1>1. Begins(s, f)
  BY BeginsExist, Zenon DEF Begins, IsBegin
<1>2. Starts(s) = {i \in 1 .. n + 1 : f[i]}
  BY Zenon DEF Starts
<1> HIDE DEF f
<1>3. \A i \in 1..n + 1 : i \in Starts(s) <=> IsBegin(s, f, i)
  BY <1>1, <1>2 DEF Begins
<1>4. \A i \in 1..n + 1 : i \in Starts(s) <=> f[i]
  BY <1>2
<1>5. \A i \in 1..n + 1 : i \in Starts(s) <=>
        \/ i = 1
        \/ i > 1 /\ s[i - 1] \in Blanks /\ i - 1 \in Starts(s)
        \/ \E j \in 1 .. i - 4 : j \in Starts(s) /\ IsComment(SubSeq(s, j, i - 1))
  BY <1>3, <1>4 DEF IsBegin
<1>6. Starts(s) \subseteq 1..n + 1
  BY <1>2
<1> HIDE DEF n
<1>7. n \in Nat
  BY DEF n
<1>8. Closed(s, Starts(s))
  <2>1. ASSUME NEW k \in 1..n, k \in Starts(s), s[k] \in Blanks PROVE k + 1 \in Starts(s)
    <3>1. k + 1 \in 1..n + 1 /\ k + 1 > 1 /\ k + 1 - 1 = k
      BY <1>7
    <3> QED
      BY <1>5, <2>1, <3>1
  <2>2. ASSUME NEW k \in 1..n, NEW j \in 1..k - 3, j \in Starts(s),
               IsComment(SubSeq(s, j, k))
        PROVE  k + 1 \in Starts(s)
    <3>1. k + 1 \in 1..n + 1 /\ j \in 1..(k + 1) - 4 /\ k + 1 - 1 = k
      BY <1>7
    <3> QED
      BY <1>5, <2>2, <3>1
  <2>3. 1 \in Starts(s)
    BY <1>5, <1>7
  <2> QED
    BY <2>1, <2>2, <2>3 DEF Closed, n
<1>9. \A i \in Starts(s) :
              \/ i = 1
              \/ i - 1 \in 1..n /\ s[i - 1] \in Blanks /\ i - 1 \in Starts(s)
              \/ \E j \in 1..i - 4 : j \in Starts(s) /\ IsComment(SubSeq(s, j, i - 1))
  BY <1>5, <1>6, <1>7
<1> QED
  BY <1>6, <1>8, <1>9 DEF n

(* What follows does not change where tokens may begin.                    *)
LEMMA StartsStay ==
  ASSUME NEW S, NEW s \in Seq(S), NEW c \in S, NEW i \in 1..Len(s) + 1
  PROVE  i \in Starts(s) <=> i \in Starts(Append(s, c))
<1> DEFINE t == Append(s, c)
           n == Len(s)
           A == Starts(s)
           B == Starts(t)
           D == {k \in 1..n + 1 : ~(k \in A <=> k \in B)}
<1>1. /\ t \in Seq(S) /\ Len(t) = n + 1 /\ n \in Nat
      /\ \A k \in 1..n : t[k] = s[k]
  BY Appended
<1>2. \A j \in 1..n + 1 : \A k \in 1..n :
        j <= k => SubSeq(t, j, k) = SubSeq(s, j, k)
  <2> SUFFICES ASSUME NEW j \in 1..n + 1, NEW k \in 1..n, j <= k
               PROVE  SubSeq(t, j, k) = SubSeq(s, j, k)
    OBVIOUS
  <2>1. j \in Nat \ {0} /\ k \in 0..Len(s) /\ j <= k + 1
    BY <1>1
  <2> QED
    BY <2>1, SamePart
<1>3. /\ Closed(s, A) /\ A \subseteq 1..n + 1
      /\ \A k \in A :
              \/ k = 1
              \/ k - 1 \in 1..n /\ s[k - 1] \in Blanks /\ k - 1 \in A
              \/ \E j \in 1..k - 4 : j \in A /\ IsComment(SubSeq(s, j, k - 1))
  BY <1>1, StartsBegin
<1>4. /\ Closed(t, B) /\ B \subseteq 1..n + 1 + 1
      /\ \A k \in B :
              \/ k = 1
              \/ k - 1 \in 1..n + 1 /\ t[k - 1] \in Blanks /\ k - 1 \in B
              \/ \E j \in 1..k - 4 : j \in B /\ IsComment(SubSeq(t, j, k - 1))
  <2>1. Len(t) \in Nat /\ Len(t) = n + 1
    BY <1>1
  <2> HIDE DEF t, n
  <2> QED
    BY <2>1, StartsBegin
<1> HIDE DEF A, B, t
<1>5. SUFFICES ASSUME D # {} PROVE FALSE
  BY DEF A, B, t
<1>6. PICK k \in D : \A m \in D : k <= m
  <2>1. D \subseteq Nat
    BY <1>1
  <2> HIDE DEF D
  <2> QED
    BY <1>5, <2>1, Least
<1>7. \A m \in 1..k - 1 : m \in 1..n /\ (m \in A <=> m \in B)
  BY <1>1, <1>6
<1>8. k # 1 /\ k \in 1..n + 1
  BY <1>3, <1>4 DEF Closed
<1> HIDE DEF D, n
<1>9. k - 1 \in 1..n /\ k - 1 + 1 = k
  BY <1>1, <1>8
<1>10. ASSUME k \in A PROVE k \in B
  <2>1. CASE s[k - 1] \in Blanks /\ k - 1 \in A
    <3>1. k - 1 \in B /\ t[k - 1] \in Blanks /\ k - 1 \in 1..Len(t)
      BY <1>1, <1>7, <1>9, <2>1
    <3> QED
      BY <1>4, <1>9, <3>1 DEF Closed
  <2>2. CASE \E j \in 1..k - 4 : j \in A /\ IsComment(SubSeq(s, j, k - 1))
    <3>1. PICK j \in 1..k - 4 : j \in A /\ IsComment(SubSeq(s, j, k - 1))
      BY <2>2
    <3>2. j \in 1..(k - 1) - 3 /\ j \in 1..k - 1 /\ j <= k - 1 /\ j \in 1..n + 1
          /\ k - 1 \in 1..Len(t)
      BY <1>1, <1>8
    <3>3. j \in B /\ IsComment(SubSeq(t, j, k - 1))
      BY <1>2, <1>7, <1>9, <3>1, <3>2
    <3> QED
      BY <1>4, <1>9, <3>2, <3>3 DEF Closed
  <2> QED
    BY <1>3, <1>8, <1>10, <2>1, <2>2
<1>11. ASSUME k \in B PROVE k \in A
  <2>1. CASE t[k - 1] \in Blanks /\ k - 1 \in B
    <3>1. k - 1 \in A /\ s[k - 1] \in Blanks /\ k - 1 \in 1..Len(s)
      BY <1>1, <1>7, <1>9, <2>1 DEF n
    <3> QED
      BY <1>3, <1>9, <3>1 DEF Closed
  <2>2. CASE \E j \in 1..k - 4 : j \in B /\ IsComment(SubSeq(t, j, k - 1))
    <3>1. PICK j \in 1..k - 4 : j \in B /\ IsComment(SubSeq(t, j, k - 1))
      BY <2>2
    <3>2. j \in 1..(k - 1) - 3 /\ j \in 1..k - 1 /\ j <= k - 1 /\ j \in 1..n + 1
          /\ k - 1 \in 1..n
      BY <1>1, <1>8
    <3>3. j \in A /\ IsComment(SubSeq(s, j, k - 1))
      BY <1>2, <1>7, <1>9, <3>1, <3>2
    <3> QED
      BY <1>3, <1>9, <3>2, <3>3 DEF Closed, n
  <2> QED
    BY <1>4, <1>8, <1>11, <2>1, <2>2
<1>12. ~(k \in A <=> k \in B)
  BY <1>6 DEF D
<1> QED
  BY <1>10, <1>11, <1>12

LEMMA LastOne ==
  ASSUME NEW s, Len(s) \in Nat
  PROVE  /\ LastStart(s) \in Starts(s) /\ LastStart(s) \in 1..Len(s) + 1
         /\ \A j \in Starts(s) : j <= LastStart(s)
<1>1. Starts(s) \subseteq 1..Len(s) + 1 /\ Starts(s) # {}
  BY StartsBegin DEF Closed
<1>2. Len(s) + 1 \in Nat /\ Starts(s) \subseteq 0..Len(s) + 1
  BY <1>1
<1>3. \E i \in Starts(s) : \A j \in Starts(s) : j <= i
  BY <1>1, <1>2, Greatest
<1> QED
  BY <1>1, <1>3 DEF LastStart

(* Only the last place where a token may begin is not known to be a blank  *)
(* or a comment.                                                           *)
Decided(s) ==
  \A j \in Starts(s) : j # LastStart(s) =>
    j \in 1..Len(s) /\ (\/ s[j] \in Blanks
                       \/ \E k \in j..Len(s) : IsComment(SubSeq(s, j, k)))

LEMMA RestOfNothing ==
  ASSUME NEW S
  PROVE  <<>> \in Seq(S) /\ RestOf(<<>>) = <<>> /\ Decided(<<>>)
<1>1. <<>> \in Seq(S) /\ Len(<<>>) = 0
  BY EmptySeq
<1>2. Starts(<<>>) \subseteq 1..1 /\ LastStart(<<>>) = 1
  BY <1>1, StartsBegin, LastOne
<1>3. Decided(<<>>)
  BY <1>2 DEF Decided
<1>4. Len(SubSeq(<<>>, 1, 0)) = 0 /\ SubSeq(<<>>, 1, 0) \in Seq(S)
  BY <1>1, Part
<1>5. RestOf(<<>>) = <<>>
  <2>1. RestOf(<<>>) = SubSeq(<<>>, 1, 0)
    BY <1>1, <1>2 DEF RestOf
  <2> QED
    BY <1>4, <2>1, EmptySeq
<1> QED
  BY <1>1, <1>3, <1>5

(* A character more: the rest goes on, or nothing of it remains.           *)
LEMMA RestStep ==
  ASSUME NEW S, NEW s \in Seq(S), NEW c \in S, Decided(s)
  PROVE  LET t == Append(s, c)
             r == RestOf(s)
         IN /\ t \in Seq(S) /\ r \in Seq(S) /\ Decided(t)
            /\ RestOf(t) = IF (r = <<>> /\ c \in Blanks) \/ IsComment(Append(r, c))
                          THEN <<>> ELSE Append(r, c)
<1> DEFINE t == Append(s, c)
           n == Len(s)
           L == LastStart(s)
           r == SubSeq(s, L, n)
           u == Append(r, c)
<1>1. /\ t \in Seq(S) /\ Len(t) = n + 1 /\ n \in Nat
      /\ \A k \in 1..n : t[k] = s[k]
      /\ t[n + 1] = c
  BY Appended
<1>2. L \in Starts(s) /\ L \in 1..n + 1 /\ \A j \in Starts(s) : j <= L
  BY <1>1, LastOne
<1>3. /\ r \in Seq(S) /\ Len(r) = n - L + 1
      /\ SubSeq(t, L, n + 1) = u
  <2>1. L \in Nat \ {0} /\ n \in 0..Len(s) /\ L <= n + 1
    BY <1>1, <1>2
  <2> HIDE DEF L
  <2> QED
    BY <2>1, Part, LongerPart
<1>4. r = <<>> <=> L = n + 1
  <2> HIDE DEF r, L, n
  <2> QED
    BY <1>1, <1>2, <1>3, EmptySeq
<1>5. \A i \in 1..n + 1 : i \in Starts(s) <=> i \in Starts(t)
  BY StartsStay
<1>6. /\ Starts(t) \subseteq 1..n + 1 + 1 /\ Closed(t, Starts(t))
      /\ \A k \in Starts(t) :
              \/ k = 1
              \/ k - 1 \in 1..n + 1 /\ t[k - 1] \in Blanks /\ k - 1 \in Starts(t)
              \/ \E j \in 1..k - 4 : j \in Starts(t) /\ IsComment(SubSeq(t, j, k - 1))
  <2>1. Len(t) \in Nat /\ Len(t) = n + 1
    BY <1>1
  <2> HIDE DEF t, n
  <2> QED
    BY <2>1, StartsBegin
<1>7. /\ LastStart(t) \in Starts(t) /\ LastStart(t) \in 1..n + 1 + 1
      /\ \A j \in Starts(t) : j <= LastStart(t)
  <2>1. Len(t) \in Nat /\ Len(t) = n + 1
    BY <1>1
  <2> HIDE DEF t, n
  <2> QED
    BY <2>1, LastOne
<1>8. RestOf(t) = SubSeq(t, LastStart(t), n + 1) /\ RestOf(s) = r
  BY <1>1 DEF RestOf
<1> HIDE DEF t, L, r, u
<1>9. \A j \in 1..n + 1 : \A k \in 1..n :
        j <= k => SubSeq(t, j, k) = SubSeq(s, j, k)
  <2> SUFFICES ASSUME NEW j \in 1..n + 1, NEW k \in 1..n, j <= k
               PROVE  SubSeq(t, j, k) = SubSeq(s, j, k)
    OBVIOUS
  <2>1. j \in Nat \ {0} /\ k \in 0..Len(s) /\ j <= k + 1
    BY <1>1
  <2> QED
    BY <2>1, SamePart DEF t
(* Before the last start nothing is a comment that ends here.              *)
<1>10. ASSUME NEW j \in Starts(s), IsComment(SubSeq(t, j, n + 1)), j # L
       PROVE  FALSE
  <2>1. /\ j \in 1..n
        /\ s[j] \in Blanks \/ \E k \in j..n : IsComment(SubSeq(s, j, k))
    BY <1>10 DEF Decided, L, n
  <2>2. j \in Nat \ {0} /\ n + 1 \in 0..Len(t) /\ j <= n + 1 + 1
    BY <1>1, <2>1
  <2> DEFINE q == SubSeq(t, j, n + 1)
  <2>3. /\ Len(q) = n + 1 - j + 1 /\ Len(q) \in Nat
        /\ \A i \in 1..n + 1 - j + 1 : q[i] = t[j + i - 1]
    BY <1>1, <2>2, Part
  <2>4. IsComment(q)
    BY <1>10
  <2> HIDE DEF q
  <2>5. CASE s[j] \in Blanks
    <3>1. Len(q) >= 4 /\ q[1] = "/"
      BY <2>3, <2>4, CommentFacts
    <3>2. q[1] = t[j + 1 - 1] /\ j + 1 - 1 = j
      BY <1>1, <2>1, <2>3, <3>1
    <3>3. t[j] = s[j]
      BY <1>1, <2>1
    <3> QED
      BY <2>5, <3>1, <3>2, <3>3 DEF Blanks
  <2>6. CASE \E k \in j..n : IsComment(SubSeq(s, j, k))
    <3>1. PICK k \in j..n : IsComment(SubSeq(s, j, k))
      BY <2>6
    <3>2. k \in 1..n /\ j \in 1..n + 1 /\ j <= k /\ k \in 0..Len(t) /\ j <= k + 1
          /\ k < n + 1
      BY <1>1, <2>1
    <3>3. IsComment(SubSeq(t, j, k))
      BY <1>9, <3>1, <3>2
    <3> QED
      BY <1>1, <1>10, <2>2, <3>2, <3>3, OneComment
  <2> QED
    BY <2>1, <2>5, <2>6
<1>11. CASE (r = <<>> /\ c \in Blanks) \/ IsComment(u)
  <2>1. n + 1 + 1 \in Starts(t)
    <3>1. CASE r = <<>> /\ c \in Blanks
      <4>1. n + 1 \in Starts(t) /\ t[n + 1] \in Blanks /\ n + 1 \in 1..Len(t)
        BY <1>1, <1>2, <1>4, <1>5, <3>1
      <4> QED
        BY <1>6, <4>1 DEF Closed
    <3>2. CASE IsComment(u)
      <4>1. Len(u) = Len(r) + 1
        BY <1>3, Appended DEF u
      <4>2. Len(u) >= 4
        BY <3>2 DEF IsComment
      <4>3. L \in 1..(n + 1) - 3 /\ n + 1 \in 1..Len(t)
        BY <1>1, <1>2, <1>3, <4>1, <4>2
      <4>4. L \in Starts(t) /\ IsComment(SubSeq(t, L, n + 1))
        BY <1>2, <1>3, <1>5, <3>2
      <4> QED
        BY <1>6, <4>3, <4>4 DEF Closed
    <3> QED
      BY <1>11, <3>1, <3>2
  <2>2. LastStart(t) = n + 1 + 1
    BY <1>1, <1>7, <2>1
  <2>3. RestOf(t) = <<>>
    <3>1. n + 1 + 1 \in Nat \ {0} /\ n + 1 \in 0..Len(t) /\ n + 1 + 1 <= n + 1 + 1
      BY <1>1
    <3>2. /\ SubSeq(t, n + 1 + 1, n + 1) \in Seq(S)
          /\ Len(SubSeq(t, n + 1 + 1, n + 1)) = n + 1 - (n + 1 + 1) + 1
      BY <1>1, <3>1, Part
    <3>3. n + 1 - (n + 1 + 1) + 1 = 0
      BY <1>1
    <3> QED
      BY <1>8, <2>2, <3>2, <3>3, EmptySeq
  <2>4. Decided(t)
    <3> SUFFICES ASSUME NEW j \in Starts(t), j # n + 1 + 1
                 PROVE  j \in 1..n + 1 /\ (\/ t[j] \in Blanks
                                          \/ \E k \in j..n + 1 : IsComment(SubSeq(t, j, k)))
      BY <1>1, <2>2 DEF Decided
    <3>1. j \in 1..n + 1 /\ j \in Starts(s)
      BY <1>1, <1>5, <1>6
    <3>2. CASE j = L
      <4>1. CASE r = <<>> /\ c \in Blanks
        BY <1>1, <1>4, <3>1, <3>2, <4>1
      <4>2. CASE IsComment(u)
        <5>1. n + 1 \in j..n + 1
          BY <1>1, <3>1
        <5>2. IsComment(SubSeq(t, j, n + 1))
          BY <1>3, <3>2, <4>2
        <5> QED
          BY <3>1, <5>1, <5>2
      <4> QED
        BY <1>11, <4>1, <4>2
    <3>3. CASE j # L
      <4>1. j \in 1..n /\ (s[j] \in Blanks \/ \E k \in j..n : IsComment(SubSeq(s, j, k)))
        BY <3>1, <3>3 DEF Decided, L, n
      <4>2. ASSUME NEW k \in j..n, IsComment(SubSeq(s, j, k))
            PROVE  \E m \in j..n + 1 : IsComment(SubSeq(t, j, m))
        <5>1. k \in 1..n /\ j <= k /\ k \in j..n + 1
          BY <1>1, <3>1
        <5> QED
          BY <1>9, <3>1, <4>2, <5>1
      <4> QED
        BY <1>1, <3>1, <4>1, <4>2
    <3> QED
      BY <3>2, <3>3
  <2> QED
    BY <1>1, <1>3, <1>8, <1>11, <2>3, <2>4 DEF t, u
<1>12. CASE ~((r = <<>> /\ c \in Blanks) \/ IsComment(u))
  <2>1. n + 1 + 1 \notin Starts(t)
    <3> SUFFICES ASSUME n + 1 + 1 \in Starts(t) PROVE FALSE
      OBVIOUS
    <3>1. n + 1 + 1 # 1 /\ n + 1 + 1 - 1 = n + 1 /\ n + 1 \in 1..n + 1
      BY <1>1
    <3>2. CASE t[n + 1] \in Blanks /\ n + 1 \in Starts(t)
      BY <1>1, <1>2, <1>4, <1>5, <1>12, <3>1, <3>2
    <3>3. CASE \E j \in 1..(n + 1 + 1) - 4 :
                 j \in Starts(t) /\ IsComment(SubSeq(t, j, n + 1))
      <4>1. PICK j \in 1..(n + 1 + 1) - 4 :
                   j \in Starts(t) /\ IsComment(SubSeq(t, j, n + 1))
        BY <3>3
      <4>2. j \in 1..n + 1
        BY <1>1
      <4>3. j \in Starts(s)
        BY <1>5, <4>1, <4>2
      <4>4. j = L
        BY <1>10, <4>1, <4>3
      <4> QED
        BY <1>3, <1>12, <4>1, <4>4
    <3> DEFINE m == n + 1 + 1
    <3>4. /\ m # 1 /\ m - 1 = n + 1
          /\ m \in Starts(t)
      BY <3>1
    <3>5. ~(t[n + 1] \in Blanks /\ n + 1 \in Starts(t))
      BY <3>2
    <3>6. ~ \E j \in 1..m - 4 : j \in Starts(t) /\ IsComment(SubSeq(t, j, n + 1))
      BY <3>3
    <3> HIDE DEF m
    <3> QED
      BY <1>6, <3>4, <3>5, <3>6
  <2>2. \A j : j \in Starts(t) <=> j \in Starts(s)
    <3>1. Starts(t) \subseteq 1..n + 1
      BY <1>1, <1>6, <2>1
    <3>2. Starts(s) \subseteq 1..n + 1
      BY <1>1, StartsBegin
    <3> QED
      BY <1>5, <3>1, <3>2
  <2>3. LastStart(t) = L
    BY <1>1, <1>2, <1>7, <2>2
  <2>4. RestOf(t) = u
    BY <1>3, <1>8, <2>3
  <2>5. Decided(t)
    <3> SUFFICES ASSUME NEW j \in Starts(t), j # L
                 PROVE  j \in 1..n + 1 /\ (\/ t[j] \in Blanks
                                          \/ \E k \in j..n + 1 : IsComment(SubSeq(t, j, k)))
      BY <1>1, <2>3 DEF Decided
    <3>1. j \in Starts(s)
      BY <2>2
    <3>2. j \in 1..n /\ (s[j] \in Blanks \/ \E k \in j..n : IsComment(SubSeq(s, j, k)))
      BY <3>1 DEF Decided, L, n
    <3>3. j \in 1..n + 1
      BY <1>1, <3>2
    <3>4. ASSUME NEW k \in j..n, IsComment(SubSeq(s, j, k))
          PROVE  \E m \in j..n + 1 : IsComment(SubSeq(t, j, m))
      <4>1. k \in 1..n /\ j <= k /\ k \in j..n + 1
        BY <1>1, <3>2
      <4> QED
        BY <1>9, <3>3, <3>4, <4>1
    <3> QED
      BY <1>1, <3>2, <3>3, <3>4
  <2> QED
    BY <1>1, <1>3, <1>8, <1>12, <2>4, <2>5 DEF t, u
<1> QED
  BY <1>11, <1>12

-----------------------------------------------------------------------------
(* Which texts are lexemes, by their first character.                      *)

Characters == Alphabet \union {Outside}

Lexeme(t) ==
  \/ t \in Fixed \/ IsWord(t) \/ IsInteger(t) \/ IsFloat(t)
  \/ IsChar(t) \/ IsString(t) \/ IsComment(t)

LEMMA FixedFacts ==
  ASSUME NEW t \in Fixed
  PROVE  \/ Len(t) = 1 /\ t[1] \in {"+", "*", "=", "!", "<", ">", "/"}
         \/ Len(t) = 2 /\ t[1] \in {"&", "|"} /\ t[2] = t[1]
         \/ Len(t) = 2 /\ t[1] \in {":", "!", "<", ">"} /\ t[2] = "="
<1>1. CASE \E c \in Single \union {"!", "<", ">", "/"} : t = <<c>>
  BY <1>1 DEF Single
<1>2. CASE t \in {<<"&", "&">>, <<"|", "|">>, <<":", "=">>,
                 <<"!", "=">>, <<"<", "=">>, <<">", "=">>}
  BY <1>2
<1> QED
  BY <1>1, <1>2 DEF Fixed

LEMMA TextFacts ==
  ASSUME NEW t \in Seq(Characters)
  PROVE  Len(t) \in Nat /\ DOMAIN t = 1..Len(t) /\ (Len(t) >= 1 => Head(t) = t[1])
<1>1. Len(t) \in Nat /\ DOMAIN t = 1..Len(t)
  BY LenProperties
<1> QED
  BY <1>1, HeadTailProperties, EmptySeq

Hexadecimal(t) ==
  Len(t) = 4 /\ t[2] = "x" /\ t[3] \in HexDigits /\ t[4] \in HexDigits

LEMMA WordShape ==
  ASSUME NEW t \in Seq(Characters), IsWord(t)
  PROVE  /\ Len(t) >= 1 /\ t[1] \in Letters \union {"_"}
         /\ \A i \in 1..Len(t) : t[i] \in WordChars
<1>1. Len(t) \in Nat /\ DOMAIN t = 1..Len(t) /\ (Len(t) >= 1 => Head(t) = t[1])
  BY TextFacts
<1>2. Len(t) >= 1 /\ t[1] \notin Digits /\ \A i \in 1..Len(t) : t[i] \in WordChars
  BY <1>1 DEF IsWord, All
<1>3. t[1] \in WordChars
  BY <1>1, <1>2
<1> QED
  BY <1>2, <1>3 DEF WordChars, Alphanumeric

LEMMA IntegerShape ==
  ASSUME NEW t \in Seq(Characters), IsInteger(t)
  PROVE  /\ Len(t) >= 1 /\ t[1] \in Digits
         /\ \A i \in 1..Len(t) : t[i] \in Digits
<1>1. Len(t) \in Nat /\ DOMAIN t = 1..Len(t)
  BY TextFacts
<1>2. Len(t) >= 1 /\ \A i \in 1..Len(t) : t[i] \in Digits
  BY <1>1 DEF IsInteger, All
<1> QED
  BY <1>1, <1>2

LEMMA FloatShape ==
  ASSUME NEW t \in Seq(Characters), IsFloat(t)
  PROVE  /\ Len(t) >= 2 /\ t[1] \in Digits \union {"."}
         /\ \A i \in 1..Len(t) : t[i] \in Digits \union {"."}
         /\ \E p \in 1..Len(t) : \A i \in 1..Len(t) : t[i] = "." <=> i = p
<1>1. Len(t) \in Nat /\ DOMAIN t = 1..Len(t)
  BY TextFacts
<1>2. Len(t) >= 2 /\ \A i \in 1..Len(t) : t[i] \in Digits \union {"."}
  BY <1>1 DEF IsFloat, All
<1>3. PICK p \in 1..Len(t) : Points(t) = {p}
  BY <1>1 DEF IsFloat
<1>4. \A i \in 1..Len(t) : t[i] = "." <=> i = p
  BY <1>1, <1>3 DEF Points
<1>5. t[1] \in Digits \union {"."}
  BY <1>1, <1>2
<1> QED
  BY <1>2, <1>4, <1>5

LEMMA CharShape ==
  ASSUME NEW t \in Seq(Characters), IsChar(t)
  PROVE  \/ Len(t) = 3 /\ t[1] = "'" /\ t[2] \notin Unprintable /\ t[3] = "'"
         \/ t[1] = "0" /\ Hexadecimal(t)
<1>1. Len(t) \in Nat /\ (Len(t) >= 1 => Head(t) = t[1])
  BY TextFacts
<1>2. CASE Len(t) = 3 /\ Ends(t, "'", "'") /\ t[2] \notin Unprintable
  BY <1>1, <1>2 DEF Ends
<1>3. CASE Len(t) = 4 /\ t[1] = "0" /\ t[2] = "x" /\ {t[3], t[4]} \subseteq HexDigits
  BY <1>3 DEF Hexadecimal
<1> QED
  BY <1>2, <1>3 DEF IsChar

LEMMA StringShape ==
  ASSUME NEW t \in Seq(Characters), IsString(t)
  PROVE  /\ Len(t) >= 2 /\ t[1] = "\"" /\ t[Len(t)] = "\""
         /\ \A i \in 2..Len(t) - 1 : t[i] \notin {"\"", "\n"}
<1>1. Len(t) \in Nat /\ (Len(t) >= 1 => Head(t) = t[1])
  BY TextFacts
<1>2. Len(t) >= 2 /\ t[1] = "\"" /\ t[Len(t)] = "\""
  <2>1. Len(t) >= 2
    BY Zenon DEF IsString, Ends
  <2>2. Len(t) >= 1
    BY <1>1, <2>1
  <2>3. Head(t) = "\"" /\ t[Len(t)] = "\""
    BY Zenon DEF IsString, Ends
  <2> QED
    BY <1>1, <2>1, <2>2, <2>3, Zenon
<1>3. \A i \in 2..Len(t) - 1 : t[i] \notin {"\"", "\n"}
  BY DEF IsString, Inner
<1> QED
  BY <1>2, <1>3

LEMMA WordOrNothing ==
  ASSUME NEW t \in Seq(Characters), Lexeme(t), t[1] \in Letters \union {"_"}
  PROVE  \A i \in 1..Len(t) : t[i] \in WordChars
<1>1. t \notin Fixed
  BY FixedFacts DEF Letters
<1>2. ~IsInteger(t)
  BY IntegerShape DEF Letters, Digits
<1>3. ~IsFloat(t)
  BY FloatShape DEF Letters, Digits
<1>4. ~IsChar(t)
  BY CharShape DEF Letters
<1>5. ~IsString(t)
  BY StringShape DEF Letters
<1>6. ~IsComment(t)
  BY DEF IsComment, Letters
<1> QED
  BY <1>1, <1>2, <1>3, <1>4, <1>5, <1>6, WordShape DEF Lexeme

LEMMA NumberOrNothing ==
  ASSUME NEW t \in Seq(Characters), Lexeme(t), t[1] \in Digits \union {"."}
  PROVE  \/ \A i \in 1..Len(t) : t[i] \in Digits
         \/ /\ Len(t) >= 2 /\ \A i \in 1..Len(t) : t[i] \in Digits \union {"."}
            /\ \E p \in 1..Len(t) : \A i \in 1..Len(t) : t[i] = "." <=> i = p
         \/ t[1] = "0" /\ Hexadecimal(t)
<1>1. t \notin Fixed
  BY FixedFacts DEF Digits
<1>2. ~IsWord(t)
  BY WordShape DEF Letters, Digits
<1>3. ~IsString(t)
  BY StringShape DEF Digits
<1>4. ~IsComment(t)
  BY DEF IsComment, Digits
<1>5. IsChar(t) => t[1] = "0" /\ Hexadecimal(t)
  BY CharShape DEF Digits
<1> QED
  BY <1>1, <1>2, <1>3, <1>4, <1>5, IntegerShape, FloatShape DEF Lexeme

LEMMA CharOrNothing ==
  ASSUME NEW t \in Seq(Characters), Lexeme(t), t[1] = "'"
  PROVE  Len(t) = 3 /\ t[2] \notin Unprintable /\ t[3] = "'"
<1>1. t \notin Fixed
  BY FixedFacts
<1>2. ~IsWord(t)
  BY WordShape DEF Letters
<1>3. ~IsInteger(t) /\ ~IsFloat(t)
  BY IntegerShape, FloatShape DEF Digits
<1>4. ~IsString(t)
  BY StringShape
<1>5. ~IsComment(t)
  BY DEF IsComment
<1> QED
  BY <1>1, <1>2, <1>3, <1>4, <1>5, CharShape DEF Lexeme

LEMMA StringOrNothing ==
  ASSUME NEW t \in Seq(Characters), Lexeme(t), t[1] = "\""
  PROVE  /\ Len(t) >= 2 /\ t[Len(t)] = "\""
         /\ \A i \in 2..Len(t) - 1 : t[i] \notin {"\"", "\n"}
<1>1. t \notin Fixed
  BY FixedFacts
<1>2. ~IsWord(t)
  BY WordShape DEF Letters
<1>3. ~IsInteger(t) /\ ~IsFloat(t)
  BY IntegerShape, FloatShape DEF Digits
<1>4. ~IsChar(t)
  BY CharShape
<1>5. ~IsComment(t)
  BY DEF IsComment
<1> QED
  BY <1>1, <1>2, <1>3, <1>4, <1>5, StringShape DEF Lexeme

LEMMA SlashOrNothing ==
  ASSUME NEW t \in Seq(Characters), Lexeme(t), t[1] = "/"
  PROVE  Len(t) = 1 \/ IsComment(t)
<1>1. ~IsWord(t)
  BY WordShape DEF Letters
<1>2. ~IsInteger(t) /\ ~IsFloat(t)
  BY IntegerShape, FloatShape DEF Digits
<1>3. ~IsChar(t)
  BY CharShape
<1>4. ~IsString(t)
  BY StringShape
<1> QED
  BY <1>1, <1>2, <1>3, <1>4, FixedFacts DEF Lexeme

LEMMA OperatorOrNothing ==
  ASSUME NEW t \in Seq(Characters), Lexeme(t),
         t[1] \notin WordChars \union {".", "'", "\"", "/"}
  PROVE  t \in Fixed
<1>1. ~IsWord(t)
  BY WordShape DEF WordChars, Alphanumeric
<1>2. ~IsInteger(t) /\ ~IsFloat(t)
  BY IntegerShape, FloatShape DEF WordChars, Alphanumeric
<1>3. ~IsChar(t)
  BY CharShape DEF WordChars, Alphanumeric, Digits
<1>4. ~IsString(t)
  BY StringShape
<1>5. ~IsComment(t)
  BY DEF IsComment
<1> QED
  BY <1>1, <1>2, <1>3, <1>4, <1>5 DEF Lexeme

-----------------------------------------------------------------------------
(* Which texts can become lexemes.                                         *)

Extends(t, s) ==
  t \in Seq(Characters) /\ Len(t) >= Len(s) /\ \A i \in 1..Len(s) : t[i] = s[i]

LEMMA TokenIsLexeme ==
  ASSUME NEW t, TokenOf(t) # <<>>
  PROVE  Lexeme(t)
BY DEF TokenOf, Lexeme

LEMMA OneIsSeq ==
  ASSUME NEW S, NEW x \in S
  PROVE  <<x>> \in Seq(S)
OBVIOUS

LEMMA TwoIsSeq ==
  ASSUME NEW S, NEW x \in S, NEW y \in S
  PROVE  <<x, y>> \in Seq(S)
OBVIOUS

LEMMA NotViable ==
  ASSUME NEW s \in Seq(Characters), \A t : Extends(t, s) => ~Lexeme(t)
  PROVE  ~Viable(s)
<1> SUFFICES ASSUME NEW e \in Completions, Lexeme(s \o e) PROVE FALSE
  BY TokenIsLexeme DEF Viable, Lexeme
<1>1. e \in Seq(Characters)
  <2>1. <<>> \in Seq(Characters)
    BY EmptySeq
  <2>2. /\ \A x \in Characters : <<x>> \in Seq(Characters)
        /\ \A x \in Characters : \A y \in Characters : <<x, y>> \in Seq(Characters)
    BY OneIsSeq, TwoIsSeq
  <2>3. CASE \E x \in Characters : e = <<x>>
    BY <2>2, <2>3
  <2>4. CASE \E x \in Characters : \E y \in Characters : e = <<x, y>>
    BY <2>2, <2>4
  <2>5. \/ e = <<>>
        \/ \E x \in {"=", "&", "|", "1", "a", "'", "\"", "/"} : e = <<x>>
        \/ \E x \in {"a", "*"} : \E y \in {"a", "'", "/"} : e = <<x, y>>
    BY Zenon DEF Completions
  <2>6. {"=", "&", "|", "1", "a", "'", "\"", "/", "*"} \subseteq Characters
    BY DEF Characters, Alphabet, WordChars, Alphanumeric, Letters, Digits, Single
  <2> QED
    BY <2>1, <2>3, <2>4, <2>5, <2>6, Zenon
<1>2. /\ s \o e \in Seq(Characters) /\ Len(s \o e) = Len(s) + Len(e)
      /\ \A i \in 1..Len(s) + Len(e) :
           (s \o e)[i] = IF i <= Len(s) THEN s[i] ELSE e[i - Len(s)]
  BY <1>1, ConcatProperties
<1>3. Len(s) \in Nat /\ Len(e) \in Nat
  BY <1>1, LenProperties
<1> DEFINE t == s \o e
<1>4. Lexeme(t)
  OBVIOUS
<1> HIDE DEF t
<1>5. Extends(t, s)
  BY <1>2, <1>3 DEF Extends, t
<1> QED
  BY <1>4, <1>5

-----------------------------------------------------------------------------
(* What a text that goes on for long enough would have to be.              *)

Continues(t, r, c) ==
  /\ t \in Seq(Characters) /\ Len(t) \in Nat /\ Len(r) \in Nat /\ Len(t) >= Len(r) + 1
  /\ \A i \in 1..Len(r) : t[i] = r[i]
  /\ t[Len(r) + 1] = c

LEMMA FirstAndLast ==
  ASSUME NEW t, NEW r, NEW c, Continues(t, r, c), Len(r) >= 1
  PROVE  /\ t \in Seq(Characters) /\ Len(t) \in Nat /\ Len(r) \in Nat
         /\ t[1] = r[1] /\ t[Len(r)] = r[Len(r)] /\ t[Len(r) + 1] = c
         /\ Len(r) + 1 \in 1..Len(t) /\ Len(t) >= Len(r) + 1
<1>1. /\ t \in Seq(Characters) /\ Len(t) \in Nat /\ Len(r) \in Nat /\ Len(t) >= Len(r) + 1
      /\ t[Len(r) + 1] = c
  BY DEF Continues
<1>2. 1 \in 1..Len(r) /\ Len(r) \in 1..Len(r)
  BY <1>1
<1>3. t[1] = r[1] /\ t[Len(r)] = r[Len(r)]
  BY <1>2 DEF Continues
<1> QED
  BY <1>1, <1>3

LEMMA Stops ==
  ASSUME NEW r \in Seq(Characters), NEW c \in Characters,
         \A t : Continues(t, r, c) => ~Lexeme(t)
  PROVE  ~Viable(Append(r, c))
<1> DEFINE u == Append(r, c)
<1>1. /\ u \in Seq(Characters) /\ Len(u) = Len(r) + 1 /\ Len(r) \in Nat
      /\ \A i \in 1..Len(r) : u[i] = r[i]
      /\ u[Len(r) + 1] = c
  BY Appended
<1> HIDE DEF u
<1>2. SUFFICES ASSUME NEW t, Extends(t, u), Lexeme(t) PROVE FALSE
  BY <1>1, NotViable DEF u
<1>3. t \in Seq(Characters) /\ Len(t) >= Len(u) /\ \A i \in 1..Len(u) : t[i] = u[i]
  BY <1>2 DEF Extends
<1>4. Len(t) \in Nat
  BY <1>3, LenProperties
<1>5. Continues(t, r, c)
  BY <1>1, <1>3, <1>4 DEF Continues
<1> QED
  BY <1>2, <1>5

LEMMA OneElement ==
  ASSUME NEW S, NEW s \in Seq(S), Len(s) = 1
  PROVE  s = <<s[1]>>
OBVIOUS

LEMMA WordEnds ==
  ASSUME NEW r \in Seq(Characters), NEW c \in Characters, IsWord(r), c \notin WordChars
  PROVE  ~Viable(Append(r, c))
<1>1. Len(r) >= 1 /\ r[1] \in Letters \union {"_"}
  BY WordShape
<1> SUFFICES ASSUME NEW t, Continues(t, r, c), Lexeme(t) PROVE FALSE
  BY Stops
<1>2. t \in Seq(Characters) /\ t[1] = r[1] /\ t[Len(r) + 1] = c /\ Len(r) + 1 \in 1..Len(t)
  BY <1>1, FirstAndLast
<1> QED
  BY <1>1, <1>2, WordOrNothing

(* 0 may go on as a hexadecimal character.                                 *)
LEMMA IntegerEnds ==
  ASSUME NEW r \in Seq(Characters), NEW c \in Characters, IsInteger(r),
         c \notin Digits \union {"."}, r = <<"0">> => c # "x"
  PROVE  ~Viable(Append(r, c))
<1>1. Len(r) >= 1 /\ r[1] \in Digits /\ \A i \in 1..Len(r) : r[i] \in Digits
  BY IntegerShape
<1> SUFFICES ASSUME NEW t, Continues(t, r, c), Lexeme(t) PROVE FALSE
  BY Stops
<1>2. /\ t \in Seq(Characters) /\ t[1] = r[1] /\ t[Len(r) + 1] = c
      /\ Len(r) + 1 \in 1..Len(t) /\ Len(r) \in Nat
  BY <1>1 DEF Continues
<1>3. t[1] = "0" /\ Hexadecimal(t)
  BY <1>1, <1>2, NumberOrNothing
<1>4. t[2] = "x"
  BY <1>3 DEF Hexadecimal
<1>5. CASE Len(r) = 1
  <2>1. r = <<"0">>
    BY <1>2, <1>3, <1>5, OneElement
  <2>2. t[2] = c
    BY <1>2, <1>5
  <2> QED
    BY <1>4, <2>1, <2>2
<1>6. CASE Len(r) # 1
  <2> DEFINE n == Len(r)
  <2>3. n \in Nat /\ n >= 1 /\ n # 1
    BY <1>1, <1>2, <1>6
  <2> HIDE DEF n
  <2>4. 2 \in 1..n
    BY <2>3
  <2>1. 2 \in 1..Len(r)
    BY <2>4 DEF n
  <2>2. t[2] = r[2]
    BY <2>1 DEF Continues
  <2> QED
    BY <1>1, <1>4, <2>1, <2>2 DEF Digits
<1> QED
  BY <1>5, <1>6

LEMMA PointEnds ==
  ASSUME NEW c \in Characters, c \notin Digits
  PROVE  ~Viable(Append(<<".">>, c))
<1> DEFINE r == <<".">>
<1>1. r \in Seq(Characters) /\ Len(r) = 1 /\ r[1] = "."
  BY OneIsSeq DEF Characters, Alphabet
<1> HIDE DEF r
<1> SUFFICES ASSUME NEW t, Continues(t, r, c), Lexeme(t) PROVE FALSE
  BY <1>1, Stops DEF r
<1>2. /\ t \in Seq(Characters) /\ t[1] = "." /\ t[2] = c /\ Len(t) \in Nat /\ Len(t) >= 2
      /\ 1 \in 1..Len(t) /\ 2 \in 1..Len(t)
  BY <1>1 DEF Continues
<1>3. \/ \A i \in 1..Len(t) : t[i] \in Digits
      \/ /\ \A i \in 1..Len(t) : t[i] \in Digits \union {"."}
         /\ \E p \in 1..Len(t) : \A i \in 1..Len(t) : t[i] = "." <=> i = p
  BY <1>2, NumberOrNothing
<1> QED
  BY <1>2, <1>3

LEMMA FloatEnds ==
  ASSUME NEW r \in Seq(Characters), NEW c \in Characters, IsFloat(r), c \notin Digits
  PROVE  ~Viable(Append(r, c))
<1>1. /\ Len(r) >= 2 /\ r[1] \in Digits \union {"."}
      /\ \A i \in 1..Len(r) : r[i] \in Digits \union {"."}
  BY FloatShape
<1>2. PICK p \in 1..Len(r) : \A i \in 1..Len(r) : r[i] = "." <=> i = p
  BY FloatShape
<1> SUFFICES ASSUME NEW t, Continues(t, r, c), Lexeme(t) PROVE FALSE
  BY Stops
<1>3. /\ t \in Seq(Characters) /\ t[1] = r[1] /\ t[Len(r) + 1] = c /\ t[2] = r[2] /\ t[p] = "."
      /\ Len(r) + 1 \in 1..Len(t) /\ Len(r) \in Nat /\ 2 \in 1..Len(r) /\ p \in 1..Len(t)
      /\ p # Len(r) + 1
  BY <1>1, <1>2 DEF Continues
<1>4. ~Hexadecimal(t)
  BY <1>1, <1>3 DEF Hexadecimal, Digits
<1>5. \/ \A i \in 1..Len(t) : t[i] \in Digits
      \/ /\ \A i \in 1..Len(t) : t[i] \in Digits \union {"."}
         /\ \E q \in 1..Len(t) : \A i \in 1..Len(t) : t[i] = "." <=> i = q
  BY <1>1, <1>3, <1>4, NumberOrNothing
<1>6. "." \notin Digits
  BY DEF Digits
<1> QED
  BY <1>3, <1>5, <1>6

LEMMA CharEnds ==
  ASSUME NEW r \in Seq(Characters), NEW c \in Characters,
         Len(r) >= 1, r[1] = "'",
         \/ Len(r) = 1 /\ c \in Unprintable
         \/ Len(r) = 2 /\ c # "'"
         \/ Len(r) >= 3
  PROVE  ~Viable(Append(r, c))
<1> SUFFICES ASSUME NEW t, Continues(t, r, c), Lexeme(t) PROVE FALSE
  BY Stops
<1>1. /\ t \in Seq(Characters) /\ t[1] = "'" /\ t[Len(r) + 1] = c
      /\ Len(t) >= Len(r) + 1 /\ Len(r) \in Nat /\ Len(t) \in Nat
  BY FirstAndLast
<1>2. Len(t) = 3 /\ t[2] \notin Unprintable /\ t[3] = "'"
  BY <1>1, CharOrNothing
<1>3. CASE Len(r) = 1 /\ c \in Unprintable
  <2>1. t[2] = c
    BY <1>1, <1>3
  <2> QED
    BY <1>2, <1>3, <2>1
<1>4. CASE Len(r) = 2 /\ c # "'"
  <2>1. t[3] = c
    BY <1>1, <1>4
  <2> QED
    BY <1>2, <1>4, <2>1
<1>5. CASE Len(r) >= 3
  BY <1>1, <1>2, <1>5
<1> QED
  BY <1>3, <1>4, <1>5

LEMMA HexadecimalEnds ==
  ASSUME NEW r \in Seq(Characters), NEW c \in Characters,
         Len(r) >= 2, r[1] = "0", r[2] = "x",
         Len(r) \in {2, 3} => c \notin HexDigits
  PROVE  ~Viable(Append(r, c))
<1> SUFFICES ASSUME NEW t, Continues(t, r, c), Lexeme(t) PROVE FALSE
  BY Stops
<1>1. /\ t \in Seq(Characters) /\ t[1] = "0" /\ t[2] = "x" /\ t[Len(r) + 1] = c
      /\ Len(t) >= Len(r) + 1 /\ Len(r) \in Nat /\ Len(t) \in Nat /\ 2 \in 1..Len(t)
  BY DEF Continues
<1>2. Hexadecimal(t)
  BY <1>1, NumberOrNothing DEF Digits
<1>3. Len(t) = 4 /\ t[3] \in HexDigits /\ t[4] \in HexDigits
  BY <1>2 DEF Hexadecimal
<1>4. Len(r) \in {2, 3}
  <2> DEFINE n == Len(r)
  <2>1. n \in Nat /\ n >= 2 /\ 4 >= n + 1
    BY <1>1, <1>3
  <2> HIDE DEF n
  <2>2. n = 2 \/ n = 3
    BY <2>1
  <2> QED
    BY <2>2 DEF n
<1>5. t[Len(r) + 1] \in HexDigits
  <2>1. CASE Len(r) = 2
    BY <1>3, <2>1
  <2>2. CASE Len(r) = 3
    BY <1>3, <2>2
  <2> QED
    BY <1>4, <2>1, <2>2
<1> QED
  BY <1>1, <1>4, <1>5

OpenString(r) ==
  Len(r) >= 1 /\ r[1] = "\"" /\ \A i \in 2..Len(r) : r[i] \notin {"\"", "\n"}

LEMMA StringEnds ==
  ASSUME NEW r \in Seq(Characters), OpenString(r)
  PROVE  ~Viable(Append(r, "\n"))
<1>1. "\n" \in Characters
  BY DEF Characters, Alphabet, Blanks
<1> SUFFICES ASSUME NEW t, Continues(t, r, "\n"), Lexeme(t) PROVE FALSE
  BY <1>1, Stops
<1>2. Len(r) >= 1 /\ r[1] = "\""
  BY Zenon DEF OpenString
<1>3. /\ t \in Seq(Characters) /\ t[1] = r[1] /\ t[Len(r) + 1] = "\n"
      /\ Len(t) >= Len(r) + 1 /\ Len(r) \in Nat /\ Len(t) \in Nat
  BY <1>2, FirstAndLast
<1>4. t[Len(t)] = "\"" /\ \A i \in 2..Len(t) - 1 : t[i] \notin {"\"", "\n"}
  BY <1>2, <1>3, StringOrNothing
<1>5. Len(r) + 1 # Len(t)
  BY <1>3, <1>4
<1>6. Len(r) >= 1
  BY <1>2
<1> HIDE DEF Continues
<1>7. Len(r) + 1 \in 2..Len(t) - 1
  BY <1>3, <1>5, <1>6
<1> QED
  BY <1>3, <1>4, <1>7

LEMMA ClosedStringEnds ==
  ASSUME NEW r \in Seq(Characters), NEW c \in Characters, IsString(r)
  PROVE  ~Viable(Append(r, c))
<1> SUFFICES ASSUME NEW t, Continues(t, r, c), Lexeme(t) PROVE FALSE
  BY Stops
<1>1. Len(r) >= 2 /\ r[1] = "\"" /\ r[Len(r)] = "\""
  BY StringShape
<1>2. Len(r) \in Nat
  BY LenProperties
<1>3. Len(r) >= 2
  BY <1>1
<1>4. Len(r) >= 1
  BY <1>2, <1>3
<1>5. /\ t \in Seq(Characters) /\ t[1] = r[1] /\ t[Len(r)] = r[Len(r)]
      /\ Len(t) >= Len(r) + 1 /\ Len(t) \in Nat
  BY <1>4, FirstAndLast
<1>6. \A i \in 2..Len(t) - 1 : t[i] \notin {"\"", "\n"}
  BY <1>1, <1>5, StringOrNothing
<1>7. Len(r) \in 2..Len(t) - 1
  BY <1>2, <1>3, <1>5
<1> QED
  BY <1>1, <1>5, <1>6, <1>7

LEMMA SlashEnds ==
  ASSUME NEW c \in Characters, c # "*"
  PROVE  ~Viable(Append(<<"/">>, c))
<1> DEFINE r == <<"/">>
<1>1. r \in Seq(Characters) /\ Len(r) = 1 /\ r[1] = "/"
  BY OneIsSeq DEF Characters, Alphabet
<1> HIDE DEF r
<1> SUFFICES ASSUME NEW t, Continues(t, r, c), Lexeme(t) PROVE FALSE
  BY <1>1, Stops DEF r
<1>2. t \in Seq(Characters) /\ t[1] = "/" /\ t[2] = c /\ Len(t) \in Nat /\ Len(t) >= 2
  BY <1>1 DEF Continues
<1>3. IsComment(t)
  BY <1>2, SlashOrNothing
<1> QED
  BY <1>2, <1>3 DEF IsComment

Plain == Characters \ (WordChars \union {".", "'", "\"", "/"})

(* No operator has three characters, and of two few are one.               *)
LEMMA OperatorEnds ==
  ASSUME NEW r \in Seq(Characters), NEW c \in Characters,
         Len(r) >= 1 => r[1] \in Plain,
         \/ r = <<>> /\ c \in {"@", "\r"}
         \/ Len(r) = 1 /\ r[1] \in Single
         \/ Len(r) = 1 /\ r[1] \in {"&", "|"} /\ c # r[1]
         \/ Len(r) = 1 /\ r[1] \in {":", "!", "<", ">"} /\ c # "="
         \/ Len(r) >= 2
  PROVE  ~Viable(Append(r, c))
<1> SUFFICES ASSUME NEW t, Continues(t, r, c), Lexeme(t) PROVE FALSE
  BY Stops
<1>1. /\ t \in Seq(Characters) /\ t[Len(r) + 1] = c
      /\ Len(t) >= Len(r) + 1 /\ Len(r) \in Nat /\ Len(t) \in Nat
  BY DEF Continues
<1>2. CASE r = <<>> /\ c \in {"@", "\r"}
  <2>1. Len(r) = 0
    BY <1>2
  <2>2. t[1] = c
    BY <1>1, <2>1
  <2>3. t[1] \notin WordChars \union {".", "'", "\"", "/"}
    BY <1>2, <2>2 DEF WordChars, Alphanumeric, Letters, Digits
  <2>4. t \in Fixed
    BY <1>1, <2>3, OperatorOrNothing
  <2> QED
    BY <1>2, <2>2, <2>4, FixedFacts
<1>3. CASE Len(r) >= 1
  <2>1. t[1] = r[1]
    BY <1>1, <1>3 DEF Continues
  <2>2. t \in Fixed
    BY <1>1, <1>3, <2>1, OperatorOrNothing DEF Plain
  <2> QED
    BY <1>1, <1>3, <2>1, <2>2, FixedFacts DEF Single
<1> QED
  BY <1>1, <1>2, <1>3

-----------------------------------------------------------------------------
(* Which token a lexeme is.                                                *)

LEMMA FixedIs ==
  ASSUME NEW r \in Seq(Characters), r \in Fixed
  PROVE  TokenOf(r) = <<r, "none">>
<1>1. ~IsWord(r)
  BY FixedFacts, WordShape DEF Letters
<1>2. ~IsInteger(r) /\ ~IsFloat(r)
  BY FixedFacts, IntegerShape, FloatShape DEF Digits
<1>3. ~IsChar(r)
  BY FixedFacts, CharShape
<1>4. ~IsString(r)
  BY FixedFacts, StringShape
<1> QED
  BY <1>1, <1>2, <1>3, <1>4 DEF TokenOf

LEMMA WordIs ==
  ASSUME NEW r \in Seq(Characters), IsWord(r)
  PROVE  TokenOf(r) = <<WordToken, "none">>
<1>1. r \notin Fixed
  BY FixedFacts, WordShape DEF Letters
<1>2. ~IsInteger(r) /\ ~IsFloat(r)
  BY WordShape, IntegerShape, FloatShape DEF Digits, Letters
<1>3. ~IsChar(r)
  BY WordShape, CharShape DEF Letters
<1>4. ~IsString(r)
  BY WordShape, StringShape DEF Letters
<1> QED
  BY <1>1, <1>2, <1>3, <1>4 DEF TokenOf

LEMMA IntegerIs ==
  ASSUME NEW r \in Seq(Characters), IsInteger(r)
  PROVE  TokenOf(r) = <<ConstantToken, "int">>
<1>1. r \notin Fixed
  BY FixedFacts, IntegerShape DEF Digits
<1>2. ~IsWord(r)
  BY WordShape, IntegerShape DEF Digits, Letters
<1>3. ~IsFloat(r)
  <2>1. "." \notin Digits
    BY DEF Digits
  <2> QED
    BY <2>1, IntegerShape, FloatShape
<1>4. ~IsChar(r)
  <2>1. ASSUME Hexadecimal(r) PROVE FALSE
    <3>1. r[2] = "x" /\ 2 \in 1..Len(r)
      BY <2>1 DEF Hexadecimal
    <3> QED
      BY <3>1, IntegerShape DEF Digits
  <2> QED
    BY <2>1, IntegerShape, CharShape DEF Digits
<1>5. ~IsString(r)
  BY IntegerShape, StringShape DEF Digits
<1> QED
  BY <1>1, <1>2, <1>3, <1>4, <1>5 DEF TokenOf

LEMMA FloatIs ==
  ASSUME NEW r \in Seq(Characters), IsFloat(r)
  PROVE  TokenOf(r) = <<ConstantToken, "float">>
<1>1. r \notin Fixed
  BY FixedFacts, FloatShape DEF Digits
<1>2. ~IsWord(r)
  BY WordShape, FloatShape DEF Digits, Letters
<1>3. ~IsInteger(r)
  <2>1. "." \notin Digits
    BY DEF Digits
  <2> QED
    BY <2>1, IntegerShape, FloatShape
<1>4. ~IsChar(r)
  <2>1. ASSUME Hexadecimal(r) PROVE FALSE
    <3>1. r[2] = "x" /\ 2 \in 1..Len(r)
      BY <2>1 DEF Hexadecimal
    <3> QED
      BY <3>1, FloatShape DEF Digits
  <2> QED
    BY <2>1, FloatShape, CharShape DEF Digits
<1>5. ~IsString(r)
  BY FloatShape, StringShape DEF Digits
<1> QED
  BY <1>1, <1>2, <1>3, <1>4, <1>5 DEF TokenOf

LEMMA CharIs ==
  ASSUME NEW r \in Seq(Characters), IsChar(r)
  PROVE  TokenOf(r) = <<ConstantToken, "char">>
<1>1. r \notin Fixed
  BY FixedFacts, CharShape
<1>2. ~IsWord(r)
  BY WordShape, CharShape DEF Letters
<1>3. ~IsInteger(r) /\ ~IsFloat(r)
  <2>1. ASSUME Hexadecimal(r) PROVE ~IsInteger(r) /\ ~IsFloat(r)
    <3>1. r[2] = "x" /\ 2 \in 1..Len(r)
      BY <2>1 DEF Hexadecimal
    <3> QED
      BY <3>1, IntegerShape, FloatShape DEF Digits
  <2> QED
    BY <2>1, IntegerShape, FloatShape, CharShape DEF Digits
<1>4. ~IsString(r)
  BY CharShape, StringShape
<1> QED
  BY <1>1, <1>2, <1>3, <1>4 DEF TokenOf

LEMMA StringIs ==
  ASSUME NEW r \in Seq(Characters), IsString(r)
  PROVE  TokenOf(r) = <<ConstantToken, "string">>
<1>1. r \notin Fixed
  BY FixedFacts, StringShape
<1>2. ~IsWord(r)
  BY WordShape, StringShape DEF Letters
<1>3. ~IsInteger(r) /\ ~IsFloat(r)
  BY IntegerShape, FloatShape, StringShape DEF Digits
<1>4. ~IsChar(r)
  BY CharShape, StringShape
<1> QED
  BY <1>1, <1>2, <1>3, <1>4 DEF TokenOf

-----------------------------------------------------------------------------
(* A character more of a lexeme.                                           *)

LEMMA OneLong ==
  ASSUME NEW c
  PROVE  Len(<<c>>) >= 1
OBVIOUS

LEMMA FirstOnes ==
  /\ \A c \in Letters \union {"_"} : IsWord(<<c>>)
  /\ \A c \in Digits : IsInteger(<<c>>)
<1>1. \A c : DOMAIN <<c>> = {1} /\ <<c>>[1] = c /\ Len(<<c>>) = 1 /\ Head(<<c>>) = c
  OBVIOUS
<1>2. ASSUME NEW c \in Letters \union {"_"} PROVE IsWord(<<c>>)
  <2>1. c \in WordChars /\ c \notin Digits
    BY DEF WordChars, Alphanumeric, Letters, Digits
  <2> DEFINE d == <<c>>
  <2>2. DOMAIN d = {1} /\ d[1] = c /\ Head(d) = c
    BY <1>1
  <2>4. Len(d) >= 1
    BY OneLong
  <2> HIDE DEF d
  <2>3. All(d, WordChars)
    BY <2>1, <2>2 DEF All
  <2>5. Head(d) \notin Digits
    BY <2>1, <2>2
  <2> QED
    BY <2>3, <2>4, <2>5 DEF IsWord, d
<1>3. ASSUME NEW c \in Digits PROVE IsInteger(<<c>>)
  BY <1>1 DEF IsInteger, All
<1> QED
  BY <1>2, <1>3

LEMMA MoreFacts ==
  ASSUME NEW r \in Seq(Characters), NEW c \in Characters
  PROVE  LET u == Append(r, c)
         IN /\ u \in Seq(Characters) /\ Len(r) \in Nat /\ Len(u) = Len(r) + 1
            /\ DOMAIN r = 1..Len(r) /\ DOMAIN u = 1..Len(r) + 1
            /\ \A i \in 1..Len(r) : u[i] = r[i]
            /\ u[Len(r) + 1] = c
            /\ Head(u) = u[1]
            /\ r # <<>> => Head(r) = r[1] /\ u[1] = r[1] /\ Len(r) >= 1
<1> DEFINE u == Append(r, c)
<1>1. /\ u \in Seq(Characters) /\ Len(u) = Len(r) + 1 /\ Len(r) \in Nat
      /\ \A i \in 1..Len(r) : u[i] = r[i]
      /\ u[Len(r) + 1] = c
  BY Appended
<1>2. DOMAIN r = 1..Len(r) /\ (Len(r) >= 1 => Head(r) = r[1])
  BY TextFacts
<1> HIDE DEF u
<1>3. DOMAIN u = 1..Len(u) /\ Head(u) = u[1]
  BY <1>1, TextFacts
<1>4. r # <<>> => Len(r) >= 1
  BY <1>1, EmptySeq
<1> QED
  BY <1>1, <1>2, <1>3, <1>4 DEF u

LEMMA MoreOfWord ==
  ASSUME NEW r \in Seq(Characters), NEW c \in WordChars, IsWord(r)
  PROVE  IsWord(Append(r, c))
<1> DEFINE u == Append(r, c)
<1>1. c \in Characters
  BY DEF Characters, Alphabet
<1>2. /\ Len(r) \in Nat /\ Len(u) = Len(r) + 1
      /\ DOMAIN r = 1..Len(r) /\ DOMAIN u = 1..Len(r) + 1
      /\ \A i \in 1..Len(r) : u[i] = r[i]
      /\ u[Len(r) + 1] = c
      /\ Head(u) = u[1]
      /\ r # <<>> => Head(r) = r[1] /\ u[1] = r[1] /\ Len(r) >= 1
  BY <1>1, MoreFacts
<1> HIDE DEF u
<1>3. Len(r) >= 1 /\ r # <<>> /\ Head(u) \notin Digits
  BY <1>2, EmptySeq DEF IsWord
<1>4. All(u, WordChars)
  BY <1>2 DEF All, IsWord
<1> QED
  BY <1>2, <1>3, <1>4 DEF IsWord, u

LEMMA MoreOfInteger ==
  ASSUME NEW r \in Seq(Characters), NEW c \in Digits, IsInteger(r)
  PROVE  IsInteger(Append(r, c)) /\ Append(r, c) # <<"0">>
<1> DEFINE u == Append(r, c)
<1>1. c \in Characters
  BY DEF Characters, Alphabet, WordChars, Alphanumeric
<1>2. /\ Len(r) \in Nat /\ Len(u) = Len(r) + 1
      /\ DOMAIN r = 1..Len(r) /\ DOMAIN u = 1..Len(r) + 1
      /\ \A i \in 1..Len(r) : u[i] = r[i]
      /\ u[Len(r) + 1] = c
  BY <1>1, MoreFacts
<1> HIDE DEF u
<1>3. Len(r) >= 1 /\ All(u, Digits)
  BY <1>2 DEF All, IsInteger
<1>4. Len(u) >= 2
  BY <1>2, <1>3
<1>5. Len(<<"0">>) = 1
  OBVIOUS
<1> QED
  BY <1>2, <1>3, <1>4, <1>5 DEF IsInteger, u

LEMMA PointOfInteger ==
  ASSUME NEW r \in Seq(Characters), IsInteger(r)
  PROVE  IsFloat(Append(r, "."))
<1> DEFINE u == Append(r, ".")
<1>1. "." \in Characters /\ "." \notin Digits
  BY DEF Characters, Alphabet, Digits
<1>2. /\ Len(r) \in Nat /\ Len(u) = Len(r) + 1
      /\ DOMAIN r = 1..Len(r) /\ DOMAIN u = 1..Len(r) + 1
      /\ \A i \in 1..Len(r) : u[i] = r[i]
      /\ u[Len(r) + 1] = "."
  BY <1>1, MoreFacts
<1> HIDE DEF u
<1>3. Len(r) >= 1 /\ \A i \in 1..Len(r) : u[i] \in Digits
  BY <1>2 DEF All, IsInteger
<1>4. Points(u) = {Len(r) + 1}
  BY <1>1, <1>2, <1>3 DEF Points
<1>5. All(u, Digits \union {"."})
  BY <1>2, <1>3 DEF All
<1>6. Len(u) >= 2 /\ Len(r) + 1 \in DOMAIN u
  BY <1>2, <1>3
<1> QED
  BY <1>4, <1>5, <1>6 DEF IsFloat, u

LEMMA MoreOfFloat ==
  ASSUME NEW r \in Seq(Characters), NEW c \in Digits,
         IsFloat(r) \/ r = <<".">>
  PROVE  IsFloat(Append(r, c))
<1> DEFINE u == Append(r, c)
<1>1. c \in Characters /\ c # "."
  BY DEF Characters, Alphabet, WordChars, Alphanumeric, Digits
<1>2. /\ Len(r) \in Nat /\ Len(u) = Len(r) + 1
      /\ DOMAIN r = 1..Len(r) /\ DOMAIN u = 1..Len(r) + 1
      /\ \A i \in 1..Len(r) : u[i] = r[i]
      /\ u[Len(r) + 1] = c
  BY <1>1, MoreFacts
<1> HIDE DEF u
<1>3. /\ Len(r) >= 1 /\ All(r, Digits \union {"."})
      /\ \E i \in DOMAIN r : Points(r) = {i}
  <2>1. CASE IsFloat(r)
    <3>1. Len(r) >= 2
      BY <2>1 DEF IsFloat
    <3>2. Len(r) >= 1
      BY <1>2, <3>1
    <3> QED
      BY <2>1, <3>2 DEF IsFloat
  <2>2. CASE r = <<".">>
    <3>1. DOMAIN r = {1} /\ r[1] = "." /\ Len(r) = 1
      BY <2>2
    <3> QED
      BY <3>1 DEF All, Points
  <2> QED
    BY <2>1, <2>2
<1>4. PICK p \in DOMAIN r : Points(r) = {p}
  BY <1>3
<1>5. \A i \in 1..Len(r) : r[i] = "." <=> i = p
  BY <1>2, <1>4 DEF Points
<1>6. Points(u) = {p}
  BY <1>1, <1>2, <1>4, <1>5 DEF Points
<1>7. All(u, Digits \union {"."})
  BY <1>2, <1>3 DEF All
<1>8. Len(u) >= 2 /\ p \in DOMAIN u
  BY <1>2, <1>3
<1> QED
  BY <1>6, <1>7, <1>8 DEF IsFloat, u

LEMMA MoreOfChar ==
  ASSUME NEW r \in Seq(Characters), Len(r) = 2, r[1] = "'", r[2] \notin Unprintable
  PROVE  IsChar(Append(r, "'"))
<1> DEFINE u == Append(r, "'")
<1>1. "'" \in Characters
  BY DEF Characters, Alphabet
<1>2. /\ Len(u) = 3 /\ Head(u) = u[1] /\ \A i \in 1..2 : u[i] = r[i]
      /\ u[3] = "'"
  <2>1. /\ Len(u) = Len(r) + 1 /\ Head(u) = u[1]
        /\ \A i \in 1..Len(r) : u[i] = r[i]
        /\ u[Len(r) + 1] = "'"
    BY <1>1, MoreFacts
  <2> HIDE DEF u
  <2> QED
    BY <2>1
<1> HIDE DEF u
<1>3. u[1] = "'" /\ u[2] \notin Unprintable
  BY <1>2
<1> QED
  BY <1>2, <1>3 DEF IsChar, Ends, u

LEMMA MoreOfHexadecimal ==
  ASSUME NEW r \in Seq(Characters), NEW c \in HexDigits,
         Len(r) = 3, r[1] = "0", r[2] = "x", r[3] \in HexDigits
  PROVE  IsChar(Append(r, c))
<1> DEFINE u == Append(r, c)
<1>1. c \in Characters
  BY DEF Characters, Alphabet, HexDigits, WordChars, Alphanumeric, Letters
<1>2. Len(u) = 4 /\ (\A i \in 1..3 : u[i] = r[i]) /\ u[4] = c
  <2>1. /\ Len(u) = Len(r) + 1
        /\ \A i \in 1..Len(r) : u[i] = r[i]
        /\ u[Len(r) + 1] = c
    BY <1>1, MoreFacts
  <2> HIDE DEF u
  <2> QED
    BY <2>1
<1> HIDE DEF u
<1>3. u[1] = "0" /\ u[2] = "x" /\ u[3] \in HexDigits
  BY <1>2
<1> QED
  BY <1>2, <1>3 DEF IsChar, u

LEMMA MoreOfString ==
  ASSUME NEW r \in Seq(Characters), NEW c \in Characters, OpenString(r)
  PROVE  /\ c \notin {"\"", "\n"} => OpenString(Append(r, c))
         /\ c = "\"" => IsString(Append(r, c))
<1> DEFINE u == Append(r, c)
           n == Len(r)
<1>1. /\ Len(u) = n + 1 /\ n \in Nat /\ Head(u) = u[1]
      /\ \A i \in 1..n : u[i] = r[i]
      /\ u[n + 1] = c
  BY MoreFacts
<1> HIDE DEF u
<1>2. n >= 1 /\ r[1] = "\"" /\ \A i \in 2..n : r[i] \notin {"\"", "\n"}
  BY Zenon DEF OpenString
<1> HIDE DEF n
<1>7. n >= 1
  BY Zenon DEF OpenString, n
<1>3. n >= 1 /\ 1 \in 1..n /\ \A i \in 2..n : i \in 1..n
  BY <1>1, <1>7
<1>4. u[1] = "\"" /\ \A i \in 2..n : u[i] \notin {"\"", "\n"}
  BY <1>1, <1>2, <1>3, Zenon
<1>5. ASSUME c \notin {"\"", "\n"} PROVE OpenString(u)
  <2>1. \A i \in 2..n + 1 : i = n + 1 \/ i \in 2..n
    BY <1>1
  <2>2. \A i \in 2..n + 1 : u[i] \notin {"\"", "\n"}
    BY <1>1, <1>4, <1>5, <2>1, Zenon
  <2>3. n + 1 >= 1
    BY <1>1
  <2> QED
    BY <1>1, <1>4, <2>2, <2>3, Zenon DEF OpenString
<1>6. ASSUME c = "\"" PROVE IsString(u)
  <2>1. Len(u) >= 2 /\ Len(u) - 1 = n
    BY <1>1, <1>3
  <2>2. Inner(u) \intersect {"\"", "\n"} = {}
    BY <1>4, <2>1, Zenon DEF Inner
  <2>3. Head(u) = "\"" /\ u[Len(u)] = "\""
    BY <1>1, <1>4, <1>6, Zenon
  <2> QED
    BY <2>1, <2>2, <2>3, Zenon DEF IsString, Ends
<1> QED
  BY <1>5, <1>6 DEF u

InComment(r) ==
  /\ Len(r) >= 2 /\ r[1] = "/" /\ r[2] = "*"
  /\ \A i \in 3..Len(r) - 1 : ~(r[i] = "*" /\ r[i + 1] = "/")

(* A comment ends at a / after the * and nowhere else.                     *)
LEMMA MoreOfComment ==
  ASSUME NEW r \in Seq(Characters), NEW c \in Characters, InComment(r)
  PROVE  LET u == Append(r, c)
             closes == Len(r) >= 3 /\ r[Len(r)] = "*" /\ c = "/"
         IN /\ closes => IsComment(u)
            /\ ~closes => InComment(u) /\ ~IsComment(u)
<1> DEFINE u == Append(r, c)
           n == Len(r)
           closes == n >= 3 /\ r[n] = "*" /\ c = "/"
<1>1. /\ Len(u) = n + 1 /\ n \in Nat
      /\ \A i \in 1..n : u[i] = r[i]
      /\ u[n + 1] = c
  BY MoreFacts
<1>2. /\ n >= 2 /\ r[1] = "/" /\ r[2] = "*"
      /\ \A i \in 3..n - 1 : ~(r[i] = "*" /\ r[i + 1] = "/")
  BY DEF InComment
<1> HIDE DEF u, n
<1>3. Len(u) >= 2 /\ u[1] = "/" /\ u[2] = "*"
  BY <1>1, <1>2
<1>4. \A i \in 3..n - 1 : ~(u[i] = "*" /\ u[i + 1] = "/")
  BY <1>1, <1>2
<1>5. ASSUME closes PROVE IsComment(u)
  <2>1. u[n] = "*" /\ u[n + 1] = "/" /\ n \in 3..n
    BY <1>1, <1>5
  <2>2. {i \in 3..n : u[i] = "*" /\ u[i + 1] = "/"} = {n}
    BY <1>1, <1>4, <2>1
  <2>3. Len(u) - 1 = n /\ Len(u) >= 4
    BY <1>1, <1>5
  <2> QED
    BY <1>3, <2>2, <2>3 DEF IsComment
<1>6. ASSUME ~closes PROVE InComment(u) /\ ~IsComment(u)
  <2>1. \A i \in 3..n : ~(u[i] = "*" /\ u[i + 1] = "/")
    <3> SUFFICES ASSUME NEW i \in 3..n, u[i] = "*" /\ u[i + 1] = "/" PROVE FALSE
      OBVIOUS
    <3>1. i = n
      BY <1>1, <1>4
    <3> QED
      BY <1>1, <1>6, <3>1
  <2>2. Len(u) - 1 = n
    BY <1>1
  <2>3. InComment(u)
    BY <1>3, <2>1, <2>2 DEF InComment
  <2>4. ~IsComment(u)
    BY <2>1, <2>2 DEF IsComment
  <2> QED
    BY <2>3, <2>4
<1> QED
  BY <1>5, <1>6 DEF u, n

-----------------------------------------------------------------------------
(* What has begun can be completed.                                        *)

LEMMA Completable ==
  ASSUME NEW r \in Seq(Characters)
  PROVE  /\ TokenOf(r) # <<>> => Viable(r)
         /\ \A c \in Characters : <<c>> \in Completions
              /\ (TokenOf(Append(r, c)) # <<>> \/ IsComment(Append(r, c))) => Viable(r)
         /\ \A c, d \in Characters : <<c, d>> \in Completions
              /\ (\/ TokenOf(Append(Append(r, c), d)) # <<>>
                 \/ IsComment(Append(Append(r, c), d))) => Viable(r)
<1>1. r \o <<>> = r /\ <<>> \in Completions
  BY ConcatEmptySeq DEF Completions
<1>2. \A c \in Characters : r \o <<c>> = Append(r, c)
  BY AppendIsConcat
<1>3. ASSUME NEW c \in Characters, NEW d \in Characters
      PROVE  r \o <<c, d>> = Append(Append(r, c), d)
  <2> DEFINE a == Append(Append(r, c), d)
             b == r \o <<c, d>>
             e == <<c, d>>
  <2>1. /\ Append(r, c) \in Seq(Characters) /\ Len(Append(r, c)) = Len(r) + 1 /\ Len(r) \in Nat
        /\ \A i \in 1..Len(r) : Append(r, c)[i] = r[i]
        /\ Append(r, c)[Len(r) + 1] = c
    BY Appended
  <2>2. /\ a \in Seq(Characters) /\ Len(a) = Len(Append(r, c)) + 1
        /\ \A i \in 1..Len(Append(r, c)) : a[i] = Append(r, c)[i]
        /\ a[Len(Append(r, c)) + 1] = d
    BY <2>1, Appended
  <2>3. e \in Seq(Characters) /\ Len(e) = 2 /\ e[1] = c /\ e[2] = d
    BY TwoIsSeq
  <2> HIDE DEF a, e
  <2>4. /\ b \in Seq(Characters) /\ Len(b) = Len(r) + Len(e)
        /\ \A i \in 1..Len(r) + Len(e) : b[i] = IF i <= Len(r) THEN r[i] ELSE e[i - Len(r)]
    BY <2>3, ConcatProperties DEF e
  <2> HIDE DEF b
  <2>5. Len(a) = Len(b)
    BY <2>1, <2>2, <2>3, <2>4
  <2>6. \A i \in 1..Len(b) : i \in 1..Len(r) \/ i = Len(r) + 1 \/ i = Len(r) + 2
    BY <2>1, <2>3, <2>4
  <2>7. \A i \in 1..Len(r) : a[i] = b[i]
    BY <2>1, <2>2, <2>3, <2>4, SMTT(30)
  <2>8. a[Len(r) + 1] = b[Len(r) + 1] /\ a[Len(r) + 2] = b[Len(r) + 2]
    <3>1. a[Len(r) + 1] = c /\ a[Len(r) + 2] = d
      BY <2>1, <2>2
    <3>2. Len(r) + 1 - Len(r) = 1 /\ Len(r) + 2 - Len(r) = 2
      BY <2>1
    <3> QED
      BY <2>1, <2>3, <2>4, <3>1, <3>2
  <2>9. \A i \in 1..Len(a) : a[i] = b[i]
    BY <2>5, <2>6, <2>7, <2>8
  <2> QED
    BY <2>2, <2>4, <2>5, <2>9, SeqEqual DEF a, b, e
<1> QED
  BY <1>1, <1>2, <1>3, Zenon DEF Viable

-----------------------------------------------------------------------------
(* The invariant.                                                          *)

States ==
  {"initial", "keyword_or_identifier", "&", "|", ":", "!", "<", ">",
   "division_or_comentary", "in_commentary", "leaving_commentary",
   "enter_char_constant", "leave_char_constant", "string_constant",
   "char_or_number", "enter_hexadecimal_char", "hexadecimal_char",
   "integer_or_float", "start_float", "float"}
Between == {"initial", "in_commentary", "leaving_commentary"}
Operators == {"&", "|", ":", "!", "<", ">"}

(* What has been read of a token, or of a comment, in the state st.        *)
Begun(st, r) ==
  /\ st = "initial" => r = <<>>
  /\ st = "keyword_or_identifier" => IsWord(r)
  /\ st \in Operators => r = <<st>>
  /\ st = "division_or_comentary" => r = <<"/">>
  /\ st = "in_commentary" => InComment(r) /\ (Len(r) = 2 \/ r[Len(r)] # "*")
  /\ st = "leaving_commentary" => InComment(r) /\ Len(r) >= 3 /\ r[Len(r)] = "*"
  /\ st = "enter_char_constant" => r = <<"'">>
  /\ st = "leave_char_constant" => Len(r) = 2 /\ r[1] = "'" /\ r[2] \notin Unprintable
  /\ st = "string_constant" => OpenString(r)
  /\ st = "char_or_number" => r = <<"0">>
  /\ st = "enter_hexadecimal_char" => r = <<"0", "x">>
  /\ st = "hexadecimal_char" =>
       Len(r) = 3 /\ r[1] = "0" /\ r[2] = "x" /\ r[3] \in HexDigits
  /\ st = "integer_or_float" => IsInteger(r) /\ r # <<"0">>
  /\ st = "start_float" => r = <<".">>
  /\ st = "float" => IsFloat(r)

Fed(c) == IF c = "\n" THEN 1 ELSE 0

Typed ==
  /\ state \in States
  /\ lexeme \in Seq(Input) /\ Len(lexeme) <= MaxLexeme + 1
  /\ line \in 0..MaxSize + 1
  /\ back = <<>> \/ \E c \in Input \ {Outside} : back = <<c>>
  /\ DOMAIN entry = {"token", "type", "line", "lexeme"}
  /\ entry.line \in 1..MaxSize + 1 /\ entry.lexeme \in Seq(Input)
  /\ result \in {"none", "reading", "found", "empty", "aborted",
                 "invalid_lexeme", "invalid_character", "unexpected_eof"}
  /\ size \in 0..MaxSize /\ lines \in Nat
  /\ text \in Seq(Input)

(* How far the lexer has come when it is called, goes on and returns.      *)
Called == result = "none" =>
  text = <<>> /\ entry.token = <<>> /\ line = 1 + lines

Reading == result = "reading" =>
  /\ Decided(text) /\ Begun(state, Rest)
  /\ state \notin Between => lexeme = Rest
  /\ entry.token = <<>>
  /\ last = IF text = <<>> THEN NoChar ELSE text[Len(text)]
  /\ line = 1 + lines + LineFeeds(text) - Fed(last)

Returned == result = "found" =>
  /\ text # <<>> /\ text[Len(text)] # "\n"
  /\ line = 1 + lines + LineFeeds(text)
  /\ entry.token # <<>>
  /\ back = <<>> =>
       /\ entry.token \notin {WordToken, <<"!">>, <<"<">>, <<">">>, <<"/">>}
       /\ entry.type \notin {"int", "float"}

Within == result \in {"none", "reading", "found"} =>
  line >= 1 /\ lines + LineFeeds(text) + Len(back) <= size

Inv ==
  /\ Typed /\ Called /\ Reading /\ Returned /\ Within
  /\ LongestMatch /\ ErrorsAreErrors /\ LineIsRight /\ LexemeIsText /\ EmptyEntry

-----------------------------------------------------------------------------
(* Line feeds.                                                             *)

LEMMA FrontOfMore ==
  ASSUME NEW S, NEW s \in Seq(S), NEW c \in S
  PROVE  SubSeq(Append(s, c), 1, Len(Append(s, c)) - 1) = s
<1> DEFINE t == Append(s, c)
           n == Len(s)
           p == SubSeq(t, 1, n)
<1>1. /\ t \in Seq(S) /\ Len(t) = n + 1 /\ n \in Nat
      /\ \A i \in 1..n : t[i] = s[i]
  BY Appended
<1> HIDE DEF t
<1>2. /\ p \in Seq(S) /\ Len(p) = n - 1 + 1
      /\ \A i \in 1..n - 1 + 1 : p[i] = t[1 + i - 1]
  <2>1. 1 \in Nat \ {0} /\ n \in 0..Len(t) /\ 1 <= n + 1
    BY <1>1
  <2> HIDE DEF n
  <2> QED
    BY <1>1, <2>1, Part
<1> HIDE DEF p, n
<1>3. Len(p) = n /\ \A i \in 1..n : p[i] = s[i]
  BY <1>1, <1>2
<1>4. p = s
  BY <1>2, <1>3, SeqEqual DEF n
<1>5. Len(t) - 1 = n
  BY <1>1
<1> QED
  BY <1>4, <1>5 DEF p, t

LEMMA FeedOfMore ==
  ASSUME NEW S, NEW s \in Seq(S), NEW c \in S
  PROVE  LineFeeds(Append(s, c)) = LineFeeds(s) + Fed(c) /\ LineFeeds(s) \in Nat
<1> DEFINE t == Append(s, c)
           n == Len(s)
           A == {i \in DOMAIN s : s[i] = "\n"}
           B == {i \in DOMAIN t : t[i] = "\n"}
<1>1. /\ t \in Seq(S) /\ Len(t) = n + 1 /\ n \in Nat
      /\ \A i \in 1..n : t[i] = s[i]
      /\ t[n + 1] = c
      /\ DOMAIN s = 1..n
  BY Appended, LenProperties
<1> HIDE DEF t, n
<1>2. DOMAIN t = 1..n + 1
  BY <1>1, LenProperties
<1>3. IsFiniteSet(A)
  <2>1. IsFiniteSet(1..n)
    BY <1>1, FS_Interval
  <2>2. A \subseteq 1..n
    BY <1>1
  <2> QED
    BY <2>1, <2>2, FS_Subset
<1>4. B = IF c = "\n" THEN A \union {n + 1} ELSE A
  BY <1>1, <1>2
<1>5. n + 1 \notin A
  BY <1>1
<1> HIDE DEF A, B
<1>6. Cardinality(A) \in Nat /\ Cardinality(A \union {n + 1}) = Cardinality(A) + 1
  BY <1>3, <1>5, FS_AddElement, FS_CardinalityType
<1>7. Cardinality(B) = Cardinality(A) + Fed(c)
  BY <1>4, <1>6 DEF Fed
<1> QED
  BY <1>6, <1>7 DEF LineFeeds, A, B, t

LEMMA NoFeeds == LineFeeds(<<>>) = 0
<1>1. {i \in DOMAIN <<>> : <<>>[i] = "\n"} = {}
  OBVIOUS
<1> QED
  BY <1>1, FS_EmptySet DEF LineFeeds

LEMMA FeedOfLast ==
  ASSUME NEW S, NEW s \in Seq(S), s # <<>>
  PROVE  /\ LineFeeds(s) = LineFeeds(SubSeq(s, 1, Len(s) - 1)) + Fed(s[Len(s)])
         /\ LineFeeds(SubSeq(s, 1, Len(s) - 1)) \in Nat
<1> DEFINE n == Len(s)
           p == SubSeq(s, 1, n - 1)
           t == Append(p, s[n])
<1>1. n \in Nat /\ n >= 1 /\ s[n] \in S
  <2>1. n \in Nat
    BY LenProperties
  <2>2. n # 0
    BY EmptySeq
  <2>3. n >= 1 /\ n \in 1..n
    BY <2>1, <2>2
  <2> QED
    BY <2>1, <2>3, ElementOfSeq
<1>2. /\ p \in Seq(S) /\ Len(p) = n - 1 - 1 + 1
      /\ \A i \in 1..n - 1 - 1 + 1 : p[i] = s[1 + i - 1]
  <2>1. 1 \in Nat \ {0} /\ n - 1 \in 0..Len(s) /\ 1 <= n - 1 + 1
    BY <1>1
  <2> HIDE DEF n
  <2> QED
    BY <2>1, Part
<1> HIDE DEF p
<1>3. /\ t \in Seq(S) /\ Len(t) = Len(p) + 1
      /\ \A i \in 1..Len(p) : t[i] = p[i]
      /\ t[Len(p) + 1] = s[n]
  BY <1>1, <1>2, Appended
<1> HIDE DEF t
<1>4. Len(t) = n /\ \A i \in 1..n : t[i] = s[i]
  <2> HIDE DEF n
  <2>1. Len(p) = n - 1 /\ \A i \in 1..n - 1 : p[i] = s[i]
    BY <1>1, <1>2
  <2> QED
    BY <1>1, <1>3, <2>1
<1>5. t = s
  BY <1>3, <1>4, SeqEqual
<1>6. LineFeeds(t) = LineFeeds(p) + Fed(s[n]) /\ LineFeeds(p) \in Nat
  BY <1>1, <1>2, FeedOfMore DEF t
<1> QED
  BY <1>5, <1>6 DEF p

LEMMA LastOfRest ==
  ASSUME NEW S, NEW s \in Seq(S), RestOf(s) # <<>>
  PROVE  s # <<>> /\ s[Len(s)] = RestOf(s)[Len(RestOf(s))]
<1> DEFINE L == LastStart(s)
           r == SubSeq(s, L, Len(s))
<1>1. Len(s) \in Nat
  BY LenProperties
<1>2. L \in 1..Len(s) + 1
  BY <1>1, LastOne
<1> HIDE DEF L
<1>3. /\ r \in Seq(S) /\ Len(r) = Len(s) - L + 1 /\ Len(r) \in Nat
      /\ \A i \in 1..Len(s) - L + 1 : r[i] = s[L + i - 1]
  <2>1. L \in Nat \ {0} /\ Len(s) \in 0..Len(s) /\ L <= Len(s) + 1
    BY <1>1, <1>2
  <2> QED
    BY <2>1, Part
<1>4. RestOf(s) = r
  BY DEF RestOf, L
<1> HIDE DEF r
<1>5. Len(r) # 0
  BY <1>3, <1>4, EmptySeq
<1>6. Len(r) \in 1..Len(s) - L + 1 /\ L + Len(r) - 1 = Len(s) /\ Len(s) # 0
  BY <1>1, <1>2, <1>3, <1>5
<1>7. r[Len(r)] = s[Len(s)]
  BY <1>3, <1>6
<1> QED
  BY <1>4, <1>6, <1>7, EmptySeq

-----------------------------------------------------------------------------
(* What reading a character changes.                                       *)

Fields == {"token", "type", "line", "lexeme"}

LEMMA InputFacts ==
  /\ Input \subseteq Characters /\ MaxLexeme \in Nat /\ MaxLexeme >= 1 /\ MaxSize \in Nat
  /\ Seq(Input) \subseteq Seq(Characters)
<1>1. Input \subseteq Characters /\ MaxLexeme \in Nat /\ MaxLexeme >= 1 /\ MaxSize \in Nat
  BY InputAssumption, BoundsAssumption DEF Characters
<1>2. ASSUME NEW s \in Seq(Input) PROVE s \in Seq(Characters)
  <2>1. Len(s) \in Nat /\ s \in [1..Len(s) -> Input]
    BY LenProperties
  <2>2. s \in [1..Len(s) -> Characters]
    BY <1>1, <2>1
  <2> QED
    BY <2>1, <2>2, SeqDef
<1> QED
  BY <1>1, <1>2

LEMMA ReadFacts ==
  ASSUME Inv, result = "reading", NEW c \in Input, Read(c)
  PROVE  /\ lines' = lines /\ lines \in Nat /\ LineFeeds(text) \in Nat
         /\ size' \in 0..MaxSize /\ lines + LineFeeds(text) + 1 <= size'
         /\ LineAt(c) = 1 + lines + LineFeeds(text) /\ LineAt(c) \in 1..MaxSize + 1
         /\ DOMAIN EntryAt(c) = Fields /\ EntryAt(c).token = <<>>
         /\ EntryAt(c).line \in 1..MaxSize + 1 /\ EntryAt(c).lexeme \in Seq(Input)
<1>1. /\ line \in 0..MaxSize + 1 /\ size \in 0..MaxSize /\ lines \in Nat
      /\ text \in Seq(Input) /\ MaxSize \in Nat
      /\ back = <<>> \/ \E d \in Input \ {Outside} : back = <<d>>
      /\ line = 1 + lines + LineFeeds(text) - Fed(last)
      /\ line >= 1 /\ lines + LineFeeds(text) + Len(back) <= size
  BY InputFacts DEF Inv, Typed, Reading, Within
<1>2. LineFeeds(text) \in Nat
  BY <1>1, FeedOfMore
<1>3. size' \in 0..MaxSize /\ lines + LineFeeds(text) + 1 <= size' /\ lines' = lines
  <2>1. CASE back = <<>>
    <3>1. size < MaxSize /\ size' = size + 1 /\ lines' = lines
      BY <2>1 DEF Read
    <3>3. Len(back) = 0
      BY <2>1, EmptySeq
    <3>2. lines + LineFeeds(text) <= size
      BY <1>1, <1>2, <3>3
    <3> QED
      BY <1>1, <1>2, <3>1, <3>2
  <2>2. CASE back # <<>>
    <3>1. size' = size /\ lines' = lines
      BY <2>2 DEF Read
    <3>2. Len(back) = 1
      BY <1>1, <2>2
    <3> QED
      BY <1>1, <1>2, <3>1, <3>2
  <2> QED
    BY <2>1, <2>2
<1>4. LineAt(c) = 1 + lines + LineFeeds(text)
  BY <1>1, <1>2, SMTT(30) DEF LineAt, NewLine, Fed
<1>5. LineAt(c) \in 1..MaxSize + 1
  BY <1>1, <1>2, <1>3, <1>4
<1>6. /\ DOMAIN entry = Fields /\ entry.token = <<>>
      /\ entry.line \in 1..MaxSize + 1 /\ entry.lexeme \in Seq(Input)
  BY DEF Inv, Typed, Reading, Fields
<1>7. line \in 1..MaxSize + 1
  BY <1>1
<1>8. /\ DOMAIN EntryAt(c) = Fields /\ EntryAt(c).token = <<>>
      /\ EntryAt(c).line \in 1..MaxSize + 1 /\ EntryAt(c).lexeme \in Seq(Input)
  <2>1. CASE last = "\n"
    <3>1. EntryAt(c) = [entry EXCEPT !.line = line]
      BY <2>1 DEF EntryAt, NewLine
    <3>2. EntryAt(c) = [x \in Fields |-> IF x = "line" THEN line ELSE entry[x]]
      BY <1>6, <3>1
    <3> QED
      BY <1>6, <1>7, <3>2 DEF Fields
  <2>2. CASE last # "\n"
    BY <1>6, <2>2 DEF EntryAt, NewLine
  <2> QED
    BY <2>1, <2>2
<1> QED
  BY <1>1, <1>2, <1>3, <1>4, <1>5, <1>8

(* The rest once c has been consumed.                                      *)
After(c) == RestOf(Append(text, c))

LEMMA ConsumeFacts ==
  ASSUME Inv, result = "reading", NEW c \in Input, Consume(c)
  PROVE  /\ text' \in Seq(Input) /\ Decided(text') /\ text' # <<>> /\ back' = <<>>
         /\ text'[Len(text')] = c /\ Rest' = After(c) /\ last' = c
         /\ LineFeeds(text') = LineFeeds(text) + Fed(c)
         /\ LineFeeds(SubSeq(text', 1, Len(text') - 1)) = LineFeeds(text)
<1>1. text \in Seq(Input) /\ Decided(text)
  BY DEF Inv, Typed, Reading
<1>2. text' = Append(text, c) /\ back' = <<>> /\ last' = c
  BY DEF Consume, Read
<1>3. text' \in Seq(Input) /\ text' # <<>> /\ text'[Len(text')] = c
  BY <1>1, <1>2, AppendProperties
<1>4. Decided(text')
  BY <1>1, <1>2, RestStep
<1>5. Rest' = After(c)
  BY <1>2 DEF Rest, After
<1>6. LineFeeds(text') = LineFeeds(text) + Fed(c)
  BY <1>1, <1>2, FeedOfMore
<1>7. SubSeq(text', 1, Len(text') - 1) = text
  BY <1>1, <1>2, FrontOfMore
<1> QED
  BY <1>2, <1>3, <1>4, <1>5, <1>6, <1>7

(* What an iteration leaves: the lexer goes on.                            *)
LEMMA Going ==
  ASSUME Inv, result = "reading", NEW c \in Input, Consume(c), CountLine(c),
         result' = "reading", state' \in States,
         lexeme' \in Seq(Input), Len(lexeme') <= MaxLexeme + 1,
         Begun(state', After(c)), state' \notin Between => lexeme' = After(c)
  PROVE  Inv'
<1>1. /\ lines' = lines /\ lines \in Nat /\ LineFeeds(text) \in Nat
      /\ size' \in 0..MaxSize /\ lines + LineFeeds(text) + 1 <= size'
      /\ LineAt(c) = 1 + lines + LineFeeds(text) /\ LineAt(c) \in 1..MaxSize + 1
      /\ DOMAIN EntryAt(c) = Fields /\ EntryAt(c).token = <<>>
      /\ EntryAt(c).line \in 1..MaxSize + 1 /\ EntryAt(c).lexeme \in Seq(Input)
  BY ReadFacts DEF Consume
<1>2. /\ text' \in Seq(Input) /\ Decided(text') /\ text' # <<>> /\ back' = <<>>
      /\ text'[Len(text')] = c /\ Rest' = After(c) /\ last' = c
      /\ LineFeeds(text') = LineFeeds(text) + Fed(c)
  BY ConsumeFacts
<1>3. line' = LineAt(c) /\ entry' = EntryAt(c)
  BY DEF CountLine
<1>4. Typed'
  <2>1. line' \in 0..MaxSize + 1
    BY <1>1, <1>3, InputFacts
  <2> QED
    BY <1>1, <1>2, <1>3, <2>1 DEF Typed, Fields
<1>5. Called' /\ Returned'
  BY DEF Called, Returned
<1>6. Reading'
  <2>1. line' = 1 + lines' + LineFeeds(text') - Fed(last')
    BY <1>1, <1>2, <1>3 DEF Fed
  <2> QED
    BY <1>1, <1>2, <1>3, <2>1 DEF Reading
<1>7. Within'
  <2>1. Len(back') = 0
    BY <1>2, EmptySeq
  <2>2. line' >= 1
    BY <1>1, <1>3
  <2>3. lines' + LineFeeds(text') + Len(back') <= size'
    BY <1>1, <1>2, <2>1 DEF Fed
  <2> QED
    BY <2>2, <2>3 DEF Within
<1>8. LongestMatch' /\ LineIsRight' /\ LexemeIsText' /\ EmptyEntry'
  BY DEF LongestMatch, LineIsRight, LexemeIsText, EmptyEntry
<1>9. ErrorsAreErrors'
  BY DEF ErrorsAreErrors
<1> QED
  BY <1>4, <1>5, <1>6, <1>7, <1>8, <1>9 DEF Inv

(* It fails.                                                               *)
LEMMA Failing ==
  ASSUME Inv, result = "reading", NEW c \in Input, Consume(c),
         line' \in 0..MaxSize + 1, entry' = EntryAt(c), UNCHANGED state,
         lexeme' \in Seq(Input), Len(lexeme') <= MaxLexeme + 1,
         \/ result' = "aborted"
         \/ result' = "invalid_lexeme" /\ ~Viable(After(c))
         \/ result' = "invalid_character" /\ c = Outside,
         result' # "aborted" =>
           line' = LineAt(c)
             - (IF state = "string_constant" /\ result' = "invalid_lexeme" THEN 1 ELSE 0)
  PROVE  Inv'
<1>1. /\ lines' = lines /\ lines \in Nat /\ LineFeeds(text) \in Nat
      /\ size' \in 0..MaxSize
      /\ LineAt(c) = 1 + lines + LineFeeds(text)
      /\ DOMAIN EntryAt(c) = Fields
      /\ EntryAt(c).line \in 1..MaxSize + 1 /\ EntryAt(c).lexeme \in Seq(Input)
  BY ReadFacts DEF Consume
<1>2. /\ text' \in Seq(Input) /\ text' # <<>> /\ back' = <<>>
      /\ text'[Len(text')] = c /\ Rest' = After(c)
      /\ LineFeeds(SubSeq(text', 1, Len(text') - 1)) = LineFeeds(text)
  BY ConsumeFacts
<1>3. state \in States /\ result' \in {"aborted", "invalid_lexeme", "invalid_character"}
  BY DEF Inv, Typed
<1>4. Typed'
  BY <1>1, <1>2, <1>3 DEF Typed, Fields
<1>5. Called' /\ Returned' /\ Reading' /\ Within'
  BY <1>3 DEF Called, Returned, Reading, Within
<1>6. LongestMatch' /\ LexemeIsText' /\ EmptyEntry'
  BY <1>3 DEF LongestMatch, LexemeIsText, EmptyEntry
<1>7. LineIsRight'
  <2>1. CASE result' = "aborted"
    BY <2>1 DEF LineIsRight
  <2>2. CASE result' # "aborted"
    BY <1>1, <1>2, <2>2 DEF LineIsRight
  <2> QED
    BY <2>1, <2>2
<1>8. ErrorsAreErrors'
  <2>1. CASE result' = "aborted"
    BY <2>1 DEF ErrorsAreErrors
  <2>2. CASE result' = "invalid_lexeme" /\ ~Viable(After(c))
    BY <1>2, <2>2 DEF ErrorsAreErrors
  <2>3. CASE result' = "invalid_character" /\ c = Outside
    BY <1>2, <2>3 DEF ErrorsAreErrors
  <2> QED
    BY <2>1, <2>2, <2>3
<1> QED
  BY <1>4, <1>5, <1>6, <1>7, <1>8 DEF Inv

LEMMA FilledEntry ==
  ASSUME NEW e, DOMAIN e = Fields, NEW token, NEW type, NEW filled
  PROVE  LET f == [e EXCEPT !.token = token, !.type = type, !.lexeme = filled]
         IN /\ DOMAIN f = Fields /\ f.token = token /\ f.type = type
            /\ f.line = e.line /\ f.lexeme = filled
<1> DEFINE f == [e EXCEPT !.token = token, !.type = type, !.lexeme = filled]
<1>1. f = [x \in Fields |-> IF x = "lexeme" THEN filled
                            ELSE IF x = "type" THEN type
                            ELSE IF x = "token" THEN token ELSE e[x]]
  BY DEF Fields
<1> HIDE DEF f
<1>2. DOMAIN f = Fields /\ \A x \in Fields :
        f[x] = IF x = "lexeme" THEN filled
               ELSE IF x = "type" THEN type
               ELSE IF x = "token" THEN token ELSE e[x]
  BY <1>1
<1>3. "token" \in Fields /\ "type" \in Fields /\ "line" \in Fields /\ "lexeme" \in Fields
  BY DEF Fields
<1>4. f.token = token /\ f.type = type /\ f.line = e.line /\ f.lexeme = filled
  BY <1>2, <1>3
<1> QED
  BY <1>2, <1>4 DEF f

PutBackTokens == {WordToken, <<"!">>, <<"<">>, <<">">>, <<"/">>}

(* It finds a token that ends with c.                                      *)
LEMMA Finding ==
  ASSUME Inv, result = "reading", NEW c \in Input, Consume(c), line' = LineAt(c),
         NEW token, NEW type, NEW filled \in Seq(Input),
         entry' = [EntryAt(c) EXCEPT !.token = token, !.type = type, !.lexeme = filled],
         result' = "found", UNCHANGED state,
         lexeme' \in Seq(Input), Len(lexeme') <= MaxLexeme + 1,
         c # "\n", token # <<>>, token \notin PutBackTokens, type \notin {"int", "float"},
         token = ConstantToken => filled = After(c),
         TokenOf(After(c)) = <<token, type>>,
         \A d \in Input : ~Viable(Append(After(c), d))
  PROVE  Inv'
<1>1. /\ lines' = lines /\ lines \in Nat /\ LineFeeds(text) \in Nat
      /\ size' \in 0..MaxSize /\ lines + LineFeeds(text) + 1 <= size'
      /\ LineAt(c) = 1 + lines + LineFeeds(text) /\ LineAt(c) \in 1..MaxSize + 1
      /\ DOMAIN EntryAt(c) = Fields /\ EntryAt(c).line \in 1..MaxSize + 1
  BY ReadFacts DEF Consume
<1>2. /\ text' \in Seq(Input) /\ text' # <<>> /\ back' = <<>>
      /\ text'[Len(text')] = c /\ Rest' = After(c)
      /\ LineFeeds(text') = LineFeeds(text) + Fed(c)
      /\ LineFeeds(SubSeq(text', 1, Len(text') - 1)) = LineFeeds(text)
  BY ConsumeFacts
<1>3. state \in States
  BY DEF Inv, Typed
<1>4. /\ DOMAIN entry' = Fields /\ entry'.token = token /\ entry'.type = type
      /\ entry'.line = EntryAt(c).line /\ entry'.lexeme = filled
  BY <1>1, FilledEntry
<1>5. Typed'
  <2>1. line' \in 0..MaxSize + 1
    BY <1>1, InputFacts
  <2> QED
    BY <1>1, <1>2, <1>3, <1>4, <2>1 DEF Typed, Fields
<1>6. Called' /\ Reading' /\ ErrorsAreErrors' /\ EmptyEntry'
  BY DEF Called, Reading, ErrorsAreErrors, EmptyEntry
<1>7. LineFeeds(text') = LineFeeds(text)
  BY <1>1, <1>2 DEF Fed
<1>8. Returned'
  <2>1. line' = 1 + lines' + LineFeeds(text')
    BY <1>1, <1>7
  <2> QED
    BY <1>2, <1>4, <2>1, Zenon DEF Returned, PutBackTokens
<1>9. Within'
  <2>1. Len(back') = 0
    BY <1>2, EmptySeq
  <2>2. line' >= 1
    BY <1>1
  <2>3. lines' + LineFeeds(text') + Len(back') <= size'
    BY <1>1, <1>7, <2>1
  <2> QED
    BY <2>2, <2>3 DEF Within
<1>10. LongestMatch'
  BY <1>2, <1>4 DEF LongestMatch
<1>11. LineIsRight'
  BY <1>1, <1>2 DEF LineIsRight
<1>12. LexemeIsText'
  BY <1>2, <1>4 DEF LexemeIsText, PutBackTokens
<1> QED
  BY <1>5, <1>6, <1>8, <1>9, <1>10, <1>11, <1>12 DEF Inv

(* It finds a token that ends before c.                                    *)
LEMMA FindingBefore ==
  ASSUME Inv, result = "reading", NEW c \in Input \ {Outside},
         NEW token, NEW type, NEW filled \in Seq(Input),
         FoundBefore(c, token, type, filled),
         Rest # <<>>, Rest[Len(Rest)] # "\n", token # <<>>,
         token \in {WordToken, ConstantToken} =>
           filled = Rest /\ (Len(filled) > MaxLexeme => token = ConstantToken),
         TokenOf(Rest) = <<token, type>>, ~Viable(Append(Rest, c))
  PROVE  Inv'
<1>1. /\ lines' = lines /\ lines \in Nat /\ LineFeeds(text) \in Nat
      /\ size' \in 0..MaxSize /\ lines + LineFeeds(text) + 1 <= size'
      /\ LineAt(c) = 1 + lines + LineFeeds(text) /\ LineAt(c) \in 1..MaxSize + 1
      /\ DOMAIN EntryAt(c) = Fields /\ EntryAt(c).line \in 1..MaxSize + 1
  BY ReadFacts DEF FoundBefore
<1>2. /\ text' = text /\ back' = <<c>> /\ lexeme' = lexeme /\ state' = state
      /\ line' = LineAt(c) /\ result' = "found"
      /\ entry' = [EntryAt(c) EXCEPT !.token = token, !.type = type, !.lexeme = filled]
  BY DEF FoundBefore, Found
<1>3. /\ state \in States /\ text \in Seq(Input)
      /\ lexeme \in Seq(Input) /\ Len(lexeme) <= MaxLexeme + 1
  BY DEF Inv, Typed
<1>4. /\ DOMAIN entry' = Fields /\ entry'.token = token /\ entry'.type = type
      /\ entry'.line = EntryAt(c).line /\ entry'.lexeme = filled
  BY <1>1, <1>2, FilledEntry
<1>5. Typed'
  <2>1. line' \in 0..MaxSize + 1
    BY <1>1, <1>2, InputFacts
  <2> QED
    BY <1>1, <1>2, <1>3, <1>4, <2>1 DEF Typed, Fields
<1>6. Called' /\ Reading' /\ ErrorsAreErrors' /\ EmptyEntry'
  BY <1>2 DEF Called, Reading, ErrorsAreErrors, EmptyEntry
<1>7. text # <<>> /\ text[Len(text)] # "\n"
  BY <1>3, LastOfRest DEF Rest
<1>8. back' # <<>> /\ Len(back') = 1 /\ back'[1] = c
  BY <1>2
<1>9. Returned'
  <2>1. line' = 1 + lines' + LineFeeds(text')
    BY <1>1, <1>2
  <2> QED
    BY <1>2, <1>4, <1>7, <1>8, <2>1 DEF Returned
<1>10. Within'
  <2>1. line' >= 1
    BY <1>1, <1>2
  <2>2. lines' + LineFeeds(text') + Len(back') <= size'
    BY <1>1, <1>2, <1>8
  <2> QED
    BY <2>1, <2>2 DEF Within
<1>11. Rest' = Rest
  BY <1>2 DEF Rest
<1>12. LongestMatch'
  BY <1>4, <1>8, <1>11 DEF LongestMatch
<1>13. LineIsRight'
  <2>1. LineFeeds(SubSeq(text, 1, Len(text) - 1)) = LineFeeds(text)
    BY <1>1, <1>3, <1>7, FeedOfLast, SMTT(30) DEF Fed
  <2> QED
    BY <1>1, <1>2, <2>1 DEF LineIsRight
<1>14. LexemeIsText'
  BY <1>4, <1>11 DEF LexemeIsText
<1> QED
  BY <1>5, <1>6, <1>9, <1>10, <1>12, <1>13, <1>14 DEF Inv

-----------------------------------------------------------------------------
(* The ways to handle a character.                                         *)

LEMMA AfterIs ==
  ASSUME Inv, result = "reading", NEW c \in Input
  PROVE  /\ Rest \in Seq(Input) /\ Rest \in Seq(Characters) /\ c \in Characters
         /\ After(c) = IF (Rest = <<>> /\ c \in Blanks) \/ IsComment(Append(Rest, c))
                       THEN <<>> ELSE Append(Rest, c)
         /\ Rest # <<>> /\ Rest[1] # "/" => After(c) = Append(Rest, c)
         /\ Rest = <<>> /\ c \notin Blanks => After(c) = <<c>>
         /\ Rest = <<>> /\ c \in Blanks => After(c) = <<>>
<1>1. text \in Seq(Input) /\ Decided(text)
  BY DEF Inv, Typed, Reading
<1>2. /\ Rest \in Seq(Input)
      /\ After(c) = IF (Rest = <<>> /\ c \in Blanks) \/ IsComment(Append(Rest, c))
                    THEN <<>> ELSE Append(Rest, c)
  BY <1>1, RestStep DEF Rest, After
<1>3. Rest \in Seq(Characters) /\ c \in Characters
  BY <1>2, InputFacts
<1> DEFINE r == Rest
           u == Append(r, c)
<1> HIDE DEF r
<1>4. /\ Len(r) \in Nat /\ Len(u) = Len(r) + 1
      /\ r # <<>> => u[1] = r[1] /\ Len(r) >= 1
  BY <1>3, MoreFacts DEF r
<1> HIDE DEF u
<1>5. r # <<>> /\ r[1] # "/" => ~IsComment(u)
  BY <1>4 DEF IsComment
<1>6. r = <<>> => ~IsComment(u)
  <2>1. r = <<>> => Len(r) = 0
    BY EmptySeq
  <2> QED
    BY <1>4, <2>1 DEF IsComment
<1>7. r = <<>> => u = <<c>>
  BY DEF u
<1> QED
  BY <1>2, <1>3, <1>5, <1>6, <1>7 DEF r, u

LEMMA CountedLine ==
  ASSUME Inv, result = "reading", NEW c \in Input, Consume(c), CountLine(c)
  PROVE  line' = LineAt(c) /\ line' \in 0..MaxSize + 1 /\ entry' = EntryAt(c)
<1>1. LineAt(c) \in 1..MaxSize + 1 /\ MaxSize \in Nat
  BY ReadFacts, InputFacts DEF Consume
<1> QED
  BY <1>1 DEF CountLine

LEMMA RoomForMore ==
  ASSUME NEW b \in Seq(Input), Len(b) <= MaxLexeme + 1, Len(b) # MaxLexeme + 1,
         NEW c \in Input
  PROVE  Append(b, c) \in Seq(Input) /\ Len(Append(b, c)) <= MaxLexeme + 1
<1>1. Append(b, c) \in Seq(Input) /\ Len(Append(b, c)) = Len(b) + 1 /\ Len(b) \in Nat
  BY AppendProperties, LenProperties
<1> QED
  BY <1>1, InputFacts

LEMMA Aborting ==
  ASSUME Inv, result = "reading", NEW c \in Input, Consume(c), CountLine(c),
         result' = "aborted", UNCHANGED <<state, lexeme>>
  PROVE  Inv'
<1>1. lexeme' \in Seq(Input) /\ Len(lexeme') <= MaxLexeme + 1
  BY DEF Inv, Typed
<1> QED
  BY <1>1, CountedLine, Failing

LEMMA Keeping ==
  ASSUME Inv, result = "reading", NEW c \in Input, NEW b \in Seq(Input),
         Len(b) <= MaxLexeme + 1, NEW to \in States, Keep(b, c, to),
         Begun(to, After(c)), After(c) = Append(b, c)
  PROVE  Inv'
<1>1. Consume(c) /\ CountLine(c) /\ AppendOrError(b, c, to)
  BY DEF Keep
<1>2. CASE Len(b) = MaxLexeme + 1
  <2>1. result' = "aborted" /\ UNCHANGED <<lexeme, state>>
    BY <1>1, <1>2 DEF AppendOrError
  <2> QED
    BY <1>1, <2>1, Aborting
<1>3. CASE Len(b) # MaxLexeme + 1
  <2>1. lexeme' = Append(b, c) /\ state' = to /\ result' = "reading"
    BY <1>1, <1>3 DEF AppendOrError
  <2>2. lexeme' \in Seq(Input) /\ Len(lexeme') <= MaxLexeme + 1
    BY <1>3, <2>1, RoomForMore
  <2> QED
    BY <1>1, <2>1, <2>2, Going
<1> QED
  BY <1>2, <1>3

LEMMA Skipping ==
  ASSUME Inv, result = "reading", NEW c \in Input, NEW b \in Seq(Input),
         Len(b) <= MaxLexeme + 1, NEW to \in Between, Skip(b, c, to),
         Begun(to, After(c))
  PROVE  Inv'
<1>1. to \in States
  BY DEF Between, States
<1> QED
  BY <1>1, Going DEF Skip

LEMMA Rejecting ==
  ASSUME Inv, result = "reading", NEW c \in Input, Reject(c, "invalid_lexeme"),
         state # "string_constant", ~Viable(After(c))
  PROVE  Inv'
<1>1. lexeme' \in Seq(Input) /\ Len(lexeme') <= MaxLexeme + 1
  BY DEF Inv, Typed, Reject
<1>2. Consume(c) /\ CountLine(c) /\ result' = "invalid_lexeme" /\ UNCHANGED state
  BY DEF Reject
<1>3. LineAt(c) \in 1..MaxSize + 1
  BY <1>2, ReadFacts DEF Consume
<1>4. line' = LineAt(c) - 0
  BY <1>2, <1>3, CountedLine
<1> QED
  BY <1>1, <1>2, <1>4, CountedLine, Failing

LEMMA KeepingAndRejecting ==
  ASSUME Inv, result = "reading", NEW c \in Input, NEW b \in Seq(Input),
         Len(b) <= MaxLexeme + 1, KeepAndReject(b, c),
         state # "string_constant", ~Viable(After(c))
  PROVE  Inv'
<1>1. Consume(c) /\ CountLine(c) /\ UNCHANGED state
  BY DEF KeepAndReject
<1>2. CASE Len(b) = MaxLexeme + 1
  <2>1. result' = "aborted" /\ UNCHANGED <<state, lexeme>>
    BY <1>2 DEF KeepAndReject
  <2> QED
    BY <1>1, <2>1, Aborting
<1>3. CASE Len(b) # MaxLexeme + 1
  <2>1. result' = "invalid_lexeme" /\ lexeme' = Append(b, c)
    BY <1>3 DEF KeepAndReject
  <2>2. lexeme' \in Seq(Input) /\ Len(lexeme') <= MaxLexeme + 1
    BY <1>3, <2>1, RoomForMore
  <2>3. LineAt(c) \in 1..MaxSize + 1
    BY <1>1, ReadFacts DEF Consume
  <2>4. line' = LineAt(c) - 0
    BY <1>1, <2>3, CountedLine
  <2> QED
    BY <1>1, <2>1, <2>2, <2>4, CountedLine, Failing
<1> QED
  BY <1>2, <1>3

LEMMA KeepingAndFinding ==
  ASSUME Inv, result = "reading", NEW c \in Input, NEW type \in {"char", "string"},
         KeepAndFind(c, type), state \notin Between, c # "\n",
         After(c) = Append(Rest, c), TokenOf(After(c)) = <<ConstantToken, type>>,
         \A d \in Input : ~Viable(Append(After(c), d))
  PROVE  Inv'
<1>1. lexeme \in Seq(Input) /\ Len(lexeme) <= MaxLexeme + 1 /\ lexeme = Rest
  BY DEF Inv, Typed, Reading
<1>2. Consume(c) /\ line' = LineAt(c) /\ UNCHANGED state
  BY DEF KeepAndFind
<1>3. CASE Len(lexeme) = MaxLexeme + 1
  <2>1. result' = "aborted" /\ UNCHANGED lexeme /\ CountLine(c)
    BY <1>2, <1>3 DEF KeepAndFind, CountLine
  <2> QED
    BY <1>2, <2>1, Aborting
<1>4. CASE Len(lexeme) # MaxLexeme + 1
  <2>1. /\ result' = "found" /\ lexeme' = Append(lexeme, c)
        /\ entry' = [EntryAt(c) EXCEPT
             !.token = ConstantToken, !.type = type, !.lexeme = Append(lexeme, c)]
    BY <1>4 DEF KeepAndFind
  <2>2. Append(lexeme, c) \in Seq(Input) /\ Len(Append(lexeme, c)) <= MaxLexeme + 1
    BY <1>1, <1>4, RoomForMore
  <2>3. /\ ConstantToken # <<>> /\ ConstantToken \notin PutBackTokens
        /\ type \notin {"int", "float"}
    BY DEF ConstantToken, WordToken, PutBackTokens
  <2> HIDE DEF ConstantToken
  <2> QED
    BY <1>1, <1>2, <2>1, <2>2, <2>3, Finding
<1> QED
  BY <1>3, <1>4

LEMMA FindingAt ==
  ASSUME Inv, result = "reading", NEW c \in Input, NEW b \in Seq(Input),
         Len(b) <= MaxLexeme + 1, NEW token, FoundAt(b, c, token),
         c # "\n", token \in Fixed \ PutBackTokens, After(c) = token,
         \A d \in Input : ~Viable(Append(After(c), d))
  PROVE  Inv'
<1>1. Consume(c) /\ Found(c, token, "none", <<>>) /\ lexeme' = b
  BY DEF FoundAt
<1>2. /\ line' = LineAt(c) /\ result' = "found" /\ UNCHANGED state
      /\ entry' = [EntryAt(c) EXCEPT !.token = token, !.type = "none", !.lexeme = <<>>]
  BY <1>1 DEF Found
<1>3. token # <<>> /\ token # ConstantToken
  BY DEF Fixed, ConstantToken, Single
<1>4. token \in Seq(Characters)
  <2>1. Append(Rest, c) \in Seq(Characters) /\ <<>> \in Seq(Characters)
    BY AfterIs, Appended, EmptySeq
  <2> QED
    BY <2>1, AfterIs
<1>5. TokenOf(After(c)) = <<token, "none">>
  BY <1>4, FixedIs
<1>6. <<>> \in Seq(Input)
  BY EmptySeq
<1> DEFINE type == "none"
           filled == <<>>
<1>7. /\ entry' = [EntryAt(c) EXCEPT !.token = token, !.type = type, !.lexeme = filled]
      /\ filled \in Seq(Input) /\ type \notin {"int", "float"}
      /\ TokenOf(After(c)) = <<token, type>>
  BY <1>2, <1>5, <1>6
<1>8. lexeme' \in Seq(Input) /\ Len(lexeme') <= MaxLexeme + 1 /\ token \notin PutBackTokens
  BY <1>1
<1> HIDE DEF type, filled
<1> QED
  BY <1>1, <1>2, <1>3, <1>7, <1>8, Finding

-----------------------------------------------------------------------------
(* The states.                                                             *)

LEMMA StateFacts ==
  ASSUME Inv, result = "reading"
  PROVE  /\ Begun(state, Rest) /\ (state \notin Between => lexeme = Rest)
         /\ lexeme \in Seq(Input) /\ Len(lexeme) <= MaxLexeme + 1
         /\ <<>> \in Seq(Input) /\ Len(<<>>) <= MaxLexeme + 1
<1>1. Len(<<>>) = 0 /\ <<>> \in Seq(Input)
  BY EmptySeq
<1> QED
  BY <1>1, InputFacts DEF Inv, Typed, Reading

LEMMA InitialStep ==
  ASSUME Inv, result = "reading", NEW c \in Input \ {Outside}, Initial(c)
  PROVE  Inv'
<1>1. Rest = <<>> /\ state = "initial"
  BY StateFacts DEF Begun, Initial
<1>2. /\ Rest \in Seq(Characters) /\ c \in Characters /\ c \in Input
      /\ c \notin Blanks => After(c) = <<c>>
      /\ c \in Blanks => After(c) = <<>>
  BY <1>1, AfterIs
<1>3. /\ <<>> \in Seq(Input) /\ Len(<<>>) <= MaxLexeme + 1
      /\ Append(<<>>, c) = <<c>>
  BY StateFacts
<1>4. CASE c \in Blanks /\ Skip(<<>>, c, "initial")
  <2>1. Begun("initial", After(c)) /\ "initial" \in Between
    BY <1>2, <1>4 DEF Begun, Between, Operators
  <2> QED
    BY <1>2, <1>3, <1>4, <2>1, Skipping
<1>5. ASSUME NEW to \in States, FirstCharacter(c, to), c \notin Blanks, Begun(to, <<c>>)
      PROVE  Inv'
  BY <1>2, <1>3, <1>5, Keeping DEF FirstCharacter
<1>6. CASE c \in Letters \union {"_"} /\ FirstCharacter(c, "keyword_or_identifier")
  <2>1. c \notin Blanks /\ "keyword_or_identifier" \in States
    BY <1>6 DEF Letters, Blanks, States
  <2>2. Begun("keyword_or_identifier", <<c>>)
    BY <1>6, FirstOnes DEF Begun, Operators
  <2> QED
    BY <1>5, <1>6, <2>1, <2>2
<1>7. CASE c = "1" /\ FirstCharacter(c, "integer_or_float")
  <2>1. c \notin Blanks /\ "integer_or_float" \in States
    BY <1>7 DEF Blanks, States
  <2>2. IsInteger(<<c>>) /\ <<c>> # <<"0">>
    BY <1>7, FirstOnes DEF Digits
  <2>3. Begun("integer_or_float", <<c>>)
    BY <2>2 DEF Begun, Operators
  <2> QED
    BY <1>5, <1>7, <2>1, <2>3
<1>8. CASE c = "0" /\ FirstCharacter(c, "char_or_number")
  <2>1. c \notin Blanks /\ "char_or_number" \in States
    BY <1>8 DEF Blanks, States
  <2>2. Begun("char_or_number", <<c>>)
    BY <1>8 DEF Begun, Operators
  <2> QED
    BY <1>5, <1>8, <2>1, <2>2
<1>9. CASE c = "." /\ FirstCharacter(c, "start_float")
  <2>1. c \notin Blanks /\ "start_float" \in States
    BY <1>9 DEF Blanks, States
  <2>2. Begun("start_float", <<c>>)
    BY <1>9 DEF Begun, Operators
  <2> QED
    BY <1>5, <1>9, <2>1, <2>2
<1>10. CASE c = "'" /\ FirstCharacter(c, "enter_char_constant")
  <2>1. c \notin Blanks /\ "enter_char_constant" \in States
    BY <1>10 DEF Blanks, States
  <2>2. Begun("enter_char_constant", <<c>>)
    BY <1>10 DEF Begun, Operators
  <2> QED
    BY <1>5, <1>10, <2>1, <2>2
<1>11. CASE c = "\"" /\ FirstCharacter(c, "string_constant")
  <2>1. c \notin Blanks /\ "string_constant" \in States
    BY <1>11 DEF Blanks, States
  <2> DEFINE d == <<c>>
  <2>2. Len(d) = 1 /\ d[1] = c /\ Len(d) >= 1
    BY OneLong
  <2>5. \A i \in 2..1 : FALSE
    OBVIOUS
  <2> HIDE DEF d
  <2>3. OpenString(d)
    BY <1>11, <2>2, <2>5, Zenon DEF OpenString
  <2>4. Begun("string_constant", d)
    BY <2>3 DEF Begun, Operators
  <2> QED
    BY <1>5, <1>11, <2>1, <2>4 DEF d
<1>12. CASE c = "/" /\ FirstCharacter(c, "division_or_comentary")
  <2>1. c \notin Blanks /\ "division_or_comentary" \in States
    BY <1>12 DEF Blanks, States
  <2>2. Begun("division_or_comentary", <<c>>)
    BY <1>12 DEF Begun, Operators
  <2> QED
    BY <1>5, <1>12, <2>1, <2>2
<1>13. CASE c \in {"&", "|", ":", "!", "<", ">"} /\ FirstCharacter(c, c)
  <2>1. c \notin Blanks /\ c \in States
    BY <1>13 DEF Blanks, States
  <2>2. Begun(c, <<c>>)
    BY <1>13 DEF Begun, Operators
  <2> QED
    BY <1>5, <1>13, <2>1, <2>2
<1>14. CASE c \in Single /\ FoundAt(<<c>>, c, <<c>>)
  <2>1. c \notin Blanks /\ c # "\n"
    BY <1>14 DEF Blanks, Single
  <2>2. <<c>> \in Seq(Input) /\ <<c>> \in Seq(Characters) /\ Len(<<c>>) = 1 /\ <<c>>[1] = c
    BY <1>2, OneIsSeq
  <2>3. <<c>> \in Fixed \ PutBackTokens
    BY <1>14 DEF Fixed, PutBackTokens, Single, WordToken
  <2>4. c \in Plain
    BY <1>2, <1>14 DEF Plain, Single, WordChars, Alphanumeric, Letters, Digits
  <2>5. ASSUME NEW d \in Input PROVE ~Viable(Append(<<c>>, d))
    <3>1. d \in Characters
      BY InputFacts
    <3> DEFINE r == <<c>>
    <3>2. r \in Seq(Characters) /\ Len(r) = 1 /\ r[1] = c
      BY <2>2
    <3> HIDE DEF r
    <3>3. ~Viable(Append(r, d))
      BY <1>14, <2>4, <3>1, <3>2, OperatorEnds
    <3> QED
      BY <3>3 DEF r
  <2>6. Len(<<c>>) <= MaxLexeme + 1
    BY <2>2, InputFacts
  <2> DEFINE token == <<c>>
  <2>7. /\ FoundAt(token, c, token) /\ token \in Seq(Input) /\ Len(token) <= MaxLexeme + 1
        /\ token \in Fixed \ PutBackTokens /\ After(c) = token
        /\ \A d \in Input : ~Viable(Append(After(c), d))
    BY <1>2, <1>14, <2>1, <2>2, <2>3, <2>5, <2>6
  <2> HIDE DEF token
  <2> QED
    BY <1>2, <2>1, <2>7, FindingAt
<1>15. CASE c \in {"@", "\r"} /\ KeepAndReject(<<>>, c)
  <2>1. c \notin Blanks
    BY <1>15 DEF Blanks
  <2>2. ~Viable(After(c))
    <3> DEFINE r == <<>>
    <3>1. r \in Seq(Characters) /\ ~(Len(r) >= 1) /\ r = <<>>
      BY EmptySeq
    <3> HIDE DEF r
    <3>2. ~Viable(Append(r, c))
      BY <1>2, <1>15, <3>1, OperatorEnds
    <3> QED
      BY <1>2, <1>3, <2>1, <3>2 DEF r
  <2> QED
    BY <1>1, <1>2, <1>3, <1>15, <2>2, KeepingAndRejecting
<1> QED
  BY <1>4, <1>6, <1>7, <1>8, <1>9, <1>10, <1>11, <1>12, <1>13, <1>14, <1>15 DEF Initial

LEMMA LastNoFeed ==
  ASSUME NEW r \in Seq(Characters), Len(r) >= 1,
         \/ \A i \in 1..Len(r) : r[i] # "\n"
         \/ \E d \in Characters \ {"\n"} : r = <<d>>
  PROVE  r # <<>> /\ r[Len(r)] # "\n"
<1>1. Len(r) \in Nat
  BY LenProperties
<1>2. r # <<>> /\ Len(r) \in 1..Len(r)
  BY <1>1, EmptySeq
<1>3. CASE \A i \in 1..Len(r) : r[i] # "\n"
  BY <1>2, <1>3
<1>4. CASE \E d \in Characters \ {"\n"} : r = <<d>>
  <2>1. PICK d \in Characters \ {"\n"} : r = <<d>>
    BY <1>4
  <2>2. Len(r) = 1 /\ r[1] = d
    BY <2>1
  <2> QED
    BY <1>2, <2>1, <2>2
<1> QED
  BY <1>2, <1>3, <1>4

LEMMA KeywordOrIdentifierStep ==
  ASSUME Inv, result = "reading", NEW c \in Input \ {Outside}, KeywordOrIdentifier(c)
  PROVE  Inv'
<1>1. /\ state = "keyword_or_identifier" /\ IsWord(Rest) /\ lexeme = Rest
      /\ lexeme \in Seq(Input) /\ Len(lexeme) <= MaxLexeme + 1
  BY StateFacts DEF Begun, Between, KeywordOrIdentifier
<1>2. Rest \in Seq(Characters) /\ c \in Characters /\ c \in Input
      /\ (Rest # <<>> /\ Rest[1] # "/" => After(c) = Append(Rest, c))
  BY AfterIs
<1>3. /\ Len(Rest) >= 1 /\ Rest[1] \in Letters \union {"_"}
      /\ \A i \in 1..Len(Rest) : Rest[i] \in WordChars
  BY <1>1, <1>2, WordShape
<1>4. Rest # <<>> /\ Rest[Len(Rest)] # "\n"
  <2>1. "\n" \notin WordChars
    BY DEF WordChars, Alphanumeric, Letters, Digits
  <2> QED
    BY <1>2, <1>3, <2>1, LastNoFeed
<1>5. CASE c \in WordChars
  <2>1. Keep(lexeme, c, state)
    BY <1>5 DEF KeywordOrIdentifier
  <2>2. After(c) = Append(lexeme, c)
    BY <1>1, <1>2, <1>3, <1>4 DEF Letters
  <2>3. IsWord(After(c))
    BY <1>1, <1>2, <1>5, <2>2, MoreOfWord
  <2>4. Begun(state, After(c)) /\ state \in States
    BY <1>1, <2>3 DEF Begun, Operators, States
  <2> QED
    BY <1>1, <1>2, <2>1, <2>2, <2>4, Keeping
<1>6. CASE c \notin WordChars /\ Len(lexeme) > MaxLexeme
  BY <1>2, <1>6, Aborting DEF KeywordOrIdentifier, Abort
<1>7. CASE c \notin WordChars /\ ~(Len(lexeme) > MaxLexeme)
  <2>1. FoundBefore(c, WordToken, "none", lexeme)
    BY <1>7 DEF KeywordOrIdentifier
  <2>2. ~Viable(Append(Rest, c))
    BY <1>1, <1>2, <1>7, WordEnds
  <2>3. TokenOf(Rest) = <<WordToken, "none">> /\ WordToken # <<>>
    BY <1>1, <1>2, WordIs DEF WordToken
  <2> HIDE DEF WordToken
  <2> QED
    BY <1>1, <1>4, <1>7, <2>1, <2>2, <2>3, FindingBefore
<1> QED
  BY <1>5, <1>6, <1>7

LEMMA PairParts ==
  ASSUME NEW x, NEW y
  PROVE  Len(<<x, y>>) = 2 /\ <<x, y>>[1] = x /\ <<x, y>>[2] = y
OBVIOUS

LEMMA AppendToOne ==
  ASSUME NEW x, NEW y
  PROVE  Append(<<x>>, y) = <<x, y>>
<1> DEFINE S == {x, y}
           r == <<x>>
           u == Append(r, y)
           p == <<x, y>>
<1>1. x \in S /\ y \in S
  OBVIOUS
<1> HIDE DEF S
<1>2. r \in Seq(S) /\ Len(r) = 1 /\ r[1] = x
  BY <1>1, OneIsSeq
<1>3. p \in Seq(S) /\ Len(p) = 2 /\ p[1] = x /\ p[2] = y
  BY <1>1, TwoIsSeq
<1> HIDE DEF r, p
<1>4. /\ u \in Seq(S) /\ Len(u) = Len(r) + 1
      /\ \A i \in 1..Len(r) : u[i] = r[i]
      /\ u[Len(r) + 1] = y
  <2>1. r \in Seq(S) /\ y \in S
    BY <1>1, <1>2
  <2> QED
    BY <2>1, Appended
<1> HIDE DEF u
<1>5. Len(u) = 2 /\ u[1] = x /\ u[2] = y
  BY <1>2, <1>4
<1>6. \A i \in 1..Len(u) : u[i] = p[i]
  BY <1>3, <1>5
<1>7. u = p
  BY <1>3, <1>4, <1>5, <1>6, SeqEqual
<1> QED
  BY <1>7 DEF u, r, p

LEMMA OneAndMore ==
  ASSUME Inv, result = "reading", state \in Operators, NEW c \in Input
  PROVE  /\ Rest = <<state>> /\ Rest \in Seq(Characters) /\ c \in Characters
         /\ Len(Rest) = 1 /\ Rest[1] = state /\ Rest[1] \in Plain
         /\ Rest # <<>> /\ Rest[Len(Rest)] # "\n"
         /\ After(c) = <<state, c>> /\ After(c) = Append(Rest, c)
<1>1. Rest = <<state>>
  BY StateFacts DEF Begun
<1>2. Rest \in Seq(Characters) /\ c \in Characters
      /\ (Rest # <<>> /\ Rest[1] # "/" => After(c) = Append(Rest, c))
  BY AfterIs
<1>3. Len(Rest) = 1 /\ Rest[1] = state /\ Rest # <<>>
  BY <1>1
<1>4. state \in Plain /\ state # "/" /\ state # "\n"
  BY DEF Operators, Plain, Characters, Alphabet, WordChars, Alphanumeric, Letters, Digits
<1>5. After(c) = Append(Rest, c)
  BY <1>2, <1>3, <1>4
<1>6. Append(Rest, c) = <<state, c>>
  BY <1>1, AppendToOne
<1> QED
  BY <1>1, <1>2, <1>3, <1>4, <1>5, <1>6

LEMMA TwoFound ==
  ASSUME Inv, result = "reading", state \in Operators, NEW c \in Input, c # "\n",
         FoundAt(lexeme, c, <<state, c>>), <<state, c>> \in Fixed
  PROVE  Inv'
<1>1. /\ Rest \in Seq(Characters) /\ c \in Characters
      /\ Len(Rest) = 1 /\ Rest[1] = state /\ Rest[1] \in Plain
      /\ After(c) = <<state, c>> /\ After(c) = Append(Rest, c)
  BY OneAndMore
<1>2. lexeme \in Seq(Input) /\ Len(lexeme) <= MaxLexeme + 1
  BY StateFacts
<1> DEFINE u == <<state, c>>
<1>3. u \in Seq(Characters) /\ Len(u) = 2 /\ u[1] = state
  <2>1. state \in Characters
    BY <1>1 DEF Plain
  <2> QED
    BY <1>1, <2>1, TwoIsSeq
<1>4. u \notin PutBackTokens
  BY DEF PutBackTokens, WordToken
<1>5. FoundAt(lexeme, c, u) /\ u \in Fixed /\ After(c) = u
  BY <1>1
<1> HIDE DEF u
<1>6. ASSUME NEW d \in Input PROVE ~Viable(Append(After(c), d))
  <2>1. d \in Characters /\ Len(u) >= 2 /\ u[1] \in Plain
    BY <1>1, <1>3, InputFacts
  <2> QED
    BY <1>3, <1>5, <2>1, OperatorEnds
<1> QED
  BY <1>2, <1>4, <1>5, <1>6, FindingAt

LEMMA TwoCharactersStep ==
  ASSUME Inv, result = "reading", NEW c \in Input \ {Outside}, TwoCharacters(c)
  PROVE  Inv'
<1>1. state \in {"&", "|", ":"} /\ state \in Operators
  BY DEF TwoCharacters, Operators
<1>2. /\ Rest \in Seq(Characters) /\ c \in Characters
      /\ Len(Rest) = 1 /\ Rest[1] = state /\ Rest[1] \in Plain
      /\ After(c) = Append(Rest, c)
  BY <1>1, OneAndMore
<1> DEFINE partner == IF state = ":" THEN "=" ELSE state
<1>3. CASE c = partner
  <2>1. FoundAt(lexeme, c, <<state, c>>)
    BY <1>3 DEF TwoCharacters
  <2>2. <<state, c>> \in Fixed /\ c # "\n"
    BY <1>1, <1>3 DEF Fixed
  <2> QED
    BY <1>1, <2>1, <2>2, TwoFound
<1>4. CASE c # partner
  <2>1. Reject(c, "invalid_lexeme") /\ state # "string_constant"
    BY <1>1, <1>4 DEF TwoCharacters
  <2>2. \/ Rest[1] \in {"&", "|"} /\ c # Rest[1]
        \/ Rest[1] \in {":", "!", "<", ">"} /\ c # "="
    BY <1>1, <1>2, <1>4
  <2>3. ~Viable(After(c))
    BY <1>2, <2>2, OperatorEnds
  <2> QED
    BY <2>1, <2>3, Rejecting
<1> QED
  BY <1>3, <1>4

LEMMA OneOrTwoCharactersStep ==
  ASSUME Inv, result = "reading", NEW c \in Input \ {Outside}, OneOrTwoCharacters(c)
  PROVE  Inv'
<1>1. state \in {"!", "<", ">"} /\ state \in Operators
  BY DEF OneOrTwoCharacters, Operators
<1>2. /\ Rest = <<state>> /\ Rest \in Seq(Characters) /\ c \in Characters
      /\ Len(Rest) = 1 /\ Rest[1] = state /\ Rest[1] \in Plain
      /\ Rest # <<>> /\ Rest[Len(Rest)] # "\n"
  BY <1>1, OneAndMore
<1>3. CASE c = "="
  <2>1. FoundAt(lexeme, c, <<state, c>>)
    BY <1>3 DEF OneOrTwoCharacters
  <2>2. <<state, c>> \in Fixed /\ c # "\n"
    BY <1>1, <1>3 DEF Fixed
  <2> QED
    BY <1>1, <2>1, <2>2, TwoFound
<1>4. CASE c # "="
  <2> DEFINE token == <<state>>
             type == "none"
             filled == <<>>
  <2>1. FoundBefore(c, token, type, filled)
    BY <1>4 DEF OneOrTwoCharacters
  <2>2. Rest[1] \in {":", "!", "<", ">"}
    BY <1>1, <1>2
  <2>3. ~Viable(Append(Rest, c))
    BY <1>2, <1>4, <2>2, OperatorEnds
  <2>4. Rest \in Fixed
    BY <1>1, <1>2 DEF Fixed
  <2>5. TokenOf(Rest) = <<token, type>>
    BY <1>2, <2>4, FixedIs
  <2>6. token # <<>> /\ token \notin {WordToken, ConstantToken} /\ filled \in Seq(Input)
    BY <1>1, EmptySeq DEF WordToken, ConstantToken
  <2> HIDE DEF token, type, filled
  <2> QED
    BY <1>2, <2>1, <2>3, <2>5, <2>6, FindingBefore
<1> QED
  BY <1>3, <1>4

LEMMA DivisionOrCommentaryStep ==
  ASSUME Inv, result = "reading", NEW c \in Input \ {Outside}, DivisionOrCommentary(c)
  PROVE  Inv'
<1>1. /\ state = "division_or_comentary" /\ Rest = <<"/">>
      /\ lexeme \in Seq(Input) /\ Len(lexeme) <= MaxLexeme + 1
  BY StateFacts DEF Begun, DivisionOrCommentary
<1>2. /\ Rest \in Seq(Characters) /\ c \in Characters /\ c \in Input
      /\ After(c) = IF (Rest = <<>> /\ c \in Blanks) \/ IsComment(Append(Rest, c))
                    THEN <<>> ELSE Append(Rest, c)
  BY AfterIs
<1>3. CASE c = "*"
  <2>1. Skip(lexeme, c, "in_commentary")
    BY <1>3 DEF DivisionOrCommentary
  <2> DEFINE u == Append(Rest, c)
  <2>2. Len(u) = 2 /\ u[1] = "/" /\ u[2] = "*"
    BY <1>1, <1>3
  <2>3. Rest # <<>>
    BY <1>1
  <2> HIDE DEF u
  <2>4. ~IsComment(u)
    BY <2>2 DEF IsComment
  <2>5. After(c) = u
    BY <1>2, <2>3, <2>4 DEF u
  <2>6. InComment(u)
    BY <2>2 DEF InComment
  <2>7. Begun("in_commentary", u) /\ "in_commentary" \in Between
    BY <2>2, <2>6 DEF Begun, Operators, Between
  <2> QED
    BY <1>1, <1>2, <2>1, <2>5, <2>7, Skipping
<1>4. CASE c # "*"
  <2> DEFINE token == <<"/">>
             type == "none"
             filled == <<>>
  <2>1. FoundBefore(c, token, type, filled)
    BY <1>4 DEF DivisionOrCommentary
  <2>3. ~Viable(Append(Rest, c))
    BY <1>1, <1>2, <1>4, SlashEnds
  <2>4. Rest \in Fixed
    BY <1>1 DEF Fixed
  <2>5. TokenOf(Rest) = <<token, type>>
    BY <1>1, <1>2, <2>4, FixedIs
  <2>6. token # <<>> /\ token \notin {WordToken, ConstantToken} /\ filled \in Seq(Input)
    BY EmptySeq DEF WordToken, ConstantToken
  <2>7. Rest # <<>> /\ Rest[Len(Rest)] # "\n"
    <3>1. Len(Rest) = 1 /\ Rest[1] = "/"
      BY <1>1
    <3> QED
      BY <1>1, <3>1
  <2> HIDE DEF token, type, filled
  <2> QED
    BY <2>1, <2>3, <2>5, <2>6, <2>7, FindingBefore
<1> QED
  BY <1>3, <1>4

LEMMA InCommentaryStep ==
  ASSUME Inv, result = "reading", NEW c \in Input \ {Outside}, InCommentary(c)
  PROVE  Inv'
<1>1. /\ state = "in_commentary"
      /\ InComment(Rest) /\ (Len(Rest) = 2 \/ Rest[Len(Rest)] # "*")
      /\ lexeme \in Seq(Input) /\ Len(lexeme) <= MaxLexeme + 1
  BY StateFacts DEF Begun, InCommentary
<1>2. /\ Rest \in Seq(Characters) /\ c \in Characters /\ c \in Input
      /\ After(c) = IF (Rest = <<>> /\ c \in Blanks) \/ IsComment(Append(Rest, c))
                    THEN <<>> ELSE Append(Rest, c)
  BY AfterIs
<1> DEFINE u == Append(Rest, c)
<1>3. Len(Rest) >= 2 /\ Rest # <<>> /\ Len(Rest) \in Nat /\ Len(u) = Len(Rest) + 1
      /\ u[Len(Rest) + 1] = c
  BY <1>1, <1>2, EmptySeq, Appended DEF InComment
<1>4. InComment(u) /\ ~IsComment(u)
  BY <1>1, <1>2, MoreOfComment
<1>5. After(c) = u
  BY <1>2, <1>3, <1>4
<1> HIDE DEF u
<1>6. Len(u) >= 3 /\ u[Len(u)] = c
  BY <1>3
<1>7. CASE c = "*"
  <2>1. Skip(lexeme, c, "leaving_commentary") /\ "leaving_commentary" \in Between
    BY <1>7 DEF InCommentary, Between
  <2>2. Begun("leaving_commentary", u)
    BY <1>4, <1>6, <1>7 DEF Begun, Operators
  <2> QED
    BY <1>1, <1>2, <1>5, <2>1, <2>2, Skipping
<1>8. CASE c # "*"
  <2>1. Skip(lexeme, c, "in_commentary") /\ "in_commentary" \in Between
    BY <1>8 DEF InCommentary, Between
  <2>2. Begun("in_commentary", u)
    BY <1>4, <1>6, <1>8 DEF Begun, Operators
  <2> QED
    BY <1>1, <1>2, <1>5, <2>1, <2>2, Skipping
<1> QED
  BY <1>7, <1>8

LEMMA LeavingCommentaryStep ==
  ASSUME Inv, result = "reading", NEW c \in Input \ {Outside}, LeavingCommentary(c)
  PROVE  Inv'
<1>1. /\ state = "leaving_commentary"
      /\ InComment(Rest) /\ Len(Rest) >= 3 /\ Rest[Len(Rest)] = "*"
      /\ lexeme \in Seq(Input) /\ Len(lexeme) <= MaxLexeme + 1
  BY StateFacts DEF Begun, LeavingCommentary
<1>2. /\ Rest \in Seq(Characters) /\ c \in Characters /\ c \in Input
      /\ After(c) = IF (Rest = <<>> /\ c \in Blanks) \/ IsComment(Append(Rest, c))
                    THEN <<>> ELSE Append(Rest, c)
  BY AfterIs
<1> DEFINE u == Append(Rest, c)
<1>3. Rest # <<>> /\ Len(Rest) \in Nat /\ Len(u) = Len(Rest) + 1
      /\ u[Len(Rest) + 1] = c
  BY <1>1, <1>2, EmptySeq, Appended
<1>4. IF c = "/" THEN IsComment(u) ELSE InComment(u) /\ ~IsComment(u)
  BY <1>1, <1>2, MoreOfComment
<1>5. After(c) = IF c = "/" THEN <<>> ELSE u
  BY <1>2, <1>3, <1>4
<1> HIDE DEF u
<1>6. Len(u) >= 3 /\ u[Len(u)] = c
  BY <1>1, <1>3
<1>7. CASE c = "*"
  <2>1. Skip(lexeme, c, "leaving_commentary") /\ "leaving_commentary" \in Between
    BY <1>7 DEF LeavingCommentary, Between
  <2>2. Begun("leaving_commentary", u)
    BY <1>4, <1>6, <1>7 DEF Begun, Operators
  <2> QED
    BY <1>1, <1>2, <1>5, <1>7, <2>1, <2>2, Skipping
<1>8. CASE c = "/"
  <2>1. Skip(lexeme, c, "initial") /\ "initial" \in Between
    BY <1>8 DEF LeavingCommentary, Between
  <2>2. Begun("initial", <<>>)
    BY DEF Begun, Operators
  <2> QED
    BY <1>1, <1>2, <1>5, <1>8, <2>1, <2>2, Skipping
<1>9. CASE c # "*" /\ c # "/"
  <2>1. Skip(lexeme, c, "in_commentary") /\ "in_commentary" \in Between
    BY <1>9 DEF LeavingCommentary, Between
  <2>2. Begun("in_commentary", u)
    BY <1>4, <1>6, <1>9 DEF Begun, Operators
  <2> QED
    BY <1>1, <1>2, <1>5, <1>9, <2>1, <2>2, Skipping
<1> QED
  BY <1>7, <1>8, <1>9

(* A character that does not begin a comment and is not after one.         *)
LEMMA InToken ==
  ASSUME Inv, result = "reading", state \notin Between, NEW c \in Input,
         Rest # <<>>, Rest[1] # "/"
  PROVE  /\ lexeme = Rest /\ Rest \in Seq(Input) /\ Rest \in Seq(Characters)
         /\ Len(Rest) <= MaxLexeme + 1 /\ c \in Characters
         /\ After(c) = Append(Rest, c)
BY StateFacts, AfterIs

LEMMA EnterCharConstantStep ==
  ASSUME Inv, result = "reading", NEW c \in Input \ {Outside}, EnterCharConstant(c)
  PROVE  Inv'
<1>1. /\ state = "enter_char_constant" /\ state \notin Between /\ Rest = <<"'">>
      /\ state # "string_constant"
  BY StateFacts DEF Begun, EnterCharConstant, Between
<1>2. Rest # <<>> /\ Rest[1] = "'" /\ Len(Rest) = 1
  BY <1>1
<1>3. /\ lexeme = Rest /\ Rest \in Seq(Input) /\ Rest \in Seq(Characters)
      /\ Len(Rest) <= MaxLexeme + 1 /\ c \in Characters
      /\ After(c) = Append(Rest, c)
  BY <1>1, <1>2, InToken
<1>4. CASE c \notin Unprintable
  <2>1. Keep(lexeme, c, "leave_char_constant") /\ "leave_char_constant" \in States
    BY <1>4 DEF EnterCharConstant, States
  <2> DEFINE u == After(c)
  <2>2. u = <<"'", c>>
    BY <1>1, <1>3, AppendToOne
  <2>3. Len(u) = 2 /\ u[1] = "'" /\ u[2] = c
    BY <2>2
  <2> HIDE DEF u
  <2>4. Begun("leave_char_constant", u)
    BY <1>4, <2>3 DEF Begun, Operators
  <2> QED
    BY <1>3, <2>1, <2>4, Keeping DEF u
<1>5. CASE c \in Unprintable
  <2>1. KeepAndReject(lexeme, c)
    BY <1>5 DEF EnterCharConstant
  <2>2. ~Viable(After(c))
    BY <1>2, <1>3, <1>5, CharEnds
  <2> QED
    BY <1>1, <1>3, <2>1, <2>2, KeepingAndRejecting
<1> QED
  BY <1>4, <1>5

LEMMA LeaveCharConstantStep ==
  ASSUME Inv, result = "reading", NEW c \in Input \ {Outside}, LeaveCharConstant(c)
  PROVE  Inv'
<1>1. /\ state = "leave_char_constant" /\ state \notin Between
      /\ Len(Rest) = 2 /\ Rest[1] = "'" /\ Rest[2] \notin Unprintable
      /\ state # "string_constant"
  BY StateFacts DEF Begun, LeaveCharConstant, Between
<1>2. Rest # <<>>
  BY <1>1, EmptySeq
<1>3. /\ lexeme = Rest /\ Rest \in Seq(Input) /\ Rest \in Seq(Characters)
      /\ Len(Rest) <= MaxLexeme + 1 /\ c \in Characters
      /\ After(c) = Append(Rest, c)
  BY <1>1, <1>2, InToken
<1>4. Len(Rest) >= 1
  BY <1>1
<1>5. CASE c = "'"
  <2>1. KeepAndFind(c, "char")
    BY <1>5 DEF LeaveCharConstant
  <2> DEFINE u == Append(Rest, c)
  <2>2. IsChar(u)
    BY <1>1, <1>3, <1>5, MoreOfChar
  <2>3. /\ u \in Seq(Characters) /\ Len(u) = Len(Rest) + 1
        /\ \A i \in 1..Len(Rest) : u[i] = Rest[i]
    BY <1>3, Appended
  <2> HIDE DEF u
  <2>4. TokenOf(u) = <<ConstantToken, "char">>
    BY <2>2, <2>3, CharIs
  <2>5. Len(u) = 3 /\ u[1] = "'"
    BY <1>1, <2>3
  <2>6. ASSUME NEW d \in Input PROVE ~Viable(Append(u, d))
    <3>1. d \in Characters /\ Len(u) >= 1 /\ Len(u) >= 3
      BY <2>5, InputFacts
    <3> QED
      BY <2>3, <2>5, <3>1, CharEnds
  <2>7. c # "\n"
    BY <1>5
  <2> QED
    BY <1>1, <1>3, <2>1, <2>4, <2>6, <2>7, KeepingAndFinding DEF u
<1>6. CASE c # "'"
  <2>1. KeepAndReject(lexeme, c)
    BY <1>6 DEF LeaveCharConstant
  <2>2. ~Viable(After(c))
    BY <1>1, <1>3, <1>4, <1>6, CharEnds
  <2> QED
    BY <1>1, <1>3, <2>1, <2>2, KeepingAndRejecting
<1> QED
  BY <1>5, <1>6

LEMMA StringConstantStep ==
  ASSUME Inv, result = "reading", NEW c \in Input \ {Outside}, StringConstant(c)
  PROVE  Inv'
<1>1. state = "string_constant" /\ state \notin Between /\ OpenString(Rest)
  BY StateFacts DEF Begun, StringConstant, Between
<1>2. Len(Rest) >= 1 /\ Rest[1] # "/"
  <2>1. Len(Rest) >= 1
    BY <1>1, Zenon DEF OpenString
  <2>2. Rest[1] = "\""
    BY <1>1, Zenon DEF OpenString
  <2> QED
    BY <2>1, <2>2
<1>3. Rest # <<>>
  BY <1>2, EmptySeq
<1>4. /\ lexeme = Rest /\ Rest \in Seq(Input) /\ Rest \in Seq(Characters)
      /\ Len(Rest) <= MaxLexeme + 1 /\ c \in Characters
      /\ After(c) = Append(Rest, c)
  BY <1>1, <1>2, <1>3, InToken
<1>5. CASE c = "\n"
  <2>1. RejectLineFeed(c)
    BY <1>5 DEF StringConstant
  <2>2. Consume(c) /\ line' = LineAt(c) - 1 /\ entry' = EntryAt(c)
        /\ result' = "invalid_lexeme" /\ UNCHANGED state /\ UNCHANGED lexeme
    BY <2>1 DEF RejectLineFeed
  <2>3. ~Viable(After(c))
    BY <1>1, <1>4, <1>5, StringEnds
  <2>4. LineAt(c) \in 1..MaxSize + 1 /\ MaxSize \in Nat
    BY <2>2, ReadFacts, InputFacts DEF Consume
  <2>5. line' \in 0..MaxSize + 1
    BY <2>2, <2>4
  <2>6. lexeme' \in Seq(Input) /\ Len(lexeme') <= MaxLexeme + 1
    BY <1>4, <2>2
  <2> QED
    BY <1>1, <2>2, <2>3, <2>5, <2>6, Failing
<1>6. CASE c = "\""
  <2>1. KeepAndFind(c, "string")
    BY <1>6 DEF StringConstant
  <2> DEFINE u == Append(Rest, c)
  <2>2. IsString(u)
    BY <1>1, <1>4, <1>6, MoreOfString
  <2>3. u \in Seq(Characters)
    BY <1>4, Appended
  <2> HIDE DEF u
  <2>4. TokenOf(u) = <<ConstantToken, "string">>
    BY <2>2, <2>3, StringIs
  <2>5. ASSUME NEW d \in Input PROVE ~Viable(Append(u, d))
    <3>1. d \in Characters
      BY InputFacts
    <3> QED
      BY <2>2, <2>3, <3>1, ClosedStringEnds
  <2>6. c # "\n"
    BY <1>6
  <2> QED
    BY <1>1, <1>4, <2>1, <2>4, <2>5, <2>6, KeepingAndFinding DEF u
<1>7. CASE c \notin {"\"", "\n"}
  <2>1. Keep(lexeme, c, state)
    BY <1>7 DEF StringConstant
  <2>2. OpenString(After(c))
    BY <1>1, <1>4, <1>7, MoreOfString
  <2>3. Begun(state, After(c)) /\ state \in States
    BY <1>1, <2>2 DEF Begun, Operators, States
  <2> QED
    BY <1>4, <2>1, <2>3, Keeping
<1> QED
  BY <1>5, <1>6, <1>7

LEMMA EnterHexadecimalCharStep ==
  ASSUME Inv, result = "reading", NEW c \in Input \ {Outside}, EnterHexadecimalChar(c)
  PROVE  Inv'
<1>1. /\ state = "enter_hexadecimal_char" /\ state \notin Between /\ Rest = <<"0", "x">>
      /\ state # "string_constant"
  BY StateFacts DEF Begun, EnterHexadecimalChar, Between
<1>2. Rest # <<>> /\ Rest[1] = "0" /\ Rest[2] = "x" /\ Len(Rest) = 2 /\ Len(Rest) >= 2
  BY <1>1
<1>3. /\ lexeme = Rest /\ Rest \in Seq(Input) /\ Rest \in Seq(Characters)
      /\ Len(Rest) <= MaxLexeme + 1 /\ c \in Characters
      /\ After(c) = Append(Rest, c)
  BY <1>1, <1>2, InToken
<1>4. CASE c \in HexDigits
  <2>1. Keep(lexeme, c, "hexadecimal_char") /\ "hexadecimal_char" \in States
    BY <1>4 DEF EnterHexadecimalChar, States
  <2> DEFINE u == Append(Rest, c)
  <2>2. /\ Len(u) = Len(Rest) + 1
        /\ \A i \in 1..Len(Rest) : u[i] = Rest[i]
        /\ u[Len(Rest) + 1] = c
    BY <1>3, Appended
  <2> HIDE DEF u
  <2>3. Len(u) = 3 /\ u[1] = "0" /\ u[2] = "x" /\ u[3] = c
    BY <1>2, <2>2
  <2>4. Begun("hexadecimal_char", u)
    BY <1>4, <2>3 DEF Begun, Operators
  <2> QED
    BY <1>3, <2>1, <2>4, Keeping DEF u
<1>5. CASE c \notin HexDigits
  <2>1. KeepAndReject(lexeme, c)
    BY <1>5 DEF EnterHexadecimalChar
  <2>2. ~Viable(After(c))
    BY <1>2, <1>3, <1>5, HexadecimalEnds
  <2> QED
    BY <1>1, <1>3, <2>1, <2>2, KeepingAndRejecting
<1> QED
  BY <1>4, <1>5

LEMMA HexadecimalCharStep ==
  ASSUME Inv, result = "reading", NEW c \in Input \ {Outside}, HexadecimalChar(c)
  PROVE  Inv'
<1>1. /\ state = "hexadecimal_char" /\ state \notin Between
      /\ Len(Rest) = 3 /\ Rest[1] = "0" /\ Rest[2] = "x" /\ Rest[3] \in HexDigits
      /\ state # "string_constant"
  BY StateFacts DEF Begun, HexadecimalChar, Between
<1>2. Rest # <<>> /\ Len(Rest) >= 2
  BY <1>1, EmptySeq
<1>3. /\ lexeme = Rest /\ Rest \in Seq(Input) /\ Rest \in Seq(Characters)
      /\ Len(Rest) <= MaxLexeme + 1 /\ c \in Characters
      /\ After(c) = Append(Rest, c)
  BY <1>1, <1>2, InToken
<1>4. CASE c \in HexDigits
  <2>1. KeepAndFind(c, "char")
    BY <1>4 DEF HexadecimalChar
  <2> DEFINE u == Append(Rest, c)
  <2>2. IsChar(u)
    BY <1>1, <1>3, <1>4, MoreOfHexadecimal
  <2>3. /\ u \in Seq(Characters) /\ Len(u) = Len(Rest) + 1
        /\ \A i \in 1..Len(Rest) : u[i] = Rest[i]
    BY <1>3, Appended
  <2> HIDE DEF u
  <2>4. TokenOf(u) = <<ConstantToken, "char">>
    BY <2>2, <2>3, CharIs
  <2>5. Len(u) = 4 /\ u[1] = "0" /\ u[2] = "x"
    BY <1>1, <2>3
  <2>6. ASSUME NEW d \in Input PROVE ~Viable(Append(u, d))
    <3>1. d \in Characters /\ Len(u) >= 2 /\ Len(u) \notin {2, 3}
      BY <2>5, InputFacts
    <3> QED
      BY <2>3, <2>5, <3>1, HexadecimalEnds
  <2>7. c # "\n"
    BY <1>4 DEF HexDigits, Digits
  <2> QED
    BY <1>1, <1>3, <2>1, <2>4, <2>6, <2>7, KeepingAndFinding DEF u
<1>5. CASE c \notin HexDigits
  <2>1. KeepAndReject(lexeme, c)
    BY <1>5 DEF HexadecimalChar
  <2>2. ~Viable(After(c))
    BY <1>1, <1>2, <1>3, <1>5, HexadecimalEnds
  <2> QED
    BY <1>1, <1>3, <2>1, <2>2, KeepingAndRejecting
<1> QED
  BY <1>4, <1>5

(* A number that ends before c.                                            *)
LEMMA NumberEnds ==
  ASSUME Inv, result = "reading", state \notin Between, NEW c \in Input \ {Outside},
         NEW type \in {"int", "float"}, FoundBefore(c, ConstantToken, type, lexeme),
         IF type = "int" THEN IsInteger(Rest) ELSE IsFloat(Rest),
         ~Viable(Append(Rest, c))
  PROVE  Inv'
<1>1. lexeme = Rest /\ Rest \in Seq(Input) /\ Rest \in Seq(Characters)
  BY StateFacts, InputFacts
<1>2. "\n" \notin Digits \union {"."}
  BY DEF Digits
<1>3. /\ Len(Rest) \in Nat /\ Len(Rest) >= 1
      /\ \A i \in 1..Len(Rest) : Rest[i] # "\n"
      /\ TokenOf(Rest) = <<ConstantToken, type>>
  <2>1. CASE type = "int"
    BY <1>1, <1>2, <2>1, IntegerShape, IntegerIs, LenProperties
  <2>2. CASE type = "float"
    <3>1. IsFloat(Rest)
      BY <2>2
    <3>2. /\ Len(Rest) >= 2 /\ Len(Rest) \in Nat
          /\ \A i \in 1..Len(Rest) : Rest[i] \in Digits \union {"."}
      BY <1>1, <3>1, FloatShape, LenProperties
    <3>3. Len(Rest) >= 1
      BY <3>2
    <3> QED
      BY <1>1, <1>2, <2>2, <3>1, <3>2, <3>3, FloatIs
  <2> QED
    BY <2>1, <2>2
<1>4. Rest # <<>> /\ Rest[Len(Rest)] # "\n"
  BY <1>1, <1>3, LastNoFeed
<1>5. ConstantToken # <<>>
  BY DEF ConstantToken
<1> QED
  BY <1>1, <1>3, <1>4, <1>5, FindingBefore

LEMMA NumberGoesOn ==
  ASSUME Inv, result = "reading", state \notin Between, NEW c \in Input \ {Outside},
         NEW to \in {"integer_or_float", "float"}, Keep(lexeme, c, to),
         Rest # <<>>, Rest[1] # "/",
         IF to = "float" THEN IsFloat(Append(Rest, c))
         ELSE IsInteger(Append(Rest, c)) /\ Append(Rest, c) # <<"0">>
  PROVE  Inv'
<1>1. /\ lexeme = Rest /\ Rest \in Seq(Input)
      /\ Len(Rest) <= MaxLexeme + 1 /\ After(c) = Append(Rest, c)
  BY InToken
<1>2. to \in States /\ Begun(to, After(c))
  BY <1>1 DEF States, Begun, Operators
<1> QED
  BY <1>1, <1>2, Keeping

LEMMA CharOrNumberStep ==
  ASSUME Inv, result = "reading", NEW c \in Input \ {Outside}, CharOrNumber(c)
  PROVE  Inv'
<1>1. state = "char_or_number" /\ state \notin Between /\ Rest = <<"0">>
  BY StateFacts DEF Begun, CharOrNumber, Between
<1>2. Rest # <<>> /\ Rest[1] = "0" /\ Rest[1] # "/"
  BY <1>1
<1>3. /\ lexeme = Rest /\ Rest \in Seq(Input) /\ Rest \in Seq(Characters)
      /\ Len(Rest) <= MaxLexeme + 1 /\ c \in Characters
      /\ After(c) = Append(Rest, c)
  BY <1>1, <1>2, InToken
<1>4. IsInteger(Rest)
  BY <1>1, FirstOnes DEF Digits
<1>5. CASE c = "x"
  <2>1. Keep(lexeme, c, "enter_hexadecimal_char") /\ "enter_hexadecimal_char" \in States
    BY <1>5 DEF CharOrNumber, States, Digits
  <2>2. After(c) = <<"0", "x">>
    BY <1>1, <1>3, <1>5, AppendToOne
  <2>3. Begun("enter_hexadecimal_char", After(c))
    BY <2>2 DEF Begun, Operators
  <2> QED
    BY <1>3, <2>1, <2>3, Keeping
<1>6. CASE c \in Digits
  <2>1. c # "x"
    BY <1>6 DEF Digits
  <2>2. c # "."
    BY <1>6 DEF Digits
  <2>3. Keep(lexeme, c, "integer_or_float")
    BY <1>6, <2>1, <2>2 DEF CharOrNumber
  <2>4. IsInteger(Append(Rest, c)) /\ Append(Rest, c) # <<"0">>
    BY <1>3, <1>4, <1>6, MoreOfInteger
  <2> QED
    BY <1>1, <1>2, <2>3, <2>4, NumberGoesOn
<1>7. CASE c = "."
  <2>1. Keep(lexeme, c, "float")
    BY <1>7 DEF CharOrNumber, Digits
  <2>2. IsFloat(Append(Rest, c))
    BY <1>3, <1>4, <1>7, PointOfInteger
  <2> QED
    BY <1>1, <1>2, <2>1, <2>2, NumberGoesOn
<1>8. CASE c # "x" /\ c \notin Digits /\ c # "."
  <2>1. FoundBefore(c, ConstantToken, "int", lexeme)
    BY <1>8 DEF CharOrNumber
  <2>2. ~Viable(Append(Rest, c))
    BY <1>3, <1>4, <1>8, IntegerEnds
  <2> QED
    BY <1>1, <1>4, <2>1, <2>2, NumberEnds
<1> QED
  BY <1>5, <1>6, <1>7, <1>8

LEMMA IntegerOrFloatStep ==
  ASSUME Inv, result = "reading", NEW c \in Input \ {Outside}, IntegerOrFloat(c)
  PROVE  Inv'
<1>1. /\ state = "integer_or_float" /\ state \notin Between
      /\ IsInteger(Rest) /\ Rest # <<"0">>
  BY StateFacts DEF Begun, IntegerOrFloat, Between
<1>2. Rest \in Seq(Characters) /\ c \in Characters
  BY AfterIs
<1>3. Rest # <<>> /\ Rest[1] # "/"
  <2>1. Len(Rest) >= 1 /\ Rest[1] \in Digits
    BY <1>1, <1>2, IntegerShape
  <2> QED
    BY <2>1, EmptySeq DEF Digits
<1>4. CASE c = "."
  <2>1. Keep(lexeme, c, "float")
    BY <1>4 DEF IntegerOrFloat, Digits
  <2>2. IsFloat(Append(Rest, c))
    BY <1>1, <1>2, <1>4, PointOfInteger
  <2> QED
    BY <1>1, <1>3, <2>1, <2>2, NumberGoesOn
<1>5. CASE c \in Digits
  <2>1. c # "."
    BY <1>5 DEF Digits
  <2>2. Keep(lexeme, c, "integer_or_float")
    BY <1>1, <1>5, <2>1 DEF IntegerOrFloat
  <2>3. IsInteger(Append(Rest, c)) /\ Append(Rest, c) # <<"0">>
    BY <1>1, <1>2, <1>5, MoreOfInteger
  <2> QED
    BY <1>1, <1>3, <2>2, <2>3, NumberGoesOn
<1>6. CASE c # "." /\ c \notin Digits
  <2>1. FoundBefore(c, ConstantToken, "int", lexeme)
    BY <1>6 DEF IntegerOrFloat
  <2>2. ~Viable(Append(Rest, c))
    BY <1>1, <1>2, <1>6, IntegerEnds
  <2> QED
    BY <1>1, <2>1, <2>2, NumberEnds
<1> QED
  BY <1>4, <1>5, <1>6

LEMMA StartFloatStep ==
  ASSUME Inv, result = "reading", NEW c \in Input \ {Outside}, StartFloat(c)
  PROVE  Inv'
<1>1. /\ state = "start_float" /\ state \notin Between /\ state # "string_constant"
      /\ Rest = <<".">>
  BY StateFacts DEF Begun, StartFloat, Between
<1>2. Rest # <<>> /\ Rest[1] # "/"
  BY <1>1
<1>3. Rest \in Seq(Characters) /\ c \in Characters /\ After(c) = Append(Rest, c)
  BY <1>1, <1>2, InToken
<1>4. CASE c \in Digits
  <2>1. Keep(lexeme, c, "float")
    BY <1>4 DEF StartFloat
  <2>2. IsFloat(Append(Rest, c))
    BY <1>1, <1>3, <1>4, MoreOfFloat
  <2> QED
    BY <1>1, <1>2, <2>1, <2>2, NumberGoesOn
<1>5. CASE c \notin Digits
  <2>1. Reject(c, "invalid_lexeme")
    BY <1>5 DEF StartFloat
  <2>2. ~Viable(After(c))
    BY <1>1, <1>3, <1>5, PointEnds
  <2> QED
    BY <1>1, <2>1, <2>2, Rejecting
<1> QED
  BY <1>4, <1>5

LEMMA FloatConstantStep ==
  ASSUME Inv, result = "reading", NEW c \in Input \ {Outside}, FloatConstant(c)
  PROVE  Inv'
<1>1. state = "float" /\ state \notin Between /\ IsFloat(Rest)
  BY StateFacts DEF Begun, FloatConstant, Between
<1>2. Rest \in Seq(Characters) /\ c \in Characters
  BY AfterIs
<1>3. Rest # <<>> /\ Rest[1] # "/"
  <2>1. Len(Rest) >= 2 /\ Rest[1] \in Digits \union {"."}
    BY <1>1, <1>2, FloatShape
  <2> QED
    BY <2>1, EmptySeq DEF Digits
<1>4. CASE c \in Digits
  <2>1. Keep(lexeme, c, "float")
    BY <1>1, <1>4 DEF FloatConstant
  <2>2. IsFloat(Append(Rest, c))
    BY <1>1, <1>2, <1>4, MoreOfFloat
  <2> QED
    BY <1>1, <1>3, <2>1, <2>2, NumberGoesOn
<1>5. CASE c \notin Digits
  <2>1. FoundBefore(c, ConstantToken, "float", lexeme)
    BY <1>5 DEF FloatConstant
  <2>2. ~Viable(Append(Rest, c))
    BY <1>1, <1>2, <1>5, FloatEnds
  <2> QED
    BY <1>1, <2>1, <2>2, NumberEnds
<1> QED
  BY <1>4, <1>5

-----------------------------------------------------------------------------
(* The end of the file.                                                    *)

LEMMA TokensAreTokens ==
  ASSUME NEW r \in Seq(Characters),
         r \in Fixed \/ IsWord(r) \/ IsInteger(r) \/ IsFloat(r) \/ IsChar(r) \/ IsString(r)
  PROVE  TokenOf(r) # <<>>
<1>1. \A a, b : <<a, b>> # <<>>
  OBVIOUS
<1> QED
  BY <1>1, FixedIs, WordIs, IntegerIs, FloatIs, CharIs, StringIs

LEMMA OneCompletes ==
  ASSUME NEW r \in Seq(Characters), NEW c \in Characters, <<c>> \in Completions,
         \/ Append(r, c) \in Fixed \/ IsFloat(Append(r, c)) \/ IsChar(Append(r, c))
         \/ IsString(Append(r, c)) \/ IsComment(Append(r, c))
  PROVE  Viable(r)
<1>1. Append(r, c) \in Seq(Characters)
  BY Appended
<1>2. TokenOf(Append(r, c)) # <<>> \/ IsComment(Append(r, c))
  BY <1>1, TokensAreTokens
<1> QED
  BY <1>2, Completable

LEMMA TwoComplete ==
  ASSUME NEW r \in Seq(Characters), NEW c \in Characters, NEW d \in Characters,
         <<c, d>> \in Completions,
         \/ IsChar(Append(Append(r, c), d)) \/ IsComment(Append(Append(r, c), d))
  PROVE  Viable(r)
<1>1. Append(Append(r, c), d) \in Seq(Characters)
  BY Appended
<1>2. TokenOf(Append(Append(r, c), d)) # <<>> \/ IsComment(Append(Append(r, c), d))
  BY <1>1, TokensAreTokens
<1> QED
  BY <1>2, Completable

LEMMA BegunIsViable ==
  ASSUME NEW st \in States \ {"initial"}, NEW r \in Seq(Characters), Begun(st, r)
  PROVE  r # <<>> /\ Viable(r)
<1>1. {"&", "|", "=", "/", "*", "'", "\"", "a", "1"} \subseteq Characters
  BY DEF Characters, Alphabet, WordChars, Alphanumeric, Letters, Digits, Single
<1>2. /\ {<<"=">>, <<"&">>, <<"|">>, <<"1">>, <<"a">>, <<"'">>, <<"\"">>, <<"/">>}
          \subseteq Completions
      /\ <<"a", "a">> \in Completions /\ <<"a", "'">> \in Completions
      /\ <<"*", "/">> \in Completions
  BY Zenon DEF Completions
<1>3. Len(r) >= 1 => r # <<>>
  BY EmptySeq
<1>4. ASSUME r \in Fixed \/ IsWord(r) \/ IsInteger(r) \/ IsFloat(r) PROVE Viable(r)
  BY <1>4, TokensAreTokens, Completable
<1>5. CASE st = "keyword_or_identifier"
  BY <1>3, <1>4, <1>5, WordShape DEF Begun
<1>6. CASE st \in {"!", "<", ">"}
  <2>1. r = <<st>>
    BY <1>6 DEF Begun, Operators
  <2>2. r \in Fixed /\ Len(r) = 1
    BY <1>6, <2>1 DEF Fixed
  <2> QED
    BY <1>3, <1>4, <2>2
<1>7. CASE st = "division_or_comentary"
  <2>1. r = <<"/">>
    BY <1>7 DEF Begun
  <2>2. r \in Fixed /\ Len(r) = 1
    BY <2>1 DEF Fixed
  <2> QED
    BY <1>3, <1>4, <2>2
<1>8. CASE st \in {"&", "|", ":"}
  <2>1. r = <<st>>
    BY <1>8 DEF Begun, Operators
  <2>2. PICK c \in {"&", "|", "="} : <<st, c>> \in Fixed
    BY <1>8 DEF Fixed
  <2>3. Append(r, c) \in Fixed
    BY <2>1, <2>2, AppendToOne
  <2>4. c \in Characters
    BY <1>1
  <2>5. <<c>> \in Completions
    BY <1>2
  <2>6. Viable(r)
    BY <2>3, <2>4, <2>5, OneCompletes
  <2>7. r # <<>>
    BY <2>1
  <2> QED
    BY <2>6, <2>7
<1>9. CASE st \in {"in_commentary", "leaving_commentary"}
  <2>1. InComment(r)
    BY <1>9 DEF Begun
  <2>2. "*" \in Characters /\ "/" \in Characters
    BY <1>1
  <2>3. /\ Append(r, "*") \in Seq(Characters) /\ Len(Append(r, "*")) = Len(r) + 1
        /\ Len(r) \in Nat /\ Append(r, "*")[Len(r) + 1] = "*" /\ Len(r) >= 2
    BY <2>1, <2>2, Appended DEF InComment
  <2>4. InComment(Append(r, "*"))
    BY <2>1, <2>2, MoreOfComment
  <2> DEFINE u == Append(r, "*")
  <2>5. u \in Seq(Characters) /\ InComment(u) /\ Len(u) >= 3 /\ u[Len(u)] = "*"
    <3> HIDE DEF u
    <3>1. /\ u \in Seq(Characters) /\ Len(u) = Len(r) + 1
          /\ Len(r) \in Nat /\ u[Len(r) + 1] = "*" /\ Len(r) >= 2
      BY <2>3 DEF u
    <3>2. InComment(u)
      BY <2>4 DEF u
    <3> QED
      BY <3>1, <3>2
  <2> HIDE DEF u
  <2>6. IsComment(Append(u, "/"))
    BY <2>2, <2>5, MoreOfComment
  <2>7. Viable(r)
    BY <1>2, <2>2, <2>6, TwoComplete DEF u
  <2>8. Len(r) >= 1
    BY <2>3
  <2> QED
    BY <1>3, <2>7, <2>8
<1>10. CASE st = "leave_char_constant"
  <2>1. Len(r) = 2 /\ r[1] = "'" /\ r[2] \notin Unprintable
    BY <1>10 DEF Begun
  <2>2. IsChar(Append(r, "'"))
    BY <2>1, MoreOfChar
  <2>3. "'" \in Characters /\ <<"'">> \in Completions
    BY <1>1, <1>2
  <2> QED
    BY <1>3, <2>1, <2>2, <2>3, OneCompletes
<1>11. CASE st = "enter_char_constant"
  <2>1. r = <<"'">>
    BY <1>11 DEF Begun
  <2> DEFINE u == Append(r, "a")
  <2>2. u = <<"'", "a">>
    BY <2>1, AppendToOne
  <2>3. "'" \in Characters /\ "a" \in Characters
    BY <1>1
  <2>4. u \in Seq(Characters)
    BY <2>3, Appended
  <2> HIDE DEF u
  <2>5. Len(u) = 2 /\ u[1] = "'" /\ u[2] = "a"
    BY <2>2, PairParts
  <2>6. IsChar(Append(u, "'"))
    BY <2>4, <2>5, MoreOfChar DEF Unprintable
  <2>7. Viable(r)
    BY <1>2, <2>3, <2>6, TwoComplete DEF u
  <2> QED
    BY <2>1, <2>7
<1>12. CASE st = "string_constant"
  <2>1. OpenString(r)
    BY <1>12 DEF Begun
  <2>2. "\"" \in Characters /\ <<"\"">> \in Completions
    BY <1>1, <1>2, Zenon
  <2>3. IsString(Append(r, "\""))
    BY <2>1, <2>2, MoreOfString, Zenon
  <2>4. Len(r) >= 1
    BY <2>1, Zenon DEF OpenString
  <2>5. Viable(r)
    BY <2>2, <2>3, OneCompletes, Zenon
  <2> QED
    BY <1>3, <2>4, <2>5
<1>13. CASE st = "char_or_number"
  <2>1. r = <<"0">>
    BY <1>13 DEF Begun
  <2>2. IsInteger(r)
    BY <2>1, FirstOnes DEF Digits
  <2> QED
    BY <1>4, <2>1, <2>2
<1>14. CASE st = "hexadecimal_char"
  <2>1. Len(r) = 3 /\ r[1] = "0" /\ r[2] = "x" /\ r[3] \in HexDigits
    BY <1>14 DEF Begun
  <2>2. "a" \in HexDigits
    BY DEF HexDigits
  <2>3. IsChar(Append(r, "a"))
    BY <2>1, <2>2, MoreOfHexadecimal
  <2>4. "a" \in Characters /\ <<"a">> \in Completions
    BY <1>1, <1>2
  <2> QED
    BY <1>3, <2>1, <2>3, <2>4, OneCompletes
<1>15. CASE st = "enter_hexadecimal_char"
  <2>1. r = <<"0", "x">>
    BY <1>15 DEF Begun
  <2>2. Len(r) = 2 /\ r[1] = "0" /\ r[2] = "x"
    BY <2>1
  <2>3. "a" \in HexDigits /\ "a" \in Characters
    BY <1>1 DEF HexDigits
  <2> DEFINE u == Append(r, "a")
  <2>4. /\ u \in Seq(Characters) /\ Len(u) = Len(r) + 1
        /\ \A i \in 1..Len(r) : u[i] = r[i]
        /\ u[Len(r) + 1] = "a"
    BY <2>3, Appended
  <2> HIDE DEF u
  <2>5. Len(u) = 3 /\ u[1] = "0" /\ u[2] = "x" /\ u[3] = "a"
    BY <2>2, <2>4
  <2>6. IsChar(Append(u, "a"))
    BY <2>3, <2>4, <2>5, MoreOfHexadecimal
  <2>7. Viable(r)
    BY <1>2, <2>3, <2>6, TwoComplete DEF u
  <2> QED
    BY <2>1, <2>7
<1>16. CASE st = "integer_or_float"
  BY <1>3, <1>4, <1>16, IntegerShape DEF Begun
<1>17. CASE st = "start_float"
  <2>1. r = <<".">>
    BY <1>17 DEF Begun
  <2>2. "1" \in Digits /\ "1" \in Characters
    BY <1>1 DEF Digits
  <2>3. IsFloat(Append(r, "1"))
    BY <2>1, <2>2, MoreOfFloat
  <2>4. Viable(r)
    BY <1>2, <2>2, <2>3, OneCompletes
  <2> QED
    BY <2>1, <2>4
<1>18. CASE st = "float"
  <2>1. IsFloat(r)
    BY <1>18 DEF Begun
  <2>2. Len(r) >= 2
    BY <2>1 DEF IsFloat
  <2>3. Len(r) >= 1
    BY <2>2, LenProperties
  <2> QED
    BY <1>3, <1>4, <2>1, <2>3
<1> QED
  BY <1>5, <1>6, <1>7, <1>8, <1>9, <1>10, <1>11, <1>12, <1>13, <1>14, <1>15, <1>16,
     <1>17, <1>18 DEF States

-----------------------------------------------------------------------------
(* The invariant is one.                                                   *)

LEMMA InitInv ==
  ASSUME Init
  PROVE  Inv
<1>1. /\ state = "initial" /\ lexeme = <<>> /\ line = 1 /\ back = <<>>
      /\ entry = NoEntry /\ result = "none" /\ size = 0 /\ text = <<>> /\ lines = 0
  BY DEF Init
<1>2. <<>> \in Seq(Input) /\ Len(<<>>) = 0 /\ LineFeeds(<<>>) = 0
  BY EmptySeq, NoFeeds
<1>3. /\ DOMAIN NoEntry = Fields /\ NoEntry.token = <<>>
      /\ NoEntry.line = 1 /\ NoEntry.lexeme = <<>>
  BY DEF NoEntry, Fields
<1>4. Typed
  <2>1. 1 \in 0..MaxSize + 1 /\ 1 \in 1..MaxSize + 1 /\ 0 \in 0..MaxSize
        /\ 0 <= MaxLexeme + 1
    BY InputFacts
  <2> QED
    BY <1>1, <1>2, <1>3, <2>1 DEF Typed, Fields, States
<1>5. Called /\ Within
  BY <1>1, <1>2, <1>3 DEF Called, Within
<1>6. Reading /\ Returned
  BY <1>1 DEF Reading, Returned
<1>7. LongestMatch /\ LineIsRight /\ LexemeIsText /\ EmptyEntry /\ ErrorsAreErrors
  BY <1>1 DEF LongestMatch, LineIsRight, LexemeIsText, EmptyEntry, ErrorsAreErrors
<1> QED
  BY <1>4, <1>5, <1>6, <1>7 DEF Inv

LEMMA NextCallInv ==
  ASSUME Inv, NextCall
  PROVE  Inv'
<1>1. /\ result \in {"none", "found"}
      /\ state' = "initial" /\ last' = NoChar
      /\ entry' = NoEntry /\ result' = "reading"
      /\ text' = <<>> /\ lines' = lines + LineFeeds(text)
      /\ lexeme' = lexeme /\ line' = line /\ back' = back /\ size' = size
  BY DEF NextCall
<1>2. <<>> \in Seq(Input) /\ Len(<<>>) = 0 /\ LineFeeds(<<>>) = 0
  BY EmptySeq, NoFeeds
<1>3. /\ DOMAIN NoEntry = Fields /\ NoEntry.token = <<>>
      /\ NoEntry.line = 1 /\ NoEntry.lexeme = <<>>
  BY DEF NoEntry, Fields
<1>4. lines \in Nat /\ LineFeeds(text) \in Nat
  BY FeedOfMore, SMTT(30) DEF Inv, Typed
<1>5. Typed'
  <2>1. 1 \in 1..MaxSize + 1 /\ lines' \in Nat
    BY <1>1, <1>4, InputFacts
  <2> QED
    BY <1>1, <1>2, <1>3, <2>1 DEF Inv, Typed, Fields, States
<1>6. line = 1 + lines + LineFeeds(text)
  <2>1. CASE result = "none"
    BY <1>2, <1>4, <2>1 DEF Inv, Called
  <2>2. CASE result = "found"
    BY <2>2 DEF Inv, Returned
  <2> QED
    BY <1>1, <2>1, <2>2
<1>7. Reading'
  <2>1. RestOf(<<>>) = <<>> /\ Decided(<<>>)
    BY RestOfNothing
  <2>2. Begun("initial", <<>>)
    BY DEF Begun, Operators
  <2>3. line' = 1 + lines' + LineFeeds(text') - Fed(last')
    <3>1. NoChar # "\n"
      BY Zenon DEF NoChar
    <3>2. Fed(last') = 0
      BY <1>1, <3>1 DEF Fed
    <3> QED
      BY <1>1, <1>2, <1>4, <1>6, <3>2
  <2>4. "initial" \in Between
    BY DEF Between
  <2> QED
    BY <1>1, <1>3, <2>1, <2>2, <2>3, <2>4 DEF Reading, Rest
<1>8. Within'
  <2>1. line >= 1 /\ lines + LineFeeds(text) + Len(back) <= size
    BY <1>1 DEF Inv, Within
  <2>2. lines' + LineFeeds(text') + Len(back') <= size'
    BY <1>1, <1>2, <1>4, <2>1
  <2> QED
    BY <1>1, <2>1, <2>2 DEF Within
<1>9. Called' /\ Returned'
  BY <1>1 DEF Called, Returned
<1>10. LongestMatch' /\ LineIsRight' /\ LexemeIsText' /\ EmptyEntry' /\ ErrorsAreErrors'
  BY <1>1 DEF LongestMatch, LineIsRight, LexemeIsText, EmptyEntry, ErrorsAreErrors
<1> QED
  BY <1>5, <1>7, <1>8, <1>9, <1>10 DEF Inv

LEMMA NextCallAtEndInv ==
  ASSUME Inv, NextCallAtEnd
  PROVE  Inv'
<1>1. /\ result \in {"none", "found"} /\ back = <<>> /\ result' = "empty"
      /\ state' = state /\ lexeme' = lexeme /\ line' = line /\ back' = back
      /\ entry' = entry /\ size' = size /\ text' = text /\ lines' = lines
  BY DEF NextCallAtEnd
<1>2. Typed'
  BY <1>1 DEF Inv, Typed
<1>3. Called' /\ Reading' /\ Returned' /\ Within' /\ LongestMatch' /\ LineIsRight'
      /\ LexemeIsText'
  BY <1>1 DEF Called, Reading, Returned, Within, LongestMatch, LineIsRight, LexemeIsText
<1>4. CASE result = "none"
  <2>1. text = <<>> /\ entry.token = <<>>
    BY <1>4 DEF Inv, Called
  <2>2. Rest' = <<>>
    BY <1>1, <2>1, RestOfNothing DEF Rest
  <2>3. EmptyEntry' /\ ErrorsAreErrors'
    BY <1>1, <2>1, <2>2 DEF EmptyEntry, ErrorsAreErrors
  <2> QED
    BY <1>2, <1>3, <2>3 DEF Inv
<1>5. CASE result = "found"
  <2>1. /\ entry.token # <<>>
        /\ entry.token \notin {WordToken, <<"!">>, <<"<">>, <<">">>, <<"/">>}
        /\ entry.type \notin {"int", "float"}
    BY <1>1, <1>5 DEF Inv, Returned
  <2>2. EmptyEntry' /\ ErrorsAreErrors'
    BY <1>1, <2>1 DEF EmptyEntry, ErrorsAreErrors
  <2> QED
    BY <1>2, <1>3, <2>2 DEF Inv
<1> QED
  BY <1>1, <1>4, <1>5

LEMMA EndOfFileInv ==
  ASSUME Inv, EndOfFile
  PROVE  Inv'
<1>1. /\ result = "reading" /\ text # <<>>
      /\ result' = IF state = "initial" THEN "empty" ELSE "unexpected_eof"
      /\ state' = state /\ lexeme' = lexeme /\ line' = line /\ back' = back
      /\ entry' = entry /\ size' = size /\ text' = text /\ lines' = lines
  BY DEF EndOfFile
<1>2. Typed'
  BY <1>1 DEF Inv, Typed
<1>3. Called' /\ Reading' /\ Returned' /\ Within' /\ LongestMatch' /\ LexemeIsText'
  BY <1>1 DEF Called, Reading, Returned, Within, LongestMatch, LexemeIsText
<1>4. /\ Begun(state, Rest) /\ entry.token = <<>> /\ Rest' = Rest
      /\ last = text[Len(text)] /\ line = 1 + lines + LineFeeds(text) - Fed(last)
      /\ text \in Seq(Input) /\ state \in States /\ lines \in Nat
  BY <1>1 DEF Inv, Typed, Reading, Rest
<1>5. EmptyEntry'
  BY <1>1, <1>4 DEF EmptyEntry
<1>6. LineIsRight'
  <2> DEFINE front == LineFeeds(SubSeq(text, 1, Len(text) - 1))
  <2>1. LineFeeds(text) = front + Fed(last) /\ front \in Nat
    BY <1>1, <1>4, FeedOfLast
  <2>2. line' = 1 + lines' + front
    <3> HIDE DEF front
    <3> QED
      BY <1>1, <1>4, <2>1 DEF Fed
  <2>3. result' # "invalid_lexeme"
    BY <1>1
  <2>4. front = LineFeeds(SubSeq(text', 1, Len(text') - 1))
    BY <1>1
  <2>5. lines' \in Nat
    BY <1>1, <1>4
  <2> HIDE DEF front
  <2>6. line' = 1 + lines' + front - 0
    BY <2>1, <2>2, <2>5
  <2> QED
    BY <2>3, <2>4, <2>6 DEF LineIsRight
<1>7. ErrorsAreErrors'
  <2>1. CASE state = "initial"
    <3>1. Rest' = <<>>
      BY <1>4, <2>1 DEF Begun
    <3> QED
      BY <1>1, <2>1, <3>1 DEF ErrorsAreErrors
  <2>2. CASE state # "initial"
    <3>1. Rest \in Seq(Characters)
      BY <1>1, <1>4, RestStep, InputFacts DEF Inv, Reading, Rest
    <3>2. Rest # <<>> /\ Viable(Rest)
      BY <1>4, <2>2, <3>1, BegunIsViable
    <3> QED
      BY <1>1, <1>4, <2>2, <3>2 DEF ErrorsAreErrors
  <2> QED
    BY <2>1, <2>2
<1> QED
  BY <1>2, <1>3, <1>5, <1>6, <1>7 DEF Inv

LEMMA InvalidCharacterInv ==
  ASSUME Inv, InvalidCharacter
  PROVE  Inv'
<1> DEFINE c == Outside
<1>1. /\ c \in Input /\ Consume(c) /\ CountLine(c) /\ result' = "invalid_character"
      /\ state' = state /\ lexeme' = lexeme
  BY DEF InvalidCharacter, Reject
<1>2. c = Outside
  OBVIOUS
<1> HIDE DEF c
<1>3. result = "reading"
  BY <1>1 DEF Consume, Read
<1>4. lexeme' \in Seq(Input) /\ Len(lexeme') <= MaxLexeme + 1
  BY <1>1 DEF Inv, Typed
<1>5. line' = LineAt(c) /\ line' \in 0..MaxSize + 1 /\ entry' = EntryAt(c)
  BY <1>1, <1>3, CountedLine
<1>6. LineAt(c) \in 1..MaxSize + 1
  BY <1>1, <1>3, ReadFacts DEF Consume
<1>7. line' = LineAt(c) - 0
  BY <1>5, <1>6
<1> QED
  BY <1>1, <1>2, <1>3, <1>4, <1>5, <1>7, Failing

LEMMA NextInv ==
  ASSUME Inv, [Next]_lexerVars
  PROVE  Inv'
<1>1. CASE UNCHANGED lexerVars
  <2>1. /\ state' = state /\ lexeme' = lexeme /\ line' = line /\ last' = last
        /\ back' = back /\ entry' = entry /\ result' = result /\ size' = size
        /\ text' = text /\ lines' = lines
    BY <1>1 DEF lexerVars
  <2>2. Typed' /\ Called' /\ Reading' /\ Returned' /\ Within'
    BY <2>1 DEF Inv, Typed, Called, Reading, Returned, Within, Rest
  <2>3. LongestMatch' /\ ErrorsAreErrors' /\ LineIsRight' /\ LexemeIsText' /\ EmptyEntry'
    BY <2>1 DEF Inv, LongestMatch, ErrorsAreErrors, LineIsRight, LexemeIsText, EmptyEntry, Rest
  <2> QED
    BY <2>2, <2>3 DEF Inv
<1>2. ASSUME NEW c \in Input \ {Outside},
             \/ Initial(c) \/ KeywordOrIdentifier(c)
             \/ TwoCharacters(c) \/ OneOrTwoCharacters(c)
             \/ DivisionOrCommentary(c) \/ InCommentary(c) \/ LeavingCommentary(c)
             \/ EnterCharConstant(c) \/ LeaveCharConstant(c) \/ StringConstant(c)
             \/ CharOrNumber(c) \/ EnterHexadecimalChar(c) \/ HexadecimalChar(c)
             \/ IntegerOrFloat(c) \/ StartFloat(c) \/ FloatConstant(c)
      PROVE  Inv'
  <2>1. result = "reading"
    BY <1>2 DEF Initial, KeywordOrIdentifier, TwoCharacters, OneOrTwoCharacters,
       DivisionOrCommentary, InCommentary, LeavingCommentary, EnterCharConstant,
       LeaveCharConstant, StringConstant, CharOrNumber, EnterHexadecimalChar,
       HexadecimalChar, IntegerOrFloat, StartFloat, FloatConstant, FirstCharacter,
       Skip, Keep, FoundAt, FoundBefore, Abort, Reject, RejectLineFeed, KeepAndReject,
       KeepAndFind, Consume, Read
  <2> QED
    BY <1>2, <2>1, InitialStep, KeywordOrIdentifierStep, TwoCharactersStep,
       OneOrTwoCharactersStep, DivisionOrCommentaryStep, InCommentaryStep,
       LeavingCommentaryStep, EnterCharConstantStep, LeaveCharConstantStep,
       StringConstantStep, CharOrNumberStep, EnterHexadecimalCharStep,
       HexadecimalCharStep, IntegerOrFloatStep, StartFloatStep, FloatConstantStep
<1>3. CASE Done
  BY <1>1, <1>3 DEF Done
<1> QED
  BY <1>1, <1>2, <1>3, NextCallInv, NextCallAtEndInv, EndOfFileInv, InvalidCharacterInv
     DEF Next

LEMMA SpecInv == Spec => []Inv
<1>1. Init => Inv
  BY InitInv
<1>2. Inv /\ [Next]_lexerVars => Inv'
  BY NextInv
<1> QED
  BY <1>1, <1>2, PTL DEF Spec

-----------------------------------------------------------------------------
(* Whatever the file and however long a lexeme may be, the lexer's         *)
(* variables have the values of their C types and nothing is written       *)
(* behind the buffer of MAX_LEXEME_SIZE + 1 bytes.                         *)
THEOREM TypeCorrect == Spec => []TypeOK
<1>1. Inv => TypeOK
  <2> SUFFICES ASSUME Inv PROVE TypeOK
    OBVIOUS
  <2>1. ASSUME NEW s \in Seq(Input) PROVE All(s, Input)
    BY LenProperties, ElementOfSeq DEF All
  <2>2. Len(back) <= 1 /\ All(back, Input)
    <3>1. CASE back = <<>>
      <4>1. back \in Seq(Input) /\ Len(back) = 0
        BY <3>1, EmptySeq
      <4>2. All(back, Input)
        BY <2>1, <4>1
      <4> QED
        BY <4>1, <4>2
    <3>2. CASE \E c \in Input \ {Outside} : back = <<c>>
      <4>1. PICK c \in Input \ {Outside} : back = <<c>>
        BY <3>2
      <4>2. back \in Seq(Input)
        BY <4>1, OneIsSeq
      <4>3. Len(back) = 1
        BY <4>1
      <4>4. All(back, Input)
        BY <2>1, <4>2
      <4> QED
        BY <4>3, <4>4
    <3> QED
      BY <3>1, <3>2 DEF Inv, Typed
  <2> QED
    BY <2>1, <2>2 DEF Inv, Typed, TypeOK, States
<1> QED
  BY <1>1, SpecInv, PTL

(* A token is found only where the language has that token, and it is the  *)
(* longest there: neither the character that was put back nor, when none   *)
(* was, any other would go on with it.                                     *)
THEOREM LongestMatchHolds == Spec => []LongestMatch
<1>1. Inv => LongestMatch
  BY DEF Inv
<1> QED
  BY <1>1, SpecInv, PTL

(* The lexer rejects only what cannot become a token or a comment, and     *)
(* complains about the end of the file only where one has begun.           *)
THEOREM ErrorsHold == Spec => []ErrorsAreErrors
<1>1. Inv => ErrorsAreErrors
  BY DEF Inv
<1> QED
  BY <1>1, SpecInv, PTL

(* The line that goes with a token or an error is that of its last         *)
(* character.                                                              *)
THEOREM LineHolds == Spec => []LineIsRight
<1>1. Inv => LineIsRight
  BY DEF Inv
<1> QED
  BY <1>1, SpecInv, PTL

(* The lexeme of a word or a constant is its text, and only a constant     *)
(* fills the buffer so that no NUL follows it.                             *)
THEOREM LexemeHolds == Spec => []LexemeIsText
<1>1. Inv => LexemeIsText
  BY DEF Inv
<1> QED
  BY <1>1, SpecInv, PTL

(* At the end of the file the entry is left as it was only when the last   *)
(* token ended with a character of its own.                                *)
THEOREM EmptyEntryHolds == Spec => []EmptyEntry
<1>1. Inv => EmptyEntry
  BY DEF Inv
<1> QED
  BY <1>1, SpecInv, PTL
=============================================================================
