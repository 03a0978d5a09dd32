--------------------------- MODULE RuntimeProofs ---------------------------
(***************************************************************************)
(* Runtime, for every set of variables and their addresses, every memory   *)
(* they are initialised with, everything that may be typed, every size of  *)
(* a string from eight bytes on, and any number of commands: the types,    *)
(* what numbers and words are read and written as, that reading one        *)
(* variable leaves the others alone, and that what was written is read     *)
(* back.                                                                   *)
(*                                                                         *)
(* There are three parts to it.  What a loop over characters computes is   *)
(* proved by induction over the characters (Smallest, Counting), for the   *)
(* register of read_int and the number side by side: Registered says how   *)
(* the two are related, and that a register whose number became too long   *)
(* is Invalid for good, or has the last bits of a number that begins with  *)
(* 2^32 to 2^32 + 3 (OneMore, DigitsRead).  What lies in a buffer is       *)
(* proved byte by byte (StoredBytes, Received, TextFound).  Inv then needs *)
(* no more than bytes, the two invariants themselves, and what a command   *)
(* leaves behind in the buffer for the next one (LeftBehind): read_logic   *)
(* compares eight bytes, and a word that was written is read back because  *)
(* write_logic stored eight.                                               *)
(***************************************************************************)
EXTENDS ReadWrite, SequenceTheorems, FiniteSetTheorems, WellFoundedInduction, TLAPS

-----------------------------------------------------------------------------
(* Numbers, and functions by recursion on them.                            *)

LessThan == {ss \in Nat \X Nat : ss[1] < ss[2]}

LEMMA Smallest ==
  ASSUME NEW T, T \subseteq Nat, T # {}
  PROVE  \E x \in T : \A y \in T : x <= y
<1>1. IsWellFoundedOn(LessThan, Nat)
  BY NatLessThanWellFounded DEF OpToRel, LessThan
<1>2. \E x \in T : \A y \in T : ~ (<<y, x>> \in LessThan)
  BY <1>1, WFMin
<1>3. PICK x \in T : \A y \in T : ~ (<<y, x>> \in LessThan)
  BY <1>2
<1>4. ASSUME NEW y \in T PROVE x <= y
  <2>1. x \in Nat /\ y \in Nat /\ <<y, x>> \notin LessThan
    BY <1>3
  <2>2. ~(y < x)
    BY <2>1 DEF LessThan
  <2> QED
    BY <2>1, <2>2
<1> QED
  BY <1>4

(* A set of numbers with 0 and, up to n, the next of each of its own.      *)
LEMMA Counting ==
  ASSUME NEW n \in Nat, NEW T, 0 \in T,
         \A i \in 1..n : i - 1 \in T => i \in T
  PROVE  0..n \subseteq T
<1> SUFFICES ASSUME ~(0..n \subseteq T) PROVE FALSE
  OBVIOUS
<1> DEFINE U == {i \in 0..n : i \notin T}
<1>1. U \subseteq Nat /\ U # {}
  OBVIOUS
<1>2. PICK x \in U : \A y \in U : x <= y
  BY <1>1, Smallest
<1>3. x \in 1..n /\ x \notin T
  OBVIOUS
<1>4. x - 1 \in 0..n /\ ~(x <= x - 1)
  BY <1>3
<1>5. x - 1 \in T
  BY <1>2, <1>4
<1> QED
  BY <1>3, <1>5

Recursion(f, n, x, G) ==
  f = [i \in 0..n |-> IF i = 0 THEN x ELSE G[i][f[i - 1]]]

LEMMA RecursionExists ==
  ASSUME NEW S, NEW n \in Nat, NEW x \in S, NEW G \in [1..n -> [S -> S]]
  PROVE  \E f \in [0..n -> S] : Recursion(f, n, x, G)
<1> DEFINE T == {m \in 0..n : \E f \in [0..m -> S] : Recursion(f, m, x, G)}
<1>1. 0 \in T
  <2> DEFINE f == [i \in 0..0 |-> x]
  <2>1. f \in [0..0 -> S] /\ Recursion(f, 0, x, G)
    BY DEF Recursion
  <2> QED
    BY <2>1
<1>2. ASSUME NEW m \in 1..n, m - 1 \in T PROVE m \in T
  <2>1. PICK f \in [0..m - 1 -> S] : Recursion(f, m - 1, x, G)
    BY <1>2
  <2> DEFINE g == [i \in 0..m |-> IF i = m THEN G[m][f[m - 1]] ELSE f[i]]
  <2>2. m - 1 \in 0..m - 1 /\ f[m - 1] \in S
    OBVIOUS
  <2>3. G[m][f[m - 1]] \in S
    BY <2>2
  <2>4. g \in [0..m -> S]
    BY <2>3
  <2>5. ASSUME NEW i \in 0..m PROVE g[i] = IF i = 0 THEN x ELSE G[i][g[i - 1]]
    <3>1. CASE i = m
      <4>1. g[m - 1] = f[m - 1]
        OBVIOUS
      <4> QED
        BY <3>1, <4>1
    <3>2. CASE i # m /\ i # 0
      <4>1. i \in 0..m - 1 /\ i - 1 \in 0..m - 1
        BY <3>2
      <4>2. f[i] = G[i][f[i - 1]]
        BY <2>1, <3>2, <4>1 DEF Recursion
      <4>3. g[i] = f[i] /\ g[i - 1] = f[i - 1]
        BY <4>1
      <4> QED
        BY <3>2, <4>2, <4>3
    <3>3. CASE i # m /\ i = 0
      BY <2>1, <3>3 DEF Recursion
    <3> QED
      BY <3>1, <3>2, <3>3
  <2> HIDE DEF g
  <2>6. Recursion(g, m, x, G)
    BY <2>4, <2>5 DEF Recursion
  <2> QED
    BY <2>4, <2>6
<1> HIDE DEF T
<1>3. 0..n \subseteq T
  BY <1>1, <1>2, Counting
<1>4. n \in T
  BY <1>3
<1> QED
  BY <1>4 DEF T

-----------------------------------------------------------------------------
(* Numerals.                                                               *)

LEMMA BeginningsAre ==
  ASSUME NEW s \in Seq(Digits)
  PROVE  LET b == Beginnings(s)
         IN /\ Len(s) \in Nat /\ b \in [0..Len(s) -> Nat] /\ b[0] = 0
            /\ \A i \in 1..Len(s) : b[i] = 10 * b[i - 1] + s[i] - Zero
<1> DEFINE n == Len(s)
           G == [i \in 1..n |-> [m \in Nat |-> 10 * m + s[i] - Zero]]
           value == CHOOSE value : value = [i \in 0..Len(s) |->
                      IF i = 0 THEN 0 ELSE 10 * value[i - 1] + s[i] - Zero]
<1>1. n \in Nat /\ \A i \in 1..n : s[i] \in Digits
  BY ElementOfSeq
<1>2. \A i \in 1..n : s[i] \in Int /\ s[i] >= Zero
  BY <1>1 DEF Digits, Zero
<1>3. \A i \in 1..n : \A m \in Nat : 10 * m + s[i] - Zero \in Nat
  BY <1>2 DEF Zero
<1>4. G \in [1..n -> [Nat -> Nat]]
  BY <1>3
<1>5. PICK f \in [0..n -> Nat] : Recursion(f, n, 0, G)
  BY <1>1, <1>4, RecursionExists
<1>6. \A i \in 1..n : G[i][f[i - 1]] = 10 * f[i - 1] + s[i] - Zero
  <2>1. \A i \in 1..n : i - 1 \in 0..n
    BY <1>1
  <2> QED
    BY <2>1
<1>7. f = [i \in 0..n |-> IF i = 0 THEN 0 ELSE 10 * f[i - 1] + s[i] - Zero]
  <2> HIDE DEF G
  <2>1. \A i \in 0..n : f[i] = IF i = 0 THEN 0 ELSE 10 * f[i - 1] + s[i] - Zero
    BY <1>1, <1>5, <1>6 DEF Recursion
  <2> QED
    BY <2>1
<1>8. value = [i \in 0..Len(s) |-> IF i = 0 THEN 0 ELSE 10 * value[i - 1] + s[i] - Zero]
  BY <1>7, Zenon
<1>9. Beginnings(s) = value
  BY Zenon DEF Beginnings
<1> HIDE DEF value, G
<1> DEFINE b == Beginnings(s)
<1>10. b = [i \in 0..n |-> IF i = 0 THEN 0 ELSE 10 * b[i - 1] + s[i] - Zero]
  BY <1>8, <1>9
<1> HIDE DEF b, n
<1>11. b[0] = 0 /\ \A i \in 1..n : b[i] = 10 * b[i - 1] + s[i] - Zero
  BY <1>1, <1>10
<1>12. 0..n \subseteq {i \in 0..n : b[i] \in Nat}
  <2> DEFINE T == {i \in 0..n : b[i] \in Nat}
  <2>1. 0 \in T
    BY <1>1, <1>11
  <2>2. ASSUME NEW i \in 1..n, i - 1 \in T PROVE i \in T
    BY <1>1, <1>3, <1>11, <2>2
  <2> HIDE DEF T
  <2> QED
    BY <1>1, <2>1, <2>2, Counting DEF T
<1>13. b \in [0..n -> Nat]
  BY <1>10, <1>12
<1> QED
  BY <1>1, <1>11, <1>13 DEF b, n

-----------------------------------------------------------------------------
(* read_int.                                                               *)

Values == 0..Word

LEMMA OneDigit ==
  ASSUME NEW w \in Values, NEW c \in Byte
  PROVE  /\ AppendDigit(w, c) \in Values
         /\ AppendDigit(w, c) # Invalid <=> w \in 0..25
         /\ w \in 0..25 => AppendDigit(w, c) = (10 * w + c - Zero) % Word
<1> USE DEF Values, Byte, Word, Invalid, Zero, Least
<1>1. CASE w = Word
  BY <1>1 DEF AppendDigit
<1>2. CASE w \in 128..255
  <2>1. Signed(w) = w - 256 /\ Signed(w) * 10 < 0
    BY <1>2 DEF Signed
  <2>2. TimesTen(w) = Invalid
    BY <2>1 DEF TimesTen
  <2> QED
    BY <1>2, <2>2 DEF AppendDigit
<1>3. CASE w \in 0..127
  <2>1. Signed(w) = w
    BY <1>3 DEF Signed
  <2>2. TimesTen(w) = IF w \in 0..25 THEN 10 * w ELSE Invalid
    BY <1>3, <2>1 DEF TimesTen
  <2>3. CASE w \in 0..25
    <3>1. 10 * w # Invalid /\ w # Invalid
      BY <2>3
    <3>2. AppendDigit(w, c) = (10 * w + c - 48) % 256
      BY <2>2, <2>3, <3>1 DEF AppendDigit, AddDigit
    <3>3. 10 * w + c - 48 \in Int
      BY <2>3
    <3>4. (10 * w + c - 48) % 256 \in 0..255
      BY <3>3
    <3> QED
      BY <2>3, <3>2, <3>4
  <2>4. CASE w \notin 0..25
    BY <2>2, <2>4, <1>3 DEF AppendDigit
  <2> QED
    BY <2>3, <2>4
<1> QED
  BY <1>1, <1>2, <1>3

LEMMA AccumulatedAre ==
  ASSUME NEW s \in Seq(Byte)
  PROVE  LET a == Accumulated(s)
         IN /\ Len(s) \in Nat /\ a \in [0..Len(s) -> Values] /\ a[0] = 0
            /\ \A i \in 1..Len(s) : a[i] = AppendDigit(a[i - 1], s[i])
<1> DEFINE n == Len(s)
           G == [i \in 1..n |-> [m \in Values |-> AppendDigit(m, s[i])]]
           value == CHOOSE value : value = [i \in 0..Len(s) |->
                      IF i = 0 THEN 0 ELSE AppendDigit(value[i - 1], s[i])]
<1>1. n \in Nat /\ \A i \in 1..n : s[i] \in Byte
  BY ElementOfSeq
<1>3. \A i \in 1..n : \A m \in Values : AppendDigit(m, s[i]) \in Values
  BY <1>1, OneDigit
<1>4. G \in [1..n -> [Values -> Values]]
  BY <1>3
<1>5. 0 \in Values
  BY DEF Values, Word
<1>6. PICK f \in [0..n -> Values] : Recursion(f, n, 0, G)
  BY <1>1, <1>4, <1>5, RecursionExists
<1>7. \A i \in 1..n : G[i][f[i - 1]] = AppendDigit(f[i - 1], s[i])
  <2>1. \A i \in 1..n : i - 1 \in 0..n
    BY <1>1
  <2> QED
    BY <2>1
<1>8. f = [i \in 0..n |-> IF i = 0 THEN 0 ELSE AppendDigit(f[i - 1], s[i])]
  <2> HIDE DEF G
  <2>1. \A i \in 0..n : f[i] = IF i = 0 THEN 0 ELSE AppendDigit(f[i - 1], s[i])
    BY <1>1, <1>6, <1>7, SMTT(30) DEF Recursion
  <2> QED
    BY <2>1
<1>9. value = [i \in 0..Len(s) |-> IF i = 0 THEN 0 ELSE AppendDigit(value[i - 1], s[i])]
  BY <1>8, Zenon
<1>10. Accumulated(s) = value
  BY Zenon DEF Accumulated
<1> HIDE DEF value, G
<1> DEFINE a == Accumulated(s)
<1>11. a = [i \in 0..n |-> IF i = 0 THEN 0 ELSE AppendDigit(a[i - 1], s[i])]
  BY <1>9, <1>10
<1> HIDE DEF a, n
<1>12. a[0] = 0 /\ \A i \in 1..n : a[i] = AppendDigit(a[i - 1], s[i])
  BY <1>1, <1>11
<1>13. 0..n \subseteq {i \in 0..n : a[i] \in Values}
  <2> DEFINE T == {i \in 0..n : a[i] \in Values}
  <2>1. 0 \in T
    BY <1>1, <1>5, <1>12
  <2>2. ASSUME NEW i \in 1..n, i - 1 \in T PROVE i \in T
    BY <1>1, <1>3, <1>12, <2>2
  <2> HIDE DEF T
  <2> QED
    BY <1>1, <2>1, <2>2, Counting DEF T
<1>14. a \in [0..n -> Values]
  BY <1>11, <1>13
<1> QED
  BY <1>1, <1>12, <1>14 DEF a, n

(* What the register has of the number that was read so far.               *)
Registered(w, p, begins) ==
  /\ p < Word + 4 => w # Invalid
  /\ w # Invalid => (w - p) % Word = 0 /\ (p < Word + 4 \/ begins)

LEMMA OneMore ==
  ASSUME NEW w \in Values, NEW p \in Nat, NEW c \in Digits,
         NEW begins \in BOOLEAN, Registered(w, p, begins)
  PROVE  Registered(AppendDigit(w, c), 10 * p + c - Zero,
                    begins \/ p \in Word .. Word + 3)
<1> USE DEF Word, Zero
<1> DEFINE v == AppendDigit(w, c)
           q == 10 * p + c - 48
<1>1. c \in 48..57 /\ c \in Byte
  BY DEF Digits, Byte
<1>2. /\ v # Invalid <=> w \in 0..25
      /\ w \in 0..25 => v = (10 * w + c - 48) % 256
  BY <1>1, OneDigit
<1> HIDE DEF v
<1>3. ASSUME q < 260 PROVE v # Invalid
  <2>1. p \in 0..25
    BY <1>1, <1>3
  <2>2. w # Invalid /\ w \in 0..255
    BY <2>1 DEF Registered, Values, Invalid
  <2>3. (w - p) % 256 = 0
    BY <2>2 DEF Registered
  <2>4. w = p
    BY <2>1, <2>2, <2>3
  <2> QED
    BY <1>2, <2>1, <2>4
<1>4. ASSUME v # Invalid
      PROVE  (v - q) % 256 = 0 /\ (q < 260 \/ begins \/ p \in 256..259)
  <2>1. w \in 0..25 /\ w # Invalid
    BY <1>2, <1>4 DEF Invalid
  <2>2. (w - p) % 256 = 0 /\ (p < 260 \/ begins)
    BY <2>1 DEF Registered
  <2>3. PICK k \in Int : w = p + 256 * k
    <3>1. w - p \in Int
      BY <2>1
    <3> DEFINE d == (w - p) \div 256
    <3>2. w - p = 256 * d /\ d \in Int
      BY <2>2, <3>1
    <3> HIDE DEF d
    <3>3. w = p + 256 * d
      BY <2>1, <3>2
    <3> QED
      BY <3>2, <3>3
  <2>4. v = (10 * w + c - 48) % 256
    BY <1>2, <2>1
  <2>5. PICK j \in Int : v = 10 * w + c - 48 + 256 * j
    <3> DEFINE x == 10 * w + c - 48
    <3>1. x \in Int
      BY <1>1, <2>1
    <3>2. v = x % 256
      BY <2>4
    <3> HIDE DEF x
    <3> DEFINE d == x \div 256
    <3>3. x = 256 * d + v /\ d \in Int
      BY <3>1, <3>2
    <3> HIDE DEF d
    <3>4. v \in Int /\ -d \in Int /\ v = x + 256 * (-d)
      BY <3>1, <3>2, <3>3
    <3> QED
      BY <3>4 DEF x
  <2>6. v - q = 256 * (10 * k + j)
    BY <1>1, <2>1, <2>3, <2>5
  <2>7. (v - q) % 256 = 0
    BY <2>6
  <2>8. p < 260 => q < 260 \/ p \in 256..259
    BY <1>1, <2>1, <2>2
  <2> QED
    BY <2>2, <2>7, <2>8
<1> HIDE DEF q
<1>5. Registered(v, q, begins \/ p \in 256..259)
  BY <1>3, <1>4 DEF Registered
<1> QED
  BY <1>5 DEF v, q

(* What read_int makes of a numeral without a sign.                        *)
LEMMA DigitsRead ==
  ASSUME NEW s \in Seq(Digits)
  PROVE  LET w == Accumulated(s)[Len(s)]
             b == Beginnings(s)
         IN /\ w \in Values /\ Natural(s) \in Nat
            /\ Registered(w, Natural(s), \E i \in DOMAIN b : b[i] \in Word .. Word + 3)
<1> DEFINE n == Len(s)
           a == Accumulated(s)
           b == Beginnings(s)
           Begins(m) == \E i \in 0..m - 1 : b[i] \in Word .. Word + 3
           T == {m \in 0..n : Registered(a[m], b[m], Begins(m))}
<1>1. s \in Seq(Byte)
  BY DEF Digits, Byte, Zero
<1>2. /\ n \in Nat /\ a \in [0..n -> Values] /\ b \in [0..n -> Nat]
      /\ a[0] = 0 /\ b[0] = 0
      /\ \A i \in 1..n : a[i] = AppendDigit(a[i - 1], s[i])
      /\ \A i \in 1..n : b[i] = 10 * b[i - 1] + s[i] - Zero
  BY <1>1, AccumulatedAre, BeginningsAre
<1>3. \A i \in 1..n : s[i] \in Digits
  BY ElementOfSeq
<1> HIDE DEF n, a, b
<1>4. 0 \in T
  <2> HIDE DEF Begins
  <2>1. Registered(0, 0, Begins(0))
    BY DEF Registered, Word, Invalid
  <2>2. Registered(a[0], b[0], Begins(0)) /\ 0 \in 0..n
    BY <1>2, <2>1
  <2> QED
    BY <2>2
<1>5. ASSUME NEW m \in 1..n, m - 1 \in T PROVE m \in T
  <2>1. m - 1 \in 0..n /\ a[m - 1] \in Values /\ b[m - 1] \in Nat
    BY <1>2
  <2>2. Registered(a[m - 1], b[m - 1], Begins(m - 1))
    BY <1>5
  <2>3. Registered(a[m], b[m], Begins(m - 1) \/ b[m - 1] \in Word .. Word + 3)
    <3> HIDE DEF Begins
    <3> DEFINE e == Begins(m - 1)
    <3>1. (e = TRUE \/ e = FALSE)
      BY DEF Begins
    <3> HIDE DEF e
    <3>2. Registered(AppendDigit(a[m - 1], s[m]), 10 * b[m - 1] + s[m] - Zero,
                    e \/ b[m - 1] \in Word .. Word + 3)
      BY <1>3, <2>1, <2>2, <3>1, OneMore DEF e
    <3> QED
      BY <1>2, <3>2 DEF e
  <2>4. Begins(m - 1) \/ b[m - 1] \in Word .. Word + 3 => Begins(m)
    BY <1>2
  <2> HIDE DEF Begins
  <2>5. Registered(a[m], b[m], Begins(m))
    BY <2>3, <2>4 DEF Registered
  <2> QED
    BY <2>5
<1> HIDE DEF T
<1>6. 0..n \subseteq T
  BY <1>2, <1>4, <1>5, Counting
<1>7. n \in 0..n
  BY <1>2
<1>8. Registered(a[n], b[n], Begins(n))
  BY <1>6, <1>7 DEF T
<1>9. Begins(n) => \E i \in DOMAIN b : b[i] \in Word .. Word + 3
  BY <1>2
<1> HIDE DEF Begins
<1>10. Registered(a[n], b[n], \E i \in DOMAIN b : b[i] \in Word .. Word + 3)
  BY <1>8, <1>9 DEF Registered
<1>11. Natural(s) = b[n] /\ b[n] \in Nat /\ a[n] \in Values
  BY <1>2, <1>7 DEF Natural, b, n
<1> QED
  BY <1>10, <1>11 DEF a, b, n

-----------------------------------------------------------------------------
(* Texts.                                                                  *)

LEMMA Appended ==
  ASSUME NEW S, NEW s \in Seq(S), NEW c \in S
  PROVE  LET t == Append(s, c)
         IN /\ t \in Seq(S) /\ Len(t) = Len(s) + 1 /\ Len(s) \in Nat /\ t # <<>>
            /\ \A i \in 1..Len(s) : t[i] = s[i]
            /\ t[Len(s) + 1] = c
            /\ \A i \in 1..Len(s) : s[i] \in S
            /\ \A i \in 1..Len(t) : t[i] \in S
<1>1. Len(s) \in Nat /\ \A i \in 1..Len(s) : s[i] \in S
  BY LenProperties, ElementOfSeq
<1>2. Append(s, c) \in Seq(S)
  BY AppendProperties
<1>3. \A i \in 1..Len(Append(s, c)) : Append(s, c)[i] \in S
  BY <1>2, ElementOfSeq
<1> QED
  BY <1>1, <1>3, AppendProperties

LEMMA Front ==
  ASSUME NEW S, NEW s \in Seq(S), NEW k \in 0..Len(s)
  PROVE  LET p == SubSeq(s, 1, k)
         IN /\ p \in Seq(S) /\ Len(p) = k /\ k \in Nat
            /\ \A i \in 1..k : p[i] = s[i]
<1>1. Len(s) \in Nat /\ \A i \in 1..Len(s) : s[i] \in S
  BY LenProperties, ElementOfSeq
<1>2. k \in Int /\ 1 \in Int /\ \A i \in 1..k : s[i] \in S
  BY <1>1
<1> DEFINE p == SubSeq(s, 1, k)
<1>3. /\ p \in Seq(S)
      /\ Len(p) = IF 1 <= k THEN k - 1 + 1 ELSE 0
      /\ \A i \in 1..(k - 1 + 1) : p[i] = s[1 + i - 1]
  BY <1>2, SubSeqProperties
<1> HIDE DEF p
<1>4. Len(p) = k
  BY <1>1, <1>3
<1> QED
  BY <1>1, <1>3, <1>4 DEF p

LEMMA FrontOfMore ==
  ASSUME NEW S, NEW s \in Seq(S), NEW c \in S
  PROVE  SubSeq(Append(s, c), 1, Len(Append(s, c)) - 1) = s
<1> DEFINE t == Append(s, c)
           n == Len(s)
           p == SubSeq(t, 1, n)
<1>1. /\ t \in Seq(S) /\ Len(t) = n + 1 /\ n \in Nat
      /\ \A i \in 1..n : t[i] = s[i]
  BY Appended
<1> HIDE DEF t
<1>2. n \in 0..Len(t) /\ Len(t) - 1 = n
  BY <1>1
<1>3. p \in Seq(S) /\ Len(p) = n /\ \A i \in 1..n : p[i] = t[i]
  BY <1>1, <1>2, Front
<1> HIDE DEF p
<1>4. p = s
  BY <1>1, <1>3, SeqEqual
<1> QED
  BY <1>2, <1>4 DEF t, p

LEMMA BytesAreSeq ==
  ASSUME NEW S, NEW n \in Nat, NEW f \in [1..n -> S]
  PROVE  f \in Seq(S) /\ Len(f) = n
<1>1. f \in Seq(S)
  BY SeqDef
<1>2. DOMAIN f = 1..Len(f) /\ Len(f) \in Nat /\ DOMAIN f = 1..n
  BY <1>1, LenProperties
<1> QED
  BY <1>1, <1>2

-----------------------------------------------------------------------------
(* Bytes in memory.                                                        *)

LEMMA StoredBytes ==
  ASSUME NEW space, NEW address \in Int, NEW bytes \in Seq(Byte),
         DOMAIN space \subseteq Int, space \in [DOMAIN space -> Byte]
  PROVE  LET m == Stored(space, address, bytes)
         IN /\ m \in [DOMAIN space -> Byte] /\ DOMAIN m = DOMAIN space
            /\ \A i \in 1..Len(bytes) :
                 address + i - 1 \in DOMAIN space => m[address + i - 1] = bytes[i]
            /\ \A a \in DOMAIN space :
                 a \notin address..address + Len(bytes) - 1 => m[a] = space[a]
<1> DEFINE D == DOMAIN space
           n == Len(bytes)
           m == [a \in D |-> IF a \in address .. address + n - 1
                             THEN bytes[a - address + 1] ELSE space[a]]
<1>1. n \in Nat /\ \A i \in 1..n : bytes[i] \in Byte
  BY LenProperties, ElementOfSeq
<1>2. Stored(space, address, bytes) = m
  BY DEF Stored
<1> HIDE DEF n
<1>3. \A a \in D : a \in address..address + n - 1 => a - address + 1 \in 1..n
  BY <1>1
<1>4. m \in [D -> Byte]
  BY <1>1, <1>3
<1>5. ASSUME NEW i \in 1..n, address + i - 1 \in D
      PROVE  m[address + i - 1] = bytes[i]
  <2>1. address + i - 1 \in address..address + n - 1 /\ (address + i - 1) - address + 1 = i
    BY <1>1
  <2> QED
    BY <1>5, <2>1
<1>6. \A a \in D : a \notin address..address + n - 1 => m[a] = space[a]
  OBVIOUS
<1> HIDE DEF m
<1> QED
  BY <1>2, <1>4, <1>5, <1>6 DEF n

(* A loop that stops at a NUL stops at the first.                          *)
Stops(space, address, k) == address + k \notin DOMAIN space \/ space[address + k] = NUL

LEMMA TextIs ==
  ASSUME NEW m \in 0..MemSize + BufferSize + 2, NEW space \in [0..m - 1 -> Byte],
         NEW address \in Nat
  PROVE  LET t == TextAt(space, address)
         IN /\ t \in Seq(Byte) /\ Len(t) \in Nat
            /\ Stops(space, address, Len(t))
            /\ \A i \in 1..Len(t) : /\ address + i - 1 \in 0..m - 1
                                    /\ t[i] = space[address + i - 1] /\ t[i] # NUL
            /\ \A k \in Nat : Stops(space, address, k) => Len(t) <= k
<1> DEFINE b == MemSize + BufferSize + 2
           ends == {n \in 0..b :
                      address + n \notin DOMAIN space \/ space[address + n] = NUL}
           l == LengthAt(space, address)
<1>1. StringSize \in Nat /\ MemSize \in Nat /\ b \in Nat /\ m \in 0..b
  BY SizesAssumption DEF BufferSize
<1> HIDE DEF b
<1>2. m \in ends
  BY <1>1
<1>3. ends \subseteq Nat /\ ends # {}
  <2>1. ends \subseteq Nat
    BY <1>1
  <2> HIDE DEF ends
  <2> QED
    BY <1>2, <2>1
<1>4. l = CHOOSE n \in ends : \A k \in ends : n <= k
  BY DEF LengthAt, b
<1> HIDE DEF l
<1>5. l \in ends /\ \A k \in ends : l <= k
  <2>1. \E n \in ends : \A k \in ends : n <= k
    BY <1>3, Smallest
  <2> QED
    BY <1>4, <2>1
<1>6. l \in Nat /\ l <= m /\ Stops(space, address, l)
  BY <1>1, <1>2, <1>5 DEF Stops
<1>7. ASSUME NEW k \in Nat, Stops(space, address, k) PROVE l <= k
  <2>1. CASE k \in 0..b
    BY <1>5, <1>7, <2>1 DEF Stops
  <2>2. CASE k \notin 0..b
    BY <1>1, <1>6, <2>2
  <2> QED
    BY <2>1, <2>2
<1>8. ASSUME NEW i \in 1..l
      PROVE  address + i - 1 \in 0..m - 1 /\ space[address + i - 1] # NUL
             /\ space[address + i - 1] \in Byte
  <2>1. i - 1 \in Nat /\ ~(l <= i - 1) /\ address + (i - 1) = address + i - 1
    BY <1>6
  <2>2. ~Stops(space, address, i - 1)
    BY <1>7, <2>1
  <2>3. address + i - 1 \in DOMAIN space /\ space[address + i - 1] # NUL
    BY <2>1, <2>2 DEF Stops
  <2> QED
    BY <2>3
<1> DEFINE t == [i \in 1..l |-> space[address + i - 1]]
<1>9. TextAt(space, address) = t
  BY DEF TextAt, BytesAt, l
<1>10. t \in [1..l -> Byte]
  BY <1>8
<1>11. t \in Seq(Byte) /\ Len(t) = l
  BY <1>6, <1>10, BytesAreSeq
<1>12. \A i \in 1..l : t[i] = space[address + i - 1]
  OBVIOUS
<1> HIDE DEF t
<1> QED
  BY <1>6, <1>7, <1>8, <1>9, <1>11, <1>12

(* A text and its NUL in memory are found.                                 *)
LEMMA TextFound ==
  ASSUME NEW m \in 0..MemSize + BufferSize + 2, NEW space \in [0..m - 1 -> Byte],
         NEW address \in Nat, NEW text \in Seq(Byte),
         Stops(space, address, Len(text)),
         \A i \in 1..Len(text) : /\ address + i - 1 \in 0..m - 1
                                 /\ space[address + i - 1] = text[i] /\ text[i] # NUL
  PROVE  TextAt(space, address) = text
<1> DEFINE t == TextAt(space, address)
<1>1. /\ t \in Seq(Byte) /\ Len(t) \in Nat
      /\ Stops(space, address, Len(t))
      /\ \A i \in 1..Len(t) : t[i] = space[address + i - 1]
      /\ \A k \in Nat : Stops(space, address, k) => Len(t) <= k
  BY TextIs
<1>2. Len(text) \in Nat
  BY LenProperties
<1> HIDE DEF t
<1>3. Len(t) <= Len(text)
  BY <1>1, <1>2
<1>4. ~(Len(t) < Len(text))
  <2> SUFFICES ASSUME Len(t) < Len(text) PROVE FALSE
    OBVIOUS
  <2> DEFINE i == Len(t) + 1
  <2>1. i \in 1..Len(text) /\ address + i - 1 = address + Len(t)
    BY <1>1, <1>2
  <2> HIDE DEF i
  <2>2. address + i - 1 \in DOMAIN space /\ space[address + i - 1] # NUL
    BY <2>1
  <2> QED
    BY <1>1, <2>1, <2>2 DEF Stops
<1>5. Len(t) = Len(text)
  BY <1>1, <1>2, <1>3, <1>4
<1>6. \A i \in 1..Len(t) : t[i] = text[i]
  BY <1>1, <1>5
<1>7. t = text
  BY <1>1, <1>5, <1>6, SeqEqual
<1> QED
  BY <1>7 DEF t

-----------------------------------------------------------------------------
(* What is received.                                                       *)

Taken(typed) == IF Len(typed) < BufferSize THEN Len(typed) ELSE BufferSize

LEMMA Sizes ==
  /\ StringSize \in Nat /\ StringSize >= 8 /\ BufferSize = StringSize + 1
  /\ BufferSize \in Nat /\ MemSize \in Nat /\ TmpAddresses = 0..BufferSize + 1
  /\ TmpAddresses = 0..(BufferSize + 2) - 1
  /\ BufferSize + 2 \in 0..MemSize + BufferSize + 2
  /\ Addresses = 0..MemSize - 1 /\ MemSize \in 0..MemSize + BufferSize + 2
BY SizesAssumption DEF BufferSize, TmpAddresses, Addresses

LEMMA Received ==
  ASSUME NEW typed \in Seq(Byte), tmp \in [TmpAddresses -> Byte]
  PROVE  LET b == BufferAfter(typed)
             n == Taken(typed)
         IN /\ b \in [TmpAddresses -> Byte] /\ Len(typed) \in Nat
            /\ typed = <<>> => b = tmp
            /\ typed # <<>> =>
                 /\ n \in 1..BufferSize /\ n <= Len(typed)
                 /\ \A a \in 0..n - 2 : b[a] = typed[a + 1]
                 /\ b[n - 1] = NUL
                 /\ \A a \in n..BufferSize + 1 : b[a] = tmp[a]
<1> DEFINE n == Taken(typed)
           b == BufferAfter(typed)
           part == SubSeq(typed, 1, n - 1)
           bytes == Append(part, NUL)
<1>1. Len(typed) \in Nat /\ (typed # <<>> => Len(typed) # 0)
  BY EmptySeq, LenProperties
<1>2. n \in Nat /\ n <= Len(typed) /\ n <= BufferSize /\ (typed # <<>> => n # 0)
  BY <1>1, Sizes DEF Taken
<1>3. b = IF n = 0 THEN tmp ELSE Stored(tmp, 0, bytes)
  BY DEF BufferAfter, Taken
<1>4. typed = <<>> => n = 0
  BY <1>1, EmptySeq, Sizes DEF Taken
<1> HIDE DEF n, b
<1>5. CASE n = 0
  BY <1>1, <1>2, <1>3, <1>5 DEF n, b
<1>6. CASE n # 0
  <2>1. n - 1 \in 0..Len(typed) /\ typed # <<>> /\ n \in 1..BufferSize
    BY <1>1, <1>2, <1>4, <1>6
  <2>2. part \in Seq(Byte) /\ Len(part) = n - 1 /\ \A i \in 1..n - 1 : part[i] = typed[i]
    BY <2>1, Front
  <2> HIDE DEF part
  <2>3. NUL \in Byte
    BY DEF NUL, Byte
  <2>4. /\ bytes \in Seq(Byte) /\ Len(bytes) = n
        /\ \A i \in 1..n - 1 : bytes[i] = typed[i]
        /\ bytes[n] = NUL
    <3>1. /\ bytes \in Seq(Byte) /\ Len(bytes) = n - 1 + 1
          /\ \A i \in 1..n - 1 : bytes[i] = part[i]
          /\ bytes[n - 1 + 1] = NUL
      BY <2>2, <2>3, Appended
    <3> HIDE DEF bytes
    <3> QED
      BY <1>2, <2>2, <3>1
  <2> HIDE DEF bytes
  <2>5. b = Stored(tmp, 0, bytes) /\ TmpAddresses \subseteq Int
    BY <1>3, <1>6, Sizes
  <2>6. /\ b \in [TmpAddresses -> Byte]
        /\ \A i \in 1..n : 0 + i - 1 \in TmpAddresses => b[0 + i - 1] = bytes[i]
        /\ \A a \in TmpAddresses : a \notin 0..0 + n - 1 => b[a] = tmp[a]
    <3>1. DOMAIN tmp = TmpAddresses /\ DOMAIN tmp \subseteq Int
      BY <2>5
    <3> DEFINE z == 0
               m == Stored(tmp, z, bytes)
    <3>2. tmp \in [DOMAIN tmp -> Byte] /\ z \in Int /\ b = m
      BY <2>5, <3>1
    <3> HIDE DEF z
    <3>3. /\ m \in [DOMAIN tmp -> Byte] /\ DOMAIN m = DOMAIN tmp
          /\ \A i \in 1..Len(bytes) :
               z + i - 1 \in DOMAIN tmp => m[z + i - 1] = bytes[i]
          /\ \A a \in DOMAIN tmp : a \notin z..z + Len(bytes) - 1 => m[a] = tmp[a]
      BY <2>4, <3>1, <3>2, StoredBytes, Zenon
    <3> HIDE DEF m
    <3> QED
      BY <2>4, <3>1, <3>2, <3>3 DEF z
  <2>7. \A a \in 0..n - 1 : b[a] = bytes[a + 1]
    <3> TAKE a \in 0..n - 1
    <3>1. a + 1 \in 1..n /\ 0 + (a + 1) - 1 = a /\ a \in TmpAddresses
      BY <1>2, <2>1, Sizes
    <3> QED
      BY <2>6, <3>1
  <2>8. \A a \in 0..n - 2 : b[a] = typed[a + 1]
    <3> TAKE a \in 0..n - 2
    <3>1. a \in 0..n - 1 /\ a + 1 \in 1..n - 1
      BY <1>2
    <3> QED
      BY <2>4, <2>7, <3>1
  <2>9. b[n - 1] = NUL
    <3>1. n - 1 \in 0..n - 1 /\ n - 1 + 1 = n
      BY <1>2, <2>1
    <3> QED
      BY <2>4, <2>7, <3>1
  <2>10. \A a \in n..BufferSize + 1 : b[a] = tmp[a]
    <3> TAKE a \in n..BufferSize + 1
    <3>1. a \in TmpAddresses /\ a \notin 0..0 + n - 1
      BY <1>2, Sizes
    <3> QED
      BY <2>6, <3>1
  <2> QED
    BY <1>1, <1>2, <2>1, <2>6, <2>8, <2>9, <2>10 DEF b, n
<1> QED
  BY <1>5, <1>6

(* A line without a NUL that fits into a string is received as it is.      *)
LEMMA LineReceived ==
  ASSUME tmp \in [TmpAddresses -> Byte], NEW line \in Seq(Byte),
         \A i \in 1..Len(line) : line[i] # NUL, Len(line) <= StringSize
  PROVE  TextAt(BufferAfter(Append(line, LF)), 0) = line
<1> DEFINE typed == Append(line, LF)
           b == BufferAfter(typed)
           n == Len(line)
<1>1. LF \in Byte
  BY DEF LF, Byte
<1>2. /\ typed \in Seq(Byte) /\ Len(typed) = n + 1 /\ n \in Nat /\ typed # <<>>
      /\ \A i \in 1..n : typed[i] = line[i]
  BY <1>1, Appended
<1> HIDE DEF typed, n
<1>3. Taken(typed) = n + 1
  BY <1>2, Sizes DEF Taken, n
<1>4. /\ b \in [TmpAddresses -> Byte]
      /\ \A a \in 0..n - 1 : b[a] = typed[a + 1]
      /\ b[n] = NUL /\ n \in TmpAddresses
  <2>1. /\ b \in [TmpAddresses -> Byte]
        /\ \A a \in 0..(n + 1) - 2 : b[a] = typed[a + 1]
        /\ b[(n + 1) - 1] = NUL
        /\ n + 1 \in 1..BufferSize
    BY <1>2, <1>3, Received
  <2> HIDE DEF b
  <2>2. (n + 1) - 2 = n - 1 /\ (n + 1) - 1 = n /\ n \in TmpAddresses
    BY <1>2, <2>1, Sizes
  <2> QED
    BY <2>1, <2>2
<1> HIDE DEF b
<1>5. Stops(b, 0, Len(line))
  BY <1>2, <1>4 DEF Stops, n
<1>6. \A i \in 1..Len(line) : /\ 0 + i - 1 \in 0..(BufferSize + 2) - 1
                              /\ b[0 + i - 1] = line[i] /\ line[i] # NUL
  <2> TAKE i \in 1..Len(line)
  <2>1. i \in 1..n /\ 0 + i - 1 \in 0..n - 1 /\ (0 + i - 1) + 1 = i
    BY <1>2 DEF n
  <2>2. b[0 + i - 1] = line[i]
    BY <1>2, <1>4, <2>1
  <2>3. 0 + i - 1 \in 0..(BufferSize + 2) - 1
    BY <1>2, <1>4, <2>1, Sizes
  <2> QED
    BY <2>2, <2>3
<1>7. b \in [0..(BufferSize + 2) - 1 -> Byte]
  BY <1>4, Sizes
<1>8. TextAt(b, 0) = line
  BY <1>5, <1>6, <1>7, Sizes, TextFound, ZenonT(40)
<1> QED
  BY <1>8 DEF b, typed

-----------------------------------------------------------------------------
(* What read_int makes of a text.                                          *)

LEMMA WithoutSign ==
  ASSUME NEW S, NEW s \in Seq(S)
  PROVE  /\ Unsigned(s) \in Seq(S)
         /\ (s # <<>> /\ Head(s) = Minus) <=> Unsigned(s) # s
         /\ s # <<>> /\ Head(s) = Minus => Unsigned(s) = Tail(s)
         /\ \A i \in 1..Len(s) : s[i] = Minus \/ \E j \in 1..Len(Unsigned(s)) : s[i] = Unsigned(s)[j]
<1>1. CASE s # <<>> /\ Head(s) = Minus
  <2>1. Unsigned(s) = Tail(s)
    BY <1>1 DEF Unsigned
  <2>2. /\ Tail(s) \in Seq(S) /\ Len(Tail(s)) = Len(s) - 1 /\ Len(s) \in Nat
        /\ \A i \in 1..Len(Tail(s)) : Tail(s)[i] = s[i + 1]
    BY <1>1, HeadTailProperties, LenProperties
  <2>3. Tail(s) # s
    <3> SUFFICES ASSUME Tail(s) = s PROVE FALSE
      OBVIOUS
    <3>1. Len(s) = Len(s) - 1
      BY <2>2
    <3> QED
      BY <2>2, <3>1
  <2>4. s[1] = Minus
    BY <1>1
  <2>5. \A i \in 1..Len(s) : s[i] = Minus \/ \E j \in 1..Len(Tail(s)) : s[i] = Tail(s)[j]
    <3> TAKE i \in 1..Len(s)
    <3>1. CASE i = 1
      BY <2>4, <3>1
    <3>2. CASE i # 1
      <4>1. i - 1 \in 1..Len(Tail(s)) /\ i = (i - 1) + 1
        BY <2>2, <3>2
      <4> QED
        BY <2>2, <4>1
    <3> QED
      BY <3>1, <3>2
  <2> QED
    BY <1>1, <2>1, <2>2, <2>3, <2>5
<1>2. CASE ~(s # <<>> /\ Head(s) = Minus)
  BY <1>2 DEF Unsigned
<1> QED
  BY <1>1, <1>2

LEMMA TextRead ==
  ASSUME NEW s \in Seq(Byte)
  PROVE  IntegerOf(s) \in Values
<1> DEFINE d == Unsigned(s)
           w == Accumulated(d)[Len(d)]
<1>1. d \in Seq(Byte)
  BY WithoutSign
<1>2. w \in Values
  <2> HIDE DEF d
  <2>1. Len(d) \in Nat /\ Accumulated(d) \in [0..Len(d) -> Values]
    BY <1>1, AccumulatedAre
  <2> QED
    BY <2>1
<1>3. IntegerOf(s) = IF s # <<>> /\ Head(s) = Minus /\ w # Invalid THEN Neg(w) ELSE w
  BY DEF IntegerOf, Unsigned
<1> HIDE DEF w
<1>4. Neg(w) \in Values
  BY <1>2 DEF Neg, Values, Word
<1> QED
  BY <1>2, <1>3, <1>4

LEMMA WholeIsBeginning ==
  ASSUME NEW s \in Seq(Digits), Natural(s) \in Word..Word + 3
  PROVE  \E i \in DOMAIN Beginnings(s) : Beginnings(s)[i] \in Word..Word + 3
<1>1. Len(s) \in DOMAIN Beginnings(s)
  BY BeginningsAre
<1> QED
  BY <1>1 DEF Natural

LEMMA NumeralRead ==
  ASSUME NEW s \in Seq(Byte), IsNumeral(s)
  PROVE  LET n == Number(s)
             w == IntegerOf(s)
             b == Beginnings(Unsigned(s))
         IN /\ n \in Int /\ w \in Values
            /\ InRange(n) => w # Invalid /\ Signed(w) = n
            /\ w # Invalid =>
                 /\ (Signed(w) - n) % Word = 0
                 /\ n \in -(Word - 1)..Word - 1 \/ \E i \in DOMAIN b : b[i] \in Word..Word + 3
            /\ \A i \in 1..Len(s) : s[i] # NUL
<1> DEFINE d == Unsigned(s)
           w == Accumulated(d)[Len(d)]
           m == Natural(d)
           Begins == \E i \in DOMAIN Beginnings(d) : Beginnings(d)[i] \in Word..Word + 3
<1>1. d \in Seq(Byte) /\ DOMAIN d = 1..Len(d) /\ Len(d) \in Nat
  BY WithoutSign, LenProperties
<1>2. d \in Seq(Digits)
  <2>1. \A i \in 1..Len(d) : d[i] \in Digits
    BY <1>1 DEF IsNumeral
  <2>2. d \in [1..Len(d) -> Digits]
    BY <1>1, <2>1, LenProperties
  <2> HIDE DEF d
  <2> QED
    BY <1>1, <2>2, BytesAreSeq
<1>3. w \in Values /\ m \in Nat /\ Registered(w, m, Begins)
  BY <1>2, DigitsRead
<1>4. IntegerOf(s) = IF d # s /\ w # Invalid THEN Neg(w) ELSE w
  <2>1. (s # <<>> /\ Head(s) = Minus) <=> d # s
    BY WithoutSign
  <2>2. IntegerOf(s) = IF s # <<>> /\ Head(s) = Minus /\ w # Invalid THEN Neg(w) ELSE w
    BY DEF IntegerOf, Unsigned
  <2> QED
    BY <2>1, <2>2
<1>5. Number(s) = IF d = s THEN m ELSE -m
  BY DEF Number
<1>6. \A i \in 1..Len(s) : s[i] # NUL
  <2>1. \A i \in 1..Len(d) : d[i] # NUL
    <3>1. \A i \in 1..Len(d) : d[i] \in Digits
      BY <1>1 DEF IsNumeral
    <3> QED
      BY <3>1 DEF Digits, Zero, NUL
  <2>2. Minus # NUL
    BY DEF Minus, NUL
  <2> QED
    BY <2>1, <2>2, WithoutSign
<1> HIDE DEF d, w, m, Begins
<1> USE DEF Word, Values, Invalid
<1>7. Neg(w) = IF w = 0 \/ w = 256 THEN 0 ELSE 256 - w
  BY <1>3 DEF Neg
<1> DEFINE n == Number(s)
           v == IntegerOf(s)
<1>8. n \in Int /\ v \in Values
  BY <1>3, <1>4, <1>5, <1>7
<1>9. v # Invalid <=> w # Invalid
  BY <1>3, <1>4, <1>7
<1>12. /\ v = IF d # s /\ w # Invalid THEN Neg(w) ELSE w
       /\ n = IF d = s THEN m ELSE -m
  BY <1>4, <1>5
<1> HIDE DEF n, v
<1>10. ASSUME InRange(n) PROVE v # Invalid /\ Signed(v) = n
  <2>1. m \in 0..128 /\ (d = s => m \in 0..127)
    BY <1>3, <1>12, <1>10 DEF InRange, Least
  <2>2. w # 256 /\ (w - m) % 256 = 0
    BY <1>3, <2>1 DEF Registered
  <2>3. w = m
    <3>1. w \in 0..255 /\ w - m \in -128..255
      BY <1>3, <2>1, <2>2
    <3> DEFINE x == w - m
    <3>2. x \in -128..255 /\ x % 256 = 0
      BY <2>2, <3>1
    <3> HIDE DEF x
    <3>3. x = 0
      BY <3>2
    <3> QED
      BY <2>1, <3>1, <3>3 DEF x
  <2>4. v # Invalid
    BY <1>9, <2>2
  <2>5. CASE d = s
    BY <1>12, <2>1, <2>3, <2>5 DEF Signed, Least
  <2>6. CASE d # s
    <3>1. v = Neg(m) /\ n = -m
      BY <1>12, <2>2, <2>3, <2>6
    <3>2. Neg(m) = IF m = 0 THEN 0 ELSE 256 - m
      BY <1>7, <2>1, <2>3
    <3> QED
      BY <2>1, <2>4, <3>1, <3>2 DEF Signed, Least
  <2> QED
    BY <2>4, <2>5, <2>6
<1>11. ASSUME v # Invalid
       PROVE  (Signed(v) - n) % 256 = 0 /\ (n \in -255..255 \/ Begins)
  <2>1. w \in 0..255 /\ (w - m) % 256 = 0 /\ (m < 260 \/ Begins)
    BY <1>3, <1>9, <1>11 DEF Registered
  <2>2. PICK k \in Int : w = m + 256 * k
    <3>1. w - m \in Int
      BY <1>3, <2>1
    <3> DEFINE q == (w - m) \div 256
    <3>2. w - m = 256 * q /\ q \in Int
      BY <2>1, <3>1
    <3> HIDE DEF q
    <3>3. w = m + 256 * q
      BY <1>3, <2>1, <3>2
    <3> QED
      BY <3>2, <3>3
  <2>3. PICK j \in Int : Signed(v) = v + 256 * j
    <3> DEFINE j == IF v >= 128 THEN -1 ELSE 0
    <3>1. j \in Int /\ Signed(v) = v + 256 * j
      BY <1>8 DEF Signed, Least
    <3> HIDE DEF j
    <3> QED
      BY <3>1
  <2>4. PICK i \in Int : v = (IF d = s THEN w ELSE -w) + 256 * i
    <3> DEFINE i == IF d = s \/ w = 0 THEN 0 ELSE 1
    <3>1. i \in Int /\ v = (IF d = s THEN w ELSE -w) + 256 * i
      BY <1>3, <1>12, <1>7, <2>1
    <3> HIDE DEF i
    <3> QED
      BY <3>1
  <2>5. \E e \in Int : Signed(v) - n = 256 * e
    <3>1. CASE d = s
      <4>1. Signed(v) - n = 256 * (k + i + j)
        BY <1>3, <1>12, <2>1, <2>2, <2>3, <2>4, <3>1
      <4> DEFINE e == k + i + j
      <4>2. e \in Int /\ Signed(v) - n = 256 * e
        BY <4>1
      <4> HIDE DEF e
      <4> QED
        BY <4>2
    <3>2. CASE d # s
      <4>1. Signed(v) - n = 256 * (i + j - k)
        BY <1>3, <1>12, <2>1, <2>2, <2>3, <2>4, <3>2
      <4> DEFINE e == i + j - k
      <4>2. e \in Int /\ Signed(v) - n = 256 * e
        BY <4>1
      <4> HIDE DEF e
      <4> QED
        BY <4>2
    <3> QED
      BY <3>1, <3>2
  <2>6. (Signed(v) - n) % 256 = 0
    BY <2>5
  <2>7. m < 260 => m < 256 \/ Begins
    <3>1. m \in 256..259 => Begins
      BY <1>2, <1>3, WholeIsBeginning DEF Begins, m, d
    <3> QED
      BY <1>3, <3>1
  <2>8. m < 256 => n \in -255..255
    BY <1>3, <1>12
  <2> QED
    BY <2>1, <2>6, <2>7, <2>8
<1> QED
  BY <1>6, <1>8, <1>10, <1>11 DEF d, Begins, n, v

-----------------------------------------------------------------------------
(* What write_integer makes of a number.                                   *)

Ints == -Least..Least - 1

LEMMA Halves ==
  ASSUME NEW n \in Ints
  PROVE  /\ Quotient(n) \in Ints /\ Quotient(Quotient(n)) \in Ints
         /\ Quotient(Quotient(Quotient(n))) = 0
         /\ (Zero + Remainder(n)) % Word \in Byte
<1>1. /\ Quotient(n) \in -12..12 /\ Quotient(Quotient(n)) \in -1..1
  <2>1. Quotient(n) \in -12..12
    BY DEF Ints, Least, Quotient
  <2>2. \A k \in -12..12 : Quotient(k) \in -1..1
    BY DEF Quotient
  <2> QED
    BY <2>1, <2>2
<1>2. \A k \in -1..1 : Quotient(k) = 0
  BY DEF Quotient
<1>3. (Zero + Remainder(n)) % Word \in Byte
  <2>1. n \in Int /\ Remainder(n) \in Int
    BY DEF Ints, Least, Remainder
  <2> QED
    BY <2>1 DEF Zero, Word, Byte
<1> QED
  BY <1>1, <1>2, <1>3 DEF Ints, Least

PushedDigit(n) == <<(Zero + Remainder(n)) % Word>>

LEMMA PushedIs ==
  /\ Pushed = [n \in Ints |-> IF Quotient(n) = 0 THEN PushedDigit(n)
                               ELSE Pushed[Quotient(n)] \o PushedDigit(n)]
  /\ \A n \in Ints : Pushed[n] = IF Quotient(n) = 0 THEN PushedDigit(n)
                                  ELSE Pushed[Quotient(n)] \o PushedDigit(n)
<1> DEFINE F(n) ==
             IF Quotient(n) = 0 THEN PushedDigit(n)
             ELSE (IF Quotient(Quotient(n)) = 0 THEN PushedDigit(Quotient(n))
                   ELSE PushedDigit(Quotient(Quotient(n))) \o PushedDigit(Quotient(n)))
                  \o PushedDigit(n)
           f == [n \in Ints |-> F(n)]
<1>1. ASSUME NEW n \in Ints
      PROVE  F(n) = IF Quotient(n) = 0 THEN PushedDigit(n)
                    ELSE f[Quotient(n)] \o PushedDigit(n)
  <2>1. Quotient(n) \in Ints /\ Quotient(Quotient(Quotient(n))) = 0
    BY Halves
  <2> HIDE DEF F
  <2>2. f[Quotient(n)] = F(Quotient(n))
    BY <2>1
  <2> USE DEF F
  <2>3. F(Quotient(n)) =
          IF Quotient(Quotient(n)) = 0 THEN PushedDigit(Quotient(n))
          ELSE PushedDigit(Quotient(Quotient(n))) \o PushedDigit(Quotient(n))
    BY <2>1
  <2> HIDE DEF f
  <2> QED
    BY <2>2, <2>3
<1> HIDE DEF F
<1>2. f = [n \in Ints |-> IF Quotient(n) = 0 THEN PushedDigit(n)
                           ELSE f[Quotient(n)] \o PushedDigit(n)]
  BY <1>1
<1> DEFINE g == CHOOSE g : g = [n \in -Least .. Least - 1 |->
             LET digit == <<(Zero + Remainder(n)) % Word>>
             IN IF Quotient(n) = 0 THEN digit ELSE g[Quotient(n)] \o digit]
<1>3. Pushed = g
  BY Zenon DEF Pushed
<1>4. g = [n \in Ints |-> IF Quotient(n) = 0 THEN PushedDigit(n)
                           ELSE g[Quotient(n)] \o PushedDigit(n)]
  BY <1>2, Zenon DEF PushedDigit, Ints
<1> HIDE DEF g
<1>5. Pushed = [n \in Ints |-> IF Quotient(n) = 0 THEN PushedDigit(n)
                               ELSE Pushed[Quotient(n)] \o PushedDigit(n)]
  BY <1>3, <1>4
<1> DEFINE p == Pushed
<1> HIDE DEF p
<1>6. p = [n \in Ints |-> IF Quotient(n) = 0 THEN PushedDigit(n)
                               ELSE p[Quotient(n)] \o PushedDigit(n)]
  BY <1>5 DEF p
<1>7. \A n \in Ints : p[n] = IF Quotient(n) = 0 THEN PushedDigit(n)
                              ELSE p[Quotient(n)] \o PushedDigit(n)
  BY <1>6, Zenon
<1> QED
  BY <1>5, <1>7 DEF p

LEMMA OneIs ==
  ASSUME NEW S, NEW c \in S
  PROVE  <<c>> \in Seq(S) /\ Len(<<c>>) = 1 /\ <<c>>[1] = c
OBVIOUS

(* Whatever number it is.                                                  *)
LEMMA PushedBytes ==
  ASSUME NEW n \in Ints
  PROVE  Pushed[n] \in Seq(Byte) /\ Len(Pushed[n]) \in 1..3
<1>1. \A k \in Ints : PushedDigit(k) \in Seq(Byte) /\ Len(PushedDigit(k)) = 1
  BY Halves, OneIs DEF PushedDigit
<1>2. ASSUME NEW k \in Ints, Quotient(k) = 0
      PROVE  Pushed[k] \in Seq(Byte) /\ Len(Pushed[k]) = 1
  BY <1>1, <1>2, PushedIs
<1>3. ASSUME NEW k \in Ints, NEW m \in Nat,
             Pushed[Quotient(k)] \in Seq(Byte), Len(Pushed[Quotient(k)]) \in 1..m
      PROVE  Pushed[k] \in Seq(Byte) /\ Len(Pushed[k]) \in 1..m + 1
  <2> DEFINE p == Pushed[Quotient(k)]
             d == PushedDigit(k)
  <2>1. d \in Seq(Byte) /\ Len(d) = 1
    BY <1>1
  <2>2. Pushed[k] = IF Quotient(k) = 0 THEN d ELSE p \o d
    BY PushedIs
  <2>3. p \in Seq(Byte) /\ Len(p) \in 1..m
    BY <1>3
  <2> HIDE DEF p, d
  <2>4. p \o d \in Seq(Byte) /\ Len(p \o d) = Len(p) + Len(d)
    BY <2>1, <2>3, ConcatProperties
  <2> QED
    BY <2>1, <2>2, <2>3, <2>4
<1>4. Quotient(n) \in Ints /\ Quotient(Quotient(n)) \in Ints
      /\ Quotient(Quotient(Quotient(n))) = 0
  BY Halves
<1>5. Pushed[Quotient(Quotient(n))] \in Seq(Byte)
      /\ Len(Pushed[Quotient(Quotient(n))]) \in 1..1
  BY <1>2, <1>4
<1>6. Pushed[Quotient(n)] \in Seq(Byte) /\ Len(Pushed[Quotient(n)]) \in 1..2
  <2> DEFINE q == Quotient(n)
  <2>1. q \in Ints /\ 1 \in Nat /\ Pushed[Quotient(q)] \in Seq(Byte)
        /\ Len(Pushed[Quotient(q)]) \in 1..1
    BY <1>4, <1>5
  <2> HIDE DEF q
  <2>2. Pushed[q] \in Seq(Byte) /\ Len(Pushed[q]) \in 1..1 + 1
    BY <1>3, <2>1
  <2> QED
    BY <2>2 DEF q
<1>7. Pushed[n] \in Seq(Byte) /\ Len(Pushed[n]) \in 1..2 + 1
  BY <1>3, <1>6
<1> QED
  BY <1>7

LEMMA NaturalOfMore ==
  ASSUME NEW s \in Seq(Digits), NEW c \in Digits
  PROVE  LET t == s \o <<c>>
         IN t \in Seq(Digits) /\ Natural(t) = 10 * Natural(s) + c - Zero
<1> DEFINE t == s \o <<c>>
           n == Len(s)
           a == Beginnings(s)
           b == Beginnings(t)
<1>1. /\ t \in Seq(Digits) /\ Len(t) = n + 1 /\ n \in Nat
      /\ \A i \in 1..n : t[i] = s[i]
      /\ t[n + 1] = c
  <2>1. <<c>> \in Seq(Digits) /\ Len(<<c>>) = 1 /\ <<c>>[1] = c
    BY OneIs
  <2> DEFINE u == <<c>>
  <2> HIDE DEF u
  <2>2. /\ s \o u \in Seq(Digits) /\ Len(s \o u) = Len(s) + Len(u)
        /\ \A i \in 1..Len(s) + Len(u) :
             (s \o u)[i] = IF i <= Len(s) THEN s[i] ELSE u[i - Len(s)]
    BY <2>1, ConcatProperties DEF u
  <2>3. n \in Nat
    BY LenProperties
  <2>4. \A i \in 1..n : (s \o u)[i] = s[i]
    BY <2>1, <2>2, <2>3 DEF u
  <2>5. (s \o u)[n + 1] = u[1]
    <3>1. n + 1 \in 1..n + 1 /\ ~(n + 1 <= n) /\ n + 1 - n = 1
      BY <2>3
    <3> QED
      BY <2>1, <2>2, <3>1 DEF u
  <2> QED
    BY <2>1, <2>2, <2>3, <2>4, <2>5 DEF u
<1> HIDE DEF t
<1>2. /\ a \in [0..n -> Nat] /\ a[0] = 0
      /\ \A i \in 1..n : a[i] = 10 * a[i - 1] + s[i] - Zero
  BY BeginningsAre
<1>3. /\ b \in [0..n + 1 -> Nat] /\ b[0] = 0
      /\ \A i \in 1..n + 1 : b[i] = 10 * b[i - 1] + t[i] - Zero
  BY <1>1, BeginningsAre
<1>4. Natural(s) = a[n] /\ Natural(t) = b[n + 1]
  BY <1>1 DEF Natural
<1> HIDE DEF a, b, n
<1> DEFINE T == {i \in 0..n : a[i] = b[i]}
<1>5. 0 \in T
  BY <1>1, <1>2, <1>3
<1>6. ASSUME NEW i \in 1..n, i - 1 \in T PROVE i \in T
  <2>1. i \in 1..n + 1 /\ a[i - 1] = b[i - 1] /\ s[i] = t[i]
    BY <1>1, <1>6
  <2>2. a[i] = b[i]
    BY <1>2, <1>3, <2>1
  <2> QED
    BY <2>2
<1> HIDE DEF T
<1>7. 0..n \subseteq T
  BY <1>1, <1>5, <1>6, Counting
<1>8. a[n] = b[n]
  <2>1. n \in 0..n
    BY <1>1
  <2> QED
    BY <1>7, <2>1 DEF T
<1>9. b[n + 1] = 10 * b[n] + c - Zero
  <2>1. n + 1 \in 1..n + 1 /\ n + 1 - 1 = n
    BY <1>1
  <2> QED
    BY <1>1, <1>3, <2>1
<1> QED
  BY <1>1, <1>4, <1>8, <1>9 DEF t

(* The digits of a number that is not negative.                            *)
DigitsOf(s, n) ==
  /\ s \in Seq(Digits) /\ s # <<>> /\ Natural(s) = n
  /\ s[1] = Zero => s = <<Zero>> /\ n = 0

LEMMA FewDigits ==
  ASSUME NEW n \in 0..9
  PROVE  DigitsOf(Pushed[n], n)
<1>1. n \in Ints /\ Quotient(n) = 0 /\ Remainder(n) = n
  BY DEF Ints, Least, Quotient, Remainder
<1>2. Pushed[n] = PushedDigit(n)
  BY <1>1, PushedIs
<1> DEFINE c == (48 + n) % 256
<1>3. PushedDigit(n) = <<c>>
  BY <1>1 DEF PushedDigit, Zero, Word
<1>4. c = 48 + n
  OBVIOUS
<1>5. c \in Digits
  BY <1>4 DEF Digits, Zero
<1> HIDE DEF c
<1>6. <<c>> \in Seq(Digits) /\ Len(<<c>>) = 1 /\ <<c>>[1] = c /\ <<c>> # <<>>
  BY <1>5, OneIs
<1>7. Natural(<<c>>) = n
  <2> DEFINE s == <<c>>
             b == Beginnings(s)
  <2>1. s \in Seq(Digits) /\ Len(s) = 1 /\ s[1] = c
    BY <1>6
  <2> HIDE DEF s
  <2>2. /\ b[0] = 0
        /\ \A i \in 1..Len(s) : b[i] = 10 * b[i - 1] + s[i] - Zero
    BY <2>1, BeginningsAre
  <2> HIDE DEF b
  <2>3. b[1] = 10 * 0 + c - 48
    <3>1. 1 \in 1..Len(s) /\ 1 - 1 = 0
      BY <2>1
    <3>2. b[1] = 10 * b[1 - 1] + s[1] - 48
      BY <2>2, <3>1 DEF Zero
    <3> QED
      BY <2>1, <2>2, <3>1, <3>2
  <2>4. Natural(s) = b[1]
    BY <2>1 DEF Natural, b
  <2> QED
    BY <1>4, <2>3, <2>4 DEF s
<1>8. c = Zero => <<c>> = <<Zero>> /\ n = 0
  BY <1>4 DEF Zero
<1> QED
  BY <1>2, <1>3, <1>6, <1>7, <1>8 DEF DigitsOf

LEMMA MoreDigits ==
  ASSUME NEW n \in 10..127, DigitsOf(Pushed[Quotient(n)], Quotient(n))
  PROVE  DigitsOf(Pushed[n], n)
<1> DEFINE s == Pushed[Quotient(n)]
           c == (48 + (n % 10)) % 256
           t == s \o <<c>>
<1>1. /\ n \in Ints /\ Quotient(n) = n \div 10 /\ Remainder(n) = n % 10
      /\ n \div 10 \in 1..12
  BY DEF Ints, Least, Quotient, Remainder
<1>2. Pushed[n] = s \o PushedDigit(n)
  <2>1. Quotient(n) # 0
    BY <1>1
  <2> QED
    BY <1>1, <2>1, PushedIs
<1>3. PushedDigit(n) = <<c>>
  BY <1>1 DEF PushedDigit, Zero, Word
<1>4. c = 48 + (n % 10) /\ n % 10 \in 0..9
  OBVIOUS
<1>5. c \in Digits
  BY <1>4 DEF Digits, Zero
<1>6. /\ s \in Seq(Digits) /\ s # <<>> /\ Natural(s) = n \div 10
      /\ s[1] # Zero
  BY <1>1 DEF DigitsOf
<1> HIDE DEF s, c
<1>7. t \in Seq(Digits) /\ Natural(t) = 10 * (n \div 10) + c - 48
  BY <1>5, <1>6, NaturalOfMore DEF Zero
<1>8. Natural(t) = n
  <2>1. n = 10 * (n \div 10) + (n % 10)
    OBVIOUS
  <2> QED
    BY <1>1, <1>4, <1>7, <2>1
<1>9. t # <<>> /\ t[1] = s[1]
  <2>1. <<c>> \in Seq(Digits) /\ Len(<<c>>) = 1
    BY <1>5, OneIs
  <2> DEFINE u == <<c>>
  <2> HIDE DEF u
  <2>2. /\ Len(s \o u) = Len(s) + Len(u)
        /\ \A i \in 1..Len(s) + Len(u) :
             (s \o u)[i] = IF i <= Len(s) THEN s[i] ELSE u[i - Len(s)]
    BY <1>6, <2>1, ConcatProperties DEF u
  <2>3. Len(s) \in Nat \ {0}
    BY <1>6, EmptySeq
  <2>4. (s \o u)[1] = s[1] /\ Len(s \o u) > 0
    BY <2>1, <2>2, <2>3 DEF u
  <2>5. s \o u # <<>>
    <3> SUFFICES ASSUME s \o u = <<>> PROVE FALSE
      OBVIOUS
    <3>1. Len(<<>>) = 0
      BY EmptySeq
    <3> QED
      BY <2>4, <3>1
  <2> QED
    BY <2>4, <2>5 DEF u
<1> HIDE DEF t
<1>10. Pushed[n] = t
  BY <1>2, <1>3 DEF t
<1> QED
  BY <1>6, <1>7, <1>8, <1>9, <1>10 DEF DigitsOf

LEMMA DigitsPushed ==
  ASSUME NEW n \in 0..127
  PROVE  DigitsOf(Pushed[n], n)
<1>1. ASSUME NEW k \in 0..99 PROVE DigitsOf(Pushed[k], k)
  <2>1. CASE k \in 0..9
    BY <2>1, FewDigits
  <2>2. CASE k \in 10..99
    <3>1. k \in 10..127 /\ Quotient(k) \in 0..9
      BY <2>2 DEF Quotient
    <3>2. DigitsOf(Pushed[Quotient(k)], Quotient(k))
      BY <3>1, FewDigits
    <3> QED
      BY <3>1, <3>2, MoreDigits
  <2> QED
    BY <2>1, <2>2
<1>2. CASE n \in 0..99
  BY <1>1, <1>2
<1>3. CASE n \in 100..127
  <2>1. n \in 10..127 /\ Quotient(n) \in 0..99
    BY <1>3 DEF Quotient
  <2>2. DigitsOf(Pushed[Quotient(n)], Quotient(n))
    BY <1>1, <2>1
  <2> QED
    BY <2>1, <2>2, MoreDigits
<1> QED
  BY <1>2, <1>3

LEMMA IntegerWritten ==
  ASSUME NEW w \in Byte
  PROVE  LET s == IntegerText(w)
         IN /\ s \in Seq(Byte) /\ Len(s) \in 1..4 /\ InRange(Signed(w))
            /\ Signed(w) # -Least =>
                 /\ IsNumeral(s) /\ Number(s) = Signed(w)
                 /\ Head(Unsigned(s)) = Zero => s = <<Zero>>
<1> DEFINE n == Signed(w)
           m == IF n < 0 THEN Signed(Neg(w)) ELSE w
           p == Pushed[m]
           s == IntegerText(w)
<1>1. n \in Ints /\ m \in Ints /\ (n >= 0 => m = n) /\ (n < 0 /\ n # -Least => m = -n)
  BY DEF Byte, Signed, Neg, Ints, Word, Least
<1>2. s = IF n < 0 THEN <<Minus>> \o p ELSE p
  BY DEF IntegerText
<1> HIDE DEF n, m, s
<1>3. p \in Seq(Byte) /\ Len(p) \in 1..3
  BY <1>1, PushedBytes
<1>4. <<Minus>> \in Seq(Byte) /\ Len(<<Minus>>) = 1 /\ <<Minus>>[1] = Minus
  BY OneIs DEF Minus, Byte
<1> HIDE DEF p
<1>5. /\ <<Minus>> \o p \in Seq(Byte) /\ Len(<<Minus>> \o p) = Len(p) + 1
      /\ (<<Minus>> \o p)[1] = Minus
      /\ \A i \in 1..Len(p) : (<<Minus>> \o p)[i + 1] = p[i]
  <2> DEFINE u == <<Minus>>
  <2>1. u \in Seq(Byte) /\ Len(u) = 1 /\ u[1] = Minus
    BY <1>4
  <2> HIDE DEF u
  <2>2. /\ u \o p \in Seq(Byte) /\ Len(u \o p) = Len(u) + Len(p)
        /\ \A i \in 1..Len(u) + Len(p) :
             (u \o p)[i] = IF i <= Len(u) THEN u[i] ELSE p[i - Len(u)]
    BY <1>3, <2>1, ConcatProperties
  <2>3. (u \o p)[1] = Minus
    BY <1>3, <2>1, <2>2
  <2>4. ASSUME NEW i \in 1..Len(p) PROVE (u \o p)[i + 1] = p[i]
    <3>1. i + 1 \in 1..Len(u) + Len(p) /\ ~(i + 1 <= Len(u)) /\ i + 1 - Len(u) = i
      BY <1>3, <2>1
    <3> QED
      BY <2>2, <3>1
  <2> QED
    BY <1>3, <2>1, <2>2, <2>3, <2>4 DEF u
<1>6. s \in Seq(Byte) /\ Len(s) \in 1..4
  <2>1. CASE n < 0
    <3>1. s = <<Minus>> \o p
      BY <1>2, <2>1
    <3> QED
      BY <1>3, <1>5, <3>1, SMTT(30)
  <2>2. CASE ~(n < 0)
    <3>1. s = p
      BY <1>2, <2>2
    <3> QED
      BY <1>3, <3>1
  <2> QED
    BY <2>1, <2>2
<1>7. ASSUME n # -Least
      PROVE  IsNumeral(s) /\ Number(s) = n /\ (Head(Unsigned(s)) = Zero => s = <<Zero>>)
  <2>1. m \in 0..127
    BY <1>1, <1>7 DEF Ints, Least
  <2>2. /\ p \in Seq(Digits) /\ p # <<>> /\ Natural(p) = m
        /\ p[1] = Zero => p = <<Zero>> /\ m = 0
    BY <2>1, DigitsPushed DEF DigitsOf, p
  <2>3. \A i \in DOMAIN p : p[i] \in Digits
    BY <2>2
  <2>4. Unsigned(s) = p /\ (n < 0 <=> s # p)
    <3>1. CASE n < 0
      <4>1. s # <<>> /\ Head(s) = Minus
        BY <1>2, <1>3, <1>5, <3>1
      <4>2. Unsigned(s) = Tail(s)
        BY <4>1 DEF Unsigned
      <4>3. /\ Tail(s) \in Seq(Byte) /\ Len(Tail(s)) = Len(s) - 1
            /\ \A i \in 1..Len(Tail(s)) : Tail(s)[i] = s[i + 1]
        BY <1>6, <4>1, HeadTailProperties
      <4>4. Len(s) = Len(p) + 1 /\ \A i \in 1..Len(p) : s[i + 1] = p[i]
        BY <1>2, <1>5, <3>1
      <4> DEFINE t == Tail(s)
      <4>5. t \in Seq(Byte) /\ Len(t) = Len(p) /\ \A i \in 1..Len(t) : t[i] = p[i]
        BY <1>3, <4>3, <4>4
      <4> HIDE DEF t
      <4>6. t = p
        BY <1>3, <4>5, SeqEqual
      <4>7. s # p
        <5> SUFFICES ASSUME s = p PROVE FALSE
          OBVIOUS
        <5> QED
          BY <1>3, <4>4
      <4> QED
        BY <3>1, <4>2, <4>6, <4>7 DEF t
    <3>2. CASE ~(n < 0)
      <4>1. s = p
        BY <1>2, <3>2
      <4>2. Head(s) # Minus
        <5>1. p[1] \in Digits
          BY <2>2, <1>3, ElementOfSeq
        <5>2. Minus \notin Digits
          BY DEF Minus, Digits, Zero
        <5> QED
          BY <4>1, <5>1, <5>2
      <4> QED
        BY <3>2, <4>1, <4>2 DEF Unsigned
    <3> QED
      BY <3>1, <3>2
  <2>5. IsNumeral(s)
    BY <2>2, <2>3, <2>4 DEF IsNumeral
  <2>6. Number(s) = n
    <3>1. Number(s) = IF p = s THEN m ELSE -m
      BY <2>2, <2>4 DEF Number
    <3> QED
      BY <1>1, <1>7, <2>1, <2>4, <3>1 DEF Ints, Least
  <2>7. Head(Unsigned(s)) = Zero => s = <<Zero>>
    <3> SUFFICES ASSUME Head(p) = Zero PROVE s = <<Zero>>
      BY <2>4
    <3>1. p = <<Zero>> /\ m = 0
      BY <2>2
    <3>2. ~(n < 0)
      BY <1>1, <1>7, <3>1 DEF Ints, Least
    <3> QED
      BY <1>2, <3>1, <3>2
  <2> QED
    BY <2>5, <2>6, <2>7
<1>8. InRange(n)
  BY <1>1 DEF InRange, Ints
<1> QED
  BY <1>6, <1>7, <1>8 DEF n, s

-----------------------------------------------------------------------------
(* The inductive invariant.  What is in memory, and what event remembers,  *)
(* are bytes; and reading back what was written needs that it is short     *)
(* enough for the buffer and, for a boolean, that nothing but NULs follows *)
(* it in the eight bytes that are compared.                                *)

BytesOK ==
  /\ tmp \in [TmpAddresses -> Byte]
  /\ memory \in [Addresses -> Byte]
  /\ rest \in Seq(Byte)
  /\ status \in {"running", "invalid"}

EventOK ==
  /\ event.kind \in {"none", "read", "write"}
  /\ status = "invalid" => event.kind = "read"
  /\ event.kind # "none" => event.var \in Variables /\ event.text \in Seq(Byte)

LeftBehind ==
  event.kind = "write" =>
    /\ event.var.type = "int" => Len(event.text) <= 4
    /\ event.var.type = "logic" => tmp[6] = NUL /\ tmp[7] = NUL

Inv == BytesOK /\ EventOK /\ LeftBehind /\ ReadsNumbers /\ WritesValues

LEMMA VariableIs ==
  ASSUME NEW v \in Variables
  PROVE  /\ v.type \in {"int", "logic", "char", "string"} /\ v.address \in Addresses
         /\ v.address \in 0..MemSize - 1 /\ v.address \in Nat
<1>1. v \in [type : {"int", "logic", "char", "string"}, address : Addresses]
  BY VariablesAssumption
<1> QED
  BY <1>1, Sizes

LEMMA TypedBytes ==
  ASSUME BytesOK, EventOK, NEW typed \in Typed
  PROVE  typed \in Seq(Byte)
<1>1. LF \in Byte
  BY DEF LF, Byte
<1>2. \A line \in Lines \union LastLines : line \in Seq(Byte)
  BY LinesAssumption
<1>3. <<>> \in Seq(Byte)
  BY EmptySeq
<1>4. \A line \in Seq(Byte) : Append(line, LF) \in Seq(Byte)
  BY <1>1, AppendProperties
<1>5. event.kind = "write" => event.text \in Seq(Byte)
  BY DEF EventOK
<1> QED
  BY <1>2, <1>3, <1>4, <1>5 DEF Typed, BytesOK

LEMMA ReceiveStep ==
  ASSUME BytesOK, EventOK, NEW v \in Variables, NEW typed \in Typed, Receive(v, typed)
  PROVE  /\ typed \in Seq(Byte) /\ status = "running"
         /\ tmp' \in [TmpAddresses -> Byte] /\ rest' \in Seq(Byte)
         /\ Len(typed) <= BufferSize => rest' = <<>>
         /\ event'.kind = "read" /\ event'.var = v /\ event'.text = typed
         /\ event'.fresh = (rest = <<>>)
<1>1. typed \in Seq(Byte)
  BY TypedBytes
<1>2. tmp' \in [TmpAddresses -> Byte]
  BY <1>1, Received DEF Receive, BytesOK
<1>3. rest' = SubSeq(typed, BufferSize + 1, Len(typed))
  BY DEF Receive
<1>4. Len(typed) \in Nat /\ BufferSize \in Nat
  BY <1>1, Sizes, LenProperties
<1>5. CASE BufferSize <= Len(typed)
  <2>1. BufferSize + 1 \in 1..Len(typed) + 1 /\ Len(typed) \in BufferSize + 1 - 1..Len(typed)
    BY <1>4, <1>5
  <2>2. /\ rest' \in Seq(Byte)
        /\ Len(rest') = Len(typed) - (BufferSize + 1) + 1
    BY <1>1, <1>3, <2>1, SubSeqProperties
  <2>3. Len(typed) <= BufferSize => Len(rest') = 0
    BY <1>4, <1>5, <2>2
  <2>4. Len(rest') = 0 => rest' = <<>>
    BY <2>2, EmptySeq
  <2> QED
    BY <1>1, <1>2, <2>2, <2>3, <2>4 DEF Receive, Command
<1>6. CASE Len(typed) < BufferSize
  <2>1. rest' = <<>>
    BY <1>1, <1>3, <1>4, <1>6
  <2> QED
    BY <1>1, <1>2, <2>1, EmptySeq DEF Receive, Command
<1> QED
  BY <1>4, <1>5, <1>6

LEMMA AssignStep ==
  ASSUME memory \in [Addresses -> Byte], NEW v \in Variables, NEW bytes \in Seq(Byte),
         Assign(v, bytes)
  PROVE  /\ memory' \in [Addresses -> Byte] /\ status' = status
         /\ \A i \in 1..Len(bytes) :
              v.address + i - 1 \in Addresses => memory'[v.address + i - 1] = bytes[i]
         /\ \A a \in Addresses :
              a \notin v.address..v.address + Len(bytes) - 1 => memory'[a] = memory[a]
<1> DEFINE at == v.address
<1>1. /\ at \in Int /\ DOMAIN memory = Addresses /\ DOMAIN memory \subseteq Int
      /\ memory \in [DOMAIN memory -> Byte]
  BY VariableIs, Sizes
<1>2. memory' = Stored(memory, at, bytes) /\ status' = status
  BY DEF Assign
<1> HIDE DEF at
<1>3. LET m == Stored(memory, at, bytes)
      IN /\ m \in [DOMAIN memory -> Byte] /\ DOMAIN m = DOMAIN memory
         /\ \A i \in 1..Len(bytes) :
              at + i - 1 \in DOMAIN memory => m[at + i - 1] = bytes[i]
         /\ \A a \in DOMAIN memory :
              a \notin at..at + Len(bytes) - 1 => m[a] = memory[a]
  BY <1>1, StoredBytes
<1> QED
  BY <1>1, <1>2, <1>3 DEF at

(* What is there already.                                                  *)
LEMMA SameBytes ==
  ASSUME memory \in [Addresses -> Byte], NEW v \in Variables, NEW bytes \in Seq(Byte),
         \A i \in 1..Len(bytes) :
           v.address + i - 1 \in Addresses => memory[v.address + i - 1] = bytes[i],
         Assign(v, bytes)
  PROVE  memory' = memory
<1>1. memory' \in [Addresses -> Byte]
  BY AssignStep
<1>2. ASSUME NEW a \in Addresses PROVE memory'[a] = memory[a]
  <2>1. CASE a \notin v.address..v.address + Len(bytes) - 1
    BY <2>1, AssignStep
  <2>2. CASE a \in v.address..v.address + Len(bytes) - 1
    <3> DEFINE i == a - v.address + 1
    <3>1. i \in 1..Len(bytes) /\ v.address + i - 1 = a
      <4>1. v.address \in Nat /\ Len(bytes) \in Nat /\ a \in Int
        BY VariableIs, LenProperties, Sizes
      <4> QED
        BY <2>2, <4>1
    <3> HIDE DEF i
    <3>2. memory'[v.address + i - 1] = bytes[i]
      BY <3>1, AssignStep
    <3>3. memory[v.address + i - 1] = bytes[i]
      BY <3>1
    <3> QED
      BY <3>1, <3>2, <3>3
  <2> QED
    BY <2>1, <2>2
<1> QED
  BY <1>1, <1>2

(* One byte.                                                               *)
LEMMA AssignByte ==
  ASSUME memory \in [Addresses -> Byte], NEW v \in Variables, NEW b \in Byte,
         Assign(v, <<b>>)
  PROVE  /\ memory' \in [Addresses -> Byte] /\ status' = status
         /\ memory'[v.address] = b
         /\ \A a \in Addresses \ {v.address} : memory'[a] = memory[a]
         /\ memory[v.address] = b => memory' = memory
<1> DEFINE bytes == <<b>>
<1>1. bytes \in Seq(Byte) /\ Len(bytes) = 1 /\ bytes[1] = b
  BY OneIs
<1>2. Assign(v, bytes)
  OBVIOUS
<1> HIDE DEF bytes
<1>3. v.address \in Addresses /\ v.address \in Nat /\ Addresses \subseteq Int
  BY VariableIs, Sizes
<1>4. /\ memory' \in [Addresses -> Byte] /\ status' = status
      /\ \A i \in 1..Len(bytes) :
           v.address + i - 1 \in Addresses => memory'[v.address + i - 1] = bytes[i]
      /\ \A a \in Addresses :
           a \notin v.address..v.address + Len(bytes) - 1 => memory'[a] = memory[a]
  BY <1>1, <1>2, AssignStep
<1>5. memory'[v.address] = b
  <2>1. 1 \in 1..Len(bytes) /\ v.address + 1 - 1 = v.address
    BY <1>1, <1>3
  <2>2. memory'[v.address + 1 - 1] = bytes[1]
    BY <1>3, <1>4, <2>1
  <2> QED
    BY <1>1, <2>1, <2>2
<1>6. ASSUME NEW a \in Addresses \ {v.address} PROVE memory'[a] = memory[a]
  <2>1. a \notin v.address..v.address + Len(bytes) - 1
    BY <1>1, <1>3
  <2> QED
    BY <1>4, <2>1
<1>7. memory[v.address] = b => memory' = memory
  <2> SUFFICES ASSUME memory[v.address] = b PROVE memory' = memory
    OBVIOUS
  <2>1. \A a \in Addresses : memory'[a] = memory[a]
    BY <1>5, <1>6
  <2> QED
    BY <1>4, <2>1
<1> QED
  BY <1>4, <1>5, <1>6, <1>7

-----------------------------------------------------------------------------
(* Reading.                                                                *)

LEMMA ReadKeeps ==
  ASSUME Inv, NEW v \in Variables, NEW typed \in Typed, Receive(v, typed),
         memory' \in [Addresses -> Byte], status' \in {"running", "invalid"},
         v.type = "int" => ReadsNumbers'
  PROVE  Inv'
<1>1. /\ typed \in Seq(Byte)
      /\ tmp' \in [TmpAddresses -> Byte] /\ rest' \in Seq(Byte)
      /\ event'.kind = "read" /\ event'.var = v /\ event'.text = typed
  BY ReceiveStep DEF Inv
<1>2. BytesOK'
  BY <1>1 DEF BytesOK
<1>3. EventOK'
  BY <1>1 DEF EventOK
<1>4. LeftBehind' /\ WritesValues'
  BY <1>1 DEF LeftBehind, WritesValues
<1>5. ReadsNumbers'
  BY <1>1 DEF ReadsNumbers
<1> QED
  BY <1>2, <1>3, <1>4, <1>5 DEF Inv

(* The text of a line with its line feed, in front of it.                  *)
LEMMA LineOf ==
  ASSUME NEW typed \in Seq(Byte)
  PROVE  LET line == SubSeq(typed, 1, Len(typed) - 1)
         IN typed = Append(line, LF) => line \in Seq(Byte)
<1> DEFINE line == SubSeq(typed, 1, Len(typed) - 1)
<1> SUFFICES ASSUME typed = Append(line, LF) PROVE line \in Seq(Byte)
  OBVIOUS
<1>1. CASE typed = <<>>
  BY <1>1
<1>2. CASE typed # <<>>
  <2>1. Len(typed) \in Nat \ {0}
    BY <1>2, EmptySeq, LenProperties
  <2>2. Len(typed) - 1 \in 0..Len(typed)
    BY <2>1
  <2> QED
    BY <2>2, Front
<1> QED
  BY <1>1, <1>2

LEMMA ReadIntStep ==
  ASSUME Inv, NEW v \in Variables, NEW typed \in Typed, ReadInt(v, typed)
  PROVE  Inv'
<1> DEFINE w == IntegerOf(TextAt(tmp', 0))
<1>1. v.type = "int" /\ Receive(v, typed)
      /\ IF w = Invalid THEN InvalidInput ELSE Assign(v, <<w>>)
  BY DEF ReadInt
<1>2. /\ typed \in Seq(Byte) /\ status = "running"
      /\ tmp' \in [TmpAddresses -> Byte]
      /\ event'.kind = "read" /\ event'.var = v /\ event'.text = typed
  BY <1>1, ReceiveStep DEF Inv
<1>3. tmp \in [TmpAddresses -> Byte] /\ memory \in [Addresses -> Byte]
  BY DEF Inv, BytesOK
<1>4. w \in Values
  <2>1. TextAt(tmp', 0) \in Seq(Byte)
    BY <1>2, Sizes, TextIs
  <2> QED
    BY <2>1, TextRead
<1>5. w # Invalid => w \in Byte
  BY <1>4 DEF Values, Invalid, Word, Byte
<1>6. tmp' = BufferAfter(typed)
  BY <1>1 DEF Receive
<1> HIDE DEF w
<1>7. /\ memory' \in [Addresses -> Byte] /\ status' \in {"running", "invalid"}
      /\ w # Invalid => memory'[v.address] = w /\ status' = "running"
      /\ w = Invalid => status' = "invalid"
  <2>1. CASE w = Invalid
    BY <1>1, <1>3, <2>1 DEF InvalidInput
  <2>2. CASE w # Invalid
    BY <1>1, <1>2, <1>3, <1>5, <2>2, AssignByte
  <2> QED
    BY <2>1, <2>2
<1>8. ReadsNumbers'
  <2> DEFINE line == SubSeq(typed, 1, Len(typed) - 1)
             n == Number(line)
             beginnings == Beginnings(Unsigned(line))
  <2> SUFFICES ASSUME typed = Append(line, LF), IsNumeral(line), Len(line) <= StringSize
               PROVE  /\ InRange(n) => status' = "running" /\ Signed(memory'[v.address]) = n
                      /\ status' = "running" =>
                           /\ (Signed(memory'[v.address]) - n) % Word = 0
                           /\ \/ n \in -(Word - 1) .. Word - 1
                              \/ \E i \in DOMAIN beginnings : beginnings[i] \in Word .. Word + 3
    BY <1>2 DEF ReadsNumbers, Value
  <2>1. line \in Seq(Byte)
    BY <1>2, LineOf
  <2> HIDE DEF line
  <2> DEFINE r == IntegerOf(line)
  <2>2. /\ n \in Int /\ r \in Values
        /\ InRange(n) => r # Invalid /\ Signed(r) = n
        /\ r # Invalid =>
             /\ (Signed(r) - n) % Word = 0
             /\ n \in -(Word - 1)..Word - 1
                \/ \E i \in DOMAIN beginnings : beginnings[i] \in Word..Word + 3
        /\ \A i \in 1..Len(line) : line[i] # NUL
    BY <2>1, NumeralRead
  <2>3. TextAt(BufferAfter(Append(line, LF)), 0) = line
    BY <1>3, <2>1, <2>2, LineReceived
  <2>4. w = r
    BY <1>6, <2>3 DEF w
  <2> HIDE DEF n, beginnings, r
  <2>5. CASE w = Invalid
    BY <1>7, <2>2, <2>4, <2>5
  <2>6. CASE w # Invalid
    BY <1>7, <2>2, <2>4, <2>6
  <2> QED
    BY <2>5, <2>6
<1> QED
  BY <1>1, <1>7, <1>8, ReadKeeps

LEMMA ReadLogicStep ==
  ASSUME Inv, NEW v \in Variables, NEW typed \in Typed, ReadLogic(v, typed)
  PROVE  Inv'
<1>1. /\ v.type = "logic" /\ Receive(v, typed)
      /\ Assign(v, <<0>>) \/ Assign(v, <<1>>) \/ InvalidInput
  BY DEF ReadLogic
<1>2. memory \in [Addresses -> Byte] /\ status = "running"
  BY <1>1, ReceiveStep DEF Inv, BytesOK
<1>3. 0 \in Byte /\ 1 \in Byte
  BY DEF Byte
<1>4. memory' \in [Addresses -> Byte] /\ status' \in {"running", "invalid"}
  <2>1. CASE Assign(v, <<0>>)
    BY <1>2, <1>3, <2>1, AssignByte
  <2>2. CASE Assign(v, <<1>>)
    BY <1>2, <1>3, <2>2, AssignByte
  <2>3. CASE InvalidInput
    BY <1>2, <2>3 DEF InvalidInput
  <2> QED
    BY <1>1, <2>1, <2>2, <2>3
<1> QED
  BY <1>1, <1>4, ReadKeeps

LEMMA ReadCharStep ==
  ASSUME Inv, NEW v \in Variables, NEW typed \in Typed, ReadChar(v, typed)
  PROVE  Inv'
<1>1. v.type = "char" /\ Receive(v, typed) /\ Assign(v, <<tmp'[0]>>)
  BY DEF ReadChar
<1>2. /\ memory \in [Addresses -> Byte] /\ status = "running"
      /\ tmp' \in [TmpAddresses -> Byte]
  BY <1>1, ReceiveStep DEF Inv, BytesOK
<1>3. tmp'[0] \in Byte
  BY <1>2, Sizes
<1>4. memory' \in [Addresses -> Byte] /\ status' = "running"
  BY <1>1, <1>2, <1>3, AssignByte
<1> QED
  BY <1>1, <1>4, ReadKeeps

(* The string and its NUL.                                                 *)
LEMMA TextAndNul ==
  ASSUME NEW text \in Seq(Byte)
  PROVE  LET bytes == Append(text, NUL)
         IN /\ bytes \in Seq(Byte) /\ Len(bytes) = Len(text) + 1 /\ Len(text) \in Nat
            /\ \A i \in 1..Len(text) : bytes[i] = text[i]
            /\ bytes[Len(text) + 1] = NUL
<1>1. NUL \in Byte
  BY DEF NUL, Byte
<1> QED
  BY <1>1, Appended

LEMMA ReadStringStep ==
  ASSUME Inv, NEW v \in Variables, NEW typed \in Typed, ReadString(v, typed)
  PROVE  Inv'
<1> DEFINE bytes == Append(TextAt(tmp', 0), NUL)
<1>1. v.type = "string" /\ Receive(v, typed) /\ Assign(v, bytes)
  BY DEF ReadString
<1>2. /\ memory \in [Addresses -> Byte] /\ status = "running"
      /\ tmp' \in [TmpAddresses -> Byte]
  BY <1>1, ReceiveStep DEF Inv, BytesOK
<1>3. bytes \in Seq(Byte)
  <2>1. TextAt(tmp', 0) \in Seq(Byte)
    BY <1>2, Sizes, TextIs
  <2> QED
    BY <2>1, TextAndNul
<1> HIDE DEF bytes
<1>4. memory' \in [Addresses -> Byte] /\ status' = "running"
  BY <1>1, <1>2, <1>3, AssignStep
<1> QED
  BY <1>1, <1>4, ReadKeeps

-----------------------------------------------------------------------------
(* Writing.                                                                *)

LEMMA SendStep ==
  ASSUME Inv, NEW v \in Variables, NEW text \in Seq(Byte), NEW terminator \in Seq(Byte),
         NEW newLine \in BOOLEAN, Send(v, text, terminator, newLine)
  PROVE  /\ BytesOK' /\ EventOK' /\ memory' = memory /\ ReadsNumbers'
         /\ event'.kind = "write" /\ event'.var = v /\ event'.text = text
<1> DEFINE ending == IF newLine THEN <<LF, NUL>> ELSE <<>>
           first == Stored(tmp, 0, text \o terminator)
           second == Stored(first, Len(text), ending)
<1>1. /\ tmp' = second /\ memory' = memory /\ rest' = rest /\ status' = status
      /\ status = "running"
      /\ event'.kind = "write" /\ event'.var = v /\ event'.text = text
  BY DEF Send, Command
<1>2. ending \in Seq(Byte)
  <2>1. LF \in Byte /\ NUL \in Byte
    BY DEF LF, NUL, Byte
  <2> QED
    BY <2>1, EmptySeq
<1>3. tmp \in [TmpAddresses -> Byte] /\ TmpAddresses \subseteq Int
  BY Sizes DEF Inv, BytesOK
<1>4. text \o terminator \in Seq(Byte) /\ Len(text) \in Int
  BY ConcatProperties, LenProperties
<1>5. first \in [TmpAddresses -> Byte]
  <2>1. DOMAIN tmp = TmpAddresses /\ 0 \in Int
    BY <1>3
  <2> QED
    BY <1>3, <1>4, <2>1, StoredBytes
<1> HIDE DEF ending, first
<1>6. second \in [TmpAddresses -> Byte]
  <2>1. DOMAIN first = TmpAddresses
    BY <1>5
  <2> QED
    BY <1>2, <1>3, <1>4, <1>5, <2>1, StoredBytes
<1> HIDE DEF second
<1>7. BytesOK'
  BY <1>1, <1>6 DEF BytesOK, Inv
<1>8. EventOK'
  BY <1>1 DEF EventOK
<1>9. ReadsNumbers'
  BY <1>1 DEF ReadsNumbers
<1> QED
  BY <1>1, <1>7, <1>8, <1>9

LEMMA WriteIntStep ==
  ASSUME Inv, NEW v \in Variables, NEW newLine \in BOOLEAN, WriteInt(v, newLine)
  PROVE  Inv'
<1> DEFINE w == memory[v.address]
           s == IntegerText(w)
<1>1. w \in Byte
  BY VariableIs DEF Inv, BytesOK
<1>2. /\ s \in Seq(Byte) /\ Len(s) \in 1..4 /\ InRange(Signed(w))
      /\ Signed(w) # -Least =>
           /\ IsNumeral(s) /\ Number(s) = Signed(w)
           /\ Head(Unsigned(s)) = Zero => s = <<Zero>>
  BY <1>1, IntegerWritten
<1>3. v.type = "int" /\ Send(v, s, <<NUL>>, newLine)
  BY DEF WriteInt
<1>4. <<NUL>> \in Seq(Byte)
  BY OneIs DEF NUL, Byte
<1> HIDE DEF s
<1>5. /\ BytesOK' /\ EventOK' /\ memory' = memory /\ ReadsNumbers'
      /\ event'.kind = "write" /\ event'.var = v /\ event'.text = s
  BY <1>2, <1>3, <1>4, SendStep
<1>6. LeftBehind'
  <2> DEFINE n == Len(s)
  <2>3. v.type = "int" /\ n \in 1..4
    BY <1>2, <1>3
  <2> HIDE DEF n
  <2>4. v.type = "int" /\ n <= 4
    BY <2>3
  <2>1. v.type = "int" /\ Len(s) <= 4
    BY <2>4 DEF n
  <2>2. v.type # "logic"
    BY <2>1
  <2> QED
    BY <1>5, <2>1, <2>2 DEF LeftBehind
<1>7. WritesValues'
  BY <1>2, <1>3, <1>5 DEF WritesValues, Value
<1> QED
  BY <1>5, <1>6, <1>7 DEF Inv

LEMMA WriteCharStep ==
  ASSUME Inv, NEW v \in Variables, NEW newLine \in BOOLEAN, WriteChar(v, newLine)
  PROVE  Inv'
<1> DEFINE s == <<memory[v.address]>>
<1>1. memory[v.address] \in Byte
  BY VariableIs DEF Inv, BytesOK
<1>2. s \in Seq(Byte)
  BY <1>1, OneIs
<1>3. v.type = "char" /\ Send(v, s, <<NUL>>, newLine)
  BY DEF WriteChar
<1>4. <<NUL>> \in Seq(Byte)
  BY OneIs DEF NUL, Byte
<1>5. /\ BytesOK' /\ EventOK' /\ memory' = memory /\ ReadsNumbers'
      /\ event'.kind = "write" /\ event'.var = v /\ event'.text = s
  BY <1>2, <1>3, <1>4, SendStep
<1>6. LeftBehind'
  BY <1>3, <1>5 DEF LeftBehind
<1>7. WritesValues'
  BY <1>3, <1>5 DEF WritesValues
<1> QED
  BY <1>5, <1>6, <1>7 DEF Inv

LEMMA WriteStringStep ==
  ASSUME Inv, NEW v \in Variables, NEW newLine \in BOOLEAN, WriteString(v, newLine)
  PROVE  Inv'
<1> DEFINE s == TextAt(memory, v.address)
<1>1. memory \in [0..MemSize - 1 -> Byte] /\ v.address \in Nat
  BY VariableIs, Sizes DEF Inv, BytesOK
<1>2. /\ s \in Seq(Byte) /\ Len(s) \in Nat
      /\ Stops(memory, v.address, Len(s))
      /\ \A i \in 1..Len(s) : /\ v.address + i - 1 \in 0..MemSize - 1
                              /\ s[i] = memory[v.address + i - 1] /\ s[i] # NUL
  BY <1>1, Sizes, TextIs
<1>3. v.type = "string" /\ Send(v, s, <<NUL>>, newLine)
  BY DEF WriteString
<1>4. <<NUL>> \in Seq(Byte)
  BY OneIs DEF NUL, Byte
<1> HIDE DEF s
<1>5. /\ BytesOK' /\ EventOK' /\ memory' = memory /\ ReadsNumbers'
      /\ event'.kind = "write" /\ event'.var = v /\ event'.text = s
  BY <1>2, <1>3, <1>4, SendStep
<1>6. LeftBehind'
  BY <1>3, <1>5, SMTT(30) DEF LeftBehind
<1>7. WritesValues'
  <2>1. DOMAIN s = 1..Len(s)
    BY <1>2, LenProperties
  <2>2. v.address + Len(s) \in Addresses => memory[v.address + Len(s)] = NUL
    BY <1>1, <1>2, Sizes DEF Stops
  <2> QED
    BY <1>2, <1>3, <1>5, <2>1, <2>2 DEF WritesValues
<1> QED
  BY <1>5, <1>6, <1>7 DEF Inv

(* The words, and the eight bytes that they are stored and compared as.    *)
LEMMA Words ==
  /\ FalseWord \in Seq(Byte) /\ Len(FalseWord) = 5
  /\ TrueWord \in Seq(Byte) /\ Len(TrueWord) = 4
  /\ \A word \in {FalseWord, TrueWord} :
       /\ \A i \in 1..Len(word) : word[i] # NUL
       /\ Padded(word) \in [1..8 -> Byte]
       /\ \A i \in 1..8 : Padded(word)[i] = IF i <= Len(word) THEN word[i] ELSE NUL
  /\ \A i \in 1..8 : Padded(<<>>)[i] = NUL
  /\ Padded(FalseWord) # Padded(TrueWord) /\ FalseWord # TrueWord
<1>1. FalseWord \in Seq(Byte) /\ Len(FalseWord) = 5
  BY DEF FalseWord, Byte
<1>2. TrueWord \in Seq(Byte) /\ Len(TrueWord) = 4
  BY DEF TrueWord, Byte
<1>3. ASSUME NEW word \in {FalseWord, TrueWord}, NEW i \in 1..Len(word)
      PROVE  word[i] \in Byte /\ word[i] # NUL
  <2>1. CASE word = FalseWord
    BY <2>1 DEF FalseWord, Byte, NUL
  <2>2. CASE word = TrueWord
    BY <2>2 DEF TrueWord, Byte, NUL
  <2> QED
    BY <2>1, <2>2
<1>4. ASSUME NEW word \in {FalseWord, TrueWord}, NEW i \in 1..8
      PROVE  /\ Padded(word)[i] = IF i <= Len(word) THEN word[i] ELSE NUL
             /\ Padded(word)[i] \in Byte
  <2>1. Padded(word)[i] = IF i <= Len(word) THEN word[i] ELSE NUL
    BY DEF Padded
  <2>2. Len(word) \in Nat /\ NUL \in Byte
    BY <1>1, <1>2 DEF NUL, Byte
  <2> QED
    BY <1>3, <2>1, <2>2
<1>5. \A word \in {FalseWord, TrueWord} : Padded(word) \in [1..8 -> Byte]
  BY <1>4 DEF Padded
<1>6. \A i \in 1..8 : Padded(<<>>)[i] = NUL
  BY DEF Padded
<1>7. Padded(FalseWord)[1] = 102 /\ Padded(TrueWord)[1] = 116
  BY DEF Padded, FalseWord, TrueWord
<1>8. FalseWord # TrueWord
  <2>1. ASSUME NEW x, NEW y, Len(x) = 5, Len(y) = 4 PROVE x # y
    <3>1. 5 # 4
      OBVIOUS
    <3> QED
      BY <2>1, <3>1, Zenon
  <2> QED
    BY <1>1, <1>2, <2>1, Zenon
<1> QED
  BY <1>1, <1>2, <1>3, <1>4, <1>5, <1>6, <1>7, <1>8

(* The five bytes of a word that are written.                              *)
LEMMA FiveBytes ==
  /\ SubSeq(Padded(FalseWord), 1, 5) = FalseWord
  /\ SubSeq(Padded(TrueWord), 1, 5) = Append(TrueWord, NUL)
<1>1. ASSUME NEW word \in {FalseWord, TrueWord}
      PROVE  LET p == SubSeq(Padded(word), 1, 5)
             IN /\ p \in Seq(Byte) /\ Len(p) = 5
                /\ \A i \in 1..5 : p[i] = IF i <= Len(word) THEN word[i] ELSE NUL
  <2> DEFINE q == Padded(word)
  <2>1. q \in [1..8 -> Byte]
    BY Words
  <2>2. q \in Seq(Byte) /\ Len(q) = 8
    BY <2>1, BytesAreSeq
  <2>3. \A i \in 1..8 : q[i] = IF i <= Len(word) THEN word[i] ELSE NUL
    BY Words
  <2> HIDE DEF q
  <2>4. 5 \in 0..Len(q)
    BY <2>2
  <2>5. LET p == SubSeq(q, 1, 5)
        IN p \in Seq(Byte) /\ Len(p) = 5 /\ \A i \in 1..5 : p[i] = q[i]
    BY <2>2, <2>4, Front
  <2> QED
    BY <2>3, <2>5 DEF q
<1>2. SubSeq(Padded(FalseWord), 1, 5) = FalseWord
  <2> DEFINE p == SubSeq(Padded(FalseWord), 1, 5)
             f == FalseWord
  <2>1. /\ p \in Seq(Byte) /\ Len(p) = 5
        /\ \A i \in 1..5 : p[i] = IF i <= Len(f) THEN f[i] ELSE NUL
    BY <1>1
  <2>2. f \in Seq(Byte) /\ Len(f) = 5
    BY Words
  <2> HIDE DEF p, f
  <2>3. \A i \in 1..5 : p[i] = f[i]
    BY <2>1, <2>2
  <2>4. p = f
    BY <2>1, <2>2, <2>3, SeqEqual
  <2> QED
    BY <2>4 DEF p, f
<1>3. SubSeq(Padded(TrueWord), 1, 5) = Append(TrueWord, NUL)
  <2> DEFINE p == SubSeq(Padded(TrueWord), 1, 5)
             w == TrueWord
             t == Append(w, NUL)
  <2>5. /\ p \in Seq(Byte) /\ Len(p) = 5
        /\ \A i \in 1..5 : p[i] = IF i <= Len(w) THEN w[i] ELSE NUL
    BY <1>1
  <2>6. w \in Seq(Byte) /\ Len(w) = 4
    BY Words
  <2> HIDE DEF p, w
  <2>1. /\ p \in Seq(Byte) /\ Len(p) = 5
        /\ \A i \in 1..5 : p[i] = IF i <= 4 THEN w[i] ELSE NUL
    BY <2>5, <2>6
  <2>7. /\ t \in Seq(Byte) /\ Len(t) = Len(w) + 1
        /\ \A i \in 1..Len(w) : t[i] = w[i]
        /\ t[Len(w) + 1] = NUL
    BY <2>6, TextAndNul
  <2> HIDE DEF t
  <2>2. /\ t \in Seq(Byte) /\ Len(t) = 5
        /\ \A i \in 1..4 : t[i] = w[i]
        /\ t[5] = NUL
    BY <2>6, <2>7
  <2>3. \A i \in 1..5 : p[i] = t[i]
    <3> TAKE i \in 1..5
    <3>1. CASE i = 5
      BY <2>1, <2>2, <3>1
    <3>2. CASE i \in 1..4
      BY <2>1, <2>2, <3>2
    <3> QED
      BY <3>1, <3>2
  <2>4. p = t
    BY <2>1, <2>2, <2>3, SeqEqual
  <2> QED
    BY <2>4 DEF p, t, w
<1> QED
  BY <1>2, <1>3

LEMMA ThreeNuls ==
  ASSUME NEW text \in Seq(Byte), Len(text) = 5
  PROVE  LET b == text \o <<NUL, NUL, NUL>>
         IN b \in Seq(Byte) /\ Len(b) = 8 /\ b[7] = NUL /\ b[8] = NUL
<1> DEFINE z == <<NUL, NUL, NUL>>
<1>1. z \in Seq(Byte) /\ Len(z) = 3 /\ z[2] = NUL /\ z[3] = NUL
  BY DEF NUL, Byte
<1> HIDE DEF z
<1>2. /\ text \o z \in Seq(Byte) /\ Len(text \o z) = Len(text) + Len(z)
      /\ \A i \in 1..Len(text) + Len(z) :
           (text \o z)[i] = IF i <= Len(text) THEN text[i] ELSE z[i - Len(text)]
  BY <1>1, ConcatProperties
<1>3. Len(text) + Len(z) = 8 /\ 7 - 5 = 2 /\ 8 - 5 = 3 /\ ~(7 <= 5) /\ ~(8 <= 5)
  BY <1>1
<1>4. 7 \in 1..Len(text) + Len(z) /\ 8 \in 1..Len(text) + Len(z)
  BY <1>3
<1>5. (text \o z)[7] = z[7 - 5] /\ (text \o z)[8] = z[8 - 5]
  BY <1>2, <1>3, <1>4
<1> QED
  BY <1>1, <1>2, <1>3, <1>5 DEF z

LEMMA StoredInTmp ==
  ASSUME NEW m \in [TmpAddresses -> Byte], NEW address \in Int, NEW bytes \in Seq(Byte)
  PROVE  LET r == Stored(m, address, bytes)
         IN /\ r \in [TmpAddresses -> Byte]
            /\ \A i \in 1..Len(bytes) :
                 address + i - 1 \in TmpAddresses => r[address + i - 1] = bytes[i]
            /\ \A a \in TmpAddresses :
                 a \notin address..address + Len(bytes) - 1 => r[a] = m[a]
<1>1. /\ DOMAIN m = TmpAddresses /\ DOMAIN m \subseteq Int
      /\ m \in [DOMAIN m -> Byte]
  BY Sizes
<1>2. LET r == Stored(m, address, bytes)
      IN /\ r \in [DOMAIN m -> Byte] /\ DOMAIN r = DOMAIN m
         /\ \A i \in 1..Len(bytes) :
              address + i - 1 \in DOMAIN m => r[address + i - 1] = bytes[i]
         /\ \A a \in DOMAIN m :
              a \notin address..address + Len(bytes) - 1 => r[a] = m[a]
  BY <1>1, StoredBytes
<1> QED
  BY <1>1, <1>2

(* The bytes behind a word that was written.                               *)
LEMMA BehindAWord ==
  ASSUME tmp \in [TmpAddresses -> Byte], NEW text \in Seq(Byte), Len(text) = 5,
         NEW newLine \in BOOLEAN,
         NEW t, t = Stored(Stored(tmp, 0, text \o <<NUL, NUL, NUL>>), Len(text),
                           IF newLine THEN <<LF, NUL>> ELSE <<>>)
  PROVE  t[6] = NUL /\ t[7] = NUL
<1> DEFINE b == text \o <<NUL, NUL, NUL>>
           z == 0
           five == 5
           first == Stored(tmp, z, b)
           ending == IF newLine THEN <<LF, NUL>> ELSE <<>>
<1>1. b \in Seq(Byte) /\ Len(b) = 8 /\ b[7] = NUL /\ b[8] = NUL
  BY ThreeNuls
<1>2. 6 \in TmpAddresses /\ 7 \in TmpAddresses /\ TmpAddresses \subseteq Int
  BY Sizes
<1>3. t = Stored(first, five, ending)
  OBVIOUS
<1>4. /\ ending \in Seq(Byte) /\ Len(ending) \in {0, 2}
      /\ Len(ending) = 2 => ending[2] = NUL
  <2> DEFINE u == <<LF, NUL>>
             e == <<>>
  <2>1. u \in Seq(Byte) /\ Len(u) = 2 /\ u[2] = NUL
    BY DEF LF, NUL, Byte
  <2>2. e \in Seq(Byte) /\ Len(e) = 0
    BY EmptySeq
  <2>3. ending = u \/ ending = e
    OBVIOUS
  <2> HIDE DEF u, e, ending
  <2>4. CASE ending = u
    BY <2>1, <2>4
  <2>5. CASE ending = e
    BY <2>2, <2>5
  <2> QED
    BY <2>3, <2>4, <2>5
<1>z. z = 0 /\ z \in Int /\ five = 5 /\ five \in Int
  OBVIOUS
<1> HIDE DEF b, ending, z, five
<1>5. /\ first \in [TmpAddresses -> Byte]
      /\ \A i \in 1..Len(b) : z + i - 1 \in TmpAddresses => first[z + i - 1] = b[i]
  BY <1>1, <1>z, StoredInTmp
<1> HIDE DEF first
<1>6. first[6] = NUL /\ first[7] = NUL
  <2> DEFINE i == 7
             j == 8
  <2>1. z + i - 1 = 6 /\ z + j - 1 = 7 /\ i \in 1..Len(b) /\ j \in 1..Len(b)
    BY <1>1, <1>z
  <2>3. b[i] = NUL /\ b[j] = NUL
    BY <1>1
  <2> HIDE DEF i, j
  <2>4. first[z + i - 1] = b[i] /\ first[z + j - 1] = b[j]
    BY <1>2, <1>5, <2>1
  <2> QED
    BY <2>1, <2>3, <2>4
<1>7. /\ \A i \in 1..Len(ending) : five + i - 1 \in TmpAddresses => t[five + i - 1] = ending[i]
      /\ \A a \in TmpAddresses : a \notin five..five + Len(ending) - 1 => t[a] = first[a]
  <2>1. first \in [TmpAddresses -> Byte] /\ five \in Int /\ ending \in Seq(Byte)
    BY <1>4, <1>5, <1>z
  <2>2. LET r == Stored(first, five, ending)
        IN /\ \A i \in 1..Len(ending) :
                five + i - 1 \in TmpAddresses => r[five + i - 1] = ending[i]
           /\ \A a \in TmpAddresses :
                a \notin five..five + Len(ending) - 1 => r[a] = first[a]
    BY <2>1, StoredInTmp, ZenonT(40)
  <2> DEFINE r == Stored(first, five, ending)
  <2>3. t = r
    BY <1>3
  <2>4. /\ \A i \in 1..Len(ending) :
             five + i - 1 \in TmpAddresses => r[five + i - 1] = ending[i]
        /\ \A a \in TmpAddresses :
             a \notin five..five + Len(ending) - 1 => r[a] = first[a]
    BY <2>2
  <2> HIDE DEF r
  <2> QED
    BY <2>3, <2>4
<1> DEFINE n == Len(ending)
<1>m. n = 0 \/ n = 2
  BY <1>4
<1>8. t[7] = NUL
  <2> HIDE DEF n
  <2>1. 7 \notin five..five + n - 1
    BY <1>m, <1>z
  <2> QED
    BY <1>2, <1>6, <1>7, <2>1 DEF n
<1>9. t[6] = NUL
  <2>1. CASE n = 0
    <3> HIDE DEF n
    <3>1. 6 \notin five..five + n - 1
      BY <1>z, <2>1
    <3> QED
      BY <1>2, <1>6, <1>7, <3>1 DEF n
  <2>2. CASE n = 2
    <3> DEFINE i == 2
    <3>1. i \in 1..Len(ending) /\ five + i - 1 = 6 /\ ending[i] = NUL
      BY <1>4, <1>z, <2>2
    <3> HIDE DEF i
    <3>2. t[five + i - 1] = ending[i]
      BY <1>2, <1>7, <3>1
    <3> QED
      BY <3>1, <3>2
  <2> QED
    BY <1>m, <2>1, <2>2
<1> QED
  BY <1>8, <1>9

LEMMA WriteLogicStep ==
  ASSUME Inv, NEW v \in Variables, NEW newLine \in BOOLEAN, WriteLogic(v, newLine)
  PROVE  Inv'
<1> DEFINE q == Quad(memory, v.address)
           word == IF q = Padded(<<>>) THEN FalseWord ELSE TrueWord
           text == SubSeq(Padded(word), 1, 5)
           nuls == <<NUL, NUL, NUL>>
<1>1. v.type = "logic" /\ Send(v, text, nuls, newLine)
  BY DEF WriteLogic
<1>2. text = IF q = Padded(<<>>) THEN FalseWord ELSE Append(TrueWord, NUL)
  BY FiveBytes
<1>3. text \in Seq(Byte) /\ Len(text) = 5
  <2> DEFINE t == TrueWord
  <2>1. t \in Seq(Byte) /\ Len(t) = 4
    BY Words
  <2> HIDE DEF t
  <2>4. Append(t, NUL) \in Seq(Byte) /\ Len(Append(t, NUL)) = Len(t) + 1
    BY <2>1, TextAndNul
  <2>2. Append(t, NUL) \in Seq(Byte) /\ Len(Append(t, NUL)) = 5
    BY <2>1, <2>4
  <2>3. FalseWord \in Seq(Byte) /\ Len(FalseWord) = 5
    BY Words
  <2> QED
    BY <1>2, <2>2, <2>3 DEF t
<1>4. nuls \in Seq(Byte)
  BY DEF NUL, Byte
<1> HIDE DEF text
<1>5. /\ BytesOK' /\ EventOK' /\ memory' = memory /\ ReadsNumbers'
      /\ event'.kind = "write" /\ event'.var = v /\ event'.text = text
  BY <1>1, <1>3, <1>4, SendStep
<1>6. LeftBehind'
  <2>1. tmp \in [TmpAddresses -> Byte]
    BY DEF Inv, BytesOK
  <2>2. tmp' = Stored(Stored(tmp, 0, text \o nuls), Len(text),
                      IF newLine THEN <<LF, NUL>> ELSE <<>>)
    BY <1>1 DEF Send
  <2>3. tmp'[6] = NUL /\ tmp'[7] = NUL
    BY <1>3, <2>1, <2>2, BehindAWord
  <2> QED
    BY <1>1, <1>5, <2>3 DEF LeftBehind
<1>7. WritesValues'
  <2> DEFINE value == memory[v.address]
  <2>1. q[1] = value /\ DOMAIN q = 1..8 /\ q = [i \in 1..8 |-> q[i]]
    <3>1. v.address \in Addresses /\ v.address \in Nat /\ DOMAIN memory = Addresses
      BY VariableIs DEF Inv, BytesOK
    <3>2. v.address + 1 - 1 = v.address
      BY <3>1
    <3> QED
      BY <3>1, <3>2 DEF Quad
  <2>2. CASE q = Padded(<<>>)
    <3>1. text = FalseWord
      BY <1>2, <2>2
    <3>2. value = NUL
      BY <2>1, <2>2, Words
    <3> QED
      BY <1>1, <1>5, <3>1, <3>2 DEF WritesValues, NUL
  <2>3. CASE q # Padded(<<>>)
    <3>1. text = Append(TrueWord, NUL)
      BY <1>2, <2>3
    <3>2. value = 0 => \E k \in 2..8 : q[k] # NUL
      <4> SUFFICES ASSUME value = 0, \A k \in 2..8 : q[k] = NUL PROVE FALSE
        OBVIOUS
      <4>1. \A k \in 1..8 : q[k] = NUL
        <5> TAKE k \in 1..8
        <5>1. k = 1 \/ k \in 2..8
          OBVIOUS
        <5> QED
          BY <2>1, <5>1 DEF NUL
      <4>2. Padded(<<>>) = [i \in 1..8 |-> Padded(<<>>)[i]]
        BY DEF Padded
      <4>3. \A k \in 1..8 : Padded(<<>>)[k] = q[k]
        BY <4>1, Words
      <4> QED
        BY <2>1, <2>3, <4>2, <4>3, Zenon
    <3> QED
      BY <1>1, <1>5, <3>1, <3>2 DEF WritesValues
  <2> QED
    BY <2>2, <2>3
<1> QED
  BY <1>5, <1>6, <1>7 DEF Inv

-----------------------------------------------------------------------------
(* The invariants.                                                         *)

LEMMA Begins == Init => Inv
<1> SUFFICES ASSUME Init PROVE Inv
  OBVIOUS
<1>1. event.kind = "none" /\ status = "running"
  BY DEF Init, NoEvent
<1>2. memory \in [Addresses -> Byte]
  BY InitialAssumption DEF Init
<1>3. tmp \in [TmpAddresses -> Byte] /\ rest \in Seq(Byte)
  BY EmptySeq DEF Init, NUL, Byte
<1> QED
  BY <1>1, <1>2, <1>3 DEF Inv, BytesOK, EventOK, LeftBehind, ReadsNumbers, WritesValues

LEMMA Keeps == Inv /\ [Next]_runtimeVars => Inv'
<1> SUFFICES ASSUME Inv, [Next]_runtimeVars PROVE Inv'
  OBVIOUS
<1>1. CASE UNCHANGED runtimeVars
  BY <1>1 DEF runtimeVars, Inv, BytesOK, EventOK, LeftBehind, ReadsNumbers, WritesValues, Value
<1>2. CASE Done
  BY <1>1, <1>2 DEF Done
<1>3. ASSUME NEW v \in Variables, NEW typed \in Typed,
             \/ ReadInt(v, typed) \/ ReadLogic(v, typed)
             \/ ReadChar(v, typed) \/ ReadString(v, typed)
      PROVE  Inv'
  BY <1>3, ReadIntStep, ReadLogicStep, ReadCharStep, ReadStringStep
<1>4. ASSUME NEW v \in Variables, NEW newLine \in BOOLEAN,
             \/ WriteInt(v, newLine) \/ WriteLogic(v, newLine)
             \/ WriteChar(v, newLine) \/ WriteString(v, newLine)
      PROVE  Inv'
  BY <1>4, WriteIntStep, WriteLogicStep, WriteCharStep, WriteStringStep
<1> QED
  BY <1>1, <1>2, <1>3, <1>4 DEF Next

(* Every command keeps the inductive invariant.                            *)
THEOREM Invariant == Spec => []Inv
<1> QED
  BY Begins, Keeps, PTL DEF Spec

(* What is in memory and in the buffer of a command that reads or writes   *)
(* stays bytes, whatever is typed, and only a command that reads stops the *)
(* program with a message.                                                 *)
THEOREM TypeCorrect == Spec => []TypeOK
<1>1. Inv => TypeOK
  <2> SUFFICES ASSUME Inv PROVE TypeOK
    OBVIOUS
  <2>1. \A k \in DOMAIN rest : rest[k] \in Byte
    BY DEF Inv, BytesOK
  <2> QED
    BY <2>1 DEF Inv, BytesOK, EventOK, TypeOK
<1> QED
  BY <1>1, Invariant, PTL

(* read_int: whatever was typed before, a number in the range of int on a  *)
(* line of its own is read as what it is; of the others none is accepted   *)
(* but those that have no more than 32 bits or begin with 2^32 .. 2^32 + 3.*)
THEOREM NumbersAreRead == Spec => []ReadsNumbers
<1>1. Inv => ReadsNumbers
  BY DEF Inv
<1> QED
  BY <1>1, Invariant, PTL

(* write_integer, write_logic, write_char, write_string: what is written   *)
(* is the value of the variable.                                           *)
THEOREM ValuesAreWritten == Spec => []WritesValues
<1>1. Inv => WritesValues
  BY DEF Inv
<1> QED
  BY <1>1, Invariant, PTL

-----------------------------------------------------------------------------
(* What reading a line does.                                               *)

LEMMA WhoReads ==
  ASSUME Inv, Next, NEW v \in Variables, Reads(v)
  PROVE  \/ UNCHANGED runtimeVars
         \/ \E typed \in Typed :
              \/ ReadInt(v, typed) \/ ReadLogic(v, typed)
              \/ ReadChar(v, typed) \/ ReadString(v, typed)
<1>1. ASSUME NEW u \in Variables, NEW typed \in Typed,
             \/ ReadInt(u, typed) \/ ReadLogic(u, typed)
             \/ ReadChar(u, typed) \/ ReadString(u, typed)
      PROVE  u = v
  <2>1. Receive(u, typed)
    BY <1>1 DEF ReadInt, ReadLogic, ReadChar, ReadString
  <2>2. event'.var = u
    BY <2>1 DEF Receive
  <2> QED
    BY <2>2 DEF Reads
<1>2. ASSUME NEW u \in Variables, NEW newLine \in BOOLEAN,
             \/ WriteInt(u, newLine) \/ WriteLogic(u, newLine)
             \/ WriteChar(u, newLine) \/ WriteString(u, newLine)
      PROVE  FALSE
  <2>1. event'.kind = "write"
    BY <1>2 DEF WriteInt, WriteLogic, WriteChar, WriteString, Send
  <2> QED
    BY <2>1 DEF Reads
<1>3. Done => UNCHANGED runtimeVars
  BY DEF Done
<1> QED
  BY <1>1, <1>2, <1>3 DEF Next

(* The text in the buffer ends before the last byte that was read.         *)
LEMMA TextInBuffer ==
  ASSUME NEW typed \in Seq(Byte), typed # <<>>, tmp \in [TmpAddresses -> Byte],
         NEW t, t = TextAt(BufferAfter(typed), 0)
  PROVE  /\ t \in Seq(Byte) /\ Len(t) \in 0..StringSize
         /\ Len(t) = StringSize => Len(typed) > StringSize
<1> DEFINE b == BufferAfter(typed)
           n == Taken(typed)
<1>1. /\ b \in [TmpAddresses -> Byte] /\ Len(typed) \in Nat
      /\ n \in 1..BufferSize /\ n <= Len(typed) /\ b[n - 1] = NUL
  BY Received
<1> HIDE DEF b, n
<1>2. /\ t \in Seq(Byte) /\ Len(t) \in Nat
      /\ \A k \in Nat : Stops(b, 0, k) => Len(t) <= k
  <2>1. b \in [0..(BufferSize + 2) - 1 -> Byte]
    BY <1>1, Sizes
  <2> QED
    BY <2>1, Sizes, TextIs DEF b
<1>3. n - 1 \in Nat /\ 0 + (n - 1) = n - 1
  BY <1>1, Sizes
<1>4. Stops(b, 0, n - 1)
  BY <1>1, <1>3 DEF Stops
<1>5. Len(t) <= n - 1
  BY <1>2, <1>3, <1>4
<1> DEFINE k == Len(t)
           l == Len(typed)
<1>6. k \in Nat /\ l \in Nat /\ k <= n - 1 /\ n \in 1..StringSize + 1 /\ n <= l
      /\ StringSize \in Nat
  BY <1>1, <1>2, <1>5, Sizes
<1> HIDE DEF k, l
<1>7. k \in 0..StringSize /\ (k = StringSize => l > StringSize)
  BY <1>6
<1> QED
  BY <1>2, <1>7 DEF k, l

LEMMA OthersKept ==
  ASSUME Inv, NEW v \in Variables, NEW typed \in Typed, typed # <<>>,
         \/ ReadInt(v, typed) \/ ReadLogic(v, typed)
         \/ ReadChar(v, typed) \/ ReadString(v, typed),
         NEW a \in Addresses \ Room(v), memory'[a] # memory[a]
  PROVE  /\ v.type = "string" /\ a = v.address + StringSize /\ memory'[a] = NUL
         /\ Len(typed) > StringSize
<1>1. Receive(v, typed)
  BY DEF ReadInt, ReadLogic, ReadChar, ReadString
<1>2. /\ typed \in Seq(Byte) /\ tmp' \in [TmpAddresses -> Byte]
      /\ tmp \in [TmpAddresses -> Byte] /\ memory \in [Addresses -> Byte]
  BY <1>1, ReceiveStep DEF Inv, BytesOK
<1>3. tmp' = BufferAfter(typed)
  BY <1>1 DEF Receive
<1>4. v.address \in Nat /\ a \in Int
  BY VariableIs, Sizes
<1>5. ASSUME NEW b \in Byte, Assign(v, <<b>>), v.type # "string"
      PROVE  FALSE
  <2>1. a # v.address
    BY <1>4, <1>5 DEF Room
  <2> QED
    BY <1>2, <1>5, <2>1, AssignByte
<1>6. ASSUME InvalidInput PROVE FALSE
  BY <1>6 DEF InvalidInput
<1>7. CASE ReadInt(v, typed)
  <2> DEFINE text == TextAt(tmp', 0)
             w == IntegerOf(text)
  <2>1. text \in Seq(Byte)
    BY <1>2, Sizes, TextIs
  <2>2. w \in Values
    BY <2>1, TextRead
  <2>3. v.type = "int" /\ IF w = Invalid THEN InvalidInput ELSE Assign(v, <<w>>)
    BY <1>7 DEF ReadInt
  <2> HIDE DEF w
  <2>4. w # Invalid => w \in Byte
    BY <2>2 DEF Values, Invalid, Word, Byte
  <2> QED
    BY <1>5, <1>6, <2>3, <2>4
<1>8. CASE ReadLogic(v, typed)
  <2>1. v.type = "logic" /\ (Assign(v, <<0>>) \/ Assign(v, <<1>>) \/ InvalidInput)
    BY <1>8 DEF ReadLogic
  <2>2. 0 \in Byte /\ 1 \in Byte
    BY DEF Byte
  <2> QED
    BY <1>5, <1>6, <2>1, <2>2
<1>9. CASE ReadChar(v, typed)
  <2>1. tmp'[0] \in Byte
    BY <1>2, Sizes
  <2> QED
    BY <1>5, <1>9, <2>1 DEF ReadChar
<1>10. CASE ReadString(v, typed)
  <2> DEFINE t == TextAt(tmp', 0)
             bytes == Append(t, NUL)
             k == Len(t)
  <2>1. /\ t \in Seq(Byte) /\ k \in 0..StringSize
        /\ k = StringSize => Len(typed) > StringSize
    BY <1>2, <1>3, TextInBuffer
  <2>2. bytes \in Seq(Byte) /\ Len(bytes) = k + 1 /\ bytes[k + 1] = NUL
    BY <2>1, TextAndNul
  <2>3. v.type = "string" /\ Assign(v, bytes)
    BY <1>10 DEF ReadString
  <2> HIDE DEF t, bytes, k
  <2>4. /\ \A i \in 1..Len(bytes) :
             v.address + i - 1 \in Addresses => memory'[v.address + i - 1] = bytes[i]
        /\ a \notin v.address..v.address + Len(bytes) - 1 => memory'[a] = memory[a]
    BY <1>2, <2>2, <2>3, AssignStep
  <2>5. a \in v.address..v.address + k
    BY <1>4, <2>1, <2>2, <2>4
  <2>6. a \notin v.address..v.address + StringSize - 1
    BY <2>3 DEF Room
  <2>7. a = v.address + StringSize /\ k = StringSize
    BY <1>4, <2>1, <2>5, <2>6, Sizes
  <2>8. memory'[a] = NUL
    <3> DEFINE i == k + 1
    <3>1. i \in 1..Len(bytes) /\ v.address + i - 1 = a
      BY <1>4, <2>1, <2>2, <2>7
    <3>2. bytes[i] = NUL
      BY <2>2
    <3> HIDE DEF i
    <3> QED
      BY <2>4, <3>1, <3>2
  <2> QED
    BY <2>1, <2>3, <2>7, <2>8 DEF k
<1> QED
  BY <1>7, <1>8, <1>9, <1>10

(* A line that fits the buffer is read as a whole, and whatever is typed   *)
(* changes no variable but the one that is read - except for one NUL       *)
(* behind a string, from a line that is too long for it (the buffer has a  *)
(* byte more than the string).                                             *)
THEOREM OthersAreKept == Spec => NeighboursKept
<1>1. ASSUME Inv, [Next]_runtimeVars PROVE [LineKept]_runtimeVars
  <2> SUFFICES ASSUME ~UNCHANGED runtimeVars PROVE LineKept
    OBVIOUS
  <2>1. Next
    BY <1>1
  <2> SUFFICES ASSUME NEW v \in Variables, Reads(v), event'.text # <<>>
               PROVE  /\ \A a \in Addresses \ Room(v) :
                           memory'[a] # memory[a] =>
                             /\ v.type = "string" /\ a = v.address + StringSize
                             /\ memory'[a] = NUL /\ Len(event'.text) > StringSize
                      /\ Len(event'.text) <= BufferSize => rest' = <<>>
    BY DEF LineKept
  <2>2. PICK typed \in Typed :
          \/ ReadInt(v, typed) \/ ReadLogic(v, typed)
          \/ ReadChar(v, typed) \/ ReadString(v, typed)
    BY <1>1, <2>1, WhoReads
  <2>3. Receive(v, typed)
    BY <2>2 DEF ReadInt, ReadLogic, ReadChar, ReadString
  <2>4. event'.text = typed /\ (Len(typed) <= BufferSize => rest' = <<>>)
    BY <1>1, <2>3, ReceiveStep DEF Inv
  <2>5. ASSUME NEW a \in Addresses \ Room(v), memory'[a] # memory[a]
        PROVE  /\ v.type = "string" /\ a = v.address + StringSize /\ memory'[a] = NUL
               /\ Len(typed) > StringSize
    BY <1>1, <2>2, <2>4, <2>5, OthersKept
  <2> QED
    BY <2>4, <2>5
<1> QED
  BY <1>1, Invariant, PTL DEF Spec, NeighboursKept

-----------------------------------------------------------------------------
(* Booleans.                                                               *)

LEMMA QuadInTmp ==
  ASSUME NEW m \in [TmpAddresses -> Byte]
  PROVE  /\ Quad(m, 0) \in [1..8 -> Byte]
         /\ \A i \in 1..8 : i - 1 \in TmpAddresses /\ Quad(m, 0)[i] = m[i - 1]
<1> DEFINE z == 0
           q == Quad(m, z)
<1>1. \A i \in 1..8 : i - 1 \in TmpAddresses /\ z + i - 1 = i - 1
  BY Sizes
<1>2. q = [i \in 1..8 |-> IF z + i - 1 \in TmpAddresses THEN m[z + i - 1] ELSE NUL]
  BY DEF Quad
<1> HIDE DEF z, q
<1>3. ASSUME NEW i \in 1..8 PROVE q[i] = m[i - 1] /\ q[i] \in Byte
  <2>1. i - 1 \in TmpAddresses /\ z + i - 1 = i - 1
    BY <1>1
  <2>2. q[i] = IF z + i - 1 \in TmpAddresses THEN m[z + i - 1] ELSE NUL
    BY <1>2
  <2> QED
    BY <2>1, <2>2
<1>4. q \in [1..8 -> Byte]
  BY <1>2, <1>3
<1> QED
  BY <1>1, <1>3, <1>4 DEF q, z

(* The word in the first bytes and NULs behind it.                         *)
LEMMA WordInBuffer ==
  ASSUME tmp \in [TmpAddresses -> Byte], NEW word \in {FalseWord, TrueWord},
         NEW typed \in Seq(Byte), NEW n \in Len(word) + 1..8, Len(typed) = n,
         \A i \in 1..n - 1 : typed[i] = IF i <= Len(word) THEN word[i] ELSE NUL,
         \A a \in n..7 : tmp[a] = NUL
  PROVE  Quad(BufferAfter(typed), 0) = Padded(word)
<1> DEFINE b == BufferAfter(typed)
           q == Quad(b, 0)
           p == Padded(word)
           k == Len(word)
<1>1. k \in 4..5
  BY Words
<1>2. n \in 5..8 /\ n = Len(typed) /\ typed # <<>>
  <2>1. n \in k + 1..8
    OBVIOUS
  <2> HIDE DEF k
  <2>2. n \in 5..8
    BY <1>1, <2>1
  <2> QED
    BY <2>2, EmptySeq
<1>3. Taken(typed) = n
  BY <1>2, Sizes DEF Taken
<1>4. /\ b \in [TmpAddresses -> Byte]
      /\ \A a \in 0..n - 2 : b[a] = typed[a + 1]
      /\ b[n - 1] = NUL
      /\ \A a \in n..BufferSize + 1 : b[a] = tmp[a]
  BY <1>2, <1>3, Received
<1> HIDE DEF b
<1>5. q \in [1..8 -> Byte] /\ \A i \in 1..8 : q[i] = b[i - 1]
  BY <1>4, QuadInTmp
<1>6. p \in [1..8 -> Byte] /\ \A i \in 1..8 : p[i] = IF i <= k THEN word[i] ELSE NUL
  BY Words
<1>7. \A i \in 1..n - 1 : typed[i] = IF i <= k THEN word[i] ELSE NUL
  OBVIOUS
<1>8. n \in k + 1..8
  OBVIOUS
<1> HIDE DEF q, p, k
<1>9. ASSUME NEW i \in 1..8 PROVE q[i] = p[i]
  <2>1. CASE i <= n - 1
    <3>1. i \in 1..n - 1 /\ i - 1 \in 0..n - 2 /\ i - 1 + 1 = i
      BY <1>2, <2>1
    <3>2. b[i - 1] = typed[i]
      BY <1>4, <3>1
    <3> QED
      BY <1>5, <1>6, <1>7, <3>1, <3>2
  <2>2. CASE i = n
    <3>1. ~(i <= k)
      BY <1>1, <1>8, <2>2
    <3> QED
      BY <1>4, <1>5, <1>6, <2>2, <3>1
  <2>3. CASE i > n
    <3>1. ~(i <= k) /\ i - 1 \in n..7 /\ i - 1 \in n..BufferSize + 1
      BY <1>1, <1>2, <1>8, <2>3, Sizes
    <3>2. b[i - 1] = tmp[i - 1] /\ tmp[i - 1] = NUL
      BY <1>4, <3>1
    <3> QED
      BY <1>5, <1>6, <3>1, <3>2
  <2> QED
    BY <1>2, <2>1, <2>2, <2>3
<1>10. q = p
  BY <1>5, <1>6, <1>9, SMTT(30)
<1> QED
  BY <1>10 DEF q, p, b

(* Nothing else is taken for a word.                                       *)
LEMMA WordWasTyped ==
  ASSUME tmp \in [TmpAddresses -> Byte], NEW word \in {FalseWord, TrueWord},
         NEW typed \in Seq(Byte), typed # <<>>,
         Quad(BufferAfter(typed), 0) = Padded(word)
  PROVE  SubSeq(typed, 1, Len(word)) = word
<1> DEFINE b == BufferAfter(typed)
           n == Taken(typed)
           k == Len(word)
<1>1. /\ b \in [TmpAddresses -> Byte] /\ Len(typed) \in Nat
      /\ n \in 1..BufferSize /\ n <= Len(typed)
      /\ \A a \in 0..n - 2 : b[a] = typed[a + 1]
      /\ b[n - 1] = NUL
  BY Received
<1>2. k \in 4..5 /\ word \in Seq(Byte) /\ \A i \in 1..k : word[i] # NUL
  <2>1. k \in 4..5
    BY Words
  <2>2. word \in Seq(Byte)
    BY Words
  <2>3. \A i \in 1..k : word[i] # NUL
    BY Words
  <2> QED
    BY <2>1, <2>2, <2>3
<1>3. ASSUME NEW i \in 1..8 PROVE b[i - 1] = IF i <= k THEN word[i] ELSE NUL
  <2>1. Quad(b, 0)[i] = b[i - 1]
    BY <1>1, QuadInTmp
  <2>2. Padded(word)[i] = IF i <= k THEN word[i] ELSE NUL
    BY Words
  <2> QED
    BY <2>1, <2>2
<1> HIDE DEF b, n, k
<1>4. n \in Nat /\ n > k
  <2> SUFFICES ASSUME n <= k PROVE FALSE
    BY <1>1, <1>2, Sizes
  <2>1. n \in 1..8 /\ n \in 1..k
    BY <1>1, <1>2, Sizes
  <2>2. b[n - 1] = word[n] /\ word[n] # NUL
    BY <1>2, <1>3, <2>1
  <2> QED
    BY <1>1, <2>2
<1> DEFINE p == SubSeq(typed, 1, k)
<1>5. p \in Seq(Byte) /\ Len(p) = k /\ \A i \in 1..k : p[i] = typed[i]
  <2>1. k \in 0..Len(typed)
    BY <1>1, <1>2, <1>4, Sizes
  <2> QED
    BY <2>1, Front
<1> HIDE DEF p
<1>6. ASSUME NEW i \in 1..k PROVE p[i] = word[i]
  <2>1. i \in 1..8 /\ i - 1 \in 0..n - 2 /\ i - 1 + 1 = i
    BY <1>2, <1>4
  <2>2. b[i - 1] = typed[i] /\ b[i - 1] = word[i]
    BY <1>1, <1>3, <2>1, SMTT(30)
  <2> QED
    BY <1>5, <2>2
<1>7. p = word
  BY <1>2, <1>5, <1>6, SeqEqual DEF k
<1> QED
  BY <1>7 DEF p, k

LEMMA LogicRead ==
  ASSUME Inv, NEW v \in Variables, NEW typed \in Typed, ReadLogic(v, typed)
  PROVE  LET q == Quad(BufferAfter(typed), 0)
         IN /\ \A word \in {FalseWord, TrueWord} :
                 q = Padded(word) =>
                   LET value == IF word = TrueWord THEN 1 ELSE 0
                   IN /\ status' = "running" /\ memory'[v.address] = value
                      /\ memory[v.address] = value => memory' = memory
            /\ status' = "running" => \E word \in {FalseWord, TrueWord} : q = Padded(word)
<1> DEFINE q == Quad(BufferAfter(typed), 0)
<1>1. /\ memory \in [Addresses -> Byte] /\ status = "running"
      /\ Receive(v, typed) /\ tmp' = BufferAfter(typed)
  <2>1. Receive(v, typed)
    BY DEF ReadLogic
  <2> QED
    BY <2>1, ReceiveStep DEF Inv, BytesOK, Receive
<1>2. (CASE q = Padded(FalseWord) -> Assign(v, <<0>>)
         [] q = Padded(TrueWord)  -> Assign(v, <<1>>)
         [] OTHER                 -> InvalidInput)
  BY <1>1 DEF ReadLogic
<1>3. 0 \in Byte /\ 1 \in Byte
  BY DEF Byte
<1> HIDE DEF q
<1>4. Padded(FalseWord) # Padded(TrueWord) /\ FalseWord # TrueWord
  BY Words
<1>5. ASSUME q = Padded(FalseWord)
      PROVE  /\ status' = "running" /\ memory'[v.address] = 0
             /\ memory[v.address] = 0 => memory' = memory
  <2>1. Assign(v, <<0>>)
    BY <1>2, <1>4, <1>5
  <2> QED
    BY <1>1, <1>3, <2>1, AssignByte
<1>6. ASSUME q = Padded(TrueWord)
      PROVE  /\ status' = "running" /\ memory'[v.address] = 1
             /\ memory[v.address] = 1 => memory' = memory
  <2>1. Assign(v, <<1>>)
    BY <1>2, <1>4, <1>6
  <2> QED
    BY <1>1, <1>3, <2>1, AssignByte
<1>7. ASSUME q # Padded(FalseWord), q # Padded(TrueWord)
      PROVE  status' # "running"
  <2>1. InvalidInput
    BY <1>2, <1>7
  <2> QED
    BY <2>1 DEF InvalidInput
<1> QED
  BY <1>4, <1>5, <1>6, <1>7 DEF q

(* read_logic: false and true are read as what they are, unless an earlier *)
(* command left something behind the word in the eight bytes that are      *)
(* compared, and no line that does not begin with one of them is accepted. *)
THEOREM WordsAreRead == Spec => ReadsBooleans
<1>1. ASSUME Inv, [Next]_runtimeVars PROVE [WordRead]_runtimeVars
  <2> SUFFICES ASSUME ~UNCHANGED runtimeVars PROVE WordRead
    OBVIOUS
  <2>1. Next
    BY <1>1
  <2> SUFFICES ASSUME NEW v \in Variables, NEW w \in {FalseWord, TrueWord},
                      Reads(v), v.type = "logic"
               PROVE  /\ Types(w) =>
                           \/ status' = "running"
                                /\ memory'[v.address] = IF w = TrueWord THEN 1 ELSE 0
                           \/ \E a \in Len(w) + 1 .. 7 : tmp[a] # NUL
                      /\ status' = "running" /\ event'.text # <<>> =>
                           \E word \in {FalseWord, TrueWord} :
                             SubSeq(event'.text, 1, Len(word)) = word
    BY DEF WordRead
  <2>2. PICK typed \in Typed : ReadLogic(v, typed)
    <3>1. PICK typed \in Typed :
            \/ ReadInt(v, typed) \/ ReadLogic(v, typed)
            \/ ReadChar(v, typed) \/ ReadString(v, typed)
      BY <1>1, <2>1, WhoReads
    <3>2. ReadLogic(v, typed)
      BY <3>1 DEF ReadInt, ReadChar, ReadString
    <3> QED
      BY <3>2
  <2>3. Receive(v, typed)
    BY <2>2 DEF ReadLogic
  <2>4. /\ event'.text = typed /\ typed \in Seq(Byte)
        /\ tmp \in [TmpAddresses -> Byte]
    BY <1>1, <2>3, ReceiveStep DEF Inv, BytesOK
  <2> DEFINE q == Quad(BufferAfter(typed), 0)
  <2>5. /\ \A word \in {FalseWord, TrueWord} :
             q = Padded(word) =>
               status' = "running" /\ memory'[v.address] = IF word = TrueWord THEN 1 ELSE 0
        /\ status' = "running" => \E word \in {FalseWord, TrueWord} : q = Padded(word)
    BY <1>1, <2>2, LogicRead
  <2>6. ASSUME Types(w), \A a \in Len(w) + 1 .. 7 : tmp[a] = NUL
        PROVE  status' = "running" /\ memory'[v.address] = IF w = TrueWord THEN 1 ELSE 0
    <3> DEFINE k == Len(w)
               n == k + 1
    <3>1. typed = Append(w, LF)
      BY <2>4, <2>6 DEF Types
    <3>2. w \in Seq(Byte) /\ k \in 4..5 /\ LF \in Byte
      BY Words DEF LF, Byte
    <3>3. Len(typed) = k + 1 /\ \A i \in 1..k : typed[i] = w[i]
      BY <3>1, <3>2, Appended
    <3> HIDE DEF k
    <3>4. n \in k + 1..8 /\ n - 1 = k
      BY <3>2
    <3>5. \A i \in 1..n - 1 : typed[i] = IF i <= k THEN w[i] ELSE NUL
      BY <3>2, <3>3, <3>4
    <3>6. \A a \in n..7 : tmp[a] = NUL
      BY <2>6 DEF k
    <3> HIDE DEF n
    <3>7. Len(typed) = n
      BY <3>3 DEF n
    <3>8. q = Padded(w)
      BY <2>4, <3>4, <3>5, <3>6, <3>7, WordInBuffer DEF k
    <3> QED
      BY <2>5, <3>8
  <2>7. ASSUME status' = "running", event'.text # <<>>
        PROVE  \E word \in {FalseWord, TrueWord} : SubSeq(event'.text, 1, Len(word)) = word
    <3>1. PICK word \in {FalseWord, TrueWord} : q = Padded(word)
      BY <2>5, <2>7
    <3>2. SubSeq(typed, 1, Len(word)) = word
      BY <2>4, <2>7, <3>1, WordWasTyped
    <3> QED
      BY <2>4, <3>2
  <2> QED
    BY <2>6, <2>7
<1> QED
  BY <1>1, Invariant, PTL DEF Spec, ReadsBooleans

-----------------------------------------------------------------------------
(* Reading what was written.                                               *)

(* The line that is typed is the text that was written.                    *)
Again(v, typed) ==
  /\ event.kind = "write" /\ event.var = v /\ typed = Append(event.text, LF)

LEMMA IntAgain ==
  ASSUME Inv, NEW v \in Variables, NEW typed \in Typed, ReadInt(v, typed),
         Again(v, typed), Value(v) # -Least
  PROVE  status' = "running" /\ memory' = memory
<1> DEFINE w == memory[v.address]
           text == event.text
           r == IntegerOf(TextAt(tmp', 0))
<1>1. /\ Receive(v, typed) /\ tmp' = BufferAfter(typed) /\ v.type = "int"
      /\ IF r = Invalid THEN InvalidInput ELSE Assign(v, <<r>>)
  BY DEF ReadInt, Receive
<1>2. /\ status = "running" /\ memory \in [Addresses -> Byte]
      /\ tmp \in [TmpAddresses -> Byte] /\ w \in Byte
  BY <1>1, ReceiveStep, VariableIs DEF Inv, BytesOK
<1>3. /\ text \in Seq(Byte) /\ Len(text) <= 4
      /\ IsNumeral(text) /\ Number(text) = Signed(w)
  BY <1>1 DEF Inv, EventOK, LeftBehind, WritesValues, Again, Value
<1>4. LET n == Number(text)
          x == IntegerOf(text)
      IN /\ n \in Int /\ x \in Values
         /\ InRange(n) => x # Invalid /\ Signed(x) = n
         /\ \A i \in 1..Len(text) : text[i] # NUL
  BY <1>3, NumeralRead
<1>5. Len(text) <= StringSize
  BY <1>3, Sizes, LenProperties
<1>6. TextAt(BufferAfter(Append(text, LF)), 0) = text
  BY <1>2, <1>3, <1>4, <1>5, LineReceived
<1>7. r = IntegerOf(text)
  BY <1>1, <1>6 DEF Again
<1>8. InRange(Signed(w))
  BY <1>2, IntegerWritten
<1>9. r \in Values /\ r # Invalid /\ Signed(r) = Signed(w)
  BY <1>3, <1>4, <1>7, <1>8
<1> HIDE DEF r, w
<1>10. r = w
  BY <1>2, <1>9 DEF Values, Invalid, Signed, Word, Least, Byte
<1>11. Assign(v, <<w>>)
  BY <1>1, <1>9, <1>10
<1> QED
  BY <1>2, <1>11, AssignByte DEF w

LEMMA CharAgain ==
  ASSUME Inv, NEW v \in Variables, NEW typed \in Typed, ReadChar(v, typed), Again(v, typed)
  PROVE  status' = "running" /\ memory' = memory
<1> DEFINE value == memory[v.address]
           text == <<value>>
<1>1. /\ Receive(v, typed) /\ tmp' = BufferAfter(typed) /\ v.type = "char"
      /\ Assign(v, <<tmp'[0]>>)
  BY DEF ReadChar, Receive
<1>2. /\ status = "running" /\ memory \in [Addresses -> Byte]
      /\ tmp \in [TmpAddresses -> Byte] /\ value \in Byte /\ typed \in Seq(Byte)
  BY <1>1, ReceiveStep, VariableIs DEF Inv, BytesOK
<1>3. typed = Append(text, LF)
  BY <1>1 DEF Again, Inv, WritesValues
<1>4. text \in Seq(Byte) /\ Len(text) = 1 /\ text[1] = value /\ LF \in Byte
  BY <1>2, OneIs DEF LF, Byte
<1> HIDE DEF text
<1>5. Len(typed) = 2 /\ typed[1] = value
  BY <1>3, <1>4, Appended
<1>6. typed # <<>> /\ Taken(typed) = 2
  BY <1>5, Sizes, EmptySeq, SMTT(30) DEF Taken
<1>7. tmp'[0] = value
  <2> DEFINE z == 0
  <2>1. z \in 0..2 - 2 /\ z + 1 = 1
    OBVIOUS
  <2>2. \A a \in 0..2 - 2 : tmp'[a] = typed[a + 1]
    BY <1>1, <1>2, <1>6, Received
  <2> HIDE DEF z
  <2>3. tmp'[z] = value
    BY <1>5, <2>1, <2>2
  <2> QED
    BY <2>3 DEF z
<1>8. Assign(v, <<value>>)
  BY <1>1, <1>7
<1> QED
  BY <1>2, <1>8, AssignByte

LEMMA StringAgain ==
  ASSUME Inv, NEW v \in Variables, NEW typed \in Typed, ReadString(v, typed),
         Again(v, typed), Len(event.text) < StringSize
  PROVE  status' = "running" /\ memory' = memory
<1> DEFINE text == event.text
           t == TextAt(tmp', 0)
           bytes == Append(text, NUL)
<1>1. /\ Receive(v, typed) /\ tmp' = BufferAfter(typed) /\ v.type = "string"
      /\ Assign(v, Append(t, NUL))
  BY DEF ReadString, Receive
<1>2. /\ status = "running" /\ memory \in [Addresses -> Byte]
      /\ tmp \in [TmpAddresses -> Byte] /\ v.address \in Nat
  BY <1>1, ReceiveStep, VariableIs DEF Inv, BytesOK
<1>3. /\ text \in Seq(Byte)
      /\ \A k \in DOMAIN text : text[k] = memory[v.address + k - 1] /\ text[k] # NUL
      /\ v.address + Len(text) \in Addresses => memory[v.address + Len(text)] = NUL
  BY <1>1 DEF Inv, EventOK, WritesValues, Again
<1>4. Len(text) \in Nat /\ DOMAIN text = 1..Len(text) /\ Len(text) <= StringSize
  BY <1>3, LenProperties, Sizes
<1>5. TextAt(BufferAfter(Append(text, LF)), 0) = text
  BY <1>2, <1>3, <1>4, LineReceived
<1>6. Assign(v, bytes)
  BY <1>1, <1>5 DEF Again
<1>7. /\ bytes \in Seq(Byte) /\ Len(bytes) = Len(text) + 1
      /\ \A i \in 1..Len(text) : bytes[i] = text[i]
      /\ bytes[Len(text) + 1] = NUL
  BY <1>3, TextAndNul
<1> DEFINE n == Len(text)
<1> HIDE DEF bytes, text, t
<1>8. ASSUME NEW i \in 1..Len(bytes), v.address + i - 1 \in Addresses
      PROVE  memory[v.address + i - 1] = bytes[i]
  <2>1. i \in 1..n \/ i = n + 1
    BY <1>4, <1>7
  <2>2. CASE i \in 1..n
    BY <1>3, <1>4, <1>7, <2>2
  <2>3. CASE i = n + 1
    <3>1. v.address + i - 1 = v.address + n
      BY <1>2, <1>4, <2>3
    <3> QED
      BY <1>3, <1>7, <1>8, <2>3, <3>1
  <2> QED
    BY <2>1, <2>2, <2>3
<1>9. memory' = memory
  BY <1>2, <1>6, <1>7, <1>8, SameBytes
<1>10. status' = "running"
  BY <1>2, <1>6 DEF Assign
<1> QED
  BY <1>9, <1>10

LEMMA LogicAgain ==
  ASSUME Inv, NEW v \in Variables, NEW typed \in Typed, ReadLogic(v, typed),
         Again(v, typed), memory[v.address] \in {0, 1},
         (memory[v.address] = 0) = (event.text = FalseWord)
  PROVE  status' = "running" /\ memory' = memory
<1> DEFINE value == memory[v.address]
           text == event.text
           q == Quad(BufferAfter(typed), 0)
<1>1. Receive(v, typed) /\ v.type = "logic"
  BY DEF ReadLogic
<1>2. /\ status = "running" /\ tmp \in [TmpAddresses -> Byte]
      /\ typed \in Seq(Byte) /\ typed = Append(text, LF)
  BY <1>1, ReceiveStep DEF Inv, BytesOK, Again
<1>3. tmp[6] = NUL /\ tmp[7] = NUL
  BY <1>1 DEF Inv, LeftBehind, Again
<1>4. text = IF value = 0 THEN FalseWord ELSE Append(TrueWord, NUL)
  <2>1. \/ value # 0 /\ text = Append(TrueWord, NUL)
        \/ value = 0
    BY <1>1 DEF Inv, WritesValues, Again
  <2> QED
    BY <2>1
<1>5. \A word \in {FalseWord, TrueWord} :
        q = Padded(word) =>
          LET x == IF word = TrueWord THEN 1 ELSE 0
          IN status' = "running" /\ (value = x => memory' = memory)
  BY LogicRead, SMTT(30)
<1>6. LF \in Byte /\ FalseWord # TrueWord
  BY Words DEF LF, Byte
<1>7. \A a \in 6..7 : tmp[a] = NUL
  BY <1>3
<1>8. CASE value = 0
  <2> DEFINE w == FalseWord
             n == 6
  <2>1. w \in Seq(Byte) /\ Len(w) = 5
    BY Words
  <2>2. typed = Append(w, LF)
    BY <1>2, <1>4, <1>8
  <2> HIDE DEF w
  <2>3. Len(typed) = Len(w) + 1 /\ \A i \in 1..Len(w) : typed[i] = w[i]
    BY <1>6, <2>1, <2>2, Appended, SMTT(30)
  <2>4. n \in Len(w) + 1..8 /\ Len(typed) = n /\ n - 1 = 5
    BY <2>1, <2>3
  <2>5. \A i \in 1..n - 1 : typed[i] = IF i <= Len(w) THEN w[i] ELSE NUL
    BY <2>1, <2>3, <2>4
  <2>6. \A a \in n..7 : tmp[a] = NUL
    BY <1>7
  <2> HIDE DEF n
  <2>7. q = Padded(w)
    <3>1. w \in {FalseWord, TrueWord}
      BY DEF w
    <3> QED
      BY <1>2, <2>4, <2>5, <2>6, <3>1, WordInBuffer
  <2> QED
    BY <1>5, <1>6, <1>8, <2>7 DEF w
<1>9. CASE value = 1
  <2> DEFINE w == TrueWord
             s == Append(w, NUL)
             n == 6
  <2>1. w \in Seq(Byte) /\ Len(w) = 4
    BY Words
  <2>2. typed = Append(s, LF)
    BY <1>2, <1>4, <1>9
  <2> HIDE DEF w
  <2>3. /\ s \in Seq(Byte) /\ Len(s) = Len(w) + 1
        /\ \A i \in 1..Len(w) : s[i] = w[i]
        /\ s[Len(w) + 1] = NUL
    BY <2>1, TextAndNul
  <2> HIDE DEF s
  <2>4. Len(typed) = Len(s) + 1 /\ \A i \in 1..Len(s) : typed[i] = s[i]
    BY <1>6, <2>2, <2>3, Appended
  <2>5. n \in Len(w) + 1..8 /\ Len(typed) = n /\ n - 1 = 5 /\ Len(s) = 5
    BY <2>1, <2>3, <2>4
  <2>6. \A i \in 1..n - 1 : typed[i] = IF i <= Len(w) THEN w[i] ELSE NUL
    <3> TAKE i \in 1..n - 1
    <3>1. i \in 1..5 /\ typed[i] = s[i]
      BY <2>4, <2>5
    <3>2. CASE i = 5
      BY <2>1, <2>3, <3>1, <3>2
    <3>3. CASE i \in 1..4
      BY <2>1, <2>3, <3>1, <3>3
    <3> QED
      BY <3>1, <3>2, <3>3
  <2>7. \A a \in n..7 : tmp[a] = NUL
    BY <1>7
  <2> HIDE DEF n
  <2>8. q = Padded(w)
    <3>1. w \in {FalseWord, TrueWord}
      BY DEF w
    <3> QED
      BY <1>2, <2>5, <2>6, <2>7, <3>1, WordInBuffer
  <2> QED
    BY <1>5, <1>6, <1>9, <2>8 DEF w
<1> QED
  BY <1>8, <1>9

(* What a program wrote it reads back: the line is accepted and memory is  *)
(* afterwards what it was, for every type and value but the least number,  *)
(* strings that are longer than their variable and bytes that are no       *)
(* boolean.                                                                *)
THEOREM WrittenIsReadBack == Spec => RoundTrip
<1>1. ASSUME Inv, [Next]_runtimeVars PROVE [ReadBack]_runtimeVars
  <2> SUFFICES ASSUME ~UNCHANGED runtimeVars PROVE ReadBack
    OBVIOUS
  <2>1. Next
    BY <1>1
  <2> SUFFICES ASSUME NEW v \in Variables, event.kind = "write", event.var = v,
                      WrittenAsIs(v), Reads(v), Types(event.text)
               PROVE  status' = "running" /\ memory' = memory
    BY DEF ReadBack
  <2>2. PICK typed \in Typed :
          \/ ReadInt(v, typed) \/ ReadLogic(v, typed)
          \/ ReadChar(v, typed) \/ ReadString(v, typed)
    BY <1>1, <2>1, WhoReads
  <2>3. Again(v, typed)
    <3>1. Receive(v, typed)
      BY <2>2 DEF ReadInt, ReadLogic, ReadChar, ReadString
    <3>2. event'.text = typed
      BY <3>1 DEF Receive
    <3> QED
      BY <3>2 DEF Again, Types
  <2>4. CASE ReadInt(v, typed)
    <3>1. Value(v) # -Least
      BY <2>4 DEF ReadInt, WrittenAsIs
    <3> QED
      BY <1>1, <2>3, <2>4, <3>1, IntAgain
  <2>5. CASE ReadLogic(v, typed)
    <3>1. memory[v.address] \in {0, 1} /\ (memory[v.address] = 0) = (event.text = FalseWord)
      BY <2>5 DEF ReadLogic, WrittenAsIs
    <3> QED
      BY <1>1, <2>3, <2>5, <3>1, LogicAgain
  <2>6. CASE ReadChar(v, typed)
    BY <1>1, <2>3, <2>6, CharAgain
  <2>7. CASE ReadString(v, typed)
    <3>1. Len(event.text) < StringSize
      BY <2>7 DEF ReadString, WrittenAsIs
    <3> QED
      BY <1>1, <2>3, <2>7, <3>1, StringAgain
  <2> QED
    BY <2>2, <2>4, <2>5, <2>6, <2>7
<1> QED
  BY <1>1, Invariant, PTL DEF Spec, RoundTrip

=============================================================================
