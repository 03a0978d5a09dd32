------------------------ MODULE StructuredCodeProofs ------------------------
(***************************************************************************)
(* StructuredCode, for every number of labels a command may use: a program *)
(* whose loops and conditionals each keep their own labels defines every   *)
(* label at most once and, when they are all finished, jumps to none that  *)
(* is not defined.                                                         *)
(*                                                                         *)
(* WellLabelled is not inductive: while units are open it says nothing of  *)
(* the labels they are going to define.  UnitInv does.  The proof first    *)
(* reduces sequences of operations to the sets Defined and Targets.        *)
(***************************************************************************)
EXTENDS StructuredCode, TLAPS

(* LabelsUnique of any sequence of operations.                             *)
Unique(s) ==
  \A i, j \in DOMAIN s :
    (s[i].op = "def" /\ s[j].op = "def" /\ s[i].label = s[j].label) => i = j

-----------------------------------------------------------------------------
(* What appending does to the sets.                                        *)

LEMMA AppendDef ==
  ASSUME NEW s \in Seq(CodeOps), NEW l \in Nat
  PROVE  /\ Append(s, Def(l)) \in Seq(CodeOps)
         /\ Defined(Append(s, Def(l))) = Defined(s) \union {l}
         /\ Targets(Append(s, Def(l))) = Targets(s)
         /\ (Unique(s) /\ l \notin Defined(s)) => Unique(Append(s, Def(l)))
<1> DEFINE t == Append(s, Def(l))
<1>1. Def(l) \in CodeOps /\ Def(l).op = "def" /\ Def(l).label = l
  BY DEF Def, CodeOps
<1>2. /\ t \in Seq(CodeOps) /\ Len(t) = Len(s) + 1 /\ DOMAIN t = 1..Len(s) + 1
      /\ Len(s) \in Nat /\ DOMAIN s = 1..Len(s)
      /\ \A i \in 1..Len(s) : t[i] = s[i]
      /\ t[Len(s) + 1] = Def(l)
  BY <1>1
<1> HIDE DEF t
<1>3. \A i \in DOMAIN t : i \in DOMAIN s \/ i = Len(s) + 1
  BY <1>2
<1>4. Defined(t) = Defined(s) \union {l}
  BY <1>1, <1>2, <1>3 DEF Defined
<1>5. Targets(t) = Targets(s)
  BY <1>1, <1>2, <1>3 DEF Targets
<1>6. ASSUME Unique(s), l \notin Defined(s)
      PROVE  Unique(t)
  <2>1. \A i \in DOMAIN s : s[i].op = "def" => s[i].label # l
    BY <1>6 DEF Defined
  <2> QED
    BY <1>1, <1>2, <1>3, <1>6, <2>1 DEF Unique
<1> QED
  BY <1>2, <1>4, <1>5, <1>6 DEF t

LEMMA AppendJump ==
  ASSUME NEW s \in Seq(CodeOps), NEW l \in Nat
  PROVE  /\ Append(s, Jump(l)) \in Seq(CodeOps)
         /\ Defined(Append(s, Jump(l))) = Defined(s)
         /\ Targets(Append(s, Jump(l))) = Targets(s) \union {l}
         /\ Unique(s) => Unique(Append(s, Jump(l)))
<1> DEFINE t == Append(s, Jump(l))
<1>1. Jump(l) \in CodeOps /\ Jump(l).op = "jump" /\ Jump(l).label = l
  BY DEF Jump, CodeOps
<1>2. /\ t \in Seq(CodeOps) /\ Len(t) = Len(s) + 1 /\ DOMAIN t = 1..Len(s) + 1
      /\ Len(s) \in Nat /\ DOMAIN s = 1..Len(s)
      /\ \A i \in 1..Len(s) : t[i] = s[i]
      /\ t[Len(s) + 1] = Jump(l)
  BY <1>1
<1> HIDE DEF t
<1>3. \A i \in DOMAIN t : i \in DOMAIN s \/ i = Len(s) + 1
  BY <1>2
<1>4. Defined(t) = Defined(s)
  BY <1>1, <1>2, <1>3 DEF Defined
<1>5. Targets(t) = Targets(s) \union {l}
  BY <1>1, <1>2, <1>3 DEF Targets
<1>6. ASSUME Unique(s)
      PROVE  Unique(t)
  BY <1>1, <1>2, <1>3, <1>6 DEF Unique
<1> QED
  BY <1>2, <1>4, <1>5, <1>6 DEF t

(* The labels of a command are n new ones, defined once each.              *)
LEMMA AppendLocals ==
  ASSUME NEW s \in Seq(CodeOps), NEW c \in Nat, NEW n \in Nat,
         Defined(s) \subseteq 0..(c - 1)
  PROVE  /\ s \o Locals(c, n) \in Seq(CodeOps)
         /\ Defined(s \o Locals(c, n)) = Defined(s) \union (c..(c + n - 1))
         /\ Targets(s \o Locals(c, n)) = Targets(s)
         /\ Unique(s) => Unique(s \o Locals(c, n))
<1> DEFINE u == Locals(c, n)
           t == s \o u
<1>1. /\ u \in Seq(CodeOps) /\ Len(u) = n
      /\ \A i \in 1..n : u[i].op = "def" /\ u[i].label = c + i - 1
  BY DEF Locals, Def, CodeOps
<1> HIDE DEF u
<1>2. /\ t \in Seq(CodeOps) /\ DOMAIN t = 1..Len(s) + n
      /\ Len(s) \in Nat /\ DOMAIN s = 1..Len(s)
      /\ \A i \in 1..Len(s) : t[i] = s[i]
      /\ \A i \in Len(s) + 1..Len(s) + n : t[i] = u[i - Len(s)]
  BY <1>1
<1> HIDE DEF t
<1>3. \A i \in Len(s) + 1..Len(s) + n :
        t[i].op = "def" /\ t[i].label = c + (i - Len(s)) - 1
  BY <1>1, <1>2
<1>4. \A i \in DOMAIN t : i \in DOMAIN s \/ i \in Len(s) + 1..Len(s) + n
  BY <1>2
<1>5. Defined(t) = Defined(s) \union (c..(c + n - 1))
  <2>1. ASSUME NEW l \in c..(c + n - 1)
        PROVE  l \in Defined(t)
    <3> DEFINE k == Len(s) + 1 + (l - c)
    <3> l \in Int /\ c <= l /\ l <= c + n - 1 /\ Len(s) \in Nat
      OBVIOUS
    <3>1. k \in Len(s) + 1..Len(s) + n /\ c + (k - Len(s)) - 1 = l
      OBVIOUS
    <3> HIDE DEF k
    <3>2. k \in DOMAIN t
      BY <1>2, <3>1
    <3>3. t[k].op = "def" /\ t[k].label = l
      BY <1>3, <3>1
    <3> QED
      BY <3>2, <3>3 DEF Defined
  <2>2. Defined(s) \subseteq Defined(t)
    BY <1>2 DEF Defined
  <2>3. ASSUME NEW i \in DOMAIN t, t[i].op = "def"
        PROVE  t[i].label \in Defined(s) \union (c..(c + n - 1))
    <3>1. CASE i \in DOMAIN s
      BY <1>2, <2>3, <3>1 DEF Defined
    <3>2. CASE i \in Len(s) + 1..Len(s) + n
      BY <1>2, <1>3, <3>2
    <3> QED
      BY <1>4, <3>1, <3>2
  <2> QED
    BY <2>1, <2>2, <2>3 DEF Defined
<1>6. Targets(t) = Targets(s)
  BY <1>2, <1>3, <1>4 DEF Targets
<1>7. ASSUME Unique(s)
      PROVE  Unique(t)
  <2> SUFFICES ASSUME NEW i \in DOMAIN t, NEW j \in DOMAIN t,
                      t[i].op = "def", t[j].op = "def",
                      t[i].label = t[j].label
               PROVE  i = j
    BY DEF Unique
  <2>1. \A k \in DOMAIN s : s[k].op = "def" => s[k].label \in 0..(c - 1)
    BY DEF Defined
  <2>2. CASE i \in DOMAIN s /\ j \in DOMAIN s
    BY <1>2, <1>7, <2>2 DEF Unique
  <2>3. CASE i \notin DOMAIN s /\ j \notin DOMAIN s
    BY <1>2, <1>3, <1>4, <2>3
  <2>4. CASE i \in DOMAIN s /\ j \notin DOMAIN s
    BY <1>2, <1>3, <1>4, <2>1, <2>4
  <2>5. CASE i \notin DOMAIN s /\ j \in DOMAIN s
    BY <1>2, <1>3, <1>4, <2>1, <2>5
  <2> QED
    BY <2>2, <2>3, <2>4, <2>5
<1> QED
  BY <1>2, <1>5, <1>6, <1>7 DEF t, u

-----------------------------------------------------------------------------
(* What the actions do to the stack of open units.                         *)

LEMMA PushUnit ==
  ASSUME NEW o \in Seq(Units), NEW u \in Units
  PROVE  /\ Append(o, u) \in Seq(Units)
         /\ Len(o) \in Nat /\ DOMAIN o = 1..Len(o)
         /\ DOMAIN Append(o, u) = 1..Len(o) + 1
         /\ \A k \in 1..Len(o) : Append(o, u)[k] = o[k]
         /\ Append(o, u)[Len(o) + 1] = u
  OBVIOUS

LEMMA TopUnit ==
  ASSUME TypeOK, NEW kind, NEW phase, TopIs(kind, phase)
  PROVE  /\ Len(open) \in Nat \ {0} /\ DOMAIN open = 1..Len(open)
         /\ Len(open) \in DOMAIN open
         /\ Top = open[Len(open)] /\ Top \in Units
         /\ Top.kind = kind /\ Top.phase = phase
  BY DEF TypeOK, TopIs, Top

LEMMA PopUnit ==
  ASSUME TypeOK, open # <<>>
  PROVE  /\ Pop \in Seq(Units)
         /\ DOMAIN Pop = 1..Len(open) - 1
         /\ \A k \in DOMAIN Pop : k \in DOMAIN open /\ Pop[k] = open[k]
  BY DEF TypeOK, Pop

LEMMA PhaseUnit ==
  ASSUME TypeOK, open # <<>>,
         NEW p \in {"cond", "body", "then", "else"}
  PROVE  /\ ToPhase(p) \in Seq(Units)
         /\ DOMAIN ToPhase(p) = DOMAIN open
         /\ \A k \in DOMAIN open : k # Len(open) => ToPhase(p)[k] = open[k]
         /\ ToPhase(p)[Len(open)] = [Top EXCEPT !.phase = p]
<1>1. /\ Len(open) \in Nat \ {0} /\ DOMAIN open = 1..Len(open)
      /\ Top \in Units
  BY DEF TypeOK, Top
<1>2. [Top EXCEPT !.phase = p] \in Units
  BY <1>1 DEF Units
<1> QED
  BY <1>1, <1>2 DEF TypeOK, ToPhase, Top

-----------------------------------------------------------------------------
(* The inductive invariant.                                                *)

Inv == TypeOK /\ UnitInv

LEMMA InitInv == Init => Inv
<1> SUFFICES ASSUME Init
             PROVE  Inv
  OBVIOUS
<1>1. TypeOK
  <2>1. <<>> \in Seq(CodeOps) /\ <<>> \in Seq(Units) /\ DOMAIN <<>> = {}
    OBVIOUS
  <2> QED
    BY <2>1 DEF Init, TypeOK
<1>2. Defined(<<>>) = {} /\ Targets(<<>>) = {}
  BY DEF Defined, Targets
<1>3. UnitInv
  BY <1>2 DEF Init, UnitInv, LabelsUnique
<1> QED
  BY <1>1, <1>3 DEF Inv

(* A unit does not mind other labels being defined, or the counter moving. *)
LEMMA UnitStays ==
  ASSUME NEW u \in Units, NEW c \in Nat, NEW d \in Nat, c <= d,
         NEW D, NEW E, UnitOK(u, D, c), D \subseteq E,
         u.first \in E => u.first \in D, u.second \in E => u.second \in D
  PROVE  UnitOK(u, E, d)
<1>1. u.first \in Nat /\ u.second \in Nat
  BY DEF Units
<1>2. Pending(u) \subseteq {u.first, u.second}
  BY DEF Pending
<1> QED
  BY <1>1, <1>2 DEF UnitOK

(* The facts every step starts from.                                       *)
LEMMA Basics ==
  ASSUME Inv
  PROVE  /\ code \in Seq(CodeOps) /\ counter \in Nat /\ open \in Seq(Units)
         /\ Unique(code) /\ Defined(code) \subseteq 0..(counter - 1)
         /\ \A k \in DOMAIN open :
              /\ open[k] \in Units /\ UnitOK(open[k], Defined(code), counter)
              /\ open[k].first \in Nat /\ open[k].second \in Nat
              /\ open[k].first < counter /\ open[k].second < counter
<1>1. /\ code \in Seq(CodeOps) /\ counter \in Nat /\ open \in Seq(Units)
  BY DEF Inv, TypeOK
<1>2. Unique(code) /\ Defined(code) \subseteq 0..(counter - 1)
  BY DEF Inv, UnitInv, LabelsUnique, Unique
<1>3. ASSUME NEW k \in DOMAIN open
      PROVE  /\ open[k] \in Units /\ UnitOK(open[k], Defined(code), counter)
             /\ open[k].first \in Nat /\ open[k].second \in Nat
             /\ open[k].first < counter /\ open[k].second < counter
  <2>1. open[k] \in Units
    BY <1>1
  <2>2. UnitOK(open[k], Defined(code), counter)
    BY DEF Inv, UnitInv
  <2> QED
    BY <2>1, <2>2 DEF Units, UnitOK
<1> QED
  BY <1>1, <1>2, <1>3

LEMMA CommandKeeps ==
  ASSUME Inv, NEW n \in LocalCounts, Command(n)
  PROVE  Inv'
<1>1. n \in Nat
  BY LocalCountsAssumption
<1>2. /\ code' \in Seq(CodeOps)
      /\ Defined(code') = Defined(code) \union (counter..(counter + n - 1))
      /\ Targets(code') = Targets(code)
      /\ Unique(code')
  BY <1>1, Basics, AppendLocals DEF Command
<1>3. open' = open /\ aborted' = aborted /\ counter' = counter + n
  BY DEF Command
<1>4. TypeOK'
  BY <1>1, <1>2, <1>3 DEF Inv, TypeOK
<1>5. LabelsUnique'
  BY <1>2 DEF LabelsUnique, Unique
<1>6. (Defined(code) \subseteq 0..(counter - 1))'
  BY <1>1, <1>2, <1>3, Basics
<1>7. ASSUME NEW k \in DOMAIN open
      PROVE  UnitOK(open[k], Defined(code'), counter')
  <2>1. /\ open[k].first \in Defined(code') => open[k].first \in Defined(code)
        /\ open[k].second \in Defined(code') => open[k].second \in Defined(code)
    BY <1>1, <1>2, Basics
  <2>2. counter' \in Nat /\ counter <= counter'
    BY <1>1, <1>3, Basics
  <2> QED
    BY <1>2, <2>1, <2>2, Basics, UnitStays
<1>8. UnitInv'
  BY <1>2, <1>3, <1>5, <1>6, <1>7 DEF Inv, UnitInv
<1> QED
  BY <1>4, <1>8 DEF Inv

LEMMA StartLoopKeeps ==
  ASSUME Inv, StartLoop
  PROVE  Inv'
<1> DEFINE u == [kind |-> "while", phase |-> "cond",
                 first |-> counter, second |-> counter + 1]
<1>1. /\ code' \in Seq(CodeOps)
      /\ Defined(code') = Defined(code) \union {counter}
      /\ Targets(code') = Targets(code)
      /\ Unique(code')
  <2>1. counter \notin Defined(code)
    BY Basics
  <2> QED
    BY <2>1, Basics, AppendDef DEF StartLoop
<1>2. /\ aborted' = aborted /\ counter' = counter + 2 /\ counter' \in Nat
      /\ open' = Append(open, u) /\ u \in Units
  BY Basics DEF StartLoop, Units
<1>3. /\ u.kind = "while" /\ u.phase = "cond"
      /\ u.first = counter /\ u.second = counter + 1
  OBVIOUS
<1> HIDE DEF u
<1>4. /\ open' \in Seq(Units) /\ Len(open) \in Nat /\ DOMAIN open = 1..Len(open)
      /\ DOMAIN open' = 1..Len(open) + 1
      /\ \A k \in DOMAIN open : open'[k] = open[k]
      /\ open'[Len(open) + 1] = u
  BY <1>2, Basics, PushUnit
<1>5. TypeOK'
  BY <1>1, <1>2, <1>3, <1>4 DEF Inv, TypeOK
<1>6. LabelsUnique'
  BY <1>1 DEF LabelsUnique, Unique
<1>7. (Defined(code) \subseteq 0..(counter - 1))'
  BY <1>1, <1>2, Basics
<1>8. ASSUME NEW k \in DOMAIN open
      PROVE  UnitOK(open'[k], Defined(code'), counter')
  <2>1. /\ open[k].first \in Defined(code') => open[k].first \in Defined(code)
        /\ open[k].second \in Defined(code') => open[k].second \in Defined(code)
    BY <1>1, Basics
  <2>2. counter <= counter'
    BY <1>2, Basics
  <2>3. UnitOK(open[k], Defined(code'), counter')
    BY <1>1, <1>2, <2>1, <2>2, Basics, UnitStays
  <2> QED
    BY <1>4, <2>3
<1>9. UnitOK(u, Defined(code'), counter')
  BY <1>1, <1>2, <1>3, Basics DEF UnitOK, Pending
<1>10. \A k \in DOMAIN open : Apart(open[k], u) /\ Apart(u, open[k])
  BY <1>3, Basics DEF Apart
<1>11. UnitInv'
  <2>1. \A k \in DOMAIN open' : UnitOK(open'[k], Defined(code'), counter')
    BY <1>4, <1>8, <1>9
  <2>2. \A k, l \in DOMAIN open' : k # l => Apart(open'[k], open'[l])
    BY <1>4, <1>10 DEF Inv, UnitInv
  <2>3. Targets(code') \subseteq
          Defined(code') \union {Awaited(open'[k]) : k \in DOMAIN open'}
    BY <1>1, <1>4 DEF Inv, UnitInv
  <2> QED
    BY <1>6, <1>7, <2>1, <2>2, <2>3 DEF UnitInv
<1> QED
  BY <1>5, <1>11 DEF Inv

(* Appending one or two operations, one after the other.                   *)
LEMMA ConcatOps ==
  ASSUME NEW s \in Seq(CodeOps), NEW x \in CodeOps, NEW y \in CodeOps
  PROVE  /\ s \o <<x>> = Append(s, x)
         /\ s \o <<x, y>> = Append(Append(s, x), y)
<1>1. s \o <<x>> = Append(s, x)
  OBVIOUS
<1>2. s \o <<x, y>> = Append(Append(s, x), y)
  OBVIOUS
<1> QED
  BY <1>1, <1>2

(* A jump and then a definition: the end of a loop, and an else.           *)
LEMMA JumpThenDef ==
  ASSUME NEW s \in Seq(CodeOps), NEW j \in Nat, NEW l \in Nat,
         Unique(s), l \notin Defined(s)
  PROVE  /\ s \o <<Jump(j), Def(l)>> \in Seq(CodeOps)
         /\ Defined(s \o <<Jump(j), Def(l)>>) = Defined(s) \union {l}
         /\ Targets(s \o <<Jump(j), Def(l)>>) = Targets(s) \union {j}
         /\ Unique(s \o <<Jump(j), Def(l)>>)
<1> DEFINE r == Append(s, Jump(j))
<1>1. Jump(j) \in CodeOps /\ Def(l) \in CodeOps
  BY DEF Jump, Def, CodeOps
<1>2. s \o <<Jump(j), Def(l)>> = Append(r, Def(l))
  BY <1>1, ConcatOps
<1>3. /\ r \in Seq(CodeOps) /\ Defined(r) = Defined(s)
      /\ Targets(r) = Targets(s) \union {j} /\ Unique(r)
  BY AppendJump
<1> HIDE DEF r
<1>4. /\ Append(r, Def(l)) \in Seq(CodeOps)
      /\ Defined(Append(r, Def(l))) = Defined(r) \union {l}
      /\ Targets(Append(r, Def(l))) = Targets(r)
      /\ Unique(Append(r, Def(l)))
  BY <1>3, AppendDef
<1> QED
  BY <1>2, <1>3, <1>4

(* AppendJump, in the form in which a condition is followed by its jump.    *)
LEMMA ConcatJump ==
  ASSUME NEW s \in Seq(CodeOps), NEW l \in Nat
  PROVE  /\ s \o <<Jump(l)>> \in Seq(CodeOps)
         /\ Defined(s \o <<Jump(l)>>) = Defined(s)
         /\ Targets(s \o <<Jump(l)>>) = Targets(s) \union {l}
         /\ Unique(s) => Unique(s \o <<Jump(l)>>)
<1>1. Jump(l) \in CodeOps
  BY DEF Jump, CodeOps
<1>2. s \o <<Jump(l)>> = Append(s, Jump(l))
  BY <1>1, ConcatOps
<1> QED
  BY <1>2, AppendJump

LEMMA LoopConditionKeeps ==
  ASSUME Inv, NEW n \in LocalCounts, LoopCondition(n)
  PROVE  Inv'
<1> DEFINE m == Len(open)
<1>1. n \in Nat /\ TypeOK
  BY LocalCountsAssumption DEF Inv
<1>2. /\ m \in DOMAIN open /\ Top = open[m] /\ Top \in Units
      /\ Top.kind = "while" /\ Top.phase = "cond" /\ open # <<>>
  BY <1>1, TopUnit DEF LoopCondition, TopIs
<1>3. Top.second \in Nat
  BY <1>2 DEF Units
<1>4. /\ code' \in Seq(CodeOps)
      /\ Defined(code') = Defined(code) \union (counter..(counter + n - 1))
      /\ Targets(code') = Targets(code) \union {Top.second}
      /\ Unique(code')
  <2>1. /\ code \in Seq(CodeOps) /\ counter \in Nat /\ n \in Nat
        /\ Defined(code) \subseteq 0..(counter - 1) /\ Unique(code)
    BY <1>1, Basics
  <2> DEFINE r == code \o Locals(counter, n)
  <2>2. /\ r \in Seq(CodeOps)
        /\ Defined(r) = Defined(code) \union (counter..(counter + n - 1))
        /\ Targets(r) = Targets(code) /\ Unique(r)
    BY <2>1, AppendLocals
  <2>3. code' = r \o <<Jump(Top.second)>>
    BY DEF LoopCondition
  <2> HIDE DEF r
  <2> QED
    BY <1>3, <2>2, <2>3, ConcatJump
<1>5. /\ aborted' = aborted /\ counter' = counter + n
      /\ counter' \in Nat /\ counter <= counter'
  BY <1>1, Basics DEF LoopCondition
<1>6. /\ open' \in Seq(Units) /\ DOMAIN open' = DOMAIN open
      /\ \A k \in DOMAIN open : k # m => open'[k] = open[k]
      /\ open'[m] = [Top EXCEPT !.phase = "body"]
  BY <1>1, <1>2, PhaseUnit DEF LoopCondition
<1> HIDE DEF m
<1>7. /\ open'[m].kind = "while" /\ open'[m].phase = "body"
      /\ open'[m].first = Top.first /\ open'[m].second = Top.second
  BY <1>2, <1>6 DEF Units
<1>8. TypeOK'
  <2>1. \A k \in DOMAIN open' :
          (open'[k].kind = "while") <=> (open'[k].phase \in {"cond", "body"})
    BY <1>1, <1>6, <1>7 DEF TypeOK
  <2> QED
    BY <1>1, <1>4, <1>5, <1>6, <2>1 DEF TypeOK
<1>9. ASSUME NEW k \in DOMAIN open
      PROVE  /\ UnitOK(open[k], Defined(code'), counter')
             /\ open'[k].first = open[k].first
             /\ open'[k].second = open[k].second
             /\ open'[k].kind = open[k].kind
             /\ Pending(open'[k]) = Pending(open[k])
             /\ Awaited(open'[k]) = Awaited(open[k])
  <2>1. /\ open[k].first \in Defined(code') => open[k].first \in Defined(code)
        /\ open[k].second \in Defined(code') => open[k].second \in Defined(code)
    BY <1>1, <1>4, Basics
  <2>2. UnitOK(open[k], Defined(code'), counter')
    BY <1>4, <1>5, <2>1, Basics, UnitStays
  <2>3. CASE k = m
    BY <1>2, <1>7, <2>2, <2>3 DEF Pending, Awaited
  <2>4. CASE k # m
    BY <1>6, <2>2, <2>4
  <2> QED
    BY <2>3, <2>4
<1>10. UnitInv'
  <2>1. LabelsUnique'
    BY <1>4 DEF LabelsUnique, Unique
  <2>2. (Defined(code) \subseteq 0..(counter - 1))'
    BY <1>1, <1>4, <1>5, Basics
  <2>3. \A k \in DOMAIN open' : UnitOK(open'[k], Defined(code'), counter')
    BY <1>6, <1>9 DEF UnitOK
  <2>4. \A k, l \in DOMAIN open' : k # l => Apart(open'[k], open'[l])
    BY <1>6, <1>9 DEF Inv, UnitInv, Apart
  <2>5. Awaited(open'[m]) = Top.second
    BY <1>2, <1>7 DEF Awaited
  <2>6. Targets(code') \subseteq
          Defined(code') \union {Awaited(open'[k]) : k \in DOMAIN open'}
    BY <1>2, <1>4, <1>6, <1>9, <2>5 DEF Inv, UnitInv
  <2> QED
    BY <2>1, <2>2, <2>3, <2>4, <2>6 DEF UnitInv
<1> QED
  BY <1>8, <1>10 DEF Inv

(* A finished unit leaves the stack: the others stay as they are.          *)
LEMMA FinishLoopKeeps ==
  ASSUME Inv, FinishLoop
  PROVE  Inv'
<1> DEFINE m == Len(open)
<1>1. TypeOK
  BY DEF Inv
<1>2. /\ m \in Nat \ {0} /\ DOMAIN open = 1..m /\ m \in DOMAIN open
      /\ Top = open[m] /\ Top.kind = "while" /\ Top.phase = "body"
      /\ open # <<>>
  BY <1>1, TopUnit DEF FinishLoop, TopIs
<1>3. /\ open' \in Seq(Units) /\ DOMAIN open' = 1..m - 1
      /\ \A k \in DOMAIN open' : k \in DOMAIN open /\ open'[k] = open[k]
  BY <1>1, <1>2, PopUnit DEF FinishLoop
<1>4. counter' = counter /\ aborted' = aborted
  BY DEF FinishLoop
<1> HIDE DEF m
<1>5. /\ Top.first \in Nat /\ Top.second \in Nat /\ Top.second < counter
      /\ Top.second \notin Defined(code) /\ Top.first \in Defined(code)
      /\ Awaited(Top) = Top.second
  BY <1>2, Basics DEF UnitOK, Pending, Awaited
<1>6. /\ code' \in Seq(CodeOps)
      /\ Defined(code') = Defined(code) \union {Top.second}
      /\ Targets(code') = Targets(code) \union {Top.first}
      /\ Unique(code')
  BY <1>5, Basics, JumpThenDef DEF FinishLoop
<1>7. ASSUME NEW k \in DOMAIN open'
      PROVE  UnitOK(open'[k], Defined(code'), counter')
  <2>1. k \in DOMAIN open /\ k # m /\ open'[k] = open[k]
    BY <1>2, <1>3
  <2>2. Apart(open[k], Top)
    BY <1>2, <2>1 DEF Inv, UnitInv
  <2>3. /\ open[k].first \in Defined(code') => open[k].first \in Defined(code)
        /\ open[k].second \in Defined(code') => open[k].second \in Defined(code)
    BY <1>6, <2>2 DEF Apart
  <2> QED
    BY <1>4, <1>6, <2>1, <2>3, Basics, UnitStays
<1>8. TypeOK'
  BY <1>1, <1>3, <1>4, <1>6 DEF TypeOK
<1>9. UnitInv'
  <2>1. LabelsUnique'
    BY <1>6 DEF LabelsUnique, Unique
  <2>2. (Defined(code) \subseteq 0..(counter - 1))'
    BY <1>4, <1>5, <1>6, Basics
  <2>3. \A k, l \in DOMAIN open' : k # l => Apart(open'[k], open'[l])
    BY <1>3 DEF Inv, UnitInv
  <2>4. \A k \in DOMAIN open : k = m \/ k \in DOMAIN open'
    BY <1>2, <1>3
  <2>5. Targets(code') \subseteq
          Defined(code') \union {Awaited(open'[k]) : k \in DOMAIN open'}
    BY <1>2, <1>3, <1>5, <1>6, <2>4 DEF Inv, UnitInv
  <2> QED
    BY <1>7, <2>1, <2>2, <2>3, <2>5 DEF UnitInv
<1> QED
  BY <1>8, <1>9 DEF Inv

LEMMA FinishIfKeeps ==
  ASSUME Inv, FinishIf
  PROVE  Inv'
<1> DEFINE m == Len(open)
           l == Awaited(Top)
<1>1. TypeOK
  BY DEF Inv
<1>2. /\ m \in Nat \ {0} /\ DOMAIN open = 1..m /\ m \in DOMAIN open
      /\ Top = open[m] /\ Top.kind = "if" /\ open # <<>>
      /\ code' = Append(code, Def(l)) /\ l \in Pending(Top)
  <2>1. CASE TopIs("if", "then") /\ code' = Append(code, Def(Top.second))
    BY <1>1, <2>1, TopUnit DEF TopIs, Awaited, Pending
  <2>2. CASE TopIs("if", "else") /\ code' = Append(code, Def(Top.first))
    BY <1>1, <2>2, TopUnit DEF TopIs, Awaited, Pending
  <2> QED
    BY <2>1, <2>2 DEF FinishIf
<1>3. /\ open' \in Seq(Units) /\ DOMAIN open' = 1..m - 1
      /\ \A k \in DOMAIN open' : k \in DOMAIN open /\ open'[k] = open[k]
  BY <1>1, <1>2, PopUnit DEF FinishIf
<1>4. counter' = counter /\ aborted' = aborted
  BY DEF FinishIf
<1>5. /\ l \in Nat /\ l < counter /\ l \notin Defined(code)
      /\ l \in {Top.first, Top.second}
  BY <1>2, Basics DEF UnitOK, Pending
<1> HIDE DEF m
<1>6. /\ code' \in Seq(CodeOps)
      /\ Defined(code') = Defined(code) \union {l}
      /\ Targets(code') = Targets(code)
      /\ Unique(code')
  <2> HIDE DEF l
  <2> QED
    BY <1>2, <1>5, Basics, AppendDef
<1>7. ASSUME NEW k \in DOMAIN open'
      PROVE  UnitOK(open'[k], Defined(code'), counter')
  <2>1. k \in DOMAIN open /\ k # m /\ open'[k] = open[k]
    BY <1>2, <1>3
  <2>2. Apart(open[k], Top)
    BY <1>2, <2>1 DEF Inv, UnitInv
  <2>3. /\ open[k].first \in Defined(code') => open[k].first \in Defined(code)
        /\ open[k].second \in Defined(code') => open[k].second \in Defined(code)
    BY <1>5, <1>6, <2>2 DEF Apart
  <2> QED
    BY <1>4, <1>6, <2>1, <2>3, Basics, UnitStays
<1>8. TypeOK'
  BY <1>1, <1>3, <1>4, <1>6 DEF TypeOK
<1>9. UnitInv'
  <2>1. LabelsUnique'
    BY <1>6 DEF LabelsUnique, Unique
  <2>2. (Defined(code) \subseteq 0..(counter - 1))'
    BY <1>4, <1>5, <1>6, Basics
  <2>3. \A k, j \in DOMAIN open' : k # j => Apart(open'[k], open'[j])
    BY <1>3 DEF Inv, UnitInv
  <2>4. \A k \in DOMAIN open : k = m \/ k \in DOMAIN open'
    BY <1>2, <1>3
  <2>5. Targets(code') \subseteq
          Defined(code') \union {Awaited(open'[k]) : k \in DOMAIN open'}
    BY <1>2, <1>3, <1>5, <1>6, <2>4 DEF Inv, UnitInv
  <2> QED
    BY <1>7, <2>1, <2>2, <2>3, <2>5 DEF UnitInv
<1> QED
  BY <1>8, <1>9 DEF Inv

(* An else defines the label of the false condition and awaits the other.  *)
LEMMA StartElseKeeps ==
  ASSUME Inv, StartElse
  PROVE  Inv'
<1> DEFINE m == Len(open)
<1>1. TypeOK
  BY DEF Inv
<1>2. /\ m \in DOMAIN open /\ Top = open[m] /\ Top \in Units
      /\ Top.kind = "if" /\ Top.phase = "then" /\ open # <<>>
  BY <1>1, TopUnit DEF StartElse, TopIs
<1>3. /\ open' \in Seq(Units) /\ DOMAIN open' = DOMAIN open
      /\ \A k \in DOMAIN open : k # m => open'[k] = open[k]
      /\ open'[m] = [Top EXCEPT !.phase = "else"]
  BY <1>1, <1>2, PhaseUnit DEF StartElse
<1> HIDE DEF m
<1>4. /\ open'[m].kind = "if" /\ open'[m].phase = "else"
      /\ open'[m].first = Top.first /\ open'[m].second = Top.second
  BY <1>2, <1>3 DEF Units
<1>5. counter' = counter /\ aborted' = aborted
  BY DEF StartElse
<1>6. /\ Top.first \in Nat /\ Top.second \in Nat /\ Top.first # Top.second
      /\ Top.first < counter /\ Top.second < counter
      /\ Top.second \notin Defined(code) /\ Top.first \notin Defined(code)
      /\ Awaited(Top) = Top.second
  BY <1>2, Basics DEF UnitOK, Pending, Awaited
<1>7. /\ code' \in Seq(CodeOps)
      /\ Defined(code') = Defined(code) \union {Top.second}
      /\ Targets(code') = Targets(code) \union {Top.first}
      /\ Unique(code')
  BY <1>6, Basics, JumpThenDef DEF StartElse
<1>8. TypeOK'
  <2>1. ASSUME NEW k \in DOMAIN open
        PROVE  (open'[k].kind = "while") <=> (open'[k].phase \in {"cond", "body"})
    <3>1. CASE k = m
      <4>1. open'[k].kind # "while" /\ open'[k].phase \notin {"cond", "body"}
        BY <1>4, <3>1
      <4> QED
        BY <4>1
    <3>2. CASE k # m
      BY <1>1, <1>3, <3>2 DEF TypeOK
    <3> QED
      BY <3>1, <3>2
  <2> QED
    BY <1>1, <1>3, <1>5, <1>7, <2>1 DEF TypeOK
<1>9. ASSUME NEW k \in DOMAIN open, k # m
      PROVE  UnitOK(open[k], Defined(code'), counter')
  <2>1. Apart(open[k], Top)
    BY <1>2, <1>9 DEF Inv, UnitInv
  <2>2. /\ open[k].first \in Defined(code') => open[k].first \in Defined(code)
        /\ open[k].second \in Defined(code') => open[k].second \in Defined(code)
    BY <1>7, <2>1 DEF Apart
  <2>3. /\ open[k] \in Units /\ UnitOK(open[k], Defined(code), counter)
        /\ counter \in Nat /\ counter <= counter'
    BY <1>5, <1>9, Basics
  <2>4. Defined(code) \subseteq Defined(code')
    BY <1>7
  <2> QED
    BY <1>5, <2>2, <2>3, <2>4, UnitStays
<1>10. UnitOK(open'[m], Defined(code'), counter')
  BY <1>4, <1>5, <1>6, <1>7 DEF UnitOK, Pending
<1>11. UnitInv'
  <2>1. LabelsUnique'
    BY <1>7 DEF LabelsUnique, Unique
  <2>2. (Defined(code) \subseteq 0..(counter - 1))'
    BY <1>5, <1>6, <1>7, Basics
  <2>3. \A k \in DOMAIN open' : UnitOK(open'[k], Defined(code'), counter')
    BY <1>3, <1>9, <1>10
  <2>4. \A k \in DOMAIN open : /\ open'[k].first = open[k].first
                              /\ open'[k].second = open[k].second
    BY <1>2, <1>3, <1>4
  <2>5. \A k, l \in DOMAIN open' : k # l => Apart(open'[k], open'[l])
    BY <1>3, <2>4 DEF Inv, UnitInv, Apart
  <2>6. Awaited(open'[m]) = Top.first
    BY <1>4 DEF Awaited
  <2>7. ASSUME NEW l \in Targets(code')
        PROVE  l \in Defined(code') \union {Awaited(open'[k]) : k \in DOMAIN open'}
    <3>1. CASE l \in Defined(code) \/ l = Top.second
      BY <1>7, <3>1
    <3>2. CASE l = Top.first
      BY <1>2, <1>3, <2>6, <3>2
    <3>3. CASE \E k \in DOMAIN open : k # m /\ l = Awaited(open[k])
      BY <1>3, <3>3
    <3>4. l \in Targets(code) \/ l = Top.first
      BY <1>7
    <3>5. l \in Targets(code) =>
            l \in Defined(code) \/ \E k \in DOMAIN open : l = Awaited(open[k])
      BY DEF Inv, UnitInv
    <3> QED
      BY <1>2, <1>6, <3>1, <3>2, <3>3, <3>4, <3>5
  <2> QED
    BY <2>1, <2>2, <2>3, <2>5, <2>7 DEF UnitInv
<1> QED
  BY <1>8, <1>11 DEF Inv

LEMMA StartIfKeeps ==
  ASSUME Inv, NEW n \in LocalCounts, StartIf(n)
  PROVE  Inv'
<1> DEFINE f == counter + n
           u == [kind |-> "if", phase |-> "then", first |-> f, second |-> f + 1]
           r == code \o Locals(counter, n)
<1>1. n \in Nat /\ counter \in Nat /\ f \in Nat /\ f + 1 \in Nat
  BY LocalCountsAssumption, Basics
<1>2. /\ u.kind = "if" /\ u.phase = "then" /\ u.first = f /\ u.second = f + 1
      /\ u \in Units
  BY <1>1 DEF Units
<1>3. /\ r \in Seq(CodeOps)
      /\ Defined(r) = Defined(code) \union (counter..(counter + n - 1))
      /\ Targets(r) = Targets(code) /\ Unique(r)
  BY <1>1, Basics, AppendLocals
<1>4. code' = r \o <<Jump(f + 1)>> /\ open' = Append(open, u)
  BY DEF StartIf
<1>5. aborted' = aborted /\ counter' = f + 2 /\ counter' \in Nat
  BY <1>1 DEF StartIf
<1>6. counter <= f /\ f = counter + n
  BY <1>1
<1> HIDE DEF u, r, f
<1>7. /\ code' \in Seq(CodeOps)
      /\ Defined(code') = Defined(code) \union (counter..(counter + n - 1))
      /\ Targets(code') = Targets(code) \union {f + 1}
      /\ Unique(code')
  BY <1>1, <1>3, <1>4, ConcatJump
<1>8. /\ open' \in Seq(Units) /\ Len(open) \in Nat /\ DOMAIN open = 1..Len(open)
      /\ DOMAIN open' = 1..Len(open) + 1
      /\ \A k \in DOMAIN open : open'[k] = open[k]
      /\ open'[Len(open) + 1] = u
  BY <1>2, <1>4, Basics, PushUnit
<1>9. TypeOK'
  BY <1>2, <1>5, <1>7, <1>8 DEF Inv, TypeOK
<1>10. ASSUME NEW k \in DOMAIN open
       PROVE  UnitOK(open'[k], Defined(code'), counter')
  <2>1. /\ open[k].first \in Defined(code') => open[k].first \in Defined(code)
        /\ open[k].second \in Defined(code') => open[k].second \in Defined(code)
    BY <1>1, <1>7, Basics
  <2>2. counter <= counter'
    BY <1>1, <1>5, <1>6
  <2>3. /\ open[k] \in Units /\ UnitOK(open[k], Defined(code), counter)
        /\ counter \in Nat /\ counter' \in Nat
        /\ Defined(code) \subseteq Defined(code')
    BY <1>5, <1>7, Basics
  <2>4. UnitOK(open[k], Defined(code'), counter')
    BY <2>1, <2>2, <2>3, UnitStays
  <2> QED
    BY <1>8, <2>4
<1>11. f \notin Defined(code') /\ f + 1 \notin Defined(code')
  BY <1>1, <1>6, <1>7, Basics
<1>12. UnitOK(u, Defined(code'), counter')
  BY <1>1, <1>2, <1>5, <1>11 DEF UnitOK, Pending
<1>13. \A k \in DOMAIN open : Apart(open[k], u) /\ Apart(u, open[k])
  BY <1>1, <1>2, <1>6, Basics DEF Apart
<1>14. UnitInv'
  <2>1. LabelsUnique'
    BY <1>7 DEF LabelsUnique, Unique
  <2>2. (Defined(code) \subseteq 0..(counter - 1))'
    BY <1>1, <1>5, <1>6, <1>7, Basics
  <2>3. \A k \in DOMAIN open' : UnitOK(open'[k], Defined(code'), counter')
    BY <1>8, <1>10, <1>12
  <2>4. \A k, l \in DOMAIN open' : k # l => Apart(open'[k], open'[l])
    BY <1>8, <1>13 DEF Inv, UnitInv
  <2>5. Awaited(u) = f + 1
    BY <1>2 DEF Awaited
  <2>6. Targets(code') \subseteq
          Defined(code') \union {Awaited(open'[k]) : k \in DOMAIN open'}
    BY <1>7, <1>8, <2>5 DEF Inv, UnitInv
  <2> QED
    BY <2>1, <2>2, <2>3, <2>4, <2>6 DEF UnitInv
<1> QED
  BY <1>9, <1>14 DEF Inv

-----------------------------------------------------------------------------
(* Every step of the specification keeps the invariant.                    *)
LEMMA NextKeeps == Inv /\ Next => Inv'
<1> SUFFICES ASSUME Inv, Next
             PROVE  Inv'
  OBVIOUS
<1>1. ASSUME NEW n \in LocalCounts, Command(n)
      PROVE  Inv'
  BY <1>1, CommandKeeps
<1>2. ASSUME NEW n \in LocalCounts, LoopCondition(n)
      PROVE  Inv'
  BY <1>2, LoopConditionKeeps
<1>3. ASSUME NEW n \in LocalCounts, StartIf(n)
      PROVE  Inv'
  BY <1>3, StartIfKeeps
<1>4. CASE StartLoop
  BY <1>4, StartLoopKeeps
<1>5. CASE FinishLoop
  BY <1>5, FinishLoopKeeps
<1>6. CASE StartElse
  BY <1>6, StartElseKeeps
<1>7. CASE FinishIf
  BY <1>7, FinishIfKeeps
<1> QED
  BY <1>1, <1>2, <1>3, <1>4, <1>5, <1>6, <1>7 DEF Next

LEMMA StutterKeeps == Inv /\ UNCHANGED svars => Inv'
<1> SUFFICES ASSUME Inv, UNCHANGED svars
             PROVE  Inv'
  OBVIOUS
<1>1. code' = code /\ counter' = counter /\ open' = open /\ aborted' = aborted
  BY DEF svars
<1>2. TypeOK'
  BY <1>1 DEF Inv, TypeOK
<1>3. UnitInv'
  BY <1>1 DEF Inv, UnitInv, LabelsUnique
<1> QED
  BY <1>2, <1>3 DEF Inv

(* With no unit open nothing is awaited, and all targets are defined.      *)
LEMMA InvLabels == Inv => WellLabelled
<1> SUFFICES ASSUME Inv
             PROVE  LabelsUnique /\ (open = <<>> => JumpsResolved)
  BY DEF WellLabelled
<1>1. LabelsUnique
  BY DEF Inv, UnitInv
<1>2. ASSUME open = <<>>, NEW i \in DOMAIN code, code[i].op = "jump"
      PROVE  \E j \in DOMAIN code : code[j] = Def(code[i].label)
  <2>1. DOMAIN open = {}
    BY <1>2
  <2>2. code[i].label \in Targets(code)
    BY <1>2 DEF Targets
  <2>3. code[i].label \in Defined(code)
    BY <2>1, <2>2 DEF Inv, UnitInv
  <2>4. PICK j \in DOMAIN code : code[j].op = "def" /\ code[j].label = code[i].label
    BY <2>3 DEF Defined
  <2>5. code[j] \in CodeOps
    BY Basics
  <2>6. code[j] = [op |-> "def", label |-> code[i].label]
    BY <2>4, <2>5 DEF CodeOps
  <2> QED
    BY <2>6 DEF Def
<1> QED
  BY <1>1, <1>2 DEF JumpsResolved

(* Code, counter and units keep their types.                               *)
THEOREM TypeCorrect == Spec => []TypeOK
<1>1. Inv /\ [Next]_svars => Inv'
  BY NextKeeps, StutterKeeps
<1>2. Inv => TypeOK
  BY DEF Inv
<1> QED
  BY <1>1, <1>2, InitInv, PTL DEF Spec

(* Open units keep labels of their own, and no jump is left without a unit *)
(* that is going to define its target.                                     *)
THEOREM UnitsKeepLabels == Spec => []UnitInv
<1>1. Inv /\ [Next]_svars => Inv'
  BY NextKeeps, StutterKeeps
<1>2. Inv => UnitInv
  BY DEF Inv
<1> QED
  BY <1>1, <1>2, InitInv, PTL DEF Spec

(* No label is defined twice and, when every loop and conditional is       *)
(* finished, every jump has its target.                                    *)
THEOREM Labelled == Spec => []WellLabelled
<1>1. Inv /\ [Next]_svars => Inv'
  BY NextKeeps, StutterKeeps
<1> QED
  BY <1>1, InitInv, InvLabels, PTL DEF Spec

(* The same of whatever keeps the promise until it reports an error: the   *)
(* labels of a parser that refines Promise, as Commands does, are valid    *)
(* whenever it has reported none.                                          *)
THEOREM PromiseLabelled == Promise => []WellLabelled
<1> DEFINE I == aborted \/ Inv
<1>1. Init => I
  BY InitInv
<1>2. I /\ [Next \/ aborted']_svars => I'
  <2> SUFFICES ASSUME I, [Next \/ aborted']_svars
               PROVE  I'
    OBVIOUS
  <2>1. CASE Next
    <3>1. Inv
      BY <2>1 DEF Next
    <3> QED
      BY <2>1, <3>1, NextKeeps
  <2>2. CASE aborted'
    BY <2>2
  <2>3. CASE UNCHANGED svars
    <3>1. CASE aborted
      BY <2>3, <3>1 DEF svars
    <3>2. CASE Inv
      BY <2>3, <3>2, StutterKeeps
    <3> QED
      BY <3>1, <3>2
  <2> QED
    BY <2>1, <2>2, <2>3
<1>3. I => WellLabelled
  <2>1. aborted => WellLabelled
    BY DEF WellLabelled
  <2> QED
    BY <2>1, InvLabels
<1> QED
  BY <1>1, <1>2, <1>3, PTL DEF Promise
=============================================================================
