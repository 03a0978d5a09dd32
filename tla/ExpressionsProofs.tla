-------------------------- MODULE ExpressionsProofs --------------------------
(***************************************************************************)
(* TypeOK, NoAssertionFails and OperandsIntact of Expressions, and         *)
(* EffectsAreMeant of Phrases, for every set of literals and symbols and   *)
(* every length of the source file.                                        *)
(*                                                                         *)
(* None of them is inductive.  That an operand is still where it was put   *)
(* when it is used depends on everything that was generated in between, so *)
(* IInv says of every value that a function on the stack holds that it is  *)
(* in place: wholly below gen.next when it is a temporary, and the only    *)
(* value that is stored at its address with its size.  An operation keeps  *)
(* what is in place (Keeps), since it stores at gen.next or after it only, *)
(* and puts its result in place (Generates).  Constants in .rodata and     *)
(* variables are in place as long as no command has ended, and a value of  *)
(* one of them that is held by a function is not changed before: only the  *)
(* last step of a command stores at a variable, and syntatic_read, which   *)
(* stores earlier, is alone on the stack.  The operators that the frames   *)
(* hold are those of their functions; they and the types of the operands   *)
(* are what the assertions are about.                                      *)
(*                                                                         *)
(* MeantInv, of the second part, divides the input among the functions on  *)
(* the stack: each has read its own tokens and the phrases that were       *)
(* returned to it (Begun), and the value it was given is what the phrase   *)
(* means and is still where ret or left says (Means, by IInv).  Each kind  *)
(* of step is shown to keep that division: a call, a return, and a         *)
(* function that goes on (CallTells, ReturnTells, ResumeTells); then each  *)
(* action is one of those whose tokens make a production of the grammar.   *)
(* When a command ends, its own function has the whole input.              *)
(***************************************************************************)
EXTENDS Phrases, SequenceTheorems, WellFoundedInduction, TLAPS

(* The functions that are called by others, and those that are not.        *)
Inner == {"f", "t", "exps", "exp"}
Roots == {"paren", "write", "readln", "attr"}

FrameFields == {"fn", "at", "op", "left", "symbol"}
(* What a function has noted is fit for where it goes on.                  *)
FrameOK(f) ==
  /\ DOMAIN f = FrameFields /\ InfoOK(f.left) /\ f.symbol \in Tokens
  /\ f.fn \in Loops /\ f.at = "operand" => f.op \in OperatorsOf(f.fn)
  /\ f.fn = "exp" /\ f.at = "right" => f.op \in Comparisons
  /\ f.fn = "f" /\ f.at \in {"convert(", "convert)"} => f.op \in {"int", "float"}
  /\ f.fn = "f" /\ f.at = "id" => f.symbol \in Symbols

IsSeq(s) == \E S : s \in Seq(S)

(* One function that is not called by others, and those it has called.     *)
StackOK(s) ==
  /\ IsSeq(s)
  /\ \A i \in 1..Len(s) : FrameOK(s[i])
  /\ \A i \in 1..Len(s) : s[i].fn \in IF i = 1 THEN Roots ELSE Inner
  /\ s # <<>> /\ s[1].fn = "readln" => Len(s) = 1

(* The value is where info says, and the next temporary is not put there.  *)
InPlace(g, info) ==
  /\ InfoOK(info) /\ info.type \in Types /\ info.size = SizeFromType(info.type)
  /\ info.area = "tmp" => info.address + info.size <= g.next
  /\ Holds(g.memory, info, info.size) =
       {Stored(info.area, info.address, info.size, info.value)}

GenOK(g) == g.next \in Nat /\ DOMAIN g = {"next", "memory"}
MemPart(g) == {s \in g.memory : s.area = "mem"}

(* What is in place stays in place.                                        *)
Keeps(g, h) ==
  /\ GenOK(h) /\ MemPart(h) = MemPart(g)
  /\ \A info : InPlace(g, info) => InPlace(h, info)

LexInv == entry \in Tokens /\ found \in BOOLEAN /\ input \in Seq(Tokens)

(* The functions that wait for a result.                                   *)
Awaits(f) ==
  /\ f.at \in {"]", "not", ")", "convert)", "first", "operand", "left", "right",
               "value", "next"}
  /\ f.fn # "readln" /\ <<f.fn, f.at>> # <<"write", ")">>

LeftsInPlace(g, s) ==
  \A i \in 1..Len(s) : HoldsLeft(s[i]) => InPlace(g, s[i].left)

IInv ==
  /\ LexInv /\ GenOK(gen) /\ InfoOK(ret)
  /\ status \in {"running", "ok", "failed", "mismatch"}
  /\ StackOK(stack) /\ LeftsInPlace(gen, stack)
  /\ status = "running" => /\ stack # <<>>
                           /\ Awaits(Top) => InPlace(gen, ret)
  /\ stack # <<>> /\ stack[1].fn # "readln" => MemPart(gen) = Static

-----------------------------------------------------------------------------
(* Stacks.                                                                 *)

LEMMA Shortened ==
  ASSUME NEW S, NEW s \in Seq(S), s # <<>>
  PROVE  LET p == SubSeq(s, 1, Len(s) - 1)
         IN /\ Len(s) \in Nat \ {0} /\ p \in Seq(S) /\ Len(p) = Len(s) - 1
            /\ \A i \in 1..Len(s) - 1 : p[i] = s[i]
<1>1. Len(s) \in Nat \ {0}
  BY EmptySeq
<1>2. \A i \in 1..Len(s) : s[i] \in S
  BY ElementOfSeq
<1> DEFINE n == Len(s) - 1
<1>3. n \in Nat /\ \A i \in 1..n : s[i] \in S
  BY <1>1, <1>2
<1>4. /\ SubSeq(s, 1, n) \in Seq(S)
      /\ Len(SubSeq(s, 1, n)) = IF 1 <= n THEN n - 1 + 1 ELSE 0
      /\ \A i \in 1..(n - 1 + 1) : SubSeq(s, 1, n)[i] = s[1 + i - 1]
  <2> HIDE DEF n
  <2> QED
    BY <1>3, SubSeqProperties
<1>5. Len(SubSeq(s, 1, n)) = n
  <2> HIDE DEF n
  <2> QED
    BY <1>3, <1>4
<1>6. \A i \in 1..n : SubSeq(s, 1, n)[i] = s[i]
  <2> HIDE DEF n
  <2> QED
    BY <1>3, <1>4
<1> QED
  BY <1>1, <1>4, <1>5, <1>6

LEMMA Resumed ==
  ASSUME NEW s, IsSeq(s), s # <<>>, NEW f
  PROVE  LET t == Append(SubSeq(s, 1, Len(s) - 1), f)
         IN /\ IsSeq(t) /\ t # <<>> /\ Len(t) = Len(s) /\ Len(s) \in Nat \ {0}
            /\ \A i \in 1..Len(s) - 1 : t[i] = s[i]
            /\ t[Len(s)] = f
<1>1. PICK S : s \in Seq(S)
  BY DEF IsSeq
<1> DEFINE p == SubSeq(s, 1, Len(s) - 1)
           R == S \union {f}
<1>2. /\ Len(s) \in Nat \ {0} /\ p \in Seq(S) /\ Len(p) = Len(s) - 1
      /\ \A i \in 1..Len(s) - 1 : p[i] = s[i]
  BY <1>1, Shortened
<1> HIDE DEF p
<1>3. p \in Seq(R) /\ f \in R
  BY <1>2, SeqMonotonic
<1> HIDE DEF R
<1> DEFINE t == Append(p, f)
<1>4. /\ t \in Seq(R) /\ Len(t) = Len(p) + 1
      /\ \A i \in 1..Len(p) : t[i] = p[i]
      /\ t[Len(p) + 1] = f
  BY <1>3, AppendProperties
<1> HIDE DEF t
<1>5. t # <<>> /\ Len(t) = Len(s) /\ t[Len(s)] = f
  BY <1>2, <1>4, EmptySeq
<1>6. \A i \in 1..Len(s) - 1 : t[i] = s[i]
  BY <1>2, <1>4
<1>7. IsSeq(t)
  BY <1>4 DEF IsSeq
<1> QED
  BY <1>2, <1>5, <1>6, <1>7 DEF t, p

LEMMA Popped ==
  ASSUME NEW s, IsSeq(s), Len(s) > 1
  PROVE  LET t == SubSeq(s, 1, Len(s) - 1)
         IN /\ IsSeq(t) /\ t # <<>> /\ Len(t) = Len(s) - 1
            /\ Len(s) \in Nat /\ Len(t) \in Nat \ {0}
            /\ \A i \in 1..Len(s) - 1 : t[i] = s[i]
<1>1. PICK S : s \in Seq(S)
  BY DEF IsSeq
<1>2. s # <<>>
  BY EmptySeq
<1> DEFINE p == SubSeq(s, 1, Len(s) - 1)
<1>3. /\ Len(s) \in Nat \ {0} /\ p \in Seq(S) /\ Len(p) = Len(s) - 1
      /\ \A i \in 1..Len(s) - 1 : p[i] = s[i]
  BY <1>1, <1>2, Shortened
<1> HIDE DEF p
<1>4. IsSeq(p) /\ p # <<>> /\ Len(p) \in Nat \ {0}
  BY <1>3, EmptySeq DEF IsSeq
<1> QED
  BY <1>3, <1>4 DEF p

LEMMA Called ==
  ASSUME NEW s, IsSeq(s), NEW c, IsSeq(c)
  PROVE  /\ IsSeq(s \o c) /\ Len(s \o c) = Len(s) + Len(c)
         /\ Len(s) \in Nat /\ Len(c) \in Nat
         /\ \A i \in 1..Len(s) : (s \o c)[i] = s[i]
         /\ \A i \in 1..Len(c) : (s \o c)[Len(s) + i] = c[i]
<1>1. PICK S : s \in Seq(S)
  BY DEF IsSeq
<1>2. PICK C : c \in Seq(C)
  BY DEF IsSeq
<1> DEFINE R == S \union C
<1>3. s \in Seq(R) /\ c \in Seq(R)
  BY <1>1, <1>2, SeqMonotonic
<1> HIDE DEF R
<1> DEFINE t == s \o c
<1>4. /\ t \in Seq(R) /\ Len(t) = Len(s) + Len(c)
      /\ \A i \in 1..Len(s) + Len(c) :
           t[i] = IF i <= Len(s) THEN s[i] ELSE c[i - Len(s)]
  BY <1>3, ConcatProperties
<1>5. Len(s) \in Nat /\ Len(c) \in Nat
  BY <1>3, LenProperties
<1> HIDE DEF t
<1>6. \A i \in 1..Len(s) : t[i] = s[i]
  BY <1>4, <1>5
<1>7. \A i \in 1..Len(c) : t[Len(s) + i] = c[i]
  BY <1>4, <1>5
<1>8. IsSeq(t)
  BY <1>4 DEF IsSeq
<1> QED
  BY <1>4, <1>5, <1>6, <1>7, <1>8 DEF t

-----------------------------------------------------------------------------
(* The generator.                                                          *)

LEMMA Sizes == \A t \in Types : SizeFromType(t) \in {1, 4, 256}
  BY DEF Types, SizeFromType

LEMMA Aligned ==
  ASSUME NEW c \in Nat, NEW n \in Nat \ {0}
  PROVE  /\ AlignedAddress(c, n) \in Nat /\ AlignedAddress(c, n) >= c
         /\ NextAddress(c, n) \in Nat
         /\ NextAddress(c, n) = AlignedAddress(c, n) + n
<1>1. c % n \in 0 .. n - 1
  OBVIOUS
<1> QED
  BY <1>1 DEF AlignedAddress, NextAddress

LEMMA StoreKeeps ==
  ASSUME NEW g, NEW h, GenOK(g), GenOK(h), NEW address \in Nat, NEW width, NEW value,
         address >= g.next, h.next >= g.next,
         h.memory = Store(g.memory, "tmp", address, width, value)
  PROVE  Keeps(g, h)
<1>1. MemPart(h) = MemPart(g)
  BY DEF MemPart, Store, Clear, Stored
<1>2. ASSUME NEW info, InPlace(g, info)
      PROVE  InPlace(h, info)
  <2> DEFINE n == info.size
             e == Stored(info.area, info.address, n, info.value)
  <2>1. /\ info.address \in Nat /\ n \in Nat \ {0}
        /\ info.area = "tmp" => info.address + n <= g.next
        /\ Holds(g.memory, info, n) = {e}
    BY <1>2, Sizes DEF InPlace, InfoOK
  <2>2. g.next \in Nat /\ h.next \in Nat
    BY DEF GenOK
  <2>3. /\ e.area = info.area /\ e.address = info.address /\ e.width = n
        /\ e \in g.memory
    BY <2>1 DEF Holds, Stored
  <2> HIDE DEF e, n
  <2>4. e \in Clear(g.memory, "tmp", address, width)
    BY <2>1, <2>2, <2>3 DEF Clear
  <2>5. Stored("tmp", address, width, value) \notin Holds(h.memory, info, n)
    BY <2>1, <2>2 DEF Holds, Stored
  <2>6. Holds(h.memory, info, n) = {e}
    BY <2>1, <2>3, <2>4, <2>5 DEF Store, Clear, Holds
  <2>7. info.area = "tmp" => info.address + n <= h.next
    BY <2>1, <2>2
  <2> QED
    BY <1>2, <2>6, <2>7 DEF InPlace, e, n
<1> QED
  BY <1>1, <1>2 DEF Keeps

(* What Put makes is in place, and so is what was.                         *)
LEMMA PutKeeps ==
  ASSUME NEW g, GenOK(g), NEW type \in Types, NEW size, NEW width, NEW value,
         size = SizeFromType(type), width = size
  PROVE  LET p == Put(g, size, type, width, value)
         IN /\ Keeps(g, p.gen) /\ InPlace(p.gen, p.info)
            /\ p.info.type = type
<1> DEFINE p == Put(g, size, type, width, value)
           a == AlignedAddress(g.next, size)
<1>1. size \in Nat \ {0} /\ g.next \in Nat
  BY Sizes DEF GenOK
<1>2. a \in Nat /\ a >= g.next /\ NextAddress(g.next, size) \in Nat
      /\ NextAddress(g.next, size) = a + size
  BY <1>1, Aligned
<1>3. /\ p.gen.next = a + size
      /\ p.gen.memory = Store(g.memory, "tmp", a, width, value)
      /\ DOMAIN p.gen = {"next", "memory"}
      /\ p.info = Info("tmp", a, size, type, value)
  BY <1>2 DEF Put
<1> HIDE DEF p, a
<1>4. GenOK(p.gen) /\ p.gen.next >= g.next
  BY <1>1, <1>2, <1>3 DEF GenOK
<1>5. Keeps(g, p.gen)
  BY <1>2, <1>3, <1>4, StoreKeeps
<1>6. /\ p.info.area = "tmp" /\ p.info.address = a /\ p.info.size = size
      /\ p.info.type = type /\ p.info.value = value
  BY <1>3 DEF Info
<1>7. Holds(p.gen.memory, p.info, size) = {Stored("tmp", a, size, value)}
  <2> DEFINE e == Stored("tmp", a, size, value)
  <2>1. e.area = "tmp" /\ e.address = a /\ e.width = size
    BY DEF Stored
  <2> HIDE DEF e
  <2>2. \A s \in Clear(g.memory, "tmp", a, size) :
          ~(s.area = "tmp" /\ s.address = a /\ s.width = size)
    BY <1>1, <1>2 DEF Clear
  <2>3. p.gen.memory = Clear(g.memory, "tmp", a, size) \union {e}
    BY <1>3 DEF Store, e
  <2> QED
    BY <1>6, <2>1, <2>2, <2>3 DEF Holds, e
<1>8. InPlace(p.gen, p.info)
  BY <1>1, <1>2, <1>3, <1>6, <1>7 DEF InPlace, InfoOK
<1> QED
  BY <1>5, <1>6, <1>8 DEF p

LEMMA KeepsMore ==
  ASSUME NEW f, NEW g, NEW h, Keeps(f, g), Keeps(g, h)
  PROVE  Keeps(f, h)
BY DEF Keeps

LEMMA KeepsSame ==
  ASSUME NEW g, GenOK(g)
  PROVE  Keeps(g, g)
BY DEF Keeps

(* Symbols and the literals in .rodata are in place from the start.        *)
LEMMA InMemoryTyped ==
  ASSUME NEW t \in InMemory
  PROVE  t.type \in Types /\ t.address \in Nat
BY LiteralsAssumption, SymbolsAssumption DEF InMemory

LEMMA StaticInPlace ==
  ASSUME NEW g, MemPart(g) = Static, NEW t \in InMemory
  PROVE  InPlace(g, InfoOf(t)) /\ InfoOf(t).type = t.type
<1> DEFINE size == SizeFromType(t.type)
           e == Stored("mem", t.address, size, Leaf(t))
           i == InfoOf(t)
<1>1. t.type \in Types /\ t.address \in Nat /\ size \in Nat
  BY InMemoryTyped, Sizes
<1>2. /\ i.area = "mem" /\ i.address = t.address /\ i.size = size
      /\ i.type = t.type /\ i.value = Leaf(t)
  BY DEF InfoOf, Info
<1>3. e \in g.memory /\ e.area = "mem" /\ e.address = t.address /\ e.width = size
  BY DEF MemPart, Static, Stored
<1> HIDE DEF i, size
<1>4. ASSUME NEW s \in g.memory, s.area = "mem", s.address = t.address
      PROVE  s = e
  <2>1. s \in Static
    BY <1>4 DEF MemPart
  <2>2. PICK u \in InMemory :
          s = Stored("mem", u.address, SizeFromType(u.type), Leaf(u))
    BY <2>1 DEF Static
  <2>3. u = t
    BY <1>4, <2>2, PlacesAssumption DEF Stored
  <2> QED
    BY <2>2, <2>3 DEF size
<1> HIDE DEF e
<1>5. Holds(g.memory, i, size) = {e}
  BY <1>2, <1>3, <1>4 DEF Holds
<1> QED
  BY <1>1, <1>2, <1>5 DEF InPlace, InfoOK, e, i, size

-----------------------------------------------------------------------------
(* The operations.                                                         *)

(* An operation leaves what is in place there, and puts its result there.  *)
Generates(g, p) == Keeps(g, p.gen) /\ InPlace(p.gen, p.info)

LEMMA AddTmpGenerates ==
  ASSUME NEW g, GenOK(g), MemPart(g) = Static, NEW literal \in Literals
  PROVE  Generates(g, AddTmp(g, literal))
<1>1. literal.type \in Types
  BY LiteralsAssumption
<1>2. CASE InRodata(literal)
  <2>1. literal \in InMemory
    BY <1>2 DEF InMemory
  <2>2. AddTmp(g, literal) = [gen |-> g, info |-> InfoOf(literal)]
    BY <1>2 DEF AddTmp
  <2> QED
    BY <2>1, <2>2, StaticInPlace, KeepsSame DEF Generates
<1>3. CASE ~InRodata(literal)
  <2>1. AddTmp(g, literal) = Put(g, SizeFromType(literal.type), literal.type,
                                 SizeFromType(literal.type), Leaf(literal))
    BY <1>3 DEF AddTmp
  <2> QED
    BY <1>1, <2>1, PutKeeps DEF Generates
<1> QED
  BY <1>2, <1>3

Numeric == {"int", "float"}

LEMMA ConvertGenerates ==
  ASSUME NEW g, GenOK(g), NEW info, InPlace(g, info), info.type \in Numeric,
         NEW type \in Numeric
  PROVE  /\ Generates(g, Convert(g, info, type))
         /\ Convert(g, info, type).info.type = type
<1>1. info.size = 4 /\ SizeFromType(type) = 4 /\ type \in Types
  BY DEF InPlace, Numeric, SizeFromType, Types
<1> QED
  BY <1>1, PutKeeps DEF Generates, Convert

LEMMA NegateGenerates ==
  ASSUME NEW g, GenOK(g), NEW info, InPlace(g, info), info.type \in Numeric
  PROVE  Generates(g, Negate(g, info))
<1>1. info.size = 4 /\ SizeFromType(info.type) = 4 /\ info.type \in Types
  BY DEF InPlace, Numeric, SizeFromType, Types
<1> QED
  BY <1>1, PutKeeps DEF Generates, Negate

LEMMA LogicNegateGenerates ==
  ASSUME NEW g, GenOK(g), NEW info, InPlace(g, info), info.type = "logic"
  PROVE  Generates(g, LogicNegate(g, info))
<1>1. info.size = 1 /\ SizeFromType("logic") = 1 /\ "logic" \in Types
  BY DEF InPlace, SizeFromType, Types
<1> QED
  BY <1>1, PutKeeps DEF Generates, LogicNegate

LEMMA MoveGenerates ==
  ASSUME NEW g, GenOK(g), NEW symbol, NEW index
  PROVE  Generates(g, MoveIdxToTmp(g, symbol, index))
<1>1. SizeFromType("char") = 1 /\ "char" \in Types
  BY DEF SizeFromType, Types
<1> QED
  BY <1>1, PutKeeps DEF Generates, MoveIdxToTmp

BinaryOperators == TermOperators \union FactorOperators \union Comparisons

(* After the rules of Accepts and the conversion the assertions hold.      *)
LEMMA Balanced ==
  ASSUME NEW g, GenOK(g), NEW left, NEW right, InPlace(g, left), InPlace(g, right),
         NEW op \in BinaryOperators, Accepts(op, left.type, right.type)
  PROVE  LET b == Balance(g, left, right)
         IN /\ Keeps(g, b.gen) /\ InPlace(b.gen, b.left) /\ InPlace(b.gen, b.right)
            /\ Asserted(op, b.left, b.right)
            /\ op \in {"and", "or"} => b.left.type = "logic"
<1> DEFINE b == Balance(g, left, right)
<1>1. CASE left.type = "int" /\ right.type = "float"
  <2> DEFINE c == Convert(g, left, "float")
  <2>1. b = [gen |-> c.gen, left |-> c.info, right |-> right]
    BY <1>1 DEF Balance
  <2>2. Generates(g, c) /\ c.info.type = "float"
    BY <1>1, ConvertGenerates DEF Numeric
  <2> HIDE DEF c
  <2>3. b.gen = c.gen /\ b.left = c.info /\ b.right = right
    BY <2>1
  <2> HIDE DEF b
  <2>4. op \notin {"mod", "div", "and", "or"}
    BY <1>1 DEF Accepts
  <2>5. c.info.size # 0
    BY <2>2, Sizes DEF Generates, InPlace
  <2> QED
    BY <1>1, <2>2, <2>3, <2>4, <2>5 DEF Asserted, Generates, Keeps, b
<1>2. CASE left.type = "float" /\ right.type = "int"
  <2> DEFINE c == Convert(g, right, "float")
  <2>1. b = [gen |-> c.gen, left |-> left, right |-> c.info]
    BY <1>2 DEF Balance
  <2>2. Generates(g, c) /\ c.info.type = "float"
    BY <1>2, ConvertGenerates DEF Numeric
  <2> HIDE DEF c
  <2>3. b.gen = c.gen /\ b.left = left /\ b.right = c.info
    BY <2>1
  <2> HIDE DEF b
  <2>4. op \notin {"mod", "div", "and", "or"}
    BY <1>2 DEF Accepts
  <2>5. left.size # 0
    BY Sizes DEF InPlace
  <2> QED
    BY <1>2, <2>2, <2>3, <2>4, <2>5 DEF Asserted, Generates, Keeps, b
<1>3. CASE ~(left.type = "int" /\ right.type = "float")
           /\ ~(left.type = "float" /\ right.type = "int")
  <2>1. b = [gen |-> g, left |-> left, right |-> right]
    BY <1>3 DEF Balance
  <2>2. b.gen = g /\ b.left = left /\ b.right = right
    BY <2>1
  <2> HIDE DEF b
  <2>3. left.type = right.type
    BY <1>3 DEF Accepts, Arithmetic, BinaryOperators, TermOperators,
                FactorOperators, Comparisons
  <2>4. /\ op \in {"+", "-", "*", "/"} => left.type \in {"int", "float"}
        /\ op \in {"mod", "div"} => left.type = "int"
        /\ op \in {"and", "or"} => left.type = "logic"
    BY DEF Accepts, Arithmetic
  <2>5. left.size # 0
    BY Sizes DEF InPlace
  <2> QED
    BY <2>2, <2>3, <2>4, <2>5, KeepsSame DEF Asserted, b
<1> QED
  BY <1>1, <1>2, <1>3

LEMMA PerformGenerates ==
  ASSUME NEW g, GenOK(g), NEW left, NEW right, InPlace(g, left), InPlace(g, right),
         NEW op \in BinaryOperators, op \in {"and", "or"} => left.type = "logic"
  PROVE  Generates(g, Perform(g, op, left, right))
<1> DEFINE width == IF op \in {"and", "or"} THEN 1 ELSE SizeFromType(left.type)
           value == Term(Operation(op, left.type), left.type,
                      <<Load(g.memory, left, width), Load(g.memory, right, width)>>)
<1>1. /\ left.type \in Types /\ left.size = SizeFromType(left.type)
      /\ width = left.size
      /\ SizeFromType("logic") = 1 /\ "logic" \in Types
  BY DEF InPlace, SizeFromType, Types
<1>2. Perform(g, op, left, right) =
        IF op \in Comparisons THEN Put(g, 1, "logic", 1, value)
        ELSE Put(g, left.size, left.type, width, value)
  BY DEF Perform
<1> HIDE DEF width, value
<1>3. Generates(g, Put(g, 1, "logic", 1, value))
  BY <1>1, PutKeeps DEF Generates
<1>4. Generates(g, Put(g, left.size, left.type, width, value))
  BY <1>1, PutKeeps DEF Generates
<1> QED
  BY <1>2, <1>3, <1>4

LEMMA CombineGenerates ==
  ASSUME GenOK(gen), NEW left, NEW right, InPlace(gen, left), InPlace(gen, right),
         NEW op \in BinaryOperators, Accepts(op, left.type, right.type)
  PROVE  BinaryOK(op, left, right) /\ Generates(gen, Combine(op, left, right))
<1> DEFINE b == Balance(gen, left, right)
<1>1. /\ Keeps(gen, b.gen) /\ InPlace(b.gen, b.left) /\ InPlace(b.gen, b.right)
      /\ Asserted(op, b.left, b.right)
      /\ op \in {"and", "or"} => b.left.type = "logic"
  BY Balanced
<1>2. Combine(op, left, right) = Perform(b.gen, op, b.left, b.right)
  BY DEF Combine
<1>3. BinaryOK(op, left, right)
  BY <1>1 DEF BinaryOK
<1> HIDE DEF b
<1>4. Generates(b.gen, Combine(op, left, right))
  BY <1>1, <1>2, PerformGenerates DEF Keeps
<1> QED
  BY <1>1, <1>3, <1>4, KeepsMore DEF Generates

-----------------------------------------------------------------------------
(* What the parser does with its stack.                                    *)

Calls == {CallF, CallT, CallExps, CallExp}

LEMMA FrameFacts ==
  ASSUME NEW fn, NEW at
  PROVE  LET f == Frame(fn, at)
         IN /\ f.fn = fn /\ f.at = at /\ f.op = "none" /\ f.symbol = Undeclared
            /\ DOMAIN f = FrameFields /\ f.left = NoInfo
BY DEF Frame, FrameFields

LEMMA Fresh ==
  ASSUME NEW fn, NEW at,
         at \notin {"loop", "operand", "right", "id", "convert(", "convert)"}
  PROVE  FrameOK(Frame(fn, at)) /\ ~HoldsLeft(Frame(fn, at))
<1>1. InfoOK(NoInfo) /\ Undeclared \in Tokens
  BY DEF InfoOK, NoInfo, Info, Tokens
<1> QED
  BY <1>1, FrameFacts DEF FrameOK, HoldsLeft

LEMMA Joined ==
  ASSUME NEW x, NEW y
  PROVE  <<x>> \o <<y>> = <<x, y>>
<1> DEFINE S == {x, y}
<1>1. <<x>> \in Seq(S) /\ <<y>> \in Seq(S) /\ <<x, y>> \in Seq(S)
  OBVIOUS
<1>2. Len(<<x>>) = 1 /\ Len(<<y>>) = 1 /\ Len(<<x, y>>) = 2
  OBVIOUS
<1> DEFINE j == <<x>> \o <<y>>
<1>3. /\ j \in Seq(S) /\ Len(j) = Len(<<x>>) + Len(<<y>>)
      /\ \A i \in 1..Len(<<x>>) + Len(<<y>>) :
           j[i] = IF i <= Len(<<x>>) THEN <<x>>[i] ELSE <<y>>[i - Len(<<x>>)]
  BY <1>1, ConcatProperties
<1> HIDE DEF j, S
<1>4. Len(j) = 2 /\ j[1] = x /\ j[2] = y
  BY <1>2, <1>3
<1>5. \A i \in 1..Len(j) : j[i] = <<x, y>>[i]
  BY <1>4
<1>6. j = <<x, y>>
  BY <1>1, <1>2, <1>3, <1>4, <1>5, SeqEqual
<1> QED
  BY <1>6 DEF j

LEMMA CallFrames ==
  ASSUME NEW c \in Calls
  PROVE  /\ IsSeq(c) /\ Len(c) \in {1, 2}
         /\ \A i \in 1..Len(c) : /\ FrameOK(c[i]) /\ c[i].fn \in Inner
                                 /\ ~HoldsLeft(c[i])
         /\ ~Awaits(c[Len(c)])
<1> DEFINE f == Frame("f", "start")
           t == Frame("t", "first")
           s == Frame("exps", "sign")
           e == Frame("exp", "left")
<1>1. /\ FrameOK(f) /\ f.fn \in Inner /\ ~HoldsLeft(f) /\ ~Awaits(f)
      /\ FrameOK(t) /\ t.fn \in Inner /\ ~HoldsLeft(t)
      /\ FrameOK(s) /\ s.fn \in Inner /\ ~HoldsLeft(s) /\ ~Awaits(s)
      /\ FrameOK(e) /\ e.fn \in Inner /\ ~HoldsLeft(e)
  BY Fresh, FrameFacts DEF Inner, Awaits
<1> HIDE DEF f, t, s, e
<1>2. CallF = <<f>> /\ CallExps = <<s>> /\ CallT = <<t, f>> /\ CallExp = <<e, s>>
  <2>1. CallF = <<f>> /\ CallExps = <<s>>
    BY DEF CallF, CallExps, f, s
  <2>2. CallT = <<t>> \o <<f>> /\ CallExp = <<e>> \o <<s>>
    BY <2>1 DEF CallT, CallExp, t, e
  <2> QED
    BY <2>1, <2>2, Joined
<1>3. \A x, y : IsSeq(<<x>>) /\ IsSeq(<<x, y>>)
  <2>1. \A x, y : <<x>> \in Seq({x, y}) /\ <<x, y>> \in Seq({x, y})
    OBVIOUS
  <2> QED
    BY <2>1 DEF IsSeq
<1>4. CASE c = <<f>> \/ c = <<s>>
  <2>1. IsSeq(c) /\ Len(c) = 1
    BY <1>3, <1>4
  <2>2. c[1] \in {f, s}
    BY <1>4
  <2> QED
    BY <1>1, <2>1, <2>2
<1>5. CASE c = <<t, f>> \/ c = <<e, s>>
  <2>1. IsSeq(c) /\ Len(c) = 2
    BY <1>3, <1>5
  <2>2. c[1] \in {t, e} /\ c[2] \in {f, s}
    BY <1>5
  <2> QED
    BY <1>1, <2>1, <2>2
<1> QED
  BY <1>2, <1>4, <1>5 DEF Calls

LEMMA TopFacts ==
  ASSUME IInv, status = "running"
  PROVE  /\ stack # <<>> /\ IsSeq(stack) /\ Len(stack) \in Nat \ {0}
         /\ FrameOK(Top) /\ (HoldsLeft(Top) => InPlace(gen, Top.left))
         /\ Awaits(Top) => InPlace(gen, ret)
         /\ Top.fn \in Inner => Len(stack) > 1 /\ MemPart(gen) = Static
         /\ Top.fn \notin Inner => Len(stack) = 1
<1>1. stack # <<>> /\ IsSeq(stack)
  BY DEF IInv, StackOK
<1>2. Len(stack) \in Nat \ {0}
  BY <1>1, Resumed
<1>3. Len(stack) \in 1..Len(stack) /\ 1 \in 1..Len(stack)
  BY <1>2
<1>4. /\ FrameOK(Top) /\ (HoldsLeft(Top) => InPlace(gen, Top.left))
      /\ Top.fn \in IF Len(stack) = 1 THEN Roots ELSE Inner
  BY <1>3 DEF IInv, StackOK, LeftsInPlace, Top
<1>5. Roots \intersect Inner = {}
  BY DEF Roots, Inner
<1>6. Awaits(Top) => InPlace(gen, ret)
  BY DEF IInv
<1>7. ASSUME Top.fn \in Inner
      PROVE  Len(stack) > 1 /\ MemPart(gen) = Static
  <2>1. Len(stack) # 1
    BY <1>4, <1>5, <1>7
  <2>2. stack[1].fn # "readln"
    BY <1>1, <2>1 DEF IInv, StackOK
  <2>3. Len(stack) > 1
    <3> DEFINE n == Len(stack)
    <3>1. n \in Nat \ {0} /\ n # 1
      BY <1>2, <2>1
    <3> HIDE DEF n
    <3>2. n > 1
      BY <3>1
    <3> QED
      BY <3>2 DEF n
  <2> QED
    BY <1>1, <2>2, <2>3 DEF IInv
<1>8. Top.fn \notin Inner => Len(stack) = 1
  BY <1>4
<1> QED
  BY <1>1, <1>2, <1>4, <1>6, <1>7, <1>8

LEMMA ResumeKeeps ==
  ASSUME IInv, status = "running", status' = status, LexInv',
         NEW f, FrameOK(f), f.fn = Top.fn, stack' = Resume(f),
         Keeps(gen, gen'), InfoOK(ret'),
         HoldsLeft(f) => InPlace(gen', f.left), Awaits(f) => InPlace(gen', ret')
  PROVE  IInv'
<1> DEFINE n == Len(stack)
<1>1. /\ IsSeq(stack') /\ stack' # <<>> /\ Len(stack') = n /\ n \in Nat \ {0}
      /\ \A i \in 1..n - 1 : stack'[i] = stack[i]
      /\ stack'[n] = f
  BY TopFacts, Resumed DEF Resume, Pop
<1>2. stack[n].fn = f.fn
  BY DEF Top
<1> HIDE DEF n
<1>3. \A i \in 1..n : /\ FrameOK(stack'[i]) /\ stack'[i].fn = stack[i].fn
                      /\ HoldsLeft(stack'[i]) => InPlace(gen', stack'[i].left)
  <2> SUFFICES ASSUME NEW i \in 1..n
               PROVE  /\ FrameOK(stack'[i]) /\ stack'[i].fn = stack[i].fn
                      /\ HoldsLeft(stack'[i]) => InPlace(gen', stack'[i].left)
    OBVIOUS
  <2>1. CASE i = n
    BY <1>1, <1>2, <2>1
  <2>2. CASE i # n
    <3>1. stack'[i] = stack[i] /\ i \in 1..Len(stack)
      BY <1>1, <2>2 DEF n
    <3> QED
      BY <3>1 DEF IInv, StackOK, LeftsInPlace, Keeps
  <2> QED
    BY <2>1, <2>2
<1>4. StackOK(stack')
  <2>1. \A i \in 1..n : stack'[i].fn \in IF i = 1 THEN Roots ELSE Inner
    BY <1>3 DEF IInv, StackOK, n
  <2>2. stack'[1].fn = "readln" => n = 1
    BY <1>1, <1>3, TopFacts DEF IInv, StackOK, n
  <2> QED
    BY <1>1, <1>3, <2>1, <2>2 DEF StackOK
<1>5. LeftsInPlace(gen', stack')
  BY <1>1, <1>3 DEF LeftsInPlace
<1>6. stack'[1].fn # "readln" => MemPart(gen') = Static
  BY <1>1, <1>3, TopFacts DEF IInv, Keeps
<1> QED
  BY <1>1, <1>4, <1>5, <1>6 DEF IInv, Keeps, Top

LEMMA CallKeeps ==
  ASSUME IInv, status = "running", status' = status, LexInv',
         NEW f, FrameOK(f), f.fn = Top.fn, f.fn # "readln",
         NEW c \in Calls, stack' = Resume(f) \o c,
         gen' = gen, ret' = ret, HoldsLeft(f) => InPlace(gen, f.left)
  PROVE  IInv'
<1> DEFINE n == Len(stack)
           r == Resume(f)
           k == Len(c)
<1>1. /\ IsSeq(r) /\ r # <<>> /\ Len(r) = n /\ n \in Nat \ {0}
      /\ \A i \in 1..n - 1 : r[i] = stack[i]
      /\ r[n] = f
  BY TopFacts, Resumed DEF Resume, Pop
<1>2. stack[n].fn = f.fn
  BY DEF Top
<1>3. /\ IsSeq(c) /\ k \in {1, 2}
      /\ \A i \in 1..k : FrameOK(c[i]) /\ c[i].fn \in Inner /\ ~HoldsLeft(c[i])
      /\ ~Awaits(c[k])
  BY CallFrames
<1> HIDE DEF r, n
<1>4. /\ IsSeq(stack') /\ Len(stack') = n + k
      /\ \A i \in 1..n : stack'[i] = r[i]
      /\ \A i \in 1..k : stack'[n + i] = c[i]
  <2> DEFINE j == r \o c
  <2>1. /\ IsSeq(j) /\ Len(j) = Len(r) + Len(c)
        /\ Len(r) \in Nat /\ Len(c) \in Nat
        /\ \A i \in 1..Len(r) : j[i] = r[i]
        /\ \A i \in 1..Len(c) : j[Len(r) + i] = c[i]
    <3> HIDE DEF j
    <3>1. ASSUME NEW s, IsSeq(s), NEW d, IsSeq(d), NEW v, v = s \o d
          PROVE  /\ IsSeq(v) /\ Len(v) = Len(s) + Len(d)
                 /\ Len(s) \in Nat /\ Len(d) \in Nat
                 /\ \A i \in 1..Len(s) : v[i] = s[i]
                 /\ \A i \in 1..Len(d) : v[Len(s) + i] = d[i]
      BY <3>1, Called
    <3>2. IsSeq(r) /\ IsSeq(c) /\ j = r \o c
      BY <1>1, <1>3 DEF j
    <3> HIDE DEF k
    <3>3. IsSeq(j)
      BY <3>1, <3>2
    <3>4. Len(j) = Len(r) + Len(c)
      BY <3>1, <3>2
    <3>5. Len(r) \in Nat /\ Len(c) \in Nat
      BY <3>1, <3>2
    <3>6. \A i \in 1..Len(r) : j[i] = r[i]
      BY <3>1, <3>2
    <3>7. \A i \in 1..Len(c) : j[Len(r) + i] = c[i]
      BY <3>1, <3>2
    <3> QED
      BY <3>3, <3>4, <3>5, <3>6, <3>7
  <2>2. stack' = j
    BY DEF r
  <2> HIDE DEF j
  <2> QED
    BY <1>1, <2>1, <2>2
<1> HIDE DEF k
<1>5. \A i \in 1..n : /\ FrameOK(stack'[i]) /\ stack'[i].fn = stack[i].fn
                      /\ HoldsLeft(stack'[i]) => InPlace(gen, stack'[i].left)
  <2> SUFFICES ASSUME NEW i \in 1..n
               PROVE  /\ FrameOK(stack'[i]) /\ stack'[i].fn = stack[i].fn
                      /\ HoldsLeft(stack'[i]) => InPlace(gen, stack'[i].left)
    OBVIOUS
  <2>1. CASE i = n
    BY <1>1, <1>2, <1>4, <2>1
  <2>2. CASE i # n
    <3>1. i \in 1..n - 1
      BY <1>1, <2>2
    <3>2. stack'[i] = stack[i]
      BY <1>1, <1>4, <3>1
    <3>3. i \in 1..Len(stack)
      BY DEF n
    <3> QED
      BY <3>2, <3>3 DEF IInv, StackOK, LeftsInPlace
  <2> QED
    BY <2>1, <2>2
<1>6. \A i \in 1..n + k : i \notin 1..n =>
        FrameOK(stack'[i]) /\ stack'[i].fn \in Inner /\ ~HoldsLeft(stack'[i])
  <2> SUFFICES ASSUME NEW i \in 1..n + k, i \notin 1..n
               PROVE  FrameOK(stack'[i]) /\ stack'[i].fn \in Inner /\ ~HoldsLeft(stack'[i])
    OBVIOUS
  <2>1. i - n \in 1..k /\ stack'[i] = c[i - n]
    <3>1. i - n \in 1..k /\ i = n + (i - n)
      BY <1>1, <1>3
    <3> QED
      BY <1>4, <3>1
  <2> QED
    BY <1>3, <2>1
<1>7. stack' # <<>> /\ n + k \in Nat /\ n + k # 0 /\ stack'[Len(stack')] = c[k]
  <2>1. n + k \in Nat /\ n + k # 0 /\ k \in 1..k
    BY <1>1, <1>3
  <2>2. stack' # <<>>
    BY <1>4, <2>1, EmptySeq
  <2> QED
    BY <1>4, <2>1, <2>2
<1>8. stack[1].fn # "readln"
  <2>1. stack[1].fn = "readln" => n = 1
    BY TopFacts DEF IInv, StackOK, n
  <2> QED
    BY <1>2, <2>1
<1>9. StackOK(stack')
  <2>1. \A i \in 1..n + k : FrameOK(stack'[i])
    BY <1>5, <1>6
  <2>2. \A i \in 1..n : stack[i].fn \in IF i = 1 THEN Roots ELSE Inner
    BY DEF IInv, StackOK, n
  <2>3. ASSUME NEW i \in 1..n + k
        PROVE  stack'[i].fn \in IF i = 1 THEN Roots ELSE Inner
    <3>1. CASE i \in 1..n
      BY <1>5, <2>2, <3>1
    <3>2. CASE i \notin 1..n
      <4>1. i # 1
        BY <1>1, <3>2
      <4> QED
        BY <1>6, <3>2, <4>1
    <3> QED
      BY <3>1, <3>2
  <2>4. stack'[1].fn # "readln"
    <3>1. 1 \in 1..n
      BY <1>1
    <3> QED
      BY <1>5, <1>8, <3>1
  <2> QED
    BY <1>4, <2>1, <2>3, <2>4 DEF StackOK
<1>10. LeftsInPlace(gen', stack')
  BY <1>4, <1>5, <1>6 DEF LeftsInPlace
<1>11. MemPart(gen') = Static
  BY <1>8, TopFacts DEF IInv
<1>12. ~Awaits(Top')
  BY <1>3, <1>7 DEF Top
<1> QED
  BY <1>7, <1>9, <1>10, <1>11, <1>12 DEF IInv

LEMMA ReturnKeeps ==
  ASSUME IInv, status = "running", status' = status, LexInv', Top.fn \in Inner,
         stack' = Pop, Keeps(gen, gen'), InPlace(gen', ret')
  PROVE  IInv'
<1> DEFINE n == Len(stack)
<1>1. IsSeq(stack) /\ n > 1 /\ MemPart(gen) = Static
  BY TopFacts
<1>2. /\ IsSeq(stack') /\ stack' # <<>> /\ Len(stack') = n - 1
      /\ n \in Nat /\ Len(stack') \in Nat \ {0}
      /\ \A i \in 1..n - 1 : stack'[i] = stack[i]
  BY <1>1, Popped DEF Pop
<1> HIDE DEF n
<1>3. \A i \in 1..n - 1 : i \in 1..Len(stack) /\ stack'[i] = stack[i]
  BY <1>2 DEF n
<1>4. stack'[1].fn # "readln"
  BY <1>1, <1>2, <1>3, TopFacts DEF IInv, StackOK, n
<1>5. StackOK(stack')
  BY <1>2, <1>3, <1>4 DEF IInv, StackOK
<1>6. LeftsInPlace(gen', stack')
  BY <1>2, <1>3 DEF IInv, LeftsInPlace, Keeps
<1> QED
  BY <1>1, <1>2, <1>5, <1>6 DEF IInv, Keeps, InPlace

LEMMA FinishKeeps ==
  ASSUME IInv, LexInv', GenOK(gen'), stack' = <<>>, status' = "ok", ret' = ret
  PROVE  IInv'
<1>1. StackOK(<<>>)
  <2>1. IsSeq(<<>>)
    BY EmptySeq DEF IsSeq
  <2> QED
    BY <2>1 DEF StackOK
<1>2. LeftsInPlace(gen', <<>>)
  BY DEF LeftsInPlace
<1> QED
  BY <1>1, <1>2 DEF IInv

LEMMA EndKeeps ==
  ASSUME IInv, LexInv', stack' = stack, ret' = ret, gen' = gen,
         status' \in {"failed", "mismatch"}
  PROVE  IInv'
BY DEF IInv

(* The commands that have no expressions to wait for, or have used them.   *)
LEMMA RootKeeps ==
  ASSUME IInv, status = "running", status' = status, LexInv',
         NEW f, FrameOK(f), f.fn = Top.fn, stack' = Resume(f),
         f.fn \in {"write", "readln"}, ~Awaits(f),
         GenOK(gen'), f.fn = "write" => MemPart(gen') = MemPart(gen), ret' = ret
  PROVE  IInv'
<1>1. Len(stack) = 1
  BY TopFacts DEF Inner
<1>2. /\ IsSeq(stack') /\ stack' # <<>> /\ Len(stack') = 1 /\ stack'[1] = f
  BY <1>1, TopFacts, Resumed, ZenonT(40) DEF Resume, Pop
<1>3. ~HoldsLeft(f)
  BY DEF HoldsLeft, Loops
<1>4. StackOK(stack')
  BY <1>2 DEF StackOK, Roots
<1>5. LeftsInPlace(gen', stack')
  BY <1>2, <1>3 DEF LeftsInPlace
<1>6. stack'[1].fn # "readln" => MemPart(gen') = Static
  BY <1>1, <1>2, TopFacts DEF IInv, Top
<1> QED
  BY <1>2, <1>4, <1>5, <1>6 DEF IInv, Top

-----------------------------------------------------------------------------
(* Tokens, and the frames that an action makes from the innermost one.     *)

LEMMA Lexes ==
  ASSUME LexInv, NEW tok, Match(tok)
  PROVE  LexInv'
<1>1. Undeclared \in Tokens
  BY DEF Tokens
<1>2. entry' \in Tokens /\ found' \in BOOLEAN
  BY <1>1 DEF LexInv, Match
<1>3. input' \in Seq(Tokens)
  BY DEF LexInv, Match
<1> QED
  BY <1>2, <1>3 DEF LexInv

LEMMA TokenKinds ==
  ASSUME NEW t \in Tokens
  PROVE  /\ t.tok = "constant" => t \in Literals
         /\ t.tok = "identifier" /\ t.type # "none" => t \in Symbols
<1>1. CASE t \in Literals
  BY <1>1, LiteralsAssumption
<1>2. CASE t \in Symbols
  BY <1>2, SymbolsAssumption
<1>3. CASE t = Undeclared
  BY <1>3 DEF Undeclared, Plain
<1>4. CASE \E k \in Keywords : t = Plain(k)
  BY <1>4, KeywordsAssumption DEF Plain
<1> QED
  BY <1>1, <1>2, <1>3, <1>4 DEF Tokens

Changed(t, f, at) ==
  DOMAIN f = FrameFields /\ f.fn = t.fn /\ f.at = at

LEMMA AtChanges ==
  ASSUME NEW t, DOMAIN t = FrameFields, NEW at
  PROVE  LET f == [t EXCEPT !.at = at]
         IN Changed(t, f, at) /\ f.op = t.op /\ f.left = t.left /\ f.symbol = t.symbol
BY DEF Changed, FrameFields

LEMMA FailKeeps ==
  ASSUME IInv, Fail
  PROVE  IInv'
BY EndKeeps DEF Fail, IInv, LexInv, lexVars, genVars

LEMMA ErrorKeeps ==
  ASSUME IInv, LexInv', SemanticError
  PROVE  IInv'
BY EndKeeps DEF SemanticError, genVars

LEMMA TakeResumes ==
  ASSUME IInv, status = "running", NEW tok, NEW f, Take(tok, Resume(f)),
         FrameOK(f), f.fn = Top.fn,
         HoldsLeft(f) => InPlace(gen, f.left), Awaits(f) => InPlace(gen, ret)
  PROVE  IInv'
<1>1. CASE Fail
  BY <1>1, FailKeeps
<1>2. CASE Match(tok) /\ stack' = Resume(f) /\ UNCHANGED <<ret, status, genVars>>
  <2>1. LexInv' /\ GenOK(gen) /\ InfoOK(ret)
    BY <1>2, Lexes DEF IInv
  <2>2. status' = status /\ ret' = ret /\ gen' = gen /\ stack' = Resume(f)
    BY <1>2 DEF genVars
  <2>3. Keeps(gen, gen')
    BY <2>1, <2>2, KeepsSame
  <2> QED
    BY <2>1, <2>2, <2>3, ResumeKeeps
<1> QED
  BY <1>1, <1>2 DEF Take

LEMMA TakeCalls ==
  ASSUME IInv, status = "running", NEW tok, NEW f, NEW c \in Calls,
         Take(tok, Resume(f) \o c),
         FrameOK(f), f.fn = Top.fn, f.fn # "readln",
         HoldsLeft(f) => InPlace(gen, f.left)
  PROVE  IInv'
<1>1. CASE Fail
  BY <1>1, FailKeeps
<1>2. CASE /\ Match(tok) /\ stack' = Resume(f) \o c
           /\ UNCHANGED <<ret, status, genVars>>
  <2>1. LexInv'
    BY <1>2, Lexes DEF IInv
  <2>2. /\ status' = status /\ ret' = ret /\ gen' = gen
        /\ stack' = Resume(f) \o c
    BY <1>2 DEF genVars
  <2> QED
    BY <2>1, <2>2, CallKeeps
<1> QED
  BY <1>1, <1>2 DEF Take

-----------------------------------------------------------------------------
(* syntatic_f                                                              *)

LEMMA ConstantKeeps == ASSUME IInv, Constant PROVE IInv'
<1>1. /\ status = "running" /\ Top.fn \in Inner /\ GenOK(gen)
      /\ entry \in Literals
  BY TokenKinds DEF Constant, At, Inner, IInv, LexInv
<1>2. CASE Fail
  BY <1>2, FailKeeps
<1> DEFINE p == AddTmp(gen, entry)
<1>3. CASE Match("constant") /\ gen' = p.gen /\ Return(p.info)
  <2>1. LexInv'
    BY <1>3, Lexes DEF IInv
  <2>2. Generates(gen, p)
    BY <1>1, TopFacts, AddTmpGenerates
  <2> HIDE DEF p
  <2>3. Keeps(gen, gen') /\ InPlace(gen', ret') /\ stack' = Pop /\ status' = status
    BY <1>3, <2>2 DEF Generates, Return
  <2> QED
    BY <1>1, <2>1, <2>3, ReturnKeeps
<1> QED
  BY <1>2, <1>3 DEF Constant

LEMMA IdentifierKeeps == ASSUME IInv, Identifier PROVE IInv'
<1>1. CASE Fail
  BY <1>1, FailKeeps
<1>2. CASE Match("identifier")
  <2>1. LexInv'
    BY <1>2, Lexes DEF IInv
  <2>2. CASE SemanticError
    BY <2>1, <2>2, ErrorKeeps
  <2> DEFINE f == [Top EXCEPT !.at = "id", !.symbol = entry]
  <2>3. CASE /\ entry.type # "none" /\ stack' = Resume(f)
             /\ UNCHANGED <<ret, status, genVars>>
    <3>1. /\ status = "running" /\ Top.fn = "f" /\ Top.at = "start"
          /\ entry \in Symbols /\ entry \in Tokens /\ GenOK(gen) /\ InfoOK(ret)
      BY <2>3, TokenKinds DEF Identifier, At, IInv, LexInv
    <3>2. FrameOK(Top)
      BY <3>1, TopFacts
    <3>3. Changed(Top, f, "id") /\ f.left = Top.left /\ f.symbol = entry
      <4>1. DOMAIN Top = FrameFields
        BY <3>2 DEF FrameOK
      <4> QED
        BY <4>1 DEF Changed, FrameFields
    <3> HIDE DEF f
    <3>4. FrameOK(f) /\ f.fn = Top.fn /\ ~HoldsLeft(f) /\ ~Awaits(f)
      BY <3>1, <3>2, <3>3 DEF FrameOK, Changed, HoldsLeft, Awaits, Loops
    <3>5. /\ status' = status /\ ret' = ret /\ gen' = gen /\ Keeps(gen, gen')
          /\ stack' = Resume(f)
      BY <2>3, <3>1, KeepsSame DEF genVars
    <3> QED
      BY <2>1, <3>1, <3>4, <3>5, ResumeKeeps
  <2> QED
    BY <1>1, <2>2, <2>3 DEF Identifier
<1> QED
  BY <1>1, <1>2 DEF Identifier

LEMMA IdentifierValueKeeps == ASSUME IInv, IdentifierValue PROVE IInv'
<1>1. status = "running" /\ Top.fn = "f" /\ Top.at = "id" /\ Back(InfoOf(Top.symbol))
  BY DEF IdentifierValue, At
<1>2. Top.symbol \in InMemory /\ MemPart(gen) = Static
  BY <1>1, TopFacts DEF FrameOK, InMemory, Inner
<1>3. InPlace(gen, InfoOf(Top.symbol)) /\ GenOK(gen)
  BY <1>2, StaticInPlace DEF IInv
<1>4. /\ LexInv' /\ gen' = gen /\ stack' = Pop /\ status' = status
      /\ ret' = InfoOf(Top.symbol)
  BY <1>1 DEF Back, Return, lexVars, genVars, IInv, LexInv
<1> QED
  BY <1>1, <1>3, <1>4, KeepsSame, ReturnKeeps DEF Inner

LEMMA IndexStartKeeps == ASSUME IInv, IndexStart PROVE IInv'
<1>1. CASE Fail
  BY <1>1, FailKeeps
<1>2. CASE Match("[")
  <2>1. LexInv'
    BY <1>2, Lexes DEF IInv
  <2>2. CASE SemanticError
    BY <2>1, <2>2, ErrorKeeps
  <2> DEFINE f == [Top EXCEPT !.at = "]"]
  <2>3. CASE stack' = GoOn("]") \o CallExp /\ UNCHANGED <<ret, status, genVars>>
    <3>1. status = "running" /\ Top.fn = "f" /\ Top.at = "id"
      BY DEF IndexStart, At
    <3>2. FrameOK(Top)
      BY <3>1, TopFacts
    <3>3. Changed(Top, f, "]") /\ f.left = Top.left /\ f.symbol = Top.symbol
      BY <3>2, AtChanges DEF FrameOK
    <3>4. stack' = Resume(f) \o CallExp
      BY <2>3 DEF GoOn
    <3> HIDE DEF f
    <3>5. FrameOK(f) /\ f.fn = Top.fn /\ f.fn # "readln" /\ ~HoldsLeft(f)
      BY <3>1, <3>2, <3>3 DEF FrameOK, Changed, HoldsLeft, Loops
    <3>6. status' = status /\ ret' = ret /\ gen' = gen /\ CallExp \in Calls
      BY <2>3 DEF genVars, Calls
    <3> QED
      BY <2>1, <3>1, <3>4, <3>5, <3>6, CallKeeps
  <2> QED
    BY <1>1, <2>2, <2>3 DEF IndexStart
<1> QED
  BY <1>1, <1>2 DEF IndexStart

LEMMA IndexEndKeeps == ASSUME IInv, IndexEnd PROVE IInv'
<1>1. status = "running" /\ Top.fn \in Inner /\ GenOK(gen)
  BY DEF IndexEnd, At, Inner, IInv
<1>2. CASE Fail
  BY <1>2, FailKeeps
<1>3. CASE SemanticError /\ UNCHANGED lexVars
  BY <1>3, ErrorKeeps DEF IInv, LexInv, lexVars
<1> DEFINE p == MoveIdxToTmp(gen, Top.symbol, ret)
<1>4. CASE Match("]") /\ gen' = p.gen /\ Return(p.info)
  <2>1. LexInv'
    BY <1>4, Lexes DEF IInv
  <2>2. Generates(gen, p)
    BY <1>1, MoveGenerates
  <2> HIDE DEF p
  <2>3. Keeps(gen, gen') /\ InPlace(gen', ret') /\ stack' = Pop /\ status' = status
    BY <1>4, <2>2 DEF Generates, Return
  <2> QED
    BY <1>1, <2>1, <2>3, ReturnKeeps
<1> QED
  BY <1>2, <1>3, <1>4 DEF IndexEnd

LEMMA NotKeeps == ASSUME IInv, Not PROVE IInv'
<1> DEFINE f == [Top EXCEPT !.at = "not"]
<1>1. /\ status = "running" /\ Top.fn = "f" /\ Top.at = "start"
      /\ Take("not", Resume(f) \o CallF) /\ CallF \in Calls
  BY DEF Not, At, GoOn, Calls
<1>2. FrameOK(Top)
  BY <1>1, TopFacts
<1>3. Changed(Top, f, "not") /\ f.left = Top.left /\ f.symbol = Top.symbol
  BY <1>2, AtChanges DEF FrameOK
<1> HIDE DEF f
<1>4. FrameOK(f) /\ f.fn = Top.fn /\ f.fn # "readln" /\ ~HoldsLeft(f)
  BY <1>1, <1>2, <1>3 DEF FrameOK, Changed, HoldsLeft, Loops
<1> QED
  BY <1>1, <1>4, TakeCalls

LEMMA NotEndKeeps == ASSUME IInv, NotEnd PROVE IInv'
<1>1. /\ status = "running" /\ Top.fn = "f" /\ Top.at = "not" /\ GenOK(gen)
      /\ LexInv'
  BY DEF NotEnd, At, IInv, LexInv, lexVars
<1>2. CASE SemanticError
  BY <1>1, <1>2, ErrorKeeps
<1> DEFINE p == LogicNegate(gen, ret)
<1>3. CASE ret.type = "logic" /\ gen' = p.gen /\ Return(p.info)
  <2>1. Awaits(Top)
    BY <1>1 DEF Awaits
  <2>2. Generates(gen, p)
    BY <1>1, <1>3, <2>1, TopFacts, LogicNegateGenerates
  <2> HIDE DEF p
  <2>3. Keeps(gen, gen') /\ InPlace(gen', ret') /\ stack' = Pop /\ status' = status
    BY <1>3, <2>2 DEF Generates, Return
  <2> QED
    BY <1>1, <2>3, ReturnKeeps DEF Inner
<1> QED
  BY <1>2, <1>3 DEF NotEnd

LEMMA ParenthesisKeeps == ASSUME IInv, Parenthesis PROVE IInv'
<1> DEFINE f == [Top EXCEPT !.at = ")"]
<1>1. /\ status = "running" /\ Top.fn = "f" /\ Top.at = "start"
      /\ Take("(", Resume(f) \o CallExp) /\ CallExp \in Calls
  BY DEF Parenthesis, At, GoOn, Calls
<1>2. FrameOK(Top)
  BY <1>1, TopFacts
<1>3. Changed(Top, f, ")") /\ f.left = Top.left /\ f.symbol = Top.symbol
  BY <1>2, AtChanges DEF FrameOK
<1> HIDE DEF f
<1>4. FrameOK(f) /\ f.fn = Top.fn /\ f.fn # "readln" /\ ~HoldsLeft(f)
  BY <1>1, <1>2, <1>3 DEF FrameOK, Changed, HoldsLeft, Loops
<1> QED
  BY <1>1, <1>4, TakeCalls

LEMMA ParenthesisEndKeeps == ASSUME IInv, ParenthesisEnd PROVE IInv'
<1>1. status = "running" /\ Top.fn = "f" /\ Top.at = ")" /\ GenOK(gen)
  BY DEF ParenthesisEnd, At, IInv
<1>2. CASE Fail
  BY <1>2, FailKeeps
<1>3. CASE Match(")") /\ Return(ret) /\ UNCHANGED genVars
  <2>1. LexInv'
    BY <1>3, Lexes DEF IInv
  <2>2. Awaits(Top)
    BY <1>1 DEF Awaits
  <2>3. gen' = gen /\ ret' = ret /\ stack' = Pop /\ status' = status
    BY <1>3 DEF Return, genVars
  <2>4. Keeps(gen, gen') /\ InPlace(gen', ret')
    BY <1>1, <2>2, <2>3, TopFacts, KeepsSame
  <2> QED
    BY <1>1, <2>1, <2>3, <2>4, ReturnKeeps DEF Inner
<1> QED
  BY <1>2, <1>3 DEF ParenthesisEnd

LEMMA ConversionKeeps == ASSUME IInv, Conversion PROVE IInv'
<1> DEFINE f == [Top EXCEPT !.at = "convert(", !.op = entry.tok]
<1>1. /\ status = "running" /\ Top.fn = "f" /\ entry.tok \in {"int", "float"}
      /\ Take(entry.tok, Resume(f))
  BY DEF Conversion, At
<1>2. FrameOK(Top)
  BY <1>1, TopFacts
<1>3. /\ Changed(Top, f, "convert(") /\ f.op = entry.tok
      /\ f.left = Top.left /\ f.symbol = Top.symbol
  <2>1. DOMAIN Top = FrameFields
    BY <1>2 DEF FrameOK
  <2> QED
    BY <2>1 DEF Changed, FrameFields
<1> HIDE DEF f
<1>4. FrameOK(f) /\ f.fn = Top.fn /\ ~HoldsLeft(f) /\ ~Awaits(f)
  BY <1>1, <1>2, <1>3 DEF FrameOK, Changed, HoldsLeft, Loops, Awaits
<1> QED
  BY <1>1, <1>4, TakeResumes

LEMMA ConversionStartKeeps == ASSUME IInv, ConversionStart PROVE IInv'
<1> DEFINE f == [Top EXCEPT !.at = "convert)"]
<1>1. /\ status = "running" /\ Top.fn = "f" /\ Top.at = "convert("
      /\ Take("(", Resume(f) \o CallExp) /\ CallExp \in Calls
  BY DEF ConversionStart, At, GoOn, Calls
<1>2. FrameOK(Top)
  BY <1>1, TopFacts
<1>3. /\ Changed(Top, f, "convert)") /\ f.op = Top.op
      /\ f.left = Top.left /\ f.symbol = Top.symbol
  BY <1>2, AtChanges DEF FrameOK
<1> HIDE DEF f
<1>4. FrameOK(f) /\ f.fn = Top.fn /\ f.fn # "readln" /\ ~HoldsLeft(f)
  BY <1>1, <1>2, <1>3 DEF FrameOK, Changed, HoldsLeft, Loops
<1> QED
  BY <1>1, <1>4, TakeCalls

LEMMA ConversionEndKeeps == ASSUME IInv, ConversionEnd PROVE IInv'
<1>1. status = "running" /\ Top.fn = "f" /\ Top.at = "convert)" /\ GenOK(gen)
  BY DEF ConversionEnd, At, IInv
<1>2. CASE Fail
  BY <1>2, FailKeeps
<1>3. CASE SemanticError /\ UNCHANGED lexVars
  BY <1>3, ErrorKeeps DEF IInv, LexInv, lexVars
<1> DEFINE p == Convert(gen, ret, Top.op)
<1>4. CASE /\ ret.type = (IF Top.op = "int" THEN "float" ELSE "int")
           /\ Match(")") /\ gen' = p.gen /\ Return(p.info)
  <2>1. LexInv'
    BY <1>4, Lexes DEF IInv
  <2>2. Awaits(Top) /\ ret.type \in Numeric
    BY <1>1, <1>4 DEF Awaits, Numeric
  <2>3. Top.op \in Numeric
    BY <1>1, TopFacts DEF FrameOK, Numeric
  <2>4. Generates(gen, p)
    BY <1>1, <2>2, <2>3, TopFacts, ConvertGenerates
  <2> HIDE DEF p
  <2>5. Keeps(gen, gen') /\ InPlace(gen', ret') /\ stack' = Pop /\ status' = status
    BY <1>4, <2>4 DEF Generates, Return
  <2> QED
    BY <1>1, <2>1, <2>5, ReturnKeeps DEF Inner
<1> QED
  BY <1>2, <1>3, <1>4 DEF ConversionEnd

LEMMA FactorKeeps == ASSUME IInv, Factor PROVE IInv'
BY ConstantKeeps, IdentifierKeeps, IdentifierValueKeeps, IndexStartKeeps,
   IndexEndKeeps, NotKeeps, NotEndKeeps, ParenthesisKeeps, ParenthesisEndKeeps,
   ConversionKeeps, ConversionStartKeeps, ConversionEndKeeps, FailKeeps
DEF Factor, NoFactor

-----------------------------------------------------------------------------
(* syntatic_exps and syntatic_t                                            *)

LEMMA SignKeeps == ASSUME IInv, Sign PROVE IInv'
<1> DEFINE f == [Top EXCEPT !.at = "first", !.op = entry.tok]
<1>1. /\ status = "running" /\ Top.fn = "exps"
      /\ Take(entry.tok, Resume(f) \o CallT) /\ CallT \in Calls
  BY DEF Sign, At, Calls
<1>2. FrameOK(Top)
  BY <1>1, TopFacts
<1>3. /\ Changed(Top, f, "first") /\ f.left = Top.left /\ f.symbol = Top.symbol
  <2>1. DOMAIN Top = FrameFields
    BY <1>2 DEF FrameOK
  <2> QED
    BY <2>1 DEF Changed, FrameFields
<1> HIDE DEF f
<1>4. FrameOK(f) /\ f.fn = Top.fn /\ f.fn # "readln" /\ ~HoldsLeft(f)
  BY <1>1, <1>2, <1>3 DEF FrameOK, Changed, HoldsLeft
<1> QED
  BY <1>1, <1>4, TakeCalls

LEMMA NoSignKeeps == ASSUME IInv, NoSign PROVE IInv'
<1> DEFINE f == [Top EXCEPT !.at = "first"]
<1>1. /\ status = "running" /\ Top.fn = "exps" /\ stack' = Resume(f) \o CallT
      /\ CallT \in Calls /\ status' = status /\ ret' = ret /\ gen' = gen /\ LexInv'
  BY DEF NoSign, At, Step, GoOn, Calls, lexVars, genVars, IInv, LexInv
<1>2. FrameOK(Top)
  BY <1>1, TopFacts
<1>3. Changed(Top, f, "first") /\ f.left = Top.left /\ f.symbol = Top.symbol
  BY <1>2, AtChanges DEF FrameOK
<1> HIDE DEF f
<1>4. FrameOK(f) /\ f.fn = Top.fn /\ f.fn # "readln" /\ ~HoldsLeft(f)
  BY <1>1, <1>2, <1>3 DEF FrameOK, Changed, HoldsLeft
<1> QED
  BY <1>1, <1>4, CallKeeps

(* A loop goes on with a value that is in place as its left operand.       *)
LEMMA LoopKeeps ==
  ASSUME IInv, status = "running", status' = status, ret' = ret, LexInv',
         Top.fn \in Loops, NEW info, Keeps(gen, gen'), InPlace(gen', info),
         stack' = Resume([Top EXCEPT !.at = "loop", !.left = info])
  PROVE  IInv'
<1> DEFINE f == [Top EXCEPT !.at = "loop", !.left = info]
<1>1. FrameOK(Top) /\ InfoOK(ret) /\ InfoOK(info)
  BY TopFacts DEF IInv, InPlace
<1>2. /\ Changed(Top, f, "loop") /\ f.left = info /\ f.symbol = Top.symbol
  <2>1. DOMAIN Top = FrameFields
    BY <1>1 DEF FrameOK
  <2> QED
    BY <2>1 DEF Changed, FrameFields
<1>3. stack' = Resume(f)
  OBVIOUS
<1> HIDE DEF f
<1>4. FrameOK(f) /\ f.fn = Top.fn /\ ~Awaits(f)
  BY <1>1, <1>2 DEF FrameOK, Changed, Awaits, Loops
<1> QED
  BY <1>1, <1>2, <1>3, <1>4, ResumeKeeps

LEMMA FirstKeeps == ASSUME IInv, NEW fn \in Loops, First(fn) PROVE IInv'
<1>1. status = "running" /\ Top.fn \in Loops /\ Top.at = "first" /\ GenOK(gen)
  BY DEF First, At, IInv
<1>2. InPlace(gen, ret)
  <2>1. Awaits(Top)
    BY <1>1 DEF Awaits, Loops
  <2> QED
    BY <1>1, <2>1, TopFacts
<1>3. CASE Step(Resume([Top EXCEPT !.at = "loop", !.left = ret]))
  <2>1. /\ gen' = gen /\ status' = status /\ ret' = ret /\ LexInv'
        /\ stack' = Resume([Top EXCEPT !.at = "loop", !.left = ret])
    BY <1>3 DEF Step, lexVars, genVars, IInv, LexInv
  <2>2. Keeps(gen, gen') /\ InPlace(gen', ret)
    BY <1>1, <1>2, <2>1, KeepsSame
  <2> QED
    BY <1>1, <2>1, <2>2, LoopKeeps
<1>4. CASE UNCHANGED lexVars /\ SemanticError
  BY <1>4, ErrorKeeps DEF IInv, LexInv, lexVars
<1> DEFINE p == Negate(gen, ret)
<1>5. CASE /\ UNCHANGED lexVars /\ Arithmetic(ret.type) /\ gen' = p.gen
           /\ stack' = Resume([Top EXCEPT !.at = "loop", !.left = p.info])
           /\ UNCHANGED <<ret, status, effects>>
  <2>1. Generates(gen, p)
    BY <1>1, <1>2, <1>5, NegateGenerates DEF Arithmetic, Numeric
  <2>2. status' = status /\ ret' = ret /\ LexInv'
    BY <1>5 DEF lexVars, IInv, LexInv
  <2> HIDE DEF p
  <2>3. Keeps(gen, gen') /\ InPlace(gen', p.info)
    BY <1>5, <2>1 DEF Generates
  <2> QED
    BY <1>1, <1>5, <2>2, <2>3, LoopKeeps
<1> QED
  BY <1>3, <1>4, <1>5 DEF First

LEMMA OperatorKeeps == ASSUME IInv, NEW fn \in Loops, Operator(fn) PROVE IInv'
<1> DEFINE f == [Top EXCEPT !.at = "operand", !.op = entry.tok]
<1>1. /\ status = "running" /\ Top.fn = fn /\ Top.at = "loop"
      /\ entry.tok \in OperatorsOf(fn)
      /\ Take(entry.tok, Resume(f) \o CalleeOf(fn)) /\ CalleeOf(fn) \in Calls
  BY DEF Operator, At, CalleeOf, Calls
<1>2. FrameOK(Top) /\ InPlace(gen, Top.left)
  BY <1>1, TopFacts DEF HoldsLeft
<1>3. /\ Changed(Top, f, "operand") /\ f.op = entry.tok
      /\ f.left = Top.left /\ f.symbol = Top.symbol
  <2>1. DOMAIN Top = FrameFields
    BY <1>2 DEF FrameOK
  <2> QED
    BY <2>1 DEF Changed, FrameFields
<1> HIDE DEF f
<1>4. FrameOK(f) /\ f.fn = Top.fn /\ f.fn # "readln" /\ InPlace(gen, f.left)
  BY <1>1, <1>2, <1>3 DEF FrameOK, Changed, Loops
<1> QED
  BY <1>1, <1>4, TakeCalls

LEMMA OperandKeeps == ASSUME IInv, NEW fn \in Loops, Operand(fn) PROVE IInv'
<1>1. status = "running" /\ Top.fn = fn /\ Top.at = "operand" /\ GenOK(gen)
  BY DEF Operand, At, IInv
<1>2. InPlace(gen, ret) /\ InPlace(gen, Top.left)
  <2>1. Awaits(Top) /\ HoldsLeft(Top)
    BY <1>1 DEF Awaits, HoldsLeft, Loops
  <2> QED
    BY <1>1, <2>1, TopFacts
<1>3. Top.op \in BinaryOperators
  BY <1>1, TopFacts DEF FrameOK, BinaryOperators, OperatorsOf
<1>4. CASE SemanticError /\ UNCHANGED lexVars
  BY <1>4, ErrorKeeps DEF IInv, LexInv, lexVars
<1> DEFINE p == Combine(Top.op, Top.left, ret)
<1>5. CASE Accepts(Top.op, Top.left.type, ret.type)
  <2>1. BinaryOK(Top.op, Top.left, ret) /\ Generates(gen, p)
    BY <1>1, <1>2, <1>3, <1>5, CombineGenerates
  <2>2. /\ gen' = p.gen
        /\ stack' = Resume([Top EXCEPT !.at = "loop", !.left = p.info])
        /\ UNCHANGED <<lexVars, ret, status, effects>>
    BY <1>5, <2>1 DEF Operand
  <2>3. status' = status /\ ret' = ret /\ LexInv'
    BY <2>2 DEF lexVars, IInv, LexInv
  <2> HIDE DEF p
  <2>4. Keeps(gen, gen') /\ InPlace(gen', p.info)
    BY <2>1, <2>2 DEF Generates
  <2> QED
    BY <1>1, <2>2, <2>3, <2>4, LoopKeeps
<1> QED
  BY <1>4, <1>5 DEF Operand

LEMMA LastOperandKeeps == ASSUME IInv, NEW fn \in Loops, LastOperand(fn) PROVE IInv'
<1>1. status = "running" /\ Top.fn = fn /\ Top.at = "loop" /\ GenOK(gen)
  BY DEF LastOperand, At, IInv
<1>2. InPlace(gen, Top.left)
  BY <1>1, TopFacts DEF HoldsLeft
<1>3. /\ LexInv' /\ gen' = gen /\ stack' = Pop /\ status' = status
      /\ ret' = Top.left
  BY DEF LastOperand, Back, Return, lexVars, genVars, IInv, LexInv
<1> QED
  BY <1>1, <1>2, <1>3, KeepsSame, ReturnKeeps DEF Inner, Loops

LEMMA OperandsKeeps == ASSUME IInv, Operands PROVE IInv'
BY SignKeeps, NoSignKeeps, FirstKeeps, OperatorKeeps, OperandKeeps, LastOperandKeeps
DEF Operands

-----------------------------------------------------------------------------
(* syntatic_exp                                                            *)

LEMMA ComparisonKeeps == ASSUME IInv, Comparison PROVE IInv'
<1> DEFINE f == [Top EXCEPT !.at = "right", !.op = entry.tok, !.left = ret]
<1>1. /\ status = "running" /\ Top.fn = "exp" /\ Top.at = "left"
      /\ entry.tok \in Comparisons /\ InfoOK(ret)
      /\ Take(entry.tok, Resume(f) \o CallExps) /\ CallExps \in Calls
  BY DEF Comparison, At, Calls, IInv
<1>2. FrameOK(Top) /\ InPlace(gen, ret)
  <2>1. Awaits(Top)
    BY <1>1 DEF Awaits
  <2> QED
    BY <1>1, <2>1, TopFacts
<1>3. /\ Changed(Top, f, "right") /\ f.op = entry.tok
      /\ f.left = ret /\ f.symbol = Top.symbol
  <2>1. DOMAIN Top = FrameFields
    BY <1>2 DEF FrameOK
  <2> QED
    BY <2>1 DEF Changed, FrameFields
<1> HIDE DEF f
<1>4. FrameOK(f) /\ f.fn = Top.fn /\ f.fn # "readln" /\ InPlace(gen, f.left)
  BY <1>1, <1>2, <1>3 DEF FrameOK, Changed, Loops
<1> QED
  BY <1>1, <1>4, TakeCalls

LEMMA NoComparisonKeeps == ASSUME IInv, NoComparison PROVE IInv'
<1>1. status = "running" /\ Top.fn = "exp" /\ Top.at = "left" /\ GenOK(gen)
  BY DEF NoComparison, At, IInv
<1>2. InPlace(gen, ret)
  <2>1. Awaits(Top)
    BY <1>1 DEF Awaits
  <2> QED
    BY <1>1, <2>1, TopFacts
<1>3. /\ LexInv' /\ gen' = gen /\ stack' = Pop /\ status' = status /\ ret' = ret
  BY DEF NoComparison, Back, Return, lexVars, genVars, IInv, LexInv
<1> QED
  BY <1>1, <1>2, <1>3, KeepsSame, ReturnKeeps DEF Inner

LEMMA CompareKeeps == ASSUME IInv, Compare PROVE IInv'
<1>1. status = "running" /\ Top.fn = "exp" /\ Top.at = "right" /\ GenOK(gen)
  BY DEF Compare, At, IInv
<1>2. InPlace(gen, ret) /\ InPlace(gen, Top.left)
  <2>1. Awaits(Top) /\ HoldsLeft(Top)
    BY <1>1 DEF Awaits, HoldsLeft
  <2> QED
    BY <1>1, <2>1, TopFacts
<1>3. Top.op \in BinaryOperators
  BY <1>1, TopFacts DEF FrameOK, BinaryOperators
<1>4. CASE SemanticError /\ UNCHANGED lexVars
  BY <1>4, ErrorKeeps DEF IInv, LexInv, lexVars
<1> DEFINE p == Combine(Top.op, Top.left, ret)
<1>5. CASE Accepts(Top.op, Top.left.type, ret.type)
  <2>1. BinaryOK(Top.op, Top.left, ret) /\ Generates(gen, p)
    BY <1>1, <1>2, <1>3, <1>5, CombineGenerates
  <2>2. gen' = p.gen /\ Return(p.info) /\ UNCHANGED <<lexVars, effects>>
    BY <1>5, <2>1 DEF Compare
  <2>3. LexInv'
    BY <2>2 DEF lexVars, IInv, LexInv
  <2> HIDE DEF p
  <2>4. Keeps(gen, gen') /\ InPlace(gen', ret') /\ stack' = Pop /\ status' = status
    BY <2>1, <2>2 DEF Generates, Return
  <2> QED
    BY <1>1, <2>3, <2>4, ReturnKeeps DEF Inner
<1> QED
  BY <1>4, <1>5 DEF Compare

LEMMA ExpressionKeeps == ASSUME IInv, Expression PROVE IInv'
BY ComparisonKeeps, NoComparisonKeeps, CompareKeeps DEF Expression

-----------------------------------------------------------------------------
(* Commands.                                                               *)

(* A command calls syntatic_exp, and waits for its value at `at'.          *)
LEMMA CommandCalls ==
  ASSUME IInv, status = "running", Top.fn \in {"paren", "write", "attr"},
         NEW tok, NEW at, Take(tok, GoOn(at) \o CallExp)
  PROVE  IInv'
<1> DEFINE f == [Top EXCEPT !.at = at]
<1>1. FrameOK(Top) /\ (HoldsLeft(Top) => InPlace(gen, Top.left))
  BY TopFacts
<1>2. /\ Changed(Top, f, at) /\ f.op = Top.op /\ f.left = Top.left
      /\ f.symbol = Top.symbol
  BY <1>1, AtChanges DEF FrameOK
<1>3. Take(tok, Resume(f) \o CallExp) /\ CallExp \in Calls
  BY DEF GoOn, Calls
<1> HIDE DEF f
<1>4. FrameOK(f) /\ f.fn = Top.fn /\ f.fn # "readln"
  BY <1>1, <1>2 DEF FrameOK, Changed, Loops
<1>5. HoldsLeft(f) => InPlace(gen, f.left)
  BY <1>1, <1>2 DEF Changed, HoldsLeft, Loops
<1> QED
  BY <1>3, <1>4, <1>5, TakeCalls

(* A command takes a token, and waits for no value next.                   *)
LEMMA CommandGoesOn ==
  ASSUME IInv, status = "running", Top.fn \in {"write", "readln"},
         NEW tok, NEW f, Take(tok, Resume(f)), Changed(Top, f, f.at),
         f.left = Top.left, f.symbol = Top.symbol, ~Awaits(f)
  PROVE  IInv'
<1>1. FrameOK(Top)
  BY TopFacts
<1>2. FrameOK(f) /\ f.fn = Top.fn /\ ~HoldsLeft(f)
  BY <1>1 DEF FrameOK, Changed, HoldsLeft, Loops
<1> QED
  BY <1>2, TakeResumes

LEMMA TakeLastKeeps == ASSUME IInv, NEW tok, TakeLast(tok) PROVE IInv'
<1>1. CASE Fail
  BY <1>1, FailKeeps
<1>2. CASE Match(tok) /\ Finish /\ UNCHANGED genVars
  <2>1. LexInv'
    BY <1>2, Lexes DEF IInv
  <2>2. GenOK(gen')
    BY <1>2 DEF genVars, IInv
  <2> QED
    BY <1>2, <2>1, <2>2, FinishKeeps DEF Finish
<1> QED
  BY <1>1, <1>2 DEF TakeLast

LEMMA ParenExpEndKeeps == ASSUME IInv, ParenExpEnd PROVE IInv'
<1>1. CASE Fail
  BY <1>1, FailKeeps
<1>2. CASE SemanticError /\ UNCHANGED lexVars
  BY <1>2, ErrorKeeps DEF IInv, LexInv, lexVars
<1>3. CASE Match(")") /\ Finish /\ UNCHANGED gen
  <2>1. LexInv'
    BY <1>3, Lexes DEF IInv
  <2> QED
    BY <1>3, <2>1, FinishKeeps DEF Finish, IInv
<1> QED
  BY <1>1, <1>2, <1>3 DEF ParenExpEnd

LEMMA WriteStartKeeps == ASSUME IInv, WriteStart PROVE IInv'
<1>1. CASE /\ At("write", "start")
           /\ Take(entry.tok, Resume([Top EXCEPT !.at = "(", !.op = entry.tok]))
  <2> DEFINE f == [Top EXCEPT !.at = "(", !.op = entry.tok]
  <2>1. status = "running" /\ Top.fn = "write" /\ Take(entry.tok, Resume(f))
    BY <1>1 DEF At
  <2>2. DOMAIN Top = FrameFields
    BY <2>1, TopFacts DEF FrameOK
  <2>3. /\ Changed(Top, f, "(") /\ f.left = Top.left /\ f.symbol = Top.symbol
    BY <2>2 DEF Changed, FrameFields
  <2> HIDE DEF f
  <2>4. f.at = "(" /\ ~Awaits(f)
    BY <2>3 DEF Changed, Awaits
  <2> QED
    BY <2>1, <2>3, <2>4, CommandGoesOn
<1>2. CASE At("write", "(") /\ Take("(", GoOn("first") \o CallExp)
  BY <1>2, CommandCalls DEF At
<1> QED
  BY <1>1, <1>2 DEF WriteStart

LEMMA Used ==
  ASSUME NEW g, GenOK(g), NEW size \in Nat \ {0}
  PROVE  GenOK(UseBuffer(g, size)) /\ MemPart(UseBuffer(g, size)) = MemPart(g)
<1>1. NextAddress(g.next, size) \in Nat
  BY Aligned DEF GenOK
<1> QED
  BY <1>1 DEF UseBuffer, GenOK, MemPart, Clear

LEMMA WriteKeeps ==
  ASSUME IInv, status = "running", Top.fn = "write", NEW g, GenOK(g),
         MemPart(g) = MemPart(gen), Write(g), ret.type \in Types
  PROVE  IInv'
<1> DEFINE f == [Top EXCEPT !.at = ","]
           size == BufferSize(ret.type)
<1>1. FrameOK(Top)
  BY TopFacts
<1>2. Changed(Top, f, ",") /\ f.left = Top.left /\ f.symbol = Top.symbol
  BY <1>1, AtChanges DEF FrameOK
<1>3. /\ gen' = UseBuffer(g, size) /\ stack' = Resume(f) /\ LexInv'
      /\ ret' = ret /\ status' = status
  BY DEF Write, GoOn, lexVars, IInv, LexInv
<1>4. size \in Nat \ {0}
  BY DEF BufferSize, Types
<1> HIDE DEF f, size
<1>5. FrameOK(f) /\ f.fn = Top.fn /\ ~Awaits(f)
  BY <1>1, <1>2 DEF FrameOK, Changed, Awaits, Loops
<1>6. GenOK(gen') /\ MemPart(gen') = MemPart(gen)
  BY <1>3, <1>4, Used
<1> QED
  BY <1>3, <1>5, <1>6, RootKeeps

LEMMA WriteValueKeeps == ASSUME IInv, WriteValue PROVE IInv'
<1>1. /\ status = "running" /\ Top.fn = "write" /\ Top.at \in {"first", "next"}
      /\ Write(gen) \/ Write(ResetTmp(gen))
  BY DEF WriteValue, At
<1>2. ret.type \in Types
  <2>1. Awaits(Top)
    BY <1>1 DEF Awaits
  <2> QED
    BY <1>1, <2>1, TopFacts DEF InPlace
<1>3. GenOK(gen)
  BY DEF IInv
<1>4. GenOK(ResetTmp(gen)) /\ MemPart(ResetTmp(gen)) = MemPart(gen)
  BY <1>3 DEF GenOK, ResetTmp, MemPart
<1> QED
  BY <1>1, <1>2, <1>3, <1>4, WriteKeeps

(* The end of a command, and the whole of syntatic_read but for the value. *)
LEMMA GoOnKeeps ==
  ASSUME IInv, status = "running", Top.fn \in {"write", "readln"},
         NEW tok, NEW at, Take(tok, GoOn(at)), Top.fn = "write" => at = ";"
  PROVE  IInv'
<1> DEFINE f == [Top EXCEPT !.at = at]
<1>1. DOMAIN Top = FrameFields
  BY TopFacts DEF FrameOK
<1>2. Changed(Top, f, at) /\ f.left = Top.left /\ f.symbol = Top.symbol
  BY <1>1, AtChanges
<1>3. Take(tok, Resume(f))
  BY DEF GoOn
<1> HIDE DEF f
<1>4. f.at = at /\ ~Awaits(f)
  BY <1>2 DEF Changed, Awaits
<1> QED
  BY <1>2, <1>3, <1>4, CommandGoesOn

LEMMA WriteEndKeeps == ASSUME IInv, WriteEnd PROVE IInv'
<1>1. CASE At("write", ",") /\ Take(")", GoOn(";"))
  BY <1>1, GoOnKeeps DEF At
<1>2. CASE TakeLast(";")
  BY <1>2, TakeLastKeeps
<1> QED
  BY <1>1, <1>2 DEF WriteEnd

LEMMA ReadStartKeeps == ASSUME IInv, ReadStart PROVE IInv'
BY GoOnKeeps DEF ReadStart, At

LEMMA ReadEndKeeps == ASSUME IInv, ReadEnd PROVE IInv'
<1>1. CASE At("readln", ")") /\ Take(")", GoOn(";"))
  BY <1>1, GoOnKeeps DEF At
<1>2. CASE TakeLast(";")
  BY <1>2, TakeLastKeeps
<1> QED
  BY <1>1, <1>2 DEF ReadEnd

LEMMA ReadValueOK ==
  ASSUME NEW g, GenOK(g), NEW type \in Types
  PROVE  GenOK(ReadValue(g, type).gen)
<1> DEFINE size == SizeFromType(type)
           read == UseBuffer(g, 257)
           value == Term("input", type, <<>>)
<1>1. GenOK(read) /\ size \in Nat \ {0}
  BY Used, Sizes
<1>2. CASE type \in {"char", "string"}
  <2> DEFINE m == Store(read.memory, "tmp", AlignedAddress(g.next, 257), size, value)
  <2>1. ReadValue(g, type).gen = [read EXCEPT !.memory = m]
    BY <1>2 DEF ReadValue
  <2> HIDE DEF read, m
  <2> QED
    BY <1>1, <2>1 DEF GenOK
<1>3. CASE type \notin {"char", "string"}
  <2>1. ReadValue(g, type) = Put(read, size, type, size, value)
    BY <1>3 DEF ReadValue
  <2> HIDE DEF read
  <2>2. GenOK(Put(read, size, type, size, value).gen)
    BY <1>1, PutKeeps DEF Keeps
  <2> QED
    BY <2>1, <2>2
<1> QED
  BY <1>2, <1>3

LEMMA ReadKeeps == ASSUME IInv, Read PROVE IInv'
<1>1. CASE Fail
  BY <1>1, FailKeeps
<1>2. CASE Match("identifier")
  <2>1. LexInv'
    BY <1>2, Lexes DEF IInv
  <2>2. CASE SemanticError
    BY <2>1, <2>2, ErrorKeeps
  <2> DEFINE f == [Top EXCEPT !.at = ")"]
             p == ReadValue(gen, entry.type)
             m == Store(p.gen.memory, "mem", entry.address,
                        SizeFromType(entry.type), Moved(p.gen, p.info))
  <2>3. CASE /\ entry.type # "none" /\ gen' = [p.gen EXCEPT !.memory = m]
             /\ stack' = GoOn(")") /\ UNCHANGED <<ret, status>>
    <3>1. /\ status = "running" /\ Top.fn = "readln" /\ GenOK(gen)
          /\ entry.type \in Types /\ stack' = Resume(f)
      BY <1>2, <2>3, TokenKinds, SymbolsAssumption DEF Read, At, IInv, LexInv, Match, GoOn
    <3>2. FrameOK(Top)
      BY <3>1, TopFacts
    <3>3. Changed(Top, f, ")") /\ f.left = Top.left /\ f.symbol = Top.symbol
      BY <3>2, AtChanges DEF FrameOK
    <3>4. GenOK(p.gen)
      BY <3>1, ReadValueOK
    <3> HIDE DEF f, p, m
    <3>5. GenOK(gen')
      BY <2>3, <3>4 DEF GenOK
    <3>6. FrameOK(f) /\ f.fn = Top.fn /\ ~Awaits(f)
      BY <3>1, <3>2, <3>3 DEF FrameOK, Changed, Awaits, Loops
    <3> QED
      BY <2>1, <2>3, <3>1, <3>5, <3>6, RootKeeps
  <2> QED
    BY <1>1, <1>2, <2>2, <2>3 DEF Read
<1> QED
  BY <1>1, <1>2 DEF Read

LEMMA AttrStartKeeps == ASSUME IInv, AttrStart PROVE IInv'
<1>1. CASE Fail
  BY <1>1, FailKeeps
<1>2. CASE Match("identifier")
  <2>1. LexInv'
    BY <1>2, Lexes DEF IInv
  <2>2. CASE SemanticError
    BY <2>1, <2>2, ErrorKeeps
  <2> DEFINE f == [Top EXCEPT !.at = "id", !.symbol = entry]
  <2>3. CASE stack' = Resume(f) /\ UNCHANGED <<ret, status, genVars>>
    <3>1. /\ status = "running" /\ Top.fn = "attr" /\ entry \in Tokens
          /\ GenOK(gen) /\ InfoOK(ret)
      BY DEF AttrStart, At, IInv, LexInv
    <3>2. FrameOK(Top) /\ (HoldsLeft(Top) => InPlace(gen, Top.left))
      BY <3>1, TopFacts
    <3>3. /\ Changed(Top, f, "id") /\ f.op = Top.op /\ f.left = Top.left
          /\ f.symbol = entry
      <4>1. DOMAIN Top = FrameFields
        BY <3>2 DEF FrameOK
      <4> QED
        BY <4>1 DEF Changed, FrameFields
    <3>4. stack' = Resume(f)
      BY <2>3
    <3> HIDE DEF f
    <3>5. FrameOK(f) /\ f.fn = Top.fn /\ ~Awaits(f)
      BY <3>1, <3>2, <3>3 DEF FrameOK, Changed, Awaits, Loops
    <3>6. status' = status /\ ret' = ret /\ gen' = gen /\ Keeps(gen, gen')
      BY <2>3, <3>1, KeepsSame DEF genVars
    <3>7. HoldsLeft(f) => InPlace(gen', f.left)
      BY <3>1, <3>2, <3>3, <3>6 DEF HoldsLeft, Changed, Loops
    <3> QED
      BY <2>1, <3>1, <3>4, <3>5, <3>6, <3>7, ResumeKeeps
  <2> QED
    BY <1>1, <2>2, <2>3 DEF AttrStart
<1> QED
  BY <1>1, <1>2 DEF AttrStart

LEMMA AttrIndexStartKeeps == ASSUME IInv, AttrIndexStart PROVE IInv'
<1>1. status = "running" /\ Top.fn = "attr"
  BY DEF AttrIndexStart, At
<1>2. CASE Fail
  BY <1>2, FailKeeps
<1>3. CASE Match("[") /\ SemanticError
  BY <1>3, Lexes, ErrorKeeps DEF IInv
<1>4. CASE /\ Match("[") /\ stack' = GoOn("]") \o CallExp
           /\ UNCHANGED <<ret, status, genVars>>
  <2>1. Take("[", GoOn("]") \o CallExp)
    BY <1>4 DEF Take
  <2> QED
    BY <1>1, <2>1, CommandCalls
<1> QED
  BY <1>2, <1>3, <1>4 DEF AttrIndexStart

LEMMA AttrIndexEndKeeps == ASSUME IInv, AttrIndexEnd PROVE IInv'
<1>1. CASE SemanticError /\ UNCHANGED lexVars
  BY <1>1, ErrorKeeps DEF IInv, LexInv, lexVars
<1> DEFINE f == [Top EXCEPT !.at = ":=", !.op = "index", !.left = ret]
<1>2. CASE Take("]", Resume(f))
  <2>1. status = "running" /\ Top.fn = "attr" /\ Top.at = "]" /\ InfoOK(ret)
    BY DEF AttrIndexEnd, At, IInv
  <2>2. FrameOK(Top) /\ InPlace(gen, ret)
    <3>1. Awaits(Top)
      BY <2>1 DEF Awaits
    <3> QED
      BY <2>1, <3>1, TopFacts
  <2>3. Changed(Top, f, ":=") /\ f.left = ret /\ f.symbol = Top.symbol
    <3>1. DOMAIN Top = FrameFields
      BY <2>2 DEF FrameOK
    <3> QED
      BY <3>1 DEF Changed, FrameFields
  <2> HIDE DEF f
  <2>4. FrameOK(f) /\ f.fn = Top.fn /\ ~Awaits(f) /\ InPlace(gen, f.left)
    BY <2>1, <2>2, <2>3 DEF FrameOK, Changed, Awaits, Loops
  <2> QED
    BY <1>2, <2>1, <2>4, TakeResumes
<1> QED
  BY <1>1, <1>2 DEF AttrIndexEnd

LEMMA AttrEndKeeps == ASSUME IInv, AttrEnd PROVE IInv'
<1>1. CASE Fail
  BY <1>1, FailKeeps
<1>2. CASE SemanticError /\ UNCHANGED lexVars
  BY <1>2, ErrorKeeps DEF IInv, LexInv, lexVars
<1>3. CASE /\ Match(";") /\ Finish
           /\ \E m : gen' = [gen EXCEPT !.memory = m]
  <2>1. LexInv'
    BY <1>3, Lexes DEF IInv
  <2>2. GenOK(gen')
    BY <1>3 DEF IInv, GenOK
  <2> QED
    BY <1>3, <2>1, <2>2, FinishKeeps DEF Finish
<1> QED
  BY <1>1, <1>2, <1>3 DEF AttrEnd

LEMMA CommandKeeps == ASSUME IInv, Command PROVE IInv'
<1>1. ASSUME ParenExpStart \/ WriteNext \/ AttrValue PROVE IInv'
  BY <1>1, CommandCalls DEF ParenExpStart, WriteNext, AttrValue, At
<1> QED
  BY <1>1, ParenExpEndKeeps, WriteStartKeeps, WriteValueKeeps, WriteEndKeeps,
     ReadStartKeeps, ReadKeeps, ReadEndKeeps, AttrStartKeeps, AttrIndexStartKeeps,
     AttrIndexEndKeeps, AttrEndKeeps
  DEF Command

-----------------------------------------------------------------------------
(* The theorems.                                                           *)

LEMMA Initially == ASSUME Init PROVE IInv
<1> DEFINE f == Frame(RootOf(entry.tok), "start")
<1>1. LexInv /\ GenOK(gen) /\ InfoOK(ret)
  <2>1. entry \in Tokens /\ found \in BOOLEAN /\ input = <<>>
    BY DEF Init
  <2>2. GenOK(gen)
    BY DEF Init, GenOK
  <2>3. ret = NoInfo /\ InfoOK(NoInfo)
    BY DEF Init, InfoOK, NoInfo, Info
  <2> QED
    BY <2>1, <2>2, <2>3, EmptySeq DEF LexInv
<1>2. FrameOK(f) /\ ~HoldsLeft(f) /\ ~Awaits(f) /\ f.fn = RootOf(entry.tok)
  BY Fresh, FrameFacts DEF Awaits
<1>3. RootOf(entry.tok) \in Roots
  BY DEF Init, RootOf, Roots
<1>4. stack = <<f>>
  BY DEF Init
<1> HIDE DEF f
<1>5. stack \in Seq({f}) /\ Len(stack) = 1 /\ stack[1] = f /\ stack # <<>>
  BY <1>4
<1>6. StackOK(stack) /\ LeftsInPlace(gen, stack) /\ ~Awaits(Top)
  BY <1>2, <1>3, <1>5 DEF StackOK, LeftsInPlace, IsSeq, Top
<1>7. status = "running" /\ MemPart(gen) = Static
  BY DEF Init, MemPart, Static, Stored
<1> QED
  BY <1>1, <1>5, <1>6, <1>7 DEF IInv

LEMMA NextKeeps == ASSUME IInv, [Next]_vars PROVE IInv'
<1>1. ASSUME UNCHANGED vars PROVE IInv'
  BY <1>1 DEF IInv, LexInv, Top, vars, lexVars, parseVars, genVars
<1> QED
  BY <1>1, FactorKeeps, OperandsKeeps, ExpressionKeeps, CommandKeeps DEF Next, Done

LEMMA Inductive == Spec => []IInv
BY Initially, NextKeeps, PTL DEF Spec

LEMMA LiveInPlace ==
  ASSUME IInv, NEW info \in Live
  PROVE  InPlace(gen, info)
<1>1. CASE info \in {stack[i].left : i \in {j \in DOMAIN stack : HoldsLeft(stack[j])}}
  <2>1. DOMAIN stack = 1..Len(stack)
    BY DEF IInv, StackOK, IsSeq
  <2> QED
    BY <1>1, <2>1 DEF IInv, LeftsInPlace
<1>2. CASE HasResult /\ info = ret
  BY <1>2 DEF HasResult, Awaits, IInv
<1> QED
  BY <1>1, <1>2 DEF Live

(* The variables have their types, and every value that is in use has one  *)
(* of L's types and the size that goes with it, which is what the          *)
(* operations that codegen.c generates go by.                              *)
THEOREM TypeCorrect == Spec => []TypeOK
<1>1. IInv => TypeOK
  <2> SUFFICES ASSUME IInv PROVE TypeOK
    OBVIOUS
  <2>1. DOMAIN stack = 1..Len(stack)
    BY DEF IInv, StackOK, IsSeq
  <2>2. \A i \in DOMAIN stack : InfoOK(stack[i].left) /\ stack[i].symbol \in Tokens
    BY <2>1 DEF IInv, StackOK, FrameOK
  <2>3. \A info \in Live : info.type \in Types /\ info.size = SizeFromType(info.type)
    BY LiveInPlace DEF InPlace
  <2> QED
    BY <2>2, <2>3 DEF TypeOK, IInv, LexInv, GenOK
<1> QED
  BY <1>1, Inductive, PTL

(* SR24 to SR26 and the conversions leave the codegen_perform_* functions  *)
(* no operands that their assertions refuse.                               *)
THEOREM NoAssertion == Spec => []NoAssertionFails
<1>1. IInv => NoAssertionFails
  BY DEF IInv, NoAssertionFails
<1> QED
  BY <1>1, Inductive, PTL

(* Whatever the expression, the generated program finds every operand      *)
(* where the compiler has recorded that it is.                             *)
THEOREM OperandsStay == Spec => []OperandsIntact
<1>1. ASSUME IInv, NEW info \in Live
      PROVE  Load(gen.memory, info, info.size) = info.value
  <2> DEFINE e == Stored(info.area, info.address, info.size, info.value)
  <2>1. Holds(gen.memory, info, info.size) = {e}
    BY <1>1, LiveInPlace DEF InPlace
  <2>2. e.value = info.value
    BY DEF Stored
  <2> HIDE DEF e
  <2> QED
    BY <2>1, <2>2 DEF Load
<1>2. IInv => OperandsIntact
  BY <1>1 DEF OperandsIntact
<1> QED
  BY <1>2, Inductive, PTL

-----------------------------------------------------------------------------
(* Numbers, for the recursion of the grammar.                              *)

LessThan == {ss \in Nat \X Nat : ss[1] < ss[2]}

(* Of some numbers one is the smallest.                                    *)
LEMMA Smallest ==
  ASSUME NEW T, T \subseteq Nat, T # {}
  PROVE  \E x \in T : \A y \in T : x <= y
<1>1. IsWellFoundedOn(LessThan, Nat)
  BY NatLessThanWellFounded DEF OpToRel, LessThan
<1>2. \E x \in T : \A y \in T : ~ (<<y, x>> \in LessThan)
  BY <1>1, WFMin
<1>3. PICK x \in T : \A y \in T : ~ (<<y, x>> \in LessThan)
  BY <1>2
<1>4. ASSUME NEW y \in T PROVE x <= y
  <2>1. x \in Nat /\ y \in Nat /\ <<y, x>> \notin LessThan
    BY <1>3
  <2>2. ~(y < x)
    BY <2>1 DEF LessThan
  <2> QED
    BY <2>1, <2>2
<1> QED
  BY <1>4

(* A set of numbers with 0 and, up to n, the next of each of its own.      *)
LEMMA Counting ==
  ASSUME NEW n \in Nat, NEW T, 0 \in T,
         \A i \in 1..n : i - 1 \in T => i \in T
  PROVE  0..n \subseteq T
<1> SUFFICES ASSUME ~(0..n \subseteq T) PROVE FALSE
  OBVIOUS
<1> DEFINE U == {i \in 0..n : i \notin T}
<1>1. U \subseteq Nat /\ U # {}
  OBVIOUS
<1>2. PICK x \in U : \A y \in U : x <= y
  BY <1>1, Smallest
<1>3. x \in 1..n /\ x \notin T
  OBVIOUS
<1>4. x - 1 \in 0..n /\ ~(x <= x - 1)
  BY <1>3
<1>5. x - 1 \in T
  BY <1>2, <1>4
<1> QED
  BY <1>3, <1>5

-----------------------------------------------------------------------------
(* The levels of the grammar.  Its definition is recursive: that there is  *)
(* such a function is shown by way of its beginnings.                      *)

(* A level more, and the levels of the grammar up to the mth.              *)
Grown(g, n) == Append(g, Level(g, n))
UpTo(f, m) ==
  f = [i \in 0..m |-> IF i = 0 THEN <<>>
                      ELSE Grown(f[i - 1], i)]

(* There are levels up to any number, ...                                  *)
LEMMA UpToExists ==
  ASSUME NEW n \in Nat
  PROVE  \E f : UpTo(f, n)
<1> DEFINE T == {m \in 0..n : \E f : UpTo(f, m)}
<1>1. 0 \in T
  <2> DEFINE f == [i \in 0..0 |-> <<>>]
  <2>1. UpTo(f, 0)
    BY DEF UpTo
  <2> QED
    BY <2>1
<1>2. ASSUME NEW m \in 1..n, m - 1 \in T PROVE m \in T
  <2>1. PICK f : UpTo(f, m - 1)
    BY <1>2
  <2> DEFINE new == Grown(f[m - 1], m)
  <2> HIDE DEF new
  <2> DEFINE g == [i \in 0..m |-> IF i = m THEN new ELSE f[i]]
  <2>2. DOMAIN g = 0..m /\ g[m] = new /\ \A i \in 0..m - 1 : g[i] = f[i]
    OBVIOUS
  <2>3. /\ f[0] = <<>>
        /\ \A i \in 1..m - 1 : f[i] = Grown(f[i - 1], i)
    BY <2>1 DEF UpTo
  <2>4. g = [i \in 0..m |-> g[i]]
    OBVIOUS
  <2> HIDE DEF g
  <2>5. ASSUME NEW i \in 0..m
        PROVE  g[i] = IF i = 0 THEN <<>>
                      ELSE Grown(g[i - 1], i)
    <3>1. CASE i = 0
      BY <2>2, <2>3, <3>1
    <3>2. CASE i # 0 /\ i # m
      <4>1. i \in 1..m - 1 /\ i - 1 \in 0..m - 1 /\ i \in 0..m - 1
        BY <3>2
      <4> QED
        BY <2>2, <2>3, <3>2, <4>1
    <3>3. CASE i = m
      <4>1. m - 1 \in 0..m - 1 /\ m # 0
        OBVIOUS
      <4> QED
        BY <2>2, <3>3, <4>1 DEF new
    <3> QED
      BY <3>1, <3>2, <3>3
  <2>6. UpTo(g, m)
    BY <2>4, <2>5 DEF UpTo
  <2> QED
    BY <2>6
<1> HIDE DEF T
<1>3. 0..n \subseteq T
  BY <1>1, <1>2, Counting
<1>4. n \in T
  BY <1>3
<1> QED
  BY <1>4 DEF T

(* ...all longer tables agree with them, ...                               *)
LEMMA UpToUnique ==
  ASSUME NEW n \in Nat, NEW m \in Nat, n <= m, NEW f, NEW g, UpTo(f, n), UpTo(g, m)
  PROVE  f[n] = g[n]
<1> DEFINE T == {i \in 0..n : f[i] = g[i]}
<1>1. /\ f[0] = <<>> /\ g[0] = <<>>
      /\ \A i \in 1..n : f[i] = Grown(f[i - 1], i)
      /\ \A i \in 1..n : g[i] = Grown(g[i - 1], i)
  BY DEF UpTo
<1>2. 0 \in T
  BY <1>1
<1>3. ASSUME NEW i \in 1..n, i - 1 \in T PROVE i \in T
  <2>1. f[i - 1] = g[i - 1]
    BY <1>3
  <2> QED
    BY <1>1, <2>1
<1> HIDE DEF T
<1>4. 0..n \subseteq T
  BY <1>2, <1>3, Counting
<1>5. n \in T
  BY <1>4
<1> QED
  BY <1>5 DEF T

(* ...and so Levels is what its definition says.                           *)
LEMMA LevelsAre ==
  /\ Levels[0] = <<>>
  /\ \A n \in Nat \ {0} :
       Levels[n] = Append(Levels[n - 1], Level(Levels[n - 1], n))
<1> DEFINE Upto(n) == CHOOSE f : UpTo(f, n)
           f == [n \in Nat |-> Upto(n)[n]]
           NextOf(g, n) == Grown(g[n - 1], n)
           Solution(g) == g = [n \in Nat |-> IF n = 0 THEN <<>> ELSE NextOf(g, n)]
<1>1. \A n \in Nat : UpTo(Upto(n), n)
  BY UpToExists
<1> HIDE DEF Upto
<1>2. f[0] = <<>>
  BY <1>1 DEF UpTo
<1>3. ASSUME NEW n \in Nat \ {0}
      PROVE  f[n] = NextOf(f, n)
  <2>1. n - 1 \in Nat /\ n - 1 <= n /\ n \in Nat
    OBVIOUS
  <2>2. UpTo(Upto(n), n) /\ UpTo(Upto(n - 1), n - 1)
    BY <1>1, <2>1
  <2>3. Upto(n - 1)[n - 1] = Upto(n)[n - 1]
    BY <2>1, <2>2, UpToUnique
  <2>4. Upto(n)[n] = Grown(Upto(n)[n - 1], n)
    BY <2>1, <2>2 DEF UpTo
  <2>5. f[n] = Upto(n)[n] /\ f[n - 1] = Upto(n - 1)[n - 1]
    BY <2>1
  <2> HIDE DEF f
  <2> QED
    BY <2>3, <2>4, <2>5
<1>4. \A n \in Nat : f[n] = IF n = 0 THEN <<>> ELSE NextOf(f, n)
  BY <1>2, <1>3
<1>5. f = [n \in Nat |-> f[n]]
  OBVIOUS
<1> HIDE DEF f, NextOf
<1>6. Solution(f)
  BY <1>4, <1>5
<1>7. Solution(CHOOSE g : Solution(g))
  BY <1>6, Zenon
<1>8. Levels = CHOOSE g : Solution(g)
  BY Zenon DEF Levels, NextOf, Grown
<1>9. Solution(Levels)
  BY <1>7, <1>8
<1>10. \A n \in Nat : Levels[n] = IF n = 0 THEN <<>> ELSE NextOf(Levels, n)
  BY <1>9
<1>11. Levels[0] = <<>>
  BY <1>10
<1>12. \A n \in Nat \ {0} : Levels[n] = NextOf(Levels, n)
  BY <1>10
<1> QED
  BY <1>11, <1>12 DEF NextOf, Grown

(* A level, once there, stays in the tables of the later ones, ...         *)
LEMMA LevelsStay ==
  ASSUME NEW n \in Nat
  PROVE  /\ \E S : Levels[n] \in Seq(S)
         /\ Len(Levels[n]) = n
         /\ \A k \in 1..n : Levels[n][k] = Levels[k][k]
<1> DEFINE P(m) == /\ \E S : Levels[m] \in Seq(S)
                   /\ Len(Levels[m]) = m
                   /\ \A k \in 1..m : Levels[m][k] = Levels[k][k]
           T == {m \in 0..n : P(m)}
<1>1. 0 \in T
  <2>1. Levels[0] = <<>>
    BY LevelsAre
  <2>2. Levels[0] \in Seq({}) /\ Len(Levels[0]) = 0
    BY <2>1, EmptySeq
  <2> QED
    BY <2>2
<1>2. ASSUME NEW m \in 1..n, m - 1 \in T PROVE m \in T
  <2> DEFINE g == Levels[m - 1]
             x == Level(g, m)
  <2>1. P(m - 1)
    BY <1>2
  <2>2. PICK S : g \in Seq(S)
    BY <2>1
  <2>3. Levels[m] = Append(g, x)
    <3>1. m \in Nat \ {0}
      OBVIOUS
    <3> QED
      BY <3>1, LevelsAre, Zenon
  <2>4. Len(g) = m - 1 /\ \A k \in 1..m - 1 : g[k] = Levels[k][k]
    BY <2>1
  <2> HIDE DEF g, x, P
  <2>5. g \in Seq(S \union {x}) /\ x \in S \union {x}
    BY <2>2
  <2>6. /\ Append(g, x) \in Seq(S \union {x}) /\ Len(Append(g, x)) = m
        /\ \A i \in 1..m - 1 : Append(g, x)[i] = g[i]
    BY <2>4, <2>5
  <2>7. ASSUME NEW k \in 1..m PROVE Levels[m][k] = Levels[k][k]
    <3>1. CASE k = m
      BY <3>1
    <3>2. CASE k \in 1..m - 1
      BY <2>3, <2>4, <2>6, <3>2
    <3> QED
      BY <3>1, <3>2
  <2>8. P(m)
    BY <2>3, <2>6, <2>7 DEF P
  <2> QED
    BY <2>8
<1> HIDE DEF T
<1>3. 0..n \subseteq T
  BY <1>1, <1>2, Counting
<1>4. n \in T
  BY <1>3
<1> QED
  BY <1>4 DEF T

(* What of a kind has n tokens, and what a production may use for it.      *)
What(kind, n) == IF n \in Nat \ {0} THEN Levels[n][n][kind] ELSE {}
Fewer(kind, k, n) == IF k \in 1..n - 1 THEN What(kind, k) ELSE {}

(* ...and is made of the levels below it.                                  *)
LEMMA LevelIs ==
  ASSUME NEW n \in Nat \ {0}
  PROVE  LET g == Levels[n - 1]
         IN /\ Levels[n][n] = Level(g, n)
            /\ \A kind, k : Of(g, kind, k) = Fewer(kind, k, n)
<1> DEFINE g == Levels[n - 1]
           x == Level(g, n)
<1>1. n - 1 \in Nat
  OBVIOUS
<1>2. Len(g) = n - 1 /\ \A k \in 1..n - 1 : g[k] = Levels[k][k]
  BY <1>1, LevelsStay
<1>3. \A kind, k : Of(g, kind, k) = Fewer(kind, k, n)
  <2> HIDE DEF g
  <2>1. \A k \in 1..n - 1 : k \in Nat \ {0}
    OBVIOUS
  <2> QED
    BY <1>2, <2>1 DEF Fewer, Of, What
<1>4. Levels[n] = Append(g, x)
  BY LevelsAre, Zenon
<1> HIDE DEF x
<1>5. (\E S : g \in Seq(S)) /\ Len(g) = n - 1
  BY <1>1, LevelsStay, Zenon
<1>6. PICK S : g \in Seq(S)
  BY <1>5
<1> HIDE DEF g, x
<1>7. g \in Seq(S \union {x}) /\ x \in S \union {x}
  BY <1>6
<1>8. Append(g, x)[n] = x
  BY <1>7, <1>5
<1> QED
  BY <1>3, <1>4, <1>8, Zenon DEF g, x

(* The kinds of a level, in terms of the kinds of those below it.          *)
LEMMA KindsAre ==
  ASSUME NEW n \in Nat \ {0}
  PROVE  LET g == Levels[n - 1]
         IN /\ What("factor", n) = Factors(g, n)
            /\ What("term", n) =
                 What("factor", n) \union Binary(g, n, "term", FactorOperators, "factor")
            /\ What("sum", n) =
                 (What("term", n)
                   \union UNION {{Signed(p, sign) : p \in {q \in Of(g, "term", n - 1) :
                                                             q.type \in Numbers}} :
                                   sign \in Keywords \intersect Signs})
                   \union Binary(g, n, "sum", TermOperators, "term")
            /\ What("exp", n) =
                 What("sum", n) \union Binary(g, n, "sum", Comparisons, "sum")
            /\ What("list", n) =
                 {Sentence(p.tokens, <<Writes(p)>>) : p \in What("exp", n)}
                   \union UNION {UNION {{Longer(l, p) : p \in Of(g, "exp", n - 1 - k)} :
                                          l \in Of(g, "list", k)} : k \in 1..n}
<1> DEFINE g == Levels[n - 1]
           factor == Factors(g, n)
           term == factor \union Binary(g, n, "term", FactorOperators, "factor")
           signed == UNION {{Signed(p, sign) : p \in {q \in Of(g, "term", n - 1) :
                                                        q.type \in Numbers}} :
                              sign \in Keywords \intersect Signs}
           sum == (term \union signed) \union Binary(g, n, "sum", TermOperators, "term")
           exp == sum \union Binary(g, n, "sum", Comparisons, "sum")
           longer == UNION {UNION {{Longer(l, p) : p \in Of(g, "exp", n - 1 - k)} :
                                     l \in Of(g, "list", k)} : k \in 1..n}
           list == {Sentence(p.tokens, <<Writes(p)>>) : p \in exp} \union longer
<1>1. Level(g, n) = [factor |-> factor, term |-> term, sum |-> sum, exp |-> exp,
                     list |-> list]
  BY Zenon DEF Level
<1>2. Levels[n][n] = Level(g, n)
  BY LevelIs, Zenon
<1> HIDE DEF g, factor, term, sum, exp, list
<1>3. /\ What("factor", n) = factor /\ What("term", n) = term
      /\ What("sum", n) = sum /\ What("exp", n) = exp /\ What("list", n) = list
  BY <1>1, <1>2 DEF What
<1>4. What("factor", n) = Factors(g, n)
  BY <1>3 DEF factor
<1>5. What("term", n) =
        What("factor", n) \union Binary(g, n, "term", FactorOperators, "factor")
  BY <1>3, Zenon DEF term
<1>6. What("sum", n) =
        (What("term", n) \union signed) \union Binary(g, n, "sum", TermOperators, "term")
  BY <1>3, Zenon DEF sum
<1>7. What("exp", n) = What("sum", n) \union Binary(g, n, "sum", Comparisons, "sum")
  BY <1>3, Zenon DEF exp
<1>8. What("list", n) =
        {Sentence(p.tokens, <<Writes(p)>>) : p \in What("exp", n)} \union longer
  BY <1>3, Zenon DEF list
<1> QED
  BY <1>4, <1>5, <1>6, <1>7, <1>8, Zenon DEF g

(* A phrase, or a list of phrases, is of a kind.                           *)
IsA(kind, p) == p.tokens \in Seq(Tokens) /\ p \in What(kind, Len(p.tokens))

(* The solver takes no strings with these characters: they are named.      *)
Comma == ","
Semicolon == ";"

(* Concatenation, for tokens.                                              *)
LEMMA Texts ==
  ASSUME NEW s \in Seq(Tokens), NEW t \in Seq(Tokens)
  PROVE  /\ s \o t \in Seq(Tokens) /\ Len(s \o t) = Len(s) + Len(t)
         /\ Len(s) \in Nat /\ Len(t) \in Nat
         /\ \A u \in Seq(Tokens) : (s \o t) \o u = s \o (t \o u)
<1>1. s \o t \in Seq(Tokens) /\ Len(s \o t) = Len(s) + Len(t)
  BY ConcatProperties
<1>2. Len(s) \in Nat /\ Len(t) \in Nat
  BY LenProperties
<1>3. \A u \in Seq(Tokens) : (s \o t) \o u = s \o (t \o u)
  BY ConcatAssociative
<1> QED
  BY <1>1, <1>2, <1>3

LEMMA Words ==
  /\ \A t \in Tokens : <<t>> \in Seq(Tokens) /\ Len(<<t>>) = 1
  /\ \A t, u \in Tokens : <<t, u>> \in Seq(Tokens) /\ Len(<<t, u>>) = 2
  /\ \A k \in Keywords : Plain(k) \in Tokens
  /\ \A t \in Literals \union Symbols : t \in Tokens
<1>1. \A t \in Tokens : <<t>> \in Seq(Tokens) /\ Len(<<t>>) = 1
  OBVIOUS
<1>2. \A t, u \in Tokens : <<t, u>> \in Seq(Tokens) /\ Len(<<t, u>>) = 2
  OBVIOUS
<1>3. \A k \in Keywords : Plain(k) \in Tokens
  BY Zenon DEF Tokens
<1>4. \A t \in Literals \union Symbols : t \in Tokens
  BY Zenon DEF Tokens
<1> QED
  BY <1>1, <1>2, <1>3, <1>4

LEMMA PhraseFields ==
  /\ \A x, y, z : /\ Phrase(x, y, z).tokens = x /\ Phrase(x, y, z).type = y
                  /\ Phrase(x, y, z).value = z
  /\ \A x, y : Sentence(x, y).tokens = x /\ Sentence(x, y).does = y
BY DEF Phrase, Sentence

(* No phrase is empty, and it fits into a longer one.                      *)
LEMMA NotEmpty ==
  ASSUME NEW kind, NEW p, IsA(kind, p)
  PROVE  Len(p.tokens) \in Nat \ {0} /\ p.tokens \in Seq(Tokens)
<1>1. Len(p.tokens) \in Nat
  BY LenProperties DEF IsA
<1> QED
  BY <1>1 DEF IsA, What

LEMMA Fits ==
  ASSUME NEW kind, NEW p, IsA(kind, p), NEW n \in Nat \ {0}, Len(p.tokens) < n
  PROVE  p \in Of(Levels[n - 1], kind, Len(p.tokens))
<1>1. Len(p.tokens) \in 1..n - 1
  BY NotEmpty
<1>2. p \in Fewer(kind, Len(p.tokens), n)
  BY <1>1 DEF IsA, Fewer
<1>3. Of(Levels[n - 1], kind, Len(p.tokens)) = Fewer(kind, Len(p.tokens), n)
  BY LevelIs, Zenon
<1> QED
  BY <1>2, <1>3

LEMMA FitsType ==
  ASSUME NEW kind, NEW p, IsA(kind, p), NEW n \in Nat \ {0}, NEW k, k = Len(p.tokens), k < n
  PROVE  /\ p \in Of(Levels[n - 1], kind, k)
         /\ p \in OfType(Of(Levels[n - 1], kind, k), p.type)
BY Fits DEF OfType

(* The productions, for phrases instead of lengths: factors, ...           *)
LEMMA IsAtom ==
  ASSUME NEW t \in Literals \union Symbols
  PROVE  IsA("factor", Phrase(<<t>>, t.type, Leaf(t)))
<1> DEFINE p == Phrase(<<t>>, t.type, Leaf(t))
<1>1. p.tokens = <<t>> /\ <<t>> \in Seq(Tokens) /\ Len(<<t>>) = 1
  BY PhraseFields, Words
<1>2. p \in Factors(Levels[1 - 1], 1)
  <2>1. p \in {Phrase(<<u>>, u.type, Leaf(u)) :
                 u \in IF 1 = 1 THEN Literals \union Symbols ELSE {}}
    OBVIOUS
  <2> HIDE DEF p
  <2> QED
    BY <2>1, Zenon DEF Factors
<1>3. What("factor", 1) = Factors(Levels[1 - 1], 1)
  BY KindsAre
<1> HIDE DEF p
<1>4. IsA("factor", p)
  BY <1>1, <1>2, <1>3 DEF IsA
<1> QED
  BY <1>4 DEF p

LEMMA IsNot ==
  ASSUME NEW p, IsA("factor", p), p.type = "logic", Plain("not") \in Tokens
  PROVE  IsA("factor", Phrase(<<Plain("not")>> \o p.tokens, "logic",
                              Term("not", "logic", <<p.value>>)))
<1> DEFINE q == Phrase(<<Plain("not")>> \o p.tokens, "logic",
                       Term("not", "logic", <<p.value>>))
           n == 1 + Len(p.tokens)
           w == <<Plain("not")>>
<1>1. /\ w \in Seq(Tokens) /\ Len(w) = 1
      /\ Len(p.tokens) \in Nat \ {0} /\ p.tokens \in Seq(Tokens)
  BY NotEmpty, Words
<1>2. q.tokens = w \o p.tokens
  BY PhraseFields
<1>3. n \in Nat \ {0} /\ n - 1 = Len(p.tokens) /\ Len(p.tokens) < n
  BY <1>1
<1> HIDE DEF w, n
<1>4. q.tokens \in Seq(Tokens) /\ Len(q.tokens) = n
  <2>1. w \o p.tokens \in Seq(Tokens) /\ Len(w \o p.tokens) = Len(w) + Len(p.tokens)
    BY <1>1, Texts
  <2> QED
    BY <1>1, <1>2, <2>1 DEF n
<1>5. p \in OfType(Of(Levels[n - 1], "factor", n - 1), "logic")
  BY <1>3, FitsType
<1>6. q \in {Phrase(<<Plain("not")>> \o r.tokens, "logic",
                    Term("not", "logic", <<r.value>>)) :
               r \in OfType(Of(Levels[n - 1], "factor", n - 1), "logic")}
  BY <1>5, Zenon
<1> HIDE DEF q
<1>7. q \in What("factor", n)
  <2>1. q \in Factors(Levels[n - 1], n)
    BY <1>6, Zenon DEF Factors
  <2> QED
    BY <1>3, <2>1, KindsAre
<1>8. IsA("factor", q)
  BY <1>4, <1>7 DEF IsA
<1> QED
  BY <1>8 DEF q

(* The lengths of what is enclosed in tokens.                              *)
LEMMA Enclosed ==
  ASSUME NEW w \in Seq(Tokens), NEW kind, NEW p, IsA(kind, p), NEW close,
         Plain(close) \in Tokens, NEW type, NEW value
  PROVE  LET q == Within(w, p, close, type, value)
             n == Len(w) + 1 + Len(p.tokens)
         IN /\ q.tokens \in Seq(Tokens) /\ Len(q.tokens) = n
            /\ n \in Nat \ {0} /\ Len(p.tokens) < n
            /\ n - (Len(w) + 1) = Len(p.tokens)
<1> DEFINE q == Within(w, p, close, type, value)
           c == <<Plain(close)>>
           t == p.tokens
           u == w \o t
<1>1. /\ c \in Seq(Tokens) /\ Len(c) = 1
      /\ Len(t) \in Nat \ {0} /\ t \in Seq(Tokens) /\ Len(w) \in Nat
  BY NotEmpty, Words, LenProperties
<1>2. q.tokens = (w \o t) \o c
  BY PhraseFields DEF Within
<1> HIDE DEF c, q, t
<1>3. u \in Seq(Tokens) /\ Len(u) = Len(w) + Len(t)
  BY <1>1, Texts
<1> HIDE DEF u
<1>4. u \o c \in Seq(Tokens) /\ Len(u \o c) = Len(u) + Len(c)
  BY <1>1, <1>3, Texts
<1>5. \A l \in Nat, m \in Nat \ {0} :
        /\ (l + m) + 1 = l + 1 + m /\ l + 1 + m \in Nat \ {0} /\ m < l + 1 + m
        /\ (l + 1 + m) - (l + 1) = m
  OBVIOUS
<1>6. q.tokens \in Seq(Tokens) /\ Len(q.tokens) = (Len(w) + Len(t)) + 1
  BY <1>1, <1>2, <1>3, <1>4 DEF u
<1> QED
  BY <1>1, <1>5, <1>6 DEF q, t

LEMMA IsEnclosed ==
  ASSUME NEW p, IsA("exp", p), Plain("(") \in Tokens, Plain(")") \in Tokens
  PROVE  IsA("factor", Within(<<Plain("(")>>, p, ")", p.type, p.value))
<1> DEFINE w == <<Plain("(")>>
           q == Within(w, p, ")", p.type, p.value)
           n == Len(w) + 1 + Len(p.tokens)
<1>1. w \in Seq(Tokens) /\ Len(w) = 1
  BY Words
<1>2. /\ q.tokens \in Seq(Tokens) /\ Len(q.tokens) = n
      /\ n \in Nat \ {0} /\ Len(p.tokens) < n
      /\ n - (Len(w) + 1) = Len(p.tokens)
  <2> HIDE DEF w
  <2> QED
    BY <1>1, Enclosed
<1> HIDE DEF n
<1>3. n - 2 = Len(p.tokens)
  BY <1>1, <1>2
<1>4. p \in Of(Levels[n - 1], "exp", n - 2)
  BY <1>2, <1>3, FitsType
<1>5. q \in {Within(<<Plain("(")>>, r, ")", r.type, r.value) :
               r \in Of(Levels[n - 1], "exp", n - 2)}
  BY <1>4, Zenon
<1> HIDE DEF q
<1>6. q \in Factors(Levels[n - 1], n)
  BY <1>5, Zenon DEF Factors
<1>7. IsA("factor", q)
  BY <1>2, <1>6, KindsAre DEF IsA
<1> QED
  BY <1>7 DEF q

LEMMA IsConverted ==
  ASSUME NEW p, IsA("exp", p), NEW type \in {"int", "float"},
         p.type = IF type = "int" THEN "float" ELSE "int",
         Plain(type) \in Tokens, Plain("(") \in Tokens, Plain(")") \in Tokens
  PROVE  IsA("factor", Converted(p, type))
<1> DEFINE w == <<Plain(type), Plain("(")>>
           q == Within(w, p, ")", type, Term(type, type, <<p.value>>))
           n == Len(w) + 1 + Len(p.tokens)
<1>1. w \in Seq(Tokens) /\ Len(w) = 2
  BY Words
<1>2. /\ q.tokens \in Seq(Tokens) /\ Len(q.tokens) = n
      /\ n \in Nat \ {0} /\ Len(p.tokens) < n
      /\ n - (Len(w) + 1) = Len(p.tokens)
  <2> HIDE DEF w
  <2> QED
    BY <1>1, Enclosed
<1> HIDE DEF n
<1> DEFINE r == Converted(p, type)
<1>0. q = r
  BY DEF Converted
<1>3. n - 3 = Len(p.tokens)
  BY <1>1, <1>2
<1>4. p \in OfType(Of(Levels[n - 1], "exp", n - 3), p.type)
  BY <1>2, <1>3, FitsType
<1>5. r \in {Converted(x, type) : x \in OfType(Of(Levels[n - 1], "exp", n - 3), p.type)}
  BY <1>4, Zenon
<1> HIDE DEF q, r
<1>6. r \in Factors(Levels[n - 1], n)
  <2>1. CASE type = "int"
    <3>1. r \in {Converted(x, "int") :
                   x \in OfType(Of(Levels[n - 1], "exp", n - 3), "float")}
      BY <1>5, <2>1
    <3> QED
      BY <3>1, Zenon DEF Factors
  <2>2. CASE type = "float"
    <3>1. r \in {Converted(x, "float") :
                   x \in OfType(Of(Levels[n - 1], "exp", n - 3), "int")}
      BY <1>5, <2>2
    <3> QED
      BY <3>1, Zenon DEF Factors
  <2> QED
    BY <2>1, <2>2
<1>7. IsA("factor", r)
  BY <1>0, <1>2, <1>6, KindsAre DEF IsA
<1> QED
  BY <1>7 DEF r

LEMMA IsIndexed ==
  ASSUME NEW p, IsA("exp", p), p.type = "int",
         NEW s \in Symbols, s.type = "string",
         Plain("[") \in Tokens, Plain("]") \in Tokens
  PROVE  IsA("factor", Indexed(s, p))
<1> DEFINE w == <<s, Plain("[")>>
           q == Within(w, p, "]", "char", Term("at", "char", <<Leaf(s), p.value>>))
           n == Len(w) + 1 + Len(p.tokens)
<1>1. w \in Seq(Tokens) /\ Len(w) = 2
  BY Words
<1>2. /\ q.tokens \in Seq(Tokens) /\ Len(q.tokens) = n
      /\ n \in Nat \ {0} /\ Len(p.tokens) < n
      /\ n - (Len(w) + 1) = Len(p.tokens)
  <2> HIDE DEF w
  <2> QED
    BY <1>1, Enclosed
<1> HIDE DEF n
<1> DEFINE r == Indexed(s, p)
<1>0. q = r
  BY DEF Indexed
<1>3. n - 3 = Len(p.tokens)
  BY <1>1, <1>2
<1>4. p \in OfType(Of(Levels[n - 1], "exp", n - 3), "int")
  BY <1>2, <1>3, FitsType
<1> DEFINE Strings(x) == {Indexed(x, u) : u \in OfType(Of(Levels[n - 1], "exp", n - 3), "int")}
<1>5. r \in Strings(s) /\ s \in OfType(Symbols, "string")
  BY <1>4 DEF OfType
<1> HIDE DEF q, r
<1>6. r \in UNION {Strings(x) : x \in OfType(Symbols, "string")}
  <2> HIDE DEF Strings
  <2> QED
    BY <1>5, Zenon
<1>7. r \in Factors(Levels[n - 1], n)
  BY <1>6, Zenon DEF Factors
<1>8. IsA("factor", r)
  BY <1>0, <1>2, <1>7, KindsAre DEF IsA
<1> QED
  BY <1>8 DEF r

(* ...what is a phrase of a wider kind, too, ...                           *)
LEMMA IsWider ==
  ASSUME NEW p
  PROVE  /\ IsA("factor", p) => IsA("term", p)
         /\ IsA("term", p) => IsA("sum", p)
         /\ IsA("sum", p) => IsA("exp", p)
<1> DEFINE n == Len(p.tokens)
<1>1. ASSUME n \in Nat \ {0}
      PROVE  /\ What("factor", n) \subseteq What("term", n)
             /\ What("term", n) \subseteq What("sum", n)
             /\ What("sum", n) \subseteq What("exp", n)
  <2> HIDE DEF n
  <2>1. What("factor", n) \subseteq What("term", n)
    BY <1>1, KindsAre
  <2>2. What("term", n) \subseteq What("sum", n)
    BY <1>1, KindsAre
  <2>3. What("sum", n) \subseteq What("exp", n)
    BY <1>1, KindsAre
  <2> QED
    BY <2>1, <2>2, <2>3
<1> QED
  BY <1>1, NotEmpty DEF IsA

(* ...operations, ...                                                      *)
LEMMA Operated ==
  ASSUME NEW A, NEW ops, NEW B, NEW a \in A, NEW b \in B,
         NEW op \in ops \intersect Keywords, Joins(op, a.type, b.type)
  PROVE  Join(a, op, b) \in Operations(A, ops, B)
<1> DEFINE Fit(l, r) == {o \in ops \intersect Keywords : Joins(o, l.type, r.type)}
           ByRight(l, r) == {Join(l, o, r) : o \in Fit(l, r)}
           ByLeft(l) == UNION {ByRight(l, r) : r \in B}
           x == Join(a, op, b)
<1>1. op \in Fit(a, b)
  OBVIOUS
<1> HIDE DEF Fit
<1>2. x \in ByRight(a, b)
  BY <1>1, Zenon
<1> HIDE DEF ByRight, x
<1>3. x \in ByLeft(a)
  BY <1>2, Zenon
<1> HIDE DEF ByLeft
<1>4. x \in UNION {ByLeft(l) : l \in A}
  BY <1>3, Zenon
<1>5. Operations(A, ops, B) = UNION {ByLeft(l) : l \in A}
  BY Zenon DEF Operations, ByLeft, ByRight, Fit
<1> QED
  BY <1>4, <1>5 DEF x

(* The kinds of both sides of an operation, and of the whole.              *)
Rules ==
  {<<"term", FactorOperators, "factor", "term">>,
   <<"sum", TermOperators, "term", "sum">>, <<"sum", Comparisons, "sum", "exp">>}

LEMMA JoinTokens ==
  ASSUME NEW a, NEW op, NEW b
  PROVE  Join(a, op, b).tokens = (a.tokens \o <<Plain(op)>>) \o b.tokens
<1>1. \E type, value :
        Join(a, op, b) = Phrase(a.tokens \o <<Plain(op)>> \o b.tokens, type, value)
  BY Zenon DEF Join
<1>2. \A x, y, z : Phrase(x, y, z).tokens = x
  BY PhraseFields, Zenon
<1> QED
  BY <1>1, <1>2, Zenon

LEMMA IsOperation ==
  ASSUME NEW rule \in Rules, NEW a, IsA(rule[1], a), NEW b, IsA(rule[3], b),
         NEW op \in rule[2], op \in Keywords, Joins(op, a.type, b.type)
  PROVE  IsA(rule[4], Join(a, op, b))
<1> DEFINE s == a.tokens
           t == b.tokens
           w == <<Plain(op)>>
           sw == s \o w
           q == Join(a, op, b)
           k == Len(s)
           n == Len(s) + 1 + Len(t)
<1>1. /\ k \in Nat \ {0} /\ s \in Seq(Tokens)
      /\ Len(t) \in Nat \ {0} /\ t \in Seq(Tokens)
      /\ w \in Seq(Tokens) /\ Len(w) = 1
  BY NotEmpty, Words
<1>2. q.tokens = sw \o t
  BY JoinTokens, ZenonT(40)
<1>3. n \in Nat \ {0} /\ k \in 1..n /\ k < n /\ n - 1 - k = Len(t) /\ Len(t) < n
  <2>1. \A l, m \in Nat \ {0} :
          /\ l + 1 + m \in Nat \ {0} /\ l \in 1..l + 1 + m /\ l < l + 1 + m
          /\ l + 1 + m - 1 - l = m /\ m < l + 1 + m
    OBVIOUS
  <2> HIDE DEF s, t
  <2> QED
    BY <1>1, <2>1
<1>4. q.tokens \in Seq(Tokens) /\ Len(q.tokens) = n
  <2> HIDE DEF s, t, w, q
  <2>1. sw \in Seq(Tokens) /\ Len(sw) = Len(s) + Len(w)
    BY <1>1, Texts
  <2> HIDE DEF sw
  <2>2. sw \o t \in Seq(Tokens) /\ Len(sw \o t) = Len(sw) + Len(t)
    BY <1>1, <2>1, Texts
  <2> QED
    BY <1>1, <1>2, <2>1, <2>2
<1> DEFINE g == Levels[n - 1]
<1>5. a \in Of(g, rule[1], k) /\ b \in Of(g, rule[3], n - 1 - k)
  <2> HIDE DEF n, q, sw, w
  <2>1. a \in Of(g, rule[1], k)
    BY <1>3, FitsType
  <2>2. b \in Of(g, rule[3], Len(t))
    BY <1>3, FitsType
  <2> QED
    BY <1>3, <2>1, <2>2
<1> DEFINE By(j) == Operations(Of(g, rule[1], j), rule[2], Of(g, rule[3], n - 1 - j))
<1>6. q \in By(k)
  <2> HIDE DEF n, g, k
  <2> QED
    BY <1>5, Operated
<1> HIDE DEF s, t, w, sw, q, k, n, By
<1>7. q \in UNION {By(j) : j \in 1..n}
  BY <1>3, <1>6, Zenon
<1>8. q \in Binary(g, n, rule[1], rule[2], rule[3])
  <2> HIDE DEF g
  <2> QED
    BY <1>7, Zenon DEF Binary, By
<1>9. Binary(g, n, rule[1], rule[2], rule[3]) \subseteq What(rule[4], n)
  <2>1. /\ Binary(g, n, "term", FactorOperators, "factor") \subseteq What("term", n)
        /\ Binary(g, n, "sum", TermOperators, "term") \subseteq What("sum", n)
        /\ Binary(g, n, "sum", Comparisons, "sum") \subseteq What("exp", n)
    BY <1>3, KindsAre
  <2> QED
    BY <2>1 DEF Rules
<1>10. IsA(rule[4], q)
  BY <1>4, <1>8, <1>9 DEF IsA
<1> QED
  BY <1>10 DEF q

LEMMA IsSigned ==
  ASSUME NEW p, IsA("term", p), p.type \in Numbers,
         NEW sign \in Keywords \intersect Signs
  PROVE  IsA("sum", Signed(p, sign))
<1> DEFINE q == Signed(p, sign)
           w == <<Plain(sign)>>
           n == 1 + Len(p.tokens)
           g == Levels[n - 1]
<1>1. /\ w \in Seq(Tokens) /\ Len(w) = 1
      /\ Len(p.tokens) \in Nat \ {0} /\ p.tokens \in Seq(Tokens)
  BY NotEmpty, Words
<1>2. q.tokens = w \o p.tokens
  BY PhraseFields DEF Signed
<1>3. n \in Nat \ {0} /\ n - 1 = Len(p.tokens) /\ Len(p.tokens) < n
  BY <1>1
<1> HIDE DEF w, n
<1>4. q.tokens \in Seq(Tokens) /\ Len(q.tokens) = n
  <2>1. w \o p.tokens \in Seq(Tokens) /\ Len(w \o p.tokens) = Len(w) + Len(p.tokens)
    BY <1>1, Texts
  <2> QED
    BY <1>1, <1>2, <2>1 DEF n
<1>5. p \in Of(g, "term", n - 1)
  BY <1>3, FitsType
<1> DEFINE Fit == {r \in Of(g, "term", n - 1) : r.type \in Numbers}
           With(s) == {Signed(r, s) : r \in Fit}
<1>6. p \in Fit
  BY <1>5
<1> HIDE DEF Fit
<1>7. q \in With(sign)
  BY <1>6, Zenon
<1> HIDE DEF With, q
<1>8. q \in UNION {With(s) : s \in Keywords \intersect Signs}
  BY <1>7, Zenon
<1>9. UNION {With(s) : s \in Keywords \intersect Signs} \subseteq What("sum", n)
  BY <1>3, KindsAre DEF With, Fit
<1>10. IsA("sum", q)
  BY <1>4, <1>8, <1>9 DEF IsA
<1> QED
  BY <1>10 DEF q

(* ...and lists.                                                           *)
LEMMA IsList ==
  ASSUME NEW p, IsA("exp", p)
  PROVE  IsA("list", Sentence(p.tokens, <<Writes(p)>>))
<1> DEFINE n == Len(p.tokens)
           q == Sentence(p.tokens, <<Writes(p)>>)
<1>1. n \in Nat \ {0} /\ p.tokens \in Seq(Tokens) /\ q.tokens = p.tokens
  BY NotEmpty, PhraseFields
<1>2. q \in {Sentence(r.tokens, <<Writes(r)>>) : r \in What("exp", n)}
  BY DEF IsA
<1> HIDE DEF n, q
<1>3. q \in What("list", n)
  BY <1>1, <1>2, KindsAre
<1>4. IsA("list", q)
  BY <1>1, <1>3 DEF IsA, n
<1> QED
  BY <1>4 DEF q

LEMMA IsLonger ==
  ASSUME NEW l, IsA("list", l), NEW p, IsA("exp", p), Plain(Comma) \in Tokens
  PROVE  IsA("list", Longer(l, p))
<1> DEFINE s == l.tokens
           t == p.tokens
           w == <<Plain(Comma)>>
           sw == s \o w
           q == Longer(l, p)
           k == Len(s)
           n == Len(s) + 1 + Len(t)
<1>1. /\ k \in Nat \ {0} /\ s \in Seq(Tokens)
      /\ Len(t) \in Nat \ {0} /\ t \in Seq(Tokens)
      /\ w \in Seq(Tokens) /\ Len(w) = 1
  BY NotEmpty, Words
<1>2. q.tokens = sw \o t
  BY PhraseFields, Zenon DEF Longer, Comma
<1>3. n \in Nat \ {0} /\ k \in 1..n /\ k < n /\ n - 1 - k = Len(t) /\ Len(t) < n
  <2>1. \A i, m \in Nat \ {0} :
          /\ i + 1 + m \in Nat \ {0} /\ i \in 1..i + 1 + m /\ i < i + 1 + m
          /\ i + 1 + m - 1 - i = m /\ m < i + 1 + m
    OBVIOUS
  <2> HIDE DEF s, t
  <2> QED
    BY <1>1, <2>1
<1>4. q.tokens \in Seq(Tokens) /\ Len(q.tokens) = n
  <2> HIDE DEF s, t, w, q
  <2>1. sw \in Seq(Tokens) /\ Len(sw) = Len(s) + Len(w)
    BY <1>1, Texts
  <2> HIDE DEF sw
  <2>2. sw \o t \in Seq(Tokens) /\ Len(sw \o t) = Len(sw) + Len(t)
    BY <1>1, <2>1, Texts
  <2> QED
    BY <1>1, <1>2, <2>1, <2>2
<1> DEFINE g == Levels[n - 1]
<1>5. l \in Of(g, "list", k) /\ p \in Of(g, "exp", n - 1 - k)
  <2> HIDE DEF n, q, sw, w
  <2>1. l \in Of(g, "list", k)
    BY <1>3, FitsType
  <2>2. p \in Of(g, "exp", Len(t))
    BY <1>3, FitsType
  <2> QED
    BY <1>3, <2>1, <2>2
<1> HIDE DEF s, t, w, sw, k, n
<1> DEFINE ByList(j, m) == {Longer(m, r) : r \in Of(g, "exp", n - 1 - j)}
           By(j) == UNION {ByList(j, m) : m \in Of(g, "list", j)}
<1>6. q \in ByList(k, l)
  <2> HIDE DEF g
  <2> QED
    BY <1>5, Zenon
<1> HIDE DEF ByList, q
<1>7. q \in By(k)
  <2> HIDE DEF g
  <2> QED
    BY <1>5, <1>6, Zenon
<1> HIDE DEF By
<1>8. q \in UNION {By(j) : j \in 1..n}
  BY <1>3, <1>7, Zenon
<1>9. UNION {By(j) : j \in 1..n} \subseteq What("list", n)
  <2>1. What("list", n) = {Sentence(r.tokens, <<Writes(r)>>) : r \in What("exp", n)}
                            \union UNION {By(j) : j \in 1..n}
    BY <1>3, KindsAre, Zenon DEF By, ByList
  <2> QED
    BY <2>1
<1>10. IsA("list", q)
  BY <1>4, <1>8, <1>9 DEF IsA
<1> QED
  BY <1>10 DEF q

(* What is in place is loaded from there.                                  *)
LEMMA Loaded ==
  ASSUME NEW g, NEW info, InPlace(g, info)
  PROVE  /\ Load(g.memory, info, info.size) = info.value
         /\ Load(g.memory, info, SizeFromType(info.type)) = info.value
<1> DEFINE e == Stored(info.area, info.address, info.size, info.value)
<1>1. Holds(g.memory, info, info.size) = {e} /\ info.size = SizeFromType(info.type)
  BY DEF InPlace
<1>2. e.value = info.value
  BY DEF Stored
<1> HIDE DEF e
<1>3. Load(g.memory, info, info.size) = e.value
  BY <1>1 DEF Load
<1> QED
  BY <1>1, <1>2, <1>3

(* The type and the value of what Put makes, ...                           *)
LEMMA PutMeans ==
  ASSUME NEW g, NEW size, NEW type, NEW width, NEW value
  PROVE  LET info == Put(g, size, type, width, value).info
         IN info.type = type /\ info.value = value
BY DEF Put, Info

LEMMA InfoMeans ==
  ASSUME NEW symbol
  PROVE  InfoOf(symbol).type = symbol.type /\ InfoOf(symbol).value = Leaf(symbol)
BY DEF InfoOf, Info

LEMMA AddTmpMeans ==
  ASSUME NEW g, NEW literal
  PROVE  LET info == AddTmp(g, literal).info
         IN info.type = literal.type /\ info.value = Leaf(literal)
<1>1. CASE InRodata(literal)
  <2>1. AddTmp(g, literal) = [gen |-> g, info |-> InfoOf(literal)]
    BY <1>1 DEF AddTmp
  <2> QED
    BY <2>1, InfoMeans
<1>2. CASE ~InRodata(literal)
  <2>1. AddTmp(g, literal) = Put(g, SizeFromType(literal.type), literal.type,
                                 SizeFromType(literal.type), Leaf(literal))
    BY <1>2 DEF AddTmp
  <2> QED
    BY <2>1, PutMeans
<1> QED
  BY <1>1, <1>2

(* ...and of the other operations, when their operands are in place.       *)
LEMMA ConvertMeans ==
  ASSUME NEW g, NEW info, InPlace(g, info), info.type \in Numeric, NEW type
  PROVE  LET new == Convert(g, info, type).info
         IN new.type = type /\ new.value = Term(type, type, <<info.value>>)
<1>1. info.size = 4
  BY DEF InPlace, Numeric, SizeFromType
<1>2. Load(g.memory, info, 4) = info.value
  BY <1>1, Loaded
<1> QED
  BY <1>2, PutMeans DEF Convert

LEMMA NegateMeans ==
  ASSUME NEW g, NEW info, InPlace(g, info), info.type \in Numeric
  PROVE  LET new == Negate(g, info).info
         IN /\ new.type = info.type
            /\ new.value = Term("neg", info.type, <<info.value>>)
<1>1. info.size = 4
  BY DEF InPlace, Numeric, SizeFromType
<1>2. Load(g.memory, info, 4) = info.value
  BY <1>1, Loaded
<1> QED
  BY <1>2, PutMeans DEF Negate

LEMMA LogicNegateMeans ==
  ASSUME NEW g, NEW info, InPlace(g, info), info.type = "logic"
  PROVE  LET new == LogicNegate(g, info).info
         IN new.type = "logic" /\ new.value = Term("not", "logic", <<info.value>>)
<1>1. info.size = 1
  BY DEF InPlace, SizeFromType
<1>2. Load(g.memory, info, 1) = info.value
  BY <1>1, Loaded
<1> QED
  BY <1>2, PutMeans DEF LogicNegate

(* A string and an index of it.                                            *)
LEMMA StringLoaded ==
  ASSUME NEW g, MemPart(g) = Static, NEW symbol \in Symbols, symbol.type = "string",
         NEW index, InPlace(g, index), index.type = "int"
  PROVE  /\ Load(g.memory, InfoOf(symbol), 256) = Leaf(symbol)
         /\ Load(g.memory, index, 4) = index.value
<1>1. symbol \in InMemory
  BY DEF InMemory
<1>2. InPlace(g, InfoOf(symbol)) /\ InfoOf(symbol).type = "string"
  BY <1>1, StaticInPlace
<1>3. SizeFromType("string") = 256 /\ SizeFromType("int") = 4
  BY DEF SizeFromType
<1>4. Load(g.memory, InfoOf(symbol), 256) = InfoOf(symbol).value
  BY <1>2, <1>3, Loaded
<1>5. Load(g.memory, index, 4) = index.value
  BY <1>3, Loaded
<1> QED
  BY <1>4, <1>5, InfoMeans

LEMMA MoveMeans ==
  ASSUME NEW g, MemPart(g) = Static, NEW symbol \in Symbols, symbol.type = "string",
         NEW index, InPlace(g, index), index.type = "int"
  PROVE  LET new == MoveIdxToTmp(g, symbol, index).info
         IN new.type = "char" /\ new.value = Term("at", "char", <<Leaf(symbol), index.value>>)
BY StringLoaded, PutMeans DEF MoveIdxToTmp

(* Operands after the conversion of one.                                   *)
LEMMA BalanceMeans ==
  ASSUME NEW g, NEW left, NEW right, InPlace(g, left), InPlace(g, right),
         (left.type \in Numeric /\ right.type \in Numeric) \/ left.type = right.type
  PROVE  LET b == Balance(g, left, right)
             mixed == left.type # right.type
             Widened(i) == IF mixed /\ i.type = "int"
                            THEN Term("float", "float", <<i.value>>) ELSE i.value
         IN /\ b.left.type = (IF mixed THEN "float" ELSE left.type)
            /\ b.left.value = Widened(left) /\ b.right.value = Widened(right)
<1> DEFINE b == Balance(g, left, right)
<1>1. CASE left.type = "int" /\ right.type = "float"
  <2> DEFINE c == Convert(g, left, "float")
  <2>1. b = [gen |-> c.gen, left |-> c.info, right |-> right]
    BY <1>1 DEF Balance
  <2>2. /\ c.info.type = "float"
        /\ c.info.value = Term("float", "float", <<left.value>>)
    BY <1>1, ConvertMeans DEF Numeric
  <2> HIDE DEF c
  <2>3. b.left = c.info /\ b.right = right
    BY <2>1
  <2> HIDE DEF b
  <2> QED
    BY <1>1, <2>2, <2>3 DEF b
<1>2. CASE left.type = "float" /\ right.type = "int"
  <2> DEFINE c == Convert(g, right, "float")
  <2>1. b = [gen |-> c.gen, left |-> left, right |-> c.info]
    BY <1>2 DEF Balance
  <2>2. c.info.value = Term("float", "float", <<right.value>>)
    BY <1>2, ConvertMeans DEF Numeric
  <2> HIDE DEF c
  <2>3. b.left = left /\ b.right = c.info
    BY <2>1
  <2> HIDE DEF b
  <2> QED
    BY <1>2, <2>2, <2>3 DEF b
<1>3. CASE ~(left.type = "int" /\ right.type = "float")
           /\ ~(left.type = "float" /\ right.type = "int")
  <2>1. b = [gen |-> g, left |-> left, right |-> right]
    BY <1>3 DEF Balance
  <2>2. b.left = left /\ b.right = right
    BY <2>1
  <2> HIDE DEF b
  <2>3. left.type = right.type
    BY <1>3 DEF Numeric
  <2> QED
    BY <2>2, <2>3 DEF b
<1> QED
  BY <1>1, <1>2, <1>3

LEMMA PerformMeans ==
  ASSUME NEW g, NEW left, NEW right, InPlace(g, left), InPlace(g, right),
         left.type = right.type, NEW op,
         op \in {"and", "or"} => left.type = "logic"
  PROVE  LET new == Perform(g, op, left, right).info
         IN /\ new.type = (IF op \in Comparisons THEN "logic" ELSE left.type)
            /\ new.value = Term(Operation(op, left.type), left.type,
                                <<left.value, right.value>>)
<1> DEFINE width == IF op \in {"and", "or"} THEN 1 ELSE SizeFromType(left.type)
           value == Term(Operation(op, left.type), left.type,
                      <<Load(g.memory, left, width), Load(g.memory, right, width)>>)
<1>1. width = SizeFromType(left.type)
  BY DEF SizeFromType
<1>2. Load(g.memory, left, width) = left.value
  BY <1>1, Loaded
<1>3. Load(g.memory, right, width) = right.value
  BY <1>1, Loaded
<1>4. Perform(g, op, left, right) =
        IF op \in Comparisons THEN Put(g, 1, "logic", 1, value)
        ELSE Put(g, left.size, left.type, width, value)
  BY DEF Perform
<1>5. value = Term(Operation(op, left.type), left.type, <<left.value, right.value>>)
  BY <1>2, <1>3
<1> HIDE DEF width, value
<1>6. /\ Put(g, 1, "logic", 1, value).info.type = "logic"
      /\ Put(g, 1, "logic", 1, value).info.value = value
      /\ Put(g, left.size, left.type, width, value).info.type = left.type
      /\ Put(g, left.size, left.type, width, value).info.value = value
  BY PutMeans
<1> QED
  BY <1>4, <1>5, <1>6

(* The code of an operation computes the phrase that it joins.             *)
LEMMA CombineMeans ==
  ASSUME GenOK(gen), NEW left, NEW right, InPlace(gen, left), InPlace(gen, right),
         NEW op \in BinaryOperators, Accepts(op, left.type, right.type),
         NEW a, a.type = left.type, a.value = left.value,
         NEW b, b.type = right.type, b.value = right.value
  PROVE  LET new == Combine(op, left, right).info
             j == Join(a, op, b)
         IN Joins(op, a.type, b.type) /\ new.type = j.type /\ new.value = j.value
<1> DEFINE bal == Balance(gen, left, right)
           mixed == left.type # right.type
           Widened(i) == IF mixed /\ i.type = "int"
                          THEN Term("float", "float", <<i.value>>) ELSE i.value
           type == IF mixed THEN "float" ELSE left.type
           new == Combine(op, left, right).info
<1>1. Joins(op, a.type, b.type)
  BY DEF Joins, Accepts, Arithmetic, Numbers, BinaryOperators, TermOperators,
         FactorOperators, Comparisons
<1>2. /\ (left.type \in Numeric /\ right.type \in Numeric) \/ left.type = right.type
      /\ left.type = "string" /\ op \in Comparisons => op \in {"=", "<>"}
  BY DEF Accepts, Arithmetic, Numeric, BinaryOperators, TermOperators,
         FactorOperators, Comparisons
<1>3. /\ bal.left.type = type
      /\ bal.left.value = Widened(left) /\ bal.right.value = Widened(right)
  BY <1>2, BalanceMeans
<1>4. /\ InPlace(bal.gen, bal.left) /\ InPlace(bal.gen, bal.right)
      /\ bal.left.type = bal.right.type
      /\ op \in {"and", "or"} => bal.left.type = "logic"
  BY Balanced DEF Asserted
<1>5. new = Perform(bal.gen, op, bal.left, bal.right).info
  BY DEF Combine
<1> HIDE DEF bal, new
<1>6. /\ new.type = (IF op \in Comparisons THEN "logic" ELSE type)
      /\ new.value = Term(Operation(op, type), type, <<Widened(left), Widened(right)>>)
  BY <1>3, <1>4, <1>5, PerformMeans
<1>7. Operation(op, type) = IF op = "/" /\ type = "int" THEN "div" ELSE op
  BY <1>2 DEF Operation, Comparisons
<1>8. Join(a, op, b) =
        Phrase(a.tokens \o <<Plain(op)>> \o b.tokens,
               IF op \in Comparisons THEN "logic" ELSE type,
               Term(IF op = "/" /\ type = "int" THEN "div" ELSE op, type,
                    <<Widened(left), Widened(right)>>))
  BY Zenon DEF Join
<1> HIDE DEF type, Widened
<1>9. /\ Join(a, op, b).type = IF op \in Comparisons THEN "logic" ELSE type
      /\ Join(a, op, b).value =
           Term(IF op = "/" /\ type = "int" THEN "div" ELSE op, type,
                <<Widened(left), Widened(right)>>)
  BY <1>8, PhraseFields
<1> QED
  BY <1>1, <1>6, <1>7, <1>9 DEF new

(* The tokens are a phrase of a kind, and the value is where info says.    *)
Means(kind, tokens, info) == IsA(kind, Phrase(tokens, info.type, info.value))

(* What a function that is called gives to its caller, and what a frame    *)
(* waits for.                                                              *)
Produces(fn) ==
  CASE fn = "f" -> "factor" [] fn = "t" -> "term" [] fn = "exps" -> "sum"
    [] OTHER -> "exp"
Wants(f) ==
  CASE f.fn = "t" \/ (f.fn = "f" /\ f.at = "not") -> "factor"
    [] f.fn = "exps" -> "term"
    [] f.fn = "exp"  -> "sum"
    [] OTHER         -> "exp"

(* Two histories of effects, up to what write_logic reads.                 *)
Alike(s, t) ==
  /\ IsSeq(s) /\ IsSeq(t) /\ Len(s) = Len(t)
  /\ \A i \in 1..Len(s) : UpToNeighbours(s[i]) = UpToNeighbours(t[i])

(* The tokens w that a frame has read, but for the value it waits for.     *)
FactorBegun(f, w) ==
  /\ f.at = "start" => w = <<>>
  /\ f.at = "id" => w = <<f.symbol>>
  /\ f.at = "]" => /\ f.symbol \in Symbols /\ f.symbol.type = "string"
                   /\ w = <<f.symbol, Plain("[")>>
  /\ f.at = "not" => w = <<Plain("not")>>
  /\ f.at = ")" => w = <<Plain("(")>>
  /\ f.at = "convert(" => w = <<Plain(f.op)>>
  /\ f.at = "convert)" => w = <<Plain(f.op), Plain("(")>>

(* A left operand and its operator.                                        *)
HasOperator(kind, f, w) ==
  f.op \in Keywords /\ \E q : Means(kind, q, f.left) /\ w = q \o <<Plain(f.op)>>

LoopBegun(f, w) ==
  /\ f.at = "sign" => w = <<>> /\ f.op = "none"
  /\ f.at = "first" =>
       IF f.op = "none" THEN w = <<>>
       ELSE f.fn = "exps" /\ f.op \in Keywords \intersect Signs /\ w = <<Plain(f.op)>>
  /\ f.at = "loop" => Means(Produces(f.fn), w, f.left)
  /\ f.at = "operand" => HasOperator(Produces(f.fn), f, w)

ExpBegun(f, w) ==
  /\ f.at = "left" => w = <<>>
  /\ f.at = "right" => HasOperator("sum", f, w)

ParenBegun(f, w, e) ==
  /\ e = <<>>
  /\ f.at = "start" => w = <<>>
  /\ f.at = ")" => w = <<Plain("(")>>

(* Of a list the values have been written; the line feed of `writeln' is   *)
(* written with the last of them.                                          *)
WriteHead(f) == <<Plain(f.op), Plain("(")>>
Ending(f) == IF f.op = "writeln" THEN <<LineFeed>> ELSE <<>>
Listed(l, does, e) == IsA("list", l) /\ Alike(e, does)
AfterComma(f, w, e) ==
  \E l : Listed(l, l.does, e) /\ w = WriteHead(f) \o (l.tokens \o <<Plain(Comma)>>)
AfterValue(f, w, e, t) ==
  \E l : /\ Listed(l, IF t = Comma THEN l.does ELSE l.does \o Ending(f), e)
         /\ w = WriteHead(f) \o l.tokens
AfterList(f, w, e) ==
  \E l : /\ Listed(l, l.does \o Ending(f), e)
         /\ w = (WriteHead(f) \o l.tokens) \o <<Plain(")")>>
WriteBegun(f, w, e, t) ==
  /\ f.at = "start" => w = <<>> /\ e = <<>> /\ t \in {"write", "writeln"}
  /\ f.at # "start" => f.op \in {"write", "writeln"} /\ f.op \in Keywords
  /\ f.at = "(" => w = <<Plain(f.op)>> /\ e = <<>>
  /\ f.at \notin {"start", "("} => WriteHead(f) \in Seq(Tokens)
  /\ f.at = "first" => w = WriteHead(f) /\ e = <<>>
  /\ f.at = "next" => Plain(Comma) \in Tokens /\ AfterComma(f, w, e)
  /\ f.at = Comma => AfterValue(f, w, e, t)
  /\ f.at = Semicolon => Plain(")") \in Tokens /\ AfterList(f, w, e)

(* What syntatic_read has read, and the value that it has stored.          *)
ReadHead == <<Plain("readln"), Plain("(")>>
InputTo(v) == Assign(v, Term("input", v.type, <<>>))
AfterName(w, e) ==
  \E v \in Variables : w = ReadHead \o <<v>> /\ e = <<InputTo(v)>>
AfterInput(w, e) ==
  \E v \in Variables : /\ w = (ReadHead \o <<v>>) \o <<Plain(")")>>
                       /\ e = <<InputTo(v)>>
ReadBegun(f, w, e) ==
  /\ f.at = "start" => w = <<>> /\ e = <<>>
  /\ f.at = "(" => w = <<Plain("readln")>> /\ e = <<>>
  /\ f.at \notin {"start", "("} => ReadHead \in Seq(Tokens)
  /\ f.at = "id" => w = ReadHead /\ e = <<>>
  /\ f.at = ")" => AfterName(w, e)
  /\ f.at = Semicolon => Plain(")") \in Tokens /\ AfterInput(w, e)

(* The index of an assignment to a character of a string.                  *)
IndexRead(f, w) ==
  /\ f.symbol \in Variables /\ f.symbol.type = "string" /\ f.left.type = "int"
  /\ <<f.symbol, Plain("[")>> \in Seq(Tokens) /\ Plain("]") \in Tokens
  /\ \E q : /\ Means("exp", q, f.left)
            /\ w = (<<f.symbol, Plain("[")>> \o q) \o <<Plain("]")>>
(* What syntatic_attr has read; it notes its effect at the end only.       *)
AttrBegun(f, w, e) ==
  /\ e = <<>>
  /\ f.at \in {"start", "id"} => f.op # "index"
  /\ f.at # "start" => f.symbol \in Variables
  /\ f.at = "start" => w = <<>>
  /\ f.at = "id" => w = <<f.symbol>>
  /\ f.at = "]" => f.symbol.type = "string" /\ w = <<f.symbol, Plain("[")>>
  /\ f.at = ":=" => f.op = "index" /\ IndexRead(f, w)
  /\ f.at = "value" =>
       IF f.op = "index"
       THEN Plain(":=") \in Tokens /\ \E v : IndexRead(f, v) /\ w = v \o <<Plain(":=")>>
       ELSE w = <<f.symbol, Plain(":=")>>

(* The tokens w and the effects e of a frame before the token t.           *)
Begun(f, w, e, t) ==
  /\ w \in Seq(Tokens)
  /\ f.fn = "f" => FactorBegun(f, w)
  /\ f.fn \in Loops => LoopBegun(f, w)
  /\ f.fn = "exp" => ExpBegun(f, w)
  /\ f.fn = "paren" => ParenBegun(f, w, e)
  /\ f.fn = "write" => WriteBegun(f, w, e, t)
  /\ f.fn = "readln" => ReadBegun(f, w, e)
  /\ f.fn = "attr" => AttrBegun(f, w, e)

(* What the innermost frame has read, with the value it has waited for.    *)
HasRead(f, w, e, t, r) ==
  IF Awaits(f)
  THEN \E b, q : Begun(f, b, e, t) /\ Means(Wants(f), q, r) /\ w = b \o q
  ELSE Begun(f, w, e, t)

(* The tokens x are those that the first n frames have read: pre[k] is     *)
(* what was read when frame k called the next one.                         *)
Under(s, n, x, e, t) ==
  \E pre \in [0..n -> Seq(Tokens)] :
    /\ pre[0] = <<>> /\ pre[n] = x
    /\ \A k \in 1..n : \E w : Begun(s[k], w, e, t) /\ pre[k] = pre[k - 1] \o w

(* Every function but the innermost waits for what it has called.          *)
Linked(s) ==
  \A k \in 1..Len(s) - 1 : Awaits(s[k]) /\ Wants(s[k]) = Produces(s[k + 1].fn)

(* The functions on the stack have read the input, and nothing else.       *)
Told ==
  \E x, w : /\ Under(stack, Len(stack) - 1, x, effects, entry.tok)
            /\ HasRead(Top, w, effects, entry.tok, ret)
            /\ input = x \o w

Lengths == Len(input) <= MaxTokens /\ (~found => Len(input) < MaxTokens)
(* The inductive invariant, together with IInv.                            *)
MeantInv ==
  /\ Lengths
  /\ status = "running" => Linked(stack) /\ Told
  /\ EffectsAreMeant

-----------------------------------------------------------------------------
(* What has been read are tokens.                                          *)
LEMMA MeansTyped ==
  ASSUME NEW kind, NEW q, NEW info, Means(kind, q, info)
  PROVE  q \in Seq(Tokens)
BY PhraseFields DEF Means, IsA

LEMMA HasReadTyped ==
  ASSUME NEW f, NEW w, NEW e, NEW t, NEW r, HasRead(f, w, e, t, r)
  PROVE  w \in Seq(Tokens)
<1>1. CASE Awaits(f)
  <2>1. PICK b, q : Begun(f, b, e, t) /\ Means(Wants(f), q, r) /\ w = b \o q
    BY <1>1 DEF HasRead
  <2>2. b \in Seq(Tokens) /\ q \in Seq(Tokens)
    BY <2>1, MeansTyped DEF Begun
  <2> QED
    BY <2>1, <2>2, Texts
<1>2. CASE ~Awaits(f)
  BY <1>2 DEF HasRead, Begun
<1> QED
  BY <1>1, <1>2

LEMMA UnderTyped ==
  ASSUME NEW s, NEW n \in Nat, NEW x, NEW e, NEW t, Under(s, n, x, e, t)
  PROVE  x \in Seq(Tokens)
BY DEF Under

LEMMA UnderNone ==
  ASSUME NEW s, NEW x, NEW e, NEW t
  PROVE  Under(s, 0, x, e, t) <=> x = <<>>
<1>1. ASSUME x = <<>> PROVE Under(s, 0, x, e, t)
  <2> DEFINE pre == [k \in 0..0 |-> x]
  <2>1. pre \in [0..0 -> Seq(Tokens)] /\ pre[0] = x
    BY <1>1, EmptySeq
  <2> HIDE DEF pre
  <2>2. \A k \in 1..0 : FALSE
    OBVIOUS
  <2> QED
    BY <1>1, <2>1, <2>2 DEF Under
<1>2. ASSUME Under(s, 0, x, e, t) PROVE x = <<>>
  BY <1>2 DEF Under
<1> QED
  BY <1>1, <1>2

(* Frames that wait do not look at the next token.                         *)
LEMMA WaitsOn ==
  ASSUME NEW f, NEW w, NEW e, NEW t, NEW u, Awaits(f), Begun(f, w, e, t)
  PROVE  Begun(f, w, e, u)
<1>1. f.at # "start"
  BY DEF Awaits
<1>2. f.at # Comma
  BY Zenon DEF Awaits, Comma
<1>3. WriteBegun(f, w, e, t) => WriteBegun(f, w, e, u)
  BY <1>1, <1>2 DEF WriteBegun
<1> QED
  BY <1>3 DEF Begun

LEMMA UnderSame ==
  ASSUME NEW s, NEW r, NEW n \in Nat, NEW x, NEW e, NEW t, NEW u,
         \A k \in 1..n : r[k] = s[k] /\ Awaits(s[k]), Under(s, n, x, e, t)
  PROVE  Under(r, n, x, e, u)
<1>1. PICK pre \in [0..n -> Seq(Tokens)] :
        /\ pre[0] = <<>> /\ pre[n] = x
        /\ \A k \in 1..n : \E w : Begun(s[k], w, e, t) /\ pre[k] = pre[k - 1] \o w
  BY DEF Under
<1>2. ASSUME NEW k \in 1..n
      PROVE  \E w : Begun(r[k], w, e, u) /\ pre[k] = pre[k - 1] \o w
  <2>1. PICK w : Begun(s[k], w, e, t) /\ pre[k] = pre[k - 1] \o w
    BY <1>1
  <2>2. Begun(r[k], w, e, u)
    BY <2>1, WaitsOn
  <2> QED
    BY <2>1, <2>2
<1> QED
  BY <1>1, <1>2 DEF Under

LEMMA UnderPut ==
  ASSUME NEW s, NEW n \in Nat, NEW x, NEW w, NEW e, NEW t,
         Under(s, n, x, e, t), Begun(s[n + 1], w, e, t)
  PROVE  Under(s, n + 1, x \o w, e, t)
<1> DEFINE m == n + 1
           y == x \o w
<1>1. PICK pre \in [0..n -> Seq(Tokens)] :
        /\ pre[0] = <<>> /\ pre[n] = x
        /\ \A k \in 1..n : \E v : Begun(s[k], v, e, t) /\ pre[k] = pre[k - 1] \o v
  BY DEF Under
<1>2. x \in Seq(Tokens) /\ w \in Seq(Tokens)
  BY UnderTyped DEF Begun
<1>3. y \in Seq(Tokens)
  BY <1>2, Texts
<1>4. m \in Nat /\ m \notin 0..n /\ 0..m = 0..n \union {m} /\ m - 1 = n
      /\ 1..m = 1..n \union {m} /\ \A k \in 1..n : k \in 0..n /\ k - 1 \in 0..n
  OBVIOUS
<1> HIDE DEF m, y
<1> DEFINE new == [k \in 0..m |-> IF k = m THEN y ELSE pre[k]]
<1>5. /\ new \in [0..m -> Seq(Tokens)] /\ new[m] = y /\ new[0] = pre[0]
      /\ \A k \in 0..n : new[k] = pre[k]
  BY <1>3, <1>4
<1> HIDE DEF new
<1>6. ASSUME NEW k \in 1..m
      PROVE  \E v : Begun(s[k], v, e, t) /\ new[k] = new[k - 1] \o v
  <2>1. CASE k = m
    <3>1. Begun(s[m], w, e, t) /\ new[m - 1] = x /\ new[m] = x \o w
      BY <1>1, <1>4, <1>5 DEF m, y
    <3> QED
      BY <2>1, <3>1
  <2>2. CASE k \in 1..n
    <3>1. PICK v : Begun(s[k], v, e, t) /\ pre[k] = pre[k - 1] \o v
      BY <1>1, <2>2
    <3>2. new[k] = pre[k] /\ new[k - 1] = pre[k - 1]
      BY <1>4, <1>5, <2>2
    <3> QED
      BY <3>1, <3>2
  <2> QED
    BY <1>4, <2>1, <2>2
<1>7. Under(s, m, y, e, t)
  BY <1>1, <1>5, <1>6 DEF Under
<1> QED
  BY <1>7 DEF m, y

(* The tokens of the last of the first n frames, and those before.         *)
Taken(s, n, y, e, t) ==
  \E x, w : Under(s, n - 1, x, e, t) /\ Begun(s[n], w, e, t) /\ y = x \o w
LEMMA UnderTake ==
  ASSUME NEW s, NEW n \in Nat \ {0}, NEW y, NEW e, NEW t, Under(s, n, y, e, t)
  PROVE  Taken(s, n, y, e, t)
<1> DEFINE m == n - 1
<1>1. PICK pre \in [0..n -> Seq(Tokens)] :
        /\ pre[0] = <<>> /\ pre[n] = y
        /\ \A k \in 1..n : \E v : Begun(s[k], v, e, t) /\ pre[k] = pre[k - 1] \o v
  BY DEF Under
<1>2. /\ m \in Nat /\ n \in 1..n /\ m \in 0..m /\ 0 \in 0..m
      /\ \A k \in 0..m : k \in 0..n
      /\ \A k \in 1..m : k \in 1..n /\ k \in 0..m /\ k - 1 \in 0..m
  OBVIOUS
<1>3. PICK w : Begun(s[n], w, e, t) /\ pre[n] = pre[m] \o w
  BY <1>1, <1>2
<1> HIDE DEF m
<1> DEFINE new == [k \in 0..m |-> pre[k]]
<1>4. new \in [0..m -> Seq(Tokens)] /\ \A k \in 0..m : new[k] = pre[k]
  BY <1>2
<1> HIDE DEF new
<1>5. ASSUME NEW k \in 1..m
      PROVE  \E v : Begun(s[k], v, e, t) /\ new[k] = new[k - 1] \o v
  <2>1. PICK v : Begun(s[k], v, e, t) /\ pre[k] = pre[k - 1] \o v
    BY <1>1, <1>2
  <2>2. new[k] = pre[k] /\ new[k - 1] = pre[k - 1]
    BY <1>2, <1>4
  <2> QED
    BY <2>1, <2>2
<1>6. new[0] = <<>> /\ new[m] = pre[m]
  BY <1>1, <1>2, <1>4
<1>7. Under(s, m, pre[m], e, t)
  BY <1>4, <1>5, <1>6 DEF Under
<1> QED
  BY <1>1, <1>3, <1>7 DEF Taken, m

(* A step reads the tokens v, and keeps the bound on their number.         *)
Reads(v) == v \in Seq(Tokens) /\ input' = input \o v /\ Lengths'

(* A match reads one token, and a step that keeps the lexer's state none.  *)
LEMMA MatchReads ==
  ASSUME LexInv, Lengths, NEW tok, Match(tok)
  PROVE  Reads(<<entry>>) /\ entry.tok = tok
<1>1. <<entry>> \in Seq(Tokens) /\ input \in Seq(Tokens) /\ Len(input) \in Nat
  BY LenProperties DEF LexInv
<1>2. input' = input \o <<entry>>
  BY <1>1, AppendIsConcat DEF Match, LexInv
<1>3. Len(input') = Len(input) + 1
  BY <1>1 DEF Match, LexInv
<1>4. Len(input) + 1 <= MaxTokens
  BY <1>1, MaxTokensAssumption DEF Match, Lengths
<1>5. found' \/ Len(input) + 1 < MaxTokens
  BY DEF Match
<1>6. Lengths'
  BY <1>3, <1>4, <1>5 DEF Lengths
<1> QED
  BY <1>1, <1>2, <1>6 DEF Reads, Match

LEMMA NothingRead ==
  ASSUME LexInv, Lengths, UNCHANGED lexVars
  PROVE  Reads(<<>>) /\ entry' = entry
<1>1. input \in Seq(Tokens) /\ input \o <<>> = input /\ <<>> \in Seq(Tokens)
  BY EmptySeq, ConcatEmptySeq DEF LexInv
<1> QED
  BY <1>1 DEF Reads, Lengths, lexVars

LEMMA NoMore == ASSUME NEW w \in Seq(Tokens) PROVE w \o <<>> = w
BY ConcatEmptySeq

(* A token that is no constant and no identifier is a keyword.             *)
LEMMA PlainToken ==
  ASSUME NEW t \in Tokens, t.tok # "constant", t.tok # "identifier"
  PROVE  t = Plain(t.tok) /\ t.tok \in Keywords
<1>1. CASE t \in Literals
  BY <1>1, LiteralsAssumption
<1>2. CASE t \in Symbols
  BY <1>2, SymbolsAssumption
<1>3. CASE t = Undeclared
  BY <1>3 DEF Undeclared, Plain
<1>4. CASE \E k \in Keywords : t = Plain(k)
  BY <1>4 DEF Plain
<1> QED
  BY <1>1, <1>2, <1>3, <1>4 DEF Tokens

(* What the frames have read is the input.                                 *)
LEMMA Telling ==
  ASSUME IInv, MeantInv, status = "running"
  PROVE  /\ Linked(stack) /\ Len(stack) \in Nat \ {0} /\ Len(stack) - 1 \in Nat
         /\ Lengths /\ LexInv
         /\ \E x, w : /\ Under(stack, Len(stack) - 1, x, effects, entry.tok)
                      /\ HasRead(Top, w, effects, entry.tok, ret)
                      /\ input = x \o w
                      /\ x \in Seq(Tokens) /\ w \in Seq(Tokens)
<1>1. Len(stack) \in Nat \ {0}
  BY TopFacts
<1>2. Len(stack) - 1 \in Nat
  BY <1>1
<1>3. PICK x, w : /\ Under(stack, Len(stack) - 1, x, effects, entry.tok)
                  /\ HasRead(Top, w, effects, entry.tok, ret)
                  /\ input = x \o w
  BY DEF MeantInv, Told
<1>4. x \in Seq(Tokens)
  <2> DEFINE n == Len(stack) - 1
  <2>1. n \in Nat /\ Under(stack, n, x, effects, entry.tok)
    BY <1>2, <1>3
  <2> HIDE DEF n
  <2> QED
    BY <2>1, UnderTyped
<1>5. w \in Seq(Tokens)
  BY <1>3, HasReadTyped
<1> QED
  BY <1>1, <1>2, <1>3, <1>4, <1>5 DEF MeantInv, IInv

(* What a function that has called another waits for.                      *)
LEMMA WaitsFor ==
  ASSUME NEW s, Linked(s), NEW k \in 1..Len(s) - 1
  PROVE  Awaits(s[k]) /\ Wants(s[k]) = Produces(s[k + 1].fn)
BY DEF Linked

(* The innermost function goes on.                                         *)
LEMMA ResumeTells ==
  ASSUME IInv, MeantInv, status = "running", status' = status,
         NEW f, f.fn = Top.fn, stack' = Resume(f), NEW v, Reads(v),
         effects' = effects \/ Len(stack) = 1,
         \A w : HasRead(Top, w, effects, entry.tok, ret)
                  => HasRead(f, w \o v, effects', entry'.tok, ret')
  PROVE  MeantInv'
<1> DEFINE n == Len(stack)
           m == n - 1
<1>1. /\ Len(stack') = n /\ n \in Nat \ {0} /\ m \in Nat
      /\ \A i \in 1..m : stack'[i] = stack[i]
      /\ stack'[n] = f
  BY TopFacts, Resumed DEF Resume, Pop
<1>2. PICK x, w : /\ Under(stack, m, x, effects, entry.tok)
                  /\ HasRead(Top, w, effects, entry.tok, ret)
                  /\ input = x \o w
                  /\ x \in Seq(Tokens) /\ w \in Seq(Tokens)
  BY Telling
<1>3. /\ Linked(stack) /\ stack[n].fn = f.fn
      /\ Top' = f /\ input' = (x \o w) \o v /\ v \in Seq(Tokens)
  BY <1>1, <1>2, Telling DEF Top, Reads
<1> HIDE DEF m
<1>4. Under(stack', m, x, effects', entry'.tok)
  <2>1. \A k \in 1..m : stack'[k] = stack[k] /\ Awaits(stack[k])
    BY <1>1, <1>3, WaitsFor DEF m
  <2>2. CASE effects' = effects
    BY <1>1, <1>2, <2>1, <2>2, UnderSame
  <2>3. CASE n = 1
    <3>1. m = 0
      BY <2>3 DEF m
    <3> QED
      BY <1>2, <3>1, UnderNone
  <2> QED
    BY <2>2, <2>3
<1>5. HasRead(f, w \o v, effects', entry'.tok, ret')
  BY <1>2
<1>6. input' = x \o (w \o v)
  BY <1>2, <1>3, Texts
<1>7. Linked(stack')
  <2> SUFFICES ASSUME NEW k \in 1..m
               PROVE  Awaits(stack'[k]) /\ Wants(stack'[k]) = Produces(stack'[k + 1].fn)
    BY <1>1 DEF Linked, m
  <2>1. k \in 1..Len(stack) - 1 /\ (k + 1 \in 1..m \/ k + 1 = n)
    BY <1>1 DEF m
  <2>2. stack'[k] = stack[k] /\ stack'[k + 1].fn = stack[k + 1].fn
    BY <1>1, <1>3, <2>1
  <2> QED
    BY <1>3, <2>1, <2>2, WaitsFor
<1>8. Told'
  <2>1. Len(stack') - 1 = m
    BY <1>1 DEF m
  <2> QED
    BY <1>3, <1>4, <1>5, <1>6, <2>1 DEF Told
<1> QED
  BY <1>7, <1>8 DEF MeantInv, EffectsAreMeant, Reads

(* A concatenation has the elements of both.                               *)
LEMMA Pushed ==
  ASSUME NEW s, IsSeq(s), NEW c, IsSeq(c), NEW t, t = s \o c
  PROVE  /\ IsSeq(t) /\ Len(t) = Len(s) + Len(c)
         /\ \A i \in 1..Len(s) : t[i] = s[i]
         /\ \A i \in 1..Len(c) : t[Len(s) + i] = c[i]
BY Called

(* It calls another, of which nothing has been read.                       *)
LEMMA CallReads ==
  ASSUME NEW c \in Calls, NEW e, NEW t
  PROVE  /\ Begun(c[1], <<>>, e, t)
         /\ Len(c) = 2 => /\ Begun(c[2], <<>>, e, t)
                          /\ Awaits(c[1]) /\ Wants(c[1]) = Produces(c[2].fn)
         /\ Len(c) \in {1, 2} /\ ~Awaits(c[Len(c)]) /\ IsSeq(c)
<1> DEFINE f == Frame("f", "start")
           p == Frame("t", "first")
           s == Frame("exps", "sign")
           x == Frame("exp", "left")
<1>1. /\ f.fn = "f" /\ f.at = "start" /\ p.fn = "t" /\ p.at = "first" /\ p.op = "none"
      /\ s.fn = "exps" /\ s.at = "sign" /\ s.op = "none" /\ x.fn = "exp" /\ x.at = "left"
  BY FrameFacts
<1> HIDE DEF f, p, s, x
<1>2. CallF = <<f>> /\ CallExps = <<s>> /\ CallT = <<p, f>> /\ CallExp = <<x, s>>
  <2>1. CallF = <<f>> /\ CallExps = <<s>>
    BY DEF CallF, CallExps, f, s
  <2>2. CallT = <<p>> \o <<f>> /\ CallExp = <<x>> \o <<s>>
    BY <2>1 DEF CallT, CallExp, p, x
  <2> QED
    BY <2>1, <2>2, Joined
<1>3. <<>> \in Seq(Tokens)
  BY EmptySeq
<1>4. Begun(f, <<>>, e, t)
  BY <1>1, <1>3 DEF Begun, FactorBegun, Loops
<1>5. Begun(p, <<>>, e, t) /\ Begun(s, <<>>, e, t)
  BY <1>1, <1>3 DEF Begun, LoopBegun, Loops
<1>6. Begun(x, <<>>, e, t)
  BY <1>1, <1>3 DEF Begun, ExpBegun, Loops
<1>7. /\ Awaits(p) /\ Wants(p) = Produces(f.fn) /\ Awaits(x) /\ Wants(x) = Produces(s.fn)
  BY <1>1 DEF Awaits, Wants, Produces
<1>8. IsSeq(c) /\ Len(c) \in {1, 2} /\ ~Awaits(c[Len(c)])
  BY CallFrames
<1>9. CASE c = <<f>> \/ c = <<s>>
  BY <1>4, <1>5, <1>8, <1>9
<1>10. CASE c = <<p, f>> \/ c = <<x, s>>
  BY <1>4, <1>5, <1>6, <1>7, <1>8, <1>10
<1> QED
  BY <1>2, <1>9, <1>10 DEF Calls

LEMMA CallTells ==
  ASSUME IInv, MeantInv, status = "running", status' = status,
         NEW f, f.fn = Top.fn, NEW c \in Calls, stack' = Resume(f) \o c,
         NEW v, Reads(v), effects' = effects,
         Awaits(f), Wants(f) = Produces(c[1].fn),
         \A w : HasRead(Top, w, effects, entry.tok, ret)
                  => Begun(f, w \o v, effects, entry'.tok)
  PROVE  MeantInv'
<1> DEFINE n == Len(stack)
           m == n - 1
           k == Len(c)
           r == Resume(f)
           t == entry'.tok
<1>1. /\ IsSeq(r) /\ Len(r) = n /\ n \in Nat \ {0} /\ m \in Nat
      /\ \A i \in 1..m : r[i] = stack[i]
      /\ r[n] = f
  BY TopFacts, Resumed DEF Resume, Pop
<1>2. /\ IsSeq(c) /\ k \in {1, 2} /\ ~Awaits(c[k])
      /\ \A e, u : Begun(c[1], <<>>, e, u)
      /\ k = 2 => /\ \A e, u : Begun(c[2], <<>>, e, u)
                  /\ Awaits(c[1]) /\ Wants(c[1]) = Produces(c[2].fn)
  BY CallReads
<1> HIDE DEF r, k
<1>3. stack' = r \o c
  BY DEF r
<1>4. /\ Len(stack') = n + k
      /\ \A i \in 1..n : stack'[i] = r[i]
      /\ \A i \in 1..k : stack'[n + i] = c[i]
  <2> DEFINE j == stack'
  <2>1. IsSeq(r) /\ IsSeq(c) /\ j = r \o c
    BY <1>1, <1>2, <1>3
  <2> HIDE DEF j
  <2>2. Len(j) = Len(r) + Len(c)
    BY <2>1, Pushed
  <2>3. \A i \in 1..Len(r) : j[i] = r[i]
    BY <2>1, Pushed
  <2>4. \A i \in 1..Len(c) : j[Len(r) + i] = c[i]
    BY <2>1, Pushed
  <2> QED
    BY <1>1, <2>2, <2>3, <2>4 DEF k, j
<1> HIDE DEF n
<1>5. /\ Len(stack') = n + k
      /\ \A i \in 1..m : stack'[i] = stack[i]
      /\ stack'[n] = f /\ stack'[n + 1] = c[1]
      /\ k = 2 => stack'[n + 2] = c[2]
  BY <1>1, <1>2, <1>4
<1>6. PICK x, w : /\ Under(stack, m, x, effects, entry.tok)
                  /\ HasRead(Top, w, effects, entry.tok, ret)
                  /\ input = x \o w
                  /\ x \in Seq(Tokens) /\ w \in Seq(Tokens)
  BY Telling DEF n
<1>7. Linked(stack) /\ input' = (x \o w) \o v /\ v \in Seq(Tokens) /\ stack[n].fn = f.fn
  BY <1>6, Telling DEF Top, Reads, n
<1> DEFINE y == x \o (w \o v)
<1>8. input' = y /\ y \in Seq(Tokens)
  BY <1>6, <1>7, Texts
<1> HIDE DEF m, t, y
<1>9. \A i \in 1..m : stack'[i] = stack[i] /\ Awaits(stack[i])
  BY <1>5, <1>7, WaitsFor DEF m, n
<1>10. Under(stack', m, x, effects', t)
  BY <1>1, <1>6, <1>9, UnderSame
<1>11. m + 1 = n /\ (n + 1) - 1 = n /\ (n + 2) - 1 = n + 1 /\ n \in Nat /\ n + 1 \in Nat
  BY <1>1 DEF m
<1>12. Under(stack', n, y, effects', t)
  <2>1. Begun(stack'[m + 1], w \o v, effects', t)
    BY <1>5, <1>6, <1>11 DEF t
  <2>2. Under(stack', m + 1, x \o (w \o v), effects', t)
    BY <1>1, <1>10, <2>1, UnderPut
  <2> QED
    BY <1>11, <2>2 DEF y
<1>13. Under(stack', Len(stack') - 1, y, effects', t) /\ Top' = c[k]
  <2>1. CASE k = 1
    BY <1>5, <1>11, <1>12, <2>1 DEF Top
  <2>2. CASE k = 2
    <3>1. Begun(stack'[n + 1], <<>>, effects', t)
      BY <1>2, <1>5, <2>2
    <3>2. Under(stack', n + 1, y \o <<>>, effects', t)
      BY <1>11, <1>12, <3>1, UnderPut
    <3>3. Under(stack', n + 1, y, effects', t)
      BY <1>8, <3>2, NoMore
    <3> QED
      BY <1>5, <1>11, <2>2, <3>3 DEF Top
  <2> QED
    BY <1>2, <2>1, <2>2
<1>14. HasRead(Top', <<>>, effects', t, ret')
  BY <1>2, <1>13 DEF HasRead
<1>15. Told'
  <2>1. input' = y \o <<>>
    BY <1>8, NoMore
  <2> QED
    BY <1>13, <1>14, <2>1 DEF Told, t
<1>16. Linked(stack')
  <2> SUFFICES ASSUME NEW i \in 1..Len(stack') - 1
               PROVE  Awaits(stack'[i]) /\ Wants(stack'[i]) = Produces(stack'[i + 1].fn)
    BY DEF Linked
  <2>1. i \in 1..m \/ i = n \/ (i = n + 1 /\ k = 2)
    BY <1>1, <1>2, <1>5 DEF m
  <2>2. CASE i \in 1..m
    <3>1. i \in 1..Len(stack) - 1 /\ (i + 1 \in 1..m \/ i + 1 = n)
      BY <1>1, <2>2 DEF m, n
    <3>2. stack'[i] = stack[i] /\ stack'[i + 1].fn = stack[i + 1].fn
      BY <1>5, <1>7, <2>2, <3>1
    <3> QED
      BY <1>7, <3>1, <3>2, WaitsFor
  <2>3. CASE i = n
    BY <1>5, <2>3
  <2>4. CASE i = n + 1 /\ k = 2
    <3>1. i + 1 = n + 2
      BY <1>1, <2>4
    <3> QED
      BY <1>2, <1>5, <2>4, <3>1
  <2> QED
    BY <2>1, <2>2, <2>3, <2>4
<1> QED
  BY <1>15, <1>16 DEF MeantInv, EffectsAreMeant, Reads

(* It returns what its caller waits for.                                   *)
LEMMA ReturnTells ==
  ASSUME IInv, MeantInv, status = "running", status' = status,
         Top.fn \in Inner, stack' = Pop, NEW v, Reads(v), effects' = effects,
         \A w : HasRead(Top, w, effects, entry.tok, ret)
                  => Means(Produces(Top.fn), w \o v, ret')
  PROVE  MeantInv'
<1> DEFINE n == Len(stack)
           m == n - 1
           l == m - 1
           t == entry'.tok
<1>1. IsSeq(stack) /\ n > 1
  BY TopFacts
<1>2. /\ Len(stack') = m /\ n \in Nat /\ m \in Nat \ {0}
      /\ \A i \in 1..m : stack'[i] = stack[i]
  BY <1>1, Popped DEF Pop
<1>3. PICK x, w : /\ Under(stack, m, x, effects, entry.tok)
                  /\ HasRead(Top, w, effects, entry.tok, ret)
                  /\ input = x \o w
                  /\ x \in Seq(Tokens) /\ w \in Seq(Tokens)
  BY Telling
<1>4. Linked(stack) /\ input' = (x \o w) \o v /\ v \in Seq(Tokens)
  BY <1>3, Telling DEF Reads
<1> HIDE DEF m
<1>5. Taken(stack, m, x, effects, entry.tok)
  BY <1>2, <1>3, UnderTake
<1>6. PICK y, u : /\ Under(stack, l, y, effects, entry.tok)
                  /\ Begun(stack[m], u, effects, entry.tok) /\ x = y \o u
  BY <1>5 DEF Taken
<1>7. /\ l \in Nat /\ m \in 1..m /\ m \in 1..n - 1 /\ m + 1 = n
      /\ \A i \in 1..l : i \in 1..m /\ i \in 1..n - 1 /\ i + 1 \in 1..m
  BY <1>2 DEF m
<1> HIDE DEF l, t
<1>8. y \in Seq(Tokens) /\ u \in Seq(Tokens)
  BY <1>6, <1>7, UnderTyped DEF Begun
<1>9. Awaits(stack[m]) /\ Wants(stack[m]) = Produces(Top.fn)
  BY <1>4, <1>7, WaitsFor DEF Top
<1>10. Under(stack', l, y, effects', t)
  <2>1. \A i \in 1..l : stack'[i] = stack[i] /\ Awaits(stack[i])
    BY <1>2, <1>4, <1>7, WaitsFor
  <2> QED
    BY <1>6, <1>7, <2>1, UnderSame
<1>11. Top' = stack[m] /\ Len(stack') - 1 = l
  BY <1>2, <1>7 DEF Top, l
<1> DEFINE q == w \o v
<1>12. Means(Wants(Top'), q, ret') /\ Begun(Top', u, effects', t) /\ Awaits(Top')
  BY <1>3, <1>6, <1>9, <1>11, WaitsOn DEF t
<1>13. q \in Seq(Tokens) /\ input' = y \o (u \o q)
  <2>1. q \in Seq(Tokens) /\ (x \o w) \o v = x \o q
    BY <1>3, <1>4, Texts, ZenonT(40)
  <2> HIDE DEF q
  <2>2. x \o q = y \o (u \o q)
    BY <1>6, <1>8, <2>1, Texts, SMTT(30)
  <2> QED
    BY <1>4, <2>1, <2>2
<1> HIDE DEF q
<1>14. HasRead(Top', u \o q, effects', t, ret')
  BY <1>12 DEF HasRead
<1>15. Told'
  BY <1>10, <1>11, <1>13, <1>14 DEF Told, t
<1>16. Linked(stack')
  <2> SUFFICES ASSUME NEW i \in 1..l
               PROVE  Awaits(stack'[i]) /\ Wants(stack'[i]) = Produces(stack'[i + 1].fn)
    BY <1>2, <1>7 DEF Linked, l
  <2>1. stack'[i] = stack[i] /\ stack'[i + 1] = stack[i + 1] /\ i \in 1..Len(stack) - 1
    BY <1>2, <1>7
  <2> QED
    BY <1>4, <2>1, WaitsFor
<1> QED
  BY <1>15, <1>16 DEF MeantInv, EffectsAreMeant, Reads

(* The whole input has been read by a function that nothing has called.    *)
LEMMA RootReads ==
  ASSUME IInv, MeantInv, status = "running", Top.fn \notin Inner
  PROVE  HasRead(Top, input, effects, entry.tok, ret) /\ Len(stack) = 1
<1>1. Len(stack) = 1
  BY TopFacts
<1>2. PICK x, w : /\ Under(stack, Len(stack) - 1, x, effects, entry.tok)
                  /\ HasRead(Top, w, effects, entry.tok, ret)
                  /\ input = x \o w
                  /\ x \in Seq(Tokens) /\ w \in Seq(Tokens)
  BY Telling
<1>3. Under(stack, 0, x, effects, entry.tok)
  <2>1. Len(stack) - 1 = 0
    BY <1>1
  <2> QED
    BY <1>2, <2>1
<1>4. x = <<>>
  BY <1>3, UnderNone
<1>5. x \o w = w
  BY <1>2, <1>4, ConcatEmptySeq
<1> QED
  BY <1>1, <1>2, <1>5

(* A step after which the command is not accepted.                         *)
LEMMA EndTells ==
  ASSUME Lengths', status' \in {"failed", "mismatch", "assertion"}
  PROVE  MeantInv'
BY DEF MeantInv, EffectsAreMeant

LEMMA FailTells ==
  ASSUME MeantInv, Fail
  PROVE  MeantInv'
BY EndTells DEF Fail, MeantInv, Lengths, lexVars

LEMMA ErrorTells ==
  ASSUME IInv, MeantInv, SemanticError, UNCHANGED lexVars \/ \E tok : Match(tok)
  PROVE  MeantInv'
<1>1. Lengths'
  BY MatchReads, NothingRead DEF IInv, MeantInv, Reads
<1> QED
  BY <1>1, EndTells DEF SemanticError

(* A value is where info says, with the type and value of a phrase.        *)
IsPhrase(p) == \E x, y, z : p = Phrase(x, y, z)
LEMMA MeansPhrase ==
  ASSUME NEW p, IsPhrase(p), NEW kind, IsA(kind, p), NEW info,
         info.type = p.type, info.value = p.value
  PROVE  Means(kind, p.tokens, info)
<1>1. PICK x, y, z : p = Phrase(x, y, z)
  BY DEF IsPhrase
<1>2. p.tokens = x /\ p.type = y /\ p.value = z
  BY <1>1, PhraseFields
<1> QED
  BY <1>1, <1>2 DEF Means

(* The phrase of what has been read and of the value it has left.          *)
PhraseFor(q, info) == Phrase(q, info.type, info.value)
LEMMA PhraseOf ==
  ASSUME NEW kind, NEW q, NEW info, Means(kind, q, info)
  PROVE  /\ IsA(kind, PhraseFor(q, info)) /\ PhraseFor(q, info).tokens = q
         /\ PhraseFor(q, info).type = info.type /\ PhraseFor(q, info).value = info.value
         /\ q \in Seq(Tokens)
<1>1. IsA(kind, PhraseFor(q, info)) /\ q \in Seq(Tokens)
  BY MeansTyped DEF PhraseFor, Means
<1> QED
  BY <1>1, PhraseFields DEF PhraseFor

(* A value of a narrow kind is one of the wider kinds.                     *)
LEMMA MeansWider ==
  ASSUME NEW q, NEW info
  PROVE  /\ Means("factor", q, info) => Means("term", q, info)
         /\ Means("term", q, info) => Means("sum", q, info)
         /\ Means("sum", q, info) => Means("exp", q, info)
BY IsWider DEF Means

(* Sequences of one token, and of two.                                     *)
LEMMA Single ==
  ASSUME NEW t \in Tokens
  PROVE  <<t>> \in Seq(Tokens) /\ <<>> \o <<t>> = <<t>>
BY ConcatEmptySeq

LEMMA ElementsTyped ==
  /\ \A t : <<t>> \in Seq(Tokens) => t \in Tokens
  /\ \A t, u : <<t, u>> \in Seq(Tokens) => t \in Tokens /\ u \in Tokens
<1>1. ASSUME NEW t, <<t>> \in Seq(Tokens) PROVE t \in Tokens
  <2>1. Len(<<t>>) = 1 /\ <<t>>[1] = t
    OBVIOUS
  <2> QED
    BY <1>1, <2>1, ElementOfSeq
<1>2. ASSUME NEW t, NEW u, <<t, u>> \in Seq(Tokens) PROVE t \in Tokens /\ u \in Tokens
  <2>1. Len(<<t, u>>) = 2 /\ <<t, u>>[1] = t /\ <<t, u>>[2] = u
    OBVIOUS
  <2> DEFINE s == <<t, u>>
  <2> HIDE DEF s
  <2>2. s \in Seq(Tokens) /\ Len(s) = 2 /\ s[1] = t /\ s[2] = u
    BY <1>2, <2>1 DEF s
  <2>3. s[1] \in Tokens /\ s[2] \in Tokens
    BY <2>2, ElementOfSeq
  <2> QED
    BY <2>2, <2>3
<1> QED
  BY <1>1, <1>2

LEMMA PairOf ==
  ASSUME NEW t \in Tokens, NEW u \in Tokens
  PROVE  <<t>> \o <<u>> = <<t, u>>
BY Joined, Zenon

(* What a function has read, by its name.                                  *)
LEMMA BegunIs ==
  ASSUME NEW f, NEW w, NEW e, NEW t
  PROVE  /\ f.fn = "f" => (Begun(f, w, e, t) <=> w \in Seq(Tokens) /\ FactorBegun(f, w))
         /\ f.fn \in Loops =>
              (Begun(f, w, e, t) <=> w \in Seq(Tokens) /\ LoopBegun(f, w))
         /\ f.fn = "exp" => (Begun(f, w, e, t) <=> w \in Seq(Tokens) /\ ExpBegun(f, w))
         /\ f.fn = "paren" =>
              (Begun(f, w, e, t) <=> w \in Seq(Tokens) /\ ParenBegun(f, w, e))
         /\ f.fn = "write" =>
              (Begun(f, w, e, t) <=> w \in Seq(Tokens) /\ WriteBegun(f, w, e, t))
         /\ f.fn = "readln" =>
              (Begun(f, w, e, t) <=> w \in Seq(Tokens) /\ ReadBegun(f, w, e))
         /\ f.fn = "attr" =>
              (Begun(f, w, e, t) <=> w \in Seq(Tokens) /\ AttrBegun(f, w, e))
<1>1. f.fn = "f" => (Begun(f, w, e, t) <=> w \in Seq(Tokens) /\ FactorBegun(f, w))
  BY DEF Begun, Loops
<1>2. f.fn \in Loops => (Begun(f, w, e, t) <=> w \in Seq(Tokens) /\ LoopBegun(f, w))
  BY DEF Begun, Loops
<1>3. f.fn = "exp" => (Begun(f, w, e, t) <=> w \in Seq(Tokens) /\ ExpBegun(f, w))
  BY DEF Begun, Loops
<1>4. f.fn = "paren" => (Begun(f, w, e, t) <=> w \in Seq(Tokens) /\ ParenBegun(f, w, e))
  BY DEF Begun, Loops
<1>5. f.fn = "write" =>
        (Begun(f, w, e, t) <=> w \in Seq(Tokens) /\ WriteBegun(f, w, e, t))
  BY DEF Begun, Loops
<1>6. f.fn = "readln" => (Begun(f, w, e, t) <=> w \in Seq(Tokens) /\ ReadBegun(f, w, e))
  BY DEF Begun, Loops
<1>7. f.fn = "attr" => (Begun(f, w, e, t) <=> w \in Seq(Tokens) /\ AttrBegun(f, w, e))
  BY DEF Begun, Loops
<1> QED
  BY <1>1, <1>2, <1>3, <1>4, <1>5, <1>6, <1>7

(* A token is taken, and the function goes on or calls another.            *)
LEMMA TakeTells ==
  ASSUME IInv, MeantInv, status = "running", NEW tok, NEW f, Take(tok, Resume(f)),
         f.fn = Top.fn,
         \A w, u : HasRead(Top, w, effects, entry.tok, ret) /\ entry.tok = tok
                     => HasRead(f, w \o <<entry>>, effects, u, ret)
  PROVE  MeantInv'
<1>1. CASE Fail
  BY <1>1, FailTells
<1>2. CASE Match(tok) /\ stack' = Resume(f) /\ UNCHANGED <<ret, status, genVars>>
  <2>1. Reads(<<entry>>) /\ entry.tok = tok
    BY <1>2, MatchReads DEF IInv, MeantInv
  <2>2. status' = status /\ ret' = ret /\ effects' = effects /\ stack' = Resume(f)
    BY <1>2 DEF genVars
  <2>3. \A w : HasRead(Top, w, effects, entry.tok, ret)
                 => HasRead(f, w \o <<entry>>, effects', entry'.tok, ret')
    BY <2>1, <2>2
  <2> QED
    BY <2>1, <2>2, <2>3, ResumeTells
<1> QED
  BY <1>1, <1>2 DEF Take

LEMMA TakeCallTells ==
  ASSUME IInv, MeantInv, status = "running", NEW tok, NEW f, NEW c \in Calls,
         Take(tok, Resume(f) \o c), f.fn = Top.fn,
         Awaits(f), Wants(f) = Produces(c[1].fn),
         \A w, u : HasRead(Top, w, effects, entry.tok, ret) /\ entry.tok = tok
                     => Begun(f, w \o <<entry>>, effects, u)
  PROVE  MeantInv'
<1>1. CASE Fail
  BY <1>1, FailTells
<1>2. CASE /\ Match(tok) /\ stack' = Resume(f) \o c
           /\ UNCHANGED <<ret, status, genVars>>
  <2>1. Reads(<<entry>>) /\ entry.tok = tok
    BY <1>2, MatchReads DEF IInv, MeantInv
  <2>2. /\ status' = status /\ effects' = effects
        /\ stack' = Resume(f) \o c
    BY <1>2 DEF genVars
  <2>3. \A w : HasRead(Top, w, effects, entry.tok, ret)
                 => Begun(f, w \o <<entry>>, effects, entry'.tok)
    BY <2>1
  <2> QED
    BY <2>1, <2>2, <2>3, CallTells
<1> QED
  BY <1>1, <1>2 DEF Take

(* What a call is for.                                                     *)
LEMMA CallKinds ==
  /\ Produces(CallF[1].fn) = "factor" /\ Produces(CallT[1].fn) = "term"
  /\ Produces(CallExps[1].fn) = "sum" /\ Produces(CallExp[1].fn) = "exp"
  /\ CallF \in Calls /\ CallT \in Calls /\ CallExps \in Calls /\ CallExp \in Calls
<1> DEFINE f == Frame("f", "start")
           p == Frame("t", "first")
           s == Frame("exps", "sign")
           x == Frame("exp", "left")
<1>1. f.fn = "f" /\ p.fn = "t" /\ s.fn = "exps" /\ x.fn = "exp"
  BY FrameFacts
<1> HIDE DEF f, p, s, x
<1>2. CallF = <<f>> /\ CallExps = <<s>> /\ CallT = <<p, f>> /\ CallExp = <<x, s>>
  <2>1. CallF = <<f>> /\ CallExps = <<s>>
    BY DEF CallF, CallExps, f, s
  <2>2. CallT = <<p>> \o <<f>> /\ CallExp = <<x>> \o <<s>>
    BY <2>1 DEF CallT, CallExp, p, x
  <2> QED
    BY <2>1, <2>2, Joined
<1>3. CallF[1].fn = "f" /\ CallT[1].fn = "t" /\ CallExps[1].fn = "exps"
      /\ CallExp[1].fn = "exp"
  BY <1>1, <1>2
<1>4. CallF \in Calls /\ CallT \in Calls /\ CallExps \in Calls /\ CallExp \in Calls
  BY Zenon DEF Calls
<1> QED
  BY <1>3, <1>4 DEF Produces

(* A function that waits for no value has read its own tokens only, ...    *)
LEMMA OwnTokens ==
  ASSUME NEW f, NEW w, NEW e, NEW t, NEW r, HasRead(f, w, e, t, r)
  PROVE  /\ ~Awaits(f) => Begun(f, w, e, t)
         /\ Awaits(f) => \E b, q : Begun(f, b, e, t) /\ Means(Wants(f), q, r) /\ w = b \o q
BY DEF HasRead

(* ...and what it has noted is as it was, but for where it goes on.        *)
LEMMA TopMoved ==
  ASSUME IInv, status = "running", NEW at
  PROVE  LET f == [Top EXCEPT !.at = at]
         IN /\ f.fn = Top.fn /\ f.at = at /\ f.op = Top.op /\ f.left = Top.left
            /\ f.symbol = Top.symbol
<1>1. DOMAIN Top = FrameFields
  BY TopFacts DEF FrameOK
<1> QED
  BY <1>1, AtChanges DEF Changed

-----------------------------------------------------------------------------
(* syntatic_f                                                              *)

LEMMA ConstantTells == ASSUME IInv, MeantInv, Constant PROVE MeantInv'
<1>1. CASE Fail
  BY <1>1, FailTells
<1> DEFINE p == AddTmp(gen, entry)
<1>2. CASE Match("constant") /\ gen' = p.gen /\ Return(p.info) /\ UNCHANGED effects
  <2>1. /\ status = "running" /\ Top.fn = "f" /\ Top.at = "start"
        /\ entry \in Literals /\ entry \in Tokens
    BY TokenKinds DEF Constant, At, IInv, LexInv
  <2>2. Reads(<<entry>>)
    BY <1>2, MatchReads DEF IInv, MeantInv
  <2>3. p.info.type = entry.type /\ p.info.value = Leaf(entry)
    BY AddTmpMeans
  <2> HIDE DEF p
  <2>4. stack' = Pop /\ status' = status /\ ret' = p.info /\ effects' = effects
    BY <1>2 DEF Return
  <2>5. Means("factor", <<entry>>, ret')
    BY <2>1, <2>3, <2>4, IsAtom DEF Means
  <2>6. ASSUME NEW w, HasRead(Top, w, effects, entry.tok, ret)
        PROVE  Means(Produces(Top.fn), w \o <<entry>>, ret')
    <3>1. w = <<>>
      BY <2>1, <2>6, OwnTokens, BegunIs DEF Awaits, FactorBegun
    <3> QED
      BY <2>1, <2>5, <3>1, Single DEF Produces
  <2> QED
    BY <2>1, <2>2, <2>4, <2>6, ReturnTells DEF Inner
<1> QED
  BY <1>1, <1>2 DEF Constant

LEMMA IdentifierTells == ASSUME IInv, MeantInv, Identifier PROVE MeantInv'
<1>1. CASE Fail
  BY <1>1, FailTells
<1>2. CASE Match("identifier")
  <2>1. Reads(<<entry>>)
    BY <1>2, MatchReads DEF IInv, MeantInv
  <2>2. CASE SemanticError
    BY <1>2, <2>2, ErrorTells
  <2> DEFINE f == [Top EXCEPT !.at = "id", !.symbol = entry]
  <2>3. CASE stack' = Resume(f) /\ UNCHANGED <<ret, status, genVars>>
    <3>1. /\ status = "running" /\ Top.fn = "f" /\ Top.at = "start" /\ entry \in Tokens
          /\ status' = status /\ effects' = effects /\ stack' = Resume(f)
      BY <2>3 DEF Identifier, At, IInv, LexInv, genVars
    <3>2. f.fn = Top.fn /\ f.at = "id" /\ f.symbol = entry
      <4>1. DOMAIN Top = FrameFields
        BY <3>1, TopFacts DEF FrameOK
      <4> QED
        BY <4>1 DEF FrameFields
    <3> HIDE DEF f
    <3>3. ASSUME NEW w, HasRead(Top, w, effects, entry.tok, ret)
          PROVE  HasRead(f, w \o <<entry>>, effects', entry'.tok, ret')
      <4>1. w = <<>>
        BY <3>1, <3>3, OwnTokens, BegunIs DEF Awaits, FactorBegun
      <4>2. w \o <<entry>> = <<f.symbol>> /\ <<entry>> \in Seq(Tokens)
        BY <3>1, <3>2, <4>1, Single
      <4>3. FactorBegun(f, w \o <<entry>>) /\ ~Awaits(f)
        BY <3>2, <4>2 DEF FactorBegun, Awaits
      <4>4. Begun(f, w \o <<entry>>, effects', entry'.tok)
        BY <3>1, <3>2, <4>2, <4>3, BegunIs
      <4> QED
        BY <4>3, <4>4 DEF HasRead
    <3> QED
      BY <2>1, <3>1, <3>2, <3>3, ResumeTells
  <2> QED
    BY <1>1, <2>2, <2>3 DEF Identifier
<1> QED
  BY <1>1, <1>2 DEF Identifier

LEMMA IdentifierValueTells == ASSUME IInv, MeantInv, IdentifierValue PROVE MeantInv'
<1>1. /\ status = "running" /\ Top.fn = "f" /\ Top.at = "id"
      /\ stack' = Pop /\ ret' = InfoOf(Top.symbol) /\ status' = status
      /\ UNCHANGED lexVars /\ effects' = effects
  BY DEF IdentifierValue, At, Back, Return, genVars
<1>2. Top.symbol \in Symbols
  BY <1>1, TopFacts DEF FrameOK
<1>3. Reads(<<>>)
  BY <1>1, NothingRead DEF IInv, MeantInv
<1>4. Means("factor", <<Top.symbol>>, ret')
  <2>1. IsA("factor", Phrase(<<Top.symbol>>, Top.symbol.type, Leaf(Top.symbol)))
    BY <1>2, IsAtom
  <2>2. ret'.type = Top.symbol.type /\ ret'.value = Leaf(Top.symbol)
    BY <1>1, InfoMeans
  <2> QED
    BY <2>1, <2>2 DEF Means
<1>5. ASSUME NEW w, HasRead(Top, w, effects, entry.tok, ret)
      PROVE  Means(Produces(Top.fn), w \o <<>>, ret')
  <2>1. w = <<Top.symbol>> /\ w \in Seq(Tokens)
    BY <1>1, <1>5, OwnTokens, BegunIs DEF Awaits, FactorBegun
  <2> QED
    BY <1>1, <1>4, <2>1, NoMore DEF Produces
<1> QED
  BY <1>1, <1>3, <1>5, ReturnTells DEF Inner

LEMMA IndexStartTells == ASSUME IInv, MeantInv, IndexStart PROVE MeantInv'
<1>1. CASE Fail
  BY <1>1, FailTells
<1>2. CASE Match("[")
  <2>1. Reads(<<entry>>) /\ entry.tok = "["
    BY <1>2, MatchReads DEF IInv, MeantInv
  <2>2. CASE SemanticError
    BY <1>2, <2>2, ErrorTells
  <2> DEFINE f == [Top EXCEPT !.at = "]"]
  <2>3. CASE /\ Top.symbol.type = "string"
             /\ stack' = GoOn("]") \o CallExp /\ UNCHANGED <<ret, status, genVars>>
    <3>1. /\ status = "running" /\ Top.fn = "f" /\ Top.at = "id"
          /\ status' = status /\ effects' = effects /\ entry \in Tokens
          /\ stack' = Resume(f) \o CallExp
      BY <2>3 DEF IndexStart, At, IInv, LexInv, genVars, GoOn
    <3>2. Top.symbol \in Symbols
      BY <3>1, TopFacts DEF FrameOK
    <3>3. f.fn = "f" /\ f.at = "]" /\ f.symbol = Top.symbol
      BY <3>1, TopMoved
    <3>4. entry = Plain("[")
      BY <2>1, <3>1, PlainToken
    <3> HIDE DEF f
    <3>5. Awaits(f) /\ Wants(f) = Produces(CallExp[1].fn) /\ CallExp \in Calls
      BY <3>3, CallKinds DEF Awaits, Wants
    <3>6. ASSUME NEW w, HasRead(Top, w, effects, entry.tok, ret)
          PROVE  Begun(f, w \o <<entry>>, effects, entry'.tok)
      <4>1. w = <<Top.symbol>> /\ w \in Seq(Tokens)
        BY <3>1, <3>6, OwnTokens, BegunIs DEF Awaits, FactorBegun
      <4>2. w \o <<entry>> = <<f.symbol, Plain("[")>> /\ w \o <<entry>> \in Seq(Tokens)
        <5>1. Top.symbol \in Tokens
          BY <3>2, Words
        <5> QED
          BY <3>1, <3>3, <3>4, <4>1, <5>1, PairOf, Single, Texts
      <4>3. FactorBegun(f, w \o <<entry>>)
        BY <2>3, <3>2, <3>3, <4>2 DEF FactorBegun
      <4> QED
        BY <3>3, <4>2, <4>3, BegunIs
    <3> QED
      BY <2>1, <3>1, <3>3, <3>5, <3>6, CallTells
  <2> QED
    BY <1>1, <2>2, <2>3 DEF IndexStart
<1> QED
  BY <1>1, <1>2 DEF IndexStart

(* What has been read of a factor that waits for a value.                  *)
LEMMA WaitingFactor ==
  ASSUME NEW f, f.fn = "f", f.at \in {"]", "not", ")", "convert)"},
         NEW w, NEW e, NEW t, NEW r, HasRead(f, w, e, t, r)
  PROVE  \E b, q : /\ FactorBegun(f, b) /\ w = b \o q /\ b \in Seq(Tokens)
                   /\ Means(IF f.at = "not" THEN "factor" ELSE "exp", q, r)
<1>1. Awaits(f) /\ Wants(f) = IF f.at = "not" THEN "factor" ELSE "exp"
  BY DEF Awaits, Wants
<1>2. PICK b, q : Begun(f, b, e, t) /\ Means(Wants(f), q, r) /\ w = b \o q
  BY <1>1, OwnTokens
<1> QED
  BY <1>1, <1>2, BegunIs

LEMMA IndexEndTells == ASSUME IInv, MeantInv, IndexEnd PROVE MeantInv'
<1>1. CASE Fail
  BY <1>1, FailTells
<1>2. CASE SemanticError /\ UNCHANGED lexVars
  BY <1>2, ErrorTells
<1> DEFINE p == MoveIdxToTmp(gen, Top.symbol, ret)
<1>3. CASE /\ ret.type = "int" /\ Match("]") /\ gen' = p.gen /\ Return(p.info)
           /\ UNCHANGED effects
  <2>1. /\ status = "running" /\ Top.fn = "f" /\ Top.at = "]" /\ entry \in Tokens
    BY DEF IndexEnd, At, IInv, LexInv
  <2>2. Reads(<<entry>>) /\ entry = Plain("]")
    <3>1. Reads(<<entry>>) /\ entry.tok = "]"
      BY <1>3, MatchReads DEF IInv, MeantInv
    <3> QED
      BY <2>1, <3>1, PlainToken
  <2>3. InPlace(gen, ret) /\ MemPart(gen) = Static
    BY <2>1, TopFacts DEF Awaits, Inner
  <2>4. ASSUME Top.symbol \in Symbols, Top.symbol.type = "string"
        PROVE  /\ p.info.type = "char"
               /\ p.info.value = Term("at", "char", <<Leaf(Top.symbol), ret.value>>)
    BY <1>3, <2>3, <2>4, MoveMeans
  <2> HIDE DEF p
  <2>5. stack' = Pop /\ status' = status /\ ret' = p.info /\ effects' = effects
    BY <1>3 DEF Return
  <2>6. ASSUME NEW w, HasRead(Top, w, effects, entry.tok, ret)
        PROVE  Means(Produces(Top.fn), w \o <<entry>>, ret')
    <3>1. PICK b, q : /\ FactorBegun(Top, b) /\ w = b \o q /\ b \in Seq(Tokens)
                      /\ Means("exp", q, ret)
      BY <2>1, <2>6, WaitingFactor
    <3>2. /\ Top.symbol \in Symbols /\ Top.symbol.type = "string"
          /\ b = <<Top.symbol, Plain("[")>>
      BY <2>1, <3>1 DEF FactorBegun
    <3> DEFINE a == PhraseFor(q, ret)
               x == Indexed(Top.symbol, a)
    <3>3. IsA("exp", a) /\ a.tokens = q /\ a.type = "int" /\ a.value = ret.value
      BY <1>3, <3>1, PhraseOf
    <3>4. Plain("[") \in Tokens /\ Plain("]") \in Tokens
      BY <2>1, <2>2, <3>1, <3>2, ElementsTyped
    <3> HIDE DEF a
    <3>5. IsA("factor", x)
      BY <3>2, <3>3, <3>4, IsIndexed
    <3>6. x = Phrase(w \o <<entry>>, "char",
                     Term("at", "char", <<Leaf(Top.symbol), ret.value>>))
      BY <2>2, <3>1, <3>2, <3>3 DEF Indexed, Within
    <3>7. Means("factor", w \o <<entry>>, ret')
      BY <2>4, <2>5, <3>2, <3>5, <3>6 DEF Means
    <3> QED
      BY <2>1, <3>7 DEF Produces
  <2> QED
    BY <2>1, <2>2, <2>5, <2>6, ReturnTells DEF Inner
<1> QED
  BY <1>1, <1>2, <1>3 DEF IndexEnd

(* A factor that begins with one token and calls.                          *)
LEMMA BeginTells ==
  ASSUME IInv, MeantInv, At("f", "start"),
         NEW at \in {"not", ")"}, NEW tok, tok = (IF at = "not" THEN "not" ELSE "("),
         Take(tok, GoOn(at) \o (IF at = "not" THEN CallF ELSE CallExp))
  PROVE  MeantInv'
<1> DEFINE f == [Top EXCEPT !.at = at]
           c == IF at = "not" THEN CallF ELSE CallExp
<1>1. status = "running" /\ Top.fn = "f" /\ Top.at = "start" /\ entry \in Tokens
  BY DEF At, IInv, LexInv
<1>2. f.fn = "f" /\ f.at = at
  BY <1>1, TopMoved
<1>3. Take(tok, Resume(f) \o c)
  BY DEF GoOn
<1> HIDE DEF f
<1>4. Awaits(f) /\ Wants(f) = Produces(c[1].fn) /\ c \in Calls
  BY <1>2, CallKinds DEF Awaits, Wants
<1> HIDE DEF c
<1>5. ASSUME NEW w, NEW u, HasRead(Top, w, effects, entry.tok, ret), entry.tok = tok
      PROVE  Begun(f, w \o <<entry>>, effects, u)
  <2>1. w = <<>>
    BY <1>1, <1>5, OwnTokens, BegunIs DEF Awaits, FactorBegun
  <2>2. entry = Plain(tok)
    BY <1>1, <1>5, PlainToken
  <2>3. w \o <<entry>> = <<Plain(tok)>> /\ w \o <<entry>> \in Seq(Tokens)
    BY <1>1, <2>1, <2>2, Single
  <2>4. FactorBegun(f, w \o <<entry>>)
    BY <1>2, <2>3 DEF FactorBegun
  <2> QED
    BY <1>2, <2>3, <2>4, BegunIs
<1> QED
  BY <1>1, <1>2, <1>3, <1>4, <1>5, TakeCallTells

LEMMA NotTells == ASSUME IInv, MeantInv, Not PROVE MeantInv'
<1>1. At("f", "start") /\ Take("not", GoOn("not") \o CallF)
  BY DEF Not
<1> QED
  BY <1>1, BeginTells

LEMMA ParenthesisTells == ASSUME IInv, MeantInv, Parenthesis PROVE MeantInv'
<1>1. At("f", "start") /\ Take("(", GoOn(")") \o CallExp)
  BY DEF Parenthesis
<1> QED
  BY <1>1, BeginTells

LEMMA NotEndTells == ASSUME IInv, MeantInv, NotEnd PROVE MeantInv'
<1>1. status = "running" /\ Top.fn = "f" /\ Top.at = "not" /\ UNCHANGED lexVars
  BY DEF NotEnd, At
<1>2. CASE SemanticError
  BY <1>1, <1>2, ErrorTells
<1> DEFINE p == LogicNegate(gen, ret)
<1>3. CASE ret.type = "logic" /\ gen' = p.gen /\ Return(p.info) /\ UNCHANGED effects
  <2>1. Reads(<<>>)
    BY <1>1, NothingRead DEF IInv, MeantInv
  <2>2. InPlace(gen, ret)
    BY <1>1, TopFacts DEF Awaits
  <2>3. p.info.type = "logic" /\ p.info.value = Term("not", "logic", <<ret.value>>)
    BY <1>3, <2>2, LogicNegateMeans
  <2> HIDE DEF p
  <2>4. stack' = Pop /\ status' = status /\ ret' = p.info /\ effects' = effects
    BY <1>3 DEF Return
  <2>5. ASSUME NEW w, HasRead(Top, w, effects, entry.tok, ret)
        PROVE  Means(Produces(Top.fn), w \o <<>>, ret')
    <3>1. PICK b, q : /\ FactorBegun(Top, b) /\ w = b \o q /\ b \in Seq(Tokens)
                      /\ Means("factor", q, ret)
      BY <1>1, <2>5, WaitingFactor
    <3>2. b = <<Plain("not")>> /\ Plain("not") \in Tokens
      BY <1>1, <3>1, ElementsTyped DEF FactorBegun
    <3> DEFINE a == PhraseFor(q, ret)
    <3>3. IsA("factor", a) /\ a.tokens = q /\ a.type = "logic" /\ a.value = ret.value
      BY <1>3, <3>1, PhraseOf
    <3> HIDE DEF a
    <3>4. IsA("factor", Phrase(w, "logic", Term("not", "logic", <<ret.value>>)))
      BY <3>1, <3>2, <3>3, IsNot
    <3>5. Means("factor", w, ret')
      BY <2>3, <2>4, <3>4 DEF Means
    <3> QED
      BY <1>1, <2>5, <3>5, NoMore, HasReadTyped DEF Produces
  <2> QED
    BY <1>1, <2>1, <2>4, <2>5, ReturnTells DEF Inner
<1> QED
  BY <1>2, <1>3 DEF NotEnd

LEMMA ParenthesisEndTells == ASSUME IInv, MeantInv, ParenthesisEnd PROVE MeantInv'
<1>1. CASE Fail
  BY <1>1, FailTells
<1>2. CASE Match(")") /\ Return(ret) /\ UNCHANGED genVars
  <2>1. status = "running" /\ Top.fn = "f" /\ Top.at = ")" /\ entry \in Tokens
    BY DEF ParenthesisEnd, At, IInv, LexInv
  <2>2. Reads(<<entry>>) /\ entry = Plain(")")
    <3>1. Reads(<<entry>>) /\ entry.tok = ")"
      BY <1>2, MatchReads DEF IInv, MeantInv
    <3> QED
      BY <2>1, <3>1, PlainToken
  <2>3. stack' = Pop /\ status' = status /\ ret' = ret /\ effects' = effects
    BY <1>2 DEF Return, genVars
  <2>4. ASSUME NEW w, HasRead(Top, w, effects, entry.tok, ret)
        PROVE  Means(Produces(Top.fn), w \o <<entry>>, ret')
    <3>1. PICK b, q : /\ FactorBegun(Top, b) /\ w = b \o q /\ b \in Seq(Tokens)
                      /\ Means("exp", q, ret)
      BY <2>1, <2>4, WaitingFactor
    <3>2. b = <<Plain("(")>> /\ Plain("(") \in Tokens /\ Plain(")") \in Tokens
      BY <2>1, <2>2, <3>1, ElementsTyped DEF FactorBegun
    <3> DEFINE a == PhraseFor(q, ret)
               x == Within(<<Plain("(")>>, a, ")", a.type, a.value)
    <3>3. IsA("exp", a) /\ a.tokens = q /\ a.type = ret.type /\ a.value = ret.value
      BY <3>1, PhraseOf
    <3> HIDE DEF a
    <3>4. IsA("factor", x)
      BY <3>2, <3>3, IsEnclosed
    <3>5. x = Phrase(w \o <<entry>>, ret.type, ret.value)
      BY <2>2, <3>1, <3>2, <3>3 DEF Within
    <3>6. Means("factor", w \o <<entry>>, ret')
      BY <2>3, <3>4, <3>5 DEF Means
    <3> QED
      BY <2>1, <3>6 DEF Produces
  <2> QED
    BY <2>1, <2>2, <2>3, <2>4, ReturnTells DEF Inner
<1> QED
  BY <1>1, <1>2 DEF ParenthesisEnd

LEMMA ConversionTells == ASSUME IInv, MeantInv, Conversion PROVE MeantInv'
<1> DEFINE f == [Top EXCEPT !.at = "convert(", !.op = entry.tok]
<1>1. /\ status = "running" /\ Top.fn = "f" /\ Top.at = "start"
      /\ entry.tok \in {"int", "float"} /\ entry \in Tokens
      /\ Take(entry.tok, Resume(f))
  BY DEF Conversion, At, IInv, LexInv
<1>2. f.fn = "f" /\ f.at = "convert(" /\ f.op = entry.tok
  <2>1. DOMAIN Top = FrameFields
    BY <1>1, TopFacts DEF FrameOK
  <2> QED
    BY <1>1, <2>1 DEF FrameFields
<1> HIDE DEF f
<1>3. entry = Plain(f.op)
  BY <1>1, <1>2, PlainToken
<1>4. ASSUME NEW w, NEW u, HasRead(Top, w, effects, entry.tok, ret)
      PROVE  HasRead(f, w \o <<entry>>, effects, u, ret)
  <2>1. w = <<>>
    BY <1>1, <1>4, OwnTokens, BegunIs DEF Awaits, FactorBegun
  <2>2. w \o <<entry>> = <<Plain(f.op)>> /\ w \o <<entry>> \in Seq(Tokens)
    BY <1>1, <1>3, <2>1, Single
  <2>3. FactorBegun(f, w \o <<entry>>) /\ ~Awaits(f)
    BY <1>2, <2>2 DEF FactorBegun, Awaits
  <2>4. Begun(f, w \o <<entry>>, effects, u)
    BY <1>2, <2>2, <2>3, BegunIs
  <2> QED
    BY <2>3, <2>4 DEF HasRead
<1> QED
  BY <1>1, <1>2, <1>4, TakeTells

LEMMA ConversionStartTells == ASSUME IInv, MeantInv, ConversionStart PROVE MeantInv'
<1> DEFINE f == [Top EXCEPT !.at = "convert)"]
<1>1. /\ status = "running" /\ Top.fn = "f" /\ Top.at = "convert(" /\ entry \in Tokens
      /\ Take("(", Resume(f) \o CallExp)
  BY DEF ConversionStart, At, GoOn, IInv, LexInv
<1>2. f.fn = "f" /\ f.at = "convert)" /\ f.op = Top.op
  BY <1>1, TopMoved
<1> HIDE DEF f
<1>3. Awaits(f) /\ Wants(f) = Produces(CallExp[1].fn) /\ CallExp \in Calls
  BY <1>2, CallKinds DEF Awaits, Wants
<1>4. ASSUME NEW w, NEW u, HasRead(Top, w, effects, entry.tok, ret), entry.tok = "("
      PROVE  Begun(f, w \o <<entry>>, effects, u)
  <2>1. w = <<Plain(Top.op)>> /\ w \in Seq(Tokens)
    BY <1>1, <1>4, OwnTokens, BegunIs DEF Awaits, FactorBegun
  <2>2. entry = Plain("(") /\ Plain(Top.op) \in Tokens
    BY <1>1, <1>4, <2>1, PlainToken, ElementsTyped
  <2>3. w \o <<entry>> = <<Plain(f.op), Plain("(")>> /\ w \o <<entry>> \in Seq(Tokens)
    BY <1>1, <1>2, <2>1, <2>2, PairOf, Single, Texts
  <2>4. FactorBegun(f, w \o <<entry>>)
    BY <1>2, <2>3 DEF FactorBegun
  <2> QED
    BY <1>2, <2>3, <2>4, BegunIs
<1> QED
  BY <1>1, <1>2, <1>3, <1>4, TakeCallTells

LEMMA ConversionEndTells == ASSUME IInv, MeantInv, ConversionEnd PROVE MeantInv'
<1>1. CASE Fail
  BY <1>1, FailTells
<1>2. CASE SemanticError /\ UNCHANGED lexVars
  BY <1>2, ErrorTells
<1> DEFINE p == Convert(gen, ret, Top.op)
<1>3. CASE /\ ret.type = (IF Top.op = "int" THEN "float" ELSE "int")
           /\ Match(")") /\ gen' = p.gen /\ Return(p.info) /\ UNCHANGED effects
  <2>1. status = "running" /\ Top.fn = "f" /\ Top.at = "convert)" /\ entry \in Tokens
    BY DEF ConversionEnd, At, IInv, LexInv
  <2>2. Reads(<<entry>>) /\ entry = Plain(")")
    <3>1. Reads(<<entry>>) /\ entry.tok = ")"
      BY <1>3, MatchReads DEF IInv, MeantInv
    <3> QED
      BY <2>1, <3>1, PlainToken
  <2>3. InPlace(gen, ret) /\ Top.op \in {"int", "float"}
    BY <2>1, TopFacts DEF Awaits, FrameOK
  <2>4. p.info.type = Top.op /\ p.info.value = Term(Top.op, Top.op, <<ret.value>>)
    <3>1. ret.type \in Numeric
      BY <1>3 DEF Numeric
    <3> QED
      BY <2>3, <3>1, ConvertMeans
  <2> HIDE DEF p
  <2>5. stack' = Pop /\ status' = status /\ ret' = p.info /\ effects' = effects
    BY <1>3 DEF Return
  <2>6. ASSUME NEW w, HasRead(Top, w, effects, entry.tok, ret)
        PROVE  Means(Produces(Top.fn), w \o <<entry>>, ret')
    <3>1. PICK b, q : /\ FactorBegun(Top, b) /\ w = b \o q /\ b \in Seq(Tokens)
                      /\ Means("exp", q, ret)
      BY <2>1, <2>6, WaitingFactor
    <3>2. b = <<Plain(Top.op), Plain("(")>>
      BY <2>1, <3>1 DEF FactorBegun
    <3>3. Plain(Top.op) \in Tokens /\ Plain("(") \in Tokens /\ Plain(")") \in Tokens
      BY <2>1, <2>2, <3>1, <3>2, ElementsTyped
    <3> DEFINE a == PhraseFor(q, ret)
               x == Converted(a, Top.op)
    <3>4. IsA("exp", a) /\ a.tokens = q /\ a.type = ret.type /\ a.value = ret.value
      BY <3>1, PhraseOf
    <3> HIDE DEF a
    <3>5. IsA("factor", x)
      BY <1>3, <2>3, <3>3, <3>4, IsConverted
    <3>6. x = Phrase(w \o <<entry>>, Top.op, Term(Top.op, Top.op, <<ret.value>>))
      BY <2>2, <3>1, <3>2, <3>4 DEF Converted, Within
    <3>7. Means("factor", w \o <<entry>>, ret')
      BY <2>4, <2>5, <3>5, <3>6 DEF Means
    <3> QED
      BY <2>1, <3>7 DEF Produces
  <2> QED
    BY <2>1, <2>2, <2>5, <2>6, ReturnTells DEF Inner
<1> QED
  BY <1>1, <1>2, <1>3 DEF ConversionEnd

LEMMA FactorTells == ASSUME IInv, MeantInv, Factor PROVE MeantInv'
BY ConstantTells, IdentifierTells, IdentifierValueTells, IndexStartTells,
   IndexEndTells, NotTells, NotEndTells, ParenthesisTells, ParenthesisEndTells,
   ConversionTells, ConversionStartTells, ConversionEndTells, FailTells
DEF Factor, NoFactor

-----------------------------------------------------------------------------
(* syntatic_exps and syntatic_t                                            *)

(* The sign that syntatic_exps has read, or none.                          *)
SignStep(f, v) ==
  \/ f.op = "none" /\ v = <<>>
  \/ f.op \in Keywords \intersect Signs /\ v = <<Plain(f.op)>>

(* A loop calls for its first operand.                                     *)
LEMMA FirstBegun ==
  ASSUME NEW f, f.fn = "exps", f.at = "first", NEW v \in Seq(Tokens), SignStep(f, v),
         NEW e, NEW t
  PROVE  Begun(f, v, e, t)
<1>1. "none" \notin Signs
  BY DEF Signs
<1>2. LoopBegun(f, v) /\ f.fn \in Loops
  BY <1>1 DEF LoopBegun, SignStep, Loops
<1> QED
  BY <1>2, BegunIs

LEMMA SignTells == ASSUME IInv, MeantInv, Sign PROVE MeantInv'
<1> DEFINE f == [Top EXCEPT !.at = "first", !.op = entry.tok]
<1>1. /\ status = "running" /\ Top.fn = "exps" /\ Top.at = "sign" /\ entry \in Tokens
      /\ entry.tok \in Signs /\ Take(entry.tok, Resume(f) \o CallT)
  BY DEF Sign, At, IInv, LexInv
<1>2. f.fn = "exps" /\ f.at = "first" /\ f.op = entry.tok
  <2>1. DOMAIN Top = FrameFields
    BY <1>1, TopFacts DEF FrameOK
  <2> QED
    BY <1>1, <2>1 DEF FrameFields
<1> HIDE DEF f
<1>3. Awaits(f) /\ Wants(f) = Produces(CallT[1].fn) /\ CallT \in Calls
  BY <1>2, CallKinds DEF Awaits, Wants
<1>4. entry = Plain(entry.tok) /\ entry.tok \in Keywords
  BY <1>1, PlainToken DEF Signs
<1>5. ASSUME NEW w, NEW u, HasRead(Top, w, effects, entry.tok, ret)
      PROVE  Begun(f, w \o <<entry>>, effects, u)
  <2>1. w = <<>>
    BY <1>1, <1>5, OwnTokens, BegunIs DEF Awaits, LoopBegun, Loops
  <2>2. w \o <<entry>> = <<Plain(f.op)>> /\ w \o <<entry>> \in Seq(Tokens)
    BY <1>1, <1>2, <1>4, <2>1, Single
  <2>3. SignStep(f, w \o <<entry>>)
    BY <1>1, <1>2, <1>4, <2>2 DEF SignStep
  <2> QED
    BY <1>2, <2>2, <2>3, FirstBegun
<1> QED
  BY <1>1, <1>2, <1>3, <1>5, TakeCallTells

LEMMA NoSignTells == ASSUME IInv, MeantInv, NoSign PROVE MeantInv'
<1> DEFINE f == [Top EXCEPT !.at = "first"]
<1>1. /\ status = "running" /\ Top.fn = "exps" /\ Top.at = "sign"
      /\ stack' = Resume(f) \o CallT /\ status' = status /\ effects' = effects
      /\ UNCHANGED lexVars
  BY DEF NoSign, At, Step, GoOn, genVars
<1>2. f.fn = "exps" /\ f.at = "first" /\ f.op = Top.op
  BY <1>1, TopMoved
<1> HIDE DEF f
<1>3. Awaits(f) /\ Wants(f) = Produces(CallT[1].fn) /\ CallT \in Calls
  BY <1>2, CallKinds DEF Awaits, Wants
<1>4. Reads(<<>>)
  BY <1>1, NothingRead DEF IInv, MeantInv
<1>5. ASSUME NEW w, HasRead(Top, w, effects, entry.tok, ret)
      PROVE  Begun(f, w \o <<>>, effects, entry'.tok)
  <2>1. w = <<>> /\ Top.op = "none"
    <3>1. ~Awaits(Top) /\ Top.fn \in Loops
      BY <1>1 DEF Awaits, Loops
    <3>2. LoopBegun(Top, w)
      BY <1>5, <3>1, OwnTokens, BegunIs
    <3> QED
      BY <1>1, <3>2 DEF LoopBegun
  <2>2. w \o <<>> = <<>> /\ <<>> \in Seq(Tokens)
    BY <2>1, NoMore, EmptySeq
  <2>3. SignStep(f, w \o <<>>)
    BY <1>2, <2>1, <2>2 DEF SignStep
  <2> QED
    BY <1>2, <2>2, <2>3, FirstBegun
<1> QED
  BY <1>1, <1>2, <1>3, <1>4, <1>5, CallTells

(* A loop goes on with another left operand.                               *)
LoopsWith(info) == stack' = Resume([Top EXCEPT !.at = "loop", !.left = info])
LEMMA LoopTells ==
  ASSUME IInv, MeantInv, status = "running", Top.fn \in Loops,
         status' = status, effects' = effects, UNCHANGED lexVars, NEW info,
         LoopsWith(info),
         \A w : HasRead(Top, w, effects, entry.tok, ret)
                  => Means(Produces(Top.fn), w, info)
  PROVE  MeantInv'
<1> DEFINE f == [Top EXCEPT !.at = "loop", !.left = info]
<1>1. f.fn = Top.fn /\ f.at = "loop" /\ f.left = info
  <2>1. DOMAIN Top = FrameFields
    BY TopFacts DEF FrameOK
  <2> QED
    BY <2>1 DEF FrameFields
<1>2. stack' = Resume(f)
  BY DEF LoopsWith
<1> HIDE DEF f
<1>3. Reads(<<>>)
  BY NothingRead DEF IInv, MeantInv
<1>4. ASSUME NEW w, HasRead(Top, w, effects, entry.tok, ret)
      PROVE  HasRead(f, w \o <<>>, effects', entry'.tok, ret')
  <2>1. w \o <<>> = w /\ w \in Seq(Tokens)
    BY <1>4, NoMore, HasReadTyped
  <2>2. LoopBegun(f, w) /\ ~Awaits(f)
    BY <1>1, <1>4 DEF LoopBegun, Awaits
  <2>3. Begun(f, w, effects', entry'.tok)
    BY <1>1, <2>1, <2>2, BegunIs
  <2> QED
    BY <2>1, <2>2, <2>3 DEF HasRead
<1> QED
  BY <1>1, <1>2, <1>3, <1>4, ResumeTells

(* What has been read of a loop that waits for an operand.                 *)
LEMMA WaitingLoop ==
  ASSUME NEW f, f.fn \in Loops, f.at \in {"first", "operand"},
         NEW w, NEW e, NEW t, NEW r, HasRead(f, w, e, t, r)
  PROVE  \E b, q : /\ LoopBegun(f, b) /\ w = b \o q /\ b \in Seq(Tokens)
                   /\ Means(IF f.fn = "t" THEN "factor" ELSE "term", q, r)
<1>1. Awaits(f) /\ Wants(f) = IF f.fn = "t" THEN "factor" ELSE "term"
  BY DEF Awaits, Wants, Loops
<1>2. PICK b, q : Begun(f, b, e, t) /\ Means(Wants(f), q, r) /\ w = b \o q
  BY <1>1, OwnTokens
<1> QED
  BY <1>1, <1>2, BegunIs

LEMMA FirstTells == ASSUME IInv, MeantInv, NEW fn \in Loops, First(fn) PROVE MeantInv'
<1>1. /\ status = "running" /\ Top.fn = fn /\ Top.fn \in Loops /\ Top.at = "first"
      /\ UNCHANGED lexVars
  BY DEF First, At, Step
<1>2. InPlace(gen, ret)
  BY <1>1, TopFacts DEF Awaits, Loops
<1>3. CASE Top.op = "none" /\ Step(Resume([Top EXCEPT !.at = "loop", !.left = ret]))
  <2>1. ASSUME NEW w, HasRead(Top, w, effects, entry.tok, ret)
        PROVE  Means(Produces(Top.fn), w, ret)
    <3>1. PICK b, q : /\ LoopBegun(Top, b) /\ w = b \o q /\ b \in Seq(Tokens)
                      /\ Means(IF Top.fn = "t" THEN "factor" ELSE "term", q, ret)
      BY <1>1, <2>1, WaitingLoop
    <3>2. b = <<>> /\ q \in Seq(Tokens)
      BY <1>1, <1>3, <3>1, MeansTyped DEF LoopBegun
    <3>3. w = q
      BY <3>1, <3>2, ConcatEmptySeq
    <3> QED
      BY <1>1, <3>1, <3>3, MeansWider DEF Produces, Loops
  <2>2. /\ status' = status /\ effects' = effects
        /\ LoopsWith(ret)
    BY <1>3 DEF Step, genVars, LoopsWith
  <2> QED
    BY <1>1, <2>1, <2>2, LoopTells
<1>4. CASE SemanticError
  BY <1>1, <1>4, ErrorTells
<1> DEFINE p == Negate(gen, ret)
<1>5. CASE /\ Top.op # "none" /\ Arithmetic(ret.type)
           /\ stack' = Resume([Top EXCEPT !.at = "loop", !.left = p.info])
           /\ UNCHANGED <<ret, status, effects>>
  <2>1. /\ p.info.type = ret.type
        /\ p.info.value = Term("neg", ret.type, <<ret.value>>)
    <3>1. ret.type \in Numeric
      BY <1>5 DEF Arithmetic, Numeric
    <3> QED
      BY <1>2, <3>1, NegateMeans
  <2> DEFINE i == p.info
  <2>2. /\ status' = status /\ effects' = effects
        /\ LoopsWith(i)
    BY <1>5 DEF LoopsWith
  <2> HIDE DEF p
  <2>3. i.type = ret.type /\ i.value = Term("neg", ret.type, <<ret.value>>)
    BY <2>1
  <2> HIDE DEF i
  <2>4. ASSUME NEW w, HasRead(Top, w, effects, entry.tok, ret)
        PROVE  Means(Produces(Top.fn), w, i)
    <3>1. PICK b, q : /\ LoopBegun(Top, b) /\ w = b \o q /\ b \in Seq(Tokens)
                      /\ Means(IF Top.fn = "t" THEN "factor" ELSE "term", q, ret)
      BY <1>1, <2>4, WaitingLoop
    <3>2. /\ Top.fn = "exps" /\ Top.op \in Keywords \intersect Signs
          /\ b = <<Plain(Top.op)>>
      BY <1>1, <1>5, <3>1 DEF LoopBegun
    <3> DEFINE a == PhraseFor(q, ret)
               x == Signed(a, Top.op)
    <3>3. IsA("term", a) /\ a.tokens = q /\ a.type = ret.type /\ a.value = ret.value
      BY <3>1, <3>2, PhraseOf
    <3>4. ret.type \in Numbers
      BY <1>5 DEF Arithmetic, Numbers
    <3> HIDE DEF a
    <3>5. IsA("sum", x)
      BY <3>2, <3>3, <3>4, IsSigned
    <3>6. x = Phrase(w, ret.type, Term("neg", ret.type, <<ret.value>>))
      BY <3>1, <3>2, <3>3 DEF Signed
    <3> QED
      BY <2>3, <3>2, <3>5, <3>6 DEF Means, Produces
  <2> QED
    BY <1>1, <2>2, <2>4, LoopTells
<1> QED
  BY <1>3, <1>4, <1>5 DEF First

LEMMA OperatorTells ==
  ASSUME IInv, MeantInv, NEW fn \in Loops, Operator(fn)
  PROVE  MeantInv'
<1> DEFINE f == [Top EXCEPT !.at = "operand", !.op = entry.tok]
           c == CalleeOf(fn)
<1>1. /\ status = "running" /\ Top.fn = fn /\ Top.at = "loop" /\ entry \in Tokens
      /\ entry.tok \in OperatorsOf(fn) /\ Take(entry.tok, Resume(f) \o c)
  BY DEF Operator, At, IInv, LexInv
<1>2. f.fn = fn /\ f.at = "operand" /\ f.op = entry.tok /\ f.left = Top.left
  <2>1. DOMAIN Top = FrameFields
    BY <1>1, TopFacts DEF FrameOK
  <2> QED
    BY <1>1, <2>1 DEF FrameFields
<1> HIDE DEF f
<1>3. Awaits(f) /\ Wants(f) = Produces(c[1].fn) /\ c \in Calls
  <2>1. Awaits(f)
    BY <1>2 DEF Awaits, Loops
  <2>2. CASE fn = "exps"
    BY <1>2, <2>1, <2>2, CallKinds DEF Wants, CalleeOf
  <2>3. CASE fn = "t"
    BY <1>2, <2>1, <2>3, CallKinds DEF Wants, CalleeOf
  <2> QED
    BY <2>2, <2>3 DEF Loops
<1> HIDE DEF c
<1>4. entry = Plain(entry.tok) /\ entry.tok \in Keywords
  BY <1>1, PlainToken DEF OperatorsOf, TermOperators, FactorOperators
<1>5. ASSUME NEW w, NEW u, HasRead(Top, w, effects, entry.tok, ret)
      PROVE  Begun(f, w \o <<entry>>, effects, u)
  <2>1. Means(Produces(fn), w, Top.left) /\ w \in Seq(Tokens)
    BY <1>1, <1>5, OwnTokens, BegunIs DEF Awaits, LoopBegun
  <2>2. HasOperator(Produces(fn), f, w \o <<entry>>)
    BY <1>2, <1>4, <2>1 DEF HasOperator
  <2>3. w \o <<entry>> \in Seq(Tokens)
    BY <1>1, <2>1, Single, Texts
  <2>4. LoopBegun(f, w \o <<entry>>)
    BY <1>2, <2>2 DEF LoopBegun
  <2> QED
    BY <1>2, <2>3, <2>4, BegunIs
<1> QED
  BY <1>1, <1>2, <1>3, <1>5, TakeCallTells

(* An operation on both operands that have been read.                      *)
LEMMA JoinsPhrases ==
  ASSUME GenOK(gen), NEW rule \in Rules, NEW op \in rule[2], op \in Keywords,
         NEW left, NEW right, InPlace(gen, left), InPlace(gen, right),
         Accepts(op, left.type, right.type),
         NEW q, Means(rule[1], q, left), NEW r, Means(rule[3], r, right)
  PROVE  Means(rule[4], (q \o <<Plain(op)>>) \o r, Combine(op, left, right).info)
<1> DEFINE a == PhraseFor(q, left)
           b == PhraseFor(r, right)
           x == Join(a, op, b)
           new == Combine(op, left, right).info
<1>1. IsA(rule[1], a) /\ a.tokens = q /\ a.type = left.type /\ a.value = left.value
  BY PhraseOf
<1>2. IsA(rule[3], b) /\ b.tokens = r /\ b.type = right.type /\ b.value = right.value
  BY PhraseOf
<1> HIDE DEF a, b
<1>3. op \in BinaryOperators
  BY DEF Rules, BinaryOperators
<1>4. Joins(op, a.type, b.type) /\ new.type = x.type /\ new.value = x.value
  BY <1>1, <1>2, <1>3, CombineMeans
<1>5. IsA(rule[4], x)
  BY <1>1, <1>2, <1>4, IsOperation
<1>6. x.tokens = (q \o <<Plain(op)>>) \o r
  <2>1. x.tokens = (a.tokens \o <<Plain(op)>>) \o b.tokens
    BY JoinTokens, ZenonT(40)
  <2> HIDE DEF x
  <2> QED
    BY <1>1, <1>2, <2>1
<1>7. IsPhrase(x)
  BY Zenon DEF IsPhrase, Join
<1> HIDE DEF x, new
<1>8. Means(rule[4], x.tokens, new)
  BY <1>4, <1>5, <1>7, MeansPhrase
<1> QED
  BY <1>6, <1>8 DEF new

(* The three kinds of operations.                                          *)
LEMMA RulesAre ==
  /\ <<"term", FactorOperators, "factor", "term">> \in Rules
  /\ <<"sum", TermOperators, "term", "sum">> \in Rules
  /\ <<"sum", Comparisons, "sum", "exp">> \in Rules
BY Zenon DEF Rules

LEMMA OperandTells == ASSUME IInv, MeantInv, NEW fn \in Loops, Operand(fn) PROVE MeantInv'
<1>1. /\ status = "running" /\ Top.fn = fn /\ Top.at = "operand" /\ GenOK(gen)
  BY DEF Operand, At, IInv
<1>2. InPlace(gen, ret) /\ InPlace(gen, Top.left) /\ Top.op \in OperatorsOf(fn)
  <2>1. Awaits(Top) /\ HoldsLeft(Top)
    BY <1>1 DEF Awaits, HoldsLeft, Loops
  <2> QED
    BY <1>1, <2>1, TopFacts DEF FrameOK
<1>3. CASE SemanticError /\ UNCHANGED lexVars
  BY <1>3, ErrorTells
<1> DEFINE i == Combine(Top.op, Top.left, ret).info
<1>4. CASE Accepts(Top.op, Top.left.type, ret.type)
  <2>1. BinaryOK(Top.op, Top.left, ret)
    BY <1>1, <1>2, <1>4, CombineGenerates DEF BinaryOperators, OperatorsOf
  <2>2. /\ LoopsWith(i)
        /\ status' = status /\ effects' = effects /\ UNCHANGED lexVars
    BY <1>4, <2>1 DEF Operand, LoopsWith
  <2>3. ASSUME NEW w, HasRead(Top, w, effects, entry.tok, ret)
        PROVE  Means(Produces(Top.fn), w, i)
    <3>1. PICK b, q : /\ LoopBegun(Top, b) /\ w = b \o q /\ b \in Seq(Tokens)
                      /\ Means(IF Top.fn = "t" THEN "factor" ELSE "term", q, ret)
      BY <1>1, <2>3, WaitingLoop
    <3>2. HasOperator(Produces(fn), Top, b)
      BY <1>1, <3>1 DEF LoopBegun
    <3>3. PICK l : Means(Produces(fn), l, Top.left) /\ b = l \o <<Plain(Top.op)>>
      BY <3>2 DEF HasOperator
    <3>4. Top.op \in Keywords
      BY <3>2 DEF HasOperator
    <3> DEFINE rule == IF fn = "t" THEN <<"term", FactorOperators, "factor", "term">>
                       ELSE <<"sum", TermOperators, "term", "sum">>
    <3>5. /\ rule \in Rules /\ rule[1] = Produces(fn) /\ rule[2] = OperatorsOf(fn)
          /\ rule[3] = (IF fn = "t" THEN "factor" ELSE "term") /\ rule[4] = Produces(fn)
      BY RulesAre DEF Produces, OperatorsOf, Loops
    <3> HIDE DEF rule
    <3>6. Means(rule[4], (l \o <<Plain(Top.op)>>) \o q, i)
      BY <1>1, <1>2, <1>4, <3>1, <3>3, <3>4, <3>5, JoinsPhrases
    <3> QED
      BY <1>1, <3>1, <3>3, <3>5, <3>6
  <2> HIDE DEF i
  <2> QED
    BY <1>1, <2>2, <2>3, LoopTells
<1> QED
  BY <1>3, <1>4 DEF Operand

LEMMA LastOperandTells ==
  ASSUME IInv, MeantInv, NEW fn \in Loops, LastOperand(fn)
  PROVE  MeantInv'
<1>1. /\ status = "running" /\ Top.fn = fn /\ Top.at = "loop"
      /\ stack' = Pop /\ ret' = Top.left /\ status' = status
      /\ UNCHANGED lexVars /\ effects' = effects
  BY DEF LastOperand, At, Back, Return, genVars
<1>2. Reads(<<>>)
  BY <1>1, NothingRead DEF IInv, MeantInv
<1>3. ASSUME NEW w, HasRead(Top, w, effects, entry.tok, ret)
      PROVE  Means(Produces(Top.fn), w \o <<>>, ret')
  <2>1. Means(Produces(fn), w, Top.left) /\ w \in Seq(Tokens)
    BY <1>1, <1>3, OwnTokens, BegunIs DEF Awaits, LoopBegun
  <2> QED
    BY <1>1, <2>1, NoMore
<1> QED
  BY <1>1, <1>2, <1>3, ReturnTells DEF Inner, Loops

LEMMA OperandsTell == ASSUME IInv, MeantInv, Operands PROVE MeantInv'
BY SignTells, NoSignTells, FirstTells, OperatorTells, OperandTells, LastOperandTells
DEF Operands

-----------------------------------------------------------------------------
(* syntatic_exp                                                            *)

(* What has been read of a comparison that waits for a side of it.         *)
LEMMA WaitingExp ==
  ASSUME NEW f, f.fn = "exp", f.at \in {"left", "right"},
         NEW w, NEW e, NEW t, NEW r, HasRead(f, w, e, t, r)
  PROVE  \E b, q : /\ ExpBegun(f, b) /\ w = b \o q /\ b \in Seq(Tokens)
                   /\ Means("sum", q, r)
<1>1. Awaits(f) /\ Wants(f) = "sum"
  BY DEF Awaits, Wants
<1>2. PICK b, q : Begun(f, b, e, t) /\ Means(Wants(f), q, r) /\ w = b \o q
  BY <1>1, OwnTokens
<1> QED
  BY <1>1, <1>2, BegunIs

LEMMA LeftRead ==
  ASSUME NEW f, f.fn = "exp", f.at = "left",
         NEW w, NEW e, NEW t, NEW r, HasRead(f, w, e, t, r)
  PROVE  Means("sum", w, r) /\ w \in Seq(Tokens)
<1>1. PICK b, q : /\ ExpBegun(f, b) /\ w = b \o q /\ b \in Seq(Tokens)
                  /\ Means("sum", q, r)
  BY WaitingExp
<1>2. b = <<>> /\ q \in Seq(Tokens)
  BY <1>1, MeansTyped DEF ExpBegun
<1>3. w = q
  BY <1>1, <1>2, ConcatEmptySeq
<1> QED
  BY <1>1, <1>2, <1>3

LEMMA ComparisonTells == ASSUME IInv, MeantInv, Comparison PROVE MeantInv'
<1> DEFINE f == [Top EXCEPT !.at = "right", !.op = entry.tok, !.left = ret]
<1>1. /\ status = "running" /\ Top.fn = "exp" /\ Top.at = "left" /\ entry \in Tokens
      /\ entry.tok \in Comparisons /\ Take(entry.tok, Resume(f) \o CallExps)
  BY DEF Comparison, At, IInv, LexInv
<1>2. f.fn = "exp" /\ f.at = "right" /\ f.op = entry.tok /\ f.left = ret
  <2>1. DOMAIN Top = FrameFields
    BY <1>1, TopFacts DEF FrameOK
  <2> QED
    BY <1>1, <2>1 DEF FrameFields
<1> HIDE DEF f
<1>3. Awaits(f) /\ Wants(f) = Produces(CallExps[1].fn) /\ CallExps \in Calls
  BY <1>2, CallKinds DEF Awaits, Wants
<1>4. entry = Plain(entry.tok) /\ entry.tok \in Keywords
  BY <1>1, PlainToken DEF Comparisons
<1>5. ASSUME NEW w, NEW u, HasRead(Top, w, effects, entry.tok, ret)
      PROVE  Begun(f, w \o <<entry>>, effects, u)
  <2>1. Means("sum", w, ret) /\ w \in Seq(Tokens)
    BY <1>1, <1>5, LeftRead
  <2>2. HasOperator("sum", f, w \o <<entry>>)
    BY <1>2, <1>4, <2>1 DEF HasOperator
  <2>3. w \o <<entry>> \in Seq(Tokens)
    BY <1>1, <2>1, Single, Texts
  <2>4. ExpBegun(f, w \o <<entry>>)
    BY <1>2, <2>2 DEF ExpBegun
  <2> QED
    BY <1>2, <2>3, <2>4, BegunIs
<1> QED
  BY <1>1, <1>2, <1>3, <1>5, TakeCallTells

LEMMA NoComparisonTells == ASSUME IInv, MeantInv, NoComparison PROVE MeantInv'
<1>1. /\ status = "running" /\ Top.fn = "exp" /\ Top.at = "left"
      /\ stack' = Pop /\ ret' = ret /\ status' = status
      /\ UNCHANGED lexVars /\ effects' = effects
  BY DEF NoComparison, At, Back, Return, genVars
<1>2. Reads(<<>>)
  BY <1>1, NothingRead DEF IInv, MeantInv
<1>3. ASSUME NEW w, HasRead(Top, w, effects, entry.tok, ret)
      PROVE  Means(Produces(Top.fn), w \o <<>>, ret')
  <2>1. Means("exp", w, ret) /\ w \in Seq(Tokens)
    BY <1>1, <1>3, LeftRead, MeansWider
  <2> QED
    BY <1>1, <2>1, NoMore DEF Produces
<1> QED
  BY <1>1, <1>2, <1>3, ReturnTells DEF Inner

LEMMA CompareTells == ASSUME IInv, MeantInv, Compare PROVE MeantInv'
<1>1. /\ status = "running" /\ Top.fn = "exp" /\ Top.at = "right" /\ GenOK(gen)
  BY DEF Compare, At, IInv
<1>2. InPlace(gen, ret) /\ InPlace(gen, Top.left) /\ Top.op \in Comparisons
  <2>1. Awaits(Top) /\ HoldsLeft(Top)
    BY <1>1 DEF Awaits, HoldsLeft
  <2> QED
    BY <1>1, <2>1, TopFacts DEF FrameOK
<1>3. CASE SemanticError /\ UNCHANGED lexVars
  BY <1>3, ErrorTells
<1> DEFINE i == Combine(Top.op, Top.left, ret).info
<1>4. CASE Accepts(Top.op, Top.left.type, ret.type)
  <2>1. BinaryOK(Top.op, Top.left, ret)
    BY <1>1, <1>2, <1>4, CombineGenerates DEF BinaryOperators
  <2>2. /\ stack' = Pop /\ ret' = i
        /\ status' = status /\ effects' = effects /\ UNCHANGED lexVars
    BY <1>4, <2>1 DEF Compare, Return
  <2>3. Reads(<<>>)
    BY <2>2, NothingRead DEF IInv, MeantInv
  <2>4. ASSUME NEW w, HasRead(Top, w, effects, entry.tok, ret)
        PROVE  Means(Produces(Top.fn), w \o <<>>, ret')
    <3>1. PICK b, q : /\ ExpBegun(Top, b) /\ w = b \o q /\ b \in Seq(Tokens)
                      /\ Means("sum", q, ret)
      BY <1>1, <2>4, WaitingExp
    <3>2. HasOperator("sum", Top, b)
      BY <1>1, <3>1 DEF ExpBegun
    <3>3. PICK l : Means("sum", l, Top.left) /\ b = l \o <<Plain(Top.op)>>
      BY <3>2 DEF HasOperator
    <3>4. Top.op \in Keywords
      BY <3>2 DEF HasOperator
    <3> DEFINE rule == <<"sum", Comparisons, "sum", "exp">>
    <3>5. /\ rule \in Rules /\ rule[1] = "sum" /\ rule[2] = Comparisons
          /\ rule[3] = "sum" /\ rule[4] = "exp"
      BY RulesAre
    <3> HIDE DEF rule
    <3>6. Means(rule[4], (l \o <<Plain(Top.op)>>) \o q, i)
      BY <1>1, <1>2, <1>4, <3>1, <3>3, <3>4, <3>5, JoinsPhrases
    <3>7. w \in Seq(Tokens)
      BY <2>4, HasReadTyped
    <3> QED
      BY <1>1, <2>2, <3>1, <3>3, <3>5, <3>6, <3>7, NoMore DEF Produces
  <2> HIDE DEF i
  <2> QED
    BY <1>1, <2>2, <2>3, <2>4, ReturnTells DEF Inner
<1> QED
  BY <1>3, <1>4 DEF Compare

LEMMA ExpressionTells == ASSUME IInv, MeantInv, Expression PROVE MeantInv'
BY ComparisonTells, NoComparisonTells, CompareTells DEF Expression

-----------------------------------------------------------------------------
(* Histories of effects, and sequences of which nothing is known.          *)

LEMMA Sequences ==
  /\ IsSeq(<<>>) /\ \A x : IsSeq(<<x>>)
  /\ \A s, t : IsSeq(s) /\ IsSeq(t) => IsSeq(s \o t)
<1>1. IsSeq(<<>>)
  BY EmptySeq DEF IsSeq
<1>2. ASSUME NEW x PROVE IsSeq(<<x>>)
  <2>1. <<x>> \in Seq({x})
    OBVIOUS
  <2> QED
    BY <2>1 DEF IsSeq
<1>3. ASSUME NEW s, NEW t, IsSeq(s), IsSeq(t) PROVE IsSeq(s \o t)
  <2>1. PICK S, T : s \in Seq(S) /\ t \in Seq(T)
    BY <1>3 DEF IsSeq
  <2>2. s \in Seq(S \union T) /\ t \in Seq(S \union T)
    BY <2>1
  <2>3. s \o t \in Seq(S \union T)
    BY <2>2, ConcatProperties
  <2> QED
    BY <2>3 DEF IsSeq
<1> QED
  BY <1>1, <1>2, <1>3

LEMMA Associates ==
  ASSUME NEW s, NEW t, NEW u, IsSeq(s), IsSeq(t), IsSeq(u)
  PROVE  (s \o t) \o u = s \o (t \o u)
<1>1. PICK S, T, U : s \in Seq(S) /\ t \in Seq(T) /\ u \in Seq(U)
  BY DEF IsSeq
<1> DEFINE V == (S \union T) \union U
<1>2. s \in Seq(V) /\ t \in Seq(V) /\ u \in Seq(V)
  BY <1>1
<1> HIDE DEF V
<1> QED
  BY <1>2, ConcatAssociative

LEMMA NothingAdded ==
  ASSUME NEW s, IsSeq(s)
  PROVE  s \o <<>> = s /\ <<>> \o s = s
<1>1. PICK S : s \in Seq(S)
  BY DEF IsSeq
<1> QED
  BY <1>1, ConcatEmptySeq

LEMMA AlikeSelf ==
  ASSUME NEW s, IsSeq(s)
  PROVE  Alike(s, s)
BY DEF Alike

LEMMA AlikeOne ==
  ASSUME NEW x, NEW y, UpToNeighbours(x) = UpToNeighbours(y)
  PROVE  Alike(<<x>>, <<y>>)
<1>1. /\ Len(<<x>>) = 1 /\ Len(<<y>>) = 1 /\ <<x>>[1] = x /\ <<y>>[1] = y
  OBVIOUS
<1> QED
  BY <1>1, Sequences DEF Alike

LEMMA AlikeBoth ==
  ASSUME NEW s, NEW t, NEW u, NEW v, Alike(s, t), Alike(u, v)
  PROVE  Alike(s \o u, t \o v)
<1> DEFINE x == s \o u
           y == t \o v
           m == Len(s)
           n == Len(u)
<1>1. /\ IsSeq(s) /\ IsSeq(t) /\ IsSeq(u) /\ IsSeq(v) /\ Len(t) = m /\ Len(v) = n
      /\ x = s \o u /\ y = t \o v
  BY DEF Alike
<1>2. m \in Nat /\ n \in Nat
  BY <1>1, LenProperties DEF IsSeq
<1> HIDE DEF x, y
<1>3. /\ IsSeq(x) /\ Len(x) = m + n
      /\ \A i \in 1..m : x[i] = s[i]
      /\ \A i \in 1..n : x[m + i] = u[i]
  <2>1. IsSeq(x) /\ Len(x) = Len(s) + Len(u)
    BY <1>1, Pushed
  <2>2. \A i \in 1..Len(s) : x[i] = s[i]
    BY <1>1, Pushed
  <2>3. \A i \in 1..Len(u) : x[Len(s) + i] = u[i]
    BY <1>1, Pushed
  <2> QED
    BY <2>1, <2>2, <2>3
<1>4. /\ IsSeq(y) /\ Len(y) = m + n
      /\ \A i \in 1..m : y[i] = t[i]
      /\ \A i \in 1..n : y[m + i] = v[i]
  <2>1. IsSeq(y) /\ Len(y) = Len(t) + Len(v)
    BY <1>1, Pushed
  <2>2. \A i \in 1..Len(t) : y[i] = t[i]
    BY <1>1, Pushed
  <2>3. \A i \in 1..Len(v) : y[Len(t) + i] = v[i]
    BY <1>1, Pushed
  <2> QED
    BY <1>1, <2>1, <2>2, <2>3
<1>5. /\ \A i \in 1..m : UpToNeighbours(s[i]) = UpToNeighbours(t[i])
      /\ \A i \in 1..n : UpToNeighbours(u[i]) = UpToNeighbours(v[i])
  BY DEF Alike
<1> HIDE DEF m, n
<1>6. ASSUME NEW i \in 1..m + n
      PROVE  UpToNeighbours(x[i]) = UpToNeighbours(y[i])
  <2>1. CASE i \in 1..m
    BY <1>1, <1>3, <1>4, <1>5, <2>1
  <2>2. CASE i \notin 1..m
    <3> DEFINE j == i - m
    <3>1. j \in 1..n /\ m + j = i
      BY <1>2, <2>2
    <3> HIDE DEF j
    <3>2. x[m + j] = u[j] /\ y[m + j] = v[j]
      BY <1>3, <1>4, <3>1
    <3> QED
      BY <1>5, <3>1, <3>2
  <2> QED
    BY <2>1, <2>2
<1>7. Alike(x, y)
  BY <1>1, <1>3, <1>4, <1>6 DEF Alike
<1> QED
  BY <1>7 DEF x, y

LEMMA AlikeShown ==
  ASSUME NEW s, NEW t, Alike(s, t)
  PROVE  Shown(s) = Shown(t)
<1>1. DOMAIN s = 1..Len(s) /\ DOMAIN t = 1..Len(s)
  BY DEF Alike, IsSeq
<1>2. \A i \in 1..Len(s) : UpToNeighbours(s[i]) = UpToNeighbours(t[i])
  BY DEF Alike
<1> QED
  BY <1>1, <1>2 DEF Shown

(* What is fetched to be written is the value, or what write_logic reads.  *)
LEMMA FetchedMeans ==
  ASSUME NEW g, NEW h, h.memory = g.memory, NEW info, InPlace(g, info),
         NEW value \in Fetched(h, info)
  PROVE  UpToNeighbours(Term("write", info.type, <<value>>)) =
           UpToNeighbours(Term("write", info.type, <<info.value>>))
<1>1. Load(h.memory, info, SizeFromType(info.type)) = info.value
  BY Loaded
<1>2. CASE info.type = "logic"
  <2>1. \A x : LET e == Term("write", info.type, <<x>>)
               IN e.op = "write" /\ e.type = "logic"
    BY <1>2 DEF Term
  <2> QED
    BY <2>1 DEF UpToNeighbours
<1>3. CASE info.type # "logic"
  <2>1. value = info.value
    BY <1>1, <1>3 DEF Fetched
  <2> QED
    BY <2>1
<1> QED
  BY <1>2, <1>3

-----------------------------------------------------------------------------
(* What of the grammar a command may use, and the end of a command.        *)

(* A phrase is in the table for all commands that may contain it.          *)
LEMMA InGrammar ==
  ASSUME NEW kind, NEW p, IsA(kind, p), NEW n, n + 2 <= MaxTokens, n = Len(p.tokens)
  PROVE  p \in Of(Grammar, kind, n)
<1> DEFINE m == MaxTokens - 2
<1>1. n \in Nat \ {0}
  BY NotEmpty
<1>2. m \in Nat /\ n \in 1..m
  BY <1>1, MaxTokensAssumption
<1> HIDE DEF m
<1>3. Len(Levels[m]) = m /\ Levels[m][n] = Levels[n][n]
  BY <1>2, LevelsStay
<1>4. p \in Levels[n][n][kind]
  BY <1>1 DEF IsA, What
<1>5. p \in Of(Levels[m], kind, n)
  BY <1>2, <1>3, <1>4 DEF Of
<1> QED
  BY <1>5 DEF Grammar, m

LEMMA InGrammarTyped ==
  ASSUME NEW p, IsA("exp", p), NEW n, n + 2 <= MaxTokens, n = Len(p.tokens)
  PROVE  p \in Exps(n, p.type)
BY InGrammar DEF Exps, OfType

(* A command that is complete does what a sentence of the grammar does.    *)
LEMMA Finished ==
  ASSUME status' = "ok", Lengths', NEW s \in Sentences,
         input' = s.tokens, Alike(effects', s.does)
  PROVE  MeantInv'
<1>1. Sentence(s.tokens, Shown(s.does)) \in Expected
  BY Zenon DEF Expected
<1>2. Shown(effects') = Shown(s.does)
  BY AlikeShown
<1>3. Sentence(input', Shown(effects')) \in Expected
  BY <1>1, <1>2
<1>4. EffectsAreMeant'
  BY <1>3 DEF EffectsAreMeant, Expected, Sentences, CommandsOf
<1> QED
  BY <1>4 DEF MeantInv

(* The length of what has tokens on both sides.                            *)
LEMMA Between ==
  ASSUME NEW w, w \in Seq(Tokens), NEW q, q \in Seq(Tokens), NEW c, c \in Seq(Tokens)
  PROVE  /\ (w \o q) \o c \in Seq(Tokens)
         /\ Len((w \o q) \o c) = (Len(w) + Len(q)) + Len(c)
<1> DEFINE u == w \o q
<1>1. u \in Seq(Tokens) /\ Len(u) = Len(w) + Len(q)
  BY Texts
<1> HIDE DEF u
<1>2. u \o c \in Seq(Tokens) /\ Len(u \o c) = Len(u) + Len(c)
  BY <1>1, Texts
<1> QED
  BY <1>1, <1>2 DEF u

(* The sentences, for phrases instead of lengths.                          *)
IsSentence(s, tokens, does) == s = Sentence(tokens, does)

(* A condition, ...                                                        *)
LEMMA IsCondition ==
  ASSUME NEW p, IsA("exp", p), p.type = "logic", Plain("(") \in Tokens,
         Plain(")") \in Tokens, NEW s,
         IsSentence(s, <<Plain("(")>> \o p.tokens \o <<Plain(")")>>,
                        <<Term("test", "logic", <<p.value>>)>>),
         Len(s.tokens) <= MaxTokens
  PROVE  s \in Sentences
<1> DEFINE w == <<Plain("(")>>
           c == <<Plain(")")>>
           k == Len(p.tokens)
           n == k + 2
<1>1. /\ w \in Seq(Tokens) /\ Len(w) = 1 /\ c \in Seq(Tokens) /\ Len(c) = 1
      /\ p.tokens \in Seq(Tokens) /\ k \in Nat \ {0}
  BY Words, NotEmpty
<1>2. s.tokens = (w \o p.tokens) \o c
  BY PhraseFields DEF IsSentence
<1> HIDE DEF w, c
<1>3. Len(s.tokens) = (1 + k) + 1
  <2>0. w \in Seq(Tokens) /\ p.tokens \in Seq(Tokens) /\ c \in Seq(Tokens)
    BY <1>1, Zenon
  <2>1. Len((w \o p.tokens) \o c) = (Len(w) + k) + Len(c)
    BY <2>0, Between
  <2>2. Len(s.tokens) = (Len(w) + k) + Len(c)
    BY <1>2, <2>1, Zenon
  <2> HIDE DEF k
  <2> QED
    BY <1>1, <2>2
<1> HIDE DEF k
<1>4. n \in 1..MaxTokens /\ n - 2 = k /\ k + 2 <= MaxTokens
  BY <1>1, <1>3, MaxTokensAssumption
<1>5. p \in Exps(n - 2, "logic")
  BY <1>4, InGrammarTyped DEF k
<1> HIDE DEF n
<1>6. s \in Conditions(n)
  BY <1>5, Zenon DEF Conditions, IsSentence
<1>7. s \in CommandsOf(n)
  BY <1>6, Zenon DEF CommandsOf
<1> QED
  BY <1>4, <1>7, Zenon DEF Sentences

(* ...write and writeln, ...                                               *)
LEMMA IsOutput ==
  ASSUME NEW l, IsA("list", l), NEW w \in {"write", "writeln"}, w \in Keywords,
         Plain("(") \in Tokens, Plain(")") \in Tokens, Plain(Semicolon) \in Tokens,
         NEW s,
         IsSentence(s, <<Plain(w), Plain("(")>> \o l.tokens \o <<Plain(")"), Plain(Semicolon)>>,
                        l.does \o (IF w = "writeln" THEN <<LineFeed>> ELSE <<>>)),
         Len(s.tokens) <= MaxTokens
  PROVE  s \in Sentences
<1> DEFINE h == <<Plain(w), Plain("(")>>
           c == <<Plain(")"), Plain(Semicolon)>>
           k == Len(l.tokens)
           n == k + 4
           feed == IF w = "writeln" THEN <<LineFeed>> ELSE <<>>
<1>1. /\ h \in Seq(Tokens) /\ Len(h) = 2 /\ c \in Seq(Tokens) /\ Len(c) = 2
      /\ l.tokens \in Seq(Tokens) /\ k \in Nat \ {0}
  BY Words, NotEmpty
<1>2. s.tokens = (h \o l.tokens) \o c
  BY PhraseFields DEF IsSentence
<1> HIDE DEF h, c
<1>3. Len(s.tokens) = (2 + k) + 2
  <2>0. h \in Seq(Tokens) /\ l.tokens \in Seq(Tokens) /\ c \in Seq(Tokens)
    BY <1>1, Zenon
  <2>1. Len((h \o l.tokens) \o c) = (Len(h) + k) + Len(c)
    BY <2>0, Between
  <2>2. Len(s.tokens) = (Len(h) + k) + Len(c)
    BY <1>2, <2>1, Zenon
  <2> HIDE DEF k
  <2> QED
    BY <1>1, <2>2
<1> HIDE DEF k
<1>4. n \in 1..MaxTokens /\ n - 4 = k /\ k + 2 <= MaxTokens
  BY <1>1, <1>3, MaxTokensAssumption
<1>5. l \in Of(Grammar, "list", n - 4)
  BY <1>4, InGrammar DEF k
<1> HIDE DEF n
<1> DEFINE With(v) ==
             {Sentence(<<Plain(v), Plain("(")>> \o m.tokens \o <<Plain(")"), Plain(Semicolon)>>,
                       m.does \o (IF v = "writeln" THEN <<LineFeed>> ELSE <<>>)) :
                m \in Of(Grammar, "list", n - 4)}
<1>6. s \in With(w)
  BY <1>5, Zenon DEF IsSentence
<1>7. Outputs(n) = UNION {With(v) : v \in Keywords \intersect {"write", "writeln"}}
  BY Zenon DEF Outputs, Semicolon
<1> HIDE DEF With
<1>8. s \in Outputs(n)
  BY <1>6, <1>7, Zenon
<1>9. s \in CommandsOf(n)
  BY <1>8, Zenon DEF CommandsOf
<1> QED
  BY <1>4, <1>9, Zenon DEF Sentences

(* ...readln, ...                                                          *)
LEMMA IsInput ==
  ASSUME NEW v \in Variables, NEW s,
         IsSentence(s, <<Plain("readln"), Plain("("), v, Plain(")"), Plain(Semicolon)>>,
                        <<InputTo(v)>>),
         Len(s.tokens) <= MaxTokens
  PROVE  s \in Sentences
<1> DEFINE w == <<Plain("readln"), Plain("("), v, Plain(")"), Plain(Semicolon)>>
<1>1. s.tokens = w /\ Len(w) = 5
  BY PhraseFields DEF IsSentence
<1> HIDE DEF w
<1>2. 5 \in 1..MaxTokens
  BY <1>1, MaxTokensAssumption
<1>3. s \in {Sentence(<<Plain("readln"), Plain("("), u, Plain(")"), Plain(Semicolon)>>,
                      <<InputTo(u)>>) : u \in Variables}
  BY Zenon DEF IsSentence
<1>4. Inputs(5) = {Sentence(<<Plain("readln"), Plain("("), u, Plain(")"), Plain(Semicolon)>>,
                            <<InputTo(u)>>) : u \in IF 5 = 5 THEN Variables ELSE {}}
  BY Zenon DEF Inputs, InputTo, Semicolon
<1>5. s \in Inputs(5)
  BY <1>3, <1>4, Zenon
<1>6. s \in CommandsOf(5)
  BY <1>5, Zenon DEF CommandsOf
<1> QED
  BY <1>2, <1>6, Zenon DEF Sentences

(* ...the assignment to a variable, ...                                    *)
LEMMA IsAssignment ==
  ASSUME NEW v \in Variables, NEW p, IsA("exp", p), p.type = v.type,
         Plain(":=") \in Tokens, Plain(Semicolon) \in Tokens, NEW s,
         IsSentence(s, <<v, Plain(":=")>> \o p.tokens \o <<Plain(Semicolon)>>,
                        <<Assign(v, p.value)>>),
         Len(s.tokens) <= MaxTokens
  PROVE  s \in Sentences
<1> DEFINE w == <<v, Plain(":=")>>
           c == <<Plain(Semicolon)>>
           k == Len(p.tokens)
           n == k + 3
<1>1. v \in Tokens
  BY Words DEF Variables
<1>2. /\ w \in Seq(Tokens) /\ Len(w) = 2 /\ c \in Seq(Tokens) /\ Len(c) = 1
      /\ p.tokens \in Seq(Tokens) /\ k \in Nat \ {0}
  BY <1>1, Words, NotEmpty
<1>3. s.tokens = (w \o p.tokens) \o c
  BY PhraseFields, ZenonT(40) DEF IsSentence
<1> HIDE DEF w, c
<1>4. Len(s.tokens) = (2 + k) + 1
  <2>0. w \in Seq(Tokens) /\ p.tokens \in Seq(Tokens) /\ c \in Seq(Tokens)
    BY <1>2, Zenon
  <2>1. Len((w \o p.tokens) \o c) = (Len(w) + k) + Len(c)
    BY <2>0, Between
  <2>2. Len(s.tokens) = (Len(w) + k) + Len(c)
    BY <1>3, <2>1, Zenon
  <2> HIDE DEF k
  <2> QED
    BY <1>2, <2>2
<1> HIDE DEF k
<1>5. n \in 1..MaxTokens /\ n - 3 = k /\ k + 2 <= MaxTokens
  BY <1>2, <1>4, MaxTokensAssumption
<1>6. p \in Exps(n - 3, v.type)
  BY <1>5, InGrammarTyped DEF k
<1> HIDE DEF n
<1> DEFINE To(u) == {Sentence(<<u, Plain(":=")>> \o q.tokens \o <<Plain(Semicolon)>>,
                              <<Assign(u, q.value)>>) : q \in Exps(n - 3, u.type)}
<1>7. s \in To(v)
  BY <1>6, Zenon DEF IsSentence
<1>8. Assignments(n) = UNION {To(u) : u \in Variables}
  BY Zenon DEF Assignments, Semicolon
<1> HIDE DEF To
<1>9. s \in Assignments(n)
  BY <1>7, <1>8, Zenon
<1>10. s \in CommandsOf(n)
  BY <1>9, Zenon DEF CommandsOf
<1> QED
  BY <1>5, <1>10, Zenon DEF Sentences

(* ...and to a character of one.                                           *)
LEMMA IsUpdate ==
  ASSUME NEW v \in Variables, v.type = "string", NEW i, IsA("exp", i), i.type = "int",
         NEW p, IsA("exp", p), p.type = "char",
         Plain("[") \in Tokens, Plain("]") \in Tokens, Plain(":=") \in Tokens,
         Plain(Semicolon) \in Tokens, NEW s,
         IsSentence(s, <<v, Plain("[")>> \o i.tokens \o <<Plain("]"), Plain(":=")>>
                          \o p.tokens \o <<Plain(Semicolon)>>,
                        <<Assign(v, Term("update", "string",
                                         <<Leaf(v), i.value, p.value>>))>>),
         Len(s.tokens) <= MaxTokens
  PROVE  s \in Sentences
<1> DEFINE w == <<v, Plain("[")>>
           b == <<Plain("]"), Plain(":=")>>
           c == <<Plain(Semicolon)>>
           k == Len(i.tokens)
           m == Len(p.tokens)
           u == (w \o i.tokens) \o b
           n == k + m + 5
<1>1. v \in Tokens
  BY Words DEF Variables
<1>2. /\ w \in Seq(Tokens) /\ Len(w) = 2 /\ c \in Seq(Tokens) /\ Len(c) = 1
      /\ b \in Seq(Tokens) /\ Len(b) = 2
      /\ p.tokens \in Seq(Tokens) /\ m \in Nat \ {0}
      /\ i.tokens \in Seq(Tokens) /\ k \in Nat \ {0}
  BY <1>1, Words, NotEmpty
<1>3. s.tokens = (u \o p.tokens) \o c
  BY PhraseFields DEF IsSentence
<1> HIDE DEF w, b, c
<1>4. u \in Seq(Tokens) /\ Len(u) = (2 + k) + 2
  <2>0. w \in Seq(Tokens) /\ i.tokens \in Seq(Tokens) /\ b \in Seq(Tokens)
    BY <1>2, Zenon
  <2>1. u \in Seq(Tokens) /\ Len(u) = (Len(w) + k) + Len(b)
    BY <2>0, Between
  <2> HIDE DEF u, k
  <2> QED
    BY <1>2, <2>1
<1> HIDE DEF u
<1>5. Len(s.tokens) = (((2 + k) + 2) + m) + 1
  <2>0. u \in Seq(Tokens) /\ p.tokens \in Seq(Tokens) /\ c \in Seq(Tokens)
    BY <1>2, <1>4, Zenon
  <2>1. Len((u \o p.tokens) \o c) = (Len(u) + m) + Len(c)
    BY <2>0, Between
  <2>2. Len(s.tokens) = (Len(u) + m) + Len(c)
    BY <1>3, <2>1, Zenon
  <2> HIDE DEF k, m
  <2> QED
    BY <1>2, <1>4, <2>2
<1> HIDE DEF k, m
<1>6. /\ n \in 1..MaxTokens /\ n - 5 - k = m /\ k \in 1..n
      /\ k + 2 <= MaxTokens /\ m + 2 <= MaxTokens
  BY <1>2, <1>5, MaxTokensAssumption
<1>7. i \in Exps(k, "int") /\ p \in Exps(n - 5 - k, "char")
  BY <1>6, InGrammarTyped DEF k, m
<1> HIDE DEF n
<1> DEFINE At1(x, j, y) ==
             {Sentence(<<x, Plain("[")>> \o y.tokens \o <<Plain("]"), Plain(":=")>>
                         \o q.tokens \o <<Plain(Semicolon)>>,
                       <<Assign(x, Term("update", "string",
                                        <<Leaf(x), y.value, q.value>>))>>) :
                q \in Exps(n - 5 - j, "char")}
           Of1(x, j) == UNION {At1(x, j, y) : y \in Exps(j, "int")}
<1>8. s \in At1(v, k, i)
  BY <1>7, Zenon DEF IsSentence
<1>9. \A j : Updates(n, j) = UNION {Of1(x, j) : x \in OfType(Variables, "string")}
  BY Zenon DEF Updates, Semicolon
<1> HIDE DEF At1
<1>10. s \in Of1(v, k)
  BY <1>7, <1>8, Zenon
<1>11. v \in OfType(Variables, "string")
  BY DEF OfType
<1> HIDE DEF Of1
<1>12. s \in Updates(n, k)
  BY <1>9, <1>10, <1>11, Zenon
<1>13. s \in UNION {Updates(n, j) : j \in 1..n}
  BY <1>6, <1>12, Zenon
<1>14. s \in CommandsOf(n)
  BY <1>13, Zenon DEF CommandsOf
<1> QED
  BY <1>6, <1>14, Zenon DEF Sentences

-----------------------------------------------------------------------------
(* Commands.                                                               *)

Places == {"start", "(", ")", "first", "next", "id", "]", ":=", "value"}
(* The places at `,' and `;' are places of their own, ...                  *)
LEMMA Punctuation ==
  /\ Comma # Semicolon /\ Comma \notin Places /\ Semicolon \notin Places
  /\ Comma \notin {"constant", "identifier"} /\ Semicolon \notin {"constant", "identifier"}
<1>1. Comma # Semicolon
  BY Zenon DEF Comma, Semicolon
<1>2. Comma \notin Places
  BY Zenon DEF Comma, Places
<1>3. Semicolon \notin Places
  BY Zenon DEF Semicolon, Places
<1>4. Comma \notin {"constant", "identifier"} /\ Semicolon \notin {"constant", "identifier"}
  BY Zenon DEF Comma, Semicolon
<1> QED
  BY <1>1, <1>2, <1>3, <1>4

(* ...and these are the steps at them.                                     *)
LEMMA WriteNextIs ==
  ASSUME WriteNext
  PROVE  At("write", Comma) /\ entry.tok = Comma /\ Take(Comma, GoOn("next") \o CallExp)
BY Zenon DEF WriteNext, Comma

LEMMA WriteEndIs ==
  ASSUME WriteEnd
  PROVE  \/ At("write", Comma) /\ entry.tok # Comma /\ Take(")", GoOn(Semicolon))
         \/ At("write", Semicolon) /\ TakeLast(Semicolon)
BY Zenon DEF WriteEnd, Comma, Semicolon

LEMMA ReadEndIs ==
  ASSUME ReadEnd
  PROVE  \/ At("readln", ")") /\ Take(")", GoOn(Semicolon))
         \/ At("readln", Semicolon) /\ TakeLast(Semicolon)
BY Zenon DEF ReadEnd, Semicolon

(* Effects are noted with a value that was fetched.                        *)
LEMMA WriteIs ==
  ASSUME NEW g, Write(g)
  PROVE  \E value \in Fetched(g, ret) :
           /\ effects' = effects \o Written(value)
           /\ stack' = GoOn(Comma) /\ UNCHANGED <<lexVars, ret, status>>
BY Zenon DEF Write, Comma

LEMMA WrittenIs ==
  ASSUME NEW value
  PROVE  Written(value) =
           <<Term("write", ret.type, <<value>>)>>
             \o (IF entry.tok = Comma THEN <<>> ELSE Ending(Top))
<1> DEFINE a == <<Term("write", ret.type, <<value>>)>>
           b == IF Top.op = "writeln" /\ entry.tok # Comma THEN <<LineFeed>> ELSE <<>>
<1>1. Written(value) = a \o b
  BY Zenon DEF Written, Comma
<1>2. b = IF entry.tok = Comma THEN <<>> ELSE Ending(Top)
  BY DEF Ending
<1> HIDE DEF a, b
<1>3. Written(value) = a \o (IF entry.tok = Comma THEN <<>> ELSE Ending(Top))
  BY <1>1, <1>2
<1> QED
  BY <1>3 DEF a

(* A frame is the innermost one but for where it goes on.                  *)
Moves(f, at) ==
  /\ f.fn = Top.fn /\ f.at = at /\ f.op = Top.op /\ f.left = Top.left
  /\ f.symbol = Top.symbol

(* A command calls for an expression, or goes on, at a token.              *)
LEMMA CommandCallTells ==
  ASSUME IInv, MeantInv, status = "running", Top.fn \in {"paren", "write", "attr"},
         NEW tok, NEW at, at \in {")", "first", "next", "]", "value"},
         <<Top.fn, at>> # <<"write", ")">>, Take(tok, GoOn(at) \o CallExp),
         \A f, w, u : Moves(f, at) /\ HasRead(Top, w, effects, entry.tok, ret)
                                   /\ entry.tok = tok
                        => Begun(f, w \o <<entry>>, effects, u)
  PROVE  MeantInv'
<1> DEFINE f == [Top EXCEPT !.at = at]
<1>1. Moves(f, at)
  BY TopMoved, Zenon DEF Moves
<1>2. Take(tok, Resume(f) \o CallExp)
  BY DEF GoOn
<1> HIDE DEF f
<1>3. Awaits(f)
  BY <1>1 DEF Moves, Awaits
<1>4. Wants(f) = Produces(CallExp[1].fn) /\ CallExp \in Calls
  BY <1>1, CallKinds DEF Moves, Wants
<1>5. f.fn = Top.fn
  BY <1>1 DEF Moves
<1> QED
  BY <1>1, <1>2, <1>3, <1>4, <1>5, TakeCallTells

LEMMA CommandMoveTells ==
  ASSUME IInv, MeantInv, status = "running", NEW tok, NEW at, Take(tok, GoOn(at)),
         \A f, w, u : Moves(f, at) /\ HasRead(Top, w, effects, entry.tok, ret)
                                   /\ entry.tok = tok
                        => HasRead(f, w \o <<entry>>, effects, u, ret)
  PROVE  MeantInv'
<1> DEFINE f == [Top EXCEPT !.at = at]
<1>1. Moves(f, at)
  BY TopMoved, Zenon DEF Moves
<1>2. Take(tok, Resume(f))
  BY DEF GoOn
<1> HIDE DEF f
<1>3. f.fn = Top.fn
  BY <1>1 DEF Moves
<1> QED
  BY <1>1, <1>2, <1>3, TakeTells

(* Only the own tokens of a command have been read when it waits for none. *)
LEMMA OwnRead ==
  ASSUME NEW f, ~Awaits(f), NEW w, NEW e, NEW t, NEW r
  PROVE  HasRead(f, w, e, t, r) <=> Begun(f, w, e, t)
BY DEF HasRead

(* A command that waits for an expression has read it.                     *)
EndsWithExp(f, w, e, t, r) ==
  \E b, q : Begun(f, b, e, t) /\ Means("exp", q, r) /\ w = b \o q
LEMMA ExpRead ==
  ASSUME NEW f, f.fn \in {"paren", "write", "attr"}, Awaits(f),
         NEW w, NEW e, NEW t, NEW r, HasRead(f, w, e, t, r)
  PROVE  EndsWithExp(f, w, e, t, r)
<1>1. Wants(f) = "exp"
  BY DEF Wants
<1> QED
  BY <1>1, OwnTokens DEF EndsWithExp

(* The tokens and the effects of a sentence.                               *)
LEMMA SentenceSays ==
  ASSUME NEW s, NEW tokens, NEW does, IsSentence(s, tokens, does)
  PROVE  s.tokens = tokens /\ s.does = does
BY PhraseFields DEF IsSentence

-----------------------------------------------------------------------------
(* syntatic_paren_exp                                                      *)

LEMMA ParenExpStartTells == ASSUME IInv, MeantInv, ParenExpStart PROVE MeantInv'
<1>1. /\ status = "running" /\ Top.fn = "paren" /\ Top.at = "start" /\ entry \in Tokens
      /\ Take("(", GoOn(")") \o CallExp)
  BY DEF ParenExpStart, At, IInv, LexInv
<1>2. ASSUME NEW f, NEW w, NEW u, Moves(f, ")"),
             HasRead(Top, w, effects, entry.tok, ret), entry.tok = "("
      PROVE  Begun(f, w \o <<entry>>, effects, u)
  <2>1. w = <<>> /\ effects = <<>>
    BY <1>1, <1>2, OwnTokens, BegunIs DEF Awaits, ParenBegun
  <2>2. entry = Plain("(")
    BY <1>1, <1>2, PlainToken
  <2>3. w \o <<entry>> = <<Plain("(")>> /\ w \o <<entry>> \in Seq(Tokens)
    BY <1>1, <2>1, <2>2, Single
  <2>4. ParenBegun(f, w \o <<entry>>, effects)
    BY <1>2, <2>1, <2>3 DEF ParenBegun, Moves
  <2> QED
    BY <1>1, <1>2, <2>3, <2>4, BegunIs DEF Moves
<1> QED
  BY <1>1, <1>2, CommandCallTells

LEMMA ParenExpEndTells == ASSUME IInv, MeantInv, ParenExpEnd PROVE MeantInv'
<1>1. CASE Fail
  BY <1>1, FailTells
<1>2. CASE SemanticError /\ UNCHANGED lexVars
  BY <1>2, ErrorTells
<1> DEFINE x == Term("test", "logic", <<Load(gen.memory, ret, 1)>>)
<1>3. CASE /\ ret.type = "logic" /\ Match(")") /\ Finish
           /\ effects' = Append(effects, x)
  <2>1. /\ status = "running" /\ Top.fn = "paren" /\ Top.at = ")" /\ entry \in Tokens
    BY DEF ParenExpEnd, At, IInv, LexInv
  <2>2. Reads(<<entry>>) /\ entry = Plain(")")
    <3>1. Reads(<<entry>>) /\ entry.tok = ")"
      BY <1>3, MatchReads DEF IInv, MeantInv
    <3> QED
      BY <2>1, <3>1, PlainToken
  <2>3. Awaits(Top) /\ Top.fn \notin Inner
    BY <2>1 DEF Awaits, Inner
  <2>4. x = Term("test", "logic", <<ret.value>>)
    <3>1. InPlace(gen, ret)
      BY <2>1, <2>3, TopFacts
    <3>2. SizeFromType(ret.type) = 1
      BY <1>3 DEF SizeFromType
    <3>3. Load(gen.memory, ret, 1) = ret.value
      BY <3>1, <3>2, Loaded
    <3> QED
      BY <3>3
  <2> HIDE DEF x
  <2>5. PICK b, q : /\ Begun(Top, b, effects, entry.tok) /\ Means("exp", q, ret)
                    /\ input = b \o q
    <3>1. HasRead(Top, input, effects, entry.tok, ret)
      BY <2>1, <2>3, RootReads
    <3>2. Top.fn \in {"paren", "write", "attr"}
      BY <2>1
    <3>3. EndsWithExp(Top, input, effects, entry.tok, ret)
      BY <2>3, <3>1, <3>2, ExpRead
    <3> QED
      BY <3>3 DEF EndsWithExp
  <2>6. b = <<Plain("(")>> /\ effects = <<>> /\ b \in Seq(Tokens)
    BY <2>1, <2>5, BegunIs DEF ParenBegun
  <2>7. Plain("(") \in Tokens /\ Plain(")") \in Tokens
    BY <2>1, <2>2, <2>6, ElementsTyped
  <2> DEFINE a == PhraseFor(q, ret)
             s == Sentence(<<Plain("(")>> \o a.tokens \o <<Plain(")")>>,
                           <<Term("test", "logic", <<a.value>>)>>)
  <2>8. IsA("exp", a) /\ a.tokens = q /\ a.type = "logic" /\ a.value = ret.value
    BY <1>3, <2>5, PhraseOf
  <2> HIDE DEF a
  <2>9. IsSentence(s, <<Plain("(")>> \o a.tokens \o <<Plain(")")>>,
                   <<Term("test", "logic", <<a.value>>)>>)
    BY DEF IsSentence
  <2> HIDE DEF s
  <2>10. effects' = <<x>>
    BY <1>3, <2>6
  <2>11. s.tokens = input' /\ s.does = <<x>>
    <3>1. /\ s.tokens = (<<Plain("(")>> \o a.tokens) \o <<Plain(")")>>
          /\ s.does = <<Term("test", "logic", <<a.value>>)>>
      BY <2>9, SentenceSays, Zenon
    <3>2. input' = (b \o q) \o <<Plain(")")>>
      BY <2>2, <2>5 DEF Reads
    <3> QED
      BY <2>4, <2>6, <2>8, <3>1, <3>2
  <2>12. Len(s.tokens) <= MaxTokens /\ Lengths' /\ status' = "ok"
    BY <1>3, <2>2, <2>11 DEF Reads, Lengths, Finish
  <2>13. s \in Sentences
    BY <2>7, <2>8, <2>9, <2>12, IsCondition
  <2>14. Alike(effects', s.does)
    <3>1. Alike(<<x>>, <<x>>)
      BY AlikeOne, Zenon
    <3> QED
      BY <2>10, <2>11, <3>1
  <2> QED
    BY <2>11, <2>12, <2>13, <2>14, Finished
<1> QED
  BY <1>1, <1>2, <1>3 DEF ParenExpEnd

-----------------------------------------------------------------------------
(* syntatic_write                                                          *)

LEMMA WriteCommandTells ==
  ASSUME IInv, MeantInv, At("write", "start"),
         Take(entry.tok, Resume([Top EXCEPT !.at = "(", !.op = entry.tok]))
  PROVE  MeantInv'
<1> DEFINE f == [Top EXCEPT !.at = "(", !.op = entry.tok]
<1>1. status = "running" /\ Top.fn = "write" /\ Top.at = "start" /\ entry \in Tokens
  BY DEF At, IInv, LexInv
<1>2. f.fn = "write" /\ f.at = "(" /\ f.op = entry.tok
  <2>1. DOMAIN Top = FrameFields
    BY <1>1, TopFacts DEF FrameOK
  <2> QED
    BY <1>1, <2>1 DEF FrameFields
<1>3. Take(entry.tok, Resume(f))
  OBVIOUS
<1> HIDE DEF f
<1>4. ASSUME NEW w, NEW u, HasRead(Top, w, effects, entry.tok, ret)
      PROVE  HasRead(f, w \o <<entry>>, effects, u, ret)
  <2>1. w = <<>> /\ effects = <<>> /\ entry.tok \in {"write", "writeln"}
    BY <1>1, <1>4, OwnTokens, BegunIs DEF Awaits, WriteBegun
  <2>2. entry = Plain(f.op) /\ f.op \in Keywords
    BY <1>1, <1>2, <2>1, PlainToken
  <2>3. w \o <<entry>> = <<Plain(f.op)>> /\ w \o <<entry>> \in Seq(Tokens)
    BY <1>1, <2>1, <2>2, Single
  <2>4. f.at # Comma /\ f.at # Semicolon
    BY <1>2, Punctuation DEF Places
  <2>5. WriteBegun(f, w \o <<entry>>, effects, u)
    BY <1>2, <2>1, <2>2, <2>3, <2>4 DEF WriteBegun
  <2>6. ~Awaits(f)
    BY <1>2 DEF Awaits
  <2> QED
    BY <1>2, <2>3, <2>5, <2>6, BegunIs, OwnRead
<1> QED
  BY <1>1, <1>2, <1>3, <1>4, TakeTells

LEMMA WriteFirstTells ==
  ASSUME IInv, MeantInv, At("write", "("), Take("(", GoOn("first") \o CallExp)
  PROVE  MeantInv'
<1>1. status = "running" /\ Top.fn = "write" /\ Top.at = "(" /\ entry \in Tokens
  BY DEF At, IInv, LexInv
<1>2. ASSUME NEW f, NEW w, NEW u, Moves(f, "first"),
             HasRead(Top, w, effects, entry.tok, ret), entry.tok = "("
      PROVE  Begun(f, w \o <<entry>>, effects, u)
  <2>1. /\ w = <<Plain(Top.op)>> /\ effects = <<>> /\ w \in Seq(Tokens)
        /\ Top.op \in {"write", "writeln"} /\ Top.op \in Keywords
    BY <1>1, <1>2, OwnTokens, BegunIs DEF Awaits, WriteBegun
  <2>2. entry = Plain("(") /\ Plain(Top.op) \in Tokens
    BY <1>1, <1>2, <2>1, PlainToken, ElementsTyped
  <2>3. w \o <<entry>> = WriteHead(f) /\ w \o <<entry>> \in Seq(Tokens)
    <3>1. w \o <<entry>> = <<Plain(Top.op), Plain("(")>>
      BY <1>1, <2>1, <2>2, PairOf
    <3>2. w \o <<entry>> \in Seq(Tokens)
      BY <1>1, <2>1, Single, Texts
    <3> QED
      BY <1>2, <3>1, <3>2 DEF WriteHead, Moves
  <2>4. f.at # Comma /\ f.at # Semicolon
    BY <1>2, Punctuation DEF Places, Moves
  <2>5. WriteBegun(f, w \o <<entry>>, effects, u)
    BY <1>2, <2>1, <2>3, <2>4 DEF WriteBegun, Moves
  <2> QED
    BY <1>1, <1>2, <2>3, <2>5, BegunIs DEF Moves
<1> QED
  BY <1>1, <1>2, CommandCallTells

LEMMA WriteStartTells == ASSUME IInv, MeantInv, WriteStart PROVE MeantInv'
BY WriteCommandTells, WriteFirstTells DEF WriteStart

(* The list gets another value, whose effect is noted.                     *)
ReadsOn(f, w, e) ==
  \E l : /\ Listed(l, l.does, e) /\ w = WriteHead(f) \o l.tokens
         /\ IsSeq(l.does)
LEMMA ListGrows ==
  ASSUME NEW f, f.fn = "write", f.at \in {"first", "next"},
         NEW b, NEW e, NEW t, Begun(f, b, e, t), NEW q, NEW r, Means("exp", q, r),
         NEW x, UpToNeighbours(x) = UpToNeighbours(Term("write", r.type, <<r.value>>))
  PROVE  ReadsOn(f, b \o q, e \o <<x>>)
<1> DEFINE a == PhraseFor(q, r)
<1>1. IsA("exp", a) /\ a.tokens = q /\ Writes(a) = Term("write", r.type, <<r.value>>)
      /\ q \in Seq(Tokens)
  BY PhraseOf DEF Writes
<1> HIDE DEF a
<1>2. Alike(<<x>>, <<Writes(a)>>)
  BY <1>1, AlikeOne
<1>3. WriteBegun(f, b, e, t)
  BY BegunIs
<1>4. CASE f.at = "first"
  <2> DEFINE l == Sentence(a.tokens, <<Writes(a)>>)
  <2>1. IsA("list", l) /\ l.tokens = q /\ l.does = <<Writes(a)>>
    BY <1>1, IsList, PhraseFields
  <2> HIDE DEF l
  <2>2. b = WriteHead(f) /\ e = <<>>
    BY <1>3, <1>4 DEF WriteBegun
  <2>3. e \o <<x>> = <<x>>
    BY <2>2, NothingAdded, Sequences
  <2>4. Listed(l, l.does, e \o <<x>>)
    BY <1>2, <2>1, <2>3 DEF Listed
  <2> QED
    BY <2>1, <2>2, <2>4, Sequences DEF ReadsOn
<1>5. CASE f.at = "next"
  <2>1. Plain(Comma) \in Tokens /\ AfterComma(f, b, e) /\ WriteHead(f) \in Seq(Tokens)
    BY <1>3, <1>5 DEF WriteBegun
  <2>2. PICK m : Listed(m, m.does, e) /\ b = WriteHead(f) \o (m.tokens \o <<Plain(Comma)>>)
    BY <2>1 DEF AfterComma
  <2> DEFINE l == Longer(m, a)
             c == <<Plain(Comma)>>
  <2>3. IsA("list", m) /\ Alike(e, m.does) /\ m.tokens \in Seq(Tokens)
    BY <2>2, NotEmpty DEF Listed
  <2>4. IsA("list", l)
    BY <1>1, <2>1, <2>3, IsLonger
  <2>5. l.tokens = (m.tokens \o c) \o q /\ l.does = m.does \o <<Writes(a)>>
    <3>1. IsSentence(l, m.tokens \o c \o a.tokens, m.does \o <<Writes(a)>>)
      BY Zenon DEF IsSentence, Longer, Comma
    <3> HIDE DEF l, c
    <3> QED
      BY <1>1, <3>1, SentenceSays
  <2>6. c \in Seq(Tokens)
    BY <2>1, Words
  <2> HIDE DEF l, c
  <2>7. Alike(e \o <<x>>, l.does)
    BY <1>2, <2>3, <2>5, AlikeBoth
  <2>8. b \o q = WriteHead(f) \o l.tokens
    <3> DEFINE h == WriteHead(f)
               mc == m.tokens \o c
    <3>1. b = h \o mc /\ l.tokens = mc \o q
      BY <2>2, <2>5 DEF c
    <3>2. h \in Seq(Tokens) /\ mc \in Seq(Tokens) /\ q \in Seq(Tokens)
      BY <1>1, <2>1, <2>3, <2>6, Texts
    <3> HIDE DEF h, mc
    <3>3. (h \o mc) \o q = h \o (mc \o q)
      BY <3>2, Texts
    <3>4. b \o q = h \o l.tokens
      BY <3>1, <3>3
    <3> QED
      BY <3>4 DEF h
  <2>9. IsSeq(l.does)
    BY <2>7 DEF Alike
  <2> QED
    BY <2>4, <2>7, <2>8, <2>9 DEF Listed, ReadsOn
<1> QED
  BY <1>4, <1>5

(* The effects of a list that has been read are a sequence.                *)
LEMMA EffectsOfList ==
  ASSUME NEW f, f.fn = "write", f.at \in {"first", "next"},
         NEW b, NEW e, NEW t, Begun(f, b, e, t)
  PROVE  IsSeq(e) /\ f.op \in {"write", "writeln"} /\ f.op \in Keywords
         /\ WriteHead(f) \in Seq(Tokens)
<1>1. WriteBegun(f, b, e, t)
  BY BegunIs
<1>2. CASE f.at = "first"
  BY <1>1, <1>2, Sequences DEF WriteBegun
<1>3. CASE f.at = "next"
  <2>1. AfterComma(f, b, e)
    BY <1>1, <1>3 DEF WriteBegun
  <2>2. PICK l : Listed(l, l.does, e)
    BY <2>1 DEF AfterComma
  <2> QED
    BY <1>1, <1>3, <2>2 DEF WriteBegun, Listed, Alike
<1> QED
  BY <1>2, <1>3

(* They do not depend on where the frame goes on.                          *)
LEMMA Heads ==
  ASSUME NEW f, NEW g, f.op = g.op
  PROVE  WriteHead(f) = WriteHead(g) /\ Ending(f) = Ending(g) /\ IsSeq(Ending(f))
BY Sequences DEF WriteHead, Ending

(* A value that has been evaluated is written.                             *)
LEMMA WriteTells ==
  ASSUME IInv, MeantInv, status = "running", Top.fn = "write",
         Top.at \in {"first", "next"}, NEW g, g.memory = gen.memory, Write(g)
  PROVE  MeantInv'
<1> DEFINE f == [Top EXCEPT !.at = Comma]
<1>1. Moves(f, Comma)
  BY TopMoved, Zenon DEF Moves
<1>2. PICK value \in Fetched(g, ret) :
        /\ effects' = effects \o Written(value)
        /\ stack' = GoOn(Comma) /\ UNCHANGED <<lexVars, ret, status>>
  BY WriteIs
<1>3. stack' = Resume(f) /\ status' = status /\ ret' = ret /\ UNCHANGED lexVars
  BY <1>2 DEF GoOn
<1> HIDE DEF f
<1> DEFINE x == Term("write", ret.type, <<value>>)
           end == IF entry.tok = Comma THEN <<>> ELSE Ending(Top)
<1>4. effects' = effects \o (<<x>> \o end)
  BY <1>2, WrittenIs
<1>5. Awaits(Top) /\ Top.fn \notin Inner
  BY DEF Awaits, Inner
<1>6. UpToNeighbours(x) = UpToNeighbours(Term("write", ret.type, <<ret.value>>))
  <2>1. InPlace(gen, ret)
    BY <1>5, TopFacts
  <2>2. value \in Fetched(g, ret)
    BY <1>2
  <2> QED
    BY <2>1, <2>2, FetchedMeans
<1> HIDE DEF x
<1>7. WriteHead(f) = WriteHead(Top) /\ Ending(f) = Ending(Top) /\ IsSeq(end)
  BY <1>1, Heads, Sequences DEF Moves
<1>8. f.fn = "write" /\ f.at = Comma /\ f.op = Top.op /\ ~Awaits(f)
  <2>1. f.fn = "write" /\ f.at = Comma /\ f.op = Top.op
    BY <1>1 DEF Moves
  <2> QED
    BY <2>1, Zenon DEF Awaits, Comma
<1>9. Reads(<<>>) /\ entry' = entry
  BY <1>3, NothingRead DEF IInv, MeantInv
<1>10. ASSUME NEW w, HasRead(Top, w, effects, entry.tok, ret)
       PROVE  HasRead(f, w \o <<>>, effects', entry'.tok, ret')
  <2>1. w \in Seq(Tokens) /\ w \o <<>> = w
    BY <1>10, HasReadTyped, NoMore
  <2>2. EndsWithExp(Top, w, effects, entry.tok, ret)
    BY <1>5, <1>10, ExpRead
  <2>3. PICK b, q : /\ Begun(Top, b, effects, entry.tok) /\ Means("exp", q, ret)
                    /\ w = b \o q
    BY <2>2 DEF EndsWithExp
  <2>4. IsSeq(effects) /\ Top.op \in {"write", "writeln"} /\ Top.op \in Keywords
        /\ WriteHead(Top) \in Seq(Tokens)
    BY <2>3, EffectsOfList
  <2>5. PICK l : /\ Listed(l, l.does, effects \o <<x>>)
                 /\ b \o q = WriteHead(Top) \o l.tokens /\ IsSeq(l.does)
    <3>1. ReadsOn(Top, b \o q, effects \o <<x>>)
      BY <1>6, <2>3, ListGrows
    <3> QED
      BY <3>1 DEF ReadsOn
  <2> HIDE DEF end
  <2>6. effects' = (effects \o <<x>>) \o end
    <3> DEFINE one == <<x>>
    <3>1. IsSeq(one) /\ effects' = effects \o (one \o end)
      BY <1>4, Sequences
    <3> HIDE DEF one
    <3>2. effects' = (effects \o one) \o end
      BY <1>7, <2>4, <3>1, Associates
    <3> QED
      BY <3>2 DEF one
  <2>7. Alike(effects', l.does \o end) /\ IsA("list", l)
    <3>1. Alike(end, end) /\ Alike(effects \o <<x>>, l.does) /\ IsA("list", l)
      BY <1>7, <2>5, AlikeSelf DEF Listed
    <3> QED
      BY <2>6, <3>1, AlikeBoth
  <2>8. l.does \o end = IF entry.tok = Comma THEN l.does ELSE l.does \o Ending(f)
    BY <1>7, <2>5, NothingAdded DEF end
  <2>9. AfterValue(f, w, effects', entry.tok)
    BY <1>7, <2>3, <2>5, <2>7, <2>8 DEF AfterValue, Listed
  <2>10. WriteBegun(f, w, effects', entry.tok)
    <3>1. f.at \notin Places /\ f.at # Semicolon
      BY <1>8, Punctuation
    <3> QED
      BY <1>7, <1>8, <2>4, <2>9, <3>1 DEF WriteBegun, Places
  <2> QED
    BY <1>8, <1>9, <2>1, <2>10, BegunIs, OwnRead
<1>11. effects' = effects \/ Len(stack) = 1
  BY <1>5, TopFacts
<1> QED
  BY <1>1, <1>3, <1>9, <1>10, <1>11, ResumeTells DEF Moves

LEMMA WriteValueTells == ASSUME IInv, MeantInv, WriteValue PROVE MeantInv'
<1>1. ResetTmp(gen).memory = gen.memory
  BY DEF ResetTmp, IInv, GenOK
<1>2. status = "running" /\ Top.fn = "write" /\ Top.at \in {"first", "next"}
  BY DEF WriteValue, At
<1>3. \/ gen.memory = gen.memory /\ Write(gen)
      \/ Write(ResetTmp(gen))
  BY DEF WriteValue
<1>4. CASE Write(gen)
  BY <1>2, <1>4, WriteTells
<1>5. CASE Write(ResetTmp(gen))
  BY <1>1, <1>2, <1>5, WriteTells
<1> QED
  BY <1>3, <1>4, <1>5

(* After a comma the list goes on, ...                                     *)
LEMMA WriteNextTells == ASSUME IInv, MeantInv, WriteNext PROVE MeantInv'
<1>1. At("write", Comma) /\ entry.tok = Comma /\ Take(Comma, GoOn("next") \o CallExp)
  BY WriteNextIs
<1>2. status = "running" /\ Top.fn = "write" /\ Top.at = Comma /\ entry \in Tokens
  BY <1>1 DEF At, IInv, LexInv
<1>3. entry = Plain(Comma) /\ ~Awaits(Top)
  <2>1. entry.tok # "constant" /\ entry.tok # "identifier"
    BY <1>1, Punctuation
  <2>2. entry = Plain(Comma)
    BY <1>1, <1>2, <2>1, PlainToken
  <2> QED
    BY <1>2, <2>2, Zenon DEF Awaits, Comma
<1>4. ASSUME NEW f, NEW w, NEW u, Moves(f, "next"),
             HasRead(Top, w, effects, entry.tok, ret)
      PROVE  Begun(f, w \o <<entry>>, effects, u)
  <2>1. w \in Seq(Tokens) /\ WriteBegun(Top, w, effects, entry.tok)
    BY <1>2, <1>3, <1>4, OwnTokens, BegunIs
  <2>2. /\ Top.op \in {"write", "writeln"} /\ Top.op \in Keywords
        /\ WriteHead(Top) \in Seq(Tokens) /\ AfterValue(Top, w, effects, Comma)
    BY <1>1, <1>2, <2>1, Punctuation DEF WriteBegun, Places
  <2>3. PICK l : Listed(l, l.does, effects) /\ w = WriteHead(Top) \o l.tokens
    BY <2>2 DEF AfterValue
  <2>4. WriteHead(f) = WriteHead(Top)
    BY <1>4, Heads DEF Moves
  <2>5. l.tokens \in Seq(Tokens)
    BY <2>3, NotEmpty DEF Listed
  <2> DEFINE c == <<Plain(Comma)>>
  <2>6. c \in Seq(Tokens) /\ c = <<entry>> /\ Plain(Comma) \in Tokens
    BY <1>2, <1>3, Single
  <2> HIDE DEF c
  <2>7. w \o c = WriteHead(f) \o (l.tokens \o c) /\ w \o c \in Seq(Tokens)
    <3> DEFINE h == WriteHead(f)
               k == l.tokens
    <3>1. /\ h \in Seq(Tokens) /\ k \in Seq(Tokens) /\ c \in Seq(Tokens)
          /\ w \in Seq(Tokens) /\ w = h \o k
      BY <2>1, <2>2, <2>3, <2>4, <2>5, <2>6
    <3> HIDE DEF h, k
    <3>2. w \o c = h \o (k \o c) /\ w \o c \in Seq(Tokens)
      BY <3>1, Texts
    <3> QED
      BY <3>2 DEF h, k
  <2>8. AfterComma(f, w \o c, effects)
    BY <2>3, <2>7 DEF AfterComma, c
  <2>9. WriteBegun(f, w \o c, effects, u)
    <3>1. f.at = "next" /\ f.at # Comma /\ f.at # Semicolon
      BY <1>4, Punctuation DEF Moves, Places
    <3> QED
      BY <1>4, <2>2, <2>4, <2>6, <2>8, <3>1 DEF WriteBegun, Moves
  <2> QED
    BY <1>2, <1>4, <2>6, <2>7, <2>9, BegunIs DEF Moves
<1> QED
  BY <1>1, <1>2, <1>4, CommandCallTells

(* ...or ends, ...                                                         *)
LEMMA ListClosedTells ==
  ASSUME IInv, MeantInv, At("write", Comma), entry.tok # Comma,
         Take(")", GoOn(Semicolon))
  PROVE  MeantInv'
<1>1. status = "running" /\ Top.fn = "write" /\ Top.at = Comma /\ entry \in Tokens
  BY DEF At, IInv, LexInv
<1>2. ~Awaits(Top)
  BY <1>1, Zenon DEF Awaits, Comma
<1>3. ASSUME NEW f, NEW w, NEW u, Moves(f, Semicolon),
             HasRead(Top, w, effects, entry.tok, ret), entry.tok = ")"
      PROVE  HasRead(f, w \o <<entry>>, effects, u, ret)
  <2>1. w \in Seq(Tokens) /\ WriteBegun(Top, w, effects, entry.tok)
    BY <1>1, <1>2, <1>3, OwnTokens, BegunIs
  <2>2. /\ Top.op \in {"write", "writeln"} /\ Top.op \in Keywords
        /\ WriteHead(Top) \in Seq(Tokens) /\ AfterValue(Top, w, effects, entry.tok)
    BY <1>1, <2>1, Punctuation DEF WriteBegun, Places
  <2>3. PICK l : /\ Listed(l, l.does \o Ending(Top), effects)
                 /\ w = WriteHead(Top) \o l.tokens
    BY <2>2 DEF AfterValue
  <2>4. WriteHead(f) = WriteHead(Top) /\ Ending(f) = Ending(Top)
    BY <1>3, Heads DEF Moves
  <2>5. entry = Plain(")")
    BY <1>1, <1>3, PlainToken
  <2>6. w \o <<entry>> \in Seq(Tokens) /\ Plain(")") \in Tokens
    <3> DEFINE c == <<entry>>
    <3>1. c \in Seq(Tokens)
      BY <1>1, Single
    <3> HIDE DEF c
    <3>2. w \o c \in Seq(Tokens)
      BY <2>1, <3>1, Texts
    <3> QED
      BY <1>1, <2>5, <3>2 DEF c
  <2>7. AfterList(f, w \o <<entry>>, effects)
    BY <2>3, <2>4, <2>5 DEF AfterList
  <2>8. f.fn = "write" /\ f.at = Semicolon /\ f.op = Top.op /\ ~Awaits(f)
    <3>1. f.fn = "write" /\ f.at = Semicolon /\ f.op = Top.op
      BY <1>1, <1>3 DEF Moves
    <3> QED
      BY <3>1, Zenon DEF Awaits, Semicolon
  <2>9. WriteBegun(f, w \o <<entry>>, effects, u)
    <3>1. f.at \notin Places /\ f.at # Comma
      BY <2>8, Punctuation
    <3> QED
      BY <2>2, <2>4, <2>6, <2>7, <2>8, <3>1 DEF WriteBegun, Places
  <2> QED
    BY <2>6, <2>8, <2>9, BegunIs, OwnRead
<1> QED
  BY <1>1, <1>3, CommandMoveTells

(* ...and with it the command.                                             *)
LEMMA WriteLastTells ==
  ASSUME IInv, MeantInv, At("write", Semicolon), TakeLast(Semicolon)
  PROVE  MeantInv'
<1>1. CASE Fail
  BY <1>1, FailTells
<1>2. CASE Match(Semicolon) /\ Finish /\ UNCHANGED genVars
  <2>1. status = "running" /\ Top.fn = "write" /\ Top.at = Semicolon /\ entry \in Tokens
    BY DEF At, IInv, LexInv
  <2>2. Reads(<<entry>>) /\ entry = Plain(Semicolon) /\ Plain(Semicolon) \in Tokens
    <3>1. Reads(<<entry>>) /\ entry.tok = Semicolon
      BY <1>2, MatchReads DEF IInv, MeantInv
    <3>2. entry.tok # "constant" /\ entry.tok # "identifier"
      BY <3>1, Punctuation
    <3> QED
      BY <2>1, <3>1, <3>2, PlainToken
  <2>3. ~Awaits(Top) /\ Top.fn \notin Inner
    <3>1. ~Awaits(Top)
      BY <2>1, Zenon DEF Awaits, Semicolon
    <3> QED
      BY <2>1, <3>1 DEF Inner
  <2>4. input \in Seq(Tokens) /\ WriteBegun(Top, input, effects, entry.tok)
    <3>1. HasRead(Top, input, effects, entry.tok, ret)
      BY <2>1, <2>3, RootReads
    <3> QED
      BY <2>1, <2>3, <3>1, OwnTokens, BegunIs
  <2>5. /\ Top.op \in {"write", "writeln"} /\ Top.op \in Keywords
        /\ WriteHead(Top) \in Seq(Tokens) /\ Plain(")") \in Tokens
        /\ AfterList(Top, input, effects)
    BY <2>1, <2>4, Punctuation DEF WriteBegun, Places
  <2>6. PICK l : /\ Listed(l, l.does \o Ending(Top), effects)
                 /\ input = (WriteHead(Top) \o l.tokens) \o <<Plain(")")>>
    BY <2>5 DEF AfterList
  <2>7. IsA("list", l) /\ l.tokens \in Seq(Tokens) /\ Alike(effects, l.does \o Ending(Top))
    BY <2>6, NotEmpty DEF Listed
  <2> DEFINE w == Top.op
             h == WriteHead(Top)
             b == Plain(")")
             c == Plain(Semicolon)
             s == Sentence(<<Plain(w), Plain("(")>> \o l.tokens \o <<b, c>>,
                           l.does \o (IF w = "writeln" THEN <<LineFeed>> ELSE <<>>))
  <2>8. IsSentence(s, <<Plain(w), Plain("(")>> \o l.tokens \o <<b, c>>,
                   l.does \o (IF w = "writeln" THEN <<LineFeed>> ELSE <<>>))
    BY DEF IsSentence
  <2> HIDE DEF s
  <2>9. s.tokens = (h \o l.tokens) \o <<b, c>> /\ s.does = l.does \o Ending(Top)
    BY <2>8, SentenceSays, Zenon DEF WriteHead, Ending
  <2>10. input' = s.tokens
    <3> DEFINE bs == <<b>>
               cs == <<c>>
               hl == h \o l.tokens
    <3>1. /\ hl \in Seq(Tokens) /\ bs \in Seq(Tokens) /\ cs \in Seq(Tokens)
          /\ bs \o cs = <<b, c>> /\ input' = (hl \o bs) \o cs
      <4>1. hl \in Seq(Tokens)
        BY <2>5, <2>7, Texts
      <4>2. bs \in Seq(Tokens) /\ cs \in Seq(Tokens) /\ bs \o cs = <<b, c>>
        BY <2>2, <2>5, Single, PairOf
      <4> QED
        BY <2>2, <2>6, <4>1, <4>2 DEF Reads
    <3> HIDE DEF bs, cs, hl
    <3>2. (hl \o bs) \o cs = hl \o (bs \o cs)
      BY <3>1, Texts, ZenonT(40)
    <3>3. hl \o (bs \o cs) = s.tokens
      BY <2>9, <3>1 DEF hl
    <3> QED
      BY <3>1, <3>2, <3>3
  <2>11. /\ Len(s.tokens) <= MaxTokens /\ Lengths' /\ status' = "ok"
         /\ Alike(effects', s.does)
    <3>1. effects' = effects
      BY <1>2 DEF genVars
    <3>2. Alike(effects', s.does)
      BY <2>7, <2>9, <3>1
    <3> QED
      BY <1>2, <2>2, <2>10, <3>2 DEF Reads, Lengths, Finish
  <2>12. Plain("(") \in Tokens
    BY <2>5, ElementsTyped DEF WriteHead
  <2>13. s \in Sentences
    BY <2>2, <2>5, <2>7, <2>8, <2>11, <2>12, IsOutput
  <2> QED
    BY <2>10, <2>11, <2>13, Finished
<1> QED
  BY <1>1, <1>2 DEF TakeLast

LEMMA WriteEndTells == ASSUME IInv, MeantInv, WriteEnd PROVE MeantInv'
BY WriteEndIs, ListClosedTells, WriteLastTells

-----------------------------------------------------------------------------
(* syntatic_read                                                           *)

(* What has just been stored is loaded.                                    *)
LEMMA StoredLoads ==
  ASSUME NEW memory, NEW a \in Nat, NEW size \in Nat \ {0}, NEW type, NEW value
  PROVE  Load(Store(memory, "tmp", a, size, value),
              Info("tmp", a, size, type, value), size) = value
<1> DEFINE e == Stored("tmp", a, size, value)
           m == Store(memory, "tmp", a, size, value)
           info == Info("tmp", a, size, type, value)
<1>1. e.area = "tmp" /\ e.address = a /\ e.width = size /\ e.value = value
  BY DEF Stored
<1>2. m = Clear(memory, "tmp", a, size) \union {e}
  BY DEF Store
<1>3. info.area = "tmp" /\ info.address = a
  BY DEF Info
<1> HIDE DEF e, m, info
<1>4. \A s \in Clear(memory, "tmp", a, size) :
        ~(s.area = "tmp" /\ s.address = a /\ s.width = size)
  BY DEF Clear
<1>5. Holds(m, info, size) = {e}
  BY <1>1, <1>2, <1>3, <1>4 DEF Holds
<1>6. Load(m, info, size) = e.value
  BY <1>5 DEF Load
<1> QED
  BY <1>1, <1>6 DEF m, info

(* What is stored at a variable is what was read for it.                   *)
LEMMA ReadMeans ==
  ASSUME NEW g, GenOK(g), NEW type \in Types
  PROVE  LET p == ReadValue(g, type)
         IN Moved(p.gen, p.info) = Term("input", type, <<>>)
<1> DEFINE size == SizeFromType(type)
           a == AlignedAddress(g.next, 257)
           read == UseBuffer(g, 257)
           value == Term("input", type, <<>>)
           p == ReadValue(g, type)
<1>1. GenOK(read) /\ size \in Nat \ {0}
  BY Used, Sizes
<1>2. a \in Nat
  BY Aligned DEF GenOK
<1>3. CASE type \in {"char", "string"}
  <2> DEFINE m == Store(read.memory, "tmp", a, size, value)
             info == Info("tmp", a, size, type, value)
  <2>1. p = [gen |-> [read EXCEPT !.memory = m], info |-> info]
    BY <1>3 DEF ReadValue
  <2>2. Load(m, info, size) = value
    <3> HIDE DEF size, a, value
    <3> QED
      BY <1>1, <1>2, StoredLoads
  <2>3. info.type = type
    BY DEF Info
  <2> HIDE DEF read, m, info, p
  <2>4. p.gen.memory = m /\ p.info = info
    BY <1>1, <2>1 DEF GenOK
  <2>5. Moved(p.gen, p.info) = value
    BY <2>2, <2>3, <2>4 DEF Moved
  <2> QED
    BY <2>5 DEF p
<1>4. CASE type \notin {"char", "string"}
  <2>1. p = Put(read, size, type, size, value)
    BY <1>4 DEF ReadValue
  <2> HIDE DEF read, p, value
  <2>2. InPlace(p.gen, p.info) /\ p.info.value = value
    BY <1>1, <2>1, PutKeeps, PutMeans
  <2>3. Moved(p.gen, p.info) = value
    BY <2>2, Loaded DEF Moved
  <2> QED
    BY <2>3 DEF p, value
<1> QED
  BY <1>3, <1>4

LEMMA ReadStartTells == ASSUME IInv, MeantInv, ReadStart PROVE MeantInv'
<1>1. status = "running" /\ Top.fn = "readln" /\ entry \in Tokens /\ ~Awaits(Top)
  BY DEF ReadStart, At, IInv, LexInv, Awaits
<1>2. CASE Top.at = "start" /\ Take("readln", GoOn("("))
  <2>1. ASSUME NEW f, NEW w, NEW u, Moves(f, "("),
               HasRead(Top, w, effects, entry.tok, ret), entry.tok = "readln"
        PROVE  HasRead(f, w \o <<entry>>, effects, u, ret)
    <3>1. w = <<>> /\ effects = <<>>
      BY <1>1, <1>2, <2>1, OwnTokens, BegunIs DEF ReadBegun
    <3>2. entry = Plain("readln")
      BY <1>1, <2>1, PlainToken
    <3>3. w \o <<entry>> = <<Plain("readln")>> /\ w \o <<entry>> \in Seq(Tokens)
      BY <1>1, <3>1, <3>2, Single
    <3>4. f.fn = "readln" /\ f.at = "(" /\ f.at # Semicolon /\ ~Awaits(f)
      BY <1>1, <2>1, Punctuation DEF Moves, Places, Awaits
    <3>5. ReadBegun(f, w \o <<entry>>, effects)
      BY <3>1, <3>3, <3>4 DEF ReadBegun
    <3> QED
      BY <3>3, <3>4, <3>5, BegunIs, OwnRead
  <2> QED
    BY <1>1, <1>2, <2>1, CommandMoveTells
<1>3. CASE Top.at = "(" /\ Take("(", GoOn("id"))
  <2>1. ASSUME NEW f, NEW w, NEW u, Moves(f, "id"),
               HasRead(Top, w, effects, entry.tok, ret), entry.tok = "("
        PROVE  HasRead(f, w \o <<entry>>, effects, u, ret)
    <3>1. w = <<Plain("readln")>> /\ effects = <<>> /\ w \in Seq(Tokens)
      BY <1>1, <1>3, <2>1, OwnTokens, BegunIs DEF ReadBegun
    <3>2. entry = Plain("(") /\ Plain("readln") \in Tokens
      BY <1>1, <2>1, <3>1, PlainToken, ElementsTyped
    <3>3. w \o <<entry>> = ReadHead /\ w \o <<entry>> \in Seq(Tokens)
      <4>1. w \o <<entry>> = ReadHead
        BY <1>1, <3>1, <3>2, PairOf DEF ReadHead
      <4>2. w \o <<entry>> \in Seq(Tokens)
        BY <1>1, <3>1, Single, Texts
      <4> QED
        BY <4>1, <4>2
    <3>4. f.fn = "readln" /\ f.at = "id" /\ f.at # Semicolon /\ ~Awaits(f)
      BY <1>1, <2>1, Punctuation DEF Moves, Places, Awaits
    <3>5. ReadBegun(f, w \o <<entry>>, effects)
      BY <3>1, <3>3, <3>4 DEF ReadBegun
    <3> QED
      BY <3>3, <3>4, <3>5, BegunIs, OwnRead
  <2> QED
    BY <1>1, <1>3, <2>1, CommandMoveTells
<1> QED
  BY <1>2, <1>3 DEF ReadStart, At

LEMMA ReadTells == ASSUME IInv, MeantInv, Read PROVE MeantInv'
<1>1. CASE Fail
  BY <1>1, FailTells
<1>2. CASE Match("identifier")
  <2>1. Reads(<<entry>>) /\ entry.tok = "identifier"
    BY <1>2, MatchReads DEF IInv, MeantInv
  <2>2. CASE SemanticError
    BY <1>2, <2>2, ErrorTells
  <2> DEFINE f == [Top EXCEPT !.at = ")"]
             p == ReadValue(gen, entry.type)
             value == Moved(p.gen, p.info)
  <2>3. CASE /\ entry.type # "none" /\ entry.class = "var"
             /\ effects' = Append(effects, Assign(entry, value))
             /\ stack' = GoOn(")") /\ UNCHANGED <<ret, status>>
    <3>1. /\ status = "running" /\ Top.fn = "readln" /\ Top.at = "id" /\ entry \in Tokens
          /\ GenOK(gen) /\ status' = status /\ ret' = ret /\ stack' = Resume(f)
      BY <2>3 DEF Read, At, IInv, LexInv, GoOn
    <3>2. entry \in Variables /\ entry.type \in Types
      BY <2>1, <2>3, <3>1, TokenKinds, SymbolsAssumption DEF Variables
    <3>3. Assign(entry, value) = InputTo(entry)
      BY <3>1, <3>2, ReadMeans DEF InputTo
    <3> HIDE DEF p, value
    <3>4. f.fn = "readln" /\ f.at = ")" /\ ~Awaits(f) /\ f.at # Semicolon
      BY <3>1, TopMoved, Punctuation DEF Awaits, Places
    <3> HIDE DEF f
    <3>5. ~Awaits(Top) /\ Len(stack) = 1
      BY <3>1, TopFacts DEF Awaits, Inner
    <3>6. ASSUME NEW w, HasRead(Top, w, effects, entry.tok, ret)
          PROVE  HasRead(f, w \o <<entry>>, effects', entry'.tok, ret')
      <4>1. w = ReadHead /\ effects = <<>> /\ w \in Seq(Tokens)
        <5>1. w \in Seq(Tokens) /\ ReadBegun(Top, w, effects)
          BY <3>1, <3>5, <3>6, OwnTokens, BegunIs
        <5> QED
          BY <3>1, <5>1 DEF ReadBegun
      <4>2. effects' = <<InputTo(entry)>>
        BY <2>3, <3>3, <4>1
      <4>3. w \o <<entry>> \in Seq(Tokens)
        BY <3>1, <4>1, Single, Texts
      <4>4. AfterName(w \o <<entry>>, effects')
        BY <3>2, <4>1, <4>2 DEF AfterName
      <4>5. ReadBegun(f, w \o <<entry>>, effects')
        BY <3>4, <4>1, <4>4 DEF ReadBegun
      <4> QED
        BY <3>4, <4>3, <4>5, BegunIs, OwnRead
    <3> QED
      BY <2>1, <3>1, <3>4, <3>5, <3>6, ResumeTells
  <2> QED
    BY <1>1, <1>2, <2>2, <2>3 DEF Read
<1> QED
  BY <1>1, <1>2 DEF Read

LEMMA ReadClosedTells ==
  ASSUME IInv, MeantInv, At("readln", ")"), Take(")", GoOn(Semicolon))
  PROVE  MeantInv'
<1>1. /\ status = "running" /\ Top.fn = "readln" /\ Top.at = ")" /\ entry \in Tokens
      /\ ~Awaits(Top)
  BY DEF At, IInv, LexInv, Awaits
<1>2. ASSUME NEW f, NEW w, NEW u, Moves(f, Semicolon),
             HasRead(Top, w, effects, entry.tok, ret), entry.tok = ")"
      PROVE  HasRead(f, w \o <<entry>>, effects, u, ret)
  <2>1. w \in Seq(Tokens) /\ ReadBegun(Top, w, effects)
    BY <1>1, <1>2, OwnTokens, BegunIs
  <2>2. ReadHead \in Seq(Tokens) /\ AfterName(w, effects)
    BY <1>1, <2>1 DEF ReadBegun
  <2>3. entry = Plain(")")
    BY <1>1, <1>2, PlainToken
  <2>4. w \o <<entry>> \in Seq(Tokens)
    BY <1>1, <2>1, Single, Texts
  <2>5. AfterInput(w \o <<entry>>, effects)
    BY <2>2, <2>3 DEF AfterName, AfterInput
  <2>6. f.fn = "readln" /\ f.at = Semicolon /\ ~Awaits(f) /\ f.at \notin Places
    BY <1>1, <1>2, Punctuation DEF Moves, Awaits
  <2>7. ReadBegun(f, w \o <<entry>>, effects)
    BY <1>1, <2>2, <2>3, <2>5, <2>6 DEF ReadBegun, Places
  <2> QED
    BY <2>4, <2>6, <2>7, BegunIs, OwnRead
<1> QED
  BY <1>1, <1>2, CommandMoveTells

(* The tokens of a command one after the other.                            *)
LEMMA OneMore ==
  ASSUME NEW S, NEW s \in Seq(S), NEW t \in Seq(S), NEW e \in S,
         Len(t) = Len(s) + 1, t[Len(t)] = e, \A i \in 1..Len(s) : t[i] = s[i]
  PROVE  s \o <<e>> = t
<1> DEFINE u == Append(s, e)
           n == Len(s)
<1>1. u \in Seq(S) /\ Len(u) = n + 1 /\ u[n + 1] = e /\ \A i \in 1..n : u[i] = s[i]
  BY AppendProperties, LenProperties
<1>2. u = s \o <<e>>
  BY AppendIsConcat
<1>0. n \in Nat
  BY LenProperties
<1> HIDE DEF u
<1>3. \A i \in 1..Len(u) : u[i] = t[i]
  BY <1>0, <1>1
<1>4. u = t
  BY <1>1, <1>3, SeqEqual
<1> QED
  BY <1>2, <1>4

InARow(a, b, c, d, e) ==
  ((<<a, b>> \o <<c>>) \o <<d>>) \o <<e>> = <<a, b, c, d, e>>
LEMMA Rows ==
  ASSUME NEW S, NEW a \in S, NEW b \in S, NEW c \in S, NEW d \in S, NEW e \in S
  PROVE  InARow(a, b, c, d, e)
<1> DEFINE w == <<a, b>>
           x == <<a, b, c>>
           y == <<a, b, c, d>>
           z == <<a, b, c, d, e>>
<1>1. w \in Seq(S) /\ x \in Seq(S) /\ y \in Seq(S) /\ z \in Seq(S)
  OBVIOUS
<1>2. Len(w) = 2 /\ w[1] = a /\ w[2] = b
  OBVIOUS
<1>3. Len(x) = 3 /\ x[1] = a /\ x[2] = b /\ x[3] = c
  OBVIOUS
<1>4. Len(y) = 4 /\ y[1] = a /\ y[2] = b /\ y[3] = c /\ y[4] = d
  OBVIOUS
<1>5. Len(z) = 5 /\ z[1] = a /\ z[2] = b /\ z[3] = c /\ z[4] = d /\ z[5] = e
  OBVIOUS
<1> HIDE DEF w, x, y, z
<1>6. w \o <<c>> = x
  <2>1. Len(x) = Len(w) + 1 /\ x[Len(x)] = c /\ \A i \in 1..Len(w) : x[i] = w[i]
    BY <1>2, <1>3
  <2> QED
    BY <1>1, <2>1, OneMore
<1>7. x \o <<d>> = y
  <2>1. Len(y) = Len(x) + 1 /\ y[Len(y)] = d /\ \A i \in 1..Len(x) : y[i] = x[i]
    BY <1>3, <1>4
  <2> QED
    BY <1>1, <2>1, OneMore
<1>8. y \o <<e>> = z
  <2>1. Len(z) = Len(y) + 1 /\ z[Len(z)] = e /\ \A i \in 1..Len(y) : z[i] = y[i]
    BY <1>4, <1>5
  <2> QED
    BY <1>1, <2>1, OneMore
<1>9. ((w \o <<c>>) \o <<d>>) \o <<e>> = z
  BY <1>6, <1>7, <1>8
<1> QED
  BY <1>9 DEF InARow, w, z

LEMMA ReadLastTells ==
  ASSUME IInv, MeantInv, At("readln", Semicolon), TakeLast(Semicolon)
  PROVE  MeantInv'
<1>1. CASE Fail
  BY <1>1, FailTells
<1>2. CASE Match(Semicolon) /\ Finish /\ UNCHANGED genVars
  <2>1. /\ status = "running" /\ Top.fn = "readln" /\ Top.at = Semicolon
        /\ entry \in Tokens /\ ~Awaits(Top) /\ Top.fn \notin Inner
    BY DEF At, IInv, LexInv, Awaits, Inner
  <2>2. Reads(<<entry>>) /\ entry = Plain(Semicolon)
    <3>1. Reads(<<entry>>) /\ entry.tok = Semicolon
      BY <1>2, MatchReads DEF IInv, MeantInv
    <3>2. entry.tok # "constant" /\ entry.tok # "identifier"
      BY <3>1, Punctuation
    <3> QED
      BY <2>1, <3>1, <3>2, PlainToken
  <2>3. input \in Seq(Tokens) /\ ReadBegun(Top, input, effects)
    <3>1. HasRead(Top, input, effects, entry.tok, ret)
      BY <2>1, RootReads
    <3> QED
      BY <2>1, <3>1, OwnTokens, BegunIs
  <2>4. ReadHead \in Seq(Tokens) /\ Plain(")") \in Tokens /\ AfterInput(input, effects)
    BY <2>1, <2>3, Punctuation DEF ReadBegun, Places
  <2>5. PICK v \in Variables : /\ input = (ReadHead \o <<v>>) \o <<Plain(")")>>
                               /\ effects = <<InputTo(v)>>
    BY <2>4 DEF AfterInput
  <2> DEFINE a == Plain("readln")
             b == Plain("(")
             d == Plain(")")
             e == Plain(Semicolon)
             s == Sentence(<<a, b, v, d, e>>, <<InputTo(v)>>)
  <2>6. a \in Tokens /\ b \in Tokens /\ v \in Tokens /\ d \in Tokens /\ e \in Tokens
    BY <2>1, <2>2, <2>4, ElementsTyped, Words DEF ReadHead, Variables
  <2>7. IsSentence(s, <<a, b, v, d, e>>, <<InputTo(v)>>)
    BY DEF IsSentence
  <2> HIDE DEF s
  <2>8. s.tokens = <<a, b, v, d, e>> /\ s.does = <<InputTo(v)>>
    BY <2>7, SentenceSays, Zenon
  <2>9. input' = ((<<a, b>> \o <<v>>) \o <<d>>) \o <<e>>
    BY <2>2, <2>5 DEF Reads, ReadHead
  <2>10. input' = s.tokens
    <3> HIDE DEF a, b, d, e
    <3>1. InARow(a, b, v, d, e)
      BY <2>6, Rows
    <3> QED
      BY <2>8, <2>9, <3>1, Zenon DEF InARow
  <2>11. /\ Len(s.tokens) <= MaxTokens /\ Lengths' /\ status' = "ok"
         /\ Alike(effects', s.does)
    <3>1. effects' = s.does /\ Alike(s.does, s.does)
      BY <1>2, <2>5, <2>8, AlikeOne DEF genVars
    <3> QED
      BY <1>2, <2>2, <2>10, <3>1 DEF Reads, Lengths, Finish
  <2>12. s \in Sentences
    BY <2>7, <2>11, IsInput
  <2> QED
    BY <2>10, <2>11, <2>12, Finished
<1> QED
  BY <1>1, <1>2 DEF TakeLast

LEMMA ReadEndTells == ASSUME IInv, MeantInv, ReadEnd PROVE MeantInv'
BY ReadEndIs, ReadClosedTells, ReadLastTells

-----------------------------------------------------------------------------
(* syntatic_attr                                                           *)

LEMMA AttrStartTells == ASSUME IInv, MeantInv, AttrStart PROVE MeantInv'
<1>1. CASE Fail
  BY <1>1, FailTells
<1>2. CASE Match("identifier")
  <2>1. Reads(<<entry>>) /\ entry.tok = "identifier"
    BY <1>2, MatchReads DEF IInv, MeantInv
  <2>2. CASE SemanticError
    BY <1>2, <2>2, ErrorTells
  <2> DEFINE f == [Top EXCEPT !.at = "id", !.symbol = entry]
  <2>3. CASE /\ entry.type # "none" /\ entry.class = "var"
             /\ stack' = Resume(f) /\ UNCHANGED <<ret, status, genVars>>
    <3>1. /\ status = "running" /\ Top.fn = "attr" /\ Top.at = "start" /\ entry \in Tokens
          /\ status' = status /\ effects' = effects /\ stack' = Resume(f)
      BY <2>3 DEF AttrStart, At, IInv, LexInv, genVars
    <3>2. entry \in Variables
      BY <2>1, <2>3, <3>1, TokenKinds DEF Variables
    <3>3. f.fn = "attr" /\ f.at = "id" /\ f.symbol = entry /\ f.op = Top.op
      <4>1. DOMAIN Top = FrameFields
        BY <3>1, TopFacts DEF FrameOK
      <4> QED
        BY <3>1, <4>1 DEF FrameFields
    <3> HIDE DEF f
    <3>4. ~Awaits(Top) /\ ~Awaits(f)
      BY <3>1, <3>3 DEF Awaits
    <3>5. ASSUME NEW w, HasRead(Top, w, effects, entry.tok, ret)
          PROVE  HasRead(f, w \o <<entry>>, effects', entry'.tok, ret')
      <4>1. AttrBegun(Top, w, effects)
        BY <3>1, <3>4, <3>5, OwnTokens, BegunIs
      <4>2. w = <<>> /\ effects = <<>> /\ Top.op # "index"
        BY <3>1, <4>1 DEF AttrBegun
      <4>3. w \o <<entry>> = <<f.symbol>> /\ w \o <<entry>> \in Seq(Tokens)
        BY <3>1, <3>3, <4>2, Single
      <4>4. AttrBegun(f, w \o <<entry>>, effects')
        BY <3>1, <3>2, <3>3, <4>2, <4>3 DEF AttrBegun
      <4> QED
        BY <3>3, <3>4, <4>3, <4>4, BegunIs, OwnRead
    <3> QED
      BY <2>1, <3>1, <3>3, <3>5, ResumeTells
  <2> QED
    BY <1>1, <1>2, <2>2, <2>3 DEF AttrStart
<1> QED
  BY <1>1, <1>2 DEF AttrStart

(* What has been read of an assignment when the variable is known.         *)
LEMMA NameRead ==
  ASSUME NEW f, f.fn = "attr", f.at = "id", NEW w, NEW e, NEW t, NEW r,
         HasRead(f, w, e, t, r)
  PROVE  /\ w = <<f.symbol>> /\ e = <<>> /\ f.op # "index" /\ f.symbol \in Variables
         /\ f.symbol \in Tokens /\ w \in Seq(Tokens)
<1>1. ~Awaits(f)
  BY DEF Awaits
<1>2. w \in Seq(Tokens) /\ AttrBegun(f, w, e)
  BY <1>1, OwnTokens, BegunIs
<1>3. w = <<f.symbol>> /\ e = <<>> /\ f.op # "index" /\ f.symbol \in Variables
  BY <1>2 DEF AttrBegun
<1> QED
  BY <1>2, <1>3, ElementsTyped

LEMMA AttrIndexStartTells == ASSUME IInv, MeantInv, AttrIndexStart PROVE MeantInv'
<1>1. CASE Fail
  BY <1>1, FailTells
<1>2. CASE Match("[")
  <2>1. Reads(<<entry>>) /\ entry.tok = "["
    BY <1>2, MatchReads DEF IInv, MeantInv
  <2>2. CASE SemanticError
    BY <1>2, <2>2, ErrorTells
  <2> DEFINE f == [Top EXCEPT !.at = "]"]
  <2>3. CASE /\ Top.symbol.type = "string"
             /\ stack' = GoOn("]") \o CallExp /\ UNCHANGED <<ret, status, genVars>>
    <3>1. /\ status = "running" /\ Top.fn = "attr" /\ Top.at = "id"
          /\ status' = status /\ effects' = effects /\ entry \in Tokens
          /\ stack' = Resume(f) \o CallExp
      BY <2>3 DEF AttrIndexStart, At, IInv, LexInv, genVars, GoOn
    <3>2. f.fn = "attr" /\ f.at = "]" /\ f.symbol = Top.symbol
      BY <3>1, TopMoved
    <3>3. entry = Plain("[")
      BY <2>1, <3>1, PlainToken
    <3> HIDE DEF f
    <3>4. Awaits(f) /\ Wants(f) = Produces(CallExp[1].fn) /\ CallExp \in Calls
      BY <3>2, CallKinds DEF Awaits, Wants
    <3>5. ASSUME NEW w, HasRead(Top, w, effects, entry.tok, ret)
          PROVE  Begun(f, w \o <<entry>>, effects, entry'.tok)
      <4>1. /\ w = <<Top.symbol>> /\ effects = <<>> /\ Top.symbol \in Variables
            /\ Top.symbol \in Tokens /\ w \in Seq(Tokens)
        BY <3>1, <3>5, NameRead
      <4>2. w \o <<entry>> = <<f.symbol, Plain("[")>> /\ w \o <<entry>> \in Seq(Tokens)
        BY <3>1, <3>2, <3>3, <4>1, PairOf, Single, Texts
      <4>3. AttrBegun(f, w \o <<entry>>, effects)
        BY <2>3, <3>2, <4>1, <4>2 DEF AttrBegun
      <4> QED
        BY <3>2, <4>2, <4>3, BegunIs
    <3> QED
      BY <2>1, <3>1, <3>2, <3>4, <3>5, CallTells
  <2> QED
    BY <1>1, <1>2, <2>2, <2>3 DEF AttrIndexStart
<1> QED
  BY <1>1, <1>2 DEF AttrIndexStart

LEMMA AttrIndexEndTells == ASSUME IInv, MeantInv, AttrIndexEnd PROVE MeantInv'
<1>1. CASE SemanticError /\ UNCHANGED lexVars
  BY <1>1, ErrorTells
<1> DEFINE f == [Top EXCEPT !.at = ":=", !.op = "index", !.left = ret]
<1>2. CASE ret.type = "int" /\ Take("]", Resume(f))
  <2>1. status = "running" /\ Top.fn = "attr" /\ Top.at = "]" /\ entry \in Tokens
    BY DEF AttrIndexEnd, At, IInv, LexInv
  <2>2. /\ f.fn = "attr" /\ f.at = ":=" /\ f.op = "index" /\ f.left = ret
        /\ f.symbol = Top.symbol
    <3>1. DOMAIN Top = FrameFields
      BY <2>1, TopFacts DEF FrameOK
    <3> QED
      BY <2>1, <3>1 DEF FrameFields
  <2>3. Take("]", Resume(f))
    BY <1>2
  <2> HIDE DEF f
  <2>4. Awaits(Top) /\ ~Awaits(f)
    BY <2>1, <2>2 DEF Awaits
  <2>5. ASSUME NEW w, NEW u, HasRead(Top, w, effects, entry.tok, ret), entry.tok = "]"
        PROVE  HasRead(f, w \o <<entry>>, effects, u, ret)
    <3>1. EndsWithExp(Top, w, effects, entry.tok, ret)
      BY <2>1, <2>4, <2>5, ExpRead
    <3>2. PICK b, q : /\ Begun(Top, b, effects, entry.tok) /\ Means("exp", q, ret)
                      /\ w = b \o q
      BY <3>1 DEF EndsWithExp
    <3>3. b \in Seq(Tokens) /\ AttrBegun(Top, b, effects)
      BY <2>1, <3>2, BegunIs
    <3>4. /\ b = <<Top.symbol, Plain("[")>> /\ effects = <<>> /\ Top.symbol \in Variables
          /\ Top.symbol.type = "string"
      BY <2>1, <3>3 DEF AttrBegun
    <3>5. entry = Plain("]")
      BY <2>1, <2>5, PlainToken
    <3>6. w \o <<entry>> \in Seq(Tokens) /\ Plain("]") \in Tokens
      <4> DEFINE c == <<entry>>
      <4>1. c \in Seq(Tokens) /\ w \in Seq(Tokens)
        BY <2>1, <2>5, Single, HasReadTyped
      <4> HIDE DEF c
      <4>2. w \o c \in Seq(Tokens)
        BY <4>1, Texts
      <4> QED
        BY <2>1, <3>5, <4>2 DEF c
    <3>7. IndexRead(f, w \o <<entry>>)
      BY <1>2, <2>2, <3>2, <3>3, <3>4, <3>5, <3>6 DEF IndexRead
    <3>8. AttrBegun(f, w \o <<entry>>, effects)
      BY <2>2, <3>4, <3>7 DEF AttrBegun
    <3> QED
      BY <2>2, <2>4, <3>6, <3>8, BegunIs, OwnRead
  <2> QED
    BY <2>1, <2>2, <2>3, <2>5, TakeTells
<1> QED
  BY <1>1, <1>2 DEF AttrIndexEnd

LEMMA AttrValueTells == ASSUME IInv, MeantInv, AttrValue PROVE MeantInv'
<1>1. status = "running" /\ Top.fn = "attr" /\ entry \in Tokens
      /\ Take(":=", GoOn("value") \o CallExp)
  BY DEF AttrValue, At, IInv, LexInv
<1>2. ASSUME NEW f, NEW w, NEW u, Moves(f, "value"),
             HasRead(Top, w, effects, entry.tok, ret), entry.tok = ":="
      PROVE  Begun(f, w \o <<entry>>, effects, u)
  <2>1. entry = Plain(":=")
    BY <1>1, <1>2, PlainToken
  <2>2. /\ f.fn = "attr" /\ f.at = "value" /\ f.op = Top.op /\ f.left = Top.left
        /\ f.symbol = Top.symbol
    BY <1>1, <1>2 DEF Moves
  <2>3. w \in Seq(Tokens) /\ w \o <<entry>> \in Seq(Tokens) /\ Plain(":=") \in Tokens
    <3> DEFINE c == <<entry>>
    <3>1. c \in Seq(Tokens) /\ w \in Seq(Tokens)
      BY <1>1, <1>2, Single, HasReadTyped
    <3> HIDE DEF c
    <3>2. w \o c \in Seq(Tokens)
      BY <3>1, Texts
    <3> QED
      BY <1>1, <2>1, <3>1, <3>2 DEF c
  <2>4. CASE Top.at = "id"
    <3>1. /\ w = <<Top.symbol>> /\ effects = <<>> /\ Top.op # "index"
          /\ Top.symbol \in Variables /\ Top.symbol \in Tokens
      BY <1>1, <1>2, <2>4, NameRead
    <3>2. w \o <<entry>> = <<f.symbol, Plain(":=")>>
      BY <2>1, <2>2, <2>3, <3>1, PairOf
    <3>3. AttrBegun(f, w \o <<entry>>, effects)
      BY <2>2, <3>1, <3>2 DEF AttrBegun
    <3> QED
      BY <2>2, <2>3, <3>3, BegunIs
  <2>5. CASE Top.at = ":="
    <3>1. AttrBegun(Top, w, effects)
      <4>1. ~Awaits(Top)
        BY <2>5 DEF Awaits
      <4> QED
        BY <1>1, <1>2, <4>1, OwnTokens, BegunIs
    <3>2. Top.op = "index" /\ IndexRead(Top, w) /\ effects = <<>> /\ Top.symbol \in Variables
      BY <2>5, <3>1 DEF AttrBegun
    <3>3. IndexRead(f, w)
      BY <2>2, <3>2 DEF IndexRead
    <3>4. AttrBegun(f, w \o <<entry>>, effects)
      BY <2>1, <2>2, <2>3, <3>2, <3>3 DEF AttrBegun
    <3> QED
      BY <2>2, <2>3, <3>4, BegunIs
  <2> QED
    BY <2>4, <2>5 DEF AttrValue, At
<1> QED
  BY <1>1, <1>2, CommandCallTells

(* What is assigned at the end of an assignment.                           *)
Assigned ==
  IF Top.op = "index" THEN MovedIdx(gen, Top.symbol, ret, Top.left) ELSE Moved(gen, ret)
AssignedType == IF Top.op = "index" THEN "char" ELSE Top.symbol.type
Assigns ==
  /\ ret.type = AssignedType /\ Match(Semicolon) /\ Finish
  /\ effects' = Append(effects, Assign(Top.symbol, Assigned))

LEMMA AttrEndIs ==
  ASSUME AttrEnd
  PROVE  At("attr", "value") /\ (Fail \/ (SemanticError /\ UNCHANGED lexVars) \/ Assigns)
BY Zenon DEF AttrEnd, Assigns, Assigned, AssignedType, Semicolon

(* What has been read at the end of an assignment: the expression, after   *)
(* the variable and, where a character is assigned, its index.             *)
AfterIndex(f, w) == \E v : IndexRead(f, v) /\ w = v \o <<Plain(":=")>>
LEMMA ValueRead ==
  ASSUME NEW f, f.fn = "attr", f.at = "value", NEW w, NEW e, NEW t, Begun(f, w, e, t)
  PROVE  /\ e = <<>> /\ f.symbol \in Variables /\ w \in Seq(Tokens)
         /\ f.op = "index" => Plain(":=") \in Tokens /\ AfterIndex(f, w)
         /\ f.op # "index" => w = <<f.symbol, Plain(":=")>>
<1>1. w \in Seq(Tokens) /\ AttrBegun(f, w, e)
  BY BegunIs
<1> QED
  BY <1>1 DEF AttrBegun, AfterIndex

(* A character is assigned.                                                *)
LEMMA UpdateIs ==
  ASSUME NEW f, NEW b, AfterIndex(f, b), Plain(":=") \in Tokens,
         Plain(Semicolon) \in Tokens, NEW q, NEW r, Means("exp", q, r), r.type = "char",
         NEW x, x = (b \o q) \o <<Plain(Semicolon)>>, Len(x) <= MaxTokens
  PROVE  Sentence(x, <<Assign(f.symbol, Term("update", "string",
                              <<Leaf(f.symbol), f.left.value, r.value>>))>>)
           \in Sentences
<1>1. PICK v : IndexRead(f, v) /\ b = v \o <<Plain(":=")>>
  BY DEF AfterIndex
<1>2. PICK j : /\ Means("exp", j, f.left)
               /\ v = (<<f.symbol, Plain("[")>> \o j) \o <<Plain("]")>>
  BY <1>1 DEF IndexRead
<1>3. /\ f.symbol \in Variables /\ f.symbol.type = "string" /\ f.left.type = "int"
      /\ <<f.symbol, Plain("[")>> \in Seq(Tokens) /\ Plain("]") \in Tokens
  BY <1>1 DEF IndexRead
<1>4. Plain("[") \in Tokens
  BY <1>3, ElementsTyped
<1> DEFINE i == PhraseFor(j, f.left)
           p == PhraseFor(q, r)
<1>5. /\ IsA("exp", i) /\ i.tokens = j /\ i.type = "int" /\ i.value = f.left.value
      /\ j \in Seq(Tokens)
  BY <1>2, <1>3, PhraseOf
<1>6. /\ IsA("exp", p) /\ p.tokens = q /\ p.type = "char" /\ p.value = r.value
      /\ q \in Seq(Tokens)
  BY PhraseOf
<1> HIDE DEF i, p
<1> DEFINE k == <<f.symbol, Plain("[")>>
           m == <<Plain("]"), Plain(":=")>>
           c == <<Plain(Semicolon)>>
           does == <<Assign(f.symbol, Term("update", "string",
                                           <<Leaf(f.symbol), i.value, p.value>>))>>
           tokens == k \o i.tokens \o m \o p.tokens \o c
           s == Sentence(tokens, does)
<1>7. IsSentence(s, tokens, does)
  BY DEF IsSentence
<1>8. s.tokens = tokens
  <2> HIDE DEF tokens, does, s
  <2> QED
    BY <1>7, SentenceSays
<1>9. x = tokens
  <2> DEFINE m1 == <<Plain("]")>>
             m2 == <<Plain(":=")>>
  <2>1. m1 \in Seq(Tokens) /\ m2 \in Seq(Tokens) /\ m1 \o m2 = m
    BY <1>3, Single, PairOf
  <2>2. k \in Seq(Tokens)
    BY <1>3
  <2>3. x = ((((k \o j) \o m1) \o m2) \o q) \o c
    BY <1>1, <1>2
  <2>4. tokens = (((k \o j) \o m) \o q) \o c
    BY <1>5, <1>6
  <2> HIDE DEF m1, m2, m, k, c, tokens
  <2> DEFINE kj == k \o j
  <2>5. kj \in Seq(Tokens)
    BY <1>5, <2>2, Texts
  <2> HIDE DEF kj
  <2>6. (kj \o m1) \o m2 = kj \o m
    BY <2>1, <2>5, Texts
  <2> QED
    BY <2>3, <2>4, <2>6 DEF kj
<1>10. s \in Sentences
  <2>1. Len(s.tokens) <= MaxTokens
    BY <1>8, <1>9
  <2> HIDE DEF s
  <2> QED
    BY <1>3, <1>4, <1>5, <1>6, <1>7, <2>1, IsUpdate
<1>11. s = Sentence(x, <<Assign(f.symbol, Term("update", "string",
                                <<Leaf(f.symbol), f.left.value, r.value>>))>>)
  <2> HIDE DEF tokens
  <2> QED
    BY <1>5, <1>6, <1>9
<1> QED
  BY <1>10, <1>11

(* A variable is assigned.                                                 *)
LEMMA AssignmentIs ==
  ASSUME NEW v \in Variables, NEW b, b \in Seq(Tokens), b = <<v, Plain(":=")>>,
         Plain(Semicolon) \in Tokens, NEW q, NEW r, Means("exp", q, r), r.type = v.type,
         NEW x, x = (b \o q) \o <<Plain(Semicolon)>>, Len(x) <= MaxTokens
  PROVE  Sentence(x, <<Assign(v, r.value)>>) \in Sentences
<1> DEFINE p == PhraseFor(q, r)
<1>1. Plain(":=") \in Tokens
  BY ElementsTyped
<1>2. IsA("exp", p) /\ p.tokens = q /\ p.type = v.type /\ p.value = r.value
  BY PhraseOf
<1> HIDE DEF p
<1> DEFINE tokens == <<v, Plain(":=")>> \o p.tokens \o <<Plain(Semicolon)>>
           does == <<Assign(v, p.value)>>
           s == Sentence(tokens, does)
<1>3. IsSentence(s, tokens, does)
  BY DEF IsSentence
<1>4. s.tokens = tokens
  <2> HIDE DEF tokens, does, s
  <2> QED
    BY <1>3, SentenceSays
<1>5. x = tokens
  BY <1>2
<1>6. s \in Sentences
  <2>1. Len(s.tokens) <= MaxTokens
    BY <1>4, <1>5
  <2> HIDE DEF s
  <2> QED
    BY <1>1, <1>2, <1>3, <2>1, IsAssignment
<1>7. s = Sentence(x, <<Assign(v, r.value)>>)
  <2> HIDE DEF tokens
  <2> QED
    BY <1>2, <1>5
<1> QED
  BY <1>6, <1>7

LEMMA AttrEndTells == ASSUME IInv, MeantInv, AttrEnd PROVE MeantInv'
<1>1. At("attr", "value") /\ (Fail \/ (SemanticError /\ UNCHANGED lexVars) \/ Assigns)
  BY AttrEndIs
<1>2. CASE Fail
  BY <1>2, FailTells
<1>3. CASE SemanticError /\ UNCHANGED lexVars
  BY <1>3, ErrorTells
<1>4. CASE Assigns
  <2>1. status = "running" /\ Top.fn = "attr" /\ Top.at = "value" /\ entry \in Tokens
    BY <1>1 DEF At, IInv, LexInv
  <2>2. /\ ret.type = AssignedType /\ Match(Semicolon) /\ Finish
        /\ effects' = Append(effects, Assign(Top.symbol, Assigned))
    BY <1>4 DEF Assigns
  <2>3. Reads(<<entry>>) /\ entry = Plain(Semicolon) /\ Plain(Semicolon) \in Tokens
    <3>1. Reads(<<entry>>) /\ entry.tok = Semicolon
      BY <2>2, MatchReads DEF IInv, MeantInv
    <3>2. entry.tok # "constant" /\ entry.tok # "identifier"
      BY <3>1, Punctuation
    <3> QED
      BY <2>1, <3>1, <3>2, PlainToken
  <2>4. /\ Awaits(Top) /\ Top.fn \notin Inner /\ InPlace(gen, ret)
        /\ Top.op = "index" => InPlace(gen, Top.left)
    <3>1. Awaits(Top) /\ Top.fn \notin Inner
      BY <2>1 DEF Awaits, Inner
    <3>2. Top.op = "index" => HoldsLeft(Top)
      BY <2>1 DEF HoldsLeft
    <3> QED
      BY <2>1, <3>1, <3>2, TopFacts
  <2>5. EndsWithExp(Top, input, effects, entry.tok, ret) /\ Len(stack) = 1
    <3>1. HasRead(Top, input, effects, entry.tok, ret) /\ Len(stack) = 1
      BY <2>1, <2>4, RootReads
    <3> QED
      BY <2>1, <2>4, <3>1, ExpRead
  <2>6. PICK b, q : /\ Begun(Top, b, effects, entry.tok) /\ Means("exp", q, ret)
                    /\ input = b \o q
    BY <2>5 DEF EndsWithExp
  <2>7. /\ effects = <<>> /\ Top.symbol \in Variables /\ b \in Seq(Tokens)
        /\ Top.op = "index" => Plain(":=") \in Tokens /\ AfterIndex(Top, b)
        /\ Top.op # "index" => b = <<Top.symbol, Plain(":=")>>
    BY <2>1, <2>6, ValueRead
  <2>8. /\ input' = (b \o q) \o <<Plain(Semicolon)>> /\ Lengths' /\ Len(input') <= MaxTokens
        /\ status' = "ok"
    BY <2>2, <2>3, <2>6 DEF Reads, Lengths, Finish
  <2> DEFINE s == Sentence(input', <<Assign(Top.symbol, Assigned)>>)
  <2>9. s \in Sentences
    <3>1. CASE Top.op = "index"
      <4>1. AfterIndex(Top, b) /\ Plain(":=") \in Tokens /\ ret.type = "char"
        BY <2>2, <2>7, <3>1 DEF AssignedType
      <4>2. Top.symbol.type = "string" /\ Top.left.type = "int"
        BY <4>1 DEF AfterIndex, IndexRead
      <4>3. MemPart(gen) = Static
        <5>1. stack # <<>> /\ stack[1] = Top
          BY <2>1, <2>5, TopFacts DEF Top
        <5> QED
          BY <2>1, <5>1 DEF IInv
      <4>4. /\ Load(gen.memory, InfoOf(Top.symbol), 256) = Leaf(Top.symbol)
            /\ Load(gen.memory, Top.left, 4) = Top.left.value
        BY <2>4, <2>7, <3>1, <4>2, <4>3, StringLoaded DEF Variables
      <4>5. Load(gen.memory, ret, 1) = ret.value
        <5>1. SizeFromType(ret.type) = 1
          BY <4>1 DEF SizeFromType
        <5>2. Load(gen.memory, ret, SizeFromType(ret.type)) = ret.value
          BY <2>4, Loaded
        <5> QED
          BY <5>1, <5>2
      <4>6. Assigned = Term("update", "string",
                            <<Leaf(Top.symbol), Top.left.value, ret.value>>)
        BY <3>1, <4>4, <4>5 DEF Assigned, MovedIdx
      <4> DEFINE x == input'
      <4>7. x = (b \o q) \o <<Plain(Semicolon)>> /\ Len(x) <= MaxTokens
        BY <2>8
      <4> HIDE DEF x
      <4>8. Sentence(x, <<Assign(Top.symbol, Term("update", "string",
                                 <<Leaf(Top.symbol), Top.left.value, ret.value>>))>>)
              \in Sentences
        BY <2>3, <2>6, <4>1, <4>7, UpdateIs
      <4> QED
        BY <4>6, <4>8 DEF x
    <3>2. CASE Top.op # "index"
      <4>1. b = <<Top.symbol, Plain(":=")>> /\ ret.type = Top.symbol.type
        BY <2>2, <2>7, <3>2 DEF AssignedType
      <4>2. Assigned = ret.value
        BY <2>4, <3>2, Loaded DEF Assigned, Moved
      <4> DEFINE x == input'
      <4>3. x = (b \o q) \o <<Plain(Semicolon)>> /\ Len(x) <= MaxTokens
        BY <2>8
      <4> HIDE DEF x
      <4>4. Sentence(x, <<Assign(Top.symbol, ret.value)>>) \in Sentences
        BY <2>3, <2>6, <2>7, <4>1, <4>3, AssignmentIs
      <4> QED
        BY <4>2, <4>4 DEF x
    <3> QED
      BY <3>1, <3>2
  <2>10. s.tokens = input' /\ Alike(effects', s.does)
    <3> DEFINE does == <<Assign(Top.symbol, Assigned)>>
    <3>1. IsSentence(s, input', does)
      BY DEF IsSentence
    <3> HIDE DEF s
    <3>2. s.tokens = input' /\ s.does = does
      BY <3>1, SentenceSays
    <3>3. effects' = does /\ Alike(does, does)
      BY <2>2, <2>7, AlikeOne
    <3> QED
      BY <3>2, <3>3
  <2> HIDE DEF s
  <2> QED
    BY <2>8, <2>9, <2>10, Finished
<1> QED
  BY <1>1, <1>2, <1>3, <1>4

LEMMA CommandTells == ASSUME IInv, MeantInv, Command PROVE MeantInv'
BY ParenExpStartTells, ParenExpEndTells, WriteStartTells, WriteValueTells,
   WriteNextTells, WriteEndTells, ReadStartTells, ReadTells, ReadEndTells,
   AttrStartTells, AttrIndexStartTells, AttrIndexEndTells, AttrValueTells, AttrEndTells
DEF Command

-----------------------------------------------------------------------------
(* The specification.                                                      *)

(* Nothing has been read when the function of a command begins.            *)
LEMMA ToldFirst == ASSUME Init PROVE MeantInv
<1> DEFINE f == Frame(RootOf(entry.tok), "start")
<1>1. IInv /\ status = "running" /\ input = <<>> /\ effects = <<>>
  BY Initially DEF Init
<1>2. stack = <<f>>
  BY DEF Init
<1>3. f.fn = RootOf(entry.tok) /\ f.at = "start" /\ f.op = "none"
  BY FrameFacts
<1> HIDE DEF f
<1>4. Len(stack) = 1 /\ Top = f
  BY <1>2 DEF Top
<1>5. <<>> \in Seq(Tokens) /\ <<>> \o <<>> = <<>> /\ Len(<<>>) = 0
  BY EmptySeq, NoMore
<1>6. ~Awaits(f) /\ f.at # Semicolon /\ f.at # Comma
  BY <1>3, Punctuation DEF Awaits, Places
<1>7. Begun(f, <<>>, <<>>, entry.tok)
  <2>1. CASE f.fn = "attr"
    BY <1>3, <1>5, <2>1, BegunIs DEF AttrBegun
  <2>2. CASE f.fn = "write" /\ entry.tok \in {"write", "writeln"}
    BY <1>3, <1>5, <1>6, <2>2, BegunIs DEF WriteBegun
  <2>3. CASE f.fn = "readln"
    BY <1>3, <1>5, <1>6, <2>3, BegunIs DEF ReadBegun
  <2>4. CASE f.fn = "paren"
    BY <1>3, <1>5, <2>4, BegunIs DEF ParenBegun
  <2>5. \/ f.fn \in {"attr", "readln", "paren"}
        \/ f.fn = "write" /\ entry.tok \in {"write", "writeln"}
    BY <1>3 DEF Init, RootOf
  <2> QED
    BY <2>1, <2>2, <2>3, <2>4, <2>5
<1>8. HasRead(Top, <<>>, effects, entry.tok, ret)
  BY <1>1, <1>4, <1>6, <1>7, OwnRead
<1>9. Under(stack, 0, <<>>, effects, entry.tok)
  BY UnderNone
<1>10. Told
  <2>1. Len(stack) - 1 = 0
    BY <1>4
  <2> QED
    BY <1>1, <1>5, <1>8, <1>9, <2>1 DEF Told
<1>11. Linked(stack)
  BY <1>4 DEF Linked
<1>12. Lengths
  BY <1>1, <1>5, MaxTokensAssumption DEF Lengths
<1> QED
  BY <1>1, <1>10, <1>11, <1>12 DEF MeantInv, EffectsAreMeant

(* A step that changes nothing.                                            *)
LEMMA SameTells == ASSUME MeantInv, UNCHANGED vars PROVE MeantInv'
<1>1. /\ entry' = entry /\ found' = found /\ input' = input /\ stack' = stack
      /\ ret' = ret /\ status' = status /\ effects' = effects
  BY DEF vars, lexVars, parseVars, genVars
<1>2. Top' = Top
  BY <1>1 DEF Top
<1>3. Lengths'
  BY <1>1 DEF Lengths, MeantInv
<1>4. ASSUME status = "running" PROVE Linked(stack') /\ Told'
  <2>1. Linked(stack) /\ Told
    BY <1>4 DEF MeantInv
  <2> QED
    BY <1>1, <1>2, <2>1 DEF Told
<1>5. EffectsAreMeant'
  BY <1>1 DEF EffectsAreMeant, LeadingPlus, MeantInv, Expected, Sentences, CommandsOf
<1> QED
  BY <1>1, <1>3, <1>4, <1>5 DEF MeantInv

(* Every step keeps the division of the input.                             *)
LEMMA NextTells == ASSUME IInv, MeantInv, [Next]_vars PROVE MeantInv'
<1>1. CASE Factor
  BY <1>1, FactorTells
<1>2. CASE Operands
  BY <1>2, OperandsTell
<1>3. CASE Expression
  BY <1>3, ExpressionTells
<1>4. CASE Command
  BY <1>4, CommandTells
<1>5. CASE UNCHANGED vars
  BY <1>5, SameTells
<1> QED
  BY <1>1, <1>2, <1>3, <1>4, <1>5 DEF Next, Done

(* What is accepted is a command of the reference grammar, well typed, and *)
(* the generated program does what the grammar says it means: every        *)
(* operator is applied to the operands that the source gives it, with the  *)
(* precedence of syntatic_t, syntatic_exps and syntatic_exp, converted     *)
(* where one of two numbers is an integer, and every value that is tested, *)
(* written or assigned is the one of its expression.  Commands with a      *)
(* leading "+" are left out.                                               *)
THEOREM EffectsMeant == Spec => []EffectsAreMeant
<1>1. MeantInv => EffectsAreMeant
  BY DEF MeantInv
<1>2. Init => MeantInv
  BY ToldFirst
<1>3. IInv /\ MeantInv /\ [Next]_vars => MeantInv'
  BY NextTells
<1> QED
  BY <1>1, <1>2, <1>3, Inductive, PTL DEF Spec
=============================================================================
