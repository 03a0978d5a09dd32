------------------------- MODULE DeclarationsProofs -------------------------
(***************************************************************************)
(* Storage and its client, the declarations.                               *)
(*                                                                         *)
(* Storage, for every size of the temporary area, every set of literals    *)
(* and scratch sizes and every bound: the type invariant, that live values *)
(* never share a byte, and that the compiler's addresses are nasm's.       *)
(*                                                                         *)
(* NoOverlap is not inductive: it says nothing of the counters, and only   *)
(* the fact that each counter is past every value of its area keeps the    *)
(* next value clear of the others.  Packed adds that, and Separate states  *)
(* disjointness area by area, whether the temporaries fit or not.  The     *)
(* operand that a write list leaves over is below no counter: LeftInv says *)
(* that no temporary but a buffer is allocated before it is written, and   *)
(* for Declarations WritingInv says where the parser is meanwhile.         *)
(*                                                                         *)
(* Declarations, for any names and any folding of them, any hash, any      *)
(* number of slots, any program and any bounds: the values of Storage stay *)
(* sound under the calls that the parser makes, the table is a set of      *)
(* symbols, and every symbol is described once and before it is used.      *)
(*                                                                         *)
(* Nor are those of Declarations.  That a search finds the one symbol      *)
(* of a name needs every symbol to be in the slot of its name (TableInv).  *)
(* That a symbol is described once needs more, because "is new" is decided *)
(* one token early: while a declaration is open, three pointers of the     *)
(* parser may be to symbols without a value (the lookahead, the last       *)
(* token, the symbol being declared), and writing one of them is right     *)
(* only because the three are different and the symbol still is blank      *)
(* (PointersInv).  SymbolsInv then says of all the other identifiers what  *)
(* SymbolsHaveValues says of them when no declaration is open.             *)
(***************************************************************************)
EXTENDS Declarations, SequenceTheorems, TLAPS

(* Every value lies below its area's counter.                              *)
Packed == \A v \in values : v.address + v.size <= next[v.area]

(* Two values of one area share no byte.                                   *)
Separate ==
  \A v, w \in values :
    (v # w /\ v.area = w.area) =>
      \/ v.address + v.size <= w.address
      \/ w.address + w.size <= v.address

(* A leftover is a temporary, and the only other one is its buffer.        *)
LeftInv ==
  /\ \A v \in leftover : v.area = "tmp"
  /\ leftover # {} => \A v \in values : v.area = "tmp" => IsBuffer(v)

OverlapInv == TypeOK /\ Packed /\ Separate /\ LeftInv

(* nasm's location counters are the compiler's, past the labels.           *)
CountersAgree == \A s \in Sections : loc[s] = Base(s) + next[s]

LayoutInv == TypeOK /\ CountersAgree /\ LayoutAgrees

-----------------------------------------------------------------------------
(* What the helpers of the allocators return.                              *)

(* size_from_type returns one of three sizes, never 0, which is the        *)
(* assertion of get_next_address.                                          *)
LEMMA SizeOfType == \A t \in Types : SizeFromType(t) \in {1, 4, 256}
  BY DEF Types, SizeFromType

(* get_next_address never moves back.                                      *)
LEMMA AlignedNotBelow ==
  ASSUME NEW c \in Nat, NEW n \in Nat \ {0}
  PROVE  /\ AlignedAddress(c, n) \in Nat
         /\ AlignedAddress(c, n) >= c
         /\ NextAddress(c, n) \in Nat
         /\ NextAddress(c, n) = AlignedAddress(c, n) + n
<1>1. c % n \in 0 .. n - 1
  OBVIOUS
<1> QED
  BY <1>1 DEF AlignedAddress, NextAddress

(* nasm's padding is a natural number below the alignment.                 *)
LEMMA NasmAlignNat ==
  ASSUME NEW c \in Nat, NEW n \in Nat \ {0}
  PROVE  NasmAlign(c, n) \in Nat
<1>1. c % n \in 0 .. n - 1
  OBVIOUS
<1>2. (n - (c % n)) % n \in 0 .. n - 1
  BY <1>1
<1> QED
  BY <1>2 DEF NasmAlign

(* A literal of a type: the length matters for strings only.               *)
Literal(t, n) == n \in Nat /\ (t = "string" => n \in Contents)

(* A literal defines a natural number of bytes.                            *)
LEMMA EmittedNat ==
  ASSUME NEW t \in Types, NEW n, Literal(t, n)
  PROVE  EmittedBytes(t, n) \in Nat
<1>1. SizeFromType(t) \in Nat
  BY SizeOfType
<1>2. CASE t = "string"
  <2>1. n \in Nat /\ n + 1 < Word /\ Word \in Nat \ {0}
    BY <1>2, ContentsAssumption, WordAssumption DEF Literal
  <2>2. SizeFromType(t) + Word - (n + 1) \in Nat
    BY <1>1, <2>1
  <2>3. (SizeFromType(t) + Word - (n + 1)) % Word \in Nat
    BY <2>1, <2>2
  <2> QED
    BY <1>2, <2>1, <2>3 DEF EmittedBytes
<1>3. CASE t # "string"
  BY <1>1, <1>3 DEF EmittedBytes
<1> QED
  BY <1>2, <1>3

(* Every allocation is one of two actions: a value placed in a section, of *)
(* some type and some number of bytes, or a temporary, which is a buffer   *)
(* as long as there is a leftover.                                         *)
Allocates ==
  \/ \E t \in Types : Place("bss", SizeFromType(t), SizeFromType(t))
  \/ \E t \in Types, n \in Nat, a \in {"data", "rodata"} :
        Literal(t, n) /\ Place(a, SizeFromType(t), EmittedBytes(t, n))
  \/ \E size \in Nat \ {0} :
        (leftover = {} \/ next["tmp"] = 0) /\ AllocateTmp(size)
  \/ ResetForWrite
  \/ DropLeftover

LEMMA AddValueAllocates ==
  ASSUME NEW t \in Types, NEW n, Literal(t, n), NEW class, AddValue(t, class, n)
  PROVE  Allocates
BY DEF AddValue, Allocates, Literal

LEMMA AddTmpAllocates ==
  ASSUME NEW t \in Types, NEW n, Literal(t, n), leftover = {}, AddTmp(t, n)
  PROVE  Allocates
<1>1. CASE t \in {"string", "float"}
  BY <1>1, AddValueAllocates DEF AddTmp
<1>2. CASE t \notin {"string", "float"}
  BY <1>2, SizeOfType DEF AddTmp, Allocates
<1> QED
  BY <1>1, <1>2

LEMMA NextAllocates == Next => Allocates
<1> SUFFICES ASSUME Next
             PROVE  Allocates
  OBVIOUS
<1>1. \A t \in Types, n \in Contents : Literal(t, n)
  BY ContentsAssumption DEF Literal
<1>2. CASE \E t \in Types : AddUnnitValue(t)
  BY <1>2 DEF AddUnnitValue, Allocates
<1>3. CASE \E t \in Types, class \in Classes, n \in Contents :
             AddValue(t, class, n)
  BY <1>1, <1>3, AddValueAllocates
<1>4. CASE \E t \in Types, n \in Contents : leftover = {} /\ AddTmp(t, n)
  BY <1>1, <1>4, AddTmpAllocates
<1>5. CASE \E size \in ScratchSizes :
             (leftover = {} \/ next["tmp"] = 0) /\ AllocateTmp(size)
  BY <1>5, ScratchAssumption DEF Allocates
<1>6. CASE ResetForWrite \/ DropLeftover
  BY <1>6 DEF Allocates
<1> QED
  BY <1>2, <1>3, <1>4, <1>5, <1>6 DEF Next

-----------------------------------------------------------------------------
(* Type correctness.                                                       *)

(* A placement keeps the types, whatever its section, size and bytes.      *)
LEMMA PlaceTypes ==
  ASSUME TypeOK, NEW a \in Sections, NEW s \in Nat \ {0}, NEW b \in Nat,
         Place(a, s, b)
  PROVE  TypeOK'
<1>1. next[a] \in Nat /\ loc[a] \in Nat /\ a \in Areas
  BY DEF TypeOK, Sections, Areas
<1>2. NextAddress(next[a], s) \in Nat /\ AlignedAddress(next[a], s) \in Nat
  BY <1>1, AlignedNotBelow
<1>3. NasmAlign(loc[a], s) \in Nat /\ NasmAlign(loc[a], s) + b \in Nat
  BY <1>1, NasmAlignNat
<1>4. next' \in [Areas -> Nat] /\ loc' \in [Sections -> Nat]
  BY <1>1, <1>2, <1>3 DEF TypeOK, Place
<1>5. [area |-> a, address |-> AlignedAddress(next[a], s), size |-> s,
       at |-> NasmAlign(loc[a], s), end |-> NasmAlign(loc[a], s) + b]
        \in Values
  BY <1>1, <1>2, <1>3 DEF Values
<1>6. values' \subseteq Values /\ leftover' \subseteq Values
  BY <1>5 DEF TypeOK, Place
<1> QED
  BY <1>4, <1>6 DEF TypeOK

(* So does a temporary.                                                    *)
LEMMA TmpTypes ==
  ASSUME TypeOK, NEW s \in Nat \ {0}, AllocateTmp(s)
  PROVE  TypeOK'
<1>1. next["tmp"] \in Nat
  BY DEF TypeOK, Areas
<1>2. /\ NextAddress(next["tmp"], s) \in Nat
      /\ AlignedAddress(next["tmp"], s) \in Nat
  BY <1>1, AlignedNotBelow
<1>3. next' \in [Areas -> Nat] /\ loc' \in [Sections -> Nat]
  BY <1>2 DEF TypeOK, AllocateTmp
<1>4. [area |-> "tmp", address |-> AlignedAddress(next["tmp"], s), size |-> s,
       at |-> AlignedAddress(next["tmp"], s),
       end |-> AlignedAddress(next["tmp"], s) + s] \in Values
  BY <1>2 DEF Values, Areas
<1>5. values' \subseteq Values /\ leftover' \subseteq Values
  BY <1>4 DEF TypeOK, AllocateTmp
<1> QED
  BY <1>3, <1>5 DEF TypeOK

LEMMA InitTypes == Init => TypeOK
  BY TmpSizeAssumption DEF Init, TypeOK, Sections

LEMMA AllocatesTypes == TypeOK /\ (Allocates \/ UNCHANGED vars) => TypeOK'
<1> SUFFICES ASSUME TypeOK, Allocates \/ UNCHANGED vars
             PROVE  TypeOK'
  OBVIOUS
<1>1. ASSUME NEW t \in Types, Place("bss", SizeFromType(t), SizeFromType(t))
      PROVE  TypeOK'
  <2>1. SizeFromType(t) \in Nat \ {0}
    BY SizeOfType
  <2> QED
    BY <1>1, <2>1, PlaceTypes DEF Sections
<1>2. ASSUME NEW t \in Types, NEW n \in Nat, NEW a \in {"data", "rodata"},
             Literal(t, n), Place(a, SizeFromType(t), EmittedBytes(t, n))
      PROVE  TypeOK'
  <2>1. SizeFromType(t) \in Nat \ {0} /\ EmittedBytes(t, n) \in Nat
    BY <1>2, SizeOfType, EmittedNat
  <2> QED
    BY <1>2, <2>1, PlaceTypes DEF Sections
<1>3. CASE ResetForWrite \/ DropLeftover
  BY <1>3 DEF TypeOK, ResetForWrite, ResetTmp, ResetTmpKeeping, DropLeftover,
              Declared, Areas
<1>4. CASE UNCHANGED vars
  BY <1>4 DEF TypeOK, vars
<1> QED
  BY <1>1, <1>2, <1>3, <1>4, TmpTypes DEF Allocates

LEMMA NextTypes == TypeOK /\ [Next]_vars => TypeOK'
BY NextAllocates, AllocatesTypes

(* The counters of codegen.c and the values it hands to the parser keep    *)
(* their types in every compilation.                                       *)
THEOREM TypeCorrect == Spec => []TypeOK
  BY InitTypes, NextTypes, PTL DEF Spec

-----------------------------------------------------------------------------
(* Live values are disjoint.                                               *)

(* What every allocation does to the values: the new one starts at or past *)
(* the old counter of its area and the counter moves past it.              *)
Appended(a) ==
  \E x \in Values :
    /\ x.area = a
    /\ next[a] <= x.address
    /\ next' = [next EXCEPT ![a] = x.address + x.size]
    /\ values' = values \union {x}
    /\ leftover' = leftover
    /\ leftover # {} /\ a = "tmp" => IsBuffer(x)

LEMMA PlaceAppends ==
  ASSUME TypeOK, NEW a \in Sections, NEW s \in Nat \ {0}, NEW b \in Nat,
         Place(a, s, b)
  PROVE  Appended(a)
<1> DEFINE x == [area |-> a, address |-> AlignedAddress(next[a], s),
                 size |-> s, at |-> NasmAlign(loc[a], s),
                 end |-> NasmAlign(loc[a], s) + b]
<1>1. next[a] \in Nat /\ loc[a] \in Nat /\ a \in Areas
  BY DEF TypeOK, Sections, Areas
<1>2. /\ NextAddress(next[a], s) = x.address + x.size
      /\ x.address \in Nat /\ next[a] <= x.address
  BY <1>1, AlignedNotBelow
<1>3. NasmAlign(loc[a], s) \in Nat /\ NasmAlign(loc[a], s) + b \in Nat
  BY <1>1, NasmAlignNat
<1>4. x \in Values
  BY <1>1, <1>2, <1>3 DEF Values
<1>5. /\ next' = [next EXCEPT ![a] = x.address + x.size]
      /\ values' = values \union {x} /\ leftover' = leftover
  BY <1>2 DEF Place
<1>6. a # "tmp"
  BY DEF Sections
<1> QED
  BY <1>2, <1>4, <1>5, <1>6 DEF Appended

LEMMA TmpAppends ==
  ASSUME TypeOK, NEW s \in Nat \ {0}, AllocateTmp(s),
         leftover = {} \/ next["tmp"] = 0
  PROVE  Appended("tmp")
<1> DEFINE x == [area |-> "tmp", address |-> AlignedAddress(next["tmp"], s),
                 size |-> s, at |-> AlignedAddress(next["tmp"], s),
                 end |-> AlignedAddress(next["tmp"], s) + s]
<1>1. next["tmp"] \in Nat
  BY DEF TypeOK, Areas
<1>2. /\ NextAddress(next["tmp"], s) = x.address + x.size
      /\ x.address \in Nat /\ next["tmp"] <= x.address
  BY <1>1, AlignedNotBelow
<1>3. x \in Values
  BY <1>2 DEF Values, Areas
<1>4. /\ next' = [next EXCEPT !["tmp"] = x.address + x.size]
      /\ values' = values \union {x} /\ leftover' = leftover
  BY <1>2 DEF AllocateTmp
<1>5. next["tmp"] = 0 => AlignedAddress(next["tmp"], s) = 0
  BY DEF AlignedAddress
<1>6. leftover # {} => IsBuffer(x)
  BY <1>5 DEF IsBuffer
<1> QED
  BY <1>2, <1>3, <1>4, <1>6 DEF Appended

LEMMA AppendKeeps ==
  ASSUME OverlapInv, NEW a \in Areas, Appended(a)
  PROVE  Packed' /\ Separate' /\ LeftInv'
<1> USE DEF OverlapInv
<1>1. PICK x \in Values :
        /\ x.area = a
        /\ next[a] <= x.address
        /\ next' = [next EXCEPT ![a] = x.address + x.size]
        /\ values' = values \union {x}
        /\ leftover' = leftover
        /\ leftover # {} /\ a = "tmp" => IsBuffer(x)
  BY DEF Appended
<1>2. x.address \in Nat /\ x.size \in Nat
  BY <1>1 DEF Values
<1>3. \A v \in values : /\ v.area \in Areas
                        /\ v.address \in Nat /\ v.size \in Nat
                        /\ next[v.area] \in Nat
                        /\ v.address + v.size <= next[v.area]
  BY DEF TypeOK, Packed, Values
<1>4. Packed'
  <2> SUFFICES ASSUME NEW v \in values'
               PROVE  v.address + v.size <= next'[v.area]
    BY DEF Packed
  <2>1. CASE v = x
    BY <1>1, <1>2, <2>1 DEF TypeOK
  <2>2. CASE v \in values /\ v.area = a
    <3>1. next'[a] = x.address + x.size
      BY <1>1 DEF TypeOK
    <3> QED
      BY <1>1, <1>2, <1>3, <2>2, <3>1
  <2>3. CASE v \in values /\ v.area # a
    <3>1. next'[v.area] = next[v.area]
      BY <1>1, <1>3, <2>3 DEF TypeOK
    <3> QED
      BY <1>3, <2>3, <3>1
  <2> QED
    BY <1>1, <2>1, <2>2, <2>3
<1>5. Separate'
  <2> SUFFICES ASSUME NEW v \in values', NEW w \in values',
                      v # w, v.area = w.area
               PROVE  \/ v.address + v.size <= w.address
                      \/ w.address + w.size <= v.address
    BY DEF Separate
  <2>1. CASE v \in values /\ w \in values
    BY <2>1 DEF Separate
  <2>2. CASE v \in values /\ w = x
    BY <1>1, <1>2, <1>3, <2>2
  <2>3. CASE v = x /\ w \in values
    BY <1>1, <1>2, <1>3, <2>3
  <2> QED
    BY <1>1, <2>1, <2>2, <2>3
<1>6. LeftInv'
  BY <1>1 DEF LeftInv, IsBuffer
<1> QED
  BY <1>4, <1>5, <1>6

LEMMA InitOverlap == Init => OverlapInv
  BY InitTypes DEF Init, OverlapInv, Packed, Separate, LeftInv

LEMMA AllocatesOverlap ==
  OverlapInv /\ (Allocates \/ UNCHANGED vars) => OverlapInv'
<1> SUFFICES ASSUME OverlapInv, Allocates \/ UNCHANGED vars
             PROVE  Packed' /\ Separate' /\ LeftInv'
  BY AllocatesTypes DEF OverlapInv
<1> USE DEF OverlapInv
<1>1. ASSUME NEW t \in Types, Place("bss", SizeFromType(t), SizeFromType(t))
      PROVE  Packed' /\ Separate' /\ LeftInv'
  <2>1. SizeFromType(t) \in Nat \ {0}
    BY SizeOfType
  <2>2. Appended("bss")
    BY <1>1, <2>1, PlaceAppends DEF Sections
  <2> QED
    BY <2>2, AppendKeeps DEF Areas
<1>2. ASSUME NEW t \in Types, NEW n \in Nat, NEW a \in {"data", "rodata"},
             Literal(t, n), Place(a, SizeFromType(t), EmittedBytes(t, n))
      PROVE  Packed' /\ Separate' /\ LeftInv'
  <2>1. SizeFromType(t) \in Nat \ {0} /\ EmittedBytes(t, n) \in Nat
    BY <1>2, SizeOfType, EmittedNat
  <2>2. Appended(a)
    BY <1>2, <2>1, PlaceAppends DEF Sections
  <2> QED
    BY <2>2, AppendKeeps DEF Areas
<1>3. ASSUME NEW size \in Nat \ {0}, AllocateTmp(size),
             leftover = {} \/ next["tmp"] = 0
      PROVE  Packed' /\ Separate' /\ LeftInv'
  BY <1>3, TmpAppends, AppendKeeps DEF Areas
<1>4. CASE ResetForWrite
  <2>1. /\ values' = {v \in values : v.area # "tmp"}
        /\ next' = [next EXCEPT !["tmp"] = 0]
        /\ \A v \in leftover' : v.area = "tmp"
    BY <1>4 DEF ResetForWrite, ResetTmp, ResetTmpKeeping, Declared
  <2>2. \A v \in values' : v \in values /\ next'[v.area] = next[v.area]
    BY <2>1 DEF TypeOK, Values
  <2> QED
    BY <2>1, <2>2 DEF Packed, Separate, LeftInv
<1>5. CASE DropLeftover
  BY <1>5 DEF DropLeftover, Packed, Separate, LeftInv
<1>6. CASE UNCHANGED vars
  BY <1>6 DEF vars, Packed, Separate, LeftInv, IsBuffer
<1> QED
  BY <1>1, <1>2, <1>3, <1>4, <1>5, <1>6 DEF Allocates

LEMMA NextOverlap == OverlapInv /\ [Next]_vars => OverlapInv'
BY NextAllocates, AllocatesOverlap

(* The invariant implies the property: two values of one section are in    *)
(* one area, or one is a temporary and the other a .bss variable, which    *)
(* starts past TMP as long as the temporaries fit.                         *)
LEMMA AreasDisjoint ==
  ASSUME NEW v \in Values, NEW w \in Values, TmpSize \in Nat,
         v.area = "tmp" => v.address + v.size <= TmpSize,
         w.area = "tmp" => w.address + w.size <= TmpSize,
         v.area # w.area \/ v.address + v.size <= w.address
           \/ w.address + w.size <= v.address
  PROVE  Disjoint(v, w)
<1>1. /\ v.area \in Areas /\ v.address \in Nat /\ v.size \in Nat
      /\ w.area \in Areas /\ w.address \in Nat /\ w.size \in Nat
  BY DEF Values
<1>2. CASE v.area = w.area
  <2>1. Base(v.area) \in Nat /\ Base(v.area) = Base(w.area)
    BY <1>1, <1>2 DEF Base
  <2> QED
    BY <1>1, <1>2, <2>1 DEF Disjoint, First
<1>3. CASE v.area = "tmp" /\ w.area = "bss"
  BY <1>1, <1>3 DEF Disjoint, First, Base
<1>4. CASE v.area = "bss" /\ w.area = "tmp"
  BY <1>1, <1>4 DEF Disjoint, First, Base
<1>5. CASE SectionOf(v.area) # SectionOf(w.area)
  BY <1>5 DEF Disjoint
<1> QED
  BY <1>1, <1>2, <1>3, <1>4, <1>5 DEF SectionOf, Areas

LEMMA OverlapImplies == OverlapInv => NoOverlap
<1> SUFFICES ASSUME OverlapInv, TmpFits
             PROVE  /\ \A v, w \in values : v # w => Disjoint(v, w)
                    /\ \A v \in leftover, w \in values :
                         Disjoint(v, w) \/ IsBuffer(w)
  BY DEF NoOverlap
<1>1. /\ TmpSize \in Nat /\ values \subseteq Values /\ leftover \subseteq Values
      /\ \A v \in values \union leftover :
           v.area = "tmp" => v.address + v.size <= TmpSize
  BY TmpSizeAssumption DEF OverlapInv, TypeOK, TmpFits
<1>2. ASSUME NEW v \in values, NEW w \in values, v # w
      PROVE  Disjoint(v, w)
  <2>1. \/ v.area # w.area
        \/ v.address + v.size <= w.address
        \/ w.address + w.size <= v.address
    BY <1>2 DEF OverlapInv, Separate
  <2> QED
    BY <1>1, <2>1, AreasDisjoint
<1>3. ASSUME NEW v \in leftover, NEW w \in values, ~IsBuffer(w)
      PROVE  Disjoint(v, w)
  <2>1. v.area = "tmp" /\ w.area # "tmp"
    BY <1>3 DEF OverlapInv, LeftInv
  <2> QED
    BY <1>1, <2>1, AreasDisjoint
<1> QED
  BY <1>2, <1>3

(* No two live values share a byte while the temporaries fit, for every    *)
(* sequence of declarations, literals, operations and resets, but the      *)
(* operand that a write list left over and the buffer it is written with.  *)
THEOREM ValuesDisjoint == Spec => []NoOverlap
  BY InitOverlap, NextOverlap, OverlapImplies, PTL DEF Spec

-----------------------------------------------------------------------------
(* The compiler's layout is nasm's.                                        *)

(* Padding a location that is a multiple of 256 past the counter gives an  *)
(* address just as far past the rounded counter: this is why TMP has to be *)
(* a multiple of the largest size.                                         *)
LEMMA PaddingAgrees ==
  \A b, c, location \in Nat : \A n \in {1, 4, 256} :
    (b % 256 = 0 /\ location = b + c) =>
      NasmAlign(location, n) = b + AlignedAddress(c, n)
<1> TAKE b, c, location \in Nat
<1> TAKE n \in {1, 4, 256}
<1> HAVE b % 256 = 0 /\ location = b + c
<1>1. CASE n = 1
  BY <1>1 DEF NasmAlign, AlignedAddress
<1>2. CASE n = 4
  <2>1. location % 4 = c % 4
    OBVIOUS
  <2> QED
    BY <1>2, <2>1 DEF NasmAlign, AlignedAddress
<1>3. CASE n = 256
  <2>1. location % 256 = c % 256
    OBVIOUS
  <2> QED
    BY <1>3, <2>1 DEF NasmAlign, AlignedAddress
<1> QED
  BY <1>1, <1>2, <1>3

(* A literal that leaves room for its NUL defines exactly its size.        *)
LEMMA LiteralFits ==
  ASSUME NEW t \in Types, NEW n \in Nat, t = "string" => n <= 255
  PROVE  EmittedBytes(t, n) = SizeFromType(t)
<1>1. Word \in Nat /\ Word > 256
  BY WordAssumption
<1>2. CASE t = "string"
  <2>1. SizeFromType(t) = 256
    BY <1>2 DEF SizeFromType
  <2>2. 256 - (n + 1) \in 0 .. Word - 1
    BY <1>1, <1>2
  <2>3. (256 + Word - (n + 1)) % Word = 256 - (n + 1)
    BY <1>1, <2>2
  <2> QED
    BY <1>2, <2>1, <2>3 DEF EmittedBytes
<1>3. CASE t # "string"
  BY <1>3 DEF EmittedBytes
<1> QED
  BY <1>2, <1>3

LEMMA BaseMultiple == \A s \in Sections : Base(s) \in Nat /\ Base(s) % 256 = 0
  BY TmpSizeAssumption DEF Base

LEMMA PlaceAgrees ==
  ASSUME LayoutInv, NEW a \in Sections, NEW n \in {1, 4, 256}, Place(a, n, n)
  PROVE  CountersAgree' /\ LayoutAgrees'
<1>1. next[a] \in Nat /\ loc[a] = Base(a) + next[a] /\ a \in Areas
  BY DEF LayoutInv, CountersAgree, TypeOK, Sections, Areas
<1>2. NasmAlign(loc[a], n) = Base(a) + AlignedAddress(next[a], n)
  <2>1. Base(a) \in Nat /\ Base(a) % 256 = 0
    BY BaseMultiple
  <2> QED
    BY <1>1, <2>1, PaddingAgrees
<1>3. AlignedAddress(next[a], n) \in Nat /\ Base(a) \in Nat
  <2>1. n \in Nat \ {0}
    OBVIOUS
  <2> QED
    BY <1>1, <2>1, AlignedNotBelow, BaseMultiple
<1>4. CountersAgree'
  <2> SUFFICES ASSUME NEW s \in Sections
               PROVE  loc'[s] = Base(s) + next'[s]
    BY DEF CountersAgree
  <2>1. CASE s = a
    <3>1. /\ loc'[a] = NasmAlign(loc[a], n) + n
          /\ next'[a] = AlignedAddress(next[a], n) + n
      BY <1>1 DEF Place, LayoutInv, TypeOK, NextAddress
    <3> QED
      BY <1>2, <1>3, <2>1, <3>1
  <2>2. CASE s # a
    <3>1. s \in Areas
      BY DEF Sections, Areas
    <3>2. loc'[s] = loc[s] /\ next'[s] = next[s]
      BY <2>2, <3>1 DEF Place, LayoutInv, TypeOK
    <3> QED
      BY <3>2 DEF LayoutInv, CountersAgree
  <2> QED
    BY <2>1, <2>2
<1>5. LayoutAgrees'
  <2> SUFFICES ASSUME NEW v \in values'
               PROVE  v.at = First(v) /\ v.end = v.at + v.size
    BY DEF LayoutAgrees, First
  <2>1. CASE v \in values
    BY <2>1 DEF LayoutInv, LayoutAgrees
  <2>2. CASE v = [area |-> a, address |-> AlignedAddress(next[a], n),
                  size |-> n, at |-> NasmAlign(loc[a], n),
                  end |-> NasmAlign(loc[a], n) + n]
    BY <1>2, <2>2 DEF First
  <2> QED
    BY <2>1, <2>2 DEF Place
<1> QED
  BY <1>4, <1>5

LEMMA InitLayout == Init => LayoutInv
<1> SUFFICES ASSUME Init
             PROVE  CountersAgree /\ LayoutAgrees
  BY InitTypes DEF LayoutInv
<1>1. CountersAgree
  BY TmpSizeAssumption DEF Init, CountersAgree, Sections, Areas, Base
<1> QED
  BY <1>1 DEF Init, LayoutAgrees

LEMMA AllocatesLayout ==
  ASSUME \A n \in Contents : n <= 255
  PROVE  LayoutInv /\ (Allocates \/ UNCHANGED vars) => LayoutInv'
<1> SUFFICES ASSUME LayoutInv, Allocates \/ UNCHANGED vars
             PROVE  CountersAgree' /\ LayoutAgrees'
  BY AllocatesTypes DEF LayoutInv
<1>1. ASSUME NEW t \in Types, Place("bss", SizeFromType(t), SizeFromType(t))
      PROVE  CountersAgree' /\ LayoutAgrees'
  <2>1. SizeFromType(t) \in {1, 4, 256}
    BY SizeOfType
  <2> QED
    BY <1>1, <2>1, PlaceAgrees DEF Sections
<1>2. ASSUME NEW t \in Types, NEW n \in Nat, NEW a \in {"data", "rodata"},
             Literal(t, n), Place(a, SizeFromType(t), EmittedBytes(t, n))
      PROVE  CountersAgree' /\ LayoutAgrees'
  <2>1. SizeFromType(t) \in {1, 4, 256}
    BY SizeOfType
  <2>2. EmittedBytes(t, n) = SizeFromType(t)
    BY <1>2, LiteralFits DEF Literal
  <2> QED
    BY <1>2, <2>1, <2>2, PlaceAgrees DEF Sections
<1>3. ASSUME NEW size \in Nat \ {0}, AllocateTmp(size)
      PROVE  CountersAgree' /\ LayoutAgrees'
  <2>1. AlignedAddress(next["tmp"], size) \in Nat
    BY AlignedNotBelow DEF LayoutInv, TypeOK, Areas
  <2>2. CountersAgree'
    BY <1>3 DEF AllocateTmp, LayoutInv, CountersAgree, TypeOK, Sections
  <2>3. LayoutAgrees'
    BY <1>3, <2>1 DEF AllocateTmp, LayoutInv, LayoutAgrees, First, Base
  <2> QED
    BY <2>2, <2>3
<1>4. CASE ResetForWrite \/ DropLeftover
  <2>1. values' \subseteq values /\ loc' = loc
        /\ \A s \in Sections : next'[s] = next[s]
    BY <1>4 DEF ResetForWrite, ResetTmp, ResetTmpKeeping, DropLeftover, Declared,
                LayoutInv, TypeOK, Sections, Areas
  <2> QED
    BY <2>1 DEF LayoutInv, CountersAgree, LayoutAgrees, First
<1>5. CASE UNCHANGED vars
  BY <1>5 DEF vars, LayoutInv, CountersAgree, LayoutAgrees, First
<1> QED
  BY <1>1, <1>2, <1>3, <1>4, <1>5 DEF Allocates

LEMMA NextLayout ==
  ASSUME \A n \in Contents : n <= 255
  PROVE  LayoutInv /\ [Next]_vars => LayoutInv'
BY NextAllocates, AllocatesLayout

(* If every string literal leaves room for its NUL in the 256 bytes of a   *)
(* string, then in every compilation the address the compiler writes in    *)
(* the instructions is where nasm put the value, with its whole size.      *)
THEOREM LayoutAgreement ==
  ASSUME \A n \in Contents : n <= 255
  PROVE  Spec => []LayoutAgrees
<1>1. LayoutInv => LayoutAgrees
  BY DEF LayoutInv
<1> QED
  BY <1>1, InitLayout, NextLayout, PTL DEF Spec

-----------------------------------------------------------------------------
(* Symbols are in the slots of their lexemes and, but for case, no two     *)
(* have the same one.                                                      *)
TableInv(t) ==
  /\ t \in Tables
  /\ \A p \in EntriesOf(t) : p.slot = SlotOf(At(t, p).lexeme)
  /\ \A p, q \in EntriesOf(t) : Same(At(t, p).lexeme, At(t, q).lexeme) => p = q

(* A token's symbol is an identifier's, of the token's name.               *)
EntryGood(t, e) ==
  /\ e \in Entries
  /\ e.symbol # Null =>
       /\ e.symbol \in EntriesOf(t)
       /\ Same(At(t, e.symbol).lexeme, e.name)
       /\ e.token = "identifier" /\ At(t, e.symbol).token = "identifier"
  /\ e.new => e.symbol # Null
  /\ e.type = "string" => e.length \in Contents

(* An identifier that is not declared.                                     *)
Blank(t, p) ==
  /\ p \in EntriesOf(t) /\ At(t, p).token = "identifier"
  /\ At(t, p).class = "none" /\ At(t, p).section = "none"

(* Where the last token is about to be used, and where the declaration's   *)
(* symbol has no value yet.                                                *)
Reading == {"varDeclare", "constDeclare", "used"}
VarPcs == {"varValue", "varMinus", "varConstant", "varInit"}
ConstPcs == {"constEqual", "constMinus", "constConstant", "constInit"}
Writing == {"write", "written"}
Pcs == {"main", "start", "command", "varName", "constName", "varNext",
        "constEnd"} \union Writing \union Reading \union VarPcs \union ConstPcs

Decls == [type : Types, id : Pointers \union {Null},
          minus : BOOLEAN, listed : BOOLEAN]

ParserTypes ==
  /\ populated \in 0 .. Len(Keywords)
  /\ found \in BOOLEAN
  /\ pc \in Pcs
  /\ status \in {"running", "ok", "failed", "aborted"}
  /\ pc # "main" => status = "running"
  /\ decl \in Decls /\ decl.id \in EntriesOf(table) \union {Null}

(* The parser's pointers are to different symbols, and to such as it has   *)
(* not described yet.                                                      *)
PointersInv ==
  /\ pc = "main" => entry = ZeroEntry
  /\ entry.new => /\ ~found /\ Blank(table, entry.symbol)
                  /\ entry.symbol # last.symbol /\ entry.symbol # decl.id
  /\ pc \in Reading /\ last.new => Blank(table, last.symbol)
  /\ pc \in VarPcs =>
       /\ decl.id # Null /\ Symbol.token = "identifier"
       /\ Symbol.section = "none"
       /\ Symbol.class = "var" /\ Symbol.type = decl.type
  /\ pc \in ConstPcs => Blank(table, decl.id)

(* The identifiers without a value.                                        *)
Owing ==
  (IF entry.new THEN {entry.symbol} ELSE {})
    \union (IF pc \in Reading /\ last.new THEN {last.symbol} ELSE {})
    \union (IF pc \in VarPcs \union ConstPcs THEN {decl.id} ELSE {})

Settled == Identifiers \ Owing
SamePlace(s, t) == s.section = t.section /\ s.address = t.address

SymbolsInv ==
  status \in {"running", "ok"} =>
    /\ \A p \in Settled : HasValue(At(table, p))
    /\ \A p, q \in Settled : p # q => ~SamePlace(At(table, p), At(table, q))

DeclInv ==
  /\ OverlapInv
  /\ TableInv(table) /\ EntryGood(table, entry) /\ EntryGood(table, last)
  /\ ParserTypes /\ PointersInv /\ SymbolsInv

(* A value is left over only while the parser writes it, and the buffer is *)
(* the first temporary after the reset.                                    *)
WritingInv ==
  /\ pc \notin Writing => leftover = {}
  /\ pc = "write" => next["tmp"] = 0

(* What a step may do to the table: nothing, add a symbol, describe one.   *)
Kept(t, u, p) ==
  \A q \in EntriesOf(t) : q # p => At(u, q) = At(t, q)
Grew(p) ==
  /\ p \notin EntriesOf(table) /\ EntriesOf(table') = EntriesOf(table) \union {p}
  /\ Kept(table, table', p)
  /\ At(table', p).class = "none" /\ At(table', p).section = "none"
Wrote(p) ==
  /\ p \in EntriesOf(table) /\ EntriesOf(table') = EntriesOf(table)
  /\ Kept(table, table', p)
  /\ At(table', p).lexeme = At(table, p).lexeme
  /\ At(table', p).token = "identifier" /\ At(table, p).token = "identifier"
  /\ At(table, p).section = "none"
  /\ At(table, p).class \in {"none", At(table', p).class}
  /\ At(table', p) # At(table, p)
TableStep == table' = table \/ \E p : Grew(p) \/ Wrote(p)

-----------------------------------------------------------------------------
(* The table.                                                              *)

LEMMA SlotOfName ==
  ASSUME NEW n \in Names
  PROVE  /\ SlotOf(n) \in Slots
         /\ \A m \in Names : Same(m, n) => SlotOf(m) = SlotOf(n)
<1>1. CharSum[Fold[n]] \in Nat /\ Capacity \in Nat \ {0}
  BY FoldAssumption, CharSumAssumption, CapacityAssumption
<1>2. \A a \in Nat, b \in Nat \ {0} : a % b \in 0 .. b - 1
  OBVIOUS
<1> QED
  BY <1>1, <1>2 DEF SlotOf, HashSymbolLexeme, Slots, Same

(* What pointers to symbols are.                                           *)
LEMMA PointersOf ==
  ASSUME NEW t \in Tables
  PROVE  /\ \A p : p \in EntriesOf(t) <=>
              \E s \in Slots : \E i \in 1 .. Len(t[s]) : p = [slot |-> s, place |-> i]
         /\ \A p \in EntriesOf(t) :
              /\ p \in Pointers /\ p # Null
              /\ p.slot \in Slots /\ p.place \in 1 .. Len(t[p.slot])
              /\ p = [slot |-> p.slot, place |-> p.place]
              /\ At(t, p) \in Symbols
<1>1. \A s \in Slots : t[s] \in Seq(Symbols) /\ DOMAIN t[s] = 1 .. Len(t[s])
  BY DEF Tables
<1>2. \A p : p \in EntriesOf(t) <=>
        \E s \in Slots : \E i \in 1 .. Len(t[s]) : p = [slot |-> s, place |-> i]
  BY <1>1 DEF EntriesOf
<1>3. \A s \in Slots : \A i \in 1 .. Len(t[s]) : i \in Nat \ {0} /\ t[s][i] \in Symbols
  BY <1>1
<1> QED
  BY <1>2, <1>3 DEF Pointers, Null, At

(* Search finds the symbol of a name, and only that.                       *)
LEMMA SearchFinds ==
  ASSUME NEW t, TableInv(t), NEW n \in Names
  PROVE  /\ Places(t, n) = {} <=> Search(t, n) = Null
         /\ Search(t, n) # Null =>
              /\ Search(t, n) \in EntriesOf(t)
              /\ Same(At(t, Search(t, n)).lexeme, n)
         /\ \A p \in EntriesOf(t) :
              Same(At(t, p).lexeme, n) => p = Search(t, n) /\ Places(t, n) # {}
<1> DEFINE s == SlotOf(n)
<1>1. s \in Slots /\ t \in Tables /\ t[s] \in Seq(Symbols)
  BY SlotOfName DEF TableInv, Tables
<1>2. \A i \in Places(t, n) :
        /\ i \in Nat \ {0}
        /\ [slot |-> s, place |-> i] \in EntriesOf(t)
        /\ Same(At(t, [slot |-> s, place |-> i]).lexeme, n)
  BY <1>1, PointersOf DEF Places, At
<1>3. \A i, j \in Places(t, n) : i = j
  <2> SUFFICES ASSUME NEW i \in Places(t, n), NEW j \in Places(t, n)
               PROVE  i = j
    OBVIOUS
  <2>1. Same(At(t, [slot |-> s, place |-> i]).lexeme,
             At(t, [slot |-> s, place |-> j]).lexeme)
    BY <1>2 DEF Same
  <2>2. [slot |-> s, place |-> i] = [slot |-> s, place |-> j]
    BY <1>2, <2>1 DEF TableInv
  <2> QED
    BY <2>2
<1>4. \A p \in EntriesOf(t) : Same(At(t, p).lexeme, n) =>
        p.place \in Places(t, n) /\ p = [slot |-> s, place |-> p.place]
  <2> SUFFICES ASSUME NEW p \in EntriesOf(t), Same(At(t, p).lexeme, n)
               PROVE  p.place \in Places(t, n) /\ p = [slot |-> s, place |-> p.place]
    OBVIOUS
  <2>1. /\ p = [slot |-> p.slot, place |-> p.place]
        /\ p.place \in 1 .. Len(t[p.slot]) /\ At(t, p) \in Symbols
    BY <1>1, PointersOf
  <2>2. p.slot = s
    <3>1. At(t, p).lexeme \in Names
      BY <2>1 DEF Symbols
    <3> QED
      BY <3>1, SlotOfName DEF TableInv
  <2> QED
    BY <1>1, <2>1, <2>2 DEF Places, At
<1>5. CASE Places(t, n) = {}
  BY <1>4, <1>5 DEF Search
<1>6. CASE Places(t, n) # {}
  <2>1. PICK i \in Places(t, n) : TRUE
    BY <1>6
  <2>2. Places(t, n) = {i} /\ i <= i
    <3>1. i \in Nat
      BY <1>2, <2>1
    <3>2. Places(t, n) = {i}
      BY <1>3, <2>1
    <3> QED
      BY <3>1, <3>2
  <2>3. (CHOOSE k \in Places(t, n) : \A j \in Places(t, n) : k <= j) = i
    BY <2>2
  <2>4. Search(t, n) = [slot |-> s, place |-> i]
    BY <1>6, <2>3 DEF Search
  <2>5. Search(t, n) # Null
    BY <1>2, <2>1, <2>4 DEF Null
  <2> QED
    BY <1>2, <1>4, <1>6, <2>2, <2>4, <2>5
<1> QED
  BY <1>5, <1>6

(* The place a new symbol gets.                                            *)
NewPlace(t, n) == [slot |-> SlotOf(n), place |-> Len(t[SlotOf(n)]) + 1]

(* A new name gets a symbol of its own, and pointers stay valid.           *)
LEMMA InsertKeeps ==
  ASSUME NEW t, TableInv(t), NEW n \in Names, NEW token \in WordTokens,
         Places(t, n) = {},
         NEW u, u = Insert(t, n, token)
  PROVE  /\ TableInv(u)
         /\ NewPlace(t, n) \notin EntriesOf(t)
         /\ EntriesOf(u) = EntriesOf(t) \union {NewPlace(t, n)}
         /\ \A p \in EntriesOf(t) : At(u, p) = At(t, p)
         /\ At(u, NewPlace(t, n)) = NewSymbol(n, token)
         /\ Search(u, n) = NewPlace(t, n)
<1> DEFINE s == SlotOf(n)
           new == NewSymbol(n, token)
<1>1. s \in Slots /\ t \in Tables /\ t[s] \in Seq(Symbols) /\ Len(t[s]) \in Nat
  BY SlotOfName DEF TableInv, Tables
<1>2. new \in Symbols /\ new.lexeme = n
  BY DEF NewSymbol, Symbols
<1>3. u = [t EXCEPT ![s] = Append(t[s], new)]
  BY DEF Insert
<1> HIDE DEF new
<1>4. /\ Append(t[s], new) \in Seq(Symbols)
      /\ Len(Append(t[s], new)) = Len(t[s]) + 1
      /\ \A i \in 1 .. Len(t[s]) : Append(t[s], new)[i] = t[s][i]
      /\ Append(t[s], new)[Len(t[s]) + 1] = new
  BY <1>1, <1>2, AppendProperties
<1>5. /\ u \in Tables
      /\ u[s] = Append(t[s], new)
      /\ \A r \in Slots : r # s => u[r] = t[r]
  BY <1>1, <1>3, <1>4 DEF Tables
<1>6. NewPlace(t, n) \notin EntriesOf(t)
  <2>1. ~(Len(t[s]) + 1 \in 1 .. Len(t[s]))
    BY <1>1
  <2> QED
    BY <1>1, <2>1, PointersOf DEF NewPlace
<1>7. EntriesOf(u) = EntriesOf(t) \union {NewPlace(t, n)}
  <2>1. \A r \in Slots : \A i :
          i \in 1 .. Len(u[r]) <=> i \in 1 .. Len(t[r]) \/ (r = s /\ i = Len(t[s]) + 1)
    BY <1>1, <1>4, <1>5
  <2> QED
    BY <1>1, <1>5, <2>1, PointersOf DEF NewPlace
<1>8. \A p \in EntriesOf(t) : At(u, p) = At(t, p)
  BY <1>1, <1>4, <1>5, PointersOf DEF At
<1>9. At(u, NewPlace(t, n)) = new
  BY <1>4, <1>5 DEF At, NewPlace
<1>10. \A p \in EntriesOf(t) : ~Same(At(t, p).lexeme, n)
  BY SearchFinds
<1>11. TableInv(u)
  <2>1. \A p \in EntriesOf(u) : p.slot = SlotOf(At(u, p).lexeme)
    BY <1>2, <1>7, <1>8, <1>9 DEF TableInv, NewPlace
  <2>2. \A p, q \in EntriesOf(u) : Same(At(u, p).lexeme, At(u, q).lexeme) => p = q
    BY <1>2, <1>7, <1>8, <1>9, <1>10 DEF TableInv, Same
  <2> QED
    BY <1>5, <2>1, <2>2 DEF TableInv
<1>12. Search(u, n) = NewPlace(t, n)
  BY <1>2, <1>7, <1>9, <1>11, SearchFinds DEF Same
<1> QED
  BY <1>6, <1>7, <1>8, <1>9, <1>11, <1>12 DEF new

(* Writing the fields of a symbol but its lexeme.                          *)
LEMMA AssignKeeps ==
  ASSUME NEW t, TableInv(t), NEW p \in EntriesOf(t), NEW symbol \in Symbols,
         symbol.lexeme = At(t, p).lexeme,
         NEW u, u = Assign(t, p, symbol)
  PROVE  /\ TableInv(u)
         /\ EntriesOf(u) = EntriesOf(t)
         /\ At(u, p) = symbol
         /\ \A q \in EntriesOf(t) : q # p => At(u, q) = At(t, q)
<1> DEFINE s == p.slot
           i == p.place
<1>1. /\ t \in Tables /\ s \in Slots /\ t[s] \in Seq(Symbols) /\ i \in 1 .. Len(t[s])
      /\ p = [slot |-> s, place |-> i]
  BY PointersOf DEF TableInv, Tables
<1>2. u = [t EXCEPT ![s] = [t[s] EXCEPT ![i] = symbol]]
  BY DEF Assign
<1>3. /\ [t[s] EXCEPT ![i] = symbol] \in Seq(Symbols)
      /\ Len([t[s] EXCEPT ![i] = symbol]) = Len(t[s])
      /\ \A j \in 1 .. Len(t[s]) :
           [t[s] EXCEPT ![i] = symbol][j] = IF j = i THEN symbol ELSE t[s][j]
  BY <1>1, ExceptSeq
<1>4. /\ u \in Tables
      /\ u[s] = [t[s] EXCEPT ![i] = symbol]
      /\ \A r \in Slots : r # s => u[r] = t[r]
  BY <1>1, <1>2, <1>3 DEF Tables
<1>5. EntriesOf(u) = EntriesOf(t)
  <2>1. \A r \in Slots : \A k : k \in 1 .. Len(u[r]) <=> k \in 1 .. Len(t[r])
    BY <1>3, <1>4
  <2>2. \A q : q \in EntriesOf(u) <=> q \in EntriesOf(t)
    BY <1>1, <1>4, <2>1, PointersOf
  <2> QED
    BY <2>2
<1>6. At(u, p) = symbol
  BY <1>1, <1>3, <1>4 DEF At
<1>7. \A q \in EntriesOf(t) : q # p => At(u, q) = At(t, q)
  <2> SUFFICES ASSUME NEW q \in EntriesOf(t), q # p
               PROVE  At(u, q) = At(t, q)
    OBVIOUS
  <2>1. /\ q.slot \in Slots /\ q.place \in 1 .. Len(t[q.slot])
        /\ q = [slot |-> q.slot, place |-> q.place]
    BY <1>1, PointersOf
  <2>2. CASE q.slot = s
    BY <1>1, <1>3, <1>4, <2>1, <2>2 DEF At
  <2>3. CASE q.slot # s
    BY <1>4, <2>1, <2>3 DEF At
  <2> QED
    BY <2>2, <2>3
<1>8. TableInv(u)
  <2>1. \A q \in EntriesOf(t) : At(u, q).lexeme = At(t, q).lexeme
    BY <1>6, <1>7
  <2> QED
    BY <1>4, <1>5, <2>1 DEF TableInv
<1> QED
  BY <1>5, <1>6, <1>7, <1>8

-----------------------------------------------------------------------------
(* The lookahead.                                                          *)

LEMMA GoodStays ==
  ASSUME NEW t, NEW u, NEW e, EntryGood(t, e),
         EntriesOf(t) \subseteq EntriesOf(u),
         \A p \in EntriesOf(t) : /\ At(u, p).lexeme = At(t, p).lexeme
                                 /\ At(u, p).token = At(t, p).token
  PROVE  EntryGood(u, e)
BY DEF EntryGood

(* The next token: it is new just if it has made the table grow.           *)
Looked ==
  /\ TableInv(table') /\ EntryGood(table', entry')
  /\ found' \in BOOLEAN
  /\ entry'.new => /\ ~found' /\ Grew(entry'.symbol)
                   /\ Blank(table', entry'.symbol)
  /\ ~entry'.new => table' = table

LEMMA ZeroGood == \A t : EntryGood(t, ZeroEntry) /\ ~ZeroEntry.new
BY NoNameAssumption DEF EntryGood, ZeroEntry, Entries, Tokens, WordTokens, Types

LEMMA NextTokenLooks == TableInv(table) /\ NextToken => Looked
<1> SUFFICES ASSUME TableInv(table), NextToken
             PROVE  Looked
  OBVIOUS
<1>1. found' = FALSE
  BY DEF NextToken
<1>2. CASE entry' \in PlainEntries \union ConstantEntries /\ UNCHANGED table
  <2>1. CASE entry' \in PlainEntries
    <3>1. PICK token \in Tokens : entry' = Plain(token)
      BY <2>1 DEF PlainEntries
    <3>2. EntryGood(table', entry') /\ ~entry'.new
      BY <3>1 DEF EntryGood, Plain, ZeroEntry, Entries, Types
    <3> QED
      BY <1>1, <1>2, <3>2 DEF Looked
  <2>2. CASE entry' \in ConstantEntries
    <3>1. PICK t \in Types, n \in Nat :
            entry' = Constant(t, n) /\ (t = "string" => n \in Contents)
      BY <2>2, ConstantTypesAssumption, ContentsAssumption DEF ConstantEntries
    <3>2. EntryGood(table', entry') /\ ~entry'.new
      BY <3>1 DEF EntryGood, Constant, Plain, ZeroEntry, Entries, Tokens, WordTokens
    <3> QED
      BY <1>1, <1>2, <3>2 DEF Looked
  <2> QED
    BY <1>2, <2>1, <2>2
<1>3. ASSUME NEW name \in Names,
             entry' = IF Search(table, name) = Null
                      THEN NewWord(name) ELSE KnownWord(name),
             table' = Insert(table, name, "identifier")
      PROVE  Looked
  <2>1. CASE Places(table, name) = {}
    <3> DEFINE p == NewPlace(table, name)
    <3>1. /\ TableInv(table') /\ p \notin EntriesOf(table)
          /\ EntriesOf(table') = EntriesOf(table) \union {p}
          /\ \A q \in EntriesOf(table) : At(table', q) = At(table, q)
          /\ At(table', p) = NewSymbol(name, "identifier")
          /\ Search(table', name) = p
      BY <1>3, <2>1, InsertKeeps DEF WordTokens
    <3>2. entry' = NewWord(name)
      BY <1>3, <2>1, SearchFinds
    <3>3. p \in Pointers /\ p # Null
      BY <3>1, PointersOf DEF TableInv
    <3> HIDE DEF p
    <3>4. entry' = [ZeroEntry EXCEPT !.name = name, !.new = TRUE, !.symbol = p]
      BY <1>3, <3>1, <3>2 DEF NewWord
    <3>5. EntryGood(table', entry') /\ entry'.new /\ entry'.symbol = p
      <4>1. entry' = [token |-> "identifier", name |-> name, new |-> TRUE,
                      symbol |-> p, type |-> "logic", length |-> 0]
        BY <3>4 DEF ZeroEntry
      <4>2. entry' \in Entries
        BY <3>3, <4>1 DEF Entries, Tokens, WordTokens, Types
      <4>3. /\ At(table', p).lexeme = name /\ At(table', p).token = "identifier"
            /\ p \in EntriesOf(table')
        BY <3>1 DEF NewSymbol
      <4> QED
        BY <3>3, <4>1, <4>2, <4>3 DEF EntryGood, Same
    <3>6. Grew(p) /\ Blank(table', p)
      BY <3>1 DEF Grew, Blank, NewSymbol, Kept
    <3> QED
      BY <1>1, <3>1, <3>5, <3>6 DEF Looked
  <2>2. CASE Places(table, name) # {}
    <3> DEFINE p == Search(table, name)
    <3>1. /\ p # Null /\ p \in EntriesOf(table) /\ p \in Pointers
          /\ Same(At(table, p).lexeme, name)
          /\ At(table, p) \in Symbols
      BY <2>2, SearchFinds, PointersOf DEF TableInv
    <3>2. entry' = KnownWord(name) /\ table' = table
      BY <1>3, <2>2, <3>1 DEF Insert
    <3>3. At(table, p).token \in WordTokens
      BY <3>1 DEF Symbols
    <3> HIDE DEF p
    <3>4. entry' = [Plain(At(table, p).token) EXCEPT
                      !.name = name,
                      !.symbol = IF At(table, p).token = "identifier"
                                 THEN p ELSE Null]
      BY <3>2 DEF KnownWord, p
    <3>5. EntryGood(table, entry') /\ ~entry'.new
      <4> DEFINE q == IF At(table, p).token = "identifier" THEN p ELSE Null
      <4>1. entry' = [token |-> At(table, p).token, name |-> name, new |-> FALSE,
                      symbol |-> q, type |-> "logic", length |-> 0]
        BY <3>4 DEF Plain, ZeroEntry
      <4>2. entry' \in Entries
        BY <3>1, <3>3, <4>1 DEF Entries, Tokens, Types
      <4> QED
        BY <3>1, <4>1, <4>2 DEF EntryGood
    <3> QED
      BY <1>1, <3>2, <3>5 DEF Looked
  <2> QED
    BY <2>1, <2>2
<1> QED
  BY <1>2, <1>3 DEF NextToken

LEMMA MatchLooks ==
  ASSUME TableInv(table), EntryGood(table, entry), NEW token, Match(token)
  PROVE  Looked /\ last' = entry /\ entry.token = token
<1>1. CASE NextToken
  BY <1>1, NextTokenLooks DEF Match
<1>2. CASE /\ found' = TRUE /\ UNCHANGED table
           /\ entry' \in {ZeroEntry} \union (IF EndsAtOnce(entry) THEN {entry} ELSE {})
  <2>1. EntryGood(table, entry') /\ ~entry'.new
    <3>1. CASE entry' = ZeroEntry
      BY <3>1, ZeroGood
    <3>2. CASE entry' = entry /\ EndsAtOnce(entry)
      BY <3>2 DEF EntryGood, EndsAtOnce, WordTokens
    <3> QED
      BY <1>2, <3>1, <3>2
  <2> QED
    BY <1>2, <2>1 DEF Looked, Match
<1> QED
  BY <1>1, <1>2 DEF Match

-----------------------------------------------------------------------------
(* Steps that move the lookahead.  A new identifier becomes the last token *)
(* where the parser is going to read it.                                   *)

Advances ==
  /\ pc \notin Reading /\ pc' \in Pcs \ {"main"}
  /\ last' = entry \/ (last' = last /\ ~entry.new)
  /\ entry.new => pc' \in Reading
  /\ pc' \in Reading => last' = entry
  /\ decl' \in Decls /\ decl'.id \in {decl.id, Null}
  /\ pc' \in VarPcs \union ConstPcs => decl'.id = decl.id /\ decl'.type = decl.type
  /\ pc \in VarPcs <=> pc' \in VarPcs
  /\ pc \in ConstPcs <=> pc' \in ConstPcs

LEMMA LookedKeeps ==
  ASSUME DeclInv, status = "running", Looked, Advances,
         UNCHANGED <<vars, status, populated>>
  PROVE  DeclInv' /\ TableStep
<1>1. /\ TableInv(table) /\ TableInv(table') /\ entry' = entry'
      /\ EntryGood(table, entry) /\ EntryGood(table, last)
      /\ EntryGood(table', entry')
  BY DEF DeclInv, Looked
<1>2. TableStep
  BY DEF Looked, TableStep
<1>3. \A q \in EntriesOf(table) : q \in EntriesOf(table') /\ At(table', q) = At(table, q)
  <2>1. CASE entry'.new
    <3>1. Grew(entry'.symbol)
      BY <2>1 DEF Looked
    <3> QED
      BY <3>1 DEF Grew, Kept
  <2>2. CASE ~entry'.new
    BY <2>2 DEF Looked
  <2> QED
    BY <2>1, <2>2
<1>4. \A q \in EntriesOf(table') :
        q \in EntriesOf(table) \/ (entry'.new /\ q = entry'.symbol)
  <2>1. CASE entry'.new
    <3>1. Grew(entry'.symbol)
      BY <2>1 DEF Looked
    <3> QED
      BY <2>1, <3>1 DEF Grew
  <2>2. CASE ~entry'.new
    BY <2>2 DEF Looked
  <2> QED
    BY <2>1, <2>2
<1>5. EntryGood(table', entry) /\ EntryGood(table', last)
  BY <1>1, <1>3, GoodStays
<1>6. EntryGood(table', last')
  BY <1>5 DEF Advances
<1>7. OverlapInv'
  BY NextOverlap DEF DeclInv
<1>8. ParserTypes'
  <2>1. ParserTypes
    BY DEF DeclInv
  <2> QED
    BY <1>3, <2>1 DEF ParserTypes, Looked, Advances
<1>9. PointersInv'
  <2>1. PointersInv /\ ParserTypes
    BY DEF DeclInv
  <2>2. entry'.new =>
          /\ ~found' /\ Blank(table', entry'.symbol)
          /\ entry'.symbol # last'.symbol /\ entry'.symbol # decl'.id
    <3> SUFFICES ASSUME entry'.new
                 PROVE  /\ ~found' /\ Blank(table', entry'.symbol)
                        /\ entry'.symbol # last'.symbol /\ entry'.symbol # decl'.id
      OBVIOUS
    <3>1. ~found' /\ Blank(table', entry'.symbol) /\ entry'.symbol \notin EntriesOf(table)
      BY DEF Looked, Grew
    <3>2. entry'.symbol # Null
      BY <1>1 DEF EntryGood
    <3>3. last'.symbol \in EntriesOf(table) \union {Null}
      BY <1>1 DEF EntryGood, Advances
    <3>4. decl'.id \in EntriesOf(table) \union {Null}
      BY <2>1 DEF ParserTypes, Advances
    <3> QED
      BY <3>1, <3>2, <3>3, <3>4
  <2>3. pc' \in Reading /\ last'.new => Blank(table', last'.symbol)
    <3> SUFFICES ASSUME pc' \in Reading, last'.new
                 PROVE  Blank(table', last'.symbol)
      OBVIOUS
    <3>1. last' = entry /\ Blank(table, entry.symbol)
      BY <2>1 DEF Advances, PointersInv
    <3> QED
      BY <1>3, <3>1 DEF Blank
  <2>4. pc' \in VarPcs =>
          /\ decl'.id # Null /\ At(table', decl'.id).token = "identifier"
          /\ At(table', decl'.id).section = "none"
          /\ At(table', decl'.id).class = "var"
          /\ At(table', decl'.id).type = decl'.type
    <3> SUFFICES ASSUME pc' \in VarPcs
                 PROVE  /\ decl'.id # Null
                        /\ At(table', decl'.id).token = "identifier"
                        /\ At(table', decl'.id).section = "none"
                        /\ At(table', decl'.id).class = "var"
                        /\ At(table', decl'.id).type = decl'.type
      OBVIOUS
    <3>1. pc \in VarPcs /\ decl'.id = decl.id /\ decl'.type = decl.type
      BY DEF Advances
    <3>2. decl.id \in EntriesOf(table)
      BY <2>1, <3>1 DEF PointersInv, ParserTypes
    <3>3. At(table', decl.id) = Symbol
      BY <1>3, <3>2 DEF Symbol
    <3> QED
      BY <2>1, <3>1, <3>3 DEF PointersInv
  <2>5. pc' \in ConstPcs => Blank(table', decl'.id)
    BY <1>3, <2>1 DEF Advances, PointersInv, Blank
  <2>6. pc' # "main"
    BY DEF Advances
  <2> QED
    BY <2>2, <2>3, <2>4, <2>5, <2>6 DEF PointersInv, Symbol
<1>10. SymbolsInv'
  <2>1. \A p \in Settled' : p \in Settled /\ At(table', p) = At(table, p)
    <3> SUFFICES ASSUME NEW p \in Settled'
                 PROVE  p \in Settled /\ At(table', p) = At(table, p)
      OBVIOUS
    <3>1. p \in EntriesOf(table') /\ At(table', p).token = "identifier" /\ p \notin Owing'
      BY DEF Settled, Identifiers
    <3>2. p \in EntriesOf(table)
      BY <1>4, <3>1 DEF Owing
    <3>3. At(table', p) = At(table, p)
      BY <1>3, <3>2
    <3>4. entry.new => p # entry.symbol
      <4> SUFFICES ASSUME entry.new
                   PROVE  p # entry.symbol
        OBVIOUS
      <4>1. last' = entry /\ pc' \in Reading
        BY DEF Advances
      <4> QED
        BY <3>1, <4>1 DEF Owing
    <3>5. pc \in VarPcs \union ConstPcs => p # decl.id
      BY <3>1 DEF Advances, Owing
    <3> QED
      BY <3>1, <3>2, <3>3, <3>4, <3>5 DEF Owing, Settled, Identifiers, Advances
  <2>2. Declared' = Declared
    BY DEF Declared, vars
  <2>3. SymbolsInv
    BY DEF DeclInv
  <2>4. \A p \in Settled' : HasValue(At(table, p))'
    <3> SUFFICES ASSUME NEW p \in Settled'
                 PROVE  HasValue(At(table, p))'
      OBVIOUS
    <3>1. HasValue(At(table, p))
      BY <2>1, <2>3 DEF SymbolsInv
    <3> QED
      BY <2>1, <2>2, <3>1 DEF HasValue
  <2> QED
    BY <2>1, <2>3, <2>4 DEF SymbolsInv
<1> QED
  BY <1>1, <1>2, <1>6, <1>7, <1>8, <1>9, <1>10 DEF DeclInv

(* The end: a compilation that succeeds ends between declarations, behind  *)
(* the last token.                                                         *)
LEMMA StopKeeps ==
  ASSUME DeclInv, NEW how \in {"ok", "failed", "aborted"}, Stop(how),
         status = "running", how = "ok" => pc = "start" /\ found
  PROVE  DeclInv' /\ TableStep
<1>1. /\ UNCHANGED <<vars, table, populated>> /\ entry' = ZeroEntry
      /\ last' = ZeroEntry /\ found' = FALSE /\ decl' = NoDecl
      /\ status' = how /\ pc' = "main"
  BY DEF Stop
<1>2. OverlapInv'
  BY <1>1, NextOverlap DEF DeclInv
<1>3. TableInv(table') /\ EntryGood(table', entry') /\ EntryGood(table', last')
  BY <1>1, ZeroGood DEF DeclInv
<1>4. ParserTypes'
  BY <1>1 DEF DeclInv, ParserTypes, NoDecl, Decls, Pcs, Types
<1>5. ~entry'.new /\ ~last'.new
  BY <1>1, ZeroGood
<1>6. PointersInv'
  BY <1>1, <1>5 DEF PointersInv, VarPcs, ConstPcs
<1>7. SymbolsInv'
  <2> SUFFICES ASSUME how = "ok"
               PROVE  SymbolsInv'
    BY <1>1 DEF SymbolsInv
  <2>1. Owing = {} /\ Owing' = {}
    BY <1>1, <1>5 DEF Owing, DeclInv, PointersInv, Reading, VarPcs, ConstPcs
  <2>2. Settled' = Settled /\ Declared' = Declared /\ table' = table
    BY <1>1, <2>1 DEF Settled, Identifiers, Declared, vars
  <2>3. \A p \in Settled : HasValue(At(table, p))'
    <3> SUFFICES ASSUME NEW p \in Settled
                 PROVE  HasValue(At(table, p))'
      OBVIOUS
    <3>1. HasValue(At(table, p))
      BY DEF SymbolsInv, DeclInv
    <3> QED
      BY <2>2, <3>1 DEF HasValue
  <2> QED
    BY <1>1, <2>2, <2>3 DEF SymbolsInv, DeclInv
<1> QED
  BY <1>1, <1>2, <1>3, <1>4, <1>6, <1>7 DEF DeclInv, TableStep

LEMMA MatchKeeps ==
  ASSUME DeclInv, NEW token, Match(token), NEW where,
         Running(pc), Goto(where), UNCHANGED vars,
         pc \notin Reading, pc' \in Pcs \ {"main"},
         token = "identifier" <=> pc' \in Reading,
         decl' \in Decls, decl'.id \in {decl.id, Null},
         pc' \in VarPcs \union ConstPcs => decl'.id = decl.id /\ decl'.type = decl.type,
         pc \in VarPcs <=> pc' \in VarPcs,
         pc \in ConstPcs <=> pc' \in ConstPcs
  PROVE  DeclInv' /\ TableStep
<1>1. Looked /\ last' = entry /\ entry.token = token
  BY MatchLooks DEF DeclInv
<1>2. entry.new => token = "identifier"
  BY <1>1 DEF DeclInv, EntryGood
<1>3. Advances
  BY <1>1, <1>2 DEF Advances
<1> QED
  BY <1>1, <1>3, LookedKeeps DEF Running, Goto

-----------------------------------------------------------------------------
(* The actions that match a token, or fail.                                *)

LEMMA DeclOfType ==
  DeclInv => /\ decl \in Decls /\ NoDecl \in Decls /\ NoDecl.id = Null
             /\ [decl EXCEPT !.listed = TRUE] \in Decls
             /\ [decl EXCEPT !.listed = TRUE].id = decl.id
             /\ [decl EXCEPT !.minus = TRUE] \in Decls
             /\ [decl EXCEPT !.minus = TRUE].id = decl.id
             /\ [decl EXCEPT !.minus = TRUE].type = decl.type
BY DEF DeclInv, ParserTypes, Decls, NoDecl, Types

LEMMA FailKeeps ==
  ASSUME DeclInv, status = "running", Stop("failed") \/ Stop("aborted")
  PROVE  DeclInv' /\ TableStep
BY StopKeeps

LEMMA MatchesKeep ==
  ASSUME DeclInv,
         \/ VarName \/ VarAssign \/ VarMinus \/ VarConstant \/ VarComma \/ VarEnd
         \/ ConstName \/ ConstEqual \/ ConstMinus \/ ConstConstant \/ ConstEnd
         \/ CommandWord \/ CommandToken \/ StartDeclaration
  PROVE  DeclInv' /\ TableStep
<1> USE DEF Reading, VarPcs, ConstPcs, Pcs, Writing
<1>1. CASE VarName \/ ConstName \/ CommandWord
  BY <1>1, MatchKeeps, FailKeeps, DeclOfType
     DEF VarName, ConstName, CommandWord, Running, Goto
<1>2. CASE VarAssign \/ VarConstant \/ ConstEqual \/ ConstConstant
  <2>1. CASE Stop("failed")
    BY <1>2, <2>1, FailKeeps
       DEF VarAssign, VarConstant, ConstEqual, ConstConstant, Running
  <2>2. CASE VarAssign /\ ~Stop("failed")
    BY <2>2, MatchKeeps, DeclOfType DEF VarAssign, Running, Goto
  <2>3. CASE VarConstant /\ ~Stop("failed")
    BY <2>3, MatchKeeps, DeclOfType DEF VarConstant, Running, Goto
  <2>4. CASE ConstEqual /\ ~Stop("failed")
    BY <2>4, MatchKeeps, DeclOfType DEF ConstEqual, Running, Goto
  <2>5. CASE ConstConstant /\ ~Stop("failed")
    BY <2>5, MatchKeeps, DeclOfType DEF ConstConstant, Running, Goto
  <2> QED
    BY <1>2, <2>1, <2>2, <2>3, <2>4, <2>5
<1>3. CASE VarMinus \/ ConstMinus
  <2>1. CASE Stop("failed")
    BY <1>3, <2>1, FailKeeps DEF VarMinus, ConstMinus, Running
  <2>2. CASE VarMinus /\ ~Stop("failed")
    <3>1. decl' \in Decls /\ decl'.id = decl.id /\ decl'.type = decl.type
      BY <2>2, DeclOfType DEF VarMinus
    <3> QED
      BY <2>2, <3>1, MatchKeeps DEF VarMinus, Running, Goto
  <2>3. CASE ConstMinus /\ ~Stop("failed")
    <3>1. decl' \in Decls /\ decl'.id = decl.id /\ decl'.type = decl.type
      BY <2>3, DeclOfType DEF ConstMinus
    <3> QED
      BY <2>3, <3>1, MatchKeeps DEF ConstMinus, Running, Goto
  <2> QED
    BY <1>3, <2>1, <2>2, <2>3
<1>4. CASE VarComma \/ VarEnd \/ ConstEnd
  <2>1. CASE Stop("failed") \/ Stop("aborted")
    BY <1>4, <2>1, FailKeeps DEF VarComma, VarEnd, ConstEnd, Running
  <2>2. CASE VarComma /\ ~Stop("failed")
    <3>1. decl' \in Decls /\ decl'.id = decl.id
      BY <2>2, DeclOfType DEF VarComma
    <3> QED
      BY <2>2, <3>1, MatchKeeps DEF VarComma, Running, Goto
  <2>3. CASE VarEnd /\ ~Stop("failed") /\ ~Stop("aborted")
    <3>1. decl' \in Decls /\ decl'.id = Null
      BY <2>3, DeclOfType DEF VarEnd
    <3>2. PICK token : Match(token) /\ token # "identifier"
      <4>1. Match(";")
        BY <2>3, Zenon DEF VarEnd
      <4>2. ";" # "identifier"
        BY Zenon
      <4> QED
        BY <4>1, <4>2, Zenon
    <3>3. Goto("start") /\ UNCHANGED vars /\ Running("varNext")
      BY <2>3, Zenon DEF VarEnd
    <3> QED
      BY <3>1, <3>2, <3>3, MatchKeeps DEF Running, Goto
  <2>4. CASE ConstEnd /\ ~Stop("failed")
    <3>1. decl' \in Decls /\ decl'.id = Null
      BY <2>4, DeclOfType DEF ConstEnd
    <3>2. PICK token : Match(token) /\ token # "identifier"
      <4>1. Match(";")
        BY <2>4, Zenon DEF ConstEnd
      <4>2. ";" # "identifier"
        BY Zenon
      <4> QED
        BY <4>1, <4>2, Zenon
    <3>3. Goto("start") /\ UNCHANGED vars /\ Running("constEnd")
      BY <2>4, Zenon DEF ConstEnd
    <3> QED
      BY <3>1, <3>2, <3>3, MatchKeeps DEF Running, Goto
  <2> QED
    BY <1>4, <2>1, <2>2, <2>3, <2>4
<1>5. CASE CommandToken
  <2>1. CASE Stop("failed")
    BY <1>5, <2>1, FailKeeps DEF CommandToken, Running
  <2>2. CASE ~Stop("failed")
    <3>1. /\ Match(entry.token) /\ entry.token # "identifier" /\ Running("command")
          /\ pc' \in {"start", "command"} /\ Goto(pc') /\ UNCHANGED <<vars, decl>>
      BY <1>5, <2>2 DEF CommandToken, Goto
    <3> QED
      BY <3>1, MatchKeeps, DeclOfType DEF Running
  <2> QED
    BY <2>1, <2>2
<1>6. CASE StartDeclaration
  <2>1. CASE Stop("failed")
    BY <1>6, <2>1, FailKeeps DEF StartDeclaration, Running
  <2>2. CASE ~Stop("failed")
    <3>1. decl' \in Decls /\ decl'.id = Null
      BY <1>6, <2>2 DEF StartDeclaration, Decls, NoDecl, Types, TypeTokens
    <3> QED
      BY <1>6, <2>2, <3>1, MatchKeeps DEF StartDeclaration, Running, Goto, TypeTokens
  <2> QED
    BY <2>1, <2>2
<1> QED
  BY <1>1, <1>2, <1>3, <1>4, <1>5, <1>6

-----------------------------------------------------------------------------
(* Commands: SR8, temporaries and literals.                                *)

(* Symbols keep their values as long as nobody takes declared values away. *)
LEMMA SettledStay ==
  ASSUME SymbolsInv, status = "running", status' \in {"running", "ok"},
         Settled' \subseteq Settled, Declared \subseteq Declared',
         \A p \in Settled' : At(table', p) = At(table, p)
  PROVE  SymbolsInv'
<1>1. \A p \in Settled' : HasValue(At(table, p))'
  <2> SUFFICES ASSUME NEW p \in Settled'
               PROVE  HasValue(At(table, p))'
    OBVIOUS
  <2>1. HasValue(At(table, p))
    BY DEF SymbolsInv
  <2> QED
    BY <2>1 DEF HasValue
<1> QED
  BY <1>1 DEF SymbolsInv

(* The parser moves on and leaves the table and its locals as they are.    *)
LEMMA MovesKeep ==
  ASSUME DeclInv, status = "running", Allocates \/ UNCHANGED vars,
         Declared \subseteq Declared',
         UNCHANGED <<table, populated, lookahead, decl, status>>,
         pc \in {"start", "command", "used"} \union Writing,
         pc' \in {"command"} \union Writing, pc = "used" => ~last.new
  PROVE  DeclInv' /\ TableStep
<1> USE DEF Reading, VarPcs, ConstPcs, lookahead, Writing
<1>1. OverlapInv'
  BY AllocatesOverlap DEF DeclInv
<1>2. ParserTypes'
  BY DEF DeclInv, ParserTypes, Pcs
<1>3. PointersInv'
  BY DEF DeclInv, PointersInv
<1>4. SymbolsInv'
  <2>1. Settled' \subseteq Settled
    BY DEF Settled, Identifiers, Owing
  <2> QED
    BY <2>1, SettledStay DEF DeclInv
<1> QED
  BY <1>1, <1>2, <1>3, <1>4 DEF DeclInv, TableStep

LEMMA ResetsKeep ==
  ResetForWrite \/ DropLeftover => Allocates /\ Declared \subseteq Declared'
BY DEF Allocates, ResetForWrite, ResetTmp, ResetTmpKeeping, DropLeftover, Declared

LEMMA CommandsAllocate ==
  ASSUME DeclInv, WritingInv,
         \/ StartCommand \/ CommandAllocates \/ NestedCommand
         \/ WriteResets \/ WriteBuffer \/ WriteEnd
  PROVE  Allocates /\ Declared \subseteq Declared'
<1>1. CASE StartCommand \/ NestedCommand
  <2>1. ResetForWrite
    BY <1>1 DEF StartCommand, NestedCommand, ResetForWrite
  <2> QED
    BY <2>1, ResetsKeep
<1>2. CASE CommandAllocates
  <2>1. leftover = {}
    BY <1>2 DEF CommandAllocates, Running, WritingInv, Writing
  <2>2. Allocates
    <3>1. CASE \E size \in ScratchSizes : AllocateTmp(size)
      BY <2>1, <3>1, ScratchAssumption DEF Allocates
    <3>2. CASE AddTmp(last.type, last.length)
      <4>1. last.type \in Types /\ Literal(last.type, last.length)
        BY DEF DeclInv, EntryGood, Entries, Literal
      <4> QED
        BY <2>1, <3>2, <4>1, AddTmpAllocates
    <3> QED
      BY <1>2, <3>1, <3>2 DEF CommandAllocates
  <2>3. values \subseteq values'
    BY <1>2 DEF CommandAllocates, AllocateTmp, AddTmp, AddValue, Place
  <2> QED
    BY <2>2, <2>3 DEF Declared
<1>3. CASE WriteResets
  BY <1>3, ResetsKeep DEF WriteResets
<1>4. CASE WriteBuffer
  <2>1. next["tmp"] = 0 /\ \E size \in ScratchSizes : AllocateTmp(size)
    BY <1>4 DEF WriteBuffer, Running, WritingInv
  <2>2. Allocates
    BY <2>1, ScratchAssumption DEF Allocates
  <2>3. values \subseteq values'
    BY <2>1 DEF AllocateTmp
  <2> QED
    BY <2>2, <2>3 DEF Declared
<1>5. CASE WriteEnd
  BY <1>5, ResetsKeep DEF WriteEnd
<1> QED
  BY <1>1, <1>2, <1>3, <1>4, <1>5

LEMMA CommandsKeep ==
  ASSUME DeclInv, WritingInv,
         \/ StartCommand \/ CommandAllocates \/ UseWord \/ NestedCommand
         \/ WriteResets \/ WriteBuffer \/ WriteEnd
  PROVE  DeclInv' /\ TableStep
<1> USE DEF Writing
<1>1. CASE StartCommand
  BY <1>1, CommandsAllocate, MovesKeep DEF StartCommand, Running, Goto
<1>2. CASE CommandAllocates
  BY <1>2, CommandsAllocate, MovesKeep DEF CommandAllocates, Running
<1>3. CASE UseWord
  <2>1. CASE Stop("failed")
    BY <1>3, <2>1, FailKeeps DEF UseWord, Running
  <2>2. CASE ~Stop("failed")
    <3>1. UNCHANGED vars /\ Declared' = Declared
      BY <1>3, <2>2 DEF UseWord, vars, Declared
    <3> QED
      BY <1>3, <2>2, <3>1, MovesKeep DEF UseWord, Running, Goto
  <2> QED
    BY <2>1, <2>2
<1>4. CASE NestedCommand
  BY <1>4, CommandsAllocate, MovesKeep DEF NestedCommand, Running
<1>5. CASE WriteResets
  BY <1>5, CommandsAllocate, MovesKeep DEF WriteResets, Running, Goto
<1>6. CASE WriteBuffer
  BY <1>6, CommandsAllocate, MovesKeep DEF WriteBuffer, Running, Goto
<1>7. CASE WriteEnd
  BY <1>7, CommandsAllocate, MovesKeep DEF WriteEnd, Running, Goto
<1> QED
  BY <1>1, <1>2, <1>3, <1>4, <1>5, <1>6, <1>7

-----------------------------------------------------------------------------
(* Declarations: a new name becomes the symbol that is described.          *)

LEMMA WithTypeIs ==
  ASSUME NEW symbol \in Symbols, NEW t \in Types, NEW class \in {"none", "var", "const"}
  PROVE  /\ WithType(symbol, t, class) \in Symbols
         /\ WithType(symbol, t, class).lexeme = symbol.lexeme
         /\ WithType(symbol, t, class).token = symbol.token
         /\ WithType(symbol, t, class).section = symbol.section
         /\ WithType(symbol, t, class).type = t
         /\ WithType(symbol, t, class).class = class
BY DEF WithType, Symbols, Types

LEMMA NamesKeep ==
  ASSUME DeclInv, VarDeclare \/ ConstDeclare
  PROVE  DeclInv' /\ TableStep
<1> USE DEF Reading, VarPcs, ConstPcs
<1>1. CASE Stop("failed")
  BY <1>1, FailKeeps DEF VarDeclare, ConstDeclare, Running
<1>2. CASE ~Stop("failed")
  <2> DEFINE p == last.symbol
  <2>1. /\ status = "running" /\ pc \in Reading /\ last.new
        /\ UNCHANGED <<vars, status, populated>>
        /\ entry' = entry /\ last' = last /\ found' = found
        /\ decl'.id = p /\ decl' \in [type : {decl.type}, id : {p},
                                      minus : {FALSE, decl.minus}, listed : {decl.listed}]
    BY <1>2 DEF VarDeclare, ConstDeclare, Running, Goto, lookahead, DeclInv,
                ParserTypes, Decls
  <2>2. Blank(table, p) /\ p # Null /\ p \in EntriesOf(table)
    BY <2>1 DEF DeclInv, PointersInv, EntryGood, Blank
  <2>3. TableInv(table) /\ At(table, p) \in Symbols /\ p \in Pointers
    BY <2>2, PointersOf DEF DeclInv, TableInv
  <2>4. decl.type \in Types /\ decl' \in Decls /\ decl'.type = decl.type
    BY <2>1, <2>3 DEF DeclInv, ParserTypes, Decls
  <2>5. /\ TableInv(table') /\ EntriesOf(table') = EntriesOf(table)
        /\ Kept(table, table', p)
        /\ At(table', p).lexeme = At(table, p).lexeme
        /\ At(table', p).token = "identifier" /\ At(table', p).section = "none"
        /\ \/ /\ pc' = "constEqual" /\ table' = table
           \/ /\ pc' = "varValue" /\ At(table', p).class = "var"
              /\ At(table', p).type = decl.type
    <3>1. CASE VarDeclare
      <4> DEFINE new == WithType(At(table, p), decl.type, "var")
      <4>1. /\ new \in Symbols /\ new.lexeme = At(table, p).lexeme
            /\ new.token = At(table, p).token /\ new.class = "var"
            /\ new.section = At(table, p).section /\ new.type = decl.type
        BY <2>3, <2>4, WithTypeIs
      <4>2. table' = Assign(table, p, new) /\ pc' = "varValue"
        BY <1>2, <2>1, <3>1 DEF VarDeclare, Goto
      <4> HIDE DEF new
      <4> QED
        BY <2>2, <2>3, <4>1, <4>2, AssignKeeps DEF Kept, Blank
    <3>2. CASE ConstDeclare
      BY <1>2, <2>1, <2>2, <2>3, <3>2 DEF ConstDeclare, Goto, Kept, Blank
    <3> QED
      BY <3>1, <3>2
  <2> HIDE DEF p
  <2>6. TableStep
    <3>1. CASE table' = table
      BY <3>1 DEF TableStep
    <3>2. CASE At(table', p).class = "var"
      <4>1. Wrote(p)
        BY <2>2, <2>5, <3>2 DEF Wrote, Blank
      <4> QED
        BY <4>1 DEF TableStep
    <3> QED
      BY <2>5, <3>1, <3>2
  <2>7. \A q \in EntriesOf(table) : /\ At(table', q).lexeme = At(table, q).lexeme
                                    /\ At(table', q).token = At(table, q).token
    BY <2>2, <2>5 DEF Kept, Blank
  <2>8. EntryGood(table', entry') /\ EntryGood(table', last')
    BY <2>1, <2>5, <2>7, GoodStays DEF DeclInv
  <2>9. ParserTypes'
    BY <2>1, <2>2, <2>4, <2>5 DEF ParserTypes, DeclInv, Pcs
  <2>10. PointersInv'
    <3>1. entry.new => Blank(table, entry.symbol) /\ entry.symbol # p /\ ~found
      BY DEF DeclInv, PointersInv, p
    <3>2. entry'.new => Blank(table', entry'.symbol) /\ ~found'
                        /\ entry'.symbol # last'.symbol /\ entry'.symbol # decl'.id
      BY <2>1, <2>5, <3>1 DEF Kept, Blank, p
    <3>3. pc' \in ConstPcs => Blank(table', decl'.id)
      BY <2>1, <2>2, <2>5
    <3> QED
      BY <2>1, <2>2, <2>4, <2>5, <3>2, <3>3 DEF PointersInv, Symbol
  <2>11. SymbolsInv'
    <3>1. Owing' = Owing
      BY <2>1, <2>5 DEF Owing, p
    <3>2. Identifiers' = Identifiers
      BY <2>5, <2>7 DEF Identifiers
    <3>3. Settled' = Settled /\ p \notin Settled
      BY <2>1, <3>1, <3>2 DEF Settled, Owing, p
    <3>4. \A q \in Settled' : At(table', q) = At(table, q)
      BY <2>5, <3>3 DEF Settled, Identifiers, Kept
    <3>5. Declared' = Declared
      BY <2>1 DEF Declared, vars
    <3> QED
      BY <2>1, <3>3, <3>4, <3>5, SettledStay DEF DeclInv
  <2>12. OverlapInv'
    BY <2>1, AllocatesOverlap DEF DeclInv
  <2> QED
    BY <2>5, <2>6, <2>8, <2>9, <2>10, <2>11, <2>12 DEF DeclInv
<1> QED
  BY <1>1, <1>2

-----------------------------------------------------------------------------
(* Declarations: the symbol gets its value.                                *)

(* The value that is placed is past all others of its area.                *)
LEMMA PlaceDeclares ==
  ASSUME OverlapInv, NEW a \in Sections, NEW n \in Nat \ {0}, NEW b, Place(a, n, b)
  PROVE  /\ Declared \subseteq Declared'
         /\ \E v \in Declared' :
              v.area = a /\ v.address = AlignedAddress(next[a], n) /\ v.size = n
         /\ \A v \in Declared : v.area = a =>
              v.size \in Nat /\ v.address + v.size <= AlignedAddress(next[a], n)
         /\ AlignedAddress(next[a], n) \in Nat
<1>1. next[a] \in Nat /\ a \in Areas /\ a # "tmp"
  BY DEF OverlapInv, TypeOK, Sections, Areas
<1>2. AlignedAddress(next[a], n) \in Nat /\ next[a] <= AlignedAddress(next[a], n)
  BY <1>1, AlignedNotBelow
<1>3. \A v \in Declared : v.area = a =>
        v.size \in Nat /\ v.address \in Nat /\ v.address + v.size <= next[a]
  BY DEF OverlapInv, TypeOK, Packed, Declared, Values
<1>4. \A v \in Declared : v.area = a =>
        v.size \in Nat /\ v.address + v.size <= AlignedAddress(next[a], n)
  <2> SUFFICES ASSUME NEW v \in Declared, v.area = a
               PROVE  v.size \in Nat /\ v.address + v.size <= AlignedAddress(next[a], n)
    OBVIOUS
  <2>1. v.size \in Nat /\ v.address \in Nat /\ v.address + v.size <= next[a]
    BY <1>3
  <2> QED
    BY <1>1, <1>2, <2>1
<1>5. \E v \in values' :
        v.area = a /\ v.address = AlignedAddress(next[a], n) /\ v.size = n
  <2> DEFINE x == [area |-> a, address |-> AlignedAddress(next[a], n), size |-> n,
                   at |-> NasmAlign(loc[a], n), end |-> NasmAlign(loc[a], n) + b]
  <2>1. x \in values'
    BY DEF Place
  <2> QED
    BY <2>1
<1>6. values \subseteq values'
  BY DEF Place
<1> QED
  BY <1>1, <1>2, <1>4, <1>5, <1>6 DEF Declared

LEMMA PlacedIs ==
  ASSUME NEW symbol \in Symbols, NEW a \in Sections,
         SizeFromType(symbol.type) \in Nat,
         AlignedAddress(next[a], SizeFromType(symbol.type)) \in Nat
  PROVE  /\ Placed(symbol, a) \in Symbols
         /\ Placed(symbol, a).lexeme = symbol.lexeme
         /\ Placed(symbol, a).token = symbol.token
         /\ Placed(symbol, a).class = symbol.class
         /\ Placed(symbol, a).type = symbol.type
         /\ Placed(symbol, a).section = a
         /\ Placed(symbol, a).size = SizeFromType(symbol.type)
         /\ Placed(symbol, a).address = AlignedAddress(next[a], SizeFromType(symbol.type))
BY DEF Placed, Symbols, Sections

(* The declaration's symbol is settled by an allocation that describes it. *)
LEMMA ValueKeeps ==
  ASSUME DeclInv, status = "running", pc \in VarPcs \union ConstPcs,
         pc' \in {"varNext", "constEnd"},
         UNCHANGED <<lookahead, decl, status, populated>>, Allocates,
         NEW a \in Sections, NEW t \in Types, NEW b, Place(a, SizeFromType(t), b),
         NEW class \in Classes, Symbol.class \in {"none", class},
         a \in (IF class = "const" THEN {"rodata"} ELSE {"bss", "data"}),
         NEW typed \in Symbols, typed.lexeme = Symbol.lexeme,
         typed.token = Symbol.token, typed.type = t, typed.class = class,
         table' = Assign(table, decl.id, Placed(typed, a))
  PROVE  DeclInv' /\ TableStep
<1> DEFINE p == decl.id
           n == SizeFromType(t)
           address == AlignedAddress(next[a], n)
           new == Placed(typed, a)
<1>1. n \in Nat \ {0}
  BY SizeOfType
<1>2. /\ p \in EntriesOf(table) /\ p # Null /\ Symbol.token = "identifier"
      /\ Symbol.section = "none"
  <2>1. CASE pc \in VarPcs
    BY <2>1 DEF DeclInv, ParserTypes, PointersInv
  <2>2. CASE pc \in ConstPcs
    <3>1. Blank(table, p)
      BY <2>2 DEF DeclInv, PointersInv
    <3> QED
      BY <3>1, PointersOf DEF DeclInv, TableInv, Blank, Symbol
  <2> QED
    BY <2>1, <2>2
<1>3. TableInv(table) /\ Symbol \in Symbols
  BY <1>2, PointersOf DEF DeclInv, TableInv, Symbol
<1>4. /\ Declared \subseteq Declared' /\ address \in Nat
      /\ \E v \in Declared' : v.area = a /\ v.address = address /\ v.size = n
      /\ \A v \in Declared : v.area = a => v.size \in Nat /\ v.address + v.size <= address
  BY <1>1, PlaceDeclares DEF DeclInv
<1>5. /\ new \in Symbols /\ new.lexeme = Symbol.lexeme /\ new.token = "identifier"
      /\ new.class = class /\ new.type = t /\ new.section = a
      /\ new.address = address /\ new.size = n
  BY <1>1, <1>2, <1>4, PlacedIs
<1> HIDE DEF new, address, n
<1>6. /\ TableInv(table') /\ EntriesOf(table') = EntriesOf(table)
      /\ At(table', p) = new /\ Kept(table, table', p)
  BY <1>2, <1>3, <1>5, AssignKeeps DEF Kept, Symbol, new
<1>7. TableStep
  <2>1. Wrote(p)
    BY <1>2, <1>5, <1>6 DEF Wrote, Symbol, Sections
  <2> QED
    BY <2>1 DEF TableStep
<1>8. \A q \in EntriesOf(table) : /\ At(table', q).lexeme = At(table, q).lexeme
                                  /\ At(table', q).token = At(table, q).token
  BY <1>2, <1>5, <1>6 DEF Kept, Symbol
<1>9. EntryGood(table', entry') /\ EntryGood(table', last')
  BY <1>6, <1>8, GoodStays DEF DeclInv, lookahead
<1>10. ParserTypes'
  BY <1>6 DEF ParserTypes, DeclInv, Pcs, lookahead
<1>11. PointersInv'
  BY <1>6 DEF PointersInv, DeclInv, Blank, Kept, lookahead, Reading, VarPcs, ConstPcs
<1>12. OverlapInv'
  BY AllocatesOverlap DEF DeclInv
<1>13. SymbolsInv'
  <2>1. \A q \in Settled' :
          q = p \/ (q \in Settled /\ q # p /\ At(table', q) = At(table, q))
    BY <1>6, <1>8
    DEF Settled, Identifiers, Owing, lookahead, Reading, VarPcs, ConstPcs, Kept
  <2>2. HasValue(At(table, p))'
    <3>1. new.section \in IF new.class = "const" THEN {"rodata"} ELSE {"bss", "data"}
      BY <1>5
    <3>2. new.type # "none" /\ new.size = SizeFromType(new.type)
      BY <1>5 DEF n, Types
    <3> QED
      BY <1>4, <1>5, <1>6, <3>1, <3>2 DEF HasValue, p, lookahead
  <2>3. \A q \in Settled : HasValue(At(table, q))
    BY DEF SymbolsInv, DeclInv
  <2>4. \A q \in Settled' : HasValue(At(table, q))'
    <3> SUFFICES ASSUME NEW q \in Settled'
                 PROVE  HasValue(At(table, q))'
      OBVIOUS
    <3>1. CASE q = p
      BY <2>2, <3>1
    <3>2. CASE q # p
      <4>1. HasValue(At(table, q)) /\ At(table', q) = At(table, q)
        BY <2>1, <2>3, <3>2
      <4> QED
        BY <1>4, <4>1 DEF HasValue
    <3> QED
      BY <3>1, <3>2
  <2>5. \A q \in Settled : ~SamePlace(At(table, q), new)
    <3> SUFFICES ASSUME NEW q \in Settled, SamePlace(At(table, q), new)
                 PROVE  FALSE
      OBVIOUS
    <3>1. PICK v \in Declared : /\ v.area = At(table, q).section
                                /\ v.address = At(table, q).address
                                /\ v.size = At(table, q).size
      BY <2>3 DEF HasValue
    <3>2. At(table, q).size \in Nat \ {0}
      <4>1. At(table, q) \in Symbols
        BY <1>3, PointersOf DEF Settled, Identifiers, TableInv
      <4>2. At(table, q).type \in Types /\ At(table, q).size = SizeFromType(At(table, q).type)
        BY <2>3, <4>1 DEF HasValue, Symbols, Types
      <4> QED
        BY <4>2, SizeOfType
    <3>3. v.area = a /\ v.address = address
      BY <1>5, <3>1 DEF SamePlace
    <3> QED
      BY <1>4, <3>1, <3>2, <3>3
  <2>6. \A q, r \in Settled : q # r => ~SamePlace(At(table, q), At(table, r))
    BY DEF SymbolsInv, DeclInv
  <2>7. \A q, r \in Settled' : q # r => ~SamePlace(At(table', q), At(table', r))
    BY <1>6, <2>1, <2>5, <2>6 DEF SamePlace
  <2> QED
    BY <2>4, <2>7 DEF SymbolsInv
<1> QED
  BY <1>6, <1>7, <1>9, <1>10, <1>11, <1>12, <1>13 DEF DeclInv

LEMMA ValuesKeep ==
  ASSUME DeclInv, VarInit \/ VarPlain \/ ConstInit
  PROVE  DeclInv' /\ TableStep
<1> USE DEF VarPcs, ConstPcs
<1>1. CASE Stop("failed")
  BY <1>1, FailKeeps DEF VarInit, VarPlain, ConstInit, Running
<1>2. last.type \in Types /\ Literal(last.type, last.length)
  BY DEF DeclInv, EntryGood, Entries, Literal
<1>3. pc \in VarPcs => /\ decl.type \in Types /\ Symbol \in Symbols
                       /\ Symbol.class = "var" /\ Symbol.type = decl.type
  BY PointersOf
     DEF DeclInv, ParserTypes, PointersInv, Decls, TableInv, Symbol
<1>4. CASE VarInit /\ ~Stop("failed")
  <2>1. /\ status = "running" /\ pc \in VarPcs /\ pc' = "varNext"
        /\ UNCHANGED <<lookahead, decl, status, populated>>
        /\ AddValue(last.type, "var", last.length)
        /\ Symbol.type = last.type
        /\ table' = Assign(table, decl.id, Placed(Symbol, "data"))
    BY <1>3, <1>4 DEF VarInit, Running, Goto
  <2>2. Allocates
    BY <1>2, <2>1, AddValueAllocates
  <2>3. Place("data", SizeFromType(last.type), EmittedBytes(last.type, last.length))
    BY <2>1 DEF AddValue
  <2> QED
    BY <1>2, <1>3, <2>1, <2>2, <2>3, ValueKeeps DEF Sections, Classes
<1>5. CASE VarPlain
  <2>1. /\ status = "running" /\ pc \in VarPcs /\ pc' = "varNext"
        /\ UNCHANGED <<lookahead, decl, status, populated>>
        /\ Place("bss", SizeFromType(Symbol.type), SizeFromType(Symbol.type))
        /\ table' = Assign(table, decl.id, Placed(Symbol, "bss"))
    BY <1>5 DEF VarPlain, AddUnnitValue, Running, Goto
  <2>2. Allocates
    BY <1>3, <2>1 DEF Allocates
  <2> QED
    BY <1>3, <2>1, <2>2, ValueKeeps DEF Sections, Classes
<1>6. CASE ConstInit /\ ~Stop("failed")
  <2>1. /\ status = "running" /\ pc \in ConstPcs /\ pc' = "constEnd"
        /\ UNCHANGED <<lookahead, decl, status, populated>>
        /\ AddValue(last.type, "const", last.length)
        /\ table' = Assign(table, decl.id,
                      Placed(WithType(Symbol, last.type, "const"), "rodata"))
    BY <1>6 DEF ConstInit, Running, Goto
  <2>2. Allocates
    BY <1>2, <2>1, AddValueAllocates
  <2>3. Place("rodata", SizeFromType(last.type), EmittedBytes(last.type, last.length))
    BY <2>1 DEF AddValue
  <2>4. Symbol \in Symbols /\ Symbol.class = "none"
    BY <2>1, PointersOf DEF DeclInv, PointersInv, Blank, TableInv, Symbol
  <2> DEFINE typed == WithType(Symbol, last.type, "const")
  <2>5. /\ typed \in Symbols /\ typed.lexeme = Symbol.lexeme
        /\ typed.token = Symbol.token
        /\ typed.type = last.type /\ typed.class = "const"
    BY <1>2, <2>4, WithTypeIs
  <2> HIDE DEF typed
  <2>6. table' = Assign(table, decl.id, Placed(typed, "rodata"))
    BY <2>1 DEF typed
  <2> QED
    BY <1>2, <2>1, <2>2, <2>3, <2>4, <2>5, <2>6, ValueKeeps DEF Sections, Classes
<1> QED
  BY <1>1, <1>4, <1>5, <1>6

-----------------------------------------------------------------------------
(* main: the reserved words and the first token.                           *)

Reserved == [lexeme : Names, token : WordTokens \ {"identifier"}]

LEMMA KeywordsReserved ==
  Len(Keywords) \in Nat /\ \A i \in 1 .. Len(Keywords) : Keywords[i] \in Reserved
<1>1. Keywords \in Seq(Reserved)
  BY KeywordsAssumption DEF Reserved
<1> QED
  BY <1>1

LEMMA MainKeeps ==
  ASSUME DeclInv, Populate \/ FirstToken
  PROVE  DeclInv' /\ TableStep
<1> USE DEF Reading, VarPcs, ConstPcs
<1>1. CASE Populate
  <2> DEFINE word == Keywords[populated + 1]
  <2>1. /\ status = "running" /\ pc = "main" /\ populated < Len(Keywords)
        /\ table' = Insert(table, word.lexeme, word.token)
        /\ populated' = populated + 1
        /\ UNCHANGED <<vars, lookahead, pc, decl, status>>
    BY <1>1 DEF Populate, Running
  <2>2. populated \in Nat /\ Len(Keywords) \in Nat
    BY KeywordsReserved DEF DeclInv, ParserTypes
  <2>3. /\ word.lexeme \in Names /\ word.token \in WordTokens
        /\ word.token # "identifier"
    <3>1. populated + 1 \in 1 .. Len(Keywords)
      BY <2>1, <2>2
    <3>2. word \in Reserved
      BY <3>1, KeywordsReserved
    <3> HIDE DEF word
    <3> QED
      BY <3>2 DEF Reserved
  <2>4. populated' \in 0 .. Len(Keywords)
    BY <2>1, <2>2
  <2> HIDE DEF word
  <2> DEFINE p == NewPlace(table, word.lexeme)
  <2>5. CASE Places(table, word.lexeme) = {}
    <3>1. /\ TableInv(table') /\ p \notin EntriesOf(table)
          /\ EntriesOf(table') = EntriesOf(table) \union {p}
          /\ \A q \in EntriesOf(table) : At(table', q) = At(table, q)
          /\ At(table', p) = NewSymbol(word.lexeme, word.token)
      BY <2>1, <2>3, <2>5, InsertKeeps DEF DeclInv
    <3> HIDE DEF p
    <3>2. At(table', p).token # "identifier"
      BY <2>3, <3>1 DEF NewSymbol
    <3>3. Grew(p)
      BY <3>1 DEF Grew, NewSymbol, Kept
    <3>4. Identifiers' = Identifiers
      BY <3>1, <3>2 DEF Identifiers
    <3>5. EntryGood(table', entry') /\ EntryGood(table', last')
      BY <2>1, <3>1, GoodStays DEF DeclInv, lookahead
    <3>6. ParserTypes'
      BY <2>1, <2>4, <3>1 DEF DeclInv, ParserTypes, lookahead
    <3>7. ~entry.new /\ PointersInv'
      BY <2>1, ZeroGood DEF DeclInv, PointersInv, lookahead
    <3>8. SymbolsInv'
      <4>1. Settled' = Settled /\ Settled \subseteq EntriesOf(table)
        BY <2>1, <3>4 DEF Settled, Owing, lookahead, Identifiers
      <4>2. Declared' = Declared
        BY <2>1 DEF Declared, vars
      <4> QED
        BY <2>1, <3>1, <4>1, <4>2, SettledStay DEF DeclInv
    <3>9. OverlapInv'
      BY <2>1, AllocatesOverlap DEF DeclInv
    <3> QED
      BY <3>1, <3>3, <3>5, <3>6, <3>7, <3>8, <3>9 DEF DeclInv, TableStep
  <2>6. CASE Places(table, word.lexeme) # {}
    <3>1. table' = table
      BY <2>1, <2>6 DEF Insert
    <3>2. EntryGood(table', entry') /\ EntryGood(table', last')
      BY <2>1, <3>1 DEF DeclInv, lookahead
    <3>3. ParserTypes'
      BY <2>1, <2>4, <3>1 DEF DeclInv, ParserTypes, lookahead
    <3>4. PointersInv'
      BY <2>1, <3>1, ZeroGood DEF DeclInv, PointersInv, lookahead
    <3>5. SymbolsInv'
      <4>1. Settled' = Settled /\ Declared' = Declared
        BY <2>1, <3>1 DEF Settled, Owing, lookahead, Identifiers, Declared, vars
      <4> QED
        BY <2>1, <3>1, <4>1, SettledStay DEF DeclInv
    <3>6. OverlapInv'
      BY <2>1, AllocatesOverlap DEF DeclInv
    <3> QED
      BY <3>1, <3>2, <3>3, <3>4, <3>5, <3>6 DEF DeclInv, TableStep
  <2> QED
    BY <2>5, <2>6
<1>2. CASE FirstToken
  <2>1. CASE Stop("failed")
    BY <1>2, <2>1, FailKeeps DEF FirstToken, Running
  <2>2. CASE ~Stop("failed")
    <3>1. /\ Running("main") /\ NextToken /\ Goto("start")
          /\ UNCHANGED <<vars, last, decl>>
      BY <1>2, <2>2 DEF FirstToken
    <3>2. Looked
      BY <3>1, NextTokenLooks DEF DeclInv
    <3>3. ~entry.new
      BY <3>1, ZeroGood DEF DeclInv, PointersInv, Running
    <3>4. Advances
      BY <3>1, <3>3, DeclOfType DEF Advances, Running, Goto, Pcs
    <3> QED
      BY <3>1, <3>2, <3>4, LookedKeeps DEF Running, Goto
  <2> QED
    BY <2>1, <2>2
<1> QED
  BY <1>1, <1>2

-----------------------------------------------------------------------------
(* The whole.                                                              *)

LEMMA DeclInvHolds == DeclInit => DeclInv
<1> SUFFICES ASSUME DeclInit
             PROVE  DeclInv
  OBVIOUS
<1>1. /\ table = EmptyTable /\ entry = ZeroEntry /\ last = ZeroEntry
      /\ found = FALSE /\ pc = "main" /\ decl = NoDecl /\ populated = 0
      /\ status = "running"
  BY DEF DeclInit
<1>2. table \in Tables /\ EntriesOf(table) = {}
  <2>1. \A s \in Slots : EmptyTable[s] = <<>> /\ <<>> \in Seq(Symbols) /\ DOMAIN <<>> = {}
    BY DEF EmptyTable
  <2> QED
    BY <1>1, <2>1 DEF EmptyTable, Tables, EntriesOf
<1>3. OverlapInv
  BY InitOverlap DEF DeclInit
<1>4. TableInv(table)
  BY <1>2 DEF TableInv
<1>5. EntryGood(table, entry) /\ EntryGood(table, last) /\ ~entry.new
  BY <1>1, ZeroGood
<1>6. ParserTypes
  <2>1. decl \in Decls /\ decl.id = Null
    BY <1>1 DEF NoDecl, Decls, Types
  <2>2. populated \in 0 .. Len(Keywords)
    BY <1>1, KeywordsReserved
  <2> QED
    BY <1>1, <2>1, <2>2 DEF ParserTypes, Pcs
<1>7. PointersInv
  BY <1>1, <1>5 DEF PointersInv, Reading, VarPcs, ConstPcs
<1>8. SymbolsInv
  BY <1>2 DEF SymbolsInv, Settled, Identifiers
<1> QED
  BY <1>3, <1>4, <1>5, <1>6, <1>7, <1>8 DEF DeclInv

LEMMA IdleKeeps == DeclInv /\ UNCHANGED declVars => DeclInv' /\ TableStep
<1> SUFFICES ASSUME DeclInv, UNCHANGED declVars
             PROVE  DeclInv' /\ TableStep
  OBVIOUS
<1> USE DEF declVars, lookahead
<1>1. OverlapInv'
  BY AllocatesOverlap DEF DeclInv
<1>2. /\ TableInv(table') /\ EntryGood(table', entry') /\ EntryGood(table', last')
      /\ ParserTypes' /\ PointersInv'
  BY DEF DeclInv, ParserTypes, PointersInv, Symbol
<1>3. Settled' = Settled /\ Declared' = Declared
  BY DEF Settled, Identifiers, Owing, Declared, vars
<1>4. SymbolsInv'
  <2>1. CASE status \in {"running", "ok"}
    <3>1. \A p \in Settled : HasValue(At(table, p))'
      <4> SUFFICES ASSUME NEW p \in Settled
                   PROVE  HasValue(At(table, p))'
        OBVIOUS
      <4>1. HasValue(At(table, p))
        BY <2>1 DEF SymbolsInv, DeclInv
      <4> QED
        BY <1>3, <4>1 DEF HasValue
    <3> QED
      BY <1>3, <2>1, <3>1 DEF SymbolsInv, DeclInv
  <2>2. CASE status \notin {"running", "ok"}
    BY <2>2 DEF SymbolsInv
  <2> QED
    BY <2>1, <2>2
<1> QED
  BY <1>1, <1>2, <1>4 DEF DeclInv, TableStep

LEMMA DeclStep ==
  DeclInv /\ WritingInv /\ [DeclNext]_declVars => DeclInv' /\ TableStep
<1> SUFFICES ASSUME DeclInv, WritingInv, [DeclNext]_declVars
             PROVE  DeclInv' /\ TableStep
  OBVIOUS
<1>1. CASE StartEnd
  <2>1. PICK how \in {"ok", "failed"} : Stop(how) /\ (how = "ok" => found)
    BY <1>1 DEF StartEnd
  <2> QED
    BY <1>1, <2>1, StopKeeps DEF StartEnd, Running
<1>2. CASE Done \/ UNCHANGED declVars
  BY <1>2, IdleKeeps DEF Done
<1>3. CASE DeclNext /\ ~StartEnd /\ ~Done
  BY <1>3, MainKeeps, MatchesKeep, CommandsKeep, NamesKeep, ValuesKeep DEF DeclNext
<1> QED
  BY <1>1, <1>2, <1>3

(* Only the reset of a write list leaves a value over, and only its buffer *)
(* is allocated before it is dropped.                                      *)
LEMMA WritingStep ==
  DeclInv /\ WritingInv /\ [DeclNext]_declVars => WritingInv'
<1> SUFFICES ASSUME DeclInv, WritingInv, [DeclNext]_declVars
             PROVE  WritingInv'
  OBVIOUS
<1> USE DEF Writing
<1>1. CASE WriteResets
  <2>1. next["tmp"]' = 0
    BY <1>1 DEF WriteResets, ResetForWrite, ResetTmp, ResetTmpKeeping, DeclInv,
                OverlapInv, TypeOK, Areas
  <2> QED
    BY <1>1, <2>1 DEF WriteResets, Goto, WritingInv
<1>2. CASE WriteBuffer
  BY <1>2 DEF WriteBuffer, Goto, WritingInv
<1>3. CASE WriteEnd
  BY <1>3 DEF WriteEnd, DropLeftover, Goto, WritingInv
<1>4. CASE UNCHANGED declVars \/ Done
  BY <1>4 DEF Done, declVars, vars, WritingInv
<1>5. ASSUME DeclNext, ~WriteResets, ~WriteBuffer, ~WriteEnd, ~Done
      PROVE  pc \notin Writing /\ pc' \notin Writing /\ leftover' \in {leftover, {}}
  <2>1. \A how : Stop(how) => pc' = "main" /\ UNCHANGED vars
    BY DEF Stop
  <2>2. CASE \/ Populate \/ FirstToken \/ StartDeclaration \/ StartCommand
             \/ StartEnd \/ CommandAllocates \/ NestedCommand
    BY <2>1, <2>2
       DEF Populate, FirstToken, StartDeclaration, StartCommand, StartEnd,
           CommandAllocates, NestedCommand, Running, Goto, vars, ResetTmp,
           ResetTmpKeeping, AllocateTmp, AddTmp, AddValue, Place
  <2>3. CASE CommandWord \/ UseWord \/ CommandToken
    BY <2>1, <2>3 DEF CommandWord, UseWord, CommandToken, Running, Goto, vars
  <2>4. CASE \/ VarName \/ VarDeclare \/ VarAssign \/ VarMinus \/ VarConstant
             \/ VarInit \/ VarPlain \/ VarComma \/ VarEnd
    BY <2>1, <2>4
       DEF VarName, VarDeclare, VarAssign, VarMinus, VarConstant, VarInit, VarPlain,
           VarComma, VarEnd, AddValue, AddUnnitValue, Place, Running, Goto, vars
  <2>5. CASE \/ ConstName \/ ConstDeclare \/ ConstEqual \/ ConstMinus
             \/ ConstConstant \/ ConstInit \/ ConstEnd
    BY <2>1, <2>5
       DEF ConstName, ConstDeclare, ConstEqual, ConstMinus, ConstConstant,
           ConstInit, ConstEnd, AddValue, Place, Running, Goto, vars
  <2> QED
    BY <1>5, <2>2, <2>3, <2>4, <2>5 DEF DeclNext
<1>6. CASE DeclNext /\ ~WriteResets /\ ~WriteBuffer /\ ~WriteEnd /\ ~Done
  BY <1>5, <1>6 DEF WritingInv
<1> QED
  BY <1>1, <1>2, <1>3, <1>4, <1>6

(* The invariant holds whatever is declared, in whatever order, and        *)
(* wherever the parser stops with an error.                                *)
THEOREM Invariance == DeclSpec => [](DeclInv /\ WritingInv)
<1>1. DeclInit => WritingInv
  BY DEF DeclInit, Init, WritingInv, Writing
<1> QED
  BY <1>1, DeclInvHolds, DeclStep, WritingStep, PTL DEF DeclSpec

(* The types of the variables, and pointers into the table that are good.  *)
THEOREM DeclTypeCorrect == DeclSpec => []DeclTypeOK
<1>1. DeclInv => DeclTypeOK
  BY DEF DeclInv, OverlapInv, TableInv, EntryGood, ParserTypes, DeclTypeOK,
         Pcs, Writing, Reading, VarPcs, ConstPcs, Decls
<1> QED
  BY <1>1, Invariance, PTL

(* Values do not overlap in a compilation, through the resets at the start *)
(* of every command, nested ones as well, and within write lists: but for  *)
(* an operand that is left over and the buffer it is written through.      *)
THEOREM DeclValuesDisjoint == DeclSpec => []NoOverlap
<1>1. DeclInv => NoOverlap
  BY OverlapImplies DEF DeclInv
<1> QED
  BY <1>1, Invariance, PTL

(* A token has the one symbol of its name.                                 *)
THEOREM NamesFound == DeclSpec => []NamesFindSymbols
<1>1. DeclInv => NamesFindSymbols
  <2> SUFFICES ASSUME DeclInv, NEW e \in {entry, last}, e.symbol # Null
               PROVE  {p \in EntriesOf(table) : Same(At(table, p).lexeme, e.name)}
                        = {e.symbol}
    BY DEF NamesFindSymbols
  <2>1. e.symbol \in EntriesOf(table) /\ Same(At(table, e.symbol).lexeme, e.name)
    BY DEF DeclInv, EntryGood
  <2> QED
    BY <2>1 DEF DeclInv, TableInv, Same
<1> QED
  BY <1>1, Invariance, PTL

(* Every identifier but the ones in hand has a value of its own.           *)
THEOREM SymbolsDescribed == DeclSpec => []SymbolsHaveValues
<1>1. DeclInv => SymbolsHaveValues
  <2> SUFFICES ASSUME DeclInv
               PROVE  SymbolsHaveValues
    OBVIOUS
  <2>1. Owing \subseteq Pending
    BY DEF Owing, Pending, Reading, VarPcs, ConstPcs
  <2>2. Identifiers \ Pending \subseteq Settled
    BY <2>1 DEF Settled
  <2> QED
    BY <2>2 DEF DeclInv, SymbolsInv, SymbolsHaveValues, SamePlace
<1> QED
  BY <1>1, Invariance, PTL

(* A command uses declared names only.                                     *)
THEOREM UsesDeclared == DeclSpec => []UsesAreDeclared
<1>1. DeclInv => UsesAreDeclared
  <2> SUFFICES ASSUME DeclInv, pc = "command", last.token = "identifier",
                      last.symbol # Null
               PROVE  HasValue(At(table, last.symbol))
    BY DEF UsesAreDeclared
  <2>1. last.symbol \in Identifiers
    BY DEF DeclInv, EntryGood, Identifiers
  <2>2. last.symbol \notin Owing
    BY DEF DeclInv, PointersInv, Owing, Reading, VarPcs, ConstPcs
  <2>3. status = "running"
    BY DEF DeclInv, ParserTypes
  <2> QED
    BY <2>1, <2>2, <2>3 DEF DeclInv, SymbolsInv, Settled
<1> QED
  BY <1>1, Invariance, PTL

-----------------------------------------------------------------------------
(* The layout.                                                             *)

LEMMA DeclAllocates ==
  DeclInv /\ WritingInv /\ [DeclNext]_declVars => Allocates \/ UNCHANGED vars
<1> SUFFICES ASSUME DeclInv, WritingInv, [DeclNext]_declVars, ~(UNCHANGED vars)
             PROVE  Allocates
  OBVIOUS
<1>1. ~(UNCHANGED declVars)
  BY DEF declVars
<1>2. \A how : ~Stop(how)
  BY DEF Stop
<1>3. \/ StartCommand \/ CommandAllocates \/ NestedCommand
      \/ WriteResets \/ WriteBuffer \/ WriteEnd
      \/ VarInit \/ VarPlain \/ ConstInit
  BY <1>1, <1>2, Zenon
     DEF DeclNext, Populate, FirstToken, StartDeclaration, StartEnd, CommandWord,
         UseWord, CommandToken, VarName, VarDeclare, VarAssign, VarMinus,
         VarConstant, VarComma, VarEnd, ConstName, ConstDeclare, ConstEqual,
         ConstMinus, ConstConstant, ConstEnd, Done
<1>4. CASE \/ StartCommand \/ CommandAllocates \/ NestedCommand
           \/ WriteResets \/ WriteBuffer \/ WriteEnd
  BY <1>4, CommandsAllocate
<1>5. last.type \in Types /\ Literal(last.type, last.length)
  BY DEF DeclInv, EntryGood, Entries, Literal
<1>7. CASE VarInit
  <2>1. AddValue(last.type, Symbol.class, last.length)
    BY <1>2, <1>7 DEF VarInit
  <2> QED
    BY <1>5, <2>1, AddValueAllocates
<1>8. CASE VarPlain
  <2>1. Symbol.type \in Types
    BY <1>8 DEF VarPlain, Running, DeclInv, PointersInv, VarPcs, ParserTypes, Decls
  <2> QED
    BY <1>8, <2>1 DEF VarPlain, AddUnnitValue, Allocates
<1>9. CASE ConstInit
  <2>1. AddValue(last.type, "const", last.length)
    BY <1>2, <1>9 DEF ConstInit
  <2> QED
    BY <1>5, <2>1, AddValueAllocates
<1> QED
  BY <1>3, <1>4, <1>7, <1>8, <1>9

(* Under the calls that are made the compiler's addresses are nasm's.      *)
THEOREM DeclLayoutAgreement ==
  ASSUME \A n \in Contents : n <= 255
  PROVE  DeclSpec => []LayoutAgrees
<1>1. DeclInit => LayoutInv
  BY InitLayout DEF DeclInit
<1>2. DeclInv /\ WritingInv /\ LayoutInv /\ [DeclNext]_declVars => LayoutInv'
  BY DeclAllocates, AllocatesLayout
<1>3. LayoutInv => LayoutAgrees
  BY DEF LayoutInv
<1> QED
  BY <1>1, <1>2, <1>3, Invariance, PTL DEF DeclSpec

-----------------------------------------------------------------------------
(* The table implements the set.                                           *)

LEMMA SymbolsOfPointers ==
  ASSUME NEW t \in Tables
  PROVE  \A x : x \in SymbolsOf(t) <=> \E p \in EntriesOf(t) : x = At(t, p)
<1>1. \A x : x \in SymbolsOf(t) <=>
        \E s \in Slots : \E i \in DOMAIN t[s] : x = t[s][i]
  BY DEF SymbolsOf
<1>2. \A s \in Slots : DOMAIN t[s] = 1 .. Len(t[s])
  BY DEF Tables
<1>3. \A s \in Slots : \A i \in 1 .. Len(t[s]) :
        /\ [slot |-> s, place |-> i] \in EntriesOf(t)
        /\ At(t, [slot |-> s, place |-> i]) = t[s][i]
  BY PointersOf DEF At
<1>4. \A p \in EntriesOf(t) : /\ p.slot \in Slots /\ p.place \in 1 .. Len(t[p.slot])
                              /\ At(t, p) = t[p.slot][p.place]
  BY PointersOf DEF At
<1>5. ASSUME NEW x, x \in SymbolsOf(t)
      PROVE  \E p \in EntriesOf(t) : x = At(t, p)
  <2>1. PICK s \in Slots : \E i \in 1 .. Len(t[s]) : x = t[s][i]
    BY <1>1, <1>2, <1>5
  <2>2. PICK i \in 1 .. Len(t[s]) : x = t[s][i]
    BY <2>1
  <2> QED
    BY <1>3, <2>2
<1>6. ASSUME NEW p \in EntriesOf(t)
      PROVE  At(t, p) \in SymbolsOf(t)
  BY <1>1, <1>2, <1>4
<1> QED
  BY <1>5, <1>6

LEMMA TableImplements ==
  DeclInv /\ DeclInv' /\ TableStep => [Set!Next]_(SymbolsOf(table))
<1> SUFFICES ASSUME DeclInv, DeclInv', TableStep,
                    SymbolsOf(table') # SymbolsOf(table)
             PROVE  Set!Next
  BY DEF SymbolsOf
<1> DEFINE old == SymbolsOf(table)
           all == SymbolsOf(table')
<1>1. TableInv(table) /\ TableInv(table') /\ table \in Tables /\ table' \in Tables
  BY DEF DeclInv, TableInv
<1>2. \A x : x \in old <=> \E p \in EntriesOf(table) : x = At(table, p)
  BY <1>1, SymbolsOfPointers
<1>3. \A x : x \in all <=> \E p \in EntriesOf(table') : x = At(table', p)
  BY <1>1, SymbolsOfPointers
<1> HIDE DEF old, all
<1>4. ASSUME NEW p, Grew(p)
      PROVE  Set!Next
  <2> DEFINE new == At(table', p)
  <2>1. all = old \union {new}
    BY <1>2, <1>3, <1>4 DEF Grew, Kept
  <2>2. \A s \in old : Fold[s.lexeme] # Fold[new.lexeme]
    BY <1>1, <1>2, <1>4 DEF Grew, Kept, TableInv, Same
  <2>3. new \in all \ old
    BY <2>1, <2>2
  <2>4. new.class = "none" /\ new.section = "none"
    BY <1>4 DEF Grew
  <2> HIDE DEF new
  <2> QED
    BY <2>1, <2>2, <2>3, <2>4 DEF Set!Next, Set!Insert, old, all, SymbolsOf
<1>5. ASSUME NEW p, Wrote(p)
      PROVE  Set!Next
  <2> DEFINE new == At(table', p)
             was == At(table, p)
  <2>1. was \in old /\ new \in all
    BY <1>2, <1>3, <1>5 DEF Wrote
  <2>2. \A q \in EntriesOf(table) : At(table, q).lexeme = was.lexeme => q = p
    BY <1>1, <1>5 DEF Wrote, TableInv, Same
  <2>3. new # was /\ new.lexeme = was.lexeme
    BY <1>5 DEF Wrote
  <2>4. new \notin old
    BY <1>2, <2>2, <2>3
  <2>5. was \notin all
    BY <1>3, <1>5, <2>2, <2>3 DEF Wrote, Kept
  <2>6. all = (old \ {was}) \union {new}
    BY <1>2, <1>3, <1>5, <2>1, <2>2, <2>3, <2>5 DEF Wrote, Kept
  <2>7. /\ was.token = "identifier" /\ new.token = was.token
        /\ was.section = "none" /\ was.class \in {"none", new.class}
    BY <1>5 DEF Wrote
  <2> HIDE DEF new, was
  <2> QED
    BY <2>1, <2>3, <2>4, <2>5, <2>6, <2>7
       DEF Set!Next, Set!Declare, old, all, SymbolsOf
<1>6. table' # table
  OBVIOUS
<1> QED
  BY <1>4, <1>5, <1>6 DEF TableStep

(* The hash table with its chains, pointers and flags is a set of symbols  *)
(* with one for every name, each described once.                           *)
THEOREM TableIsSet == DeclSpec => ImplementsSymbolSet
<1>1. DeclInit => Set!Init
  <2> SUFFICES ASSUME DeclInit
               PROVE  SymbolsOf(table) = {}
    BY DEF Set!Init
  <2>1. table = EmptyTable /\ \A s \in Slots : EmptyTable[s] = <<>> /\ DOMAIN <<>> = {}
    BY DEF DeclInit, EmptyTable
  <2> QED
    BY <2>1 DEF SymbolsOf
<1> QED
  BY <1>1, Invariance, DeclStep, TableImplements, PTL
     DEF DeclSpec, ImplementsSymbolSet, Set!Spec
=============================================================================
