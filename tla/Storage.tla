------------------------------ MODULE Storage ------------------------------
(***************************************************************************)
(* Where the compiler puts the values of an L program.                     *)
(*                                                                         *)
(* codegen.c keeps one address counter per area of the generated program:  *)
(* temporaries (the bytes at the label TMP), variables without a value     *)
(* (.bss, at UNNIT_MEM), variables with a value (.data, at INIT_MEM) and   *)
(* constants (.rodata, at CONST_MEM).  It computes the address of every    *)
(* value by itself and writes `LABEL + address' in the instructions, while *)
(* nasm lays out the directives of the same values on its own.  Nothing in *)
(* the program compares the two: `loc' is what nasm does with the          *)
(* directives, and the properties say that both always agree.              *)
(***************************************************************************)
EXTENDS ValueTypes, FiniteSets

CONSTANTS
  TmpSize,      (* bytes reserved at TMP by the template: 0x10000          *)
  Word,         (* uint64_t arithmetic is modulo this                      *)
  Contents,     (* lengths a string literal may have, without its quotes   *)
  ScratchSizes, (* sizes of the temporaries that operations allocate       *)
  MaxValues,    (* bound: values declared                                  *)
  MaxTmps       (* bound: temporaries one command may allocate             *)

ASSUME TmpSizeAssumption == TmpSize \in Nat /\ TmpSize % 256 = 0
ASSUME WordAssumption == Word \in Nat /\ Word > 256
ASSUME ContentsAssumption ==
  Contents \subseteq Nat /\ \A n \in Contents : n + 1 < Word
ASSUME ScratchAssumption == ScratchSizes \subseteq Nat \ {0}
ASSUME BoundsAssumption == MaxValues \in Nat /\ MaxTmps \in Nat

VARIABLES
  next,    (* the four static counters current_*_address                   *)
  loc,     (* nasm's location counter in each section of the output        *)
  values,  (* values that generated code may refer to                      *)
  leftover (* the operand of a write list whose temporary was given back
              before it is read: one value, or none                        *)

vars == <<next, loc, values, leftover>>

Areas == {"tmp", "bss", "data", "rodata"}
Sections == {"bss", "data", "rodata"}

(* A value: where the compiler believes it is, and the bytes nasm gave it. *)
Values == [area : Areas, address : Nat, size : Nat, at : Nat, end : Nat]

-----------------------------------------------------------------------------
(* Operators that codegen.c computes with.                                 *)

(* A mistake that would be easy to make: to forget the NUL of a string.    *)
EmittedWithoutNul(t, n) ==
  IF t = "string" THEN n + (SizeFromType(t) - (n + 1)) ELSE SizeFromType(t)

(* Bytes that the `db'/`dd' and `times' lines of an initialised value      *)
(* define: a string of n characters is followed by its NUL and by          *)
(* 256 - (n + 1) zeros, computed in uint64_t.                              *)
EmittedBytes(t, n) ==
  IF t = "string"
  THEN (n + 1) + ((SizeFromType(t) + Word - (n + 1)) % Word)
  ELSE SizeFromType(t)

(* align/alignb n: nasm pads its own location counter.                     *)
NasmAlign(location, n) == location + ((n - (location % n)) % n)

(* The label that an area's addresses are relative to, in its section.     *)
SectionOf(area) == IF area = "tmp" THEN "bss" ELSE area
Base(area) == IF area = "bss" THEN TmpSize ELSE 0

-----------------------------------------------------------------------------
(* dump_template reserves TMP at the start of .bss, before UNNIT_MEM.      *)
Init ==
  /\ next = [a \in Areas |-> 0]
  /\ loc = [s \in Sections |-> IF s = "bss" THEN TmpSize ELSE 0]
  /\ values = {}
  /\ leftover = {}

Declared == {v \in values : v.area # "tmp"}

(* The part all three allocators of a declared value share.                *)
Place(area, size, bytes) ==
  LET at == NasmAlign(loc[area], size) IN
  /\ Cardinality(Declared) < MaxValues
  /\ next' = [next EXCEPT ![area] = NextAddress(next[area], size)]
  /\ loc' = [loc EXCEPT ![area] = at + bytes]
  /\ values' = values \union
       {[area |-> area, address |-> AlignedAddress(next[area], size),
         size |-> size, at |-> at, end |-> at + bytes]}
  /\ UNCHANGED leftover

(* codegen_add_unnit_value: a variable declared without a value.           *)
AddUnnitValue(t) == Place("bss", SizeFromType(t), SizeFromType(t))

(* codegen_add_value: a variable with a value, or a constant.              *)
AddValue(t, class, n) ==
  Place(IF class = "var" THEN "data" ELSE "rodata",
        SizeFromType(t), EmittedBytes(t, n))

(* get_next_address on current_bss_tmp_address, by whatever operation.     *)
AllocateTmp(size) ==
  LET address == AlignedAddress(next["tmp"], size) IN
  /\ Cardinality(values \ Declared) < MaxTmps
  /\ next' = [next EXCEPT !["tmp"] = NextAddress(next["tmp"], size)]
  /\ values' = values \union
       {[area |-> "tmp", address |-> address, size |-> size,
         at |-> address, end |-> address + size]}
  /\ UNCHANGED <<loc, leftover>>

(* codegen_add_tmp: a literal in an expression.  Strings and floats cannot *)
(* be moved from a register, they become constants in .rodata.             *)
AddTmp(t, n) ==
  IF t \in {"string", "float"}
  THEN AddValue(t, "const", n)
  ELSE AllocateTmp(SizeFromType(t))

(* codegen_reset_tmp: the area is used again from its start, although the  *)
(* values of `kept' are still to be read.                                  *)
ResetTmpKeeping(kept) ==
  /\ next' = [next EXCEPT !["tmp"] = 0]
  /\ values' = Declared
  /\ leftover' = kept
  /\ UNCHANGED loc

(* At the start of a command nothing is.                                   *)
ResetTmp == ResetTmpKeeping({})

(* A write list resets between the evaluation of a value and the code that *)
(* writes it: the value may be any of the temporaries, or none of them.    *)
ResetForWrite ==
  \/ ResetTmp
  \/ \E v \in values \ Declared : ResetTmpKeeping({v})

(* The value has been written.                                             *)
DropLeftover == leftover' = {} /\ UNCHANGED <<next, loc, values>>

(* Until then codegen_write allocates its buffer and nothing else.         *)
Next ==
  \/ \E t \in Types : AddUnnitValue(t)
  \/ \E t \in Types, class \in Classes, n \in Contents : AddValue(t, class, n)
  \/ \E t \in Types, n \in Contents : leftover = {} /\ AddTmp(t, n)
  \/ \E size \in ScratchSizes :
       (leftover = {} \/ next["tmp"] = 0) /\ AllocateTmp(size)
  \/ ResetForWrite
  \/ DropLeftover

Spec == Init /\ [][Next]_vars

-----------------------------------------------------------------------------
(* Properties.                                                             *)

(* Counters and locations are natural numbers and values are well formed:  *)
(* the types of the static counters and of struct codegen_value_info.      *)
TypeOK ==
  /\ next \in [Areas -> Nat]
  /\ loc \in [Sections -> Nat]
  /\ values \subseteq Values
  /\ leftover \subseteq Values

(* The temporaries of the current command fit in the 64 kB reserved for    *)
(* them, "first 64kB of .bss" (include/codegen.h).                         *)
TmpFits == \A v \in values \union leftover :
  v.area = "tmp" => v.address + v.size <= TmpSize

(* The bytes the instructions access when they name the value.             *)
First(v) == Base(v.area) + v.address
Disjoint(v, w) ==
  \/ SectionOf(v.area) # SectionOf(w.area)
  \/ First(v) + v.size <= First(w)
  \/ First(w) + w.size <= First(v)

(* codegen_write loads a leftover before it stores anything to the buffer  *)
(* it writes it through, the temporary at the start of the area.           *)
IsBuffer(v) == v.area = "tmp" /\ v.address = 0

(* As long as the temporaries fit, no two live values share a byte: a      *)
(* store to one variable or temporary never changes another, whatever the  *)
(* order of declarations, literals, expressions and write lists.  The one  *)
(* exception is the operand of a write list and its own buffer.            *)
NoOverlap == TmpFits =>
  /\ \A v, w \in values : v # w => Disjoint(v, w)
  /\ \A v \in leftover, w \in values : Disjoint(v, w) \/ IsBuffer(w)

(* The compiler and nasm agree on every value: `LABEL + address' is where  *)
(* nasm put the value, and nasm reserved exactly its size there.           *)
LayoutAgrees ==
  \A v \in values : v.at = First(v) /\ v.end = v.at + v.size
=============================================================================
