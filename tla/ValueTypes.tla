----------------------------- MODULE ValueTypes -----------------------------
(***************************************************************************)
(* The types of L's values, their sizes and the alignment of addresses in  *)
(* codegen.c.                                                              *)
(***************************************************************************)
EXTENDS Integers

Types == {"float", "int", "char", "logic", "string"}
Classes == {"var", "const"}

SizeFromType(t) ==
  CASE t \in {"float", "int"}  -> 4
    [] t \in {"char", "logic"} -> 1
    [] t = "string"            -> 256

(* A mistake: to subtract the padding.                                     *)
AlignedBelow(counter, size) ==
  IF counter % size = 0 THEN counter ELSE counter - (size - (counter % size))

(* get_next_address: the counter rounded up to a multiple of the size...   *)
AlignedAddress(counter, size) ==
  IF counter % size = 0 THEN counter ELSE counter + (size - (counter % size))

(* ...and where it leaves the counter.                                     *)
NextAddress(counter, size) == AlignedAddress(counter, size) + size
=============================================================================
