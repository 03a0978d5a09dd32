-------------------------- MODULE MCStructuredCode --------------------------
(* StructuredCode for TLC: programs that use a bounded number of labels.   *)
EXTENDS StructuredCode

CONSTANT MaxLabels   (* bound: labels of one program                        *)

ASSUME MaxLabelsAssumption == MaxLabels \in Nat

BoundedSpec == Init /\ [][Next /\ counter' <= MaxLabels]_svars
=============================================================================
