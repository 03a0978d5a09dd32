\* The same: a load after a label that is jumped to.
CONSTANTS
  Regs <- MCRegs
  Cells <- MCValues
  Values <- MCValues
  Operands <- MCOperands
  Denotes <- MCDenotes
  Moves <- MCMoves
  Instructions <- MCInstructions
  Effect <- MCEffect
SPECIFICATION Spec
INVARIANTS NoImpactWithJumps
