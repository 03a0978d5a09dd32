\* Programs of any length, with jumps to their labels.
CONSTANTS
  Regs <- MCRegs
  Cells <- MCValues
  Values <- MCValues
  Operands <- MCOperands
  Denotes <- MCDenotes
  Moves <- MCMoves
  Instructions <- MCInstructions
  Effect <- MCEffect
SPECIFICATION Spec
INVARIANTS NoImpact SectionsKept
