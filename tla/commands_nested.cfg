\* Loops in loops and conditionals in conditionals.
CONSTANTS
  LocalCounts = {0}
  MaxTokens = 8
SPECIFICATION Spec
INVARIANTS NestingIsLabelled
