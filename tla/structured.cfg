\* Every nesting of loops and conditionals with up to eight labels.
CONSTANTS
  LocalCounts = {0, 1, 2}
  MaxLabels = 8
SPECIFICATION BoundedSpec
INVARIANTS UnitInv WellLabelled
