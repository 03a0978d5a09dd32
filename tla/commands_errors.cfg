\* Errors that are printed and forgotten.
CONSTANTS
  LocalCounts = {0}
  MaxTokens = 8
SPECIFICATION Spec
INVARIANTS ErrorsFail
