\* A boolean that is written.
CONSTANTS
  Literals <- MCTextLiterals
  Symbols <- MCTextSymbols
  Keywords <- MCTextKeywords
  MaxTokens = 5
SPECIFICATION Spec
INVARIANTS WritesTheValue
