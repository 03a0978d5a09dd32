\* Commands with strings, characters and lists of values.
CONSTANTS
  Literals <- MCTextLiterals
  Symbols <- MCTextSymbols
  Keywords <- MCTextKeywords
  MaxTokens = 8
SPECIFICATION Spec
INVARIANTS OperandsIntact EffectsAreMeant ErrorsAreErrors
