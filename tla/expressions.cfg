\* Commands with numbers and booleans.
CONSTANTS
  Literals <- MCLiterals
  Symbols <- MCSymbols
  Keywords <- MCKeywords
  MaxTokens = 7
SPECIFICATION FairSpec
INVARIANTS TypeOK NoAssertionFails OperandsIntact EffectsAreMeant ErrorsAreErrors
PROPERTIES Terminates
