\* Two identifiers, initialised or not, and the temporaries of commands.
CONSTANTS
  TmpSize = 768
  Word = 4096
  Contents = {255}
  ScratchSizes = {4, 257}
  MaxValues = 3
  MaxTmps = 2
  MaxLiterals = 1
  NoName = "none"
  Names <- MCNames
  Fold <- MCFold
  CharSum <- MCCharSum
  Capacity = 2
  Keywords <- MCKeywords
  ConstantTypes = {"int", "string"}
SPECIFICATION DeclSpec
INVARIANTS DeclTypeOK NoOverlap LayoutAgrees SymbolsHaveValues UsesAreDeclared NamesFindSymbols
PROPERTIES ImplementsSymbolSet
