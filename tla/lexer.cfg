\* All files of up to six characters.
CONSTANTS
  MaxLexeme = 3
  MaxSize = 6
  Input <- MCInput
SPECIFICATION Spec
INVARIANTS TypeOK LongestMatch ErrorsAreErrors LineIsRight LexemeIsText EmptyEntry
