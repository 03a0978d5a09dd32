\* Every sequence of three commands.
CONSTANTS
  StringSize = 8
  MemSize <- MCMemSize
  Variables <- MCVariables
  Initial <- MCInitial
  Lines <- MCLines
  LastLines <- MCLastLines
  MaxCommands = 3
SPECIFICATION Spec
INVARIANTS TypeOK ReadsNumbers WritesValues
PROPERTIES ReadsBooleans NeighboursKept RoundTrip
