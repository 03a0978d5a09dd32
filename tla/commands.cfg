\* All programs of up to 7 tokens, whatever the lexer finds next and whatever fails.
CONSTANTS
  LocalCounts = {1}
  MaxTokens = 7
SPECIFICATION DriverSpec
INVARIANTS DriverTypeOK AcceptedIsLabelled AcceptsSentences NoFilesLeft ExitTells ExecutablesAreSound
PROPERTIES ImplementsStructuredCode Exits
