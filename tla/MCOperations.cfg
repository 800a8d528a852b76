CONSTANTS
  Keyword = {"defn"}
  Prelude <- MCPrelude
  Builtin <- MCBuiltin
  ReservedWord = {"class", "if"}
  Clients <- MCClients
  Files <- MCFiles
  MaxNesting = 6
  MaxVersion = 2
  MaxLength = 2
  MaxOpen = 2
SPECIFICATION Spec
INVARIANTS
  ReadInFull
  BagOfDeclarations
  AcceptedMeansLoaded
  CheckedMeansSound
  CompiledAsWritten
  RecordsKeepTheirPlace
  FailuresAreValues
PROPERTIES
  TextsComeFromTheirDocuments
CHECK_DEADLOCK FALSE
