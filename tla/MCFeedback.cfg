CONSTANTS
  hello = hello
  ciao = ciao
  Value <- MCValue
  Field <- MCField
  Cell <- MCCell
  Prop <- MCProp
  Kind <- MCKind
  From <- MCFrom
  To <- MCTo
  As <- MCAs
  Fn <- MCFn
  Truthy <- MCTruthy
  Signature <- MCSignature
  Initial <- MCInitial
  Inputs <- MCInputs
  Async <- MCProp
  Failures <- MCFailures
  Readers <- MCReaders
  Rankings <- MCRankings
SPECIFICATION FairSpec
PROPERTY Converges
CHECK_DEADLOCK FALSE
