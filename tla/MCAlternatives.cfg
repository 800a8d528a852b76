CONSTANTS
  long = long
  gist = gist
  Value <- MCValue
  Field <- MCField
  Cell <- MCCell
  Prop <- MCProp
  Kind <- MCKind
  From <- MCFrom
  To <- MCTo
  As <- MCAs
  Fn <- MCFn
  Truthy <- MCTruthy
  Signature <- MCSignature
  Initial <- MCInitial
  Inputs <- MCInputs
  Async = {"abstract"}
  Failures <- MCFailures
  Readers <- MCReaders
  Rankings <- MCRankings
SPECIFICATION Spec
INVARIANT AsIfSynchronous
CHECK_DEADLOCK FALSE
