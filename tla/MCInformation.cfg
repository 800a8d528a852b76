CONSTANTS
  rough = rough
  fine = fine
  yes = yes
  no = no
  Value <- MCValue
  Field <- MCField
  Cell <- MCCell
  Prop <- MCProp
  Kind <- MCKind
  From <- MCFrom
  To <- MCTo
  As <- MCAs
  Fn <- MCFn
  Truthy <- MCTruthy
  Signature <- MCSignature
  Initial <- MCInitial
  Inputs <- MCInputs
  Async <- MCAsync
  Failures <- MCFailures
  Readers <- MCReaders
  Rankings <- MCRankings
SPECIFICATION Spec
INVARIANT CallsHaveInformation
CHECK_DEADLOCK FALSE
