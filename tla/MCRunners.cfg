CONSTANTS
  Top = 2
  Value <- MCValue
  Field <- MCField
  Cell <- MCCell
  Prop <- MCProp
  Kind <- MCKind
  From <- MCFrom
  To <- MCTo
  As <- MCAs
  Fn <- MCFn
  Truthy <- MCTruthy
  Signature <- MCSignature
  Initial <- MCInitial
  Inputs <- MCInputs
  Readers <- MCReaders
  Rankings <- MCRankings
SPECIFICATION FairSpec
INVARIANTS
  TypeOK
  QueuedMirrorsQueue
PROPERTIES
  ImplementsPropagation
  Terminates
CHECK_DEADLOCK FALSE
