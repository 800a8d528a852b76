CONSTANTS
  Top = 3
  Value <- MCValue
  Field <- MCField
  Cell <- MCCell
  Prop <- MCProp
  Kind <- MCKind
  From <- MCFrom
  To <- MCTo
  As <- MCAs
  Fn <- MCFn
  Truthy <- MCTruthy
  Signature <- MCSignature
  Initial <- MCInitial
  Inputs <- MCInputs
  Domain <- MCDomain
SPECIFICATION Spec
INVARIANTS
  TypeOK
  NoLostWakeup
  DoneIsFixpoint
  ResultIsLeastFixpoint
  ExitIsUnavoidable
PROPERTY ForgetsOnlyByRestart
CHECK_DEADLOCK FALSE
