CONSTANTS
  outer1 = outer1
  outer2 = outer2
  inner1 = inner1
  inner2 = inner2
  Task <- MCTask
  Needs <- MCNeeds
  Caps = {2}
SPECIFICATION Spec
INVARIANT QueueCannotDeadlock
CHECK_DEADLOCK FALSE
