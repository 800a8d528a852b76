CONSTANTS
  Task = {t1, t2, t3}
  Needs <- MCNeeds
  Caps = {1, 2}
  Key = {"plain", "tooled", "mute", "strange"}
  ToolList <- MCToolList
  KnownTool = {"run", "parse"}
  Incomplete = {"mute"}
  MAX_TOOL_ROUNDS = 2
SPECIFICATION LlmFairSpec
INVARIANTS
  TypeOK
  CountsTheTasks
  WorkConserving
  PeakProvesTheCap
  FirstInFirstOut
  OneCallPerArguments
  CallsOfTheLoop
PROPERTIES
  StartsWithinCap
  EveryTaskIsAnswered
CHECK_DEADLOCK FALSE
