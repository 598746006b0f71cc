SPECIFICATION Spec
CONSTANTS
  Kinds = {"cmd", "if", "else", "loop", "parse", "files", "{", "}", "func{", "goto", "gosub",
           "group", "call", "return", "break", "continue", "exit"}
  MaxNesting = 1
  MaxLines = 6
  MaxDepth = 6
  MaxIterations = 1
  MaxFolders = 0
  MaxLaunches = 1
  LaunchLines = 3
  MayAppend <- MayExtend
  Admitted <- RunScripts
INVARIANTS
  TypeOK
  RunsWithin
  EndsMetByOwner
  BuiltinsCurrent
PROPERTY FollowsTheText
CHECK_DEADLOCK FALSE
