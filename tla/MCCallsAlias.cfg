CONSTANTS
  F = F
  H = H
  pf = pf
  qh = qh
  sh = sh
  gv = gv
  short = short
  long = long
  NoFunc = NoFunc
  NoVar = NoVar
  Funcs = {F, H}
  HostFuncs = {F}
  Globals = {gv}
  Texts = {short, long}
  Params <- ParamsHere
  Locals <- LocalsHere
  Statics <- StaticsHere
  Size <- SizeHere
  Sets <- SetsHere
  Lines <- LinesHere
  Results <- ResultsHere
  LostResults = TRUE
  MaxFrames = 4
  MaxLines = 3
  MaxThreads = 2
SPECIFICATION Spec
PROPERTY EachCallItsOwnVariables
VIEW WhatCounts
CHECK_DEADLOCK FALSE
