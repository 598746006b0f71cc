CONSTANTS
  vx = vx
  vr = vr
  Blank = Blank
  Vars = {vx, vr}
  Deep = TRUE
  MaxLexemes = 3
  MaxTokens = 11
  Start <- StartHere
  Texts <- TextsHere
SPECIFICATION Spec
INVARIANTS
  TypeOK
  CircuitAhead
  DoesWhatItSays
CHECK_DEADLOCK FALSE
