CONSTANTS
  vx = vx
  vr = vr
  Blank = Blank
  Vars = {vx, vr}
  Deep = FALSE
  MaxLexemes = 0
  MaxTokens = 11
  Start <- StartHere
  Texts <- TextsHere
SPECIFICATION Spec
INVARIANTS
  TakesItsOwnOperands
CHECK_DEADLOCK FALSE
