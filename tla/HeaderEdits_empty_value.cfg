\* One deleteheader whose value-pattern matches an empty header value.
CONSTANTS
  X = X
  R = R
  B = B
  Fields = {X, R, B}
  Protected = {R}
  Invalid = {B}
  Values = {"", "a"}
  Messages <- MCMessages
  Keys = {""}
  MatchTypes = {"is"}
  Indexes = {0}
  PatternIndexes = {0}
  MaxCmds = 1
SPECIFICATION Spec
PROPERTY RefinesHeaderView
CHECK_DEADLOCK FALSE
