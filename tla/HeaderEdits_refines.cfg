\* The journal implements HeaderView on scripts of addheader and of
\* deleteheader without value-patterns.
CONSTANTS
  X = X
  R = R
  B = B
  Fields = {X, R, B}
  Protected = {R}
  Invalid = {B}
  Values = {"a", "b"}
  Messages <- MCMessages
  Keys = {}
  MatchTypes = {"is"}
  Indexes = {0, 1, 2}
  PatternIndexes = {0}
  MaxCmds = 3
SPECIFICATION Spec
INVARIANT TypeOK
PROPERTY RefinesHeaderView
CHECK_DEADLOCK FALSE
