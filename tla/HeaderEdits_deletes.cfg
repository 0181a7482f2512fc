\* Every addheader / deleteheader command, value-patterns and :index
\* included, with empty and non-empty values.
CONSTANTS
  X = X
  R = R
  B = B
  Fields = {X, R, B}
  Protected = {R}
  Invalid = {B}
  Values = {"", "a"}
  Messages <- MCMessages
  Keys = {"", "a"}
  MatchTypes = {"is", "contains"}
  Indexes = {0, 1, 2}
  PatternIndexes = {0, 1, 2}
  MaxCmds = 2
SPECIFICATION Spec
PROPERTY DeleteOnlyRemoves
CHECK_DEADLOCK FALSE
