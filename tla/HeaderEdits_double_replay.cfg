\* A pattern deleteheader after an earlier edit of the same field:
\* CmdDeleteHeader.Execute replays the journal over a read that has
\* already been replayed.
CONSTANTS
  X = X
  R = R
  B = B
  Fields = {X, R, B}
  Protected = {R}
  Invalid = {B}
  Values = {"a", "b"}
  Messages <- MCMessages
  Keys = {"a"}
  MatchTypes = {"is"}
  Indexes = {0, 1}
  PatternIndexes = {0}
  MaxCmds = 2
SPECIFICATION Spec
PROPERTY RefinesHeaderView
CHECK_DEADLOCK FALSE
