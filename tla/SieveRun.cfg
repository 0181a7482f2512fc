\* Every pair of commands followed by an if, with a sender, a null one and
\* an invalid one, under four host mailbox policies,
\* over every small message; at most one redirect.
CONSTANTS
  X = X
  R = R
  B = B
  Fields = {X, R, B}
  Protected = {R}
  Invalid = {B}
  Values = {"", "a"}
  Keys = {"a"}
  MatchTypes = {"is"}
  Indexes = {0, 1}
  PatternIndexes = {0}
  Messages <- MCMessages
  AddrHeaders = {X}
  MsgSize = 2
  Senders = {"s", "", "!"}
  MaxRedirects = 1
  EnvTo = "r"
  ValidEnvAddrs = {"s", "r"}
  Policies <- MCPolicies
  Scripts <- MCScripts
SPECIFICATION Spec
INVARIANT TypeOK
INVARIANT ImplicitKeepIff
INVARIANT TestsSeeEdits
PROPERTY FailedStepRecordsNothing
CHECK_DEADLOCK FALSE
