\* An address test with the empty key, on a message that may lack the header.
CONSTANTS
  X = X
  R = R
  B = B
  Fields = {X, R, B}
  Protected = {R}
  Invalid = {B}
  Values = {"", "a"}
  Keys = {""}
  MatchTypes = {"is"}
  Indexes = {0, 1}
  PatternIndexes = {0}
  Messages <- MCMessages
  AddrHeaders = {X}
  MsgSize = 2
  Senders = {"s", ""}
  MaxRedirects = 1
  EnvTo = "r"
  ValidEnvAddrs = {"s", "r"}
  Policies <- MCPolicies
  Scripts <- MCScripts
SPECIFICATION Spec
INVARIANT TestsSeeEdits
CHECK_DEADLOCK FALSE
