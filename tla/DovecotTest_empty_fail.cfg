CONSTANTS
  Suites <- MCExpandSuites
  Disabled = {"t3"}
  DefaultLen = 4000
SPECIFICATION Spec
INVARIANT FailuresReported
CHECK_DEADLOCK FALSE
