CONSTANTS
  Suites <- MCConfigSuites
  Disabled = {"t3"}
  DefaultLen = 4000
SPECIFICATION Spec
INVARIANT NestedScopeIsolated
CHECK_DEADLOCK FALSE
