CONSTANTS
  MinYear = 0
  MaxYear = 9999
SPECIFICATION Spec
INVARIANT JulianIsDayCount
