CONSTANTS
  Zones <- MCZones
  PartArgs = {"date", "HOUR", "zone", "bogus"}
  ToLower <- MCToLower
  Dates <- MCDates
  Headers <- MCHeaders
  Keys <- MCKeys
  MaxCount = 2
  MaxIndex = 2
  LocalOffset = 7200
SPECIFICATION Spec
INVARIANT TypeOK
 
CHECK_DEADLOCK FALSE
