CONSTANTS
  Symbol <- MCSymbol
  RouterObj = {r1, r2}
  Path <- MCPath
  Endpoint <- MCEndpoint
  Variable = {"{x}", "{y}"}
  Uri <- LongUri
  Method = {"GET"}
  MaxLoops = 8
  MaxEndpoints = 1
  MaxRoutes = 1
SPECIFICATION Spec
CHECK_DEADLOCK FALSE
INVARIANTS LongUriIsNotFound
