CONSTANTS
  Symbol <- MCSymbol
  RouterObj = {r1, r2}
  Path <- MCPath
  Endpoint <- MCEndpoint
  Variable = {"{x}", "{y}"}
  Uri <- MCUri
  Method = {"GET", "PUT"}
  MaxLoops = 8
  MaxEndpoints = 2
  MaxRoutes = 2
SYMMETRY Symmetry
SPECIFICATION Spec
CHECK_DEADLOCK FALSE
INVARIANTS CalledAsOffered OfferedIsFound OrderOfSearch ParametersMeant
