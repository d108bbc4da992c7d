CONSTANTS
  Content <- MCContent
  ContentType = {"text/plain", "application/json"}
  Header = {"Location"}
  Value = {"x", "y"}
  Asked <- MCAsked
  MaxCalls = 4
CHECK_DEADLOCK FALSE
SPECIFICATION Spec
INVARIANTS ContentArrives GeneratedIsBodyless
