CONSTANTS
  c1 = c1
  c2 = c2
  Conn = {c1, c2}
  Secure = TRUE
  MaxFds = 2
  MaxChunks = 2
SPECIFICATION FairSpec
CHECK_DEADLOCK FALSE
INVARIANTS NothingIsStranded
PROPERTIES ImplementsFairLifecycle SecureHeldUntilStop
