CONSTANTS
  c1 = c1
  c2 = c2
  c3 = c3
  Conn = {c1, c2, c3}
  Secure = FALSE
  MaxFds = 2
  MaxChunks = 2
SPECIFICATION Spec
SYMMETRY Symmetry
CHECK_DEADLOCK FALSE
INVARIANTS TypeOK SocketsAreOwned StoppedStaysStopped
PROPERTIES AnsweredOnce ImplementsLifecycle
