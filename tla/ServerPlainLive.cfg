CONSTANTS
  c1 = c1
  c2 = c2
  Conn = {c1, c2}
  Secure = FALSE
  MaxFds = 1
  MaxChunks = 2
SPECIFICATION FairSpec
CHECK_DEADLOCK FALSE
PROPERTIES StopReturns RequestAnswered PlainReleased BacklogDrains
