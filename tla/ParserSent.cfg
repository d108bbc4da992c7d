CONSTANTS
  Requests <- MCRequests
  Careless <- MCCareless
  Messages <- MCMessages
  Faults <- SomeFaults
  BufSize = 24
  Word = 1000
SPECIFICATION FairClientSpec
CHECK_DEADLOCK FALSE
INVARIANTS TypeOK DeliveredAsSent DecidedAtItsEnd LengthIsKept RefusedForLengthOnly
PROPERTIES ProperIsDecided
