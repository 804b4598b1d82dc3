SPECIFICATION FairSpec
CONSTANTS
  Id = 1
  Threads = {t1}
  IO = io
  Calls <- WaitingCalls
  HandlerCalls <- HandlerOps
  Incoming <- HandledFrames
  Results <- AnyResult
  MAX_QUEUE = 1
  NULL = NULL
PROPERTIES
  EveryCallReturns
  IoReturns
  AutoReconnect
  DestroyReturns
CHECK_DEADLOCK FALSE
