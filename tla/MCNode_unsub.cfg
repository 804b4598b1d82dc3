SPECIFICATION Spec
CONSTANTS
  Id = 1
  Threads = {t1}
  IO = io
  Calls <- UnsubCalls
  HandlerCalls = {}
  Incoming <- StatusFrame
  Results <- AnyResult
  MAX_QUEUE = 1
  NULL = NULL
INVARIANT
  UnsubscribeRemoves
CHECK_DEADLOCK FALSE
