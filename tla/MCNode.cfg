SPECIFICATION Spec
CONSTANTS
  Id = 1
  Threads = {t1, t2}
  IO = io
  Calls <- ThreadCalls
  HandlerCalls = {}
  Incoming <- ReplyFrames
  Results <- AnyResult
  MAX_QUEUE = 1
  NULL = NULL
SYMMETRY ThreadSymmetry
INVARIANTS
  TypeOK
  UsesAreSafe
  StatusTracksConnection
  OkIsServed
CHECK_DEADLOCK FALSE
