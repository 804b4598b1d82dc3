CONSTANTS
  Threads = {t1, t2}
  Responders = {r1}
  req_ctx_count = 1
  SEQ_MOD = 2
  MAX_REQUESTS = 1
  Timeouts = {2500}
  Clocks = {0}
  IO = IO
  NULL = NULL
SPECIFICATION Spec
INVARIANT
  OkHasReplyAnyTimeout
