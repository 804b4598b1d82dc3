CONSTANTS
  Threads = {t1, t2}
  Responders = {r1, r2}
  req_ctx_count = 1
  SEQ_MOD = 2
  MAX_REQUESTS = 2
  Timeouts = {2500}
  Clocks = {0}
  IO = IO
  NULL = NULL
SPECIFICATION FairSpec
PROPERTIES
  RequestReturns
  IoThreadProceeds
