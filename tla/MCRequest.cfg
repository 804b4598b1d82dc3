CONSTANTS
  Threads = {t1, t2}
  Responders = {r1, r2}
  req_ctx_count = 1
  SEQ_MOD = 2
  MAX_REQUESTS = 3
  Timeouts = {500, 2500}
  Clocks = {600}
  IO = IO
  NULL = NULL
SPECIFICATION Spec
INVARIANTS
  TypeOK
  SlotExclusive
  NoSlotLeak
  NoLostWakeUp
  ReplyIsMine
  OkHasReply
PROPERTIES
  BufferNotTouchedOutside
SYMMETRY Symmetric
