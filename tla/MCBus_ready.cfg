SPECIFICATION Spec
CONSTANTS
  a = a
  b = b
  IdA = 1
  IdB = 2
  ThreadA = ta
  ThreadB = tb
  IO = io
  CallsA <- StatusRequest
  CallsB = {}
  Results = {1}
  MAX_QUEUE = 2
  None = None
CHECK_DEADLOCK FALSE
PROPERTY
  RespondReady
