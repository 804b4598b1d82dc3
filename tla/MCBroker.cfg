CONSTANTS
  IOs = {io1, io2, io3}
  Ptrs = {p1, p2, p3}
  NULL = NULL
  Msgs <- MCMsgs
SPECIFICATION Spec
INVARIANTS
  TypeOK
  SessionOwnership
  IndexIsLive
  IndexIsComplete
  ForwardOnce
  LoopIsSetRemoval
PROPERTIES
  OthersUndisturbed
  ImplementsPubSub
SYMMETRY Symmetric
\* A broker that crashed on a NULL session does nothing more.
CHECK_DEADLOCK FALSE
