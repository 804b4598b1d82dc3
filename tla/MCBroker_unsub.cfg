CONSTANTS
  IOs = {io1, io2}
  Ptrs = {p1, p2}
  NULL = NULL
  Msgs <- MCMsgs
SPECIFICATION Spec
INVARIANT
  UnsubRemoves
\* A broker that crashed on a NULL session does nothing more.
CHECK_DEADLOCK FALSE
