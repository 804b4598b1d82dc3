-------------------------------- MODULE MCBus ---------------------------------
(***************************************************************************)
(* Instances of Bus for TLC.                                               *)
(***************************************************************************)
EXTENDS Bus

\* hio_write succeeds or fails.
OkOrFail == {-1, 1}

StatusRequest == {[op |-> "request", topic |-> HMSG_MSGID_STATUS, to |-> IdB]}
===============================================================================
