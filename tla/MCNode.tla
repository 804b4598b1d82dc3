-------------------------------- MODULE MCNode --------------------------------
(***************************************************************************)
(* Instances of Node for TLC.                                              *)
(***************************************************************************)
EXTENDS Node, TLC

C(op, topic) == [op |-> op, topic |-> topic, to |-> 2]

\* Calls of application threads, and of handlers.  Topic 0 is the status topic.
UnsubCalls == {C("subscribe", 7), C("unsubscribe", 7)}
ThreadCalls == {C("respond", 0), C("request", 0), C("unsubscribe", 0)}
WaitingCalls == {C("subscribe", 7), C("publish", 7), C("request", 0)}
HandlerOps == {C("request", 0)}

\* A status request and, with it, a reply, one that is too long for the unpacker
\* and a command that is no data, or a published message, long or not.
Data(fdata, topic) == hmsg_t(HMSG_FLAGS(HMSG_FCMD_DATA, fdata), topic, 2, Id, 0)
Long(m) == [m EXCEPT !.payload_size = PACKAGE_MAX_LENGTH]
StatusFrame == {Data(HMSG_FDATA_REQUEST, HMSG_MSGID_STATUS)}
ReplyFrames ==
  LET reply == Data(HMSG_FDATA_REPOND, 0)
  IN  StatusFrame \cup {reply, Long(reply), hmsg_t(HMSG_FCMD_REGISTER, 0, 2, Id, 0)}
HandledFrames ==
  LET published == Data(HMSG_FDATA_PUBSUB, 7)
  IN  StatusFrame \cup {published, Long(published)}

AnyResult == {-1, 0, 1}
ThreadSymmetry == Permutations(Threads)
===============================================================================
