-------------------------------- MODULE PubSub --------------------------------
(***************************************************************************)
(* What the broker promises its clients, without sessions, pointers or an  *)
(* index: a set of members, each with a node id and a set of topics, and   *)
(* for every event the client it came from, its frame and the members the  *)
(* frame is delivered to.  A client's membership, id and topics change in  *)
(* events of that client only.                                             *)
(***************************************************************************)
EXTENDS HMsg

CONSTANTS Clients, Msgs, None

VARIABLES
  live,        \* members
  node_id,     \* the id a member registered, 0 before
  topics,      \* the topics of each member
  by,          \* the client the last event came from, None before any
  frame,       \* the frame that event was about, or None
  delivered    \* the members that frame went to

vars == <<live, node_id, topics, by, frame, delivered>>

Init ==
  /\ live = {}
  /\ node_id = [c \in Clients |-> 0]
  /\ topics = [c \in Clients |-> {}]
  /\ by = None
  /\ frame = None
  /\ delivered = {}

\* Client c is heard with frame m.
Heard(c, m) == by' = c /\ frame' = m

\* Frame m of client c is consumed: nobody receives it.
Consume(c, m) == Heard(c, m) /\ delivered' = {}

Join(c) ==
  /\ c \notin live
  /\ live' = live \cup {c}
  /\ Consume(c, None)
  /\ UNCHANGED <<node_id, topics>>

TooLong(m) == FrameLength(m) > PACKAGE_MAX_LENGTH

\* A member leaves by itself, or is thrown out for the frame m.
Leave(c, m) ==
  /\ c \in live
  /\ live' = live \ {c}
  /\ node_id' = [node_id EXCEPT ![c] = 0]
  /\ topics' = [topics EXCEPT ![c] = {}]
  /\ m # None => TooLong(m)
  /\ Consume(c, m)

Valid(m) == HMSG_HEAD_VALID(m, FrameLength(m)) /\ ~TooLong(m)

\* A command comes from a member and is addressed to the broker.
Command(c, m) ==
  /\ c \in live
  /\ Valid(m)
  /\ m.to = HMSG_APPID_BROKER
  /\ Consume(c, m)
  /\ UNCHANGED live

\* The topic a subscription message is about.
DataTopic(m) ==
  HMSG_TOPICEX(0, HMSG_FLAGS(HMSG_FCMD_DATA, HMSG_FLAGS_DATA(m.flags)), m.topic)

Register(c, m) ==
  /\ Command(c, m)
  /\ m.flags = HMSG_FCMD_REGISTER
  /\ node_id' = [node_id EXCEPT ![c] = m.from]
  /\ UNCHANGED topics

\* UNSUB has the bit of SUB.
Subscribe(c, m) ==
  /\ Command(c, m)
  /\ HasBit(m.flags, HMSG_FCMD_SUB)
  /\ topics' = [topics EXCEPT ![c] = @ \cup {DataTopic(m)}]
  /\ UNCHANGED node_id

Unsubscribe(c, m) ==
  /\ Command(c, m)
  /\ m.flags = HMSG_FCMD_UNSUB
  /\ topics' = [topics EXCEPT ![c] = @ \ {DataTopic(m)}]
  /\ UNCHANGED node_id

\* A frame reaches every member that has its topic and is addressed by it.  Its
\* sender c need not be a member.
Publish(c, m) ==
  /\ Valid(m)
  /\ m.to # HMSG_APPID_BROKER
  /\ Heard(c, m)
  /\ delivered' = {r \in live : /\ HMSG_TOPICEX_INMSG(m) \in topics[r]
                                /\ m.to \in {node_id[r], HMSG_APPID_EVERYONR}}
  /\ UNCHANGED <<live, node_id, topics>>

Unknown(m) ==
  /\ ~HasBit(m.flags, HMSG_FCMD_SUB)
  /\ m.flags \notin {HMSG_FCMD_UNSUB, HMSG_FCMD_REGISTER}

\* Of what client c sends, only frames that are invalid or too long may be
\* dropped, and commands that are not known or that c sends without being a
\* member.
MayDrop(c, m) ==
  m # None =>
    \/ ~Valid(m)
    \/ m.to = HMSG_APPID_BROKER /\ (c \notin live \/ Unknown(m))

Ignore(c, m) ==
  /\ MayDrop(c, m)
  /\ Consume(c, m)
  /\ UNCHANGED <<live, node_id, topics>>

Next ==
  \/ \E c \in Clients : Join(c)
  \/ \E c \in Clients, m \in Msgs \cup {None} : Leave(c, m)
  \/ \E c \in Clients, m \in Msgs :
       Register(c, m) \/ Subscribe(c, m) \/ Unsubscribe(c, m) \/ Publish(c, m)
  \/ \E c \in Clients, m \in Msgs \cup {None} : Ignore(c, m)

Spec == Init /\ [][Next]_vars
===============================================================================
