---------------------------------- MODULE Bus ----------------------------------
(***************************************************************************)
(* Two nodes and the broker.  The nodes are instances of Node, taken from  *)
(* NodeSession with the lemmas about them; the broker is the PubSub        *)
(* specification, which src/hbroker.c implements (theorem                  *)
(* BrokerImplementsPubSub).  A connection carries frames in order, and is  *)
(* cut from either side at any time: a restart of the broker cuts both.    *)
(* Frames under way on it are lost, and the session at the broker with     *)
(* them; the table of the node survives.                                   *)
(***************************************************************************)
EXTENDS HMsg, Integers, Sequences, SequencesExt

CONSTANTS
  a, b,            \* the nodes
  IdA, IdB,
  ThreadA, ThreadB, IO,
  CallsA, CallsB,  \* the API calls of their application threads
  Results,         \* what hio_write may return
  MAX_QUEUE,       \* bound on the frames under way in one direction
  None

VARIABLES
  a_heap, a_loop, a_status, a_conn, a_up, a_down, a_map_subpool, a_mtx,
  a_pc, a_call, a_ret, a_io_msg,
  b_heap, b_loop, b_status, b_conn, b_up, b_down, b_map_subpool, b_mtx,
  b_pc, b_call, b_ret, b_io_msg,
  live, node_id, topics, by, frame, delivered,   \* the broker
  first            \* history: nodes that have not lost a connection yet

a_rest == <<a_heap, a_loop, a_status, a_conn, a_map_subpool, a_mtx, a_pc, a_call, a_ret, a_io_msg>>
b_rest == <<b_heap, b_loop, b_status, b_conn, b_map_subpool, b_mtx, b_pc, b_call, b_ret, b_io_msg>>
queues == <<a_up, a_down, b_up, b_down>>
broker == <<live, node_id, topics, by, frame, delivered>>
vars == <<a_rest, b_rest, queues, broker, first>>

A == INSTANCE NodeSession WITH
  Id <- IdA, Threads <- {ThreadA}, Calls <- CallsA, HandlerCalls <- {}, Incoming <- {},
  NULL <- None, heap <- a_heap, loop <- a_loop, status <- a_status, conn <- a_conn,
  up <- a_up, down <- a_down, map_subpool <- a_map_subpool, mtx <- a_mtx,
  pc <- a_pc, call <- a_call, ret <- a_ret, io_msg <- a_io_msg

B == INSTANCE NodeSession WITH
  Id <- IdB, Threads <- {ThreadB}, Calls <- CallsB, HandlerCalls <- {}, Incoming <- {},
  NULL <- None, heap <- b_heap, loop <- b_loop, status <- b_status, conn <- b_conn,
  up <- b_up, down <- b_down, map_subpool <- b_map_subpool, mtx <- b_mtx,
  pc <- b_pc, call <- b_call, ret <- b_ret, io_msg <- b_io_msg

Broker == INSTANCE PubSub WITH Clients <- {a, b}, Msgs <- {}

\* 0 is the id of a session that has not registered, and hmsg.h reserves two.
ASSUME BusAssumption ==
  /\ a # b
  /\ {IdA, IdB} \subseteq UInt16 \ {0, HMSG_APPID_BROKER, HMSG_APPID_EVERYONR}
  /\ IdA # IdB
  /\ IO \notin {ThreadA, ThreadB}
  /\ None \notin Message \cup {ThreadA, ThreadB, IO}
  /\ CallsA \subseteq A!Call
  /\ CallsB \subseteq B!Call
  /\ Results \subseteq {-1, 0, 1}
  /\ MAX_QUEUE \in Nat \ {0}

Init ==
  /\ A!Init
  /\ B!Init
  /\ Broker!Init
  /\ first = {a, b}

-------------------------------------------------------------------------------
\* No event of the broker, and its last one is forgotten.
BrokerIdle ==
  /\ by' = None
  /\ frame' = None
  /\ delivered' = {}
  /\ UNCHANGED <<live, node_id, topics>>

\* The broker's side of the connection of node n, which was in state was and
\* now is in state now.
Follow(n, was, now) ==
  /\ \/ was # "open" /\ now = "open" /\ Broker!Join(n)
     \/ was = "open" /\ now # "open" /\ Broker!Leave(n, None)
     \/ (was = "open") = (now = "open") /\ BrokerIdle
  /\ first' = IF now = "broken" \/ (was = "open" /\ now # "open") THEN first \ {n} ELSE first

\* A step of one node leaves the other one alone.
OfA(step) ==
  /\ step
  /\ Follow(a, a_conn, a_conn')
  /\ UNCHANGED <<b_rest, b_up, b_down>>

OfB(step) ==
  /\ step
  /\ Follow(b, b_conn, b_conn')
  /\ UNCHANGED <<a_rest, a_up, a_down>>

\* The broker closes a connection, or the network does: the node learns of it
\* later, when it reads or writes.
CutA ==
  /\ a_conn = "open"
  /\ a_conn' = "broken"
  /\ Follow(a, a_conn, a_conn')
  /\ UNCHANGED <<a_heap, a_loop, a_status, a_map_subpool, a_mtx, a_pc, a_call, a_ret, a_io_msg,
                 b_rest, queues>>

CutB ==
  /\ b_conn = "open"
  /\ b_conn' = "broken"
  /\ Follow(b, b_conn, b_conn')
  /\ UNCHANGED <<b_heap, b_loop, b_status, b_map_subpool, b_mtx, b_pc, b_call, b_ret, b_io_msg,
                 a_rest, queues>>

\* The broker handles frame m of node n and writes it to the members it is for.
Handle(n, m) ==
  /\ \/ Broker!Register(n, m)
     \/ Broker!Subscribe(n, m)
     \/ Broker!Unsubscribe(n, m)
     \/ Broker!Publish(n, m)
     \/ Broker!Ignore(n, m)
  /\ a \in delivered' => Len(a_down) < MAX_QUEUE
  /\ b \in delivered' => Len(b_down) < MAX_QUEUE
  /\ a_down' = IF a \in delivered' THEN Append(a_down, m) ELSE a_down
  /\ b_down' = IF b \in delivered' THEN Append(b_down, m) ELSE b_down
  /\ UNCHANGED <<a_rest, b_rest, first>>

ReadA ==
  /\ a_conn = "open"
  /\ a_up # << >>
  /\ a_up' = Tail(a_up)
  /\ Handle(a, Head(a_up))
  /\ UNCHANGED b_up

ReadB ==
  /\ b_conn = "open"
  /\ b_up # << >>
  /\ b_up' = Tail(b_up)
  /\ Handle(b, Head(b_up))
  /\ UNCHANGED a_up

Next ==
  \/ OfA(A!Work)
  \/ OfB(B!Work)
  \/ CutA
  \/ CutB
  \/ ReadA
  \/ ReadB

Spec == Init /\ [][Next]_vars

\* The broker and the threads of both nodes keep running, and a mutex that is
\* free again and again is obtained.
Fairness ==
  /\ WF_vars(ReadA) /\ WF_vars(ReadB)
  /\ \A t \in {ThreadA, IO} : WF_vars(OfA(A!Step(t))) /\ SF_vars(OfA(A!Lock(t)))
  /\ WF_vars(OfA(A!IoStep)) /\ WF_vars(OfA(A!OnRead))
  /\ \A t \in {ThreadB, IO} : WF_vars(OfB(B!Step(t))) /\ SF_vars(OfB(B!Lock(t)))
  /\ WF_vars(OfB(B!IoStep)) /\ WF_vars(OfB(B!OnRead))

\* No connection is lost once it is established, and timeouts are longer than
\* an answer takes: at most one request is under way, so that MAX_QUEUE never
\* makes a write wait.
NextNoLoss == Next /\ first' = first /\ a_ret'[ThreadA] # "ETIMEOUT"
FairSpecNoLoss == Init /\ [][NextNoLoss]_vars /\ Fairness

-------------------------------------------------------------------------------
(***************************************************************************)
(* Properties.                                                             *)
(***************************************************************************)
ReplyKey == A!DataKey("request", HMSG_MSGID_STATUS)
StatusKey == B!DataKey("status", HMSG_MSGID_STATUS)

\* Both nodes and the broker have the state their types allow: the topics of a
\* session are keys of data frames, and frames go to connected nodes.
TypeOK ==
  /\ A!TypeOK
  /\ B!TypeOK
  /\ live \subseteq {a, b}
  /\ node_id \in [{a, b} -> UInt16]
  /\ topics \in [{a, b} -> SUBSET DataTopics]
  /\ delivered \subseteq live

\* A reply that hnode_on_read looks up finds hnode_on_respond: SUB is written
\* before the handler is stored, but the request is sent after both, and no loss
\* of a connection takes the handler away.
RepliesFindHandler ==
  a_pc[IO] = "dispatch" /\ HMSG_TOPICEX_INMSG(a_io_msg) = ReplyKey =>
    A!EntryOf(ReplyKey) = "respond"

\* SUB commands of a node that are under way, as topics.
Asked(up) ==
  {Broker!DataTopic(m) : m \in {x \in Range(up) : HasBit(x.flags, HMSG_FCMD_SUB)}}

\* Until a node loses its first connection, the table it keeps and the session
\* the broker keeps agree: a topic in the table is in the session or its SUB is
\* under way, and a topic of the session is in the table or about to be stored
\* (unless its SUB was queued: hnode_subscribe_i takes that for a failure).
TableMatchesSession ==
  /\ a \in first \cap live =>
       /\ DOMAIN a_map_subpool \subseteq topics[a] \cup Asked(a_up)
       /\ 0 \notin Results =>
            topics[a] \subseteq DOMAIN a_map_subpool \cup
              {A!TopicEx(a_call[t]) : t \in {u \in {ThreadA, IO} : a_pc[u] \in {"store", "save"}}}
  /\ b \in first \cap live =>
       /\ DOMAIN b_map_subpool \subseteq topics[b] \cup Asked(b_up)
       /\ 0 \notin Results =>
            topics[b] \subseteq DOMAIN b_map_subpool \cup
              {B!TopicEx(b_call[t]) : t \in {u \in {ThreadB, IO} : b_pc[u] \in {"store", "save"}}}

\* A status request to a node that serves it is answered, and the answer reaches
\* hnode_on_respond of the node that asked, if no connection is lost.
Serving == node_id[b] = IdB /\ StatusKey \in topics[b] /\ StatusKey \in DOMAIN b_map_subpool
RequestAnswered ==
  (\E c \in CallsA : A!DataMsg(c) \in Range(a_up)) /\ Serving ~> a_pc[IO] = "respond"

\* When hnode_request has checked that the reply topic is ready, replies can
\* reach the node: its session has the topic, or SUB is under way.
RespondReady ==
  [][a_pc[ThreadA] = "find" /\ a_pc'[ThreadA] = "send" /\ a_status = "CONNECTED" /\ a \in live
       => ReplyKey \in topics[a] \cup Asked(a_up)]_vars
===============================================================================
