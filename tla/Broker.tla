-------------------------------- MODULE Broker --------------------------------
(***************************************************************************)
(* The broker process, src/hbroker.c: one event loop, one hsession_t per   *)
(* accepted connection and a global index from topic to the sessions that  *)
(* subscribed to it.  Every callback of the loop is one action, because    *)
(* the loop is a single thread and hio_write only ever closes a            *)
(* connection asynchronously.                                              *)
(*                                                                         *)
(* Subscriptions are kept twice: each session lists its topics in          *)
(* buf_topics, and map_topic_sessions lists the sessions of each topic by  *)
(* raw pointer.  The pointers are heap addresses that malloc reuses, so a  *)
(* pointer left behind in the index would later denote another client.     *)
(***************************************************************************)
EXTENDS HMsg, Sequences, Functions

CONSTANTS
  IOs,     \* hio_t objects of the loop, reused after a close
  Ptrs,    \* heap addresses malloc may return for an hsession_t
  Msgs,    \* messages that clients send
  NULL

ASSUME BrokerAssumption ==
  /\ Msgs \subseteq Message
  /\ NULL \notin Ptrs
  /\ NULL \notin IOs

VARIABLES
  open,                \* connections the loop reads from
  ctx,                 \* hio_context of each connection
  live,                \* addresses that hold an hsession_t
  s_io, node_id, buf_topics,   \* its fields; fixed values at a free address
  map_topic_sessions,  \* topic_ex -> sequence of session pointers
  process,             \* "running", or "crashed" on a NULL session
  last                 \* history: the last event and the connections written to

session == <<live, s_io, node_id, buf_topics>>
vars == <<open, ctx, session, map_topic_sessions, process, last>>

\* What the history remembers of an event.
Event(name, io, msg, sent) == [event |-> name, io |-> io, msg |-> msg, sent |-> sent]

-------------------------------------------------------------------------------
(***************************************************************************)
(* The buffers (hcore) and the topic index.                                *)
(***************************************************************************)

\* hbuf_remove: memmove the items above position i one place down.
hbuf_remove(buf, i) ==
  [j \in 1..(Len(buf) - 1) |-> IF j < i THEN buf[j] ELSE buf[j + 1]]

\* The search loop of the two removals: the first match is removed.
FirstIndex(buf, x) ==
  CHOOSE i \in DOMAIN buf : buf[i] = x /\ \A j \in DOMAIN buf : buf[j] = x => i <= j

RemoveItem(buf, x) ==
  IF x \in Range(buf) THEN hbuf_remove(buf, FirstIndex(buf, x)) ELSE buf

\* HIHASH_FIND: the sessions of a topic, none when the key is absent.
SessionsOf(map, topic) == IF topic \in DOMAIN map THEN map[topic] ELSE << >>

hbus_ctx_session_add(map, topic, s) ==
  IF s \in Range(SessionsOf(map, topic))
  THEN map
  ELSE [t \in DOMAIN map \cup {topic} |->
          IF t = topic THEN Append(SessionsOf(map, topic), s) ELSE map[t]]

\* What is left under topic t when s has been removed under all of the topics.
Rest(map, topics, s, t) == IF t \in topics THEN RemoveItem(map[t], s) ELSE map[t]

\* Fault: the list is deleted without the test that it became empty.
FaultDropsList(map, topics, s) == [t \in DOMAIN map \ topics |-> map[t]]

\* Removes s from the list of each of the topics; a list that becomes empty
\* leaves the map.
SessionRmAll(map, topics, s) ==
  [t \in {u \in DOMAIN map : u \in topics => Rest(map, topics, s, u) # << >>} |->
     Rest(map, topics, s, t)]

hbus_ctx_session_rm(map, topic, s) == SessionRmAll(map, {topic}, s)

\* Fault: the loop stops one topic early.
FaultSkipsLastTopic(map, p) ==
  SessionRmAll(map, {buf_topics[p][i] : i \in 1..(Len(buf_topics[p]) - 1)}, p)

\* The loop of hbus_seesion_free over buf_topics: its iterations touch
\* different topics, so they are taken at once (LoopIsSetRemoval compares
\* this with the loop itself).
SessionFree(map, p) == SessionRmAll(map, Range(buf_topics[p]), p)

-------------------------------------------------------------------------------
Init ==
  /\ open = {}
  /\ ctx = [io \in IOs |-> NULL]
  /\ live = {}
  /\ s_io = [p \in Ptrs |-> NULL]
  /\ node_id = [p \in Ptrs |-> 0]
  /\ buf_topics = [p \in Ptrs |-> << >>]
  /\ map_topic_sessions = [t \in {} |-> << >>]
  /\ process = "running"
  /\ last = Event("start", NULL, NULL, << >>)

\* hbus_seesion_alloc at a free address.
hbus_seesion_alloc(p, io) ==
  /\ p \notin live
  /\ live' = live \cup {p}
  /\ s_io' = [s_io EXCEPT ![p] = io]
  /\ node_id' = [node_id EXCEPT ![p] = 0]
  /\ buf_topics' = [buf_topics EXCEPT ![p] = << >>]

OnAccept(io, p) ==
  /\ process = "running"
  /\ io \notin open
  /\ hbus_seesion_alloc(p, io)
  /\ open' = open \cup {io}
  /\ ctx' = [ctx EXCEPT ![io] = p]
  /\ last' = Event("accept", io, NULL, << >>)
  /\ UNCHANGED <<map_topic_sessions, process>>

\* on_accept when hbus_seesion_alloc returns NULL (malloc or hbuf_init fails):
\* the result is stored and reading starts all the same.
OnAcceptNoMemory(io) ==
  /\ process = "running"
  /\ io \notin open
  /\ open' = open \cup {io}
  /\ ctx' = [ctx EXCEPT ![io] = NULL]
  /\ last' = Event("accept", io, NULL, << >>)
  /\ UNCHANGED <<session, map_topic_sessions, process>>

-------------------------------------------------------------------------------
(***************************************************************************)
(* on_read: one complete frame from the unpacker.                          *)
(***************************************************************************)
Frame(io, msg) ==
  /\ process = "running"
  /\ io \in open
  /\ FrameLength(msg) <= PACKAGE_MAX_LENGTH

ValidFrame(io, msg) == Frame(io, msg) /\ HMSG_HEAD_VALID(msg, FrameLength(msg))

OnReadInvalid(io, msg) ==
  /\ Frame(io, msg)
  /\ ~HMSG_HEAD_VALID(msg, FrameLength(msg))
  /\ last' = Event("invalid", io, msg, << >>)
  /\ UNCHANGED <<open, ctx, session, map_topic_sessions, process>>

\* A frame not meant for the broker goes to the sessions listed under its
\* topic that have the addressed node id.  The pointers in the index are
\* dereferenced.
Addressed(msg, p) ==
  \/ msg.to = node_id[p]
  \/ msg.to = HMSG_APPID_EVERYONR

\* Fault: every write of the loop uses the first session.
FaultFirstSession(msg) ==
  LET sessions == SessionsOf(map_topic_sessions, HMSG_TOPICEX_INMSG(msg))
  IN  [i \in {j \in DOMAIN sessions : Addressed(msg, sessions[j])} |-> s_io[sessions[1]]]

\* The writes of the loop: position in the list -> the connection written to.
Receivers(msg) ==
  LET sessions == SessionsOf(map_topic_sessions, HMSG_TOPICEX_INMSG(msg))
  IN  [i \in {j \in DOMAIN sessions : Addressed(msg, sessions[j])} |-> s_io[sessions[i]]]

OnReadForward(io, msg) ==
  /\ ValidFrame(io, msg)
  /\ msg.to # HMSG_APPID_BROKER
  /\ last' = Event("forward", io, msg, Receivers(msg))
  /\ UNCHANGED <<open, ctx, session, map_topic_sessions, process>>

\* The command branches in the order the code tests them.
Command(flags) ==
  IF HasBit(flags, HMSG_FCMD_SUB) THEN "sub"
  ELSE IF flags = HMSG_FCMD_UNSUB THEN "unsub"
  ELSE IF flags = HMSG_FCMD_REGISTER THEN "register"
  ELSE "unknown"

CommandFrame(io, msg, cmds) ==
  /\ ValidFrame(io, msg)
  /\ msg.to = HMSG_APPID_BROKER
  /\ Command(msg.flags) \in cmds
  /\ last' = Event("command", io, msg, << >>)
  /\ UNCHANGED <<open, ctx, live, s_io>>

\* Fault: the command's own flags are used for the key.
FaultCommandKey(msg) == HMSG_TOPICEX(0, msg.flags, msg.topic)

\* The data topic a SUB or UNSUB command is about.
TopicToSub(msg) ==
  HMSG_TOPICEX(0, HMSG_FLAGS(HMSG_FCMD_DATA, HMSG_FLAGS_DATA(msg.flags)), msg.topic)

\* SUB: a topic already in buf_topics returns early.
AddSub(p, topic) ==
  IF topic \in Range(buf_topics[p])
  THEN UNCHANGED <<buf_topics, map_topic_sessions>>
  ELSE /\ map_topic_sessions' = hbus_ctx_session_add(map_topic_sessions, topic, p)
       /\ buf_topics' = [buf_topics EXCEPT ![p] = Append(@, topic)]

\* UNSUB: nothing happens unless the topic is in buf_topics.
RemoveSub(p, topic) ==
  IF topic \in Range(buf_topics[p])
  THEN /\ buf_topics' = [buf_topics EXCEPT ![p] = RemoveItem(@, topic)]
       /\ map_topic_sessions' = hbus_ctx_session_rm(map_topic_sessions, topic, p)
  ELSE UNCHANGED <<buf_topics, map_topic_sessions>>

\* Fault: the session is looked up by the sender's id, not by hio_context.
FaultSessionByNodeId(io, msg) ==
  /\ CommandFrame(io, msg, {"sub", "unsub"})
  /\ \E p \in live : node_id[p] = msg.from /\ AddSub(p, TopicToSub(msg))
  /\ UNCHANGED <<node_id, process>>

OnReadSubscription(io, msg) ==
  /\ CommandFrame(io, msg, {"sub", "unsub"})
  /\ ctx[io] # NULL
  /\ IF Command(msg.flags) = "sub"
     THEN AddSub(ctx[io], TopicToSub(msg))
     ELSE RemoveSub(ctx[io], TopicToSub(msg))
  /\ UNCHANGED <<node_id, process>>

OnReadRegister(io, msg) ==
  /\ CommandFrame(io, msg, {"register"})
  /\ ctx[io] # NULL
  /\ node_id' = [node_id EXCEPT ![ctx[io]] = msg.from]
  /\ UNCHANGED <<buf_topics, map_topic_sessions, process>>

OnReadUnknown(io, msg) ==
  /\ CommandFrame(io, msg, {"unknown"})
  /\ UNCHANGED <<node_id, buf_topics, map_topic_sessions, process>>

\* Every other command dereferences the session.
OnReadNullSession(io, msg) ==
  /\ CommandFrame(io, msg, {"sub", "unsub", "register"})
  /\ ctx[io] = NULL
  /\ process' = "crashed"
  /\ UNCHANGED <<node_id, buf_topics, map_topic_sessions>>

-------------------------------------------------------------------------------
\* free(s).
Release(p) ==
  /\ live' = live \ {p}
  /\ s_io' = [s_io EXCEPT ![p] = NULL]
  /\ node_id' = [node_id EXCEPT ![p] = 0]
  /\ buf_topics' = [buf_topics EXCEPT ![p] = << >>]

\* Fault: the session stays allocated.
FaultLeaksSession(p) ==
  /\ map_topic_sessions' = SessionFree(map_topic_sessions, p)
  /\ buf_topics' = [buf_topics EXCEPT ![p] = << >>]
  /\ UNCHANGED <<live, s_io, node_id>>

\* Fault: the session is freed and its pointers stay in the index.
FaultKeepsPointers(p) ==
  /\ Release(p)
  /\ UNCHANGED map_topic_sessions

hbus_seesion_free(p) ==
  /\ map_topic_sessions' = SessionFree(map_topic_sessions, p)
  /\ Release(p)

\* on_close; libhv clears the context of a closed hio_t before it is used
\* again.
CloseSession(io) ==
  /\ process = "running"
  /\ io \in open
  /\ open' = open \ {io}
  /\ ctx' = [ctx EXCEPT ![io] = NULL]
  /\ \/ /\ ctx[io] # NULL
        /\ hbus_seesion_free(ctx[io])
        /\ UNCHANGED process
     \/ /\ ctx[io] = NULL
        /\ process' = "crashed"
        /\ UNCHANGED <<session, map_topic_sessions>>

\* The peer went away, or an asynchronous close after a failed write ran.
OnClose(io) ==
  /\ CloseSession(io)
  /\ last' = Event("close", io, NULL, << >>)

\* The length field announces a frame above package_max_length: libhv closes
\* the connection, which runs on_close; on_read never sees the frame.
OnOversizeFrame(io, msg) ==
  /\ FrameLength(msg) > PACKAGE_MAX_LENGTH
  /\ CloseSession(io)
  /\ last' = Event("oversize", io, msg, << >>)

-------------------------------------------------------------------------------
OnRead(io, msg) ==
  \/ OnReadInvalid(io, msg)
  \/ OnReadForward(io, msg)
  \/ OnReadSubscription(io, msg)
  \/ OnReadRegister(io, msg)
  \/ OnReadUnknown(io, msg)
  \/ OnReadNullSession(io, msg)

Next ==
  \E io \in IOs :
    \/ \E p \in Ptrs : OnAccept(io, p)
    \/ OnAcceptNoMemory(io)
    \/ \E msg \in Msgs : OnRead(io, msg)
    \/ OnClose(io)
    \/ \E msg \in Msgs : OnOversizeFrame(io, msg)

Spec == Init /\ [][Next]_vars

-------------------------------------------------------------------------------
(***************************************************************************)
(* Properties.                                                             *)
(***************************************************************************)

\* Every variable has the shape the structs of hbroker.c give it: sessions
\* live at heap addresses and the index maps keys of data frames, which is
\* what TopicToSub makes of a command, to lists of pointers.
TypeOK ==
  /\ open \subseteq IOs
  /\ ctx \in [IOs -> Ptrs \cup {NULL}]
  /\ live \subseteq Ptrs
  /\ s_io \in [Ptrs -> IOs \cup {NULL}]
  /\ node_id \in [Ptrs -> UInt16]
  /\ buf_topics \in [Ptrs -> Seq(DataTopics)]
  /\ DOMAIN map_topic_sessions \subseteq DataTopics
  /\ \A t \in DOMAIN map_topic_sessions : map_topic_sessions[t] \in Seq(Ptrs)
  /\ process \in {"running", "crashed"}
  /\ last.io \in IOs \cup {NULL}
  /\ last.msg \in Msgs \cup {NULL}
  /\ DOMAIN last.sent \subseteq Nat
  /\ \A i \in DOMAIN last.sent : last.sent[i] \in IOs

\* A connection that is open and got a session owns exactly that session, and
\* every allocated session belongs to an open connection: on_close frees each
\* session once and leaks none, although addresses and hio_t are reused.
SessionOwnership ==
  /\ \A io \in IOs : ctx[io] # NULL => io \in open /\ ctx[io] \in live /\ s_io[ctx[io]] = io
  /\ \A p \in live : s_io[p] \in open /\ ctx[s_io[p]] = p

\* No value occurs twice in a list.
Distinct(list) == \A i, j \in DOMAIN list : list[i] = list[j] => i = j

\* Session p is in the index under topic t.
Listed(map, t, p) == t \in DOMAIN map /\ p \in Range(map[t])

\* Every pointer in the index denotes a live session that lists the topic
\* itself, once per topic, and no empty list is kept: hbus_seesion_free
\* removes every pointer on_read added, so on_read and on_timer never
\* dereference freed memory.
IndexIsLive ==
  \A t \in DOMAIN map_topic_sessions :
    LET list == map_topic_sessions[t]
    IN  /\ list # << >>
        /\ Distinct(list)
        /\ \A p \in Range(list) : p \in live /\ t \in Range(buf_topics[p])

\* Conversely every topic a live session lists is indexed under it, once: no
\* subscriber is forgotten by the forwarding loop.
IndexIsComplete ==
  \A p \in live :
    /\ Distinct(buf_topics[p])
    /\ \A t \in Range(buf_topics[p]) : Listed(map_topic_sessions, t, p)

\* A forwarded frame is written at most once to a connection, and only to a
\* connection that is still open, whatever was subscribed, closed and
\* re-accepted before.
ForwardOnce ==
  /\ Distinct(last.sent)
  /\ last.event = "forward" => Range(last.sent) \subseteq open

\* The events of one connection (its frames, its close, a new accept on its
\* hio_t) never add or remove another live session's entries in the index:
\* hbuf_remove and the deletion of an emptied list only touch the leaver.
OthersUndisturbed ==
  [][\A p \in live : s_io[p] # last'.io =>
       \A t \in DOMAIN map_topic_sessions \cup DOMAIN map_topic_sessions' :
         Listed(map_topic_sessions, t, p) <=> Listed(map_topic_sessions', t, p)]_vars

\* hbus_seesion_free's loop, one topic of buf_topics after the other.
SessionFreeLoop(map, p) ==
  LET topics == buf_topics[p]
      after[i \in 0..Len(topics)] ==
        IF i = 0 THEN map ELSE hbus_ctx_session_rm(after[i - 1], topics[i], p)
  IN  after[Len(topics)]

\* Freeing a session topic by topic, as the loop of hbus_seesion_free does,
\* and removing all its topics at once give the same index.
LoopIsSetRemoval ==
  \A p \in live : SessionFreeLoop(map_topic_sessions, p) = SessionFree(map_topic_sessions, p)

\* What the "remove sub" branch of on_read is for: after an UNSUB command the
\* session no longer lists the topic.
UnsubRemoves ==
  last.event = "command" /\ last.msg.flags = HMSG_FCMD_UNSUB /\ ctx[last.io] \in live
    => TopicToSub(last.msg) \notin Range(buf_topics[ctx[last.io]])

-------------------------------------------------------------------------------
(***************************************************************************)
(* What the broker promises, PubSub, seen through the sessions' own lists. *)
(***************************************************************************)
Members == {io \in IOs : ctx[io] # NULL}
MemberIds == [io \in IOs |-> IF io \in Members THEN node_id[ctx[io]] ELSE 0]
MemberTopics == [io \in IOs |-> IF io \in Members THEN Range(buf_topics[ctx[io]]) ELSE {}]
Delivered == Range(last.sent)

Promise ==
  INSTANCE PubSub WITH Clients <- IOs, None <- NULL, live <- Members,
                       node_id <- MemberIds, topics <- MemberTopics,
                       by <- last.io, frame <- last.msg, delivered <- Delivered

\* The broker implements PubSub: the forwarding loop over the pointer index
\* reaches exactly the members whose own list has the topic and that are
\* addressed, no frame is dropped that should be forwarded, no command of a
\* member is dropped, and what the callbacks of one connection change is the
\* membership, the id and the topics of that connection alone.
ImplementsPubSub == Promise!Spec
===============================================================================
