--------------------------------- MODULE Node ---------------------------------
(***************************************************************************)
(* A node, src/hnode.c, from hnode_init to hnode_destroy: the IO thread    *)
(* with its event loop, the connection to the broker and its reconnect     *)
(* timer, the table of handlers map_subpool with its mutex, and the        *)
(* application threads in hnode_subscribe, hnode_respond,                  *)
(* hnode_unsubscribe, hnode_publish and hnode_request.                     *)
(*                                                                         *)
(* Every thread takes one step per access to the shared status, per lock   *)
(* and critical section, and per hio_write.  A callback of the event loop  *)
(* runs on the IO thread from start to end before the next one.  The slots *)
(* that match a reply with its request are the subject of Request; here a  *)
(* request waits until a reply on its topic is handled or it times out.    *)
(***************************************************************************)
EXTENDS HMsg, Integers, Sequences, FiniteSets

CONSTANTS
  Id,            \* node->id
  Threads,       \* application threads
  IO,            \* the IO thread
  Calls,         \* the API calls application threads make
  HandlerCalls,  \* the API calls handlers make, on the IO thread
  Incoming,      \* frames the other end of the connection sends
  Results,       \* what hio_write may return
  MAX_QUEUE,     \* bound on the frames under way in one direction
  NULL

\* The functions of the API and, as "status", the subscription that the node
\* makes for itself, on one topic only.
Ops == {"subscribe", "respond", "unsubscribe", "publish", "request", "status"}
Call == {c \in [op : Ops, topic : UInt16, to : UInt16] :
           c.op = "status" => c.topic = HMSG_MSGID_STATUS}

ASSUME NodeAssumption ==
  /\ Id \in UInt16
  /\ IO \notin Threads
  /\ NULL \notin Threads \cup {IO}
  /\ Calls \subseteq Call
  /\ HandlerCalls \subseteq Call
  /\ Incoming \subseteq Message
  /\ Results \subseteq {-1, 0, 1}
  /\ MAX_QUEUE \in Nat \ {0}

VARIABLES
  heap,         \* the mutex and the table: "fresh" memory, "ready", "fini", "freed"
  loop,         \* node->loop: "null", "new", "running", "stopped"
  status,       \* node->status
  conn,         \* node->io
  up, down,     \* frames under way to and from the broker on node->io
  map_subpool,  \* topic_ex -> the handler that is called
  mtx,          \* owner of map_subpool_mtx
  pc, call,     \* where each thread is, and in which call
  ret,          \* what a call of an application thread returned, NONE until then
  io_msg        \* the message the node's own code handles on the IO thread

life == <<heap, loop>>
io == <<conn, up, down>>
table == <<map_subpool, mtx>>
vars == <<life, status, io, table, pc, call, ret, io_msg>>

Actors == Threads \cup {IO}
Codes == {"NONE", "OK", "EDISCONNECT", "ETIMEOUT", "ESEND", "EBUSY"}

\* Where a thread is inside an API call, and where only the IO thread is.
Inside == {"status", "had", "find", "write", "store", "save", "send", "await"}
InLoop == {"loop", "read", "dispatch", "collect", "iterate", "reply", "respond", "handler"}
Life == {"start", "new", "connect", "run", "fini", "ended"}

-------------------------------------------------------------------------------
(***************************************************************************)
(* Calls: the keys and the frames that the API functions build.            *)
(***************************************************************************)

\* The flag_data that the callers of hnode_subscribe_i pass.
FlagData(op) ==
  CASE op \in {"subscribe", "unsubscribe", "publish"} -> HMSG_FDATA_PUBSUB
    [] op \in {"respond", "status"} -> HMSG_FDATA_REQUEST
    [] op = "request" -> HMSG_FDATA_REPOND

DataKey(op, topic) == HMSG_TOPICEX(0, HMSG_FLAGS(HMSG_FCMD_DATA, FlagData(op)), topic)

\* The flags of the command that a call writes to the broker.
CommandFlags(op) ==
  HMSG_FLAGS(IF op = "unsubscribe" THEN HMSG_FCMD_UNSUB ELSE HMSG_FCMD_SUB, FlagData(op))

\* topic_ex: hnode_unsubscribe_i forms it from the flags of its own command.
TopicEx(c) ==
  IF c.op = "unsubscribe"
  THEN HMSG_TOPICEX(0, CommandFlags(c.op), c.topic)
  ELSE DataKey(c.op, c.topic)

\* Fault: SUB without the kind of data.
FaultSubPlain(c) == hmsg_t(HMSG_FCMD_SUB, c.topic, Id, HMSG_APPID_BROKER, 0)

CommandMsg(c) == hmsg_t(CommandFlags(c.op), c.topic, Id, HMSG_APPID_BROKER, 0)

\* Fault: the handler is forgotten for the node's own calls.
FaultNoHandler(op) == IF op = "status" THEN NULL ELSE "app"

\* The handler a call stores.  The functions that the application passes are not
\* told apart.
Handler(op) ==
  CASE op = "status" -> "hnode_on_status"
    [] op = "request" -> "hnode_on_respond"
    [] OTHER -> "app"

\* hnode_publish sends PUBSUB data, hnode_request REQUEST data.
DataMsg(c) ==
  hmsg_t(HMSG_FLAGS(HMSG_FCMD_DATA,
                    IF c.op = "request" THEN HMSG_FDATA_REQUEST ELSE HMSG_FDATA_PUBSUB),
         c.topic, Id, c.to, 0)

RegisterMsg == hmsg_t(HMSG_FCMD_REGISTER, 0, Id, HMSG_APPID_BROKER, 0)

\* The call hnode_on_connect makes.
StatusCall == [op |-> "status", topic |-> HMSG_MSGID_STATUS, to |-> HMSG_APPID_BROKER]

-------------------------------------------------------------------------------
(***************************************************************************)
(* Threads, the mutex, and libhv as the node uses it.                      *)
(***************************************************************************)
Goto(a, where) == pc' = [pc EXCEPT ![a] = where]
Return(a, code) ==
  /\ Goto(a, IF a = IO THEN "loop" ELSE "idle")
  /\ ret' = [t \in Threads |-> IF t = a THEN code ELSE ret[t]]

Unlock(a) == mtx = a /\ mtx' = NULL

\* HIHASH_SET and HIHASH_DEL.
Put(map, k, h) == [j \in DOMAIN map \cup {k} |-> IF j = k THEN h ELSE map[j]]
Del(map, k) == [j \in DOMAIN map \ {k} |-> map[j]]

\* hio_write on a connection in state c, from any thread: the number of bytes
\* sent (1), 0 when the frame is queued, which is all that happens before the
\* connection is established, or -1 when it fails, after which the loop closes
\* the connection.  What is written to a broken connection goes nowhere.
hio_write(c, m, r) ==
  \/ /\ r \in {0, 1}
     /\ c = "open" \/ (c = "connecting" /\ r = 0)
     /\ Len(up) < MAX_QUEUE
     /\ up' = Append(up, m)
     /\ conn' = c
  \/ /\ r = -1
     /\ conn' = IF c \in {"open", "connecting"} THEN "broken" ELSE c
     /\ UNCHANGED up
  \/ /\ r \in {0, 1}
     /\ c = "broken"
     /\ UNCHANGED <<conn, up>>

\* What is under way is lost with its connection.
Lost == up' = << >> /\ down' = << >>

Init ==
  /\ heap = "fresh"
  /\ loop = "null"
  /\ status = "INIT"
  /\ conn = "none"
  /\ up = << >>
  /\ down = << >>
  /\ map_subpool = << >>
  /\ mtx = NULL
  /\ pc = [a \in Actors |-> IF a = IO THEN "start" ELSE "idle"]
  /\ call = [a \in Actors |-> StatusCall]
  /\ ret = [t \in Threads |-> "NONE"]
  /\ io_msg = NULL

\* pthread_mutex_lock: where a thread waits for map_subpool_mtx, and where it
\* goes on with it: hnode_topic_had_sub, the two updates of the table,
\* hnode_on_read and hnode_on_status.
Locked == [had |-> "find", store |-> "save", read |-> "dispatch", collect |-> "iterate"]

Lock(a) ==
  /\ pc[a] \in DOMAIN Locked
  /\ mtx = NULL
  /\ mtx' = a
  /\ Goto(a, Locked[pc[a]])
  /\ UNCHANGED <<life, status, io, map_subpool, call, ret, io_msg>>

-------------------------------------------------------------------------------
(***************************************************************************)
(* The API functions, on an application thread or, from a handler, on the  *)
(* IO thread.                                                              *)
(***************************************************************************)

\* hnode_destroy has been called.
Destroying == \E t \in Threads : pc[t] \in {"join", "done"}

\* Assumed of the application: no call after hnode_destroy.
Enter(t, c) ==
  /\ pc[t] = "idle"
  /\ ~Destroying
  /\ call' = [call EXCEPT ![t] = c]
  /\ ret' = [ret EXCEPT ![t] = "NONE"]
  /\ Goto(t, "status")
  /\ UNCHANGED <<life, status, io, table, io_msg>>

\* Fault: the status is not tested.
FaultNoStatusTest(a) ==
  /\ pc[a] = "status"
  /\ Goto(a, IF call[a].op = "publish" THEN "send" ELSE "had")
  /\ UNCHANGED <<life, status, io, table, call, ret, io_msg>>

\* The status test; hnode_request makes it twice in a row.
TestStatus(a) ==
  /\ pc[a] = "status"
  /\ IF status # "CONNECTED"
     THEN Return(a, "EDISCONNECT")
     ELSE Goto(a, IF call[a].op = "publish" THEN "send" ELSE "had") /\ UNCHANGED ret
  /\ UNCHANGED <<life, status, io, table, call, io_msg>>

\* hnode_subscribe_i returns OK, to its caller or to hnode_request.
Subscribed(a) ==
  IF call[a].op = "request" THEN Goto(a, "send") /\ UNCHANGED ret ELSE Return(a, "OK")

\* Fault: the early return keeps the mutex.
FaultFindKeepsMutex(a) ==
  /\ pc[a] = "find"
  /\ IF (TopicEx(call[a]) \in DOMAIN map_subpool) = (call[a].op = "unsubscribe")
     THEN Goto(a, "write") /\ Unlock(a) /\ UNCHANGED ret
     ELSE Subscribed(a) /\ UNCHANGED mtx
  /\ UNCHANGED <<life, status, io, map_subpool, call, io_msg>>

\* hnode_topic_had_sub, with the mutex: a known topic needs no SUB, an unknown
\* one no UNSUB.
Find(a) ==
  /\ pc[a] = "find"
  /\ Unlock(a)
  /\ IF (TopicEx(call[a]) \in DOMAIN map_subpool) = (call[a].op = "unsubscribe")
     THEN Goto(a, "write") /\ UNCHANGED ret
     ELSE Subscribed(a)
  /\ UNCHANGED <<life, status, io, map_subpool, call, io_msg>>

\* Fault: a queued command counts as success, but nothing is stored for it.
FaultQueuedIsOk(a, r) ==
  /\ pc[a] = "write"
  /\ hio_write(conn, CommandMsg(call[a]), r)
  /\ IF r # 0 THEN Goto(a, "store") /\ UNCHANGED ret ELSE Subscribed(a)
  /\ UNCHANGED <<life, status, down, table, call, io_msg>>

\* Fault: a request goes on before its handler is stored.
FaultRequestNotStored(a, r) ==
  /\ pc[a] = "write"
  /\ hio_write(conn, CommandMsg(call[a]), r)
  /\ IF r # 0
     THEN Goto(a, IF call[a].op = "request" THEN "send" ELSE "store") /\ UNCHANGED ret
     ELSE Return(a, "ESEND")
  /\ UNCHANGED <<life, status, down, table, call, io_msg>>

\* The command, and the test of what hio_write returned.
Write(a, r) ==
  /\ pc[a] = "write"
  /\ hio_write(conn, CommandMsg(call[a]), r)
  /\ IF r # 0 THEN Goto(a, "store") /\ UNCHANGED ret ELSE Return(a, "ESEND")
  /\ UNCHANGED <<life, status, down, table, call, io_msg>>

Save(a) ==
  /\ pc[a] = "save"
  /\ Unlock(a)
  /\ map_subpool' = IF call[a].op = "unsubscribe"
                    THEN Del(map_subpool, TopicEx(call[a]))
                    ELSE Put(map_subpool, TopicEx(call[a]), Handler(call[a].op))
  /\ Subscribed(a)
  /\ UNCHANGED <<life, status, io, call, io_msg>>

\* The data frame of hnode_publish or hnode_request, whatever hio_write returns.
Send(a, r) ==
  /\ pc[a] = "send"
  /\ hio_write(conn, DataMsg(call[a]), r)
  /\ IF call[a].op = "request" THEN Goto(a, "await") /\ UNCHANGED ret ELSE Return(a, "OK")
  /\ UNCHANGED <<life, status, down, table, call, io_msg>>

\* hnode_request finds its slot in use.
Busy(a) ==
  /\ pc[a] = "send"
  /\ call[a].op = "request"
  /\ Return(a, "EBUSY")
  /\ UNCHANGED <<life, status, io, table, call, io_msg>>

TimeOut(a) ==
  /\ pc[a] = "await"
  /\ Return(a, "ETIMEOUT")
  /\ UNCHANGED <<life, status, io, table, call, io_msg>>

-------------------------------------------------------------------------------
(***************************************************************************)
(* hnode_destroy.                                                          *)
(***************************************************************************)

\* From an application thread, while no other thread is in a call (assumed):
\* hloop_stop ends a loop that runs.  A stop of no loop does nothing, and one
\* before hloop_run is overwritten by it.
Stop(t) ==
  /\ \A u \in Threads : pc[u] = "idle"
  /\ loop' = IF loop = "running" THEN "stopped" ELSE loop
  /\ Goto(t, "join")
  /\ UNCHANGED <<heap, status, io, table, call, ret, io_msg>>

\* pthread_join returns when the IO thread has ended; everything is freed.
Join(t) ==
  /\ pc[t] = "join"
  /\ pc[IO] = "ended"
  /\ heap' = "freed"
  /\ Goto(t, "done")
  /\ UNCHANGED <<loop, status, io, table, call, ret, io_msg>>

-------------------------------------------------------------------------------
(***************************************************************************)
(* hnode_thread_io_main and the callbacks of its event loop.               *)
(***************************************************************************)
MainStep(from, to) ==
  /\ pc[IO] = from
  /\ Goto(IO, to)
  /\ UNCHANGED <<mtx, call, ret, io_msg>>

\* pthread_mutex_init and HIHASH_INIT.
InitTable ==
  /\ MainStep("start", "new")
  /\ heap' = "ready"
  /\ UNCHANGED <<loop, status, io, map_subpool>>

HloopNew ==
  /\ MainStep("new", "connect")
  /\ loop' = "new"
  /\ UNCHANGED <<heap, status, io, map_subpool>>

\* The states of node->io in which hio_close, or libhv, still closes it.
Closable == {"connecting", "open", "broken", "failed"}

\* hnode_reconnect once the status is DISCONNECT: it stores CONNECTING, closes
\* what node->io still holds, which runs hnode_on_close before hio_close
\* returns, and connects again.
Reconnect ==
  /\ status' = IF conn \in Closable THEN "DISCONNECT" ELSE "CONNECTING"
  /\ conn' = "connecting"
  /\ Lost

\* The first connection is made before the loop runs.
FirstConnect ==
  /\ MainStep("connect", "run")
  /\ Reconnect
  /\ UNCHANGED <<life, map_subpool>>

HloopRun ==
  /\ MainStep("run", "loop")
  /\ loop' = "running"
  /\ UNCHANGED <<heap, status, io, map_subpool>>

\* The loop is between two callbacks.
AtLoop == pc[IO] = "loop" /\ loop = "running"

Timer ==
  /\ AtLoop
  /\ status = "DISCONNECT"
  /\ Reconnect
  /\ UNCHANGED <<life, table, pc, call, ret, io_msg>>

\* hnode_on_connect: REGISTER is written, reading starts, and the status topic
\* is subscribed.
OnConnect(r) ==
  /\ AtLoop
  /\ conn = "connecting"
  /\ hio_write("open", RegisterMsg, r)
  /\ status' = "CONNECTED"
  /\ call' = [call EXCEPT ![IO] = StatusCall]
  /\ Goto(IO, "status")
  /\ UNCHANGED <<life, down, table, ret, io_msg>>

\* Fault: a failed connect is not recorded.
FaultFailureNotStored ==
  /\ AtLoop
  /\ conn = "connecting"
  /\ conn' = "failed"
  /\ Lost
  /\ UNCHANGED <<life, status, table, pc, call, ret, io_msg>>

\* hnode_on_connect with an error: node->io is not closed.
OnConnectFailed ==
  /\ AtLoop
  /\ conn = "connecting"
  /\ conn' = "failed"
  /\ Lost
  /\ status' = "DISCONNECT"
  /\ UNCHANGED <<life, table, pc, call, ret, io_msg>>

\* Fault: only an established connection is reported as lost.
FaultCloseWhenConnected ==
  /\ AtLoop
  /\ conn \in Closable \ {"failed"}
  /\ conn' = "closed"
  /\ Lost
  /\ status' = IF status = "CONNECTED" THEN "DISCONNECT" ELSE status
  /\ UNCHANGED <<life, table, pc, call, ret, io_msg>>

\* hnode_on_close: the peer closed, a connect or a write failed, or the unpacker
\* gave up on a frame that is too long.
OnClose ==
  /\ AtLoop
  /\ conn \in Closable \ {"failed"}
  /\ conn' = "closed"
  /\ Lost
  /\ status' = "DISCONNECT"
  /\ UNCHANGED <<life, table, pc, call, ret, io_msg>>

-------------------------------------------------------------------------------
(***************************************************************************)
(* hnode_on_read: one complete frame from the unpacker.                    *)
(***************************************************************************)
IsData(m) == HMSG_HEAD_VALID(m, FrameLength(m)) /\ HasBit(m.flags, HMSG_FCMD_DATA)

\* The unpacker does not deliver a frame of more than package_max_length: libhv
\* closes the connection instead.
TooLong == down # << >> /\ FrameLength(Head(down)) > PACKAGE_MAX_LENGTH

NextFrame ==
  /\ AtLoop
  /\ conn = "open"
  /\ down # << >>
  /\ ~TooLong
  /\ down' = Tail(down)

OnReadInvalid ==
  /\ NextFrame
  /\ ~IsData(Head(down))
  /\ UNCHANGED <<life, status, conn, up, table, pc, call, ret, io_msg>>

OnRead ==
  /\ NextFrame
  /\ IsData(Head(down))
  /\ io_msg' = Head(down)
  /\ Goto(IO, "read")
  /\ UNCHANGED <<life, status, conn, up, table, call, ret>>

\* Where the handler found for a key starts.
EntryOf(k) ==
  IF k \notin DOMAIN map_subpool THEN "loop"
  ELSE [hnode_on_status |-> "collect", hnode_on_respond |-> "respond",
        app |-> "handler"][map_subpool[k]]

\* Fault: the handler is called with the mutex held.
FaultHandlerUnderMutex ==
  /\ pc[IO] = "dispatch"
  /\ Goto(IO, EntryOf(HMSG_TOPICEX_INMSG(io_msg)))
  /\ UNCHANGED <<life, status, io, table, call, ret, io_msg>>

\* The lookup with the mutex, and the call of the handler without it.
Dispatch ==
  /\ pc[IO] = "dispatch"
  /\ Unlock(IO)
  /\ LET entry == EntryOf(HMSG_TOPICEX_INMSG(io_msg))
     IN  /\ Goto(IO, entry)
         /\ io_msg' = IF entry \in {"collect", "respond"} THEN io_msg ELSE NULL
  /\ UNCHANGED <<life, status, io, map_subpool, call, ret>>

\* The answer of hnode_on_status to a node: two bytes for every topic in the
\* table.
StatusMsg(to) ==
  hmsg_t(HMSG_FLAGS(HMSG_FCMD_DATA, HMSG_FDATA_REPOND), io_msg.topic, Id, to,
         2 * Cardinality(DOMAIN map_subpool))

\* Fault: the answer is addressed like the request.
FaultAnswersItself ==
  /\ pc[IO] = "iterate"
  /\ Unlock(IO)
  /\ io_msg' = StatusMsg(io_msg.to)
  /\ Goto(IO, "reply")
  /\ UNCHANGED <<life, status, io, map_subpool, call, ret>>

\* hnode_on_status walks over the table with the mutex,
Collect ==
  /\ pc[IO] = "iterate"
  /\ Unlock(IO)
  /\ io_msg' = StatusMsg(io_msg.from)
  /\ Goto(IO, "reply")
  /\ UNCHANGED <<life, status, io, map_subpool, call, ret>>

\* and answers without it, whatever hio_write returns.
Reply(r) ==
  /\ pc[IO] = "reply"
  /\ hio_write(conn, io_msg, r)
  /\ Goto(IO, "loop")
  /\ io_msg' = NULL
  /\ UNCHANGED <<life, status, down, table, call, ret>>

\* hnode_on_respond: the reply is the answer to a request that waits on its
\* topic, or to none that still waits.
OnRespond ==
  /\ pc[IO] = "respond"
  /\ \/ \E t \in Threads :
          /\ pc[t] = "await"
          /\ call[t].topic = io_msg.topic
          /\ pc' = [pc EXCEPT ![t] = "idle", ![IO] = "loop"]
          /\ ret' = [ret EXCEPT ![t] = "OK"]
     \/ Goto(IO, "loop") /\ UNCHANGED ret
  /\ io_msg' = NULL
  /\ UNCHANGED <<life, status, io, table, call>>

\* A handler of the application: it returns, or it calls the API.
\* hnode_destroy returns at once on this thread.
HandlerReturns ==
  /\ pc[IO] = "handler"
  /\ Goto(IO, "loop")
  /\ UNCHANGED <<life, status, io, table, call, ret, io_msg>>

HandlerEnters(c) ==
  /\ pc[IO] = "handler"
  /\ call' = [call EXCEPT ![IO] = c]
  /\ Goto(IO, "status")
  /\ UNCHANGED <<life, status, io, table, ret, io_msg>>

\* Fault: the IO thread runs the loop again.
FaultRunsAgain ==
  /\ loop = "stopped"
  /\ MainStep("loop", "run")
  /\ UNCHANGED <<life, status, io, map_subpool>>

\* hloop_run returns once the loop is stopped; hloop_free closes node->io,
\* which runs hnode_on_close.
HloopFree ==
  /\ loop = "stopped"
  /\ MainStep("loop", "fini")
  /\ loop' = "null"
  /\ conn' = "closed"
  /\ Lost
  /\ status' = "DISCONNECT"
  /\ UNCHANGED <<heap, map_subpool>>

\* HIHASH_FINI.
FiniTable ==
  /\ MainStep("fini", "ended")
  /\ heap' = "fini"
  /\ map_subpool' = << >>
  /\ UNCHANGED <<loop, status, io>>

-------------------------------------------------------------------------------
\* What a thread inside an API call does by itself.
Step(a) ==
  \/ Lock(a)
  \/ TestStatus(a)
  \/ Find(a)
  \/ \E r \in Results : Write(a, r)
  \/ Save(a)
  \/ \E r \in Results : Send(a, r)
  \/ Busy(a)

\* What the IO thread does by itself, outside of an API call.
IoStep ==
  \/ InitTable
  \/ HloopNew
  \/ FirstConnect
  \/ HloopRun
  \/ Dispatch
  \/ Collect
  \/ \E r \in Results : Reply(r)
  \/ OnRespond
  \/ HandlerReturns
  \/ \E c \in HandlerCalls : HandlerEnters(c)
  \/ HloopFree
  \/ FiniTable

\* The events of the loop.
Event ==
  \/ Timer
  \/ \E r \in Results : OnConnect(r)
  \/ OnConnectFailed
  \/ OnClose
  \/ OnReadInvalid
  \/ OnRead

\* A node that is not being destroyed.
Work ==
  \/ \E a \in Actors : Step(a) \/ TimeOut(a)
  \/ \E t \in Threads, c \in Calls : Enter(t, c)
  \/ IoStep
  \/ Event

\* The other end of the connection takes frames and sends some.
PeerReads ==
  /\ conn = "open"
  /\ up # << >>
  /\ up' = Tail(up)
  /\ UNCHANGED <<life, status, conn, down, table, pc, call, ret, io_msg>>

PeerSends(m) ==
  /\ conn = "open"
  /\ Len(down) < MAX_QUEUE
  /\ down' = Append(down, m)
  /\ UNCHANGED <<life, status, conn, up, table, pc, call, ret, io_msg>>

Next ==
  \/ Work
  \/ \E t \in Threads : Stop(t) \/ Join(t)
  \/ PeerReads
  \/ \E m \in Incoming : PeerSends(m)

Spec == Init /\ [][Next]_vars

\* Threads keep running and a mutex that is free again and again is obtained;
\* timeouts pass, the timer fires, the broker can be reached again and again
\* and takes what is sent, and libhv closes a connection that is broken or stuck
\* at a frame that is too long.  No call, no incoming frame and no other loss of
\* a connection is promised.
Fairness ==
  /\ \A a \in Actors : WF_vars(Step(a)) /\ SF_vars(Lock(a)) /\ WF_vars(TimeOut(a))
  /\ \A t \in Threads : WF_vars(Join(t))
  /\ WF_vars(IoStep)
  /\ WF_vars(Timer)
  /\ SF_vars(\E r \in Results : OnConnect(r))
  /\ WF_vars((conn = "broken" \/ TooLong) /\ OnClose)
  /\ WF_vars(PeerReads)

FairSpec == Spec /\ Fairness

-------------------------------------------------------------------------------
(***************************************************************************)
(* Properties.                                                             *)
(***************************************************************************)

\* Every variable has the shape that hnode_t and the locals of its functions
\* give it.
TypeOK ==
  /\ heap \in {"fresh", "ready", "fini", "freed"}
  /\ loop \in {"null", "new", "running", "stopped"}
  /\ status \in {"INIT", "DISCONNECT", "CONNECTING", "CONNECTED"}
  /\ conn \in Closable \cup {"none", "closed"}
  /\ up \in Seq(Message)
  /\ down \in Seq(Message)
  /\ DOMAIN map_subpool \subseteq Nat
  /\ \A k \in DOMAIN map_subpool :
       map_subpool[k] \in {"hnode_on_status", "hnode_on_respond", "app"}
  /\ mtx \in Actors \cup {NULL}
  /\ pc \in [Actors -> Inside \cup InLoop \cup Life \cup {"idle", "join", "done"}]
  /\ call \in [Actors -> Call]
  /\ ret \in [Threads -> Codes]
  /\ pc[IO] \in {"read", "dispatch", "collect", "iterate", "reply", "respond"} => io_msg \in Message

\* The mutex, the table and node->io are used only between their initialisation
\* by the IO thread and their destruction, although the application has the
\* node before the IO thread has run: the status is what protects them.
UsesAreSafe ==
  /\ \A t \in Threads : pc[t] \in Inside \ {"status"} =>
       heap = "ready" /\ loop = "running" /\ conn # "none"
  /\ pc[IO] \in Inside \cup InLoop => heap = "ready" /\ loop # "null"
  /\ heap = "freed" => pc[IO] = "ended" /\ \A t \in Threads : pc[t] \notin Inside

\* The status never leaves the reconnect timer waiting for nothing: CONNECTED
\* is only stored while node->io is established, CONNECTING while it is being
\* established; a failure in between is still to be reported by hnode_on_close.
StatusTracksConnection ==
  /\ status = "CONNECTED" => conn \in {"open", "broken"}
  /\ status = "CONNECTING" => conn \in {"connecting", "broken"}

\* Where hnode_on_read goes with the messages that a call asked for: a request
\* needs hnode_on_respond, a subscription the application.  The status topic
\* stays with hnode_on_status when that was stored first.
ServedAt(c) ==
  CASE c.op = "request" -> {"respond"}
    [] c.op = "respond" /\ c.topic = HMSG_MSGID_STATUS -> {"handler", "collect"}
    [] OTHER -> {"handler"}

\* After OK, and while a request waits, the messages that the call asked for are
\* dispatched to a handler of the right kind, whichever threads subscribe to the
\* same topic at the same time.  It need not be the handler that the caller
\* passed: hnode_subscribe_i drops that one when the topic is known, and of two
\* calls that both found it unknown the last one stays.
OkIsServed ==
  \A t \in Threads :
    /\ call[t].op \in {"subscribe", "respond", "request"}
    /\ (pc[t] = "idle" /\ ret[t] = "OK") \/ pc[t] = "await"
    /\ heap = "ready"
    => EntryOf(TopicEx(call[t])) \in ServedAt(call[t])

\* Every call returns: the mutex is never held for good, a request times out.
EveryCallReturns == \A t \in Threads : pc[t] \in Inside ~> pc[t] = "idle"

\* The event loop goes on after every callback: a handler, hnode_on_status or
\* an API call that a handler makes does not block on the mutex of its caller.
IoReturns == pc[IO] \notin {"loop", "ended"} ~> pc[IO] \in {"loop", "ended"}

\* A node that is not connected connects again, unless it is destroyed.
AutoReconnect == status # "CONNECTED" ~> status = "CONNECTED" \/ Destroying

\* hnode_destroy returns when it stopped a running loop.
DestroyReturns == \A t \in Threads : pc[t] = "join" /\ loop = "stopped" ~> pc[t] = "done"

\* hnode_destroy returns, whenever it is called.
DestroyAlwaysReturns == \A t \in Threads : pc[t] = "join" ~> pc[t] = "done"

\* hnode_unsubscribe that returns OK leaves no handler for the topic.
UnsubscribeRemoves ==
  \A t \in Threads :
    pc[t] = "idle" /\ call[t].op = "unsubscribe" /\ ret[t] = "OK" =>
      DataKey("subscribe", call[t].topic) \notin DOMAIN map_subpool
===============================================================================
