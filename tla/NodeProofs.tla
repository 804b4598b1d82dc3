------------------------------ MODULE NodeProofs ------------------------------
(***************************************************************************)
(* Proofs about Node: nothing is used outside of its life, the status      *)
(* follows the connection, and OK means that the messages asked for reach  *)
(* a handler of the right kind, for every number of threads, every set of  *)
(* calls and incoming frames and every result of hio_write.                *)
(***************************************************************************)
EXTENDS Node, SequenceTheorems, FiniteSetTheorems, TLAPS

Conns == Closable \cup {"none", "closed"}

\* Where the IO thread is inside hloop_run, and where a thread has the mutex.
Running == Inside \cup InLoop
Critical == {"find", "save", "dispatch", "iterate"}

\* The operations that store a handler.
Storing == {"subscribe", "respond", "request", "status"}

\* The IO thread makes the table, the loop and the connection in this order and
\* takes them down only when hnode_destroy waits for it, which no call survives.
LifeInv ==
  /\ pc[IO] \in Running \cup Life
  /\ \A t \in Threads : pc[t] \in Inside \cup {"idle", "join", "done"}
  /\ pc[IO] = "start" => heap = "fresh"
  /\ pc[IO] \in Running \cup {"new", "connect", "run", "fini"} => heap = "ready"
  /\ pc[IO] = "ended" => heap \in {"fini", "freed"}
  /\ pc[IO] \in Running <=> loop \in {"running", "stopped"}
  /\ pc[IO] \in Running \cup {"run"} => conn # "none"
  /\ status = "CONNECTED" => pc[IO] \in Running
  /\ loop = "stopped" \/ pc[IO] \in {"fini", "ended"} => Destroying
  /\ Destroying => \A t \in Threads : pc[t] \notin Inside
  /\ \A t \in Threads : pc[t] \in Inside \ {"status"} => pc[IO] \in Running

\* A thread inside a critical section owns map_subpool_mtx.
MutexInv == \A a \in Actors : pc[a] \in Critical => mtx = a

\* The table is finite and every key has the handler of a call that forms it.
TableInv ==
  /\ IsFiniteSet(DOMAIN map_subpool)
  /\ \A k \in DOMAIN map_subpool : \E c \in Call :
       c.op \in Storing /\ k = TopicEx(c) /\ map_subpool[k] = Handler(c.op)

\* hnode_publish neither looks at the table nor changes it, and hnode_unsubscribe
\* never gets past the lookup.
CallInv ==
  \A a \in Actors :
    /\ pc[a] \in {"had", "find", "write", "store", "save"} => call[a].op # "publish"
    /\ pc[a] \in {"write", "store", "save"} => call[a].op # "unsubscribe"

\* The calls that ask for a handler, and when a thread relies on it: after OK,
\* and in a request from the moment its topic is known to be stored.
Asking == {"subscribe", "respond", "request"}
Relies(a) == (a \in Threads /\ pc[a] = "idle" /\ ret[a] = "OK") \/ pc[a] \in {"send", "await"}

\* What OkIsServed rests on, with TableInv: the key is in the table, for requests
\* of handlers too, and until the table is freed.
OkInv ==
  \A a \in Actors :
    call[a].op \in Asking /\ Relies(a) /\ heap \in {"fresh", "ready"} =>
      TopicEx(call[a]) \in DOMAIN map_subpool

\* What the node writes: REGISTER, SUB, the data of its calls and its replies.
ReplyFlags == HMSG_FLAGS(HMSG_FCMD_DATA, HMSG_FDATA_REPOND)
RequestFlags == HMSG_FLAGS(HMSG_FCMD_DATA, HMSG_FDATA_REQUEST)
Written(m) ==
  \/ m = RegisterMsg
  \/ \E c \in Call : c.op \in Storing /\ m = CommandMsg(c)
  \/ \E c \in Call : m = DataMsg(c)
  \/ m.flags = ReplyFlags /\ m.from = Id

UpInv == \A i \in 1..Len(up) : Written(up[i])

\* hnode_on_status has a request in its hands, and then its own reply.
IoInv ==
  /\ pc[IO] \in {"collect", "iterate"} => io_msg.flags = RequestFlags
  /\ pc[IO] = "reply" => io_msg.flags = ReplyFlags /\ io_msg.from = Id

IInv ==
  /\ TypeOK
  /\ LifeInv
  /\ MutexInv
  /\ CallInv
  /\ TableInv
  /\ StatusTracksConnection
  /\ OkInv
  /\ UpInv
  /\ IoInv

-------------------------------------------------------------------------------
(***************************************************************************)
(* The operators that build keys and frames.                               *)
(***************************************************************************)

\* Every number up to 65535 is a 16 bit number, and no other.
LEMMA IsUInt16 == ASSUME NEW n \in Nat, n <= 65535 PROVE n \in UInt16
<1> DEFINE top == 65535
<1>1. top \in Nat /\ n <= top
  BY SMT
<1>2. UInt16 = 0..top
  BY DEF UInt16
<1> HIDE DEF top
<1>3. n \in 0..top
  BY <1>1, SMT
<1>4. QED
  BY <1>2, <1>3

\* ... in the form the provers can use.
LEMMA UInt16Bounds == ASSUME NEW n \in UInt16 PROVE n \in Nat /\ n <= 65535
BY SMTT(30) DEF UInt16

\* The numbers that the code writes into header fields.
LEMMA FieldConstants ==
  /\ HMSG_MAGIC \in UInt16 /\ HMSG_APPID_BROKER \in UInt16 /\ HMSG_MSGID_STATUS \in UInt16
  /\ 0 \in UInt8 /\ 0 \in UInt16
BY IsUInt16, SMT DEF HMSG_MAGIC, HMSG_APPID_BROKER, HMSG_MSGID_STATUS, UInt8

\* Header fields of their width make a message.
LEMMA MessageType ==
  ASSUME NEW flags \in UInt8, NEW topic \in UInt16, NEW from \in UInt16,
         NEW to \in UInt16, NEW size \in Nat
  PROVE  hmsg_t(flags, topic, from, to, size) \in Message
BY FieldConstants DEF hmsg_t, Message

\* The kind of data is one of the three.
LEMMA FlagDataType == ASSUME NEW op \in Ops PROVE FlagData(op) \in {0, 1, 2}
BY DEF FlagData, Ops, HMSG_FDATA_PUBSUB, HMSG_FDATA_REQUEST, HMSG_FDATA_REPOND

\* Calls write messages.
LEMMA CallMessages ==
  ASSUME NEW c \in Call
  PROVE  CommandMsg(c) \in Message /\ DataMsg(c) \in Message
<1>1. c.op \in Ops /\ c.topic \in UInt16 /\ c.to \in UInt16
  BY DEF Call
<1>2. CommandFlags(c.op) \in UInt8
  BY <1>1, FlagDataType DEF CommandFlags, HMSG_FLAGS, HMSG_FCMD_SUB, HMSG_FCMD_UNSUB, UInt8
<1>3. HMSG_FLAGS(HMSG_FCMD_DATA, HMSG_FDATA_REQUEST) \in UInt8
      /\ HMSG_FLAGS(HMSG_FCMD_DATA, HMSG_FDATA_PUBSUB) \in UInt8
  BY DEF HMSG_FLAGS, HMSG_FCMD_DATA, HMSG_FDATA_PUBSUB, HMSG_FDATA_REQUEST, UInt8
<1>4. Id \in UInt16 /\ HMSG_APPID_BROKER \in UInt16 /\ 0 \in Nat
  BY NodeAssumption, FieldConstants
<1>5. CommandMsg(c) \in Message
  BY <1>1, <1>2, <1>4, MessageType DEF CommandMsg
<1>6. DataMsg(c) \in Message
  BY <1>1, <1>3, <1>4, MessageType DEF DataMsg
<1>7. QED
  BY <1>5, <1>6

\* hnode_register and hnode_on_connect use a message and a call.
LEMMA ConnectMessages == RegisterMsg \in Message /\ StatusCall \in Call
<1>1. RegisterMsg \in Message
  <2>1. HMSG_FCMD_REGISTER \in UInt8 /\ 0 \in Nat
    BY DEF HMSG_FCMD_REGISTER, UInt8
  <2>2. QED
    BY <2>1, FieldConstants, NodeAssumption, MessageType DEF RegisterMsg
<1>2. StatusCall \in Call
  BY FieldConstants DEF StatusCall, Call, Ops
<1>3. QED
  BY <1>1, <1>2

\* Keys are numbers, and the key of hnode_unsubscribe is none under which a
\* handler is stored.
LEMMA Keys ==
  ASSUME NEW c \in Call
  PROVE  /\ TopicEx(c) \in Nat
         /\ c.op # "unsubscribe" => TopicEx(c) < 19 * 65536
         /\ c.op = "unsubscribe" => TopicEx(c) >= 48 * 65536
<1>1. c.op \in Ops /\ c.topic \in Nat /\ c.topic <= 65535
  BY UInt16Bounds DEF Call
<1>2. ASSUME c.op # "unsubscribe"
      PROVE  TopicEx(c) \in {16 * 65536 + c.topic, 17 * 65536 + c.topic, 18 * 65536 + c.topic}
  <2>1. PICK d \in {0, 1, 2} : FlagData(c.op) = d
    BY <1>1, FlagDataType
  <2>2. TopicEx(c) = 0 * 16777216 + (16 + d) * 65536 + c.topic
    BY <1>2, <2>1 DEF TopicEx, DataKey, HMSG_TOPICEX, HMSG_FLAGS, HMSG_FCMD_DATA
  <2>3. QED
    BY <1>1, <2>2
<1>3. ASSUME c.op = "unsubscribe"
      PROVE  TopicEx(c) = 48 * 65536 + c.topic
  BY <1>1, <1>3 DEF TopicEx, CommandFlags, FlagData, HMSG_FDATA_PUBSUB,
    HMSG_TOPICEX, HMSG_FLAGS, HMSG_FCMD_UNSUB
<1>4. QED
  BY <1>1, <1>2, <1>3

\* The three fields of a key occupy different bits.
LEMMA KeyFields ==
  ASSUME NEW v \in Nat, NEW f \in Nat, NEW t \in Nat, f <= 255, t <= 65535,
         NEW g \in Nat, NEW u \in Nat, g <= 255, u <= 65535,
         v * 16777216 + f * 65536 + t = g * 65536 + u
  PROVE  v = 0 /\ f = g /\ t = u
BY SMT

\* hio_write adds at most the frame, and breaks at most the connection.
LEMMA WriteType ==
  ASSUME TypeOK, NEW c, c = conn \/ c = "open", NEW m \in Message, NEW r, hio_write(c, m, r)
  PROVE  /\ up' \in Seq(Message)
         /\ conn' = c \/ (c \in {"open", "connecting"} /\ conn' = "broken")
<1>1. CASE r \in {0, 1} /\ up' = Append(up, m) /\ conn' = c
  BY <1>1 DEF TypeOK
<1>2. CASE r = -1 /\ conn' = (IF c \in {"open", "connecting"} THEN "broken" ELSE c) /\ up' = up
  BY <1>2 DEF TypeOK
<1>3. CASE c = "broken" /\ conn' = conn /\ up' = up
  BY <1>3 DEF TypeOK
<1>4. QED
  BY <1>1, <1>2, <1>3 DEF hio_write

-------------------------------------------------------------------------------
(***************************************************************************)
(* Types.                                                                  *)
(***************************************************************************)
Pcs == Inside \cup InLoop \cup Life \cup {"idle", "join", "done"}

\* Where the IO thread has a message in its hands.
Handling == {"read", "dispatch", "collect", "iterate", "reply", "respond"}

\* The assignments every step is made of keep the types.
LEMMA AssignType ==
  ASSUME TypeOK
  PROVE  /\ \A a \in Actors, w \in Pcs : Goto(a, w) => pc' \in [Actors -> Pcs]
         /\ \A a \in Actors, c \in Codes :
              Return(a, c) => pc' \in [Actors -> Pcs] /\ ret' \in [Threads -> Codes]
         /\ \A a \in Actors : \A w : Goto(a, w) /\ w \notin Handling /\ io_msg' = io_msg =>
              (pc'[IO] \in Handling => io_msg' \in Message)
         /\ \A a \in Actors : \A c : Return(a, c) /\ io_msg' = io_msg =>
              (pc'[IO] \in Handling => io_msg' \in Message)
<1>1. pc \in [Actors -> Pcs] /\ ret \in [Threads -> Codes]
      /\ (pc[IO] \in Handling => io_msg \in Message) /\ IO \in Actors
  BY DEF TypeOK, Pcs, Handling, Actors
<1>2. \A a \in Actors, w \in Pcs : Goto(a, w) => pc' \in [Actors -> Pcs]
  BY <1>1 DEF Goto
<1>3. "loop" \in Pcs /\ "idle" \in Pcs /\ "loop" \notin Handling /\ "idle" \notin Handling
  BY DEF Pcs, InLoop, Handling
<1>4. \A a \in Actors, c \in Codes :
        Return(a, c) => pc' \in [Actors -> Pcs] /\ ret' \in [Threads -> Codes]
  BY <1>1, <1>2, <1>3 DEF Return
<1>5. \A a \in Actors : \A w : Goto(a, w) /\ w \notin Handling /\ io_msg' = io_msg =>
        (pc'[IO] \in Handling => io_msg' \in Message)
  BY <1>1 DEF Goto
<1>6. \A a \in Actors : \A c : Return(a, c) /\ io_msg' = io_msg =>
        (pc'[IO] \in Handling => io_msg' \in Message)
  BY <1>3, <1>5 DEF Return
<1>7. QED
  BY <1>2, <1>4, <1>5, <1>6

\* A lookup ends in one of the three handlers, or in none.
LEMMA EntryType ==
  ASSUME TypeOK, NEW k PROVE EntryOf(k) \in {"loop", "collect", "respond", "handler"}
BY DEF EntryOf, TypeOK

\* The types hold when the node starts.
LEMMA TypeInit == Init => TypeOK /\ TableInv
<1> SUFFICES ASSUME Init PROVE TypeOK /\ TableInv
  OBVIOUS
<1> USE NodeAssumption DEF Init
<1>1. up \in Seq(Message) /\ down \in Seq(Message) /\ DOMAIN map_subpool = {}
  OBVIOUS
<1>2. pc \in [Actors -> Pcs] /\ pc[IO] = "start"
  BY DEF Actors, Pcs, Life
<1>3. call \in [Actors -> Call] /\ ret \in [Threads -> Codes]
  BY ConnectMessages DEF Codes
<1>4. TypeOK
  BY <1>1, <1>2, <1>3 DEF TypeOK, Pcs
<1>5. TableInv
  BY <1>1, FS_EmptySet DEF TableInv
<1>6. QED
  BY <1>4, <1>5

\* Every step of a thread inside an API call keeps the types.
LEMMA TypeCall ==
  ASSUME TypeOK, NEW a \in Actors, Step(a) \/ TimeOut(a)
  PROVE  TypeOK'
<1> USE DEF life, io, table
<1>0. /\ call[a] \in Call /\ pc[a] \in Pcs /\ IO \in Actors
      /\ CommandMsg(call[a]) \in Message /\ DataMsg(call[a]) \in Message
  BY CallMessages DEF TypeOK, Pcs, Actors
<1>1. CASE Lock(a)
  <2>1. pc[a] \in {"had", "store", "read", "collect"}
    BY <1>1 DEF Lock, Locked
  <2>2. Locked[pc[a]] \in Pcs /\ (Locked[pc[a]] \in Handling => pc[a] \in Handling)
    BY <2>1 DEF Locked, Pcs, Inside, InLoop, Handling
  <2>3. pc' \in [Actors -> Pcs] /\ (pc'[IO] \in Handling => io_msg' \in Message)
    BY <1>1, <2>2, AssignType DEF Lock, Goto, TypeOK, Pcs, Handling
  <2>4. QED
    BY <1>1, <2>3 DEF Lock, TypeOK, Pcs, Handling
<1>2. CASE TestStatus(a)
  <2>1. pc' \in [Actors -> Pcs] /\ ret' \in [Threads -> Codes]
        /\ (pc'[IO] \in Handling => io_msg' \in Message)
    BY <1>2, AssignType DEF TestStatus, TypeOK, Pcs, Inside, Handling, Codes
  <2>2. QED
    BY <1>2, <2>1 DEF TestStatus, TypeOK, Pcs, Handling
<1>3. CASE Find(a)
  <2>1. pc' \in [Actors -> Pcs] /\ ret' \in [Threads -> Codes]
        /\ (pc'[IO] \in Handling => io_msg' \in Message)
    BY <1>3, AssignType DEF Find, Subscribed, TypeOK, Pcs, Inside, Handling, Codes
  <2>2. QED
    BY <1>3, <2>1 DEF Find, Unlock, TypeOK, Pcs, Handling
<1>4. ASSUME NEW r \in Results, Write(a, r) PROVE TypeOK'
  <2>1. pc' \in [Actors -> Pcs] /\ ret' \in [Threads -> Codes]
        /\ (pc'[IO] \in Handling => io_msg' \in Message)
    BY <1>4, AssignType DEF Write, TypeOK, Pcs, Inside, Handling, Codes
  <2>2. up' \in Seq(Message) /\ conn' \in Conns
    BY <1>0, <1>4, WriteType DEF Write, TypeOK, Conns, Closable
  <2>3. QED
    BY <1>4, <2>1, <2>2 DEF Write, TypeOK, Pcs, Handling, Conns
<1>5. CASE Save(a)
  <2>1. pc' \in [Actors -> Pcs] /\ ret' \in [Threads -> Codes]
        /\ (pc'[IO] \in Handling => io_msg' \in Message)
    BY <1>5, AssignType DEF Save, Subscribed, TypeOK, Pcs, Inside, Handling, Codes
  <2>2. DOMAIN map_subpool' \subseteq Nat
        /\ \A k \in DOMAIN map_subpool' :
             map_subpool'[k] \in {"hnode_on_status", "hnode_on_respond", "app"}
    BY <1>0, <1>5, Keys DEF Save, Put, Del, Handler, TypeOK
  <2>3. QED
    BY <1>5, <2>1, <2>2 DEF Save, Unlock, TypeOK, Pcs, Handling
<1>6. ASSUME NEW r \in Results, Send(a, r) PROVE TypeOK'
  <2>1. pc' \in [Actors -> Pcs] /\ ret' \in [Threads -> Codes]
        /\ (pc'[IO] \in Handling => io_msg' \in Message)
    BY <1>6, AssignType DEF Send, TypeOK, Pcs, Inside, Handling, Codes
  <2>2. up' \in Seq(Message) /\ conn' \in Conns
    BY <1>0, <1>6, WriteType DEF Send, TypeOK, Conns, Closable
  <2>3. QED
    BY <1>6, <2>1, <2>2 DEF Send, TypeOK, Pcs, Handling, Conns
<1>7. CASE Busy(a)
  <2>1. pc' \in [Actors -> Pcs] /\ ret' \in [Threads -> Codes]
        /\ (pc'[IO] \in Handling => io_msg' \in Message)
    BY <1>7, AssignType DEF Busy, Codes
  <2>2. QED
    BY <1>7, <2>1 DEF Busy, TypeOK, Pcs, Handling
<1>8. CASE TimeOut(a)
  <2>1. pc' \in [Actors -> Pcs] /\ ret' \in [Threads -> Codes]
        /\ (pc'[IO] \in Handling => io_msg' \in Message)
    BY <1>8, AssignType DEF TimeOut, Codes
  <2>2. QED
    BY <1>8, <2>1 DEF TimeOut, TypeOK, Pcs, Handling
<1>9. QED
  BY <1>1, <1>2, <1>3, <1>4, <1>5, <1>6, <1>7, <1>8 DEF Step

\* Every step of hnode_thread_io_main and of its handlers keeps the types.
LEMMA TypeIo ==
  ASSUME TypeOK, IsFiniteSet(DOMAIN map_subpool), IoStep
  PROVE  TypeOK'
<1> USE DEF life, io, table
<1>0. IO \in Actors /\ pc \in [Actors -> Pcs]
  BY DEF Actors, TypeOK, Pcs
<1>1. CASE InitTable
  <2>1. pc' \in [Actors -> Pcs] /\ pc'[IO] = "new"
    BY <1>0, <1>1 DEF InitTable, MainStep, Goto, Pcs, Life
  <2>2. QED
    BY <1>1, <2>1 DEF InitTable, MainStep, TypeOK, Pcs
<1>2. CASE HloopNew
  <2>1. pc' \in [Actors -> Pcs] /\ pc'[IO] = "connect"
    BY <1>0, <1>2 DEF HloopNew, MainStep, Goto, Pcs, Life
  <2>2. QED
    BY <1>2, <2>1 DEF HloopNew, MainStep, TypeOK, Pcs
<1>3. CASE FirstConnect
  <2>1. pc' \in [Actors -> Pcs] /\ pc'[IO] = "run"
    BY <1>0, <1>3 DEF FirstConnect, MainStep, Goto, Pcs, Life
  <2>2. QED
    BY <1>3, <2>1 DEF FirstConnect, Reconnect, Lost, Closable, MainStep, TypeOK, Pcs
<1>4. CASE HloopRun
  <2>1. pc' \in [Actors -> Pcs] /\ pc'[IO] = "loop"
    BY <1>0, <1>4 DEF HloopRun, MainStep, Goto, Pcs, InLoop
  <2>2. QED
    BY <1>4, <2>1 DEF HloopRun, MainStep, TypeOK, Pcs
<1>5. CASE Dispatch
  <2>1. PICK entry \in {"loop", "collect", "respond", "handler"} :
          Goto(IO, entry) /\ io_msg' = IF entry \in {"collect", "respond"} THEN io_msg ELSE NULL
    BY <1>5, EntryType DEF Dispatch
  <2>2. pc' \in [Actors -> Pcs] /\ pc'[IO] = entry
    BY <1>0, <2>1 DEF Goto, Pcs, InLoop
  <2>3. pc'[IO] \in Handling => io_msg' \in Message
    BY <1>5, <2>1, <2>2 DEF Dispatch, TypeOK, Handling
  <2>4. QED
    BY <1>5, <2>2, <2>3 DEF Dispatch, Unlock, TypeOK, Pcs, Handling
<1>6. CASE Collect
  <2>1. io_msg \in Message
    BY <1>6 DEF Collect, TypeOK
  <2>2. 2 * Cardinality(DOMAIN map_subpool) \in Nat
    BY FS_CardinalityType
  <2>3. HMSG_FLAGS(HMSG_FCMD_DATA, HMSG_FDATA_REPOND) \in UInt8
    BY DEF HMSG_FLAGS, HMSG_FCMD_DATA, HMSG_FDATA_REPOND, UInt8
  <2>4. io_msg.topic \in UInt16 /\ io_msg.from \in UInt16
    BY <2>1 DEF Message
  <2>5. StatusMsg(io_msg.from) \in Message
    BY <2>2, <2>3, <2>4, MessageType, NodeAssumption DEF StatusMsg
  <2>6. pc' \in [Actors -> Pcs] /\ pc'[IO] = "reply" /\ io_msg' \in Message
    BY <1>0, <1>6, <2>5 DEF Collect, Goto, Pcs, InLoop
  <2>7. QED
    BY <1>6, <2>6 DEF Collect, Unlock, TypeOK, Pcs
<1>7. ASSUME NEW r \in Results, Reply(r) PROVE TypeOK'
  <2>1. io_msg \in Message
    BY <1>7 DEF Reply, TypeOK
  <2>2. up' \in Seq(Message) /\ conn' \in Conns
    BY <1>7, <2>1, WriteType DEF Reply, TypeOK, Conns, Closable
  <2>3. pc' \in [Actors -> Pcs] /\ pc'[IO] = "loop"
    BY <1>0, <1>7 DEF Reply, Goto, Pcs, InLoop
  <2>4. QED
    BY <1>7, <2>2, <2>3 DEF Reply, TypeOK, Pcs, Conns
<1>8. CASE OnRespond
  <2>1. pc' \in [Actors -> Pcs] /\ pc'[IO] = "loop" /\ ret' \in [Threads -> Codes]
    BY <1>0, <1>8, NodeAssumption DEF OnRespond, Goto, Pcs, InLoop, TypeOK, Codes, Actors
  <2>2. QED
    BY <1>8, <2>1 DEF OnRespond, TypeOK, Pcs
<1>9. CASE HandlerReturns
  <2>1. pc' \in [Actors -> Pcs] /\ pc'[IO] = "loop"
    BY <1>0, <1>9 DEF HandlerReturns, Goto, Pcs, InLoop
  <2>2. QED
    BY <1>9, <2>1 DEF HandlerReturns, TypeOK, Pcs
<1>10. ASSUME NEW c \in HandlerCalls, HandlerEnters(c) PROVE TypeOK'
  <2>1. pc' \in [Actors -> Pcs] /\ pc'[IO] = "status"
    BY <1>0, <1>10 DEF HandlerEnters, Goto, Pcs, Inside
  <2>2. call' \in [Actors -> Call]
    BY <1>0, <1>10, NodeAssumption DEF HandlerEnters, TypeOK
  <2>3. QED
    BY <1>10, <2>1, <2>2 DEF HandlerEnters, TypeOK, Pcs
<1>11. CASE HloopFree
  <2>1. pc' \in [Actors -> Pcs] /\ pc'[IO] = "fini"
    BY <1>0, <1>11 DEF HloopFree, MainStep, Goto, Pcs, Life
  <2>2. QED
    BY <1>11, <2>1 DEF HloopFree, Lost, MainStep, TypeOK, Pcs
<1>12. CASE FiniTable
  <2>1. pc' \in [Actors -> Pcs] /\ pc'[IO] = "ended"
    BY <1>0, <1>12 DEF FiniTable, MainStep, Goto, Pcs, Life
  <2>2. DOMAIN map_subpool' = {}
    BY <1>12 DEF FiniTable
  <2>3. QED
    BY <1>12, <2>1, <2>2 DEF FiniTable, MainStep, TypeOK, Pcs
<1>13. QED
  BY <1>1, <1>2, <1>3, <1>4, <1>5, <1>6, <1>7, <1>8, <1>9, <1>10, <1>11, <1>12 DEF IoStep

\* Every event of the loop keeps the types.
LEMMA TypeEvent == ASSUME TypeOK, Event PROVE TypeOK'
<1> USE DEF life, io, table
<1>0. IO \in Actors /\ pc \in [Actors -> Pcs]
  BY DEF Actors, TypeOK, Pcs
<1>1. CASE Timer
  BY <1>1 DEF Timer, Reconnect, Lost, Closable, TypeOK
<1>2. ASSUME NEW r \in Results, OnConnect(r) PROVE TypeOK'
  <2>1. up' \in Seq(Message) /\ conn' \in Conns
    BY <1>2, WriteType, ConnectMessages DEF OnConnect, Conns, Closable
  <2>2. pc' \in [Actors -> Pcs] /\ pc'[IO] = "status" /\ call' \in [Actors -> Call]
    BY <1>0, <1>2, ConnectMessages DEF OnConnect, Goto, Pcs, Inside, TypeOK
  <2>3. QED
    BY <1>2, <2>1, <2>2 DEF OnConnect, TypeOK, Pcs, Conns
<1>3. CASE OnConnectFailed
  BY <1>3 DEF OnConnectFailed, Lost, Closable, TypeOK
<1>4. CASE OnClose
  BY <1>4 DEF OnClose, Lost, TypeOK
<1>5. ASSUME NextFrame PROVE Head(down) \in Message /\ down' \in Seq(Message)
  BY <1>5 DEF NextFrame, TypeOK
<1>6. CASE OnReadInvalid
  BY <1>5, <1>6 DEF OnReadInvalid, TypeOK
<1>7. CASE OnRead
  <2>1. pc' \in [Actors -> Pcs] /\ pc'[IO] = "read" /\ io_msg' \in Message /\ down' \in Seq(Message)
    BY <1>0, <1>5, <1>7 DEF OnRead, Goto, Pcs, InLoop
  <2>2. QED
    BY <1>7, <2>1 DEF OnRead, TypeOK, Pcs
<1>8. QED
  BY <1>1, <1>2, <1>3, <1>4, <1>6, <1>7 DEF Event

\* Every step keeps the types.
LEMMA TypeStep ==
  ASSUME TypeOK, IsFiniteSet(DOMAIN map_subpool), [Next]_vars
  PROVE  TypeOK'
<1> USE DEF life, io, table
<1>0. /\ IO \in Actors /\ pc \in [Actors -> Pcs] /\ \A t \in Threads : t \in Actors /\ t # IO
      /\ pc[IO] \in Handling => io_msg \in Message
  BY NodeAssumption DEF Actors, TypeOK, Pcs, Handling
<1>1. CASE \E a \in Actors : Step(a) \/ TimeOut(a)
  BY <1>1, TypeCall
<1>2. ASSUME NEW t \in Threads, NEW c \in Calls, Enter(t, c) PROVE TypeOK'
  <2>1. /\ pc' \in [Actors -> Pcs] /\ call' \in [Actors -> Call]
        /\ pc'[IO] \in Handling => io_msg' \in Message
    BY <1>0, <1>2, NodeAssumption DEF Enter, Goto, Pcs, Inside, TypeOK
  <2>2. ret' \in [Threads -> Codes]
    BY <1>2 DEF Enter, TypeOK, Codes
  <2>3. QED
    BY <1>2, <2>1, <2>2 DEF Enter, TypeOK, Pcs, Handling
<1>3. CASE IoStep
  BY <1>3, TypeIo
<1>4. CASE Event
  BY <1>4, TypeEvent
<1>5. ASSUME NEW t \in Threads, Stop(t) PROVE TypeOK'
  <2>1. pc' \in [Actors -> Pcs] /\ (pc'[IO] \in Handling => io_msg' \in Message)
    BY <1>0, <1>5 DEF Stop, Goto, Pcs
  <2>2. QED
    BY <1>5, <2>1 DEF Stop, TypeOK, Pcs, Handling
<1>6. ASSUME NEW t \in Threads, Join(t) PROVE TypeOK'
  <2>1. pc' \in [Actors -> Pcs] /\ (pc'[IO] \in Handling => io_msg' \in Message)
    BY <1>0, <1>6 DEF Join, Goto, Pcs
  <2>2. QED
    BY <1>6, <2>1 DEF Join, TypeOK, Pcs, Handling
<1>7. CASE PeerReads
  BY <1>7 DEF PeerReads, TypeOK
<1>8. ASSUME NEW m \in Incoming, PeerSends(m) PROVE TypeOK'
  BY <1>8, NodeAssumption DEF PeerSends, TypeOK
<1>9. CASE UNCHANGED vars
  BY <1>9 DEF vars, TypeOK
<1>10. QED
  BY <1>1, <1>2, <1>3, <1>4, <1>5, <1>6, <1>7, <1>8, <1>9 DEF Next, Work

-------------------------------------------------------------------------------
(***************************************************************************)
(* The life of the node: what exists while it is used.                     *)
(***************************************************************************)

\* Where a step of an API call goes: it stays inside, or returns to where its
\* caller goes on, and only the status test lets it past the status.
LEMMA CallMoves ==
  ASSUME TypeOK, LifeInv, NEW a \in Actors, Step(a) \/ TimeOut(a)
  PROVE  /\ pc[a] \in Inside \cup {"read", "collect"}
         /\ \E w \in (Inside \ {"status"}) \cup {"idle", "loop", "dispatch", "iterate"} :
              /\ pc' = [pc EXCEPT ![a] = w]
              /\ a = IO => w \in Running
              /\ a # IO => w \in Inside \cup {"idle"}
              /\ w \in Inside /\ pc[a] = "status" => status = "CONNECTED"
         /\ UNCHANGED <<heap, loop, status, call, down>>
         /\ conn' = conn \/ (conn \in {"open", "connecting"} /\ conn' = "broken")
<1> USE DEF life, io, table, Inside, Running, InLoop, Goto
<1>0. /\ pc \in [Actors -> Pcs] /\ call[a] \in Call /\ (a # IO => a \in Threads)
      /\ CommandMsg(call[a]) \in Message /\ DataMsg(call[a]) \in Message
  BY CallMessages DEF TypeOK, Pcs, Actors
<1>1. CASE Lock(a)
  <2>1. pc[a] \in {"had", "store", "read", "collect"} /\ (a # IO => pc[a] \in {"had", "store"})
    BY <1>0, <1>1 DEF Lock, Locked, LifeInv
  <2> DEFINE w == Locked[pc[a]]
  <2>2. w \in {"find", "save", "dispatch", "iterate"} /\ (a # IO => w \in {"find", "save"})
    BY <2>1 DEF Locked
  <2>3. pc' = [pc EXCEPT ![a] = w]
    BY <1>1 DEF Lock
  <2> HIDE DEF w
  <2>4. /\ w \in (Inside \ {"status"}) \cup {"idle", "loop", "dispatch", "iterate"}
        /\ w \in Running /\ (a # IO => w \in Inside) /\ pc[a] # "status"
    BY <2>1, <2>2
  <2>5. UNCHANGED <<heap, loop, status, call, down, conn>>
    BY <1>1 DEF Lock
  <2>6. QED
    BY <2>1, <2>4, <2>5, <2>3
<1>2. CASE TestStatus(a)
  BY <1>0, <1>2 DEF TestStatus, Return
<1>3. CASE Find(a)
  BY <1>0, <1>3 DEF Find, Subscribed, Return
<1>4. ASSUME NEW r \in Results, Write(a, r)
      PROVE  conn' = conn \/ (conn \in {"open", "connecting"} /\ conn' = "broken")
  BY <1>0, <1>4, WriteType DEF Write
<1>5. CASE \E r \in Results : Write(a, r)
  BY <1>0, <1>4, <1>5 DEF Write, Return
<1>6. CASE Save(a)
  BY <1>0, <1>6 DEF Save, Subscribed, Return
<1>7. ASSUME NEW r \in Results, Send(a, r)
      PROVE  conn' = conn \/ (conn \in {"open", "connecting"} /\ conn' = "broken")
  BY <1>0, <1>7, WriteType DEF Send
<1>8. CASE \E r \in Results : Send(a, r)
  BY <1>0, <1>7, <1>8 DEF Send, Return
<1>9. CASE Busy(a)
  BY <1>0, <1>9 DEF Busy, Return
<1>10. CASE TimeOut(a)
  BY <1>0, <1>10 DEF TimeOut, Return
<1>11. QED
  BY <1>1, <1>2, <1>3, <1>5, <1>6, <1>8, <1>9, <1>10 DEF Step

\* A node that has just been created is in order.
LEMMA LifeInit == Init => LifeInv
BY NodeAssumption DEF Init, LifeInv, Running, Inside, InLoop, Life, Destroying, Actors

\* Every step keeps the order in which the node is built and taken down.
LEMMA LifeStep == ASSUME TypeOK, LifeInv, [Next]_vars PROVE LifeInv'
<1> USE DEF life, io, table, Goto
<1>0. /\ IO \in Actors /\ pc \in [Actors -> Pcs] /\ IO \notin Threads
      /\ \A t \in Threads : t \in Actors /\ t # IO
  BY NodeAssumption DEF Actors, TypeOK, Pcs
<1>1. ASSUME NEW a \in Actors, Step(a) \/ TimeOut(a) PROVE LifeInv'
  <2>1. PICK w \in (Inside \ {"status"}) \cup {"idle", "loop", "dispatch", "iterate"} :
          /\ pc' = [pc EXCEPT ![a] = w]
          /\ a = IO => w \in Running
          /\ a # IO => w \in Inside \cup {"idle"}
          /\ w \in Inside /\ pc[a] = "status" => status = "CONNECTED"
    BY <1>1, CallMoves
  <2>2. /\ pc[a] \in Inside \cup {"read", "collect"}
        /\ UNCHANGED <<heap, loop, status>>
        /\ conn # "none" => conn' # "none"
    BY <1>1, CallMoves
  <2>3. Destroying' = Destroying /\ (Destroying => a = IO)
    BY <1>0, <2>1, <2>2 DEF Destroying, LifeInv, Inside, Actors
  <2>4. CASE a = IO
    <3>1. pc'[IO] \in Running /\ pc[IO] \in Running /\ \A t \in Threads : pc'[t] = pc[t]
      BY <1>0, <2>1, <2>2, <2>4 DEF Running, InLoop
    <3>2. QED
      BY <2>2, <2>3, <3>1 DEF LifeInv, Running, Inside, InLoop
  <2>5. CASE a # IO
    <3>1. /\ pc'[IO] = pc[IO] /\ a \in Threads /\ pc[a] \in Inside /\ pc'[a] \in Inside \cup {"idle"}
          /\ \A t \in Threads : t # a => pc'[t] = pc[t]
          /\ pc'[a] \in Inside \ {"status"} => pc[IO] \in Running
      BY <1>0, <2>1, <2>2, <2>5 DEF Actors, LifeInv, Inside
    <3>2. QED
      BY <2>2, <2>3, <2>5, <3>1 DEF LifeInv
  <2>6. QED
    BY <2>4, <2>5
<1>2. ASSUME NEW t \in Threads, NEW c \in Calls, Enter(t, c) PROVE LifeInv'
  BY <1>0, <1>2 DEF Enter, LifeInv, Destroying, Inside
<1>3. CASE IoStep
  <2>1. CASE InitTable
    BY <1>0, <2>1 DEF InitTable, MainStep, LifeInv, Destroying, Running, Inside, InLoop, Life
  <2>2. CASE HloopNew
    BY <1>0, <2>2 DEF HloopNew, MainStep, LifeInv, Destroying, Running, Inside, InLoop, Life
  <2>3. CASE FirstConnect
    BY <1>0, <2>3 DEF FirstConnect, Reconnect, MainStep, LifeInv, Destroying, Running, Inside,
      InLoop, Life
  <2>4. CASE HloopRun
    BY <1>0, <2>4 DEF HloopRun, MainStep, LifeInv, Destroying, Running, Inside, InLoop, Life
  <2>5. CASE HloopFree
    BY <1>0, <2>5 DEF HloopFree, MainStep, LifeInv, Destroying, Running, Inside, InLoop, Life
  <2>6. CASE FiniTable
    BY <1>0, <2>6 DEF FiniTable, MainStep, LifeInv, Destroying, Running, Inside, InLoop, Life
  <2>7. ASSUME /\ pc[IO] \in InLoop
               /\ pc'[IO] \in Running
               /\ \A t \in Threads : pc'[t] = pc[t] \/ (pc[t] = "await" /\ pc'[t] = "idle")
               /\ UNCHANGED <<heap, loop, status>>
               /\ conn' = conn \/ conn' = "broken"
        PROVE  LifeInv'
    BY <1>0, <2>7 DEF LifeInv, Destroying, Running, Inside, InLoop
  <2>8. CASE Dispatch
    <3>1. pc'[IO] \in {"loop", "collect", "respond", "handler"}
      BY <1>0, <2>8, EntryType DEF Dispatch
    <3>2. QED
      BY <1>0, <2>7, <2>8, <3>1 DEF Dispatch, InLoop, Running
  <2>9. CASE Collect
    BY <1>0, <2>7, <2>9 DEF Collect, InLoop, Running
  <2>10. ASSUME NEW r \in Results, Reply(r) PROVE LifeInv'
    <3>1. conn' = conn \/ conn' = "broken"
      BY <2>10 DEF Reply, hio_write
    <3>2. QED
      BY <1>0, <2>7, <2>10, <3>1 DEF Reply, InLoop, Running
  <2>11. CASE OnRespond
    BY <1>0, <2>7, <2>11 DEF OnRespond, InLoop, Running
  <2>12. CASE HandlerReturns
    BY <1>0, <2>7, <2>12 DEF HandlerReturns, InLoop, Running
  <2>13. ASSUME NEW c \in HandlerCalls, HandlerEnters(c) PROVE LifeInv'
    BY <1>0, <2>7, <2>13 DEF HandlerEnters, InLoop, Inside, Running
  <2>14. QED
    BY <1>3, <2>1, <2>2, <2>3, <2>4, <2>5, <2>6, <2>8, <2>9, <2>10, <2>11, <2>12, <2>13 DEF IoStep
<1>4. CASE Event
  <2>1. ASSUME /\ pc[IO] = "loop"
               /\ pc'[IO] \in Running
               /\ \A t \in Threads : pc'[t] = pc[t]
               /\ UNCHANGED <<heap, loop>>
               /\ conn' # "none"
        PROVE  LifeInv'
    BY <1>0, <2>1 DEF LifeInv, Destroying, Running, Inside, InLoop
  <2>2. CASE Timer
    BY <1>0, <2>1, <2>2 DEF Timer, AtLoop, Reconnect, InLoop, Running
  <2>3. ASSUME NEW r \in Results, OnConnect(r) PROVE LifeInv'
    <3>1. conn' # "none"
      BY <2>3, WriteType, ConnectMessages DEF OnConnect
    <3>2. QED
      BY <1>0, <2>1, <2>3, <3>1 DEF OnConnect, AtLoop, Inside, Running
  <2>4. CASE OnConnectFailed
    BY <1>0, <2>1, <2>4 DEF OnConnectFailed, AtLoop, InLoop, Running
  <2>5. CASE OnClose
    BY <1>0, <2>1, <2>5 DEF OnClose, AtLoop, InLoop, Running
  <2>6. CASE OnReadInvalid
    BY <1>0, <2>1, <2>6 DEF OnReadInvalid, NextFrame, AtLoop, InLoop, Running
  <2>7. CASE OnRead
    BY <1>0, <2>1, <2>7 DEF OnRead, NextFrame, AtLoop, InLoop, Running
  <2>8. QED
    BY <1>4, <2>2, <2>3, <2>4, <2>5, <2>6, <2>7 DEF Event
<1>5. ASSUME NEW t \in Threads, Stop(t) PROVE LifeInv'
  <2>1. /\ Destroying' /\ pc'[IO] = pc[IO] /\ UNCHANGED <<heap, status, conn>>
        /\ \A u \in Threads : pc'[u] \in {"idle", "join"}
        /\ loop' = IF loop = "running" THEN "stopped" ELSE loop
    BY <1>0, <1>5 DEF Stop, Destroying
  <2>2. QED
    BY <1>0, <2>1 DEF LifeInv, Inside
<1>6. ASSUME NEW t \in Threads, Join(t) PROVE LifeInv'
  <2>1. /\ Destroying' /\ Destroying /\ pc'[IO] = "ended" /\ pc[IO] = "ended" /\ heap' = "freed"
        /\ UNCHANGED <<loop, status, conn>>
        /\ \A u \in Threads : pc'[u] = pc[u] \/ pc'[u] = "done"
    BY <1>0, <1>6 DEF Join, Destroying
  <2>2. QED
    BY <1>0, <2>1 DEF LifeInv, Running, Inside, InLoop
<1>7. CASE PeerReads \/ (\E m \in Incoming : PeerSends(m)) \/ UNCHANGED vars
  BY <1>7 DEF PeerReads, PeerSends, vars, LifeInv, Destroying
<1>8. QED
  BY <1>1, <1>2, <1>3, <1>4, <1>5, <1>6, <1>7 DEF Next, Work

-------------------------------------------------------------------------------
(***************************************************************************)
(* map_subpool_mtx and the table.                                          *)
(***************************************************************************)
LEMMA MutexInit == Init => MutexInv /\ CallInv
BY DEF Init, MutexInv, CallInv, Critical

\* Every critical section is entered with the mutex free and left with it
\* released, by the thread that has it.
LEMMA MutexStep == ASSUME TypeOK, MutexInv, [Next]_vars PROVE MutexInv'
<1> USE DEF life, io, table, Goto, Critical
<1>0. /\ IO \in Actors /\ pc \in [Actors -> Pcs] /\ NULL \notin Actors
      /\ \A t \in Threads : t \in Actors /\ t # IO
  BY NodeAssumption DEF Actors, TypeOK, Pcs
<1>1. ASSUME NEW a \in Actors, NEW w, w \notin Critical, pc' = [pc EXCEPT ![a] = w],
             mtx' = mtx \/ Unlock(a)
      PROVE  MutexInv'
  BY <1>0, <1>1 DEF MutexInv, Unlock
<1>2. ASSUME NEW a \in Actors, NEW c, Return(a, c), mtx' = mtx \/ Unlock(a) PROVE MutexInv'
  BY <1>0, <1>2 DEF Return, MutexInv, Unlock
<1>3. ASSUME NEW a \in Actors, Step(a) \/ TimeOut(a) PROVE MutexInv'
  <2>1. CASE Lock(a)
    BY <1>0, <2>1 DEF Lock, MutexInv
  <2>2. CASE TestStatus(a)
    BY <1>1, <1>2, <2>2 DEF TestStatus
  <2>3. CASE Find(a)
    BY <1>1, <1>2, <2>3 DEF Find, Subscribed
  <2>4. ASSUME NEW r \in Results, Write(a, r) PROVE MutexInv'
    BY <1>1, <1>2, <2>4 DEF Write
  <2>5. CASE Save(a)
    BY <1>1, <1>2, <2>5 DEF Save, Subscribed
  <2>6. ASSUME NEW r \in Results, Send(a, r) PROVE MutexInv'
    BY <1>1, <1>2, <2>6 DEF Send
  <2>7. CASE Busy(a) \/ TimeOut(a)
    BY <1>2, <2>7 DEF Busy, TimeOut
  <2>8. QED
    BY <1>3, <2>1, <2>2, <2>3, <2>4, <2>5, <2>6, <2>7 DEF Step
<1>4. ASSUME NEW t \in Threads, NEW c \in Calls, Enter(t, c) PROVE MutexInv'
  BY <1>0, <1>1, <1>4 DEF Enter
<1>5. CASE IoStep
  <2>1. CASE InitTable \/ HloopNew \/ FirstConnect \/ HloopRun \/ HloopFree \/ FiniTable
    BY <1>0, <1>1, <2>1 DEF InitTable, HloopNew, FirstConnect, HloopRun, HloopFree, FiniTable,
      MainStep
  <2>2. CASE Dispatch
    <3>1. EntryOf(HMSG_TOPICEX_INMSG(io_msg)) \notin Critical
      BY EntryType
    <3>2. QED
      BY <1>0, <1>1, <2>2, <3>1 DEF Dispatch
  <2>3. CASE Collect
    BY <1>0, <1>1, <2>3 DEF Collect
  <2>4. ASSUME NEW r \in Results, Reply(r) PROVE MutexInv'
    BY <1>0, <1>1, <2>4 DEF Reply
  <2>5. CASE OnRespond
    BY <1>0, <2>5 DEF OnRespond, MutexInv
  <2>6. CASE HandlerReturns
    BY <1>0, <1>1, <2>6 DEF HandlerReturns
  <2>7. ASSUME NEW c \in HandlerCalls, HandlerEnters(c) PROVE MutexInv'
    BY <1>0, <1>1, <2>7 DEF HandlerEnters
  <2>8. QED
    BY <1>5, <2>1, <2>2, <2>3, <2>4, <2>5, <2>6, <2>7 DEF IoStep
<1>6. CASE Event
  <2>1. CASE Timer \/ OnConnectFailed \/ OnClose \/ OnReadInvalid
    BY <2>1 DEF Timer, OnConnectFailed, OnClose, OnReadInvalid, MutexInv
  <2>2. ASSUME NEW r \in Results, OnConnect(r) PROVE MutexInv'
    BY <1>0, <1>1, <2>2 DEF OnConnect
  <2>3. CASE OnRead
    BY <1>0, <1>1, <2>3 DEF OnRead
  <2>4. QED
    BY <1>6, <2>1, <2>2, <2>3 DEF Event
<1>7. ASSUME NEW t \in Threads, Stop(t) \/ Join(t) PROVE MutexInv'
  BY <1>0, <1>1, <1>7 DEF Stop, Join
<1>8. CASE PeerReads \/ (\E m \in Incoming : PeerSends(m)) \/ UNCHANGED vars
  BY <1>8 DEF PeerReads, PeerSends, vars, MutexInv
<1>9. QED
  BY <1>3, <1>4, <1>5, <1>6, <1>7, <1>8 DEF Next, Work

\* The table holds keys of data, which differ from the key of hnode_unsubscribe.
LEMMA NoUnsubscribeKey ==
  ASSUME TableInv, NEW c \in Call, c.op = "unsubscribe"
  PROVE  TopicEx(c) \notin DOMAIN map_subpool
<1> SUFFICES ASSUME TopicEx(c) \in DOMAIN map_subpool PROVE FALSE
  OBVIOUS
<1>1. PICK d \in Call : d.op \in Storing /\ TopicEx(c) = TopicEx(d)
  BY DEF TableInv
<1>2. TopicEx(d) \in Nat /\ TopicEx(d) < 19 * 65536
  BY <1>1, Keys DEF Storing
<1>3. TopicEx(c) >= 48 * 65536
  BY Keys
<1>4. QED
  BY <1>1, <1>2, <1>3

\* hnode_publish goes from the status test straight to its data frame; the key
\* that hnode_unsubscribe looks for is never in the table.
LEMMA CallStep == ASSUME TypeOK, CallInv, TableInv, [Next]_vars PROVE CallInv'
<1> USE DEF life, io, table, Goto
<1>0. /\ IO \in Actors /\ pc \in [Actors -> Pcs] /\ call \in [Actors -> Call]
      /\ \A t \in Threads : t \in Actors /\ t # IO
  BY NodeAssumption DEF Actors, TypeOK, Pcs
<1>1. ASSUME NEW a \in Actors, NEW w, w \notin {"had", "find", "write", "store", "save"},
             pc' = [pc EXCEPT ![a] = w], NEW c, call' = call \/ call' = [call EXCEPT ![a] = c]
      PROVE  CallInv'
  BY <1>0, <1>1 DEF CallInv
<1>2. ASSUME NEW a \in Actors, NEW c, Return(a, c), call' = call PROVE CallInv'
  BY <1>0, <1>2 DEF Return, CallInv
<1>3. ASSUME NEW a \in Actors, Step(a) \/ TimeOut(a) PROVE CallInv'
  <2>1. CASE Lock(a)
    BY <1>0, <2>1 DEF Lock, Locked, CallInv
  <2>2. CASE TestStatus(a)
    BY <1>0, <1>1, <1>2, <2>2 DEF TestStatus, CallInv
  <2>3. CASE Find(a)
    <3>1. call[a].op = "unsubscribe" => TopicEx(call[a]) \notin DOMAIN map_subpool
      BY <1>0, NoUnsubscribeKey
    <3>2. QED
      BY <1>0, <1>1, <1>2, <2>3, <3>1 DEF Find, Subscribed, CallInv
  <2>4. ASSUME NEW r \in Results, Write(a, r) PROVE CallInv'
    BY <1>0, <1>1, <1>2, <2>4 DEF Write, CallInv
  <2>5. CASE Save(a)
    BY <1>1, <1>2, <2>5 DEF Save, Subscribed
  <2>6. ASSUME NEW r \in Results, Send(a, r) PROVE CallInv'
    BY <1>1, <1>2, <2>6 DEF Send
  <2>7. CASE Busy(a) \/ TimeOut(a)
    BY <1>2, <2>7 DEF Busy, TimeOut
  <2>8. QED
    BY <1>3, <2>1, <2>2, <2>3, <2>4, <2>5, <2>6, <2>7 DEF Step
<1>4. ASSUME NEW t \in Threads, NEW c \in Calls, Enter(t, c) PROVE CallInv'
  BY <1>0, <1>1, <1>4 DEF Enter
<1>5. CASE IoStep
  <2>1. CASE InitTable \/ HloopNew \/ FirstConnect \/ HloopRun \/ HloopFree \/ FiniTable
    BY <1>0, <1>1, <2>1 DEF InitTable, HloopNew, FirstConnect, HloopRun, HloopFree, FiniTable,
      MainStep
  <2>2. CASE Dispatch
    <3>1. EntryOf(HMSG_TOPICEX_INMSG(io_msg)) \notin {"had", "find", "write", "store", "save"}
      BY EntryType
    <3>2. QED
      BY <1>0, <1>1, <2>2, <3>1 DEF Dispatch
  <2>3. CASE Collect
    BY <1>0, <1>1, <2>3 DEF Collect
  <2>4. ASSUME NEW r \in Results, Reply(r) PROVE CallInv'
    BY <1>0, <1>1, <2>4 DEF Reply
  <2>5. CASE OnRespond
    BY <1>0, <2>5 DEF OnRespond, CallInv
  <2>6. CASE HandlerReturns
    BY <1>0, <1>1, <2>6 DEF HandlerReturns
  <2>7. ASSUME NEW c \in HandlerCalls, HandlerEnters(c) PROVE CallInv'
    BY <1>0, <1>1, <2>7 DEF HandlerEnters
  <2>8. QED
    BY <1>5, <2>1, <2>2, <2>3, <2>4, <2>5, <2>6, <2>7 DEF IoStep
<1>6. CASE Event
  <2>1. CASE Timer \/ OnConnectFailed \/ OnClose \/ OnReadInvalid
    BY <2>1 DEF Timer, OnConnectFailed, OnClose, OnReadInvalid, CallInv
  <2>2. ASSUME NEW r \in Results, OnConnect(r) PROVE CallInv'
    BY <1>0, <1>1, <2>2 DEF OnConnect
  <2>3. CASE OnRead
    BY <1>0, <1>1, <2>3 DEF OnRead
  <2>4. QED
    BY <1>6, <2>1, <2>2, <2>3 DEF Event
<1>7. ASSUME NEW t \in Threads, Stop(t) \/ Join(t) PROVE CallInv'
  BY <1>0, <1>1, <1>7 DEF Stop, Join
<1>8. CASE PeerReads \/ (\E m \in Incoming : PeerSends(m)) \/ UNCHANGED vars
  BY <1>8 DEF PeerReads, PeerSends, vars, CallInv
<1>9. QED
  BY <1>3, <1>4, <1>5, <1>6, <1>7, <1>8 DEF Next, Work

\* Only the second half of hnode_subscribe_i or hnode_unsubscribe_i, with the
\* mutex, and HIHASH_FINI change the table.
LEMMA TableSteps ==
  ASSUME [Next]_vars
  PROVE  (\E a \in Actors : Save(a)) \/ FiniTable \/ map_subpool' = map_subpool
<1> USE DEF life, io, table
<1>1. ASSUME NEW a \in Actors, Step(a) \/ TimeOut(a)
      PROVE  Save(a) \/ map_subpool' = map_subpool
  BY <1>1 DEF Step, Lock, TestStatus, Find, Write, Send, Busy, TimeOut
<1>2. CASE IoStep
  BY <1>2 DEF IoStep, InitTable, HloopNew, FirstConnect, HloopRun, Dispatch, Collect, Reply,
    OnRespond, HandlerReturns, HandlerEnters, HloopFree
<1>3. CASE Event
  BY <1>3 DEF Event, Timer, OnConnect, OnConnectFailed, OnClose, OnReadInvalid, OnRead
<1>4. ASSUME NEW t \in Threads, (\E c \in Calls : Enter(t, c)) \/ Stop(t) \/ Join(t)
      PROVE  map_subpool' = map_subpool
  BY <1>4 DEF Enter, Stop, Join
<1>5. CASE PeerReads \/ (\E m \in Incoming : PeerSends(m)) \/ UNCHANGED vars
  BY <1>5 DEF PeerReads, PeerSends, vars
<1>6. QED
  BY <1>1, <1>2, <1>3, <1>4, <1>5 DEF Next, Work

\* Every key has the handler of its own kind of call.
LEMMA TableStep == ASSUME TypeOK, CallInv, TableInv, [Next]_vars PROVE TableInv'
<1>1. ASSUME NEW a \in Actors, Save(a) PROVE TableInv'
  <2> DEFINE k == TopicEx(call[a])
             h == Handler(call[a].op)
  <2>1. call[a] \in Call /\ call[a].op \in Ops /\ call[a].op # "publish"
    BY <1>1 DEF Save, CallInv, TypeOK, Call
  <2>2. CASE call[a].op = "unsubscribe"
    <3>1. map_subpool' = Del(map_subpool, k)
      BY <1>1, <2>2 DEF Save
    <3>2. IsFiniteSet(DOMAIN map_subpool \ {k})
      BY FS_RemoveElement DEF TableInv
    <3>3. QED
      BY <3>1, <3>2 DEF Del, TableInv
  <2>3. CASE call[a].op # "unsubscribe"
    <3>1. map_subpool' = Put(map_subpool, k, h)
      BY <1>1, <2>3 DEF Save
    <3>2. IsFiniteSet(DOMAIN map_subpool \cup {k})
      BY FS_AddElement DEF TableInv
    <3>3. call[a].op \in Storing
      BY <2>1, <2>3 DEF Storing, Ops
    <3> HIDE DEF k, h
    <3>4. DOMAIN map_subpool' = DOMAIN map_subpool \cup {k} /\ map_subpool'[k] = h
          /\ \A j \in DOMAIN map_subpool : j # k => map_subpool'[j] = map_subpool[j]
      BY <3>1 DEF Put
    <3>5. \E c \in Call : c.op \in Storing /\ k = TopicEx(c) /\ map_subpool'[k] = Handler(c.op)
      BY <2>1, <3>3, <3>4 DEF k, h
    <3>6. QED
      BY <3>2, <3>4, <3>5 DEF TableInv
  <2>4. QED
    BY <2>2, <2>3
<1>2. CASE FiniTable
  <2>1. DOMAIN map_subpool' = {}
    BY <1>2 DEF FiniTable
  <2>2. QED
    BY <2>1, FS_EmptySet DEF TableInv
<1>3. CASE map_subpool' = map_subpool
  BY <1>3 DEF TableInv
<1>4. QED
  BY <1>1, <1>2, <1>3, TableSteps

\* The flags of the frames that hnode_on_read hands to a handler: hnode_on_respond
\* gets replies, hnode_on_status requests, the application data and requests.
FlagsFor(handler) ==
  CASE handler = "hnode_on_respond" -> {18}
    [] handler = "hnode_on_status" -> {17}
    [] handler = "app" -> {16, 17}

DispatchFits ==
  \A m \in Message :
    HMSG_TOPICEX_INMSG(m) \in DOMAIN map_subpool =>
      m.version = 0 /\ m.flags \in FlagsFor(map_subpool[HMSG_TOPICEX_INMSG(m)])

\* No key in the table is the key of another kind of message.
LEMMA TableFits == TableInv => DispatchFits
<1> SUFFICES ASSUME TableInv, NEW m \in Message, HMSG_TOPICEX_INMSG(m) \in DOMAIN map_subpool
             PROVE  m.version = 0 /\ m.flags \in FlagsFor(map_subpool[HMSG_TOPICEX_INMSG(m)])
  BY DEF DispatchFits
<1>1. PICK c \in Call : /\ c.op \in Storing
                        /\ HMSG_TOPICEX_INMSG(m) = TopicEx(c)
                        /\ map_subpool[HMSG_TOPICEX_INMSG(m)] = Handler(c.op)
  BY DEF TableInv
<1>2. m.topic \in Nat /\ m.topic <= 65535 /\ c.topic \in Nat /\ c.topic <= 65535
  BY UInt16Bounds DEF Message, Call
<1>3. m.version \in Nat /\ m.flags \in Nat /\ m.flags <= 255
  BY DEF Message, UInt8
<1>4. m.version * 16777216 + m.flags * 65536 + m.topic = TopicEx(c)
  BY <1>1 DEF HMSG_TOPICEX_INMSG, HMSG_TOPICEX
<1>5. TopicEx(c) = (16 + FlagData(c.op)) * 65536 + c.topic
  BY <1>1, <1>2 DEF TopicEx, DataKey, HMSG_TOPICEX, HMSG_FLAGS, HMSG_FCMD_DATA, Storing,
    FlagData, HMSG_FDATA_PUBSUB, HMSG_FDATA_REQUEST, HMSG_FDATA_REPOND
<1>6. /\ FlagData(c.op) \in {0, 1, 2}
      /\ 16 + FlagData(c.op) \in FlagsFor(Handler(c.op))
  BY <1>1 DEF Storing, FlagData, FlagsFor, Handler, HMSG_FDATA_PUBSUB, HMSG_FDATA_REQUEST,
    HMSG_FDATA_REPOND
<1>7. m.version = 0 /\ m.flags = 16 + FlagData(c.op)
  <2> DEFINE v == m.version
             f == m.flags
             t == m.topic
             g == 16 + FlagData(c.op)
             u == c.topic
  <2>1. g \in Nat /\ g <= 255
    BY <1>6
  <2>2. v * 16777216 + f * 65536 + t = g * 65536 + u
    BY <1>4, <1>5
  <2>3. v \in Nat /\ f \in Nat /\ f <= 255 /\ t \in Nat /\ t <= 65535 /\ u \in Nat /\ u <= 65535
    BY <1>2, <1>3
  <2> HIDE DEF v, f, t, g, u
  <2>4. v = 0 /\ f = g
    BY <2>1, <2>2, <2>3, KeyFields
  <2>5. QED
    BY <2>4 DEF v, f, g
<1>8. QED
  BY <1>1, <1>6, <1>7

-------------------------------------------------------------------------------
(***************************************************************************)
(* The status and the connection.                                          *)
(***************************************************************************)

\* Every step that changes the connection leaves a status that tells of it, or
\* a broken connection that libhv still closes.
LEMMA StatusStep ==
  ASSUME TypeOK, LifeInv, StatusTracksConnection, [Next]_vars
  PROVE  StatusTracksConnection'
<1> USE DEF life, io, table
<1>0. ASSUME /\ status' = status
             /\ conn' = conn \/ (conn \in {"open", "connecting"} /\ conn' = "broken")
      PROVE  StatusTracksConnection'
  BY <1>0 DEF StatusTracksConnection
<1>1. ASSUME NEW a \in Actors, Step(a) \/ TimeOut(a) PROVE StatusTracksConnection'
  BY <1>0, <1>1, CallMoves
<1>2. CASE IoStep
  <2>1. CASE FirstConnect
    BY <2>1 DEF FirstConnect, Reconnect, StatusTracksConnection
  <2>2. CASE HloopFree
    BY <2>2 DEF HloopFree, StatusTracksConnection
  <2>3. ASSUME NEW r \in Results, Reply(r) PROVE StatusTracksConnection'
    <3>1. io_msg \in Message
      BY <2>3 DEF Reply, TypeOK
    <3>2. QED
      BY <1>0, <2>3, <3>1, WriteType DEF Reply
  <2>4. CASE InitTable \/ HloopNew \/ HloopRun \/ Dispatch \/ Collect \/ OnRespond
             \/ HandlerReturns \/ (\E c \in HandlerCalls : HandlerEnters(c)) \/ FiniTable
    BY <1>0, <2>4 DEF InitTable, HloopNew, HloopRun, Dispatch, Collect, OnRespond,
      HandlerReturns, HandlerEnters, FiniTable
  <2>5. QED
    BY <1>2, <2>1, <2>2, <2>3, <2>4 DEF IoStep
<1>3. CASE Event
  <2>1. CASE Timer
    BY <2>1 DEF Timer, Reconnect, StatusTracksConnection
  <2>2. ASSUME NEW r \in Results, OnConnect(r) PROVE StatusTracksConnection'
    <3>1. conn' \in {"open", "broken"}
      BY <2>2, WriteType, ConnectMessages DEF OnConnect
    <3>2. QED
      BY <2>2, <3>1 DEF OnConnect, StatusTracksConnection
  <2>3. CASE OnConnectFailed \/ OnClose
    BY <2>3 DEF OnConnectFailed, OnClose, StatusTracksConnection
  <2>4. CASE OnReadInvalid \/ OnRead
    BY <1>0, <2>4 DEF OnReadInvalid, OnRead
  <2>5. QED
    BY <1>3, <2>1, <2>2, <2>3, <2>4 DEF Event
<1>4. ASSUME NEW t \in Threads, (\E c \in Calls : Enter(t, c)) \/ Stop(t) \/ Join(t)
      PROVE  StatusTracksConnection'
  BY <1>0, <1>4 DEF Enter, Stop, Join
<1>5. CASE PeerReads \/ (\E m \in Incoming : PeerSends(m)) \/ UNCHANGED vars
  BY <1>0, <1>5 DEF PeerReads, PeerSends, vars
<1>6. QED
  BY <1>1, <1>2, <1>3, <1>4, <1>5 DEF Next, Work

-------------------------------------------------------------------------------
(***************************************************************************)
(* OK means that the handler is there.                                     *)
(***************************************************************************)

\* A thread comes to rely on its handler only by finding it in the table or by
\* storing it.
LEMMA ReliesStep ==
  ASSUME TypeOK, [Next]_vars, NEW t \in Actors, call'[t].op \in Asking, Relies(t)'
  PROVE  call'[t] = call[t] /\ (Relies(t) \/ TopicEx(call[t]) \in DOMAIN map_subpool')
<1> USE DEF life, io, table, Goto, Relies
<1>0. /\ IO \in Actors /\ pc \in [Actors -> Pcs] /\ call \in [Actors -> Call]
      /\ ret \in [Threads -> Codes]
      /\ \A u \in Threads : u \in Actors /\ u # IO
  BY NodeAssumption DEF Actors, TypeOK, Pcs
<1> DEFINE Goal == call'[t] = call[t] /\ (Relies(t) \/ TopicEx(call[t]) \in DOMAIN map_subpool')
<1>1. ASSUME NEW a \in Actors, Step(a) \/ TimeOut(a) PROVE Goal
  <2>1. CASE Lock(a)
    BY <1>0, <2>1 DEF Lock, Locked
  <2>2. CASE TestStatus(a)
    BY <1>0, <2>2 DEF TestStatus, Return, Asking
  <2>3. CASE Find(a)
    BY <1>0, <2>3 DEF Find, Subscribed, Return, Asking
  <2>4. ASSUME NEW r \in Results, Write(a, r) PROVE Goal
    BY <1>0, <2>4 DEF Write, Return
  <2>5. CASE Save(a)
    <3>1. call' = call /\ (a # t => Relies(t))
      BY <1>0, <2>5 DEF Save, Subscribed, Return
    <3>2. CASE a = t
      <4>1. map_subpool' = Put(map_subpool, TopicEx(call[t]), Handler(call[t].op))
        BY <2>5, <3>1, <3>2 DEF Save, Asking
      <4>2. QED
        BY <3>1, <4>1 DEF Put
    <3>3. QED
      BY <3>1, <3>2
  <2>6. ASSUME NEW r \in Results, Send(a, r) PROVE Goal
    BY <1>0, <2>6 DEF Send, Return
  <2>7. CASE Busy(a) \/ TimeOut(a)
    BY <1>0, <2>7 DEF Busy, TimeOut, Return
  <2>8. QED
    BY <1>1, <2>1, <2>2, <2>3, <2>4, <2>5, <2>6, <2>7 DEF Step
<1>2. ASSUME NEW u \in Threads, NEW c \in Calls, Enter(u, c) PROVE Goal
  BY <1>0, <1>2 DEF Enter
<1>3. ASSUME t # IO => pc'[t] = pc[t] /\ ret' = ret /\ call'[t] = call[t],
             pc'[IO] \notin {"send", "await"}
      PROVE  Goal
  BY <1>0, <1>3 DEF Actors
<1>4. CASE IoStep
  <2>1. CASE OnRespond
    BY <1>0, <2>1 DEF OnRespond
  <2>2. CASE InitTable \/ HloopNew \/ FirstConnect \/ HloopRun \/ HloopFree \/ FiniTable
    BY <1>0, <1>3, <2>2 DEF InitTable, HloopNew, FirstConnect, HloopRun, HloopFree, FiniTable,
      MainStep
  <2>3. CASE Dispatch
    BY <1>0, <1>3, <2>3, EntryType DEF Dispatch
  <2>4. CASE Collect \/ (\E r \in Results : Reply(r)) \/ HandlerReturns
             \/ (\E c \in HandlerCalls : HandlerEnters(c))
    BY <1>0, <1>3, <2>4 DEF Collect, Reply, HandlerReturns, HandlerEnters
  <2>5. QED
    BY <1>4, <2>1, <2>2, <2>3, <2>4 DEF IoStep
<1>5. CASE Event
  BY <1>0, <1>3, <1>5 DEF Event, Timer, OnConnect, OnConnectFailed, OnClose, OnReadInvalid, OnRead,
    AtLoop, NextFrame
<1>6. ASSUME NEW u \in Threads, Stop(u) \/ Join(u) PROVE Goal
  BY <1>0, <1>6 DEF Stop, Join
<1>7. CASE PeerReads \/ (\E m \in Incoming : PeerSends(m)) \/ UNCHANGED vars
  BY <1>7 DEF PeerReads, PeerSends, vars
<1>8. QED
  BY <1>1, <1>2, <1>4, <1>5, <1>6, <1>7 DEF Next, Work

\* The table and its memory are never made again.
LEMMA HeapStep ==
  ASSUME LifeInv, [Next]_vars, heap' \in {"fresh", "ready"}
  PROVE  heap \in {"fresh", "ready"} /\ ~FiniTable
<1> USE DEF life, io, table
<1>1. ASSUME NEW a \in Actors, Step(a) \/ TimeOut(a) PROVE heap' = heap
  BY <1>1 DEF Step, Lock, TestStatus, Find, Write, Save, Send, Busy, TimeOut
<1>2. ASSUME IoStep PROVE heap' = heap \/ heap = "fresh" \/ FiniTable
  BY <1>2 DEF IoStep, InitTable, HloopNew, FirstConnect, HloopRun, Dispatch, Collect, Reply,
    OnRespond, HandlerReturns, HandlerEnters, HloopFree, MainStep, LifeInv
<1>3. ASSUME Event PROVE heap' = heap
  BY <1>3 DEF Event, Timer, OnConnect, OnConnectFailed, OnClose, OnReadInvalid, OnRead
<1>4. ASSUME NEW t \in Threads, (\E c \in Calls : Enter(t, c)) \/ Stop(t) \/ Join(t)
      PROVE  heap' = heap
  BY <1>4 DEF Enter, Stop, Join
<1>5. ASSUME PeerReads \/ (\E m \in Incoming : PeerSends(m)) \/ UNCHANGED vars PROVE heap' = heap
  BY <1>5 DEF PeerReads, PeerSends, vars
<1>6. ~FiniTable
  BY DEF FiniTable
<1>7. QED
  BY <1>1, <1>2, <1>3, <1>4, <1>5, <1>6 DEF Next, Work

\* The key of a call that asks for a handler is never removed: hnode_unsubscribe
\* removes a key of another kind.
LEMMA KeyStays ==
  ASSUME TypeOK, LifeInv, [Next]_vars, heap' \in {"fresh", "ready"},
         NEW c \in Call, c.op \in Asking, TopicEx(c) \in DOMAIN map_subpool
  PROVE  TopicEx(c) \in DOMAIN map_subpool'
<1>1. ASSUME NEW a \in Actors, Save(a) PROVE TopicEx(c) \in DOMAIN map_subpool'
  <2>1. CASE call[a].op = "unsubscribe"
    <3>1. call[a] \in Call
      BY DEF TypeOK
    <3>2. TopicEx(c) \in Nat /\ TopicEx(c) < 19 * 65536
      BY Keys DEF Asking
    <3>3. TopicEx(call[a]) \in Nat /\ TopicEx(call[a]) >= 48 * 65536
      BY <2>1, <3>1, Keys
    <3>4. TopicEx(c) # TopicEx(call[a])
      BY <3>2, <3>3
    <3>5. QED
      BY <1>1, <2>1, <3>4 DEF Save, Del
  <2>2. CASE call[a].op # "unsubscribe"
    <3>1. map_subpool' = Put(map_subpool, TopicEx(call[a]), Handler(call[a].op))
      BY <1>1, <2>2 DEF Save
    <3>2. QED
      BY <3>1 DEF Put
  <2>3. QED
    BY <2>1, <2>2
<1>2. QED
  BY <1>1, TableSteps, HeapStep

\* What was promised stays, and what is new is in the table when it is promised.
LEMMA OkStep == ASSUME TypeOK, LifeInv, OkInv, [Next]_vars PROVE OkInv'
<1> SUFFICES ASSUME NEW t \in Actors, call'[t].op \in Asking, Relies(t)',
                    heap' \in {"fresh", "ready"}
             PROVE  TopicEx(call'[t]) \in DOMAIN map_subpool'
  BY DEF OkInv
<1>1. call[t] \in Call
  BY DEF TypeOK
<1>2. call'[t] = call[t] /\ (Relies(t) \/ TopicEx(call[t]) \in DOMAIN map_subpool')
  BY ReliesStep
<1>3. ASSUME Relies(t) PROVE TopicEx(call[t]) \in DOMAIN map_subpool
  BY <1>2, <1>3, HeapStep DEF OkInv
<1>4. QED
  BY <1>1, <1>2, <1>3, KeyStays

-------------------------------------------------------------------------------
(***************************************************************************)
(* Frames: what the node writes, and what it has in its hands.             *)
(***************************************************************************)

\* The header of what a call writes.
LEMMA CallFrames ==
  ASSUME NEW c \in Call
  PROVE  /\ DataMsg(c).from = Id /\ DataMsg(c).topic = c.topic
         /\ DataMsg(c).flags = IF c.op = "request" THEN 17 ELSE 16
         /\ CommandMsg(c).from = Id /\ CommandMsg(c).topic = c.topic
         /\ CommandMsg(c).to = HMSG_APPID_BROKER /\ CommandMsg(c).payload_size = 0
         /\ CommandMsg(c).magic = HMSG_MAGIC
         /\ c.op \in Storing => CommandMsg(c).flags = 32 + FlagData(c.op)
BY DEF DataMsg, CommandMsg, hmsg_t, CommandFlags, Storing, HMSG_FLAGS,
  HMSG_FCMD_DATA, HMSG_FCMD_SUB, HMSG_FDATA_PUBSUB, HMSG_FDATA_REQUEST

\* The header of REGISTER, of requests and of replies.
LEMMA NodeFrames ==
  /\ RegisterMsg.from = Id /\ RegisterMsg.flags = 0
  /\ ReplyFlags = 18 /\ RequestFlags = 17
BY DEF RegisterMsg, hmsg_t, HMSG_FLAGS, ReplyFlags, RequestFlags, HMSG_FCMD_DATA,
  HMSG_FCMD_REGISTER, HMSG_FDATA_REQUEST, HMSG_FDATA_REPOND

\* hio_write appends the frame, or nothing; on a connection that is and stays
\* established it appends it.
LEMMA WriteAppends ==
  ASSUME NEW c, NEW m, NEW r, hio_write(c, m, r)
  PROVE  /\ up' = up \/ up' = Append(up, m)
         /\ c = "open" /\ conn' = "open" => up' = Append(up, m)
BY DEF hio_write

\* A frame that a working node may add to those under way: a request is only
\* sent when the table has the handler for its reply.
Adds(m) ==
  /\ m \in Message
  /\ up' = Append(up, m)
  /\ Written(m)
  /\ m.from = Id
  /\ m.flags = RequestFlags =>
       \E c \in Call : c.op = "request" /\ c.topic = m.topic /\ TopicEx(c) \in DOMAIN map_subpool
  /\ m.flags = ReplyFlags => pc[IO] = "reply" /\ m = io_msg
  /\ \/ m.flags \in {0, 16, 17, 18}
     \/ \E a \in Actors, r \in Results : Write(a, r) /\ m = CommandMsg(call[a])

\* How a step of a working node changes the frames under way.
LEMMA UpStep ==
  ASSUME TypeOK, LifeInv, CallInv, OkInv, IoInv, Work
  PROVE  \/ up' = up
         \/ up' = << >> /\ conn' \notin {"open", "broken"}
         \/ \E m : Adds(m)
<1> USE DEF life, io, table
<1>1. ASSUME NEW a \in Actors, Step(a) \/ TimeOut(a) PROVE up' = up \/ \E m : Adds(m)
  <2>1. call[a] \in Call /\ call[a].op \in Ops
    BY DEF TypeOK, Call
  <2>2. ASSUME NEW r \in Results, Write(a, r) PROVE up' = up \/ \E m : Adds(m)
    <3>1. call[a].op \in Storing
      BY <2>1, <2>2 DEF Write, CallInv, Ops, Storing
    <3>2. /\ CommandMsg(call[a]) \in Message /\ CommandMsg(call[a]).from = Id
          /\ CommandMsg(call[a]).flags \notin {17, 18}
      BY <2>1, <3>1, CallMessages, CallFrames, FlagDataType
    <3>3. up' = up \/ up' = Append(up, CommandMsg(call[a]))
      BY <2>2, WriteAppends DEF Write
    <3>4. QED
      BY <2>1, <2>2, <3>1, <3>2, <3>3, NodeFrames DEF Adds, Written
  <2>3. ASSUME NEW r \in Results, Send(a, r) PROVE up' = up \/ \E m : Adds(m)
    <3>1. /\ DataMsg(call[a]) \in Message /\ DataMsg(call[a]).from = Id
          /\ DataMsg(call[a]).topic = call[a].topic
          /\ DataMsg(call[a]).flags = IF call[a].op = "request" THEN 17 ELSE 16
      BY <2>1, CallMessages, CallFrames
    <3>2. call[a].op = "request" => TopicEx(call[a]) \in DOMAIN map_subpool
      <4>1. pc[a] = "send"
        BY <2>3 DEF Send
      <4>2. pc[IO] \in Running
        BY <4>1 DEF LifeInv, Running, Inside, Actors
      <4>3. heap = "ready"
        BY <4>2 DEF LifeInv
      <4>4. QED
        BY <4>1, <4>3 DEF OkInv, Relies, Asking
    <3>3. up' = up \/ up' = Append(up, DataMsg(call[a]))
      BY <2>3, WriteAppends DEF Send
    <3>4. QED
      BY <2>1, <3>1, <3>2, <3>3, NodeFrames DEF Adds, Written
  <2>4. CASE Lock(a) \/ TestStatus(a) \/ Find(a) \/ Save(a) \/ Busy(a) \/ TimeOut(a)
    BY <2>4 DEF Lock, TestStatus, Find, Save, Busy, TimeOut
  <2>5. QED
    BY <1>1, <2>2, <2>3, <2>4 DEF Step
<1>2. ASSUME NEW t \in Threads, NEW c \in Calls, Enter(t, c) PROVE up' = up
  BY <1>2 DEF Enter
<1>3. ASSUME NEW r \in Results, Reply(r) PROVE up' = up \/ \E m : Adds(m)
  <2>1. io_msg \in Message /\ io_msg.flags = ReplyFlags /\ io_msg.from = Id /\ pc[IO] = "reply"
    BY <1>3 DEF Reply, IoInv, TypeOK
  <2>2. up' = up \/ up' = Append(up, io_msg)
    BY <1>3, WriteAppends DEF Reply
  <2>3. QED
    BY <2>1, <2>2, NodeFrames DEF Adds, Written
<1>4. ASSUME NEW r \in Results, OnConnect(r) PROVE up' = up \/ \E m : Adds(m)
  <2>1. up' = up \/ up' = Append(up, RegisterMsg)
    BY <1>4, WriteAppends DEF OnConnect
  <2>2. QED
    BY <2>1, NodeFrames, ConnectMessages DEF Adds, Written
<1>5. CASE FirstConnect \/ HloopFree \/ Timer \/ OnConnectFailed \/ OnClose
  BY <1>5 DEF FirstConnect, HloopFree, Timer, OnConnectFailed, OnClose, Reconnect, Lost
<1>6. CASE InitTable \/ HloopNew \/ HloopRun \/ Dispatch \/ Collect \/ OnRespond \/ HandlerReturns
           \/ (\E c \in HandlerCalls : HandlerEnters(c)) \/ FiniTable \/ OnReadInvalid \/ OnRead
  BY <1>6 DEF InitTable, HloopNew, HloopRun, Dispatch, Collect, OnRespond, HandlerReturns,
    HandlerEnters, FiniTable, OnReadInvalid, OnRead
<1>7. QED
  BY <1>1, <1>2, <1>3, <1>4, <1>5, <1>6 DEF Work, IoStep, Event

\* The frames under way stay frames of this node.
LEMMA UpInvStep ==
  ASSUME TypeOK, LifeInv, CallInv, OkInv, IoInv, UpInv, [Next]_vars
  PROVE  UpInv'
<1>0. up \in Seq(Message)
  BY DEF TypeOK
<1>1. CASE up' = up \/ up' = << >>
  BY <1>1 DEF UpInv
<1>2. ASSUME NEW m, Adds(m) PROVE UpInv'
  <2>1. up' = Append(up, m) /\ Written(m) /\ m \in Message
    BY <1>2 DEF Adds
  <2>2. \A i \in 1..Len(up') : up'[i] = m \/ (i \in 1..Len(up) /\ up'[i] = up[i])
    BY <1>0, <2>1
  <2>3. QED
    BY <2>1, <2>2 DEF UpInv
<1>3. CASE Work
  BY <1>1, <1>2, <1>3, UpStep
<1>4. CASE PeerReads
  <2>1. up # << >> /\ up' = Tail(up)
    BY <1>4 DEF PeerReads
  <2>2. \A i \in 1..Len(up') : i + 1 \in 1..Len(up) /\ up'[i] = up[i + 1]
    BY <1>0, <2>1
  <2>3. QED
    BY <2>2 DEF UpInv
<1>5. CASE (\E t \in Threads : Stop(t) \/ Join(t)) \/ (\E m \in Incoming : PeerSends(m))
           \/ UNCHANGED vars
  BY <1>1, <1>5 DEF Stop, Join, PeerSends, vars, io
<1>6. QED
  BY <1>3, <1>4, <1>5 DEF Next

\* Where the message in the hands of the IO thread comes from: it is the same as
\* before, the next frame, or the answer to the one before.
LEMMA IoMsgStep ==
  ASSUME TypeOK, TableInv, IoInv, Work, pc'[IO] \in Handling
  PROVE  \/ /\ pc[IO] \in Handling /\ io_msg' = io_msg
            /\ pc'[IO] \in {"read", "dispatch"} => pc[IO] \in {"read", "dispatch"}
            /\ pc'[IO] \in {"collect", "iterate"} => io_msg.flags = RequestFlags
            /\ pc'[IO] = "reply" => pc[IO] = "reply"
         \/ down # << >> /\ io_msg' = Head(down) /\ pc'[IO] = "read"
         \/ /\ pc[IO] = "iterate" /\ pc'[IO] = "reply"
            /\ io_msg' = StatusMsg(io_msg.from)
<1> USE DEF life, io, table, Goto
<1>0. /\ IO \in Actors /\ pc \in [Actors -> Pcs] /\ \A t \in Threads : t \in Actors /\ t # IO
  BY NodeAssumption DEF Actors, TypeOK, Pcs
<1> DEFINE Same == /\ pc[IO] \in Handling /\ io_msg' = io_msg
                   /\ pc'[IO] \in {"read", "dispatch"} => pc[IO] \in {"read", "dispatch"}
                   /\ pc'[IO] \in {"collect", "iterate"} => io_msg.flags = RequestFlags
                   /\ pc'[IO] = "reply" => pc[IO] = "reply"
<1>1. ASSUME pc'[IO] = pc[IO], io_msg' = io_msg PROVE Same
  BY <1>1 DEF IoInv
<1>2. ASSUME NEW a \in Actors, Step(a) \/ TimeOut(a) PROVE Same
  <2>1. CASE Lock(a)
    BY <1>0, <1>1, <2>1 DEF Lock, Locked, Handling, IoInv
  <2>2. CASE a # IO
    BY <1>0, <1>1, <1>2, <2>2 DEF Step, Lock, TestStatus, Find, Subscribed, Write, Save, Send, Busy,
      TimeOut, Return
  <2>3. ASSUME a = IO, ~Lock(a) PROVE FALSE
    BY <1>0, <1>2, <2>3 DEF Step, TestStatus, Find, Subscribed, Write, Save, Send, Busy, TimeOut,
      Return, Handling
  <2>4. QED
    BY <2>1, <2>2, <2>3
<1>3. ASSUME NEW t \in Threads, NEW c \in Calls, Enter(t, c) PROVE Same
  BY <1>0, <1>1, <1>3 DEF Enter
<1>4. CASE Dispatch
  <2> DEFINE k == HMSG_TOPICEX_INMSG(io_msg)
  <2>1. pc'[IO] = EntryOf(k) /\ pc[IO] = "dispatch"
    BY <1>0, <1>4 DEF Dispatch
  <2>2. EntryOf(k) \in {"collect", "respond"}
    BY <2>1, EntryType DEF Handling
  <2>3. io_msg' = io_msg /\ io_msg \in Message
    BY <1>4, <2>1, <2>2 DEF Dispatch, TypeOK
  <2>4. EntryOf(k) = "collect" => io_msg.flags = RequestFlags
    <3> SUFFICES ASSUME EntryOf(k) = "collect" PROVE io_msg.flags = RequestFlags
      OBVIOUS
    <3>1. k \in DOMAIN map_subpool /\ map_subpool[k] = "hnode_on_status"
      BY DEF EntryOf, TypeOK
    <3>2. io_msg.flags \in FlagsFor("hnode_on_status")
      BY <2>3, <3>1, TableFits DEF DispatchFits
    <3>3. QED
      BY <3>2, NodeFrames DEF FlagsFor
  <2>5. QED
    BY <2>1, <2>2, <2>3, <2>4 DEF Handling
<1>5. CASE Collect
  BY <1>0, <1>5 DEF Collect
<1>6. CASE OnRead
  BY <1>0, <1>6 DEF OnRead, NextFrame
<1>7. CASE Timer \/ OnConnectFailed \/ OnClose \/ OnReadInvalid
  BY <1>1, <1>7 DEF Timer, OnConnectFailed, OnClose, OnReadInvalid
<1>8. ASSUME \/ InitTable \/ HloopNew \/ FirstConnect \/ HloopRun \/ (\E r \in Results : Reply(r))
             \/ OnRespond \/ HandlerReturns \/ (\E c \in HandlerCalls : HandlerEnters(c))
             \/ HloopFree \/ FiniTable \/ (\E r \in Results : OnConnect(r))
      PROVE  FALSE
  BY <1>0, <1>8 DEF InitTable, HloopNew, FirstConnect, HloopRun, Reply, OnRespond, HandlerReturns,
    HandlerEnters, HloopFree, FiniTable, OnConnect, MainStep, Handling
<1>9. QED
  BY <1>2, <1>3, <1>4, <1>5, <1>6, <1>7, <1>8 DEF Work, IoStep, Event

\* hnode_on_status only ever has a request or its own reply in its hands.
LEMMA IoInvStep == ASSUME TypeOK, TableInv, IoInv, [Next]_vars PROVE IoInv'
<1>1. CASE Work /\ pc'[IO] \in Handling
  <2>1. StatusMsg(io_msg.from).flags = ReplyFlags /\ StatusMsg(io_msg.from).from = Id
    BY DEF StatusMsg, hmsg_t, ReplyFlags
  <2>2. QED
    BY <1>1, <2>1, IoMsgStep DEF IoInv
<1>2. CASE pc'[IO] \notin Handling
  BY <1>2 DEF IoInv, Handling
<1>3. CASE ~Work
  <2>1. pc'[IO] = pc[IO] /\ io_msg' = io_msg
    BY <1>3, NodeAssumption DEF Next, Stop, Join, Goto, PeerReads, PeerSends, vars, TypeOK, Actors
  <2>2. QED
    BY <2>1 DEF IoInv
<1>4. QED
  BY <1>1, <1>2, <1>3

-------------------------------------------------------------------------------
(***************************************************************************)
(* The theorems.                                                           *)
(***************************************************************************)

\* Every step keeps the whole invariant.
LEMMA InvStep == ASSUME IInv, [Next]_vars PROVE IInv'
<1>1. TypeOK'
  BY TypeStep DEF IInv, TableInv
<1>2. LifeInv'
  BY LifeStep DEF IInv
<1>3. MutexInv' /\ CallInv'
  BY MutexStep, CallStep DEF IInv
<1>4. TableInv'
  BY TableStep DEF IInv
<1>5. StatusTracksConnection'
  BY StatusStep DEF IInv
<1>6. OkInv'
  BY OkStep DEF IInv
<1>7. UpInv' /\ IoInv'
  BY UpInvStep, IoInvStep DEF IInv
<1>8. QED
  BY <1>1, <1>2, <1>3, <1>4, <1>5, <1>6, <1>7 DEF IInv

\* It holds of a node that has just been created.
LEMMA InvInit == Init => IInv
<1>1. Init => StatusTracksConnection /\ OkInv
  BY NodeAssumption DEF Init, StatusTracksConnection, OkInv, Asking, Relies, StatusCall, Actors
<1>2. Init => UpInv /\ IoInv
  BY NodeAssumption DEF Init, UpInv, IoInv, Actors
<1>3. QED
  BY <1>1, <1>2, TypeInit, LifeInit, MutexInit DEF IInv

\* IInv holds initially and every step keeps it.
THEOREM Invariance == Spec => []IInv
<1>1. IInv /\ [Next]_vars => IInv'
  BY InvStep
<1>2. QED
  BY <1>1, InvInit, PTL DEF Spec

\* Every variable keeps its type.
THEOREM TypeCorrect == Spec => []TypeOK
<1>1. IInv => TypeOK
  BY DEF IInv
<1>2. QED
  BY <1>1, Invariance, PTL

\* No application thread and no callback uses the mutex, the table or node->io
\* before hnode_thread_io_main has made them or after hnode_destroy has freed
\* them, however the threads and the IO thread are scheduled: the status test is
\* enough, provided that no call is made during or after hnode_destroy.
THEOREM NoUseOutsideLife == Spec => []UsesAreSafe
<1>1. IInv => UsesAreSafe
  BY DEF IInv, LifeInv, UsesAreSafe, TypeOK, Running, Inside, InLoop, Life, Destroying
<1>2. QED
  BY <1>1, Invariance, PTL

\* Whatever fails and whenever: the status is never CONNECTED or CONNECTING
\* without a connection in that state, or a broken one that will be reported.
THEOREM StatusIsTrue == Spec => []StatusTracksConnection
<1>1. IInv => StatusTracksConnection
  BY DEF IInv
<1>2. QED
  BY <1>1, Invariance, PTL

\* Two calls that form the same key have the same topic and ask for the same kind
\* of data.
LEMMA SameKey ==
  ASSUME NEW c \in Call, NEW d \in Call, c.op \in Storing, d.op \in Storing,
         TopicEx(c) = TopicEx(d)
  PROVE  FlagData(c.op) = FlagData(d.op) /\ c.topic = d.topic
<1>1. /\ c.topic \in Nat /\ c.topic <= 65535 /\ d.topic \in Nat /\ d.topic <= 65535
      /\ FlagData(c.op) \in {0, 1, 2} /\ FlagData(d.op) \in {0, 1, 2}
  BY UInt16Bounds, FlagDataType DEF Call
<1>2. TopicEx(d) = (16 + FlagData(c.op)) * 65536 + c.topic
  <2>1. TopicEx(c) = (16 + FlagData(c.op)) * 65536 + c.topic
    BY <1>1 DEF TopicEx, DataKey, HMSG_TOPICEX, HMSG_FLAGS, HMSG_FCMD_DATA, Storing
  <2>2. QED
    BY <2>1
<1>3. TopicEx(d) = (16 + FlagData(d.op)) * 65536 + d.topic
  BY <1>1 DEF TopicEx, DataKey, HMSG_TOPICEX, HMSG_FLAGS, HMSG_FCMD_DATA, Storing
<1>4. QED
  <2> DEFINE f == 16 + FlagData(c.op)
             g == 16 + FlagData(d.op)
             t == c.topic
             u == d.topic
  <2>1. f \in Nat /\ f <= 255 /\ g \in Nat /\ g <= 255
    BY <1>1
  <2>2. t \in Nat /\ t <= 65535 /\ u \in Nat /\ u <= 65535 /\ 0 \in Nat
    BY <1>1
  <2>3. f * 65536 + t = g * 65536 + u
    BY <1>2, <1>3
  <2> HIDE DEF f, g, t, u
  <2>4. 0 * 16777216 + f * 65536 + t = g * 65536 + u
    BY <2>1, <2>2, <2>3, SMT
  <2>5. f = g /\ t = u
    BY <2>1, <2>2, <2>4, KeyFields
  <2>6. QED
    BY <1>1, <2>5 DEF f, g, t, u

\* After OK, and while a request waits, hnode_on_read hands the messages that the
\* call asked for to a handler of the right kind, whichever threads subscribe and
\* unsubscribe at the same time: a request's replies to hnode_on_respond, anything
\* else to the application, but for the status topic, which may be with
\* hnode_on_status.  Whose handler it is the theorem does not say: a known topic
\* keeps the one it has.
THEOREM OkMeansServed == Spec => []OkIsServed
<1>1. ASSUME IInv, NEW t \in Threads, call[t].op \in Asking, heap = "ready",
             (pc[t] = "idle" /\ ret[t] = "OK") \/ pc[t] = "await"
      PROVE  EntryOf(TopicEx(call[t])) \in ServedAt(call[t])
  <2> DEFINE d == call[t]
  <2>1. t \in Actors /\ d \in Call /\ d.op \in Storing
    BY <1>1 DEF IInv, TypeOK, Actors, Asking, Storing
  <2>2. TopicEx(d) \in DOMAIN map_subpool
    BY <1>1, <2>1 DEF IInv, OkInv, Relies
  <2>3. PICK c \in Call : /\ c.op \in Storing
                          /\ TopicEx(d) = TopicEx(c)
                          /\ map_subpool[TopicEx(d)] = Handler(c.op)
    BY <1>1, <2>2 DEF IInv, TableInv
  <2>4. FlagData(c.op) = FlagData(d.op) /\ c.topic = d.topic
    BY <2>1, <2>3, SameKey
  <2>5. EntryOf(TopicEx(d)) =
          [hnode_on_status |-> "collect", hnode_on_respond |-> "respond",
           app |-> "handler"][Handler(c.op)]
    BY <2>2, <2>3 DEF EntryOf
  <2>6. c.op = "status" => d.topic = HMSG_MSGID_STATUS
    BY <2>4 DEF Call
  <2>7. CASE d.op = "request"
    <3>1. c.op = "request"
      BY <2>3, <2>4, <2>7 DEF Storing, FlagData, HMSG_FDATA_PUBSUB, HMSG_FDATA_REQUEST,
        HMSG_FDATA_REPOND
    <3>2. QED
      BY <2>5, <2>7, <3>1 DEF Handler, ServedAt
  <2>8. CASE d.op = "subscribe"
    <3>1. c.op = "subscribe"
      BY <2>3, <2>4, <2>8 DEF Storing, FlagData, HMSG_FDATA_PUBSUB, HMSG_FDATA_REQUEST,
        HMSG_FDATA_REPOND
    <3>2. QED
      BY <2>5, <2>8, <3>1 DEF Handler, ServedAt
  <2>9. CASE d.op = "respond"
    <3>1. c.op \in {"respond", "status"}
      BY <2>3, <2>4, <2>9 DEF Storing, FlagData, HMSG_FDATA_PUBSUB, HMSG_FDATA_REQUEST,
        HMSG_FDATA_REPOND
    <3>2. QED
      BY <2>5, <2>6, <2>9, <3>1 DEF Handler, ServedAt
  <2>10. QED
    BY <1>1, <2>7, <2>8, <2>9 DEF Asking
<1>2. IInv => OkIsServed
  BY <1>1 DEF OkIsServed, Asking
<1>3. QED
  BY <1>2, Invariance, PTL

\* A thread in a critical section owns the mutex, and is alone in one.
Exclusion ==
  \A u, v \in Actors :
    pc[u] \in Critical => mtx = u /\ (pc[v] \in Critical => u = v)

\* The critical sections of map_subpool_mtx exclude each other, and the thread
\* that unlocks is the one that locked.
THEOREM TableIsProtected == Spec => []Exclusion
<1>1. IInv => Exclusion
  BY DEF IInv, MutexInv, Exclusion
<1>2. QED
  BY <1>1, Invariance, PTL

\* No frame of any version, flags and topic has the key of another kind of
\* message: a reply never reaches the application's handler, nor data
\* hnode_on_respond.
THEOREM DispatchIsByKind == Spec => []DispatchFits
<1>1. IInv => DispatchFits
  BY TableFits DEF IInv
<1>2. QED
  BY <1>1, Invariance, PTL

\* No thread is past the lookup with an unsubscribe, and no UNSUB is under way.
NoUnsub ==
  /\ \A u \in Actors : pc[u] \in {"write", "store", "save"} => call[u].op # "unsubscribe"
  /\ \A i \in 1..Len(up) : up[i].flags # HMSG_FCMD_UNSUB

\* hnode_unsubscribe_i never finds the topic it looks up, whatever was
\* subscribed before: it writes nothing and deletes nothing.  This is what is
\* behind the finding about UnsubscribeRemoves, for every node and every call.
THEOREM NeverUnsubscribes == Spec => []NoUnsub
<1>1. ASSUME IInv PROVE NoUnsub
  <2>1. ASSUME NEW i \in 1..Len(up) PROVE up[i].flags # HMSG_FCMD_UNSUB
    <3>1. ASSUME NEW c \in Call, c.op \in Storing PROVE CommandMsg(c).flags \in {32, 33, 34}
      BY <3>1, CallFrames, FlagDataType DEF Call
    <3>2. \A c \in Call : DataMsg(c).flags \in {16, 17}
      BY CallFrames
    <3>3. up[i].flags \in {0, 16, 17, 18, 32, 33, 34}
      BY <1>1, <3>1, <3>2, NodeFrames DEF IInv, UpInv, Written
    <3>4. QED
      BY <3>3 DEF HMSG_FCMD_UNSUB
  <2>2. QED
    BY <1>1, <2>1 DEF NoUnsub, IInv, CallInv
<1>2. QED
  BY <1>1, Invariance, PTL
===============================================================================
