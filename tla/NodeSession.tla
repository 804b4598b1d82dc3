----------------------------- MODULE NodeSession ------------------------------
(***************************************************************************)
(* A node as the other end of its connection sees it: what it adds to and  *)
(* takes from the frames under way, and how its table follows the SUB      *)
(* commands it writes.  Two nodes and the broker are put together in Bus   *)
(* with these lemmas.                                                      *)
(***************************************************************************)
EXTENDS NodeProofs

\* What the other end does, by reading, sending or cutting, keeps the invariant.
LEMMA EnvStep ==
  ASSUME IInv,
         UNCHANGED <<heap, loop, status, map_subpool, mtx, pc, call, ret, io_msg>>,
         conn' = conn \/ (conn = "open" /\ conn' = "broken"),
         up' = up \/ (up # << >> /\ up' = Tail(up)),
         down' \in Seq(Message)
  PROVE  IInv'
<1>0. up \in Seq(Message)
  BY DEF IInv, TypeOK
<1>1. TypeOK' /\ LifeInv'
  <2>1. up' \in Seq(Message) /\ conn' \in Conns
    <3>1. up # << >> => Tail(up) \in Seq(Message)
      BY <1>0
    <3>2. conn' \in Conns
      BY DEF IInv, TypeOK, Conns, Closable
    <3>3. QED
      BY <1>0, <3>1, <3>2
  <2>2. TypeOK'
    BY <2>1 DEF IInv, TypeOK, Conns
  <2>3. LifeInv'
    BY DEF IInv, LifeInv, Destroying
  <2>4. QED
    BY <2>2, <2>3
<1>2. MutexInv' /\ CallInv' /\ TableInv' /\ IoInv'
  BY DEF IInv, MutexInv, CallInv, TableInv, IoInv
<1>3. StatusTracksConnection' /\ OkInv'
  BY DEF IInv, StatusTracksConnection, OkInv, Relies
<1>4. UpInv'
  <2>1. ASSUME up # << >>, up' = Tail(up)
        PROVE  \A i \in 1..Len(up') : i + 1 \in 1..Len(up) /\ up'[i] = up[i + 1]
    BY <1>0, <2>1
  <2>2. QED
    BY <2>1 DEF IInv, UpInv
<1>5. QED
  BY <1>1, <1>2, <1>3, <1>4 DEF IInv

\* A working node is not on its way to be destroyed, and only adds to its table.
LEMMA WorkGrows ==
  ASSUME IInv, Work, ~Destroying
  PROVE  ~Destroying' /\ DOMAIN map_subpool \subseteq DOMAIN map_subpool'
<1> USE DEF life, io, table, Goto
<1>0. /\ IO \in Actors /\ pc \in [Actors -> Pcs] /\ \A t \in Threads : t \in Actors /\ t # IO
      /\ [Next]_vars
  BY NodeAssumption DEF Actors, IInv, TypeOK, Pcs, Next
<1>1. ASSUME NEW a \in Actors, Save(a) PROVE DOMAIN map_subpool \subseteq DOMAIN map_subpool'
  <2>1. map_subpool' = Put(map_subpool, TopicEx(call[a]), Handler(call[a].op))
    BY <1>1 DEF IInv, CallInv, Save
  <2>2. QED
    BY <2>1 DEF Put
<1>2. ~FiniTable
  BY DEF FiniTable, MainStep, IInv, LifeInv
<1>3. \A t \in Threads : pc'[t] \notin {"join", "done"}
  <2>1. ASSUME NEW a \in Actors, Step(a) \/ TimeOut(a), NEW t \in Threads
        PROVE  pc'[t] \notin {"join", "done"}
    <3>1. PICK w \in (Inside \ {"status"}) \cup {"idle", "loop", "dispatch", "iterate"} :
            pc' = [pc EXCEPT ![a] = w]
      BY <2>1, CallMoves DEF IInv
    <3>2. QED
      BY <1>0, <3>1 DEF Destroying, Inside
  <2>2. ASSUME NEW u \in Threads, NEW c \in Calls, Enter(u, c), NEW t \in Threads
        PROVE  pc'[t] \notin {"join", "done"}
    BY <1>0, <2>2 DEF Enter, Destroying
  <2>3. ASSUME IoStep, NEW t \in Threads PROVE pc'[t] \notin {"join", "done"}
    BY <1>0, <2>3 DEF IoStep, InitTable, HloopNew, FirstConnect, HloopRun, Dispatch, Collect, Reply,
      OnRespond, HandlerReturns, HandlerEnters, HloopFree, FiniTable, MainStep, Destroying
  <2>4. ASSUME Event, NEW t \in Threads PROVE pc'[t] \notin {"join", "done"}
    BY <1>0, <2>4 DEF Event, Timer, OnConnect, OnConnectFailed, OnClose, OnReadInvalid, OnRead,
      Destroying
  <2>5. QED
    BY <2>1, <2>2, <2>3, <2>4 DEF Work
<1>4. ~Destroying'
  BY <1>3 DEF Destroying
<1>5. QED
  BY <1>0, <1>1, <1>2, <1>4, TableSteps

\* The frames from the other end are taken in order, or lost.
LEMMA DownStep ==
  ASSUME Work
  PROVE  down' = down \/ down' = << >> \/ (down # << >> /\ down' = Tail(down))
<1> USE DEF life, io, table
<1>1. ASSUME NEW a \in Actors, Step(a) \/ TimeOut(a) PROVE down' = down
  BY <1>1 DEF Step, Lock, TestStatus, Find, Write, Save, Send, Busy, TimeOut
<1>2. ASSUME NEW t \in Threads, NEW c \in Calls, Enter(t, c) PROVE down' = down
  BY <1>2 DEF Enter
<1>3. ASSUME IoStep PROVE down' = down \/ down' = << >>
  BY <1>3 DEF IoStep, InitTable, HloopNew, FirstConnect, HloopRun, Dispatch, Collect, Reply,
    OnRespond, HandlerReturns, HandlerEnters, HloopFree, FiniTable, Reconnect, Lost
<1>4. ASSUME Event
      PROVE  down' = down \/ down' = << >> \/ (down # << >> /\ down' = Tail(down))
  BY <1>4 DEF Event, Timer, OnConnect, OnConnectFailed, OnClose, OnReadInvalid, OnRead, NextFrame,
    Reconnect, Lost
<1>5. QED
  BY <1>1, <1>2, <1>3, <1>4 DEF Work

\* The topic that a SUB is about, and the topics that are asked for in a queue.
SubKey(m) == HMSG_TOPICEX(0, HMSG_FLAGS(HMSG_FCMD_DATA, HMSG_FLAGS_DATA(m.flags)), m.topic)
AskedFor(k, q) == \E i \in 1..Len(q) : HasBit(q[i].flags, HMSG_FCMD_SUB) /\ k = SubKey(q[i])

\* The topics in the table, and those whose SUB is written and that are to be
\* stored.
Known(k) ==
  \/ k \in DOMAIN map_subpool
  \/ \E a \in Actors : pc[a] \in {"store", "save"} /\ k = TopicEx(call[a])

\* SUB asks for the key under which the handler is stored.
LEMMA SubKeyOf ==
  ASSUME NEW c \in Call, c.op \in Storing
  PROVE  HasBit(CommandMsg(c).flags, HMSG_FCMD_SUB) /\ SubKey(CommandMsg(c)) = TopicEx(c)
<1>1. PICK d \in {0, 1, 2} : FlagData(c.op) = d
  BY FlagDataType DEF Call
<1>2. CommandMsg(c).flags = 32 + d /\ CommandMsg(c).topic = c.topic
  BY <1>1, CallFrames
<1>3. (32 + d) \div 32 = 1 /\ (32 + d) % 16 = d
  BY <1>1
<1>4. HasBit(CommandMsg(c).flags, HMSG_FCMD_SUB)
  BY <1>2, <1>3 DEF HasBit, HMSG_FCMD_SUB
<1>5. SubKey(CommandMsg(c)) = HMSG_TOPICEX(0, 16 + d, c.topic)
  BY <1>2, <1>3 DEF SubKey, HMSG_FLAGS, HMSG_FLAGS_DATA, HMSG_FCMD_DATA
<1>6. TopicEx(c) = HMSG_TOPICEX(0, 16 + d, c.topic)
  BY <1>1 DEF TopicEx, DataKey, HMSG_FLAGS, HMSG_FCMD_DATA, Storing
<1>7. QED
  BY <1>4, <1>5, <1>6

\* No other frame of a node has the bit of SUB.
LEMMA NoSubBit == \A f \in {0, 16, 17, 18} : ~HasBit(f, HMSG_FCMD_SUB)
BY DEF HasBit, HMSG_FCMD_SUB

\* A frame at the end of a queue asks for its own topic only.
LEMMA AskedAppend ==
  ASSUME NEW q \in Seq(Message), NEW m \in Message, NEW k
  PROVE  AskedFor(k, Append(q, m)) <=>
           AskedFor(k, q) \/ (HasBit(m.flags, HMSG_FCMD_SUB) /\ k = SubKey(m))
<1> DEFINE p == Append(q, m)
<1>1. /\ Len(p) = Len(q) + 1 /\ p[Len(q) + 1] = m /\ Len(q) \in Nat
      /\ \A i \in 1..Len(q) : p[i] = q[i]
  OBVIOUS
<1>2. 1..(Len(q) + 1) = (1..Len(q)) \cup {Len(q) + 1}
  BY <1>1
<1> HIDE DEF p
<1>3. AskedFor(k, p) <=> AskedFor(k, q) \/ (HasBit(m.flags, HMSG_FCMD_SUB) /\ k = SubKey(m))
  BY <1>1, <1>2 DEF AskedFor
<1>4. QED
  BY <1>3 DEF p

\* A thread whose SUB is written goes on to store the handler, ...
LEMMA KnownStays ==
  ASSUME IInv, Work, ~Destroying, NEW k, Known(k)
  PROVE  Known(k)'
<1> USE DEF life, io, table, Goto
<1>0. IO \in Actors /\ pc \in [Actors -> Pcs] /\ call \in [Actors -> Call]
      /\ \A t \in Threads : t \in Actors /\ t # IO
  BY NodeAssumption DEF Actors, IInv, TypeOK, Pcs
<1>1. CASE k \in DOMAIN map_subpool
  BY <1>1, WorkGrows DEF Known
<1>2. ASSUME NEW a \in Actors, pc[a] \in {"store", "save"}, k = TopicEx(call[a]) PROVE Known(k)'
  <2>1. CASE Save(a)
    <3>1. map_subpool' = Put(map_subpool, k, Handler(call[a].op))
      BY <1>2, <2>1 DEF IInv, CallInv, Save
    <3>2. QED
      BY <3>1 DEF Put, Known
  <2>2. CASE Lock(a)
    BY <1>0, <1>2, <2>2 DEF Lock, Locked, Known
  <2>3. ASSUME pc'[a] = pc[a], call'[a] = call[a] PROVE Known(k)'
    BY <1>2, <2>3 DEF Known
  <2>4. ASSUME NEW u \in Actors, Step(u) \/ TimeOut(u), ~Save(a), ~Lock(a) PROVE Known(k)'
    <3>1. u # a
      BY <1>2, <2>4 DEF Step, TestStatus, Find, Write, Send, Busy, TimeOut
    <3>2. pc'[a] = pc[a] /\ call' = call
      BY <1>0, <2>4, <3>1, CallMoves DEF IInv
    <3>3. QED
      BY <2>3, <3>2
  <2>5. ASSUME NEW t \in Threads, NEW c \in Calls, Enter(t, c) PROVE Known(k)'
    BY <1>0, <1>2, <2>3, <2>5 DEF Enter
  <2>6. CASE IoStep
    <3>1. a # IO
      BY <1>2, <2>6 DEF IoStep, InitTable, HloopNew, FirstConnect, HloopRun, Dispatch, Collect,
        Reply, OnRespond, HandlerReturns, HandlerEnters, HloopFree, FiniTable, MainStep
    <3>2. pc'[a] = pc[a] /\ call'[a] = call[a]
      BY <1>0, <1>2, <2>6, <3>1 DEF IoStep, InitTable, HloopNew, FirstConnect, HloopRun, Dispatch,
        Collect, Reply, OnRespond, HandlerReturns, HandlerEnters, HloopFree, FiniTable, MainStep
    <3>3. QED
      BY <2>3, <3>2
  <2>7. CASE Event
    <3>1. pc'[a] = pc[a] /\ call'[a] = call[a]
      BY <1>0, <1>2, <2>7 DEF Event, Timer, OnConnect, OnConnectFailed, OnClose, OnReadInvalid,
        OnRead, NextFrame, AtLoop
    <3>2. QED
      BY <2>3, <3>1
  <2>8. QED
    BY <2>1, <2>2, <2>4, <2>5, <2>6, <2>7 DEF Work
<1>3. QED
  BY <1>1, <1>2 DEF Known

\* ... and only a SUB that is written lets it do so.
LEMMA KnownStep ==
  ASSUME IInv, Work, ~Destroying, NEW k, Known(k)'
  PROVE  Known(k) \/ \E a \in Actors, r \in Results : Write(a, r) /\ k = TopicEx(call[a])
<1> USE DEF life, io, table, Goto
<1>0. IO \in Actors /\ pc \in [Actors -> Pcs] /\ call \in [Actors -> Call]
      /\ (\A t \in Threads : t \in Actors /\ t # IO) /\ [Next]_vars
  BY NodeAssumption DEF Actors, IInv, TypeOK, Pcs, Next
<1> DEFINE Goal == Known(k) \/ \E a \in Actors, r \in Results : Write(a, r) /\ k = TopicEx(call[a])
<1>1. CASE k \in DOMAIN map_subpool'
  <2>1. ASSUME NEW a \in Actors, Save(a) PROVE Goal
    BY <1>1, <2>1 DEF Save, Put, Del, Known
  <2>2. ~FiniTable
    BY <1>1 DEF FiniTable
  <2>3. CASE map_subpool' = map_subpool
    BY <1>1, <2>3 DEF Known
  <2>4. QED
    BY <1>0, <2>1, <2>2, <2>3, TableSteps
<1>2. ASSUME NEW a \in Actors, pc'[a] \in {"store", "save"}, k = TopicEx(call'[a]) PROVE Goal
  <2>1. ASSUME pc[a] \in {"store", "save"}, call'[a] = call[a] PROVE Goal
    BY <1>2, <2>1 DEF Known
  <2>2. ASSUME NEW u \in Actors, Step(u) \/ TimeOut(u) PROVE Goal
    <3>1. call' = call
      BY <2>2, CallMoves DEF IInv
    <3>2. CASE u # a
      <4>1. pc'[a] = pc[a]
        BY <1>0, <2>2, <3>2, CallMoves DEF IInv
      <4>2. QED
        BY <1>2, <2>1, <3>1, <4>1
    <3>3. CASE u = a
      <4>1. CASE Lock(a)
        BY <1>0, <1>2, <2>1, <3>1, <4>1 DEF Lock, Locked
      <4>2. CASE \E r \in Results : Write(a, r)
        BY <1>2, <3>1, <4>2
      <4>3. CASE TestStatus(a) \/ Find(a) \/ Save(a) \/ (\E r \in Results : Send(a, r))
                 \/ Busy(a) \/ TimeOut(a)
        BY <1>0, <1>2, <4>3 DEF TestStatus, Find, Save, Subscribed, Send, Busy, TimeOut, Return
      <4>4. QED
        BY <2>2, <3>3, <4>1, <4>2, <4>3 DEF Step
    <3>4. QED
      BY <3>2, <3>3
  <2>3. ASSUME NEW t \in Threads, NEW c \in Calls, Enter(t, c) PROVE Goal
    BY <1>0, <1>2, <2>1, <2>3 DEF Enter
  <2>4. CASE Dispatch
    BY <1>0, <1>2, <2>1, <2>4, EntryType DEF Dispatch, IInv
  <2>5. CASE IoStep /\ ~Dispatch
    BY <1>0, <1>2, <2>1, <2>5 DEF IoStep, InitTable, HloopNew, FirstConnect, HloopRun,
      Collect, Reply, OnRespond, HandlerReturns, HandlerEnters, HloopFree, FiniTable, MainStep
  <2>6. CASE Event
    BY <1>0, <1>2, <2>1, <2>6 DEF Event, Timer, OnConnect, OnConnectFailed, OnClose, OnReadInvalid,
      OnRead
  <2>7. QED
    BY <2>2, <2>3, <2>4, <2>5, <2>6 DEF Work
<1>3. QED
  BY <1>1, <1>2 DEF Known

\* On a connection that stays established, the topics that the node knows have
\* been asked for, ...
LEMMA KnownIsAsked ==
  ASSUME IInv, Work, ~Destroying, conn = "open", conn' = "open",
         NEW S, \A k : Known(k) => k \in S \/ AskedFor(k, up),
         NEW k, Known(k)'
  PROVE  k \in S \/ AskedFor(k, up')
<1>0. up \in Seq(Message) /\ call \in [Actors -> Call]
  BY DEF IInv, TypeOK
<1>1. CASE Known(k)
  <2>1. up' = up \/ \E m \in Message : up' = Append(up, m)
    BY UpStep DEF IInv, Adds
  <2>2. QED
    BY <1>0, <1>1, <2>1, AskedAppend
<1>2. ASSUME NEW a \in Actors, NEW r \in Results, Write(a, r), k = TopicEx(call[a])
      PROVE  AskedFor(k, up')
  <2>1. call[a] \in Call /\ call[a].op \in Storing
    BY <1>0, <1>2 DEF Write, IInv, CallInv, Call, Ops, Storing
  <2>2. up' = Append(up, CommandMsg(call[a]))
    BY <1>2, WriteAppends DEF Write
  <2>3. QED
    BY <1>0, <1>2, <2>1, <2>2, CallMessages, SubKeyOf, AskedAppend
<1>3. QED
  BY <1>1, <1>2, KnownStep

\* ... and those that are asked for are known, if no SUB is only queued.
LEMMA AskedIsKnown ==
  ASSUME IInv, Work, ~Destroying, conn' = "open", 0 \notin Results,
         NEW S, \A k : k \in S \/ AskedFor(k, up) => Known(k),
         NEW k, k \in S \/ AskedFor(k, up')
  PROVE  Known(k)'
<1>0. up \in Seq(Message) /\ call \in [Actors -> Call] /\ pc \in [Actors -> Pcs]
  BY DEF IInv, TypeOK, Pcs
<1>1. CASE k \in S \/ AskedFor(k, up)
  BY <1>1, KnownStays
<1>2. ASSUME NEW m, Adds(m), AskedFor(k, up'), ~AskedFor(k, up) PROVE Known(k)'
  <2>1. HasBit(m.flags, HMSG_FCMD_SUB) /\ k = SubKey(m)
    BY <1>0, <1>2, AskedAppend DEF Adds
  <2>2. PICK a \in Actors, r \in Results : Write(a, r) /\ m = CommandMsg(call[a])
    BY <1>2, <2>1, NoSubBit DEF Adds
  <2>3. call[a] \in Call /\ call[a].op \in Storing
    BY <1>0, <2>2 DEF Write, IInv, CallInv, Call, Ops, Storing
  <2>4. k = TopicEx(call[a])
    BY <2>1, <2>2, <2>3, SubKeyOf
  <2>5. pc'[a] = "store" /\ call' = call
    BY <1>0, <2>2 DEF Write, Goto
  <2>6. QED
    BY <2>4, <2>5 DEF Known
<1>3. QED
  BY <1>1, <1>2, UpStep DEF IInv

\* Before the first connection is established nothing is written or stored.
Untouched ==
  /\ conn \notin {"open", "broken"}
  /\ up = << >>
  /\ \A k : ~Known(k)
  /\ pc[IO] \in Life \cup {"loop"}
  /\ \A t \in Threads : pc[t] \notin Inside \ {"status"}

\* That ends when REGISTER is written on the established connection.
LEMMA UntouchedStep ==
  ASSUME IInv, Untouched, Work, conn' # "broken"
  PROVE  \/ Untouched'
         \/ conn' = "open" /\ \A k : ~Known(k)' /\ ~AskedFor(k, up')
<1> USE DEF life, io, table, Goto
<1>0. /\ IO \in Actors /\ pc \in [Actors -> Pcs] /\ call \in [Actors -> Call]
      /\ \A t \in Threads : t \in Actors /\ t # IO
      /\ \A a \in Actors : a # IO => a \in Threads
  BY NodeAssumption DEF Actors, IInv, TypeOK, Pcs
<1>1. status # "CONNECTED" /\ conn # "open"
  BY DEF Untouched, IInv, StatusTracksConnection
<1>2. ASSUME \A k \in DOMAIN map_subpool' : k \in DOMAIN map_subpool,
             \A a \in Actors : pc'[a] \notin {"store", "save"}
      PROVE  \A k : ~Known(k)'
  BY <1>2 DEF Untouched, Known
<1>3. ASSUME conn' \notin {"open", "broken"}, up' = << >>, pc'[IO] \in Life \cup {"loop"},
             \A t \in Threads : pc'[t] \notin Inside \ {"status"},
             \A k \in DOMAIN map_subpool' : k \in DOMAIN map_subpool
      PROVE  Untouched'
  <2>1. \A a \in Actors : pc'[a] \notin {"store", "save"}
    BY <1>0, <1>3 DEF Life, Inside
  <2>2. QED
    BY <1>2, <1>3, <2>1 DEF Untouched
<1>4. ASSUME NEW a \in Actors, Step(a) \/ TimeOut(a) PROVE Untouched'
  <2>1. pc[a] \in Inside \cup {"read", "collect"}
    BY <1>4, CallMoves DEF IInv
  <2>2. a # IO
    BY <2>1 DEF Untouched, Life, Inside
  <2>3. pc[a] = "status" /\ a \in Threads
    BY <1>0, <2>1, <2>2 DEF IInv, LifeInv, Untouched, Inside
  <2>4. TestStatus(a)
    BY <1>4, <2>3 DEF Step, Lock, Locked, Find, Write, Save, Send, Busy, TimeOut
  <2>5. /\ pc' = [pc EXCEPT ![a] = "idle"] /\ conn' = conn /\ up' = up
        /\ map_subpool' = map_subpool
    BY <1>1, <2>2, <2>4 DEF TestStatus, Return
  <2>6. QED
    BY <1>0, <1>3, <2>2, <2>5 DEF Untouched, Inside
<1>5. ASSUME NEW t \in Threads, NEW c \in Calls, Enter(t, c) PROVE Untouched'
  BY <1>0, <1>3, <1>5 DEF Enter, Untouched
<1>6. CASE IoStep
  <2>1. CASE InitTable \/ HloopNew \/ HloopRun
    BY <1>0, <1>3, <2>1 DEF InitTable, HloopNew, HloopRun, MainStep, Untouched, Life
  <2>2. CASE FirstConnect \/ HloopFree
    BY <1>0, <1>3, <2>2 DEF FirstConnect, HloopFree, Reconnect, Lost, MainStep, Untouched, Life
  <2>3. CASE FiniTable
    BY <1>0, <1>3, <2>3 DEF FiniTable, MainStep, Untouched, Life
  <2>4. ASSUME Dispatch \/ Collect \/ (\E r \in Results : Reply(r)) \/ OnRespond \/ HandlerReturns
               \/ (\E c \in HandlerCalls : HandlerEnters(c))
        PROVE  FALSE
    BY <2>4 DEF Dispatch, Collect, Reply, OnRespond, HandlerReturns, HandlerEnters, Untouched, Life
  <2>5. QED
    BY <1>6, <2>1, <2>2, <2>3, <2>4 DEF IoStep
<1>7. ASSUME NEW r \in Results, OnConnect(r)
      PROVE  conn' = "open" /\ \A k : ~Known(k)' /\ ~AskedFor(k, up')
  <2>1. conn' = "open"
    BY <1>7, WriteType, ConnectMessages DEF OnConnect, IInv
  <2>2. up' = Append(up, RegisterMsg)
    BY <1>7, <2>1, WriteAppends DEF OnConnect
  <2>3. \A k : ~AskedFor(k, up) /\ up \in Seq(Message)
    BY DEF Untouched, AskedFor
  <2>4. \A k : ~AskedFor(k, up')
    BY <2>2, <2>3, AskedAppend, ConnectMessages, NodeFrames, NoSubBit
  <2>5. \A a \in Actors : pc'[a] \notin {"store", "save"}
    BY <1>0, <1>7 DEF OnConnect, Untouched, Inside
  <2>6. \A k \in DOMAIN map_subpool' : k \in DOMAIN map_subpool
    BY <1>7 DEF OnConnect
  <2>7. QED
    BY <1>2, <2>1, <2>4, <2>5, <2>6
<1>8. CASE Timer \/ OnConnectFailed \/ OnClose
  BY <1>3, <1>8 DEF Timer, OnConnectFailed, OnClose, Reconnect, Lost, Untouched
<1>9. ASSUME OnReadInvalid \/ OnRead PROVE FALSE
  BY <1>1, <1>9 DEF OnReadInvalid, OnRead, NextFrame
<1>10. QED
  BY <1>4, <1>5, <1>6, <1>7, <1>8, <1>9 DEF Work, Event

-------------------------------------------------------------------------------
(***************************************************************************)
(* Lemmas for a node, its queues and its session.                          *)
(***************************************************************************)

\* A frame at the head of a queue asks for its own topic only.
LEMMA AskedTail ==
  ASSUME NEW q \in Seq(Message), q # << >>, NEW k
  PROVE  AskedFor(k, q) <=>
           AskedFor(k, Tail(q)) \/ (HasBit(Head(q).flags, HMSG_FCMD_SUB) /\ k = SubKey(Head(q)))
<1> DEFINE p == Tail(q)
<1>1. /\ Len(q) \in Nat \ {0} /\ Len(p) = Len(q) - 1 /\ Head(q) = q[1]
      /\ \A i \in 1..Len(p) : p[i] = q[i + 1]
  OBVIOUS
<1>2. \A i \in 1..Len(q) : i = 1 \/ (i - 1 \in 1..Len(p) /\ q[i] = p[i - 1])
  BY <1>1
<1>3. 1 \in 1..Len(q) /\ \A i \in 1..Len(p) : i + 1 \in 1..Len(q)
  BY <1>1
<1> HIDE DEF p
<1>4. AskedFor(k, q) <=>
        AskedFor(k, p) \/ (HasBit(Head(q).flags, HMSG_FCMD_SUB) /\ k = SubKey(Head(q)))
  BY <1>1, <1>2, <1>3 DEF AskedFor
<1>5. QED
  BY <1>4 DEF p

\* A node that has not lost a connection, and the topics S of its session: before
\* the connection nothing has happened; on it, what the node knows is in the
\* session or asked for, and the other way round if no SUB is only queued.
InStep(S) ==
  IF conn = "open"
  THEN /\ \A k : Known(k) => k \in S \/ AskedFor(k, up)
       /\ 0 \notin Results => \A k : k \in S \/ AskedFor(k, up) => Known(k)
  ELSE S = {} /\ Untouched

\* A step of the node keeps it in step with its session.
LEMMA InStepWork ==
  ASSUME IInv, Work, ~Destroying, NEW S, InStep(S),
         conn' # "broken", conn = "open" => conn' = "open"
  PROVE  IF conn' = "open"
         THEN /\ \A k : Known(k)' => k \in S \/ AskedFor(k, up')
              /\ 0 \notin Results => \A k : k \in S \/ AskedFor(k, up') => Known(k)'
         ELSE S = {} /\ Untouched'
<1>1. CASE conn = "open"
  <2>1. \A k : Known(k)' => k \in S \/ AskedFor(k, up')
    BY <1>1, KnownIsAsked DEF InStep
  <2>2. 0 \notin Results => \A k : k \in S \/ AskedFor(k, up') => Known(k)'
    BY <1>1, AskedIsKnown DEF InStep
  <2>3. QED
    BY <1>1, <2>1, <2>2 DEF InStep
<1>2. CASE conn # "open"
  BY <1>2, UntouchedStep DEF InStep, Untouched
<1>3. QED
  BY <1>1, <1>2

\* The broker reads the head of the queue: a SUB moves its topic into the session.
LEMMA InStepRead ==
  ASSUME IInv, NEW S, NEW T, InStep(S), conn = "open", conn' = "open",
         UNCHANGED <<map_subpool, pc, call>>, up # << >>, up' = Tail(up),
         \A k : k \in T <=>
           k \in S \/ (HasBit(Head(up).flags, HMSG_FCMD_SUB) /\ k = SubKey(Head(up)))
  PROVE  IF conn' = "open"
         THEN /\ \A k : Known(k)' => k \in T \/ AskedFor(k, up')
              /\ 0 \notin Results => \A k : k \in T \/ AskedFor(k, up') => Known(k)'
         ELSE T = {} /\ Untouched'
<1>1. up \in Seq(Message)
  BY DEF IInv, TypeOK
<1>2. \A k : k \in T \/ AskedFor(k, up') <=> k \in S \/ AskedFor(k, up)
  BY <1>1, AskedTail
<1>3. \A k : Known(k)' <=> Known(k)
  BY DEF Known
<1>4. QED
  BY <1>2, <1>3 DEF InStep

\* Steps of others.
LEMMA InStepStays ==
  ASSUME NEW S, InStep(S), UNCHANGED <<map_subpool, pc, call, conn, up>>
  PROVE  IF conn' = "open"
         THEN /\ \A k : Known(k)' => k \in S \/ AskedFor(k, up')
              /\ 0 \notin Results => \A k : k \in S \/ AskedFor(k, up') => Known(k)'
         ELSE S = {} /\ Untouched'
BY DEF InStep, Known, Untouched

\* All frames in the hands of the node or under way from it are in G, those to
\* it, and those it has read and not yet dispatched, in H.
FramesIn(G, H) ==
  /\ up \in Seq(G)
  /\ down \in Seq(H)
  /\ pc[IO] \in Handling => io_msg \in G
  /\ pc[IO] \in {"read", "dispatch"} => io_msg \in H

\* What a working node makes of frames: those it had, what its calls write, and
\* the answer to the request it has in its hands.
LEMMA FramesWork ==
  ASSUME IInv, Work, NEW G, NEW H, NEW G1, NEW H1, FramesIn(G, H),
         H \subseteq G, G \subseteq G1, H \subseteq H1,
         \A m : Adds(m) /\ m.flags # ReplyFlags => m \in G1,
         \A m \in Message : pc[IO] = "iterate" /\ m = StatusMsg(io_msg.from) => m \in G1
  PROVE  /\ up' \in Seq(G1) /\ down' \in Seq(H1)
         /\ pc'[IO] \in Handling => io_msg' \in G1
         /\ pc'[IO] \in {"read", "dispatch"} => io_msg' \in H1
<1>0. up \in Seq(G1) /\ down \in Seq(H1)
  BY DEF FramesIn
<1>1. up' \in Seq(G1)
  <2>1. ASSUME NEW m, Adds(m) PROVE m \in G1
    <3>1. CASE m.flags = ReplyFlags
      BY <2>1, <3>1 DEF Adds, FramesIn, Handling
    <3>2. CASE m.flags # ReplyFlags
      BY <2>1, <3>2
    <3>3. QED
      BY <3>1, <3>2
  <2>2. ASSUME NEW m \in G1 PROVE Append(up, m) \in Seq(G1)
    BY <1>0
  <2>3. << >> \in Seq(G1)
    OBVIOUS
  <2>4. \A m : Adds(m) => up' \in Seq(G1)
    BY <2>1, <2>2 DEF Adds
  <2>5. QED
    BY <1>0, <2>3, <2>4, UpStep DEF IInv
<1>2. down' \in Seq(H1)
  <2>1. down # << >> => Tail(down) \in Seq(H1)
    BY <1>0
  <2>2. << >> \in Seq(H1)
    OBVIOUS
  <2>3. QED
    BY <1>0, <2>1, <2>2, DownStep
<1>3. ASSUME pc'[IO] \in Handling
      PROVE  io_msg' \in G1 /\ (pc'[IO] \in {"read", "dispatch"} => io_msg' \in H1)
  <2>1. down # << >> => Head(down) \in H
    BY DEF FramesIn
  <2>2. io_msg' \in Message
    BY <1>3, InvStep DEF Next, IInv, TypeOK, Handling
  <2>3. QED
    BY <1>3, <2>1, <2>2, IoMsgStep DEF IInv, FramesIn
<1>4. QED
  BY <1>1, <1>2, <1>3 DEF FramesIn, Handling

\* Others take a frame from the one queue, put one into the other, or leave both.
LEMMA FramesMove ==
  ASSUME NEW G, NEW H, NEW G1, NEW H1, FramesIn(G, H), G \subseteq G1, H \subseteq H1,
         UNCHANGED <<pc, io_msg>>,
         up' = up \/ (up # << >> /\ up' = Tail(up)),
         down' = down \/ \E m \in H1 : down' = Append(down, m)
  PROVE  /\ up' \in Seq(G1) /\ down' \in Seq(H1)
         /\ pc'[IO] \in Handling => io_msg' \in G1
         /\ pc'[IO] \in {"read", "dispatch"} => io_msg' \in H1
<1>1. up' \in Seq(G1)
  <2>1. up \in Seq(G1)
    BY DEF FramesIn
  <2>2. up # << >> => Tail(up) \in Seq(G1)
    BY <2>1
  <2>3. QED
    BY <2>1, <2>2
<1>2. down' \in Seq(H1)
  <2>1. down \in Seq(H1)
    BY DEF FramesIn
  <2>2. QED
    BY <2>1
<1>3. QED
  BY <1>1, <1>2 DEF FramesIn

\* What the broker reads from this node: it is not UNSUB, and a SUB is well
\* formed and addressed to the broker.
LEMMA HeadOfUp ==
  ASSUME IInv, up # << >>
  PROVE  /\ Head(up) \in Message
         /\ Head(up).from = Id
         /\ Head(up).flags # HMSG_FCMD_UNSUB
         /\ HasBit(Head(up).flags, HMSG_FCMD_SUB) =>
              /\ Head(up).magic = HMSG_MAGIC
              /\ Head(up).to = HMSG_APPID_BROKER
              /\ Head(up).payload_size = 0
<1> DEFINE m == Head(up)
<1>1. m \in Message /\ Written(m)
  <2>1. up \in Seq(Message)
    BY DEF IInv, TypeOK
  <2>2. 1 \in 1..Len(up) /\ m = up[1] /\ m \in Message
    BY <2>1
  <2>3. QED
    BY <2>2 DEF IInv, UpInv
<1> HIDE DEF m
<1>2. ASSUME NEW c \in Call, c.op \in Storing, m = CommandMsg(c)
      PROVE  /\ m.from = Id /\ m.flags # HMSG_FCMD_UNSUB /\ m.magic = HMSG_MAGIC
             /\ m.to = HMSG_APPID_BROKER /\ m.payload_size = 0
  BY <1>2, CallFrames, FlagDataType DEF Call, HMSG_FCMD_UNSUB
<1>3. ASSUME m.flags \in {0, 16, 17, 18}
      PROVE  m.flags # HMSG_FCMD_UNSUB /\ ~HasBit(m.flags, HMSG_FCMD_SUB)
  BY <1>3, NoSubBit DEF HMSG_FCMD_UNSUB
<1>4. ASSUME ~\E c \in Call : c.op \in Storing /\ m = CommandMsg(c)
      PROVE  m.flags \in {0, 16, 17, 18} /\ m.from = Id
  BY <1>1, <1>4, CallFrames, NodeFrames DEF Written
<1>5. QED
  BY <1>1, <1>2, <1>3, <1>4 DEF m

\* A new node has no frames, and is in step with a session without topics.
LEMMA SessionInit ==
  ASSUME Init, NEW G, NEW H
  PROVE  ~Destroying /\ FramesIn(G, H) /\ InStep({})
<1>0. IO \notin Threads
  BY NodeAssumption
<1>1. ~Destroying
  BY <1>0 DEF Init, Destroying, Actors
<1>2. FramesIn(G, H)
  <2>1. up = << >> /\ down = << >> /\ pc[IO] = "start"
    BY DEF Init, Actors
  <2>2. QED
    BY <2>1 DEF FramesIn, Handling
<1>3. \A k : ~Known(k)
  <2>1. DOMAIN map_subpool = {}
    BY DEF Init
  <2>2. \A u \in Actors : pc[u] \notin {"store", "save"}
    BY DEF Init
  <2>3. QED
    BY <2>1, <2>2 DEF Known
<1>4. InStep({})
  <2>1. conn = "none" /\ up = << >>
    BY DEF Init
  <2>2. pc[IO] = "start" /\ \A t \in Threads : pc[t] = "idle"
    BY <1>0 DEF Init, Actors
  <2>3. QED
    BY <1>3, <2>1, <2>2 DEF InStep, Untouched, Life, Inside
<1>5. QED
  BY <1>1, <1>2, <1>4

\* A frame with the key of replies on topic t is a reply on t, and the table has
\* hnode_on_respond or nothing for it.
LEMMA ReplyIsFor ==
  ASSUME IInv, NEW m \in Message, NEW t \in UInt16,
         HMSG_TOPICEX_INMSG(m) = DataKey("request", t)
  PROVE  /\ m.flags = ReplyFlags /\ m.topic = t
         /\ DataKey("request", t) \in DOMAIN map_subpool => EntryOf(DataKey("request", t)) = "respond"
<1> DEFINE k == DataKey("request", t)
<1>1. m.topic \in Nat /\ m.topic <= 65535 /\ t \in Nat /\ t <= 65535
  BY UInt16Bounds DEF Message
<1>2. m.version \in Nat /\ m.flags \in Nat /\ m.flags <= 255
  BY DEF Message, UInt8
<1>3. m.version * 16777216 + m.flags * 65536 + m.topic = 18 * 65536 + t
  BY <1>1, <1>2 DEF HMSG_TOPICEX_INMSG, HMSG_TOPICEX, DataKey, FlagData, HMSG_FLAGS, HMSG_FCMD_DATA,
    HMSG_FDATA_REPOND
<1>4. m.flags = 18 /\ m.topic = t
  <2> DEFINE v == m.version
             f == m.flags
             u == m.topic
             g == 18
  <2>1. g \in Nat /\ g <= 255
    OBVIOUS
  <2>2. /\ v \in Nat /\ f \in Nat /\ f <= 255 /\ u \in Nat /\ u <= 65535
        /\ v * 16777216 + f * 65536 + u = g * 65536 + t
    BY <1>1, <1>2, <1>3
  <2> HIDE DEF v, f, u, g
  <2>3. f = g /\ u = t
    BY <1>1, <2>1, <2>2, KeyFields
  <2>4. QED
    BY <2>3 DEF f, g, u
<1>5. ASSUME k \in DOMAIN map_subpool PROVE EntryOf(k) = "respond"
  <2>1. 18 \in FlagsFor(map_subpool[k])
    BY <1>4, <1>5, TableFits DEF DispatchFits, IInv
  <2>2. map_subpool[k] \in {"hnode_on_status", "hnode_on_respond", "app"}
    BY <1>5 DEF IInv, TypeOK
  <2>3. map_subpool[k] = "hnode_on_respond"
    BY <2>1, <2>2 DEF FlagsFor
  <2>4. QED
    BY <1>5, <2>3 DEF EntryOf
<1>6. QED
  BY <1>4, <1>5, NodeFrames
===============================================================================
