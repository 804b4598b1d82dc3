------------------------------- MODULE BusProofs -------------------------------
(***************************************************************************)
(* Proofs about Bus: two nodes with any calls of their own, a broker that  *)
(* keeps the promises of PubSub, connections that are lost at any time and *)
(* writes that fail.                                                       *)
(***************************************************************************)
EXTENDS Bus, TLAPS

\* The frames on the bus when the keys in d are in the table of a: every frame
\* comes from one of the nodes, a reply goes to one of them, and a status request
\* of a, or the reply to it, only exists when a can handle the reply.
Frames(d) ==
  {m \in Message :
     /\ m.from \in {IdA, IdB}
     /\ m.flags = A!ReplyFlags => m.to \in {IdA, IdB}
     /\ \/ m.flags = A!RequestFlags /\ m.from = IdA
        \/ m.flags = A!ReplyFlags /\ m.to = IdA
        => (m.topic = HMSG_MSGID_STATUS => ReplyKey \in d)}

\* Those that are delivered to the node id: no reply to another one.
FramesTo(id, d) == {m \in Frames(d) : m.flags = A!ReplyFlags => m.to = id}

\* All frames under way and in the hands of the IO threads are such frames.
FramesInv ==
  LET d == DOMAIN a_map_subpool
  IN  /\ A!FramesIn(Frames(d), FramesTo(IdA, d))
      /\ B!FramesIn(Frames(d), FramesTo(IdB, d))

\* A node of which the broker has a session is connected, and the other way
\* round; a session is not registered or has the id of its node.
BrokerInv ==
  /\ live \subseteq {a, b}
  /\ node_id \in [{a, b} -> UInt16]
  /\ topics \in [{a, b} -> SUBSET DataTopics]
  /\ delivered \subseteq live
  /\ a \in live <=> a_conn = "open"
  /\ b \in live <=> b_conn = "open"
  /\ node_id[a] \in {0, IdA}
  /\ node_id[b] \in {0, IdB}

\* Until the first loss a node's table and calls are in step with its session.
SessionInv ==
  /\ a \in first => A!InStep(topics[a])
  /\ b \in first => B!InStep(topics[b])

\* Each node by itself is in order, and is not destroyed.
NodesInv == A!IInv /\ B!IInv /\ ~A!Destroying /\ ~B!Destroying

BusInv == NodesInv /\ BrokerInv /\ FramesInv /\ SessionInv

-------------------------------------------------------------------------------
(***************************************************************************)
(* The header definitions of the nodes and the broker are the same.        *)
(***************************************************************************)
LEMMA SameTypes ==
  /\ A!UInt16 = UInt16 /\ B!UInt16 = UInt16
  /\ A!Message = Message /\ B!Message = Message
BY DEF A!UInt16, B!UInt16, UInt16, A!UInt8, B!UInt8, UInt8, A!Message, B!Message, Message

\* The assumption of Node holds for both nodes.
LEMMA AssumptionA ==
  /\ IdA \in A!UInt16
  /\ IO \notin {ThreadA}
  /\ None \notin {ThreadA} \cup {IO}
  /\ CallsA \subseteq A!Call
  /\ {} \subseteq A!Call
  /\ {} \subseteq A!Message
  /\ Results \subseteq {-1, 0, 1}
  /\ MAX_QUEUE \in Nat \ {0}
BY BusAssumption, SameTypes

\* The same for node b.
LEMMA AssumptionB ==
  /\ IdB \in B!UInt16
  /\ IO \notin {ThreadB}
  /\ None \notin {ThreadB} \cup {IO}
  /\ CallsB \subseteq B!Call
  /\ {} \subseteq B!Call
  /\ {} \subseteq B!Message
  /\ Results \subseteq {-1, 0, 1}
  /\ MAX_QUEUE \in Nat \ {0}
BY BusAssumption, SameTypes

\* The numbers of flags and topics.
LEMMA SameFlags ==
  /\ A!ReplyFlags = 18 /\ B!ReplyFlags = 18
  /\ A!RequestFlags = 17 /\ B!RequestFlags = 17
BY AssumptionA, AssumptionB, A!NodeFrames, B!NodeFrames

\* The broker files a SUB under the key that the node means.
LEMMA SameKeys ==
  ASSUME NEW m
  PROVE  /\ Broker!DataTopic(m) = A!SubKey(m) /\ Broker!DataTopic(m) = B!SubKey(m)
         /\ HasBit(m.flags, HMSG_FCMD_SUB) <=> A!HasBit(m.flags, A!HMSG_FCMD_SUB)
         /\ HasBit(m.flags, HMSG_FCMD_SUB) <=> B!HasBit(m.flags, B!HMSG_FCMD_SUB)
         /\ HasBit(m.flags, HMSG_FCMD_SUB) <=> Broker!HasBit(m.flags, Broker!HMSG_FCMD_SUB)
BY DEF HasBit, HMSG_FCMD_SUB,
  A!SubKey, A!HMSG_TOPICEX, A!HMSG_FLAGS, A!HMSG_FLAGS_DATA, A!HMSG_FCMD_DATA, A!HasBit,
  A!HMSG_FCMD_SUB,
  B!SubKey, B!HMSG_TOPICEX, B!HMSG_FLAGS, B!HMSG_FLAGS_DATA, B!HMSG_FCMD_DATA, B!HasBit,
  B!HMSG_FCMD_SUB,
  Broker!DataTopic, Broker!HMSG_TOPICEX, Broker!HMSG_FLAGS, Broker!HMSG_FLAGS_DATA,
  Broker!HMSG_FCMD_DATA, Broker!HasBit, Broker!HMSG_FCMD_SUB

-------------------------------------------------------------------------------
(***************************************************************************)
(* The nodes.                                                              *)
(***************************************************************************)

\* What happens elsewhere, at the broker or on the connection, leaves a node in
\* order.
LEMMA EnvOfA ==
  ASSUME A!IInv, ~A!Destroying,
         UNCHANGED <<a_heap, a_loop, a_status, a_map_subpool, a_mtx, a_pc, a_call, a_ret, a_io_msg>>,
         a_conn' = a_conn \/ (a_conn = "open" /\ a_conn' = "broken"),
         a_up' = a_up \/ (a_up # << >> /\ a_up' = Tail(a_up)),
         a_down' = a_down \/ \E m \in Message : a_down' = Append(a_down, m)
  PROVE  A!IInv' /\ ~A!Destroying'
<1>1. a_down \in Seq(A!Message)
  BY DEF A!IInv, A!TypeOK
<1>2. a_down' \in Seq(A!Message)
  BY <1>1, SameTypes
<1>3. A!IInv'
  BY <1>2, AssumptionA, A!EnvStep
<1>4. ~A!Destroying'
  BY DEF A!Destroying
<1>5. QED
  BY <1>3, <1>4

\* The same for node b.
LEMMA EnvOfB ==
  ASSUME B!IInv, ~B!Destroying,
         UNCHANGED <<b_heap, b_loop, b_status, b_map_subpool, b_mtx, b_pc, b_call, b_ret, b_io_msg>>,
         b_conn' = b_conn \/ (b_conn = "open" /\ b_conn' = "broken"),
         b_up' = b_up \/ (b_up # << >> /\ b_up' = Tail(b_up)),
         b_down' = b_down \/ \E m \in Message : b_down' = Append(b_down, m)
  PROVE  B!IInv' /\ ~B!Destroying'
<1>1. b_down \in Seq(B!Message)
  BY DEF B!IInv, B!TypeOK
<1>2. b_down' \in Seq(B!Message)
  BY <1>1, SameTypes
<1>3. B!IInv'
  BY <1>2, AssumptionB, B!EnvStep
<1>4. ~B!Destroying'
  BY DEF B!Destroying
<1>5. QED
  BY <1>3, <1>4

\* A step of one node keeps both in order.
LEMMA NodesWork ==
  ASSUME NodesInv, OfA(A!Work) \/ OfB(B!Work)
  PROVE  /\ NodesInv'
         /\ DOMAIN a_map_subpool \subseteq DOMAIN a_map_subpool'
<1>1. CASE OfA(A!Work)
  <2>1. A!IInv'
    BY <1>1, AssumptionA, A!InvStep DEF NodesInv, OfA, A!Next
  <2>2. ~A!Destroying' /\ DOMAIN a_map_subpool \subseteq DOMAIN a_map_subpool'
    BY <1>1, AssumptionA, A!WorkGrows DEF NodesInv, OfA
  <2>3. B!IInv' /\ ~B!Destroying'
    BY <1>1, EnvOfB DEF NodesInv, OfA, b_rest
  <2>4. QED
    BY <2>1, <2>2, <2>3 DEF NodesInv
<1>2. CASE OfB(B!Work)
  <2>1. B!IInv'
    BY <1>2, AssumptionB, B!InvStep DEF NodesInv, OfB, B!Next
  <2>2. ~B!Destroying'
    BY <1>2, AssumptionB, B!WorkGrows DEF NodesInv, OfB
  <2>3. A!IInv' /\ ~A!Destroying' /\ DOMAIN a_map_subpool \subseteq DOMAIN a_map_subpool'
    BY <1>2, EnvOfA DEF NodesInv, OfB, a_rest
  <2>4. QED
    BY <2>1, <2>2, <2>3 DEF NodesInv
<1>3. QED
  BY <1>1, <1>2

-------------------------------------------------------------------------------
(***************************************************************************)
(* The frames.                                                             *)
(***************************************************************************)

\* The longer the table of a, the more frames are possible.
LEMMA FramesGrow ==
  ASSUME NEW d, NEW e, d \subseteq e, NEW id
  PROVE  Frames(d) \subseteq Frames(e) /\ FramesTo(id, d) \subseteq FramesTo(id, e)
         /\ FramesTo(id, d) \subseteq Frames(d) /\ Frames(d) \subseteq Message
BY DEF Frames, FramesTo

\* A reply of hnode_on_status goes to the node that asked.
LEMMA AnswerIsFrame ==
  ASSUME NEW d, NEW m \in Frames(d), m.flags = A!RequestFlags, NEW id \in {IdA, IdB},
         NEW r \in Message, r.flags = A!ReplyFlags, r.topic = m.topic, r.from = id, r.to = m.from
  PROVE  r \in Frames(d)
BY SameFlags DEF Frames

\* A step of a node keeps all frames what they are.
LEMMA FramesWork ==
  ASSUME NodesInv, FramesInv, OfA(A!Work) \/ OfB(B!Work)
  PROVE  FramesInv'
<1> DEFINE d == DOMAIN a_map_subpool
           e == DOMAIN a_map_subpool'
<1>1. d \subseteq e
  BY NodesWork
<1>2. /\ Frames(d) \subseteq Frames(e)
      /\ FramesTo(IdA, d) \subseteq Frames(d) /\ FramesTo(IdA, d) \subseteq FramesTo(IdA, e)
      /\ FramesTo(IdB, d) \subseteq Frames(d) /\ FramesTo(IdB, d) \subseteq FramesTo(IdB, e)
  BY <1>1, FramesGrow
<1>3. A!FramesIn(Frames(d), FramesTo(IdA, d)) /\ B!FramesIn(Frames(d), FramesTo(IdB, d))
  BY DEF FramesInv
<1>4. CASE OfA(A!Work)
  <2>1. ASSUME NEW m, A!Adds(m), m.flags # A!ReplyFlags PROVE m \in Frames(e)
    <3>1. m \in Message /\ m.from = IdA
      BY <2>1, SameTypes DEF A!Adds
    <3>2. ASSUME m.flags = A!RequestFlags, m.topic = HMSG_MSGID_STATUS PROVE ReplyKey \in d
      <4>1. PICK c \in A!Call : c.op = "request" /\ c.topic = m.topic /\ A!TopicEx(c) \in d
        BY <2>1, <3>2 DEF A!Adds
      <4>2. A!TopicEx(c) = ReplyKey
        BY <3>2, <4>1 DEF A!TopicEx, ReplyKey
      <4>3. QED
        BY <4>1, <4>2
    <3>3. QED
      BY <1>1, <2>1, <3>1, <3>2 DEF Frames
  <2>2. ASSUME NEW m \in A!Message, a_pc[IO] = "iterate", m = A!StatusMsg(a_io_msg.from)
        PROVE  m \in Frames(e)
    <3>1. a_io_msg \in Frames(d) /\ a_io_msg.flags = A!RequestFlags
      BY <2>2 DEF FramesInv, A!FramesIn, A!Handling, NodesInv, A!IInv, A!IoInv
    <3>2. /\ m.flags = A!ReplyFlags /\ m.topic = a_io_msg.topic /\ m.from = IdA
          /\ m.to = a_io_msg.from
      BY <2>2 DEF A!StatusMsg, A!hmsg_t, A!ReplyFlags
    <3>3. QED
      BY <1>1, <2>2, <3>1, <3>2, AnswerIsFrame, FramesGrow, SameTypes
  <2>3. /\ a_up' \in Seq(Frames(e)) /\ a_down' \in Seq(FramesTo(IdA, e))
        /\ a_pc'[IO] \in A!Handling => a_io_msg' \in Frames(e)
        /\ a_pc'[IO] \in {"read", "dispatch"} => a_io_msg' \in FramesTo(IdA, e)
    BY <1>2, <1>3, <1>4, <2>1, <2>2, AssumptionA, A!FramesWork DEF NodesInv, OfA
  <2>4. /\ b_up' \in Seq(Frames(e)) /\ b_down' \in Seq(FramesTo(IdB, e))
        /\ b_pc'[IO] \in B!Handling => b_io_msg' \in Frames(e)
        /\ b_pc'[IO] \in {"read", "dispatch"} => b_io_msg' \in FramesTo(IdB, e)
    BY <1>2, <1>3, <1>4, AssumptionB, B!FramesMove DEF OfA, b_rest
  <2>5. QED
    BY <2>3, <2>4 DEF FramesInv, A!FramesIn, B!FramesIn
<1>5. CASE OfB(B!Work)
  <2>1. ASSUME NEW m, B!Adds(m), m.flags # B!ReplyFlags PROVE m \in Frames(e)
    BY <2>1, SameTypes, SameFlags, BusAssumption DEF B!Adds, Frames
  <2>2. ASSUME NEW m \in B!Message, b_pc[IO] = "iterate", m = B!StatusMsg(b_io_msg.from)
        PROVE  m \in Frames(e)
    <3>1. b_io_msg \in Frames(d) /\ b_io_msg.flags = B!RequestFlags
      BY <2>2 DEF FramesInv, B!FramesIn, B!Handling, NodesInv, B!IInv, B!IoInv
    <3>2. /\ m.flags = B!ReplyFlags /\ m.topic = b_io_msg.topic /\ m.from = IdB
          /\ m.to = b_io_msg.from
      BY <2>2 DEF B!StatusMsg, B!hmsg_t, B!ReplyFlags
    <3>3. QED
      BY <1>1, <2>2, <3>1, <3>2, AnswerIsFrame, FramesGrow, SameTypes, SameFlags
  <2>3. /\ b_up' \in Seq(Frames(e)) /\ b_down' \in Seq(FramesTo(IdB, e))
        /\ b_pc'[IO] \in B!Handling => b_io_msg' \in Frames(e)
        /\ b_pc'[IO] \in {"read", "dispatch"} => b_io_msg' \in FramesTo(IdB, e)
    BY <1>2, <1>3, <1>5, <2>1, <2>2, AssumptionB, B!FramesWork DEF NodesInv, OfB
  <2>4. /\ a_up' \in Seq(Frames(e)) /\ a_down' \in Seq(FramesTo(IdA, e))
        /\ a_pc'[IO] \in A!Handling => a_io_msg' \in Frames(e)
        /\ a_pc'[IO] \in {"read", "dispatch"} => a_io_msg' \in FramesTo(IdA, e)
    BY <1>2, <1>3, <1>5, AssumptionA, A!FramesMove DEF OfB, a_rest
  <2>5. QED
    BY <2>3, <2>4 DEF FramesInv, A!FramesIn, B!FramesIn
<1>6. QED
  BY <1>4, <1>5

-------------------------------------------------------------------------------
(***************************************************************************)
(* The broker.                                                             *)
(***************************************************************************)

\* A well-formed SUB: HeadOfUp shows that a node writes no other.
GoodSub(m) ==
  /\ m.magic = HMSG_MAGIC
  /\ m.to = HMSG_APPID_BROKER
  /\ m.payload_size = 0

\* A topic of a subscription is a key of data frames: the command nibble of the
\* flags is replaced, whatever it was.
LEMMA TopicIsData == ASSUME NEW m \in Message PROVE Broker!DataTopic(m) \in DataTopics
<1> DEFINE t == m.topic
           d == m.flags % 16
<1>1. t \in Nat /\ t <= 65535
  <2>1. t \in A!UInt16
    BY SameTypes DEF Message
  <2>2. QED
    BY <2>1, AssumptionA, A!UInt16Bounds
<1>2. d \in Nat /\ d <= 15
  <2>1. m.flags \in Nat
    BY DEF Message, UInt8
  <2>2. QED
    BY <2>1
<1>3. Broker!DataTopic(m) = (16 + d) * 65536 + t
  BY <1>1, <1>2 DEF Broker!DataTopic, Broker!HMSG_TOPICEX, Broker!HMSG_FLAGS,
    Broker!HMSG_FLAGS_DATA, Broker!HMSG_FCMD_DATA
<1>4. FirstDataTopic = 1048576 /\ LastDataTopic = 2097151
  BY DEF FirstDataTopic, LastDataTopic, HMSG_TOPICEX, HMSG_FLAGS, HMSG_FCMD_DATA
<1> HIDE DEF t, d
<1>5. /\ (16 + d) * 65536 + t \in Nat
      /\ 1048576 <= (16 + d) * 65536 + t
      /\ (16 + d) * 65536 + t <= 2097151
  BY <1>1, <1>2
<1>6. /\ Broker!DataTopic(m) \in Int /\ FirstDataTopic \in Int /\ LastDataTopic \in Int
      /\ FirstDataTopic <= Broker!DataTopic(m) /\ Broker!DataTopic(m) <= LastDataTopic
  BY <1>3, <1>4, <1>5
<1>7. QED
  BY <1>6, SMT DEF DataTopics

\* What the broker does with a frame of a connected node: a SUB, and nothing else,
\* adds its topic to the session of that node, a session only takes the id of its
\* own node, and a reply goes to the node it is addressed to.
LEMMA HandleStep ==
  ASSUME BrokerInv, NEW n \in {a, b}, n \in live, NEW d, NEW m \in Frames(d), Handle(n, m),
         m.from = IF n = a THEN IdA ELSE IdB,
         m.flags # HMSG_FCMD_UNSUB,
         HasBit(m.flags, HMSG_FCMD_SUB) => GoodSub(m)
  PROVE  /\ live' = live /\ delivered' \subseteq live
         /\ node_id' \in [{a, b} -> UInt16]
         /\ node_id'[a] \in {0, IdA} /\ node_id'[b] \in {0, IdB}
         /\ topics' \in [{a, b} -> SUBSET DataTopics]
         /\ \A c \in {a, b} : c # n => topics'[c] = topics[c]
         /\ \A k : k \in topics'[n] <=>
              k \in topics[n] \/ (HasBit(m.flags, HMSG_FCMD_SUB) /\ k = Broker!DataTopic(m))
         /\ a \in delivered' => m \in FramesTo(IdA, d)
         /\ b \in delivered' => m \in FramesTo(IdB, d)
<1> DEFINE Sub == HasBit(m.flags, HMSG_FCMD_SUB)
<1>0. /\ m \in Message /\ a # b /\ IdA \in UInt16 /\ IdB \in UInt16
      /\ (Sub <=> Broker!HasBit(m.flags, Broker!HMSG_FCMD_SUB))
      /\ Broker!DataTopic(m) \in DataTopics
  BY BusAssumption, SameKeys, TopicIsData DEF Frames
<1>1. CASE Broker!Register(n, m)
  <2>1. ~Sub
    BY <1>0, <1>1 DEF Broker!Register, Broker!HMSG_FCMD_REGISTER, HasBit, HMSG_FCMD_SUB
  <2>2. /\ live' = live /\ delivered' = {} /\ topics' = topics
        /\ node_id' = [node_id EXCEPT ![n] = m.from]
    BY <1>1 DEF Broker!Register, Broker!Command, Broker!Consume
  <2>3. QED
    BY <1>0, <2>1, <2>2 DEF BrokerInv
<1>2. CASE Broker!Subscribe(n, m)
  <2>1. Sub
    BY <1>0, <1>2 DEF Broker!Subscribe
  <2>2. /\ live' = live /\ delivered' = {} /\ node_id' = node_id
        /\ topics' = [topics EXCEPT ![n] = @ \cup {Broker!DataTopic(m)}]
    BY <1>2 DEF Broker!Subscribe, Broker!Command, Broker!Consume
  <2>3. QED
    BY <1>0, <2>1, <2>2 DEF BrokerInv
<1>3. ASSUME Broker!Unsubscribe(n, m) PROVE FALSE
  BY <1>3 DEF Broker!Unsubscribe, Broker!HMSG_FCMD_UNSUB, HMSG_FCMD_UNSUB
<1>4. CASE Broker!Publish(n, m)
  <2>1. ~Sub
    BY <1>4 DEF Broker!Publish, GoodSub, Broker!HMSG_APPID_BROKER, HMSG_APPID_BROKER
  <2>2. /\ live' = live /\ node_id' = node_id /\ topics' = topics
        /\ delivered' \subseteq live
        /\ \A c \in delivered' : m.to \in {node_id[c], HMSG_APPID_EVERYONR}
    BY <1>4 DEF Broker!Publish, Broker!HMSG_APPID_EVERYONR, HMSG_APPID_EVERYONR
  <2>3. /\ a \in delivered' /\ m.flags = A!ReplyFlags => m.to = IdA
        /\ b \in delivered' /\ m.flags = A!ReplyFlags => m.to = IdB
    BY <2>2, BusAssumption DEF BrokerInv, Frames
  <2>4. QED
    BY <2>1, <2>2, <2>3 DEF BrokerInv, FramesTo
<1>5. CASE Broker!Ignore(n, m)
  <2>1. /\ live' = live /\ delivered' = {} /\ node_id' = node_id /\ topics' = topics
    BY <1>5 DEF Broker!Ignore, Broker!Consume
  <2>2. ASSUME Sub PROVE FALSE
    <3>1. m # None
      BY <1>0, BusAssumption
    <3>2. Broker!FrameLength(m) = 32
      BY <2>2 DEF GoodSub, Broker!FrameLength, Broker!HMSG_HEAD_SIZE
    <3>3. Broker!Valid(m)
      BY <2>2, <3>2 DEF GoodSub, Broker!Valid, Broker!HMSG_HEAD_VALID, Broker!TooLong, HMSG_MAGIC,
        Broker!HMSG_MAGIC, Broker!HMSG_HEAD_SIZE, Broker!HMSG_PATLOAD_SIZE_MAX,
        Broker!PACKAGE_MAX_LENGTH, Broker!FrameLength
    <3>4. QED
      BY <1>0, <1>5, <2>2, <3>1, <3>3 DEF Broker!Ignore, Broker!MayDrop, Broker!Unknown
  <2>3. QED
    BY <2>1, <2>2 DEF BrokerInv
<1>6. QED
  BY <1>1, <1>2, <1>3, <1>4, <1>5 DEF Handle

\* The broker follows the connection of n: the session comes and goes with it,
\* and a node that has not lost a connection keeps its topics.
LEMMA FollowStep ==
  ASSUME BrokerInv, NEW n \in {a, b}, NEW was, NEW now, n \in live <=> was = "open",
         Follow(n, was, now)
  PROVE  /\ live' \subseteq {a, b} /\ delivered' = {}
         /\ node_id' \in [{a, b} -> UInt16]
         /\ node_id'[a] \in {0, IdA} /\ node_id'[b] \in {0, IdB}
         /\ topics' \in [{a, b} -> SUBSET DataTopics]
         /\ n \in live' <=> now = "open"
         /\ n \in first' => /\ n \in first /\ topics'[n] = topics[n]
                            /\ now # "broken" /\ (was = "open" => now = "open")
         /\ \A c \in {a, b} : c # n =>
              topics'[c] = topics[c] /\ (c \in live' <=> c \in live) /\ (c \in first' => c \in first)
<1>0. 0 \in UInt16
  <2>1. 0 \in A!UInt16
    BY AssumptionA, A!IsUInt16
  <2>2. QED
    BY <2>1, SameTypes
<1>1. first' = IF now = "broken" \/ (was = "open" /\ now # "open") THEN first \ {n} ELSE first
  BY DEF Follow
<1>2. CASE was # "open" /\ now = "open" /\ Broker!Join(n)
  BY <1>1, <1>2 DEF Broker!Join, Broker!Consume, BrokerInv
<1>3. CASE was = "open" /\ now # "open" /\ Broker!Leave(n, None)
  <2>1. /\ live' = live \ {n} /\ delivered' = {}
        /\ node_id' = [node_id EXCEPT ![n] = 0]
        /\ topics' = [topics EXCEPT ![n] = {}]
    BY <1>3 DEF Broker!Leave, Broker!Consume
  <2>2. QED
    BY <1>0, <1>1, <1>3, <2>1 DEF BrokerInv
<1>4. CASE (was = "open") = (now = "open") /\ BrokerIdle
  BY <1>1, <1>4 DEF BrokerIdle, BrokerInv
<1>5. QED
  BY <1>2, <1>3, <1>4 DEF Follow

-------------------------------------------------------------------------------
(***************************************************************************)
(* Every step keeps the invariant.                                         *)
(***************************************************************************)

\* A step of node a.
LEMMA StepOfA == ASSUME BusInv, OfA(A!Work) PROVE BusInv'
<1> USE DEF BusInv
<1>1. NodesInv' /\ FramesInv'
  BY NodesWork, FramesWork
<1>2. /\ A!Work /\ Follow(a, a_conn, a_conn')
      /\ UNCHANGED <<b_rest, b_up, b_down>> /\ a # b
  BY BusAssumption DEF OfA
<1>3. a \in live <=> a_conn = "open"
  BY DEF BrokerInv
<1>4. BrokerInv'
  BY <1>2, <1>3, FollowStep DEF BrokerInv, b_rest
<1>5. ASSUME a \in first' PROVE A!InStep(topics[a])'
  <2>1. /\ a \in first /\ topics'[a] = topics[a]
        /\ a_conn' # "broken" /\ (a_conn = "open" => a_conn' = "open")
    BY <1>2, <1>3, <1>5, FollowStep
  <2>2. A!InStep(topics[a]) /\ A!IInv /\ ~A!Destroying
    BY <2>1 DEF SessionInv, NodesInv
  <2>3. QED
    BY <1>2, <2>1, <2>2, AssumptionA, A!InStepWork DEF A!InStep
<1>6. ASSUME b \in first' PROVE B!InStep(topics[b])'
  <2>1. b \in first /\ topics'[b] = topics[b]
    BY <1>2, <1>3, <1>6, FollowStep
  <2>2. B!InStep(topics[b])
    BY <2>1 DEF SessionInv
  <2>3. QED
    BY <1>2, <2>1, <2>2, AssumptionB, B!InStepStays DEF B!InStep, b_rest
<1>7. QED
  BY <1>1, <1>4, <1>5, <1>6 DEF SessionInv

\* A step of node b.
LEMMA StepOfB == ASSUME BusInv, OfB(B!Work) PROVE BusInv'
<1> USE DEF BusInv
<1>1. NodesInv' /\ FramesInv'
  BY NodesWork, FramesWork
<1>2. /\ B!Work /\ Follow(b, b_conn, b_conn')
      /\ UNCHANGED <<a_rest, a_up, a_down>> /\ a # b
  BY BusAssumption DEF OfB
<1>3. b \in live <=> b_conn = "open"
  BY DEF BrokerInv
<1>4. BrokerInv'
  BY <1>2, <1>3, FollowStep DEF BrokerInv, a_rest
<1>5. ASSUME b \in first' PROVE B!InStep(topics[b])'
  <2>1. /\ b \in first /\ topics'[b] = topics[b]
        /\ b_conn' # "broken" /\ (b_conn = "open" => b_conn' = "open")
    BY <1>2, <1>3, <1>5, FollowStep
  <2>2. B!InStep(topics[b]) /\ B!IInv /\ ~B!Destroying
    BY <2>1 DEF SessionInv, NodesInv
  <2>3. QED
    BY <1>2, <2>1, <2>2, AssumptionB, B!InStepWork DEF B!InStep
<1>6. ASSUME a \in first' PROVE A!InStep(topics[a])'
  <2>1. a \in first /\ topics'[a] = topics[a]
    BY <1>2, <1>3, <1>6, FollowStep
  <2>2. A!InStep(topics[a])
    BY <2>1 DEF SessionInv
  <2>3. QED
    BY <1>2, <2>1, <2>2, AssumptionA, A!InStepStays DEF A!InStep, a_rest
<1>7. QED
  BY <1>1, <1>4, <1>5, <1>6 DEF SessionInv

\* The connection of node a is cut.
LEMMA CutOfA == ASSUME BusInv, CutA PROVE BusInv'
<1> USE DEF BusInv
<1>1. /\ Follow(a, a_conn, a_conn') /\ a_conn = "open" /\ a_conn' = "broken" /\ a # b
      /\ UNCHANGED <<a_heap, a_loop, a_status, a_map_subpool, a_mtx, a_pc, a_call, a_ret,
                     a_io_msg, b_rest, queues>>
  BY BusAssumption DEF CutA
<1>2. NodesInv'
  BY <1>1, EnvOfA, EnvOfB DEF NodesInv, queues, b_rest
<1>3. FramesInv'
  BY <1>1 DEF FramesInv, A!FramesIn, B!FramesIn, queues, b_rest
<1>4. a \in live <=> a_conn = "open"
  BY DEF BrokerInv
<1>5. BrokerInv'
  BY <1>1, <1>4, FollowStep DEF BrokerInv, b_rest
<1>6. a \notin first'
  BY <1>1, <1>4, FollowStep
<1>7. ASSUME b \in first' PROVE B!InStep(topics[b])'
  <2>1. b \in first /\ topics'[b] = topics[b]
    BY <1>1, <1>4, <1>7, FollowStep
  <2>2. B!InStep(topics[b])
    BY <2>1 DEF SessionInv
  <2>3. QED
    BY <1>1, <2>1, <2>2, AssumptionB, B!InStepStays DEF B!InStep, b_rest, queues
<1>8. QED
  BY <1>2, <1>3, <1>5, <1>6, <1>7 DEF SessionInv

\* The broker reads a frame of node a and delivers it.
LEMMA ReadOfA == ASSUME BusInv, ReadA PROVE BusInv'
<1> DEFINE m == Head(a_up)
           d == DOMAIN a_map_subpool
<1> USE DEF BusInv
<1>1. /\ a_conn = "open" /\ a_up # << >> /\ a_up' = Tail(a_up) /\ b_up' = b_up
      /\ Handle(a, m) /\ UNCHANGED <<a_rest, b_rest, first>> /\ a # b
  BY BusAssumption DEF ReadA, Handle
<1>2. /\ m.from = IdA /\ m.flags # HMSG_FCMD_UNSUB
      /\ HasBit(m.flags, HMSG_FCMD_SUB) => GoodSub(m)
  BY <1>1, AssumptionA, SameKeys, A!HeadOfUp DEF NodesInv, GoodSub, HMSG_FCMD_UNSUB, HMSG_MAGIC,
    HMSG_APPID_BROKER, A!HMSG_FCMD_UNSUB, A!HMSG_MAGIC, A!HMSG_APPID_BROKER
<1>3. m \in Frames(d)
  BY <1>1 DEF FramesInv, A!FramesIn
<1> HIDE DEF m
<1>4. a \in live
  BY <1>1 DEF BrokerInv
<1>5. /\ live' = live /\ delivered' \subseteq live
      /\ node_id' \in [{a, b} -> UInt16]
      /\ node_id'[a] \in {0, IdA} /\ node_id'[b] \in {0, IdB}
      /\ topics' \in [{a, b} -> SUBSET DataTopics]
      /\ topics'[b] = topics[b]
      /\ \A k : k \in topics'[a] <=>
           k \in topics[a] \/ (HasBit(m.flags, HMSG_FCMD_SUB) /\ k = Broker!DataTopic(m))
      /\ a \in delivered' => m \in FramesTo(IdA, d)
      /\ b \in delivered' => m \in FramesTo(IdB, d)
  BY <1>1, <1>2, <1>3, <1>4, HandleStep
<1>6. /\ a_down' = a_down \/ (m \in FramesTo(IdA, d) /\ a_down' = Append(a_down, m))
      /\ b_down' = b_down \/ (m \in FramesTo(IdB, d) /\ b_down' = Append(b_down, m))
  BY <1>1, <1>5 DEF Handle
<1>7. m \in Message
  BY <1>3 DEF Frames
<1>8. NodesInv'
  BY <1>1, <1>6, <1>7, EnvOfA, EnvOfB DEF NodesInv, a_rest, b_rest
<1>9. FramesInv'
  <2>1. DOMAIN a_map_subpool' = d
    BY <1>1 DEF a_rest
  <2>2. A!FramesIn(Frames(d), FramesTo(IdA, d)) /\ B!FramesIn(Frames(d), FramesTo(IdB, d))
    BY DEF FramesInv
  <2>3. /\ a_up' \in Seq(Frames(d)) /\ a_down' \in Seq(FramesTo(IdA, d))
        /\ a_pc'[IO] \in A!Handling => a_io_msg' \in Frames(d)
        /\ a_pc'[IO] \in {"read", "dispatch"} => a_io_msg' \in FramesTo(IdA, d)
    BY <1>1, <1>6, <2>2, AssumptionA, A!FramesMove DEF a_rest
  <2>4. /\ b_up' \in Seq(Frames(d)) /\ b_down' \in Seq(FramesTo(IdB, d))
        /\ b_pc'[IO] \in B!Handling => b_io_msg' \in Frames(d)
        /\ b_pc'[IO] \in {"read", "dispatch"} => b_io_msg' \in FramesTo(IdB, d)
    BY <1>1, <1>6, <2>2, AssumptionB, B!FramesMove DEF b_rest
  <2>5. QED
    BY <2>1, <2>3, <2>4 DEF FramesInv, A!FramesIn, B!FramesIn
<1>10. BrokerInv'
  BY <1>1, <1>5 DEF BrokerInv, a_rest, b_rest
<1>11. ASSUME a \in first' PROVE A!InStep(topics[a])'
  <2>1. A!InStep(topics[a]) /\ A!IInv
    BY <1>1, <1>11 DEF SessionInv, NodesInv
  <2>2. \A k : k \in topics'[a] <=>
          \/ k \in topics[a]
          \/ A!HasBit(Head(a_up).flags, A!HMSG_FCMD_SUB) /\ k = A!SubKey(Head(a_up))
    BY <1>5, SameKeys DEF m
  <2>3. QED
    BY <1>1, <2>1, <2>2, AssumptionA, A!InStepRead DEF A!InStep, a_rest
<1>12. ASSUME b \in first' PROVE B!InStep(topics[b])'
  <2>1. B!InStep(topics[b])
    BY <1>1, <1>12 DEF SessionInv
  <2>2. QED
    BY <1>1, <1>5, <2>1, AssumptionB, B!InStepStays DEF B!InStep, b_rest
<1>13. QED
  BY <1>8, <1>9, <1>10, <1>11, <1>12 DEF SessionInv

\* The connection of node b is cut.
LEMMA CutOfB == ASSUME BusInv, CutB PROVE BusInv'
<1> USE DEF BusInv
<1>1. /\ Follow(b, b_conn, b_conn') /\ b_conn = "open" /\ b_conn' = "broken" /\ a # b
      /\ UNCHANGED <<b_heap, b_loop, b_status, b_map_subpool, b_mtx, b_pc, b_call, b_ret,
                     b_io_msg, a_rest, queues>>
  BY BusAssumption DEF CutB
<1>2. NodesInv'
  BY <1>1, EnvOfA, EnvOfB DEF NodesInv, queues, a_rest
<1>3. FramesInv'
  BY <1>1 DEF FramesInv, A!FramesIn, B!FramesIn, queues, a_rest
<1>4. b \in live <=> b_conn = "open"
  BY DEF BrokerInv
<1>5. BrokerInv'
  BY <1>1, <1>4, FollowStep DEF BrokerInv, a_rest
<1>6. b \notin first'
  BY <1>1, <1>4, FollowStep
<1>7. ASSUME a \in first' PROVE A!InStep(topics[a])'
  <2>1. a \in first /\ topics'[a] = topics[a]
    BY <1>1, <1>4, <1>7, FollowStep
  <2>2. A!InStep(topics[a])
    BY <2>1 DEF SessionInv
  <2>3. QED
    BY <1>1, <2>1, <2>2, AssumptionA, A!InStepStays DEF A!InStep, a_rest, queues
<1>8. QED
  BY <1>2, <1>3, <1>5, <1>6, <1>7 DEF SessionInv

\* The broker reads a frame of node b and delivers it.
LEMMA ReadOfB == ASSUME BusInv, ReadB PROVE BusInv'
<1> DEFINE m == Head(b_up)
           d == DOMAIN a_map_subpool
<1> USE DEF BusInv
<1>1. /\ b_conn = "open" /\ b_up # << >> /\ b_up' = Tail(b_up) /\ a_up' = a_up
      /\ Handle(b, m) /\ UNCHANGED <<a_rest, b_rest, first>> /\ a # b
  BY BusAssumption DEF ReadB, Handle
<1>2. /\ m.from = IdB /\ m.flags # HMSG_FCMD_UNSUB
      /\ HasBit(m.flags, HMSG_FCMD_SUB) => GoodSub(m)
  BY <1>1, AssumptionB, SameKeys, B!HeadOfUp DEF NodesInv, GoodSub, HMSG_FCMD_UNSUB, HMSG_MAGIC,
    HMSG_APPID_BROKER, B!HMSG_FCMD_UNSUB, B!HMSG_MAGIC, B!HMSG_APPID_BROKER
<1>3. m \in Frames(d)
  BY <1>1 DEF FramesInv, B!FramesIn
<1> HIDE DEF m
<1>4. b \in live
  BY <1>1 DEF BrokerInv
<1>5. /\ live' = live /\ delivered' \subseteq live
      /\ node_id' \in [{a, b} -> UInt16]
      /\ node_id'[a] \in {0, IdA} /\ node_id'[b] \in {0, IdB}
      /\ topics' \in [{a, b} -> SUBSET DataTopics]
      /\ topics'[a] = topics[a]
      /\ \A k : k \in topics'[b] <=>
           k \in topics[b] \/ (HasBit(m.flags, HMSG_FCMD_SUB) /\ k = Broker!DataTopic(m))
      /\ a \in delivered' => m \in FramesTo(IdA, d)
      /\ b \in delivered' => m \in FramesTo(IdB, d)
  BY <1>1, <1>2, <1>3, <1>4, HandleStep
<1>6. /\ a_down' = a_down \/ (m \in FramesTo(IdA, d) /\ a_down' = Append(a_down, m))
      /\ b_down' = b_down \/ (m \in FramesTo(IdB, d) /\ b_down' = Append(b_down, m))
  BY <1>1, <1>5 DEF Handle
<1>7. m \in Message
  BY <1>3 DEF Frames
<1>8. NodesInv'
  BY <1>1, <1>6, <1>7, EnvOfA, EnvOfB DEF NodesInv, a_rest, b_rest
<1>9. FramesInv'
  <2>1. DOMAIN a_map_subpool' = d
    BY <1>1 DEF a_rest
  <2>2. A!FramesIn(Frames(d), FramesTo(IdA, d)) /\ B!FramesIn(Frames(d), FramesTo(IdB, d))
    BY DEF FramesInv
  <2>3. /\ a_up' \in Seq(Frames(d)) /\ a_down' \in Seq(FramesTo(IdA, d))
        /\ a_pc'[IO] \in A!Handling => a_io_msg' \in Frames(d)
        /\ a_pc'[IO] \in {"read", "dispatch"} => a_io_msg' \in FramesTo(IdA, d)
    BY <1>1, <1>6, <2>2, AssumptionA, A!FramesMove DEF a_rest
  <2>4. /\ b_up' \in Seq(Frames(d)) /\ b_down' \in Seq(FramesTo(IdB, d))
        /\ b_pc'[IO] \in B!Handling => b_io_msg' \in Frames(d)
        /\ b_pc'[IO] \in {"read", "dispatch"} => b_io_msg' \in FramesTo(IdB, d)
    BY <1>1, <1>6, <2>2, AssumptionB, B!FramesMove DEF b_rest
  <2>5. QED
    BY <2>1, <2>3, <2>4 DEF FramesInv, A!FramesIn, B!FramesIn
<1>10. BrokerInv'
  BY <1>1, <1>5 DEF BrokerInv, a_rest, b_rest
<1>11. ASSUME b \in first' PROVE B!InStep(topics[b])'
  <2>1. B!InStep(topics[b]) /\ B!IInv
    BY <1>1, <1>11 DEF SessionInv, NodesInv
  <2>2. \A k : k \in topics'[b] <=>
          \/ k \in topics[b]
          \/ B!HasBit(Head(b_up).flags, B!HMSG_FCMD_SUB) /\ k = B!SubKey(Head(b_up))
    BY <1>5, SameKeys DEF m
  <2>3. QED
    BY <1>1, <2>1, <2>2, AssumptionB, B!InStepRead DEF B!InStep, b_rest
<1>12. ASSUME a \in first' PROVE A!InStep(topics[a])'
  <2>1. A!InStep(topics[a])
    BY <1>1, <1>12 DEF SessionInv
  <2>2. QED
    BY <1>1, <1>5, <2>1, AssumptionA, A!InStepStays DEF A!InStep, a_rest
<1>13. QED
  BY <1>8, <1>9, <1>10, <1>11, <1>12 DEF SessionInv

-------------------------------------------------------------------------------
(***************************************************************************)
(* The theorems.                                                           *)
(***************************************************************************)

\* Two new nodes and a broker without sessions.
LEMMA BusInit == ASSUME Init PROVE BusInv
<1>0. /\ A!Init /\ B!Init /\ live = {} /\ delivered = {} /\ first = {a, b}
      /\ node_id = [c \in {a, b} |-> 0] /\ topics = [c \in {a, b} |-> {}]
  BY DEF Init, Broker!Init
<1>1. NodesInv
  BY <1>0, AssumptionA, AssumptionB, A!InvInit, B!InvInit, A!SessionInit, B!SessionInit DEF NodesInv
<1>2. BrokerInv
  <2>1. 0 \in UInt16
    BY AssumptionA, A!IsUInt16, SameTypes
  <2>2. a_conn # "open" /\ b_conn # "open"
    BY <1>0 DEF A!Init, B!Init
  <2>3. QED
    BY <1>0, <2>1, <2>2 DEF BrokerInv
<1>3. FramesInv
  BY <1>0, AssumptionA, AssumptionB, A!SessionInit, B!SessionInit DEF FramesInv
<1>4. SessionInv
  <2>1. topics[a] = {} /\ topics[b] = {}
    BY <1>0
  <2>2. A!InStep({}) /\ B!InStep({})
    BY <1>0, AssumptionA, AssumptionB, A!SessionInit, B!SessionInit
  <2>3. QED
    BY <2>1, <2>2 DEF SessionInv
<1>5. QED
  BY <1>1, <1>2, <1>3, <1>4 DEF BusInv

\* Nothing changes.
LEMMA BusStutter == ASSUME BusInv, UNCHANGED vars PROVE BusInv'
<1> USE DEF BusInv, vars, a_rest, b_rest, queues, broker
<1>1. NodesInv'
  BY EnvOfA, EnvOfB DEF NodesInv
<1>2. BrokerInv' /\ FramesInv'
  BY DEF BrokerInv, FramesInv, A!FramesIn, B!FramesIn
<1>3. SessionInv'
  BY AssumptionA, AssumptionB, A!InStepStays, B!InStepStays DEF SessionInv, A!InStep, B!InStep
<1>4. QED
  BY <1>1, <1>2, <1>3

\* BusInv holds initially and every step of a node, of the broker or of the
\* network keeps it.
THEOREM Invariance == Spec => []BusInv
<1>1. BusInv /\ [Next]_vars => BusInv'
  BY StepOfA, StepOfB, CutOfA, CutOfB, ReadOfA, ReadOfB, BusStutter DEF Next
<1>2. QED
  BY <1>1, BusInit, PTL DEF Spec

\* Both nodes and the broker keep their types: whatever the nodes send, sessions
\* only ever hold keys of data frames, and a frame goes to connected nodes.
THEOREM TypeCorrect == Spec => []TypeOK
<1>1. BusInv => TypeOK
  BY DEF BusInv, NodesInv, BrokerInv, TypeOK, A!IInv, B!IInv
<1>2. QED
  BY <1>1, Invariance, PTL

\* A reply to a status request that reaches the lookup of hnode_on_read finds
\* hnode_on_respond, whatever connections were lost and whatever writes failed
\* since the request was made.
THEOREM RepliesAreHandled == Spec => []RepliesFindHandler
<1>1. ASSUME BusInv, a_pc[IO] = "dispatch", HMSG_TOPICEX_INMSG(a_io_msg) = ReplyKey
      PROVE  A!EntryOf(ReplyKey) = "respond"
  <2>1. a_io_msg \in FramesTo(IdA, DOMAIN a_map_subpool)
    BY <1>1 DEF BusInv, FramesInv, A!FramesIn
  <2>2. a_io_msg \in A!Message /\ A!IInv /\ HMSG_MSGID_STATUS \in A!UInt16
    BY <1>1, <2>1, SameTypes, AssumptionA, A!IsUInt16
      DEF BusInv, NodesInv, FramesTo, Frames, HMSG_MSGID_STATUS
  <2>3. A!HMSG_TOPICEX_INMSG(a_io_msg) = A!DataKey("request", HMSG_MSGID_STATUS)
    BY <1>1 DEF ReplyKey, HMSG_TOPICEX_INMSG, HMSG_TOPICEX, A!HMSG_TOPICEX_INMSG, A!HMSG_TOPICEX
  <2>4. /\ a_io_msg.flags = A!ReplyFlags /\ a_io_msg.topic = HMSG_MSGID_STATUS
        /\ ReplyKey \in DOMAIN a_map_subpool => A!EntryOf(ReplyKey) = "respond"
    BY <2>2, <2>3, AssumptionA, A!ReplyIsFor DEF ReplyKey
  <2>5. ReplyKey \in DOMAIN a_map_subpool
    BY <2>1, <2>4 DEF FramesTo, Frames
  <2>6. QED
    BY <2>4, <2>5
<1>2. QED
  BY <1>1, Invariance, PTL DEF RepliesFindHandler

\* The topics that are asked for in a queue, as a set and one by one.
LEMMA AskedTopics ==
  ASSUME NEW q \in Seq(Message), NEW k
  PROVE  (k \in Asked(q) <=> A!AskedFor(k, q)) /\ (k \in Asked(q) <=> B!AskedFor(k, q))
<1>1. DOMAIN q = 1..Len(q)
  OBVIOUS
<1>2. k \in Asked(q) <=>
        \E i \in 1..Len(q) : HasBit(q[i].flags, HMSG_FCMD_SUB) /\ k = Broker!DataTopic(q[i])
  BY <1>1 DEF Asked, Range
<1>3. QED
  BY <1>2, SameKeys DEF A!AskedFor, B!AskedFor

\* Until its first connection is lost, a node and the broker agree about its
\* topics up to the commands under way, whatever the application threads and the
\* IO thread subscribe at the same time.
THEOREM SessionsMatch == Spec => []TableMatchesSession
<1>1. ASSUME BusInv PROVE TableMatchesSession
  <2>1. a_up \in Seq(Message) /\ b_up \in Seq(Message)
    BY <1>1, SameTypes DEF BusInv, NodesInv, A!IInv, B!IInv, A!TypeOK, B!TypeOK
  <2>2. ASSUME a \in first, a \in live
        PROVE  /\ DOMAIN a_map_subpool \subseteq topics[a] \cup Asked(a_up)
               /\ 0 \notin Results =>
                    topics[a] \subseteq DOMAIN a_map_subpool \cup
                      {A!TopicEx(a_call[t]) :
                         t \in {u \in {ThreadA, IO} : a_pc[u] \in {"store", "save"}}}
    <3>1. /\ \A k : A!Known(k) => k \in topics[a] \/ A!AskedFor(k, a_up)
          /\ 0 \notin Results => \A k : k \in topics[a] \/ A!AskedFor(k, a_up) => A!Known(k)
      BY <1>1, <2>2 DEF BusInv, SessionInv, BrokerInv, A!InStep
    <3>2. \A k : A!Known(k) <=>
            \/ k \in DOMAIN a_map_subpool
            \/ k \in {A!TopicEx(a_call[t]) :
                        t \in {u \in {ThreadA, IO} : a_pc[u] \in {"store", "save"}}}
      BY DEF A!Known, A!Actors
    <3>3. QED
      BY <2>1, <3>1, <3>2, AskedTopics
  <2>3. ASSUME b \in first, b \in live
        PROVE  /\ DOMAIN b_map_subpool \subseteq topics[b] \cup Asked(b_up)
               /\ 0 \notin Results =>
                    topics[b] \subseteq DOMAIN b_map_subpool \cup
                      {B!TopicEx(b_call[t]) :
                         t \in {u \in {ThreadB, IO} : b_pc[u] \in {"store", "save"}}}
    <3>1. /\ \A k : B!Known(k) => k \in topics[b] \/ B!AskedFor(k, b_up)
          /\ 0 \notin Results => \A k : k \in topics[b] \/ B!AskedFor(k, b_up) => B!Known(k)
      BY <1>1, <2>3 DEF BusInv, SessionInv, BrokerInv, B!InStep
    <3>2. \A k : B!Known(k) <=>
            \/ k \in DOMAIN b_map_subpool
            \/ k \in {B!TopicEx(b_call[t]) :
                        t \in {u \in {ThreadB, IO} : b_pc[u] \in {"store", "save"}}}
      BY DEF B!Known, B!Actors
    <3>3. QED
      BY <2>1, <3>1, <3>2, AskedTopics
  <2>4. QED
    BY <2>2, <2>3 DEF TableMatchesSession
<1>2. QED
  BY <1>1, Invariance, PTL
===============================================================================
