--------------------------- MODULE BrokerRefinement ---------------------------
(***************************************************************************)
(* The broker implements PubSub: seen through the sessions' own topic      *)
(* lists, every callback of the loop is one step of the promise or leaves  *)
(* it unchanged.                                                           *)
(***************************************************************************)
EXTENDS BrokerProofs

-------------------------------------------------------------------------------
\* PubSub and Broker read the header with the same macros.
LEMMA SameHeader ==
  /\ Promise!HMSG_APPID_BROKER = HMSG_APPID_BROKER
  /\ Promise!HMSG_APPID_EVERYONR = HMSG_APPID_EVERYONR
  /\ \A msg : Promise!HMSG_TOPICEX_INMSG(msg) = HMSG_TOPICEX_INMSG(msg)
  /\ \A msg : Promise!DataTopic(msg) = TopicToSub(msg)
  /\ \A msg : Promise!Valid(msg) <=>
       HMSG_HEAD_VALID(msg, FrameLength(msg)) /\ ~(FrameLength(msg) > PACKAGE_MAX_LENGTH)
  /\ \A msg : Promise!TooLong(msg) <=> FrameLength(msg) > PACKAGE_MAX_LENGTH
  /\ \A msg : HasBit(msg.flags, HMSG_FCMD_SUB)
                <=> Promise!HasBit(msg.flags, Promise!HMSG_FCMD_SUB)
  /\ Promise!HMSG_FCMD_UNSUB = HMSG_FCMD_UNSUB
  /\ Promise!HMSG_FCMD_REGISTER = HMSG_FCMD_REGISTER
<1>1. Promise!HMSG_APPID_BROKER = HMSG_APPID_BROKER
  BY SMT DEF Promise!HMSG_APPID_BROKER, HMSG_APPID_BROKER
<1>2. Promise!HMSG_APPID_EVERYONR = HMSG_APPID_EVERYONR
  BY SMT DEF Promise!HMSG_APPID_EVERYONR, HMSG_APPID_EVERYONR
<1>3. \A msg : Promise!HMSG_TOPICEX_INMSG(msg) = HMSG_TOPICEX_INMSG(msg)
  BY SMT DEF Promise!HMSG_TOPICEX_INMSG, HMSG_TOPICEX_INMSG, Promise!HMSG_TOPICEX,
       HMSG_TOPICEX
<1>4. \A msg : Promise!DataTopic(msg) = TopicToSub(msg)
  BY SMT DEF Promise!DataTopic, TopicToSub, Promise!HMSG_TOPICEX, HMSG_TOPICEX,
       Promise!HMSG_FLAGS, HMSG_FLAGS, Promise!HMSG_FCMD_DATA, HMSG_FCMD_DATA,
       Promise!HMSG_FLAGS_DATA, HMSG_FLAGS_DATA
<1>5. \A msg : Promise!FrameLength(msg) = FrameLength(msg)
  BY SMT DEF Promise!FrameLength, FrameLength, Promise!HMSG_HEAD_SIZE, HMSG_HEAD_SIZE
<1>6. \A msg, len : Promise!HMSG_HEAD_VALID(msg, len) <=> HMSG_HEAD_VALID(msg, len)
  BY SMT DEF Promise!HMSG_HEAD_VALID, HMSG_HEAD_VALID, Promise!HMSG_MAGIC, HMSG_MAGIC,
       Promise!HMSG_HEAD_SIZE, HMSG_HEAD_SIZE, Promise!HMSG_PATLOAD_SIZE_MAX,
       HMSG_PATLOAD_SIZE_MAX
<1>7. Promise!PACKAGE_MAX_LENGTH = PACKAGE_MAX_LENGTH
  BY SMT DEF Promise!PACKAGE_MAX_LENGTH, PACKAGE_MAX_LENGTH
<1>8. \A msg : HasBit(msg.flags, HMSG_FCMD_SUB)
                <=> Promise!HasBit(msg.flags, Promise!HMSG_FCMD_SUB)
  BY SMT DEF Promise!HasBit, HasBit, Promise!HMSG_FCMD_SUB, HMSG_FCMD_SUB
<1>9. Promise!HMSG_FCMD_UNSUB = HMSG_FCMD_UNSUB /\ Promise!HMSG_FCMD_REGISTER = HMSG_FCMD_REGISTER
  BY SMT DEF Promise!HMSG_FCMD_UNSUB, HMSG_FCMD_UNSUB, Promise!HMSG_FCMD_REGISTER, HMSG_FCMD_REGISTER
<1>a. \A msg : Promise!TooLong(msg) <=> FrameLength(msg) > PACKAGE_MAX_LENGTH
  BY <1>5, <1>7 DEF Promise!TooLong
<1>10. \A msg : Promise!Valid(msg) <=>
         HMSG_HEAD_VALID(msg, FrameLength(msg)) /\ ~(FrameLength(msg) > PACKAGE_MAX_LENGTH)
  BY <1>5, <1>6, <1>a DEF Promise!Valid
<1>11. QED
  BY <1>1, <1>2, <1>3, <1>4, <1>8, <1>9, <1>a, <1>10

\* A frame that reaches on_read with a valid header is valid.
LEMMA ReadIsValid ==
  ASSUME NEW io \in IOs, NEW msg \in Msgs, ValidFrame(io, msg)
  PROVE  Promise!Valid(msg)
<1>1. FrameLength(msg) \in Nat /\ PACKAGE_MAX_LENGTH \in Nat
  BY BrokerAssumption DEF FrameLength, Message, HMSG_HEAD_SIZE, PACKAGE_MAX_LENGTH
<1>2. QED
  BY <1>1, SameHeader DEF ValidFrame, Frame

\* An event that wrote nothing consumed the frame of its connection.
LEMMA NothingDelivered ==
  ASSUME NEW name, NEW io, NEW msg, last' = Event(name, io, msg, << >>)
  PROVE  Promise!Consume(io, msg)
<1>1. last'.sent = << >> /\ last'.io = io /\ last'.msg = msg
  BY EventFields
<1>2. Delivered' = {}
  BY <1>1 DEF Delivered, Range
<1>3. QED
  BY <1>1, <1>2 DEF Promise!Consume, Promise!Heard

\* What a member is.
LEMMA MemberIsLive ==
  ASSUME IInv, NEW io \in Members
  PROVE  io \in IOs /\ io \in open /\ ctx[io] \in live /\ ctx[io] \in Ptrs /\ s_io[ctx[io]] = io
BY DEF IInv, TypeOK, SessionOwnership, Members

\* Two members have different sessions.
LEMMA SessionsDiffer ==
  ASSUME IInv, NEW c \in Members, NEW d \in Members, c # d
  PROVE  ctx[c] # ctx[d]
BY MemberIsLive

\* The start of the broker is the start of the promise.
LEMMA RefineInit == Init => Promise!Init
<1> SUFFICES ASSUME Init PROVE Promise!Init
  OBVIOUS
<1>1. Members = {}
  BY DEF Init, Members
<1>2. MemberIds = [c \in IOs |-> 0] /\ MemberTopics = [c \in IOs |-> {}]
  BY <1>1 DEF MemberIds, MemberTopics
<1>3. last.io = NULL /\ last.msg = NULL /\ Delivered = {}
  <2>1. last.sent = << >> /\ last.io = NULL /\ last.msg = NULL
    BY EventFields DEF Init
  <2>2. QED
    BY <2>1 DEF Delivered, Range
<1>4. QED
  BY <1>1, <1>2, <1>3 DEF Promise!Init

-------------------------------------------------------------------------------
\* on_accept with memory for the session is Join.
LEMMA AcceptIsJoin ==
  ASSUME IInv, NEW io \in IOs, NEW p \in Ptrs, OnAccept(io, p)
  PROVE  Promise!Join(io)
<1>1. /\ io \notin open /\ p \notin live /\ p # NULL
      /\ ctx' = [ctx EXCEPT ![io] = p]
      /\ node_id' = [node_id EXCEPT ![p] = 0]
      /\ buf_topics' = [buf_topics EXCEPT ![p] = << >>]
  BY BrokerAssumption DEF OnAccept, hbus_seesion_alloc
<1>2. io \notin Members
  BY <1>1, MemberIsLive
<1>t. ctx \in [IOs -> Ptrs \cup {NULL}] /\ node_id \in [Ptrs -> UInt16]
      /\ buf_topics \in [Ptrs -> Seq(DataTopics)]
  BY DEF IInv, TypeOK
<1>3. Members' = Members \cup {io}
  BY <1>1, <1>t DEF Members
<1>4. \A c \in Members : ctx'[c] = ctx[c] /\ ctx[c] # p /\ ctx[c] \in Ptrs
  BY <1>1, <1>2, <1>t, MemberIsLive
<1>5. \A c \in Members : node_id'[ctx'[c]] = node_id[ctx[c]]
  BY <1>1, <1>4, <1>t
<1>6. \A c \in Members : buf_topics'[ctx'[c]] = buf_topics[ctx[c]]
  BY <1>1, <1>4, <1>t
<1>7. node_id'[ctx'[io]] = 0 /\ Range(buf_topics'[ctx'[io]]) = {}
  BY <1>1, <1>t DEF Range
<1>8. MemberIds' = MemberIds
  BY <1>2, <1>3, <1>5, <1>7 DEF MemberIds
<1>9. MemberTopics' = MemberTopics
  BY <1>2, <1>3, <1>6, <1>7 DEF MemberTopics
<1>10. Promise!Consume(io, NULL)
  BY NothingDelivered DEF OnAccept
<1>11. QED
  BY <1>2, <1>3, <1>8, <1>9, <1>10 DEF Promise!Join

\* A callback that changes no session and writes nothing is Ignore, if its
\* frame may be dropped.
LEMMA QuietIsIgnore ==
  ASSUME NEW name, NEW io, NEW msg, last' = Event(name, io, msg, << >>),
         Promise!MayDrop(io, msg),
         Members' = Members, UNCHANGED <<node_id, buf_topics>>,
         \A c \in Members : ctx'[c] = ctx[c]
  PROVE  Promise!Ignore(io, msg)
<1>1. MemberIds' = MemberIds
  BY DEF MemberIds
<1>2. MemberTopics' = MemberTopics
  BY DEF MemberTopics
<1>3. QED
  BY <1>1, <1>2, NothingDelivered DEF Promise!Ignore

\* The forwarding loop is Publish: it reaches exactly the members that list
\* the topic and are addressed.
LEMMA ForwardIsPublish ==
  ASSUME IInv, NEW io \in IOs, NEW msg \in Msgs, OnReadForward(io, msg)
  PROVE  Promise!Publish(io, msg)
<1> DEFINE key == HMSG_TOPICEX_INMSG(msg)
           list == SessionsOf(map_topic_sessions, key)
           sent == Receivers(msg)
           To(c) == key \in MemberTopics[c] /\ msg.to \in {MemberIds[c], HMSG_APPID_EVERYONR}
<1>1. last'.sent = sent /\ last'.io = io /\ last'.msg = msg
  BY EventFields DEF OnReadForward
<1>2. UNCHANGED <<Members, MemberIds, MemberTopics>>
  BY DEF OnReadForward, Members, MemberIds, MemberTopics, session
<1>3. list \in Seq(live)
  BY ListedIsLive
<1>4. /\ DOMAIN sent = {j \in DOMAIN list : Addressed(msg, list[j])}
      /\ \A i \in DOMAIN sent : sent[i] = s_io[list[i]]
  BY DEF Receivers
<1>5. \A p \in Ptrs : p \in Range(list) <=> key \in Range(buf_topics[p])
  <2>1. CASE key \in DataTopics
    BY <2>1, SessionsAgree
  <2>2. CASE key \notin DataTopics
    <3>1. Range(list) = {}
      BY <2>2 DEF SessionsOf, IInv, IndexInv, MapOK, Range
    <3>2. \A p \in Ptrs : key \notin Range(buf_topics[p])
      BY <2>2 DEF IInv, TypeOK, Range
    <3>3. QED
      BY <3>1, <3>2
  <2>3. QED
    BY <2>1, <2>2
<1>6. \A c \in Members : /\ MemberTopics[c] = Range(buf_topics[ctx[c]])
                         /\ MemberIds[c] = node_id[ctx[c]]
  BY MemberIsLive DEF MemberTopics, MemberIds
<1> HIDE DEF key, list, sent
<1>7. ASSUME NEW c \in Range(sent) PROVE c \in Members /\ To(c)
  <2>1. PICK i \in DOMAIN sent : sent[i] = c
    BY DEF Range
  <2>2. i \in DOMAIN list /\ c = s_io[list[i]] /\ Addressed(msg, list[i])
    BY <1>4, <2>1
  <2>3. list[i] \in live /\ list[i] \in Range(list)
    BY <1>3, <2>2 DEF Range
  <2>4. c \in IOs /\ c \in Members /\ ctx[c] = list[i] /\ list[i] \in Ptrs
    BY <2>2, <2>3, BrokerAssumption DEF IInv, SessionOwnership, TypeOK, Members
  <2>5. key \in MemberTopics[c]
    BY <1>5, <1>6, <2>3, <2>4
  <2>6. msg.to \in {MemberIds[c], HMSG_APPID_EVERYONR}
    BY <1>6, <2>2, <2>4 DEF Addressed
  <2>7. QED
    BY <2>4, <2>5, <2>6
<1>8. ASSUME NEW c \in Members, To(c) PROVE c \in Range(sent)
  <2>1. ctx[c] \in Ptrs /\ s_io[ctx[c]] = c
    BY MemberIsLive
  <2>2. ctx[c] \in Range(list)
    BY <1>5, <1>6, <1>8, <2>1
  <2>3. PICK i \in DOMAIN list : list[i] = ctx[c]
    BY <2>2 DEF Range
  <2>4. Addressed(msg, list[i])
    BY <1>6, <1>8, <2>3 DEF Addressed
  <2>5. QED
    BY <1>4, <2>1, <2>3, <2>4 DEF Range
<1>9. Delivered' = {c \in Members : To(c)}
  BY <1>1, <1>7, <1>8 DEF Delivered
<1>10. QED
  BY <1>1, <1>2, <1>9, SameHeader, ReadIsValid
  DEF Promise!Publish, Promise!Heard, OnReadForward, key

\* A SUB or UNSUB command of a connection with a session changes the topics
\* of that member only.
LEMMA SubscriptionRefines ==
  ASSUME IInv, NEW io \in IOs, NEW msg \in Msgs, OnReadSubscription(io, msg)
  PROVE  Promise!Subscribe(io, msg) \/ Promise!Unsubscribe(io, msg)
<1> DEFINE t == TopicToSub(msg)
           p == ctx[io]
<1>1. /\ io \in Members /\ ctx' = ctx /\ node_id' = node_id
      /\ \/ AddSub(p, t) /\ HasBit(msg.flags, HMSG_FCMD_SUB)
         \/ RemoveSub(p, t) /\ msg.flags = HMSG_FCMD_UNSUB
  BY DEF OnReadSubscription, CommandFrame, Members, Command
<1>2. Members' = Members /\ MemberIds' = MemberIds
  BY <1>1 DEF Members, MemberIds
<1>3. Promise!Command(io, msg)
  <2>1. msg.to = HMSG_APPID_BROKER /\ Promise!Consume(io, msg) /\ Promise!Valid(msg)
    BY NothingDelivered, ReadIsValid DEF OnReadSubscription, CommandFrame
  <2>2. QED
    BY <1>1, <1>2, <2>1, SameHeader DEF Promise!Command
<1>d. Promise!DataTopic(msg) = t
  BY SameHeader
<1>4. t \in DataTopics /\ p \in Ptrs
  BY <1>1, TopicType, MemberIsLive
<1>t. buf_topics \in [Ptrs -> Seq(DataTopics)] /\ Distinct(buf_topics[p])
  BY <1>4 DEF IInv, TypeOK, IndexInv, TopicLists
<1> HIDE DEF t
<1>5. \A c \in Members : c # io => ctx[c] # p /\ ctx[c] \in Ptrs
  BY <1>1, SessionsDiffer, MemberIsLive
<1>6. CASE AddSub(p, t) /\ HasBit(msg.flags, HMSG_FCMD_SUB)
  <2>1. Range(buf_topics'[p]) = Range(buf_topics[p]) \cup {t}
    <3>1. CASE t \in Range(buf_topics[p])
      BY <1>6, <3>1 DEF AddSub
    <3>2. CASE t \notin Range(buf_topics[p])
      <4>1. buf_topics'[p] = Append(buf_topics[p], t)
        BY <1>4, <1>6, <1>t, <3>2 DEF AddSub
      <4>2. Range(Append(buf_topics[p], t)) = Range(buf_topics[p]) \cup {t}
        BY <1>4, <1>t, <3>2, AppendItem
      <4>3. QED
        BY <4>1, <4>2
    <3>3. QED
      BY <3>1, <3>2
  <2>2. \A q \in Ptrs : q # p => buf_topics'[q] = buf_topics[q]
    BY <1>6, <1>t DEF AddSub
  <2>3. MemberTopics' = [MemberTopics EXCEPT ![io] = @ \cup {t}]
    BY <1>1, <1>2, <1>5, <2>1, <2>2 DEF MemberTopics
  <2>4. QED
    BY <1>2, <1>3, <1>6, <1>d, <2>3, SameHeader DEF Promise!Subscribe
<1>7. CASE RemoveSub(p, t) /\ msg.flags = HMSG_FCMD_UNSUB
  <2>1. Range(buf_topics'[p]) = Range(buf_topics[p]) \ {t}
    <3>1. CASE t \notin Range(buf_topics[p])
      BY <1>7, <3>1 DEF RemoveSub
    <3>2. CASE t \in Range(buf_topics[p])
      BY <1>4, <1>7, <1>t, <3>2, RemoveItemProperties DEF RemoveSub
    <3>3. QED
      BY <3>1, <3>2
  <2>2. \A q \in Ptrs : q # p => buf_topics'[q] = buf_topics[q]
    BY <1>7, <1>t DEF RemoveSub
  <2>3. MemberTopics' = [MemberTopics EXCEPT ![io] = @ \ {t}]
    BY <1>1, <1>2, <1>5, <2>1, <2>2 DEF MemberTopics
  <2>4. QED
    BY <1>2, <1>3, <1>7, <1>d, <2>3, SameHeader DEF Promise!Unsubscribe
<1>8. QED
  BY <1>1, <1>6, <1>7 DEF t

\* A REGISTER command is Register.
LEMMA RegisterRefines ==
  ASSUME IInv, NEW io \in IOs, NEW msg \in Msgs, OnReadRegister(io, msg)
  PROVE  Promise!Register(io, msg)
<1> DEFINE p == ctx[io]
<1>1. /\ io \in Members /\ ctx' = ctx /\ buf_topics' = buf_topics
      /\ node_id' = [node_id EXCEPT ![p] = msg.from]
  BY DEF OnReadRegister, CommandFrame, Members
<1>2. Members' = Members /\ MemberTopics' = MemberTopics
  BY <1>1 DEF Members, MemberTopics
<1>3. Promise!Command(io, msg)
  <2>1. msg.to = HMSG_APPID_BROKER /\ Promise!Consume(io, msg) /\ Promise!Valid(msg)
    BY NothingDelivered, ReadIsValid DEF OnReadRegister, CommandFrame
  <2>2. QED
    BY <1>1, <1>2, <2>1, SameHeader DEF Promise!Command
<1>4. p \in Ptrs /\ node_id \in [Ptrs -> UInt16]
  BY <1>1, MemberIsLive DEF IInv, TypeOK
<1>5. \A c \in Members : c # io => ctx[c] # p /\ ctx[c] \in Ptrs
  BY <1>1, SessionsDiffer, MemberIsLive
<1>6. MemberIds' = [MemberIds EXCEPT ![io] = msg.from]
  BY <1>1, <1>2, <1>4, <1>5 DEF MemberIds
<1>7. msg.flags = HMSG_FCMD_REGISTER
  BY DEF OnReadRegister, CommandFrame, Command
<1>8. QED
  BY <1>2, <1>3, <1>6, <1>7, SameHeader DEF Promise!Register

\* The close of a connection with a session is Leave; without one it leaves
\* the members alone.
LEMMA CloseRefines ==
  ASSUME IInv, NEW io \in IOs, CloseSession(io),
         NEW name, NEW msg, last' = Event(name, io, msg, << >>),
         msg # NULL => FrameLength(msg) > PACKAGE_MAX_LENGTH
  PROVE  Promise!Leave(io, msg) \/ Promise!Ignore(io, msg)
<1>t. /\ ctx \in [IOs -> Ptrs \cup {NULL}]
      /\ node_id \in [Ptrs -> UInt16] /\ buf_topics \in [Ptrs -> Seq(DataTopics)]
  BY DEF IInv, TypeOK
<1>1. CASE ctx[io] = NULL
  <2>1. UNCHANGED <<node_id, buf_topics>> /\ ctx' = ctx
    BY <1>1, <1>t DEF CloseSession, session
  <2>2. Members' = Members
    BY <2>1 DEF Members
  <2>3. Promise!MayDrop(io, msg)
    BY SameHeader DEF Promise!MayDrop
  <2>4. QED
    BY <2>1, <2>2, <2>3, QuietIsIgnore
<1>2. CASE ctx[io] # NULL
  <2> DEFINE p == ctx[io]
  <2>1. /\ ctx' = [ctx EXCEPT ![io] = NULL]
        /\ node_id' = [node_id EXCEPT ![p] = 0]
        /\ buf_topics' = [buf_topics EXCEPT ![p] = << >>]
    BY <1>2 DEF CloseSession, hbus_seesion_free, Release
  <2>2. io \in Members /\ Members' = Members \ {io}
    BY <1>2, <1>t, <2>1 DEF Members
  <2>3. \A c \in Members' : ctx'[c] = ctx[c] /\ ctx[c] # p /\ ctx[c] \in Ptrs
    BY <2>1, <2>2, <1>t, SessionsDiffer, MemberIsLive
  <2>4. \A c \in Members' : node_id'[ctx'[c]] = node_id[ctx[c]]
    BY <2>1, <2>3, <1>t
  <2>5. \A c \in Members' : buf_topics'[ctx'[c]] = buf_topics[ctx[c]]
    BY <2>1, <2>3, <1>t
  <2>6. MemberIds' = [MemberIds EXCEPT ![io] = 0]
    BY <2>2, <2>4 DEF MemberIds
  <2>7. MemberTopics' = [MemberTopics EXCEPT ![io] = {}]
    BY <2>2, <2>5 DEF MemberTopics
  <2>8. QED
    BY <2>2, <2>6, <2>7, NothingDelivered, SameHeader DEF Promise!Leave
<1>3. QED
  BY <1>1, <1>2

-------------------------------------------------------------------------------
\* Every step of the broker is a step of the promise.
LEMMA RefineStep == ASSUME IInv, [Next]_vars PROVE [Promise!Next]_(Promise!vars)
<1>1. ASSUME NEW io \in IOs, NEW p \in Ptrs, OnAccept(io, p) PROVE Promise!Next
  BY <1>1, AcceptIsJoin DEF Promise!Next
<1>2. ASSUME NEW io \in IOs, OnAcceptNoMemory(io) PROVE Promise!Next
  <2>1. ctx[io] = NULL
    BY <1>2 DEF OnAcceptNoMemory, IInv, SessionOwnership
  <2>2. ctx' = ctx /\ UNCHANGED <<node_id, buf_topics>>
    BY <1>2, <2>1 DEF OnAcceptNoMemory, IInv, TypeOK, session
  <2>3. Members' = Members
    BY <2>2 DEF Members
  <2>4. Promise!Ignore(io, NULL)
    BY <1>2, <2>2, <2>3, QuietIsIgnore DEF OnAcceptNoMemory, Promise!MayDrop
  <2>5. QED
    BY <2>4 DEF Promise!Next
<1>3. ASSUME NEW io \in IOs, NEW msg \in Msgs,
             \/ OnReadInvalid(io, msg)
             \/ OnReadUnknown(io, msg)
             \/ OnReadNullSession(io, msg)
      PROVE  Promise!Next
  <2>1. ctx' = ctx /\ UNCHANGED <<node_id, buf_topics>>
    BY <1>3 DEF OnReadInvalid, OnReadUnknown, OnReadNullSession, CommandFrame, session
  <2>2. Members' = Members
    BY <2>1 DEF Members
  <2>3. \E name : last' = Event(name, io, msg, << >>)
    BY <1>3 DEF OnReadInvalid, OnReadUnknown, OnReadNullSession, CommandFrame
  <2>4. ASSUME OnReadInvalid(io, msg) PROVE Promise!MayDrop(io, msg)
    BY <2>4, SameHeader DEF Promise!MayDrop, OnReadInvalid
  <2>4a. ASSUME OnReadUnknown(io, msg) PROVE Promise!MayDrop(io, msg)
    <3>1. msg.to = HMSG_APPID_BROKER /\ Command(msg.flags) = "unknown"
      BY <2>4a DEF OnReadUnknown, CommandFrame
    <3>2. Promise!Unknown(msg)
      BY <3>1, SameHeader DEF Promise!Unknown, Command
    <3>3. QED
      BY <3>1, <3>2, SameHeader DEF Promise!MayDrop
  <2>4b. ASSUME OnReadNullSession(io, msg) PROVE Promise!MayDrop(io, msg)
    <3>1. msg.to = HMSG_APPID_BROKER /\ io \notin Members
      BY <2>4b DEF OnReadNullSession, CommandFrame, Members
    <3>2. QED
      BY <3>1, SameHeader DEF Promise!MayDrop
  <2>5. Promise!MayDrop(io, msg)
    BY <1>3, <2>4, <2>4a, <2>4b
  <2>6. Promise!Ignore(io, msg)
    BY <2>1, <2>2, <2>3, <2>5, QuietIsIgnore
  <2>7. QED
    BY <2>6 DEF Promise!Next
<1>4. ASSUME NEW io \in IOs, NEW msg \in Msgs, OnReadForward(io, msg) PROVE Promise!Next
  BY <1>4, ForwardIsPublish DEF Promise!Next
<1>5. ASSUME NEW io \in IOs, NEW msg \in Msgs, OnReadSubscription(io, msg) PROVE Promise!Next
  BY <1>5, SubscriptionRefines DEF Promise!Next
<1>6. ASSUME NEW io \in IOs, NEW msg \in Msgs, OnReadRegister(io, msg) PROVE Promise!Next
  BY <1>6, RegisterRefines DEF Promise!Next
<1>7. ASSUME NEW io \in IOs, OnClose(io) PROVE Promise!Next
  <2>1. Promise!Leave(io, NULL) \/ Promise!Ignore(io, NULL)
    BY <1>7, CloseRefines DEF OnClose
  <2>2. QED
    BY <2>1 DEF Promise!Next
<1>7a. ASSUME NEW io \in IOs, NEW msg \in Msgs, OnOversizeFrame(io, msg) PROVE Promise!Next
  <2>1. Promise!Leave(io, msg) \/ Promise!Ignore(io, msg)
    BY <1>7a, CloseRefines DEF OnOversizeFrame
  <2>2. QED
    BY <2>1 DEF Promise!Next
<1>8. ASSUME UNCHANGED vars PROVE UNCHANGED Promise!vars
  BY <1>8 DEF vars, session, Promise!vars, Members, MemberIds, MemberTopics, Delivered
<1>9. QED
  BY <1>1, <1>2, <1>3, <1>4, <1>5, <1>6, <1>7, <1>7a, <1>8 DEF Next, OnRead

\* The pointer index implements publish and subscribe on plain sets of members
\* and topics, for any set of connections, addresses and messages, and every
\* event changes what belongs to the connection it came from and nothing else.
THEOREM BrokerImplementsPubSub == Spec => ImplementsPubSub
<1>1. QED
  BY RefineInit, RefineStep, Invariance, PTL DEF Spec, ImplementsPubSub, Promise!Spec
===============================================================================
