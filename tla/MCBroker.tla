------------------------------- MODULE MCBroker -------------------------------
(***************************************************************************)
(* A small broker: three hio_t and three heap addresses, both reused       *)
(* after a close, two node ids and two topic keys.                         *)
(***************************************************************************)
EXTENDS Broker, TLC

TopicA == 1

Msg(flags, topic, from, to) ==
  [magic |-> HMSG_MAGIC, version |-> 0, flags |-> flags, topic |-> topic,
   from |-> from, to |-> to, payload_size |-> 0]

ToBroker(flags, topic) == Msg(flags, topic, 1, HMSG_APPID_BROKER)
Data(fdata, topic, to) == Msg(HMSG_FLAGS(HMSG_FCMD_DATA, fdata), topic, 1, to)

Commands ==
  {ToBroker(HMSG_FLAGS(HMSG_FCMD_SUB, HMSG_FDATA_PUBSUB), TopicA),
   ToBroker(HMSG_FLAGS(HMSG_FCMD_SUB, HMSG_FDATA_REPOND), TopicA),
   ToBroker(HMSG_FCMD_UNSUB, TopicA),
   ToBroker(HMSG_FCMD_REGISTER, 0),
   \* a respond sent to a node whose id is the broker's
   ToBroker(HMSG_FLAGS(HMSG_FCMD_DATA, HMSG_FDATA_REPOND), TopicA)}

Forwards ==
  {Data(HMSG_FDATA_PUBSUB, TopicA, HMSG_APPID_EVERYONR),
   Data(HMSG_FDATA_PUBSUB, TopicA, 1),
   Data(HMSG_FDATA_REPOND, TopicA, 0)}

BadMagic == [Data(HMSG_FDATA_PUBSUB, TopicA, 1) EXCEPT !.magic = 0]
Oversize ==
  [Data(HMSG_FDATA_PUBSUB, TopicA, 1) EXCEPT !.payload_size = PACKAGE_MAX_LENGTH]

MCMsgs == Commands \cup Forwards \cup {BadMagic, Oversize}

\* Connections and addresses are only compared for equality.
Symmetric == Permutations(IOs) \cup Permutations(Ptrs)
===============================================================================
