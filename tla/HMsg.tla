--------------------------------- MODULE HMsg ---------------------------------
(***************************************************************************)
(* The message header shared by the broker and the nodes: include/hmsg.h.  *)
(* Flags and topic keys are the numbers the macros compute; the payload is *)
(* left out, only its size matters to the header check.                    *)
(***************************************************************************)
EXTENDS Naturals

HMSG_MAGIC == 21930                 \* 0x55AA
HMSG_APPID_BROKER == 65534          \* 0xFFFE
HMSG_APPID_EVERYONR == 65535        \* 0xFFFF

HMSG_FCMD_REGISTER == 0             \* 0x00
HMSG_FCMD_DATA == 16                \* 0x10
HMSG_FCMD_SUB == 32                 \* 0x20
HMSG_FCMD_UNSUB == 48               \* 0x30

HMSG_FDATA_PUBSUB == 0
HMSG_FDATA_REQUEST == 1
HMSG_FDATA_REPOND == 2

HMSG_MSGID_STATUS == 0              \* the topic every node answers itself

HMSG_HEAD_SIZE == 32                \* sizeof(hmsg_t), no padding
HMSG_PATLOAD_SIZE_MAX == 67108864   \* 1024*1024*64

\* package_max_length of both unpack settings; libhv closes the connection
\* when the length field announces a longer frame.
PACKAGE_MAX_LENGTH == 1048576       \* 1024 * 1024

-------------------------------------------------------------------------------
UInt8 == 0..255
UInt16 == 0..65535

Message ==
  [magic : UInt16, version : UInt8, flags : UInt8, topic : UInt16,
   from : UInt16, to : UInt16, payload_size : Nat]

\* (flags & bit) != 0, for a bit that is a power of two.
HasBit(flags, bit) == (flags \div bit) % 2 = 1

\* The operands occupy different nibbles, so the OR is a sum.
HMSG_FLAGS(fcmd, fdata) == fcmd + fdata
HMSG_FLAGS_DATA(flags) == flags % 16

\* (VER<<24)|(FLAGS<<16)|(TPC): the three fields occupy different bits.
HMSG_TOPICEX(ver, flags, tpc) == ver * 16777216 + flags * 65536 + tpc
HMSG_TOPICEX_INMSG(msg) == HMSG_TOPICEX(msg.version, msg.flags, msg.topic)

\* Keys of data frames: version 0 and HMSG_FCMD_DATA in the flags.
FirstDataTopic == HMSG_TOPICEX(0, HMSG_FLAGS(HMSG_FCMD_DATA, 0), 0)
LastDataTopic == HMSG_TOPICEX(0, HMSG_FLAGS(HMSG_FCMD_DATA, 15), 65535)
DataTopics == FirstDataTopic..LastDataTopic

HMSG_HEAD_VALID(msg, len) ==
  /\ msg.magic = HMSG_MAGIC
  /\ HMSG_HEAD_SIZE <= len
  /\ HMSG_PATLOAD_SIZE_MAX >= len
  /\ len = HMSG_HEAD_SIZE + msg.payload_size

\* A message as the nodes build it: version 0.
hmsg_t(flags, topic, from, to, payload_size) ==
  [magic |-> HMSG_MAGIC, version |-> 0, flags |-> flags, topic |-> topic,
   from |-> from, to |-> to, payload_size |-> payload_size]

\* The bytes that UNPACK_BY_LENGTH_FIELD hands to the read callback at once:
\* the head (body_offset) and the number of bytes in payload_size.
FrameLength(msg) == HMSG_HEAD_SIZE + msg.payload_size
===============================================================================
