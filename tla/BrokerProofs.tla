----------------------------- MODULE BrokerProofs -----------------------------
(***************************************************************************)
(* Proofs about Broker: the pointers in the topic index and the sessions'  *)
(* own topic lists agree, whatever is accepted, subscribed, registered and *)
(* closed, for any set of connections, addresses and messages.             *)
(***************************************************************************)
EXTENDS Broker, SequenceTheorems, WellFoundedInduction, TLAPS

-------------------------------------------------------------------------------
(***************************************************************************)
(* Lists without repetition.                                               *)
(***************************************************************************)

\* hbuf_remove shortens the list by the one item and keeps it free of
\* repetitions.
LEMMA RemoveAt ==
  ASSUME NEW S, NEW buf \in Seq(S), Distinct(buf), NEW i \in 1..Len(buf)
  PROVE  /\ hbuf_remove(buf, i) \in Seq(S)
         /\ Distinct(hbuf_remove(buf, i))
         /\ Range(hbuf_remove(buf, i)) = Range(buf) \ {buf[i]}
<1> DEFINE n == Len(buf) - 1
           rest == hbuf_remove(buf, i)
<1>1. n \in Nat /\ DOMAIN buf = 1..(n + 1)
  OBVIOUS
<1>2. \A j \in 1..n : rest[j] = IF j < i THEN buf[j] ELSE buf[j + 1]
  BY DEF hbuf_remove
<1>3. \A j \in 1..n : rest[j] \in S
  BY <1>1, <1>2
<1>4. rest = [j \in 1..n |-> rest[j]]
  BY DEF hbuf_remove
<1>5. rest \in Seq(S) /\ DOMAIN rest = 1..n
  <2>1. rest \in [1..n -> S]
    BY <1>3, <1>4
  <2>2. QED
    BY <1>1, <2>1, SeqDef
<1>6. Distinct(rest)
  <2> SUFFICES ASSUME NEW j \in 1..n, NEW k \in 1..n, rest[j] = rest[k] PROVE j = k
    BY <1>5 DEF Distinct
  <2> DEFINE from(l) == IF l < i THEN l ELSE l + 1
  <2>1. from(j) \in DOMAIN buf /\ from(k) \in DOMAIN buf
    BY <1>1
  <2>2. rest[j] = buf[from(j)] /\ rest[k] = buf[from(k)]
    BY <1>2
  <2>3. from(j) = from(k)
    <3> HIDE DEF from, rest, n
    <3> QED  BY <2>1, <2>2 DEF Distinct
  <2>4. QED
    BY <2>3, <1>1
<1>7. Range(rest) \subseteq Range(buf) \ {buf[i]}
  <2> SUFFICES ASSUME NEW j \in 1..n PROVE rest[j] \in Range(buf) /\ rest[j] # buf[i]
    BY <1>5 DEF Range
  <2>1. PICK k \in DOMAIN buf : rest[j] = buf[k] /\ k # i
    BY <1>1, <1>2
  <2>2. QED
    BY <1>1, <2>1 DEF Range, Distinct
<1>8. ASSUME NEW k \in DOMAIN buf, buf[k] # buf[i] PROVE buf[k] \in Range(rest)
  <2>1. CASE k < i
    BY <1>1, <1>2, <1>5, <2>1 DEF Range
  <2>2. CASE k > i
    <3>1. k - 1 \in 1..n /\ rest[k - 1] = buf[k]
      BY <1>1, <1>2, <2>2
    <3>2. QED
      BY <1>5, <3>1 DEF Range
  <2>3. QED
    BY <1>1, <1>8, <2>1, <2>2
<1>9. Range(buf) \ {buf[i]} \subseteq Range(rest)
  BY <1>8 DEF Range
<1>10. QED
  BY <1>5, <1>6, <1>7, <1>9

\* The search loop finds the item when it is there.
LEMMA FirstIndexFinds ==
  ASSUME NEW S, NEW buf \in Seq(S), Distinct(buf), NEW x \in Range(buf)
  PROVE  FirstIndex(buf, x) \in 1..Len(buf) /\ buf[FirstIndex(buf, x)] = x
<1>1. PICK i \in DOMAIN buf : buf[i] = x
  BY DEF Range
<1>2. \A j \in DOMAIN buf : buf[j] = x => i <= j
  <2>1. \A j \in DOMAIN buf : buf[j] = x => i = j
    BY <1>1 DEF Distinct
  <2>2. QED
    BY <2>1, <1>1
<1>3. QED
  BY <1>1, <1>2 DEF FirstIndex

\* The search and the removal together take the item out of the list.
LEMMA RemoveItemProperties ==
  ASSUME NEW S, NEW buf \in Seq(S), Distinct(buf), NEW x
  PROVE  /\ RemoveItem(buf, x) \in Seq(S)
         /\ Distinct(RemoveItem(buf, x))
         /\ Range(RemoveItem(buf, x)) = Range(buf) \ {x}
<1>1. CASE x \in Range(buf)
  BY <1>1, FirstIndexFinds, RemoveAt DEF RemoveItem
<1>2. CASE x \notin Range(buf)
  BY <1>2 DEF RemoveItem
<1>3. QED
  BY <1>1, <1>2

\* HBUF_PTR_PUSH adds the item.
LEMMA AppendItem ==
  ASSUME NEW S, NEW buf \in Seq(S), Distinct(buf), NEW x \in S, x \notin Range(buf)
  PROVE  /\ Append(buf, x) \in Seq(S)
         /\ Distinct(Append(buf, x))
         /\ Range(Append(buf, x)) = Range(buf) \cup {x}
         /\ Append(buf, x) # << >>
<1> DEFINE n == Len(buf)
           more == Append(buf, x)
<1>1. /\ n \in Nat
      /\ more \in Seq(S)
      /\ DOMAIN buf = 1..n
      /\ DOMAIN more = 1..(n + 1)
      /\ Len(more) = n + 1
      /\ more[n + 1] = x
      /\ \A i \in 1..n : more[i] = buf[i]
  BY AppendProperties
<1>2. \A i \in 1..(n + 1) : i \in 1..n \/ i = n + 1
  BY <1>1
<1>3. \A i \in 1..n : buf[i] # x
  BY <1>1 DEF Range
<1>4. Distinct(more)
  BY <1>1, <1>2, <1>3 DEF Distinct
<1>5. Range(more) = Range(buf) \cup {x}
  BY <1>1, <1>2 DEF Range
<1>6. more # << >>
  BY <1>1
<1>7. QED
  BY <1>1, <1>4, <1>5, <1>6

-------------------------------------------------------------------------------
(***************************************************************************)
(* The topic index.                                                        *)
(***************************************************************************)

\* An index as on_read leaves it: a function from keys of data frames to lists of
\* addresses that are not empty and hold no address twice.
MapOK(map) ==
  /\ map = [t \in DOMAIN map |-> map[t]]
  /\ DOMAIN map \subseteq DataTopics
  /\ \A t \in DOMAIN map : map[t] \in Seq(Ptrs) /\ map[t] # << >> /\ Distinct(map[t])

\* hbus_ctx_session_add adds the one entry.
LEMMA AddProperties ==
  ASSUME NEW map, MapOK(map), NEW t \in DataTopics, NEW s \in Ptrs
  PROVE  /\ MapOK(hbus_ctx_session_add(map, t, s))
         /\ \A u, q : Listed(hbus_ctx_session_add(map, t, s), u, q)
                        <=> (Listed(map, u, q) \/ (u = t /\ q = s))
<1> DEFINE old == SessionsOf(map, t)
           new == hbus_ctx_session_add(map, t, s)
<1>1. old \in Seq(Ptrs) /\ Distinct(old)
  BY DEF SessionsOf, MapOK, Distinct
<1>2. \A q : q \in Range(old) <=> Listed(map, t, q)
  BY DEF SessionsOf, Listed, Range
<1>3. CASE s \in Range(old)
  BY <1>2, <1>3 DEF hbus_ctx_session_add
<1>4. CASE s \notin Range(old)
  <2> DEFINE more == Append(old, s)
  <2>1. /\ more \in Seq(Ptrs) /\ Distinct(more) /\ more # << >>
        /\ Range(more) = Range(old) \cup {s}
    BY <1>1, <1>4, AppendItem
  <2>2. /\ DOMAIN new = DOMAIN map \cup {t}
        /\ new[t] = more
        /\ \A u \in DOMAIN map : u # t => new[u] = map[u]
        /\ new = [u \in DOMAIN new |-> new[u]]
    BY <1>4 DEF hbus_ctx_session_add
  <2> HIDE DEF more, new, old
  <2>3. MapOK(new)
    BY <2>1, <2>2 DEF MapOK
  <2>4. \A u, q : Listed(new, u, q) <=> (Listed(map, u, q) \/ (u = t /\ q = s))
    <3> TAKE u, q
    <3>1. CASE u = t
      BY <1>2, <2>1, <2>2, <3>1 DEF Listed
    <3>2. CASE u # t
      BY <2>2, <3>2 DEF Listed
    <3>3. QED
      BY <3>1, <3>2
  <2>5. QED
    BY <2>3, <2>4 DEF new
<1>5. QED
  BY <1>3, <1>4

\* Removing s under a set of topics removes those entries and no other.
LEMMA RmAllProperties ==
  ASSUME NEW map, MapOK(map), NEW T, NEW s
  PROVE  /\ MapOK(SessionRmAll(map, T, s))
         /\ \A u, q : Listed(SessionRmAll(map, T, s), u, q)
                        <=> (Listed(map, u, q) /\ ~(u \in T /\ q = s))
<1> DEFINE new == SessionRmAll(map, T, s)
           left(u) == Rest(map, T, s, u)
<1>1. ASSUME NEW u \in DOMAIN map
      PROVE  /\ left(u) \in Seq(Ptrs) /\ Distinct(left(u))
             /\ Range(left(u)) = IF u \in T THEN Range(map[u]) \ {s} ELSE Range(map[u])
  <2>1. map[u] \in Seq(Ptrs) /\ Distinct(map[u])
    BY DEF MapOK
  <2>2. CASE u \in T
    BY <2>1, <2>2, RemoveItemProperties DEF Rest
  <2>3. CASE u \notin T
    BY <2>1, <2>3 DEF Rest
  <2>4. QED
    BY <2>2, <2>3
<1>2. \A u \in DOMAIN map : u \notin T => left(u) # << >>
  BY DEF MapOK, Rest
<1>3. /\ DOMAIN new = {u \in DOMAIN map : u \in T => left(u) # << >>}
      /\ \A u \in DOMAIN new : new[u] = left(u)
      /\ new = [u \in DOMAIN new |-> new[u]]
  BY DEF SessionRmAll
<1>4. Range(<< >>) = {}
  BY DEF Range
<1> HIDE DEF new, left
<1>5. MapOK(new)
  BY <1>1, <1>2, <1>3 DEF MapOK
<1>6. \A u, q : Listed(new, u, q) <=> (Listed(map, u, q) /\ ~(u \in T /\ q = s))
  <2> TAKE u, q
  <2>1. CASE u \notin DOMAIN map
    BY <2>1, <1>3 DEF Listed
  <2>2. CASE u \in DOMAIN map /\ u \notin DOMAIN new
    <3>1. u \in T /\ Range(left(u)) = {}
      BY <2>2, <1>3, <1>4
    <3>2. QED
      BY <3>1, <2>2, <1>1 DEF Listed
  <2>3. CASE u \in DOMAIN new
    BY <2>3, <1>1, <1>3 DEF Listed
  <2>4. QED
    BY <2>1, <2>2, <2>3
<1>7. QED
  BY <1>5, <1>6 DEF new

-------------------------------------------------------------------------------
(***************************************************************************)
(* The loop of hbus_seesion_free.                                          *)
(***************************************************************************)

\* A set of natural numbers that is not empty has a least element.
LEMMA LeastNumber ==
  ASSUME NEW S \in SUBSET Nat, S # {}
  PROVE  \E k \in S : \A j \in S : k <= j
<1> DEFINE R == OpToRel(<, Nat)
<1>1. PICK k \in S : \A j \in S : <<j, k>> \notin R
  <2> HIDE DEF R
  <2>1. IsWellFoundedOn(R, Nat)
    BY NatLessThanWellFounded, Zenon DEF R
  <2>2. QED
    BY <2>1, WFMin
<1>2. \A j \in S : ~(j < k)
  BY <1>1 DEF OpToRel
<1>3. QED
  BY <1>2

\* Removing s under one more topic.
LEMMA RmOneMore ==
  ASSUME NEW map, NEW T, NEW s, NEW t, t \notin T
  PROVE  hbus_ctx_session_rm(SessionRmAll(map, T, s), t, s) = SessionRmAll(map, T \cup {t}, s)
<1> DEFINE one == SessionRmAll(map, T, s)
           more == SessionRmAll(map, T \cup {t}, s)
           two == SessionRmAll(one, {t}, s)
<1>1. /\ DOMAIN one = {u \in DOMAIN map : u \in T => Rest(map, T, s, u) # << >>}
      /\ \A u \in DOMAIN one : one[u] = Rest(map, T, s, u)
  BY DEF SessionRmAll
<1>2. /\ DOMAIN two = {u \in DOMAIN one : u \in {t} => Rest(one, {t}, s, u) # << >>}
      /\ two = [u \in DOMAIN two |-> Rest(one, {t}, s, u)]
  BY DEF SessionRmAll
<1>3. /\ DOMAIN more = {u \in DOMAIN map : u \in T \cup {t} => Rest(map, T \cup {t}, s, u) # << >>}
      /\ more = [u \in DOMAIN more |-> Rest(map, T \cup {t}, s, u)]
  BY DEF SessionRmAll
<1> HIDE DEF one, two, more
<1>4. \A u \in DOMAIN one : Rest(one, {t}, s, u) = Rest(map, T \cup {t}, s, u)
  BY <1>1 DEF Rest
<1>5. \A u : u # t => Rest(map, T \cup {t}, s, u) = Rest(map, T, s, u)
  BY DEF Rest
<1>6. DOMAIN two = DOMAIN more
  <2>1. \A u : u \in DOMAIN two <=> u \in DOMAIN more
    <3> TAKE u
    <3>1. CASE u = t
      BY <3>1, <1>1, <1>2, <1>3, <1>4
    <3>2. CASE u # t
      BY <3>2, <1>1, <1>2, <1>3, <1>4, <1>5
    <3>3. QED
      BY <3>1, <3>2
  <2>2. QED
    BY <2>1
<1>7. two = more
  BY <1>2, <1>3, <1>4, <1>6
<1>8. QED
  BY <1>7 DEF hbus_ctx_session_rm, one, two, more

\* The loop, which starts each round from the index that the round before left,
\* ends with all the topics of the session removed. g is the index after each
\* round; a loop h that differed from it would first differ at some round k,
\* which starts from the same index.
LEMMA LoopRemoves ==
  ASSUME NEW map, map = [t \in DOMAIN map |-> map[t]],
         NEW p, buf_topics[p] \in Seq(DataTopics), Distinct(buf_topics[p])
  PROVE  SessionFreeLoop(map, p) = SessionFree(map, p)
<1> DEFINE topics == buf_topics[p]
           n == Len(topics)
           Body(f) == [i \in 0..n |->
                         IF i = 0 THEN map ELSE hbus_ctx_session_rm(f[i - 1], topics[i], p)]
           done(i) == {topics[j] : j \in 1..i}
           g == [i \in 0..n |-> SessionRmAll(map, done(i), p)]
           h == CHOOSE f : f = Body(f)
<1>1. SessionFreeLoop(map, p) = h[n]
  BY DEF SessionFreeLoop
<1>2. n \in Nat /\ topics \in [1..n -> DataTopics]
  OBVIOUS
<1>3. SessionRmAll(map, {}, p) = map
  BY DEF SessionRmAll, Rest
<1>4. ASSUME NEW i \in 1..n
      PROVE  hbus_ctx_session_rm(SessionRmAll(map, done(i - 1), p), topics[i], p)
               = SessionRmAll(map, done(i), p)
  <2>1. topics[i] \notin done(i - 1)
    BY <1>2 DEF Distinct
  <2>2. done(i) = done(i - 1) \cup {topics[i]}
    BY <1>2
  <2>3. QED
    BY <2>1, <2>2, RmOneMore
<1>5. done(0) = {} /\ done(n) = Range(topics)
  BY <1>2 DEF Range
<1> HIDE DEF done
<1>6. g = Body(g)
  <2>1. g[0] = map
    BY <1>2, <1>3, <1>5
  <2>2. \A i \in 1..n : g[i] = hbus_ctx_session_rm(g[i - 1], topics[i], p)
    BY <1>2, <1>4
  <2> HIDE DEF g
  <2>3. \A i \in 0..n : g[i] = Body(g)[i]
    <3> TAKE i \in 0..n
    <3>1. CASE i = 0
      BY <2>1, <3>1
    <3>2. CASE i # 0
      <4>1. i \in 1..n
        BY <3>2, <1>2
      <4>2. QED
        BY <4>1, <2>2, <3>2
    <3>3. QED
      BY <3>1, <3>2
  <2>4. QED
    BY <2>3 DEF g
<1> HIDE DEF g
<1>7. h = Body(h)
  <2>1. \E f : f = Body(f)
    BY <1>6
  <2> HIDE DEF Body
  <2>2. QED
    BY <2>1
<1> HIDE DEF h
<1>8. h[n] = g[n]
  <2> DEFINE S == {i \in 0..n : h[i] # g[i]}
  <2>1. SUFFICES ASSUME S # {} PROVE FALSE
    BY <1>2
  <2>2. PICK k \in S : \A j \in S : k <= j
    <3>1. S \in SUBSET Nat
      BY <1>2
    <3> HIDE DEF S
    <3>2. QED
      BY <2>1, <3>1, LeastNumber
  <2>3. h[0] = map /\ g[0] = map
    BY <1>2, <1>6, <1>7
  <2>4. k \in 1..n
    BY <2>2, <2>3
  <2>5. h[k - 1] = g[k - 1]
    BY <2>2, <2>4
  <2>6. h[k] = hbus_ctx_session_rm(h[k - 1], topics[k], p)
    BY <1>7, <2>4
  <2>7. g[k] = hbus_ctx_session_rm(g[k - 1], topics[k], p)
    BY <1>6, <2>4
  <2>8. QED
    BY <2>2, <2>5, <2>6, <2>7
<1>9. g[n] = SessionRmAll(map, done(n), p)
  BY <1>2 DEF g
<1>10. QED
  <2>1. SessionFree(map, p) = SessionRmAll(map, done(n), p)
    BY <1>5 DEF SessionFree
  <2>2. QED
    BY <1>1, <1>8, <1>9, <2>1

-------------------------------------------------------------------------------
(***************************************************************************)
(* The inductive invariant.                                                *)
(***************************************************************************)

\* No session lists a topic twice, and a free address has no topics.
TopicLists ==
  \A p \in Ptrs :
    /\ Distinct(buf_topics[p])
    /\ p \notin live => buf_topics[p] = << >>

\* The two copies of the subscriptions are the same relation.
Agree ==
  \A t \in DataTopics, p \in Ptrs :
    Listed(map_topic_sessions, t, p) <=> t \in Range(buf_topics[p])

IndexInv == MapOK(map_topic_sessions) /\ TopicLists /\ Agree

IInv == TypeOK /\ SessionOwnership /\ IndexInv /\ ForwardOnce

\* The key of a data frame is monotone in the data flags and the topic.
LEMMA DataKey ==
  ASSUME NEW d \in Int, NEW tpc \in Int, 0 <= d, d <= 15, 0 <= tpc, tpc <= 65535
  PROVE  /\ 0 * 16777216 + (16 + d) * 65536 + tpc \in Int
         /\ 0 * 16777216 + (16 + 0) * 65536 + 0 <= 0 * 16777216 + (16 + d) * 65536 + tpc
         /\ 0 * 16777216 + (16 + d) * 65536 + tpc <= 0 * 16777216 + (16 + 15) * 65536 + 65535
BY SMT

\* The low nibble of a number.
LEMMA LowNibble == ASSUME NEW f \in Int PROVE f % 16 \in Int /\ 0 <= f % 16 /\ f % 16 <= 15
BY SMT

\* A 16 bit number lies between the bounds of its type.
LEMMA IdBounds ==
  ASSUME NEW n \in UInt16
  PROVE  n \in Int /\ 0 <= n /\ n <= 65535
BY SMTT(30) DEF UInt16

\* 0, the id before REGISTER, is a node id.
LEMMA ZeroIsId == 0 \in UInt16
<1>1. \A b \in Nat : 0 \in 0..b
  BY SMT
<1>2. 65535 \in Nat
  BY SMT
<1>3. QED
  BY <1>1, <1>2, SMT DEF UInt16

\* The fields of a message, from the assumption on Msgs.
LEMMA MessageFields ==
  ASSUME NEW msg \in Msgs
  PROVE  msg.flags \in UInt8 /\ msg.topic \in UInt16 /\ msg.from \in UInt16
<1>1. msg \in Message
  BY BrokerAssumption
<1>2. QED
  BY <1>1 DEF Message

\* A SUB or UNSUB command is always about a data topic.
LEMMA TopicType == ASSUME NEW msg \in Msgs PROVE TopicToSub(msg) \in DataTopics
<1> DEFINE f == msg.flags
           tpc == msg.topic
<1>1. f \in Int
  BY MessageFields, SMT DEF UInt8
<1>2. tpc \in Int /\ 0 <= tpc /\ tpc <= 65535
  BY MessageFields, IdBounds, SMT
<1>3. TopicToSub(msg) = 0 * 16777216 + (16 + (f % 16)) * 65536 + tpc
  BY SMT DEF TopicToSub, HMSG_TOPICEX, HMSG_FLAGS, HMSG_FLAGS_DATA, HMSG_FCMD_DATA
<1>4. /\ FirstDataTopic = 0 * 16777216 + (16 + 0) * 65536 + 0
      /\ LastDataTopic = 0 * 16777216 + (16 + 15) * 65536 + 65535
  BY SMT DEF FirstDataTopic, LastDataTopic, HMSG_TOPICEX, HMSG_FLAGS, HMSG_FCMD_DATA
<1> HIDE DEF f, tpc
<1>5. f % 16 \in Int /\ 0 <= f % 16 /\ f % 16 <= 15
  BY <1>1, LowNibble, SMT
<1>6. /\ TopicToSub(msg) \in Int
      /\ FirstDataTopic <= TopicToSub(msg)
      /\ TopicToSub(msg) <= LastDataTopic
  BY <1>2, <1>3, <1>4, <1>5, DataKey, SMT
<1>7. FirstDataTopic \in Int /\ LastDataTopic \in Int
  BY <1>4, SMT
<1>8. QED
  BY <1>6, <1>7, SMT DEF DataTopics

\* The fields of the history.
LEMMA EventFields ==
  ASSUME NEW name, NEW io, NEW msg, NEW sent
  PROVE  /\ Event(name, io, msg, sent).event = name
         /\ Event(name, io, msg, sent).io = io
         /\ Event(name, io, msg, sent).msg = msg
         /\ Event(name, io, msg, sent).sent = sent
BY DEF Event

\* Sessions under any key are live sessions: the forwarding loop only
\* dereferences allocated memory.
LEMMA ListedIsLive ==
  ASSUME IInv, NEW t
  PROVE  /\ SessionsOf(map_topic_sessions, t) \in Seq(live)
         /\ Distinct(SessionsOf(map_topic_sessions, t))
<1>1. CASE t \in DOMAIN map_topic_sessions
  <2> DEFINE list == map_topic_sessions[t]
  <2>1. list \in Seq(Ptrs) /\ Distinct(list) /\ t \in DataTopics
    BY <1>1 DEF IInv, IndexInv, MapOK
  <2>2. ASSUME NEW i \in 1..Len(list) PROVE list[i] \in live
    <3>1. list[i] \in Ptrs /\ list[i] \in Range(list)
      BY <2>1 DEF Range
    <3>2. t \in Range(buf_topics[list[i]])
      BY <1>1, <2>1, <3>1 DEF IInv, IndexInv, Agree, Listed
    <3>3. Range(<< >>) = {}
      BY DEF Range
    <3>4. QED
      BY <3>1, <3>2, <3>3 DEF IInv, IndexInv, TopicLists
  <2>3. list \in Seq(live)
    <3> HIDE DEF list
    <3> QED  BY <2>1, <2>2, SeqDef
  <2>4. QED
    BY <1>1, <2>1, <2>3 DEF SessionsOf
<1>2. CASE t \notin DOMAIN map_topic_sessions
  BY <1>2 DEF SessionsOf, Distinct
<1>3. QED
  BY <1>1, <1>2

\* The sessions found under a data topic are those that list it.
LEMMA SessionsAgree ==
  ASSUME IInv, NEW t \in DataTopics, NEW p \in Ptrs
  PROVE  p \in Range(SessionsOf(map_topic_sessions, t)) <=> t \in Range(buf_topics[p])
<1>1. Listed(map_topic_sessions, t, p) <=> t \in Range(buf_topics[p])
  BY DEF IInv, IndexInv, Agree
<1>2. p \in Range(SessionsOf(map_topic_sessions, t)) <=> Listed(map_topic_sessions, t, p)
  BY DEF SessionsOf, Listed, Range
<1>3. QED
  BY <1>1, <1>2

\* A loop over the index writes to open connections, to none twice.
LEMMA ReceiversProperties ==
  ASSUME IInv, NEW msg \in Msgs
  PROVE  /\ DOMAIN Receivers(msg) \subseteq Nat
         /\ Distinct(Receivers(msg))
         /\ Range(Receivers(msg)) \subseteq open
<1> DEFINE list == SessionsOf(map_topic_sessions, HMSG_TOPICEX_INMSG(msg))
           sent == Receivers(msg)
<1>1. list \in Seq(live) /\ Distinct(list)
  BY ListedIsLive
<1>2. /\ DOMAIN sent \subseteq DOMAIN list
      /\ \A i \in DOMAIN sent : sent[i] = s_io[list[i]]
  BY DEF Receivers
<1>3. DOMAIN list = 1..Len(list) /\ Len(list) \in Nat
  BY <1>1
<1> HIDE DEF list, sent
<1>4. \A i \in DOMAIN sent : list[i] \in live
  BY <1>1, <1>2, <1>3
<1>5. \A p \in live : s_io[p] \in open /\ ctx[s_io[p]] = p
  BY DEF IInv, SessionOwnership
<1>6. Distinct(sent)
  BY <1>1, <1>2, <1>4, <1>5 DEF Distinct
<1>7. Range(sent) \subseteq open
  BY <1>2, <1>4, <1>5 DEF Range
<1>8. DOMAIN sent \subseteq Nat
  BY <1>2, <1>3
<1>9. QED
  BY <1>6, <1>7, <1>8 DEF sent

-------------------------------------------------------------------------------
\* The invariant holds when the broker starts.
LEMMA InvInit == Init => IInv
<1> SUFFICES ASSUME Init PROVE IInv
  OBVIOUS
<1>1. Range(<< >>) = {} /\ Distinct(<< >>) /\ DOMAIN << >> = {}
  BY DEF Range, Distinct
<1>2. last.event = "start" /\ last.io = NULL /\ last.msg = NULL /\ last.sent = << >>
  BY EventFields DEF Init
<1>3. TypeOK
  BY <1>1, <1>2, ZeroIsId DEF Init, TypeOK
<1>4. SessionOwnership
  BY DEF Init, SessionOwnership
<1>5. IndexInv
  BY <1>1 DEF Init, IndexInv, MapOK, TopicLists, Agree, Listed
<1>6. ForwardOnce
  BY <1>1, <1>2 DEF ForwardOnce
<1>7. QED
  BY <1>3, <1>4, <1>5, <1>6 DEF IInv

\* Every step keeps the types.
LEMMA TypeStep == ASSUME IInv, [Next]_vars PROVE TypeOK'
<1> USE DEF IInv, TypeOK
<1>e. DOMAIN << >> = {} /\ << >> \in Seq(DataTopics)
  OBVIOUS
<1>1. ASSUME NEW io \in IOs, NEW p \in Ptrs, OnAccept(io, p) PROVE TypeOK'
  <2>1. last'.io = io /\ last'.msg = NULL /\ last'.sent = << >>
    BY <1>1, EventFields DEF OnAccept
  <2>2. QED
    BY <1>1, <2>1, <1>e, ZeroIsId DEF OnAccept, hbus_seesion_alloc
<1>2. ASSUME NEW io \in IOs, OnAcceptNoMemory(io) PROVE TypeOK'
  <2>1. last'.io = io /\ last'.msg = NULL /\ last'.sent = << >>
    BY <1>2, EventFields DEF OnAcceptNoMemory
  <2>2. QED
    BY <1>2, <2>1, <1>e DEF OnAcceptNoMemory, session
<1>3. ASSUME NEW io \in IOs, NEW msg \in Msgs, OnReadInvalid(io, msg) PROVE TypeOK'
  <2>1. last'.io = io /\ last'.msg = msg /\ last'.sent = << >>
    BY <1>3, EventFields DEF OnReadInvalid
  <2>2. QED
    BY <1>3, <2>1, <1>e DEF OnReadInvalid, session
<1>4. ASSUME NEW io \in IOs, NEW msg \in Msgs, OnReadForward(io, msg) PROVE TypeOK'
  <2>1. last'.io = io /\ last'.msg = msg /\ last'.sent = Receivers(msg)
    BY <1>4, EventFields DEF OnReadForward
  <2>2. DOMAIN Receivers(msg) \subseteq Nat
    BY ReceiversProperties
  <2>3. \A i \in DOMAIN Receivers(msg) : Receivers(msg)[i] \in IOs
    BY ReceiversProperties DEF Range
  <2>4. QED
    BY <1>4, <2>1, <2>2, <2>3 DEF OnReadForward, session
<1>5. ASSUME NEW io \in IOs, NEW msg \in Msgs, OnReadSubscription(io, msg) PROVE TypeOK'
  <2> DEFINE p == ctx[io]
             t == TopicToSub(msg)
  <2>1. last'.io = io /\ last'.msg = msg /\ last'.sent = << >>
    BY <1>5, EventFields DEF OnReadSubscription, CommandFrame
  <2>2. p \in Ptrs /\ t \in DataTopics
    BY <1>5, TopicType DEF OnReadSubscription
  <2>3. buf_topics' \in [Ptrs -> Seq(DataTopics)]
    <3>1. Append(buf_topics[p], t) \in Seq(DataTopics)
      BY <2>2
    <3>2. RemoveItem(buf_topics[p], t) \in Seq(DataTopics)
      BY <2>2, RemoveItemProperties DEF IndexInv, TopicLists
    <3>3. QED
      BY <1>5, <2>2, <3>1, <3>2 DEF OnReadSubscription, AddSub, RemoveSub
  <2>4. MapOK(map_topic_sessions')
    <3>1. MapOK(hbus_ctx_session_add(map_topic_sessions, t, p))
      BY <2>2, AddProperties DEF IndexInv
    <3>2. MapOK(hbus_ctx_session_rm(map_topic_sessions, t, p))
      BY RmAllProperties DEF IndexInv, hbus_ctx_session_rm
    <3>3. QED
      BY <1>5, <3>1, <3>2 DEF OnReadSubscription, AddSub, RemoveSub, IndexInv
  <2>5. QED
    BY <1>5, <2>1, <2>3, <2>4, <1>e DEF OnReadSubscription, CommandFrame, MapOK
<1>6. ASSUME NEW io \in IOs, NEW msg \in Msgs, OnReadRegister(io, msg) PROVE TypeOK'
  <2>1. last'.io = io /\ last'.msg = msg /\ last'.sent = << >>
    BY <1>6, EventFields DEF OnReadRegister, CommandFrame
  <2>2. node_id' \in [Ptrs -> UInt16]
    BY <1>6, MessageFields DEF OnReadRegister
  <2>3. QED
    BY <1>6, <2>1, <2>2, <1>e DEF OnReadRegister, CommandFrame
<1>7. ASSUME NEW io \in IOs, NEW msg \in Msgs, OnReadUnknown(io, msg) PROVE TypeOK'
  <2>1. last'.io = io /\ last'.msg = msg /\ last'.sent = << >>
    BY <1>7, EventFields DEF OnReadUnknown, CommandFrame
  <2>2. QED
    BY <1>7, <2>1, <1>e DEF OnReadUnknown, CommandFrame
<1>8. ASSUME NEW io \in IOs, NEW msg \in Msgs, OnReadNullSession(io, msg) PROVE TypeOK'
  <2>1. last'.io = io /\ last'.msg = msg /\ last'.sent = << >>
    BY <1>8, EventFields DEF OnReadNullSession, CommandFrame
  <2>2. QED
    BY <1>8, <2>1, <1>e DEF OnReadNullSession, CommandFrame
<1>9. ASSUME NEW io \in IOs, NEW name, NEW msg \in Msgs \cup {NULL},
             CloseSession(io), last' = Event(name, io, msg, << >>)
      PROVE  TypeOK'
  <2>1. last'.io = io /\ last'.msg = msg /\ last'.sent = << >>
    BY <1>9, EventFields
  <2>2. MapOK(map_topic_sessions')
    <3>1. MapOK(SessionFree(map_topic_sessions, ctx[io]))
      BY RmAllProperties DEF IndexInv, SessionFree
    <3>2. QED
      BY <1>9, <3>1 DEF CloseSession, hbus_seesion_free, IndexInv
  <2>3. /\ live' \subseteq Ptrs
        /\ s_io' \in [Ptrs -> IOs \cup {NULL}]
        /\ node_id' \in [Ptrs -> UInt16]
        /\ buf_topics' \in [Ptrs -> Seq(DataTopics)]
    <3>1. CASE hbus_seesion_free(ctx[io])
      BY <3>1, <1>e, ZeroIsId DEF hbus_seesion_free, Release
    <3>2. CASE UNCHANGED session
      BY <3>2 DEF session
    <3>3. QED
      BY <1>9, <3>1, <3>2 DEF CloseSession
  <2>4. open' \subseteq IOs /\ ctx' \in [IOs -> Ptrs \cup {NULL}]
    BY <1>9 DEF CloseSession
  <2>5. process' \in {"running", "crashed"}
    BY <1>9 DEF CloseSession
  <2>6. QED
    BY <2>1, <2>2, <2>3, <2>4, <2>5, <1>e DEF MapOK
<1>10. CASE UNCHANGED vars
  BY <1>10 DEF vars, session
<1>11. QED
  BY <1>1, <1>2, <1>3, <1>4, <1>5, <1>6, <1>7, <1>8, <1>9, <1>10
     DEF Next, OnRead, OnClose, OnOversizeFrame

\* Every step keeps connections and sessions paired.  Only accept and close
\* change the pairing.
LEMMA OwnershipStep == ASSUME IInv, [Next]_vars PROVE SessionOwnership'
<1> USE DEF IInv, TypeOK, SessionOwnership
<1>1. ASSUME NEW io \in IOs, NEW p \in Ptrs, OnAccept(io, p) PROVE SessionOwnership'
  <2>1. /\ io \notin open /\ p \notin live
        /\ open' = open \cup {io} /\ live' = live \cup {p}
        /\ ctx' = [ctx EXCEPT ![io] = p] /\ s_io' = [s_io EXCEPT ![p] = io]
    BY <1>1 DEF OnAccept, hbus_seesion_alloc
  <2>2. \A i \in IOs : ctx'[i] # NULL =>
          i \in open' /\ ctx'[i] \in live' /\ s_io'[ctx'[i]] = i
    BY <2>1
  <2>3. \A q \in live' : s_io'[q] \in open' /\ ctx'[s_io'[q]] = q
    BY <2>1
  <2>4. QED
    BY <2>2, <2>3
<1>2. ASSUME NEW io \in IOs, OnAcceptNoMemory(io) PROVE SessionOwnership'
  BY <1>2 DEF OnAcceptNoMemory, session
<1>3. ASSUME UNCHANGED <<open, ctx, live, s_io>> PROVE SessionOwnership'
  BY <1>3
<1>4. ASSUME NEW io \in IOs, CloseSession(io) PROVE SessionOwnership'
  <2>1. CASE ctx[io] # NULL
    <3>1. /\ open' = open \ {io} /\ live' = live \ {ctx[io]}
          /\ ctx' = [ctx EXCEPT ![io] = NULL] /\ s_io' = [s_io EXCEPT ![ctx[io]] = NULL]
      BY <1>4, <2>1 DEF CloseSession, hbus_seesion_free, Release
    <3>2. \A i \in IOs : ctx'[i] # NULL =>
            i \in open' /\ ctx'[i] \in live' /\ s_io'[ctx'[i]] = i
      BY <2>1, <3>1
    <3>3. \A q \in live' : s_io'[q] \in open' /\ ctx'[s_io'[q]] = q
      BY <2>1, <3>1
    <3>4. QED
      BY <3>2, <3>3
  <2>2. CASE ctx[io] = NULL
    BY <1>4, <2>2, BrokerAssumption DEF CloseSession, session
  <2>3. QED
    BY <2>1, <2>2
<1>5. QED
  BY <1>1, <1>2, <1>3, <1>4
     DEF Next, OnRead, OnClose, OnOversizeFrame, OnReadInvalid, OnReadForward,
         OnReadSubscription, OnReadRegister, OnReadUnknown, OnReadNullSession,
         CommandFrame, vars, session

\* Every step keeps the index and the sessions' lists equal: SUB adds to both,
\* UNSUB and close remove from both.
LEMMA IndexStep == ASSUME IInv, [Next]_vars PROVE IndexInv'
<1> USE DEF IInv, TypeOK
<1>1. ASSUME UNCHANGED <<live, buf_topics, map_topic_sessions>> PROVE IndexInv'
  BY <1>1 DEF IndexInv, TopicLists, Agree
<1>e. Range(<< >>) = {} /\ Distinct(<< >>)
  BY DEF Range, Distinct
<1>2. ASSUME NEW io \in IOs, NEW p \in Ptrs, OnAccept(io, p) PROVE IndexInv'
  <2>1. buf_topics[p] = << >>
    BY <1>2 DEF OnAccept, hbus_seesion_alloc, IndexInv, TopicLists
  <2>2. buf_topics' = buf_topics
    BY <1>2, <2>1 DEF OnAccept, hbus_seesion_alloc
  <2>3. live \subseteq live' /\ map_topic_sessions' = map_topic_sessions
    BY <1>2 DEF OnAccept, hbus_seesion_alloc
  <2>4. QED
    BY <2>2, <2>3 DEF IndexInv, TopicLists, Agree
<1>3. ASSUME NEW p \in live, NEW t \in DataTopics, AddSub(p, t), live' = live
      PROVE  IndexInv'
  <2>1. CASE t \in Range(buf_topics[p])
    BY <1>1, <1>3, <2>1 DEF AddSub
  <2>2. CASE t \notin Range(buf_topics[p])
    <3> DEFINE list == Append(buf_topics[p], t)
    <3>1. /\ map_topic_sessions' = hbus_ctx_session_add(map_topic_sessions, t, p)
          /\ buf_topics' = [buf_topics EXCEPT ![p] = list]
      BY <1>3, <2>2 DEF AddSub
    <3>2. Distinct(list) /\ Range(list) = Range(buf_topics[p]) \cup {t}
      BY <2>2, AppendItem DEF IndexInv, TopicLists
    <3> HIDE DEF list
    <3>3. /\ MapOK(map_topic_sessions')
          /\ \A u, q : Listed(map_topic_sessions', u, q)
                         <=> (Listed(map_topic_sessions, u, q) \/ (u = t /\ q = p))
      BY <3>1, AddProperties DEF IndexInv
    <3>4. TopicLists'
      BY <1>3, <3>1, <3>2 DEF IndexInv, TopicLists
    <3>5. Agree'
      <4> SUFFICES ASSUME NEW u \in DataTopics, NEW q \in Ptrs
                   PROVE  Listed(map_topic_sessions', u, q) <=> u \in Range(buf_topics'[q])
        BY DEF Agree
      <4>1. Listed(map_topic_sessions, u, q) <=> u \in Range(buf_topics[q])
        BY DEF IndexInv, Agree
      <4>2. CASE q = p
        BY <3>1, <3>2, <3>3, <4>1, <4>2
      <4>3. CASE q # p
        BY <3>1, <3>3, <4>1, <4>3
      <4>4. QED
        BY <4>2, <4>3
    <3>6. QED
      BY <3>3, <3>4, <3>5 DEF IndexInv
  <2>3. QED
    BY <2>1, <2>2
<1>4. ASSUME NEW p \in live, NEW t \in DataTopics, RemoveSub(p, t), live' = live
      PROVE  IndexInv'
  <2>1. CASE t \notin Range(buf_topics[p])
    BY <1>1, <1>4, <2>1 DEF RemoveSub
  <2>2. CASE t \in Range(buf_topics[p])
    <3> DEFINE list == RemoveItem(buf_topics[p], t)
    <3>1. /\ map_topic_sessions' = SessionRmAll(map_topic_sessions, {t}, p)
          /\ buf_topics' = [buf_topics EXCEPT ![p] = list]
      BY <1>4, <2>2 DEF RemoveSub, hbus_ctx_session_rm
    <3>2. Distinct(list) /\ Range(list) = Range(buf_topics[p]) \ {t}
      BY RemoveItemProperties DEF IndexInv, TopicLists
    <3> HIDE DEF list
    <3>3. /\ MapOK(map_topic_sessions')
          /\ \A u, q : Listed(map_topic_sessions', u, q)
                         <=> (Listed(map_topic_sessions, u, q) /\ ~(u \in {t} /\ q = p))
      BY <3>1, RmAllProperties DEF IndexInv
    <3>4. TopicLists'
      BY <1>4, <3>1, <3>2 DEF IndexInv, TopicLists
    <3>5. Agree'
      <4> SUFFICES ASSUME NEW u \in DataTopics, NEW q \in Ptrs
                   PROVE  Listed(map_topic_sessions', u, q) <=> u \in Range(buf_topics'[q])
        BY DEF Agree
      <4>1. Listed(map_topic_sessions, u, q) <=> u \in Range(buf_topics[q])
        BY DEF IndexInv, Agree
      <4>2. CASE q = p
        BY <3>1, <3>2, <3>3, <4>1, <4>2
      <4>3. CASE q # p
        BY <3>1, <3>3, <4>1, <4>3
      <4>4. QED
        BY <4>2, <4>3
    <3>6. QED
      BY <3>3, <3>4, <3>5 DEF IndexInv
  <2>3. QED
    BY <2>1, <2>2
<1>5. ASSUME NEW io \in IOs, NEW msg \in Msgs, OnReadSubscription(io, msg) PROVE IndexInv'
  <2>1. ctx[io] \in live /\ live' = live /\ TopicToSub(msg) \in DataTopics
    BY <1>5, TopicType DEF OnReadSubscription, CommandFrame, SessionOwnership
  <2>2. AddSub(ctx[io], TopicToSub(msg)) \/ RemoveSub(ctx[io], TopicToSub(msg))
    BY <1>5 DEF OnReadSubscription
  <2>3. QED
    BY <2>1, <2>2, <1>3, <1>4
<1>6. ASSUME NEW io \in IOs, CloseSession(io) PROVE IndexInv'
  <2>1. CASE ctx[io] = NULL
    BY <1>1, <1>6, <2>1 DEF CloseSession, session
  <2>2. CASE ctx[io] # NULL
    <3> DEFINE p == ctx[io]
               T == Range(buf_topics[p])
    <3>1. /\ map_topic_sessions' = SessionRmAll(map_topic_sessions, T, p)
          /\ live' = live \ {p}
          /\ buf_topics' = [buf_topics EXCEPT ![p] = << >>]
      BY <1>6, <2>2 DEF CloseSession, hbus_seesion_free, Release, SessionFree
    <3>2. /\ MapOK(map_topic_sessions')
          /\ \A u, q : Listed(map_topic_sessions', u, q)
                         <=> (Listed(map_topic_sessions, u, q) /\ ~(u \in T /\ q = p))
      BY <3>1, RmAllProperties DEF IndexInv
    <3>3. p \in Ptrs
      BY <2>2
    <3> HIDE DEF p
    <3>4. TopicLists'
      BY <3>1, <3>3, <1>e DEF IndexInv, TopicLists
    <3>5. Agree'
      <4> SUFFICES ASSUME NEW u \in DataTopics, NEW q \in Ptrs
                   PROVE  Listed(map_topic_sessions', u, q) <=> u \in Range(buf_topics'[q])
        BY DEF Agree
      <4>1. Listed(map_topic_sessions, u, q) <=> u \in Range(buf_topics[q])
        BY DEF IndexInv, Agree
      <4>2. CASE q = p
        BY <3>1, <3>2, <3>3, <4>1, <4>2, <1>e
      <4>3. CASE q # p
        BY <3>1, <3>2, <4>1, <4>3
      <4>4. QED
        BY <4>2, <4>3
    <3>6. QED
      BY <3>2, <3>4, <3>5 DEF IndexInv
  <2>3. QED
    BY <2>1, <2>2
<1>7. QED
  BY <1>1, <1>2, <1>5, <1>6
     DEF Next, OnAcceptNoMemory, OnRead, OnClose, OnOversizeFrame, OnReadInvalid,
         OnReadForward, OnReadRegister, OnReadUnknown, OnReadNullSession,
         CommandFrame, vars, session

\* Every step leaves a history that no connection was written to twice in.
LEMMA ForwardStep == ASSUME IInv, [Next]_vars PROVE ForwardOnce'
<1>1. ASSUME NEW name, NEW io, NEW msg, last' = Event(name, io, msg, << >>)
      PROVE  ForwardOnce'
  <2>1. last'.sent = << >>
    BY <1>1, EventFields
  <2>2. Distinct(<< >>) /\ Range(<< >>) = {}
    BY DEF Distinct, Range
  <2>3. QED
    BY <2>1, <2>2 DEF ForwardOnce
<1>2. ASSUME NEW io \in IOs, NEW msg \in Msgs, OnReadForward(io, msg) PROVE ForwardOnce'
  <2>1. last'.sent = Receivers(msg) /\ open' = open
    BY <1>2, EventFields DEF OnReadForward
  <2>2. QED
    BY <2>1, ReceiversProperties DEF ForwardOnce
<1>3. CASE UNCHANGED vars
  BY <1>3 DEF vars, ForwardOnce, IInv
<1>4. QED
  BY <1>1, <1>2, <1>3
     DEF Next, OnAccept, OnAcceptNoMemory, OnRead, OnClose, OnOversizeFrame,
         OnReadInvalid, OnReadSubscription, OnReadRegister, OnReadUnknown,
         OnReadNullSession, CommandFrame

-------------------------------------------------------------------------------
(***************************************************************************)
(* The theorems.                                                           *)
(***************************************************************************)

\* The invariant above holds in every reachable state of the broker.
THEOREM Invariance == Spec => []IInv
<1>1. IInv /\ [Next]_vars => IInv'
  BY TypeStep, OwnershipStep, IndexStep, ForwardStep DEF IInv
<1>2. QED
  BY <1>1, InvInit, PTL DEF Spec

\* The structs of hbroker.c keep their types; subscriptions are always about
\* data topics.
THEOREM TypeCorrect == Spec => []TypeOK
<1>1. IInv => TypeOK
  BY DEF IInv
<1>2. QED
  BY <1>1, Invariance, PTL

\* on_accept and on_close neither leak nor share a session, for any number of
\* connections and however addresses are reused.
THEOREM SessionsAreOwned == Spec => []SessionOwnership
<1>1. IInv => SessionOwnership
  BY DEF IInv
<1>2. QED
  BY <1>1, Invariance, PTL

\* No pointer of the topic index dangles, in any history of accepts,
\* subscriptions and closes.
THEOREM NoDanglingPointer == Spec => []IndexIsLive
<1>1. IInv => IndexIsLive
  <2> SUFFICES ASSUME IInv, NEW t \in DOMAIN map_topic_sessions
               PROVE  /\ map_topic_sessions[t] # << >>
                      /\ Distinct(map_topic_sessions[t])
                      /\ \A p \in Range(map_topic_sessions[t]) :
                           p \in live /\ t \in Range(buf_topics[p])
    BY DEF IndexIsLive
  <2>1. /\ t \in DataTopics /\ map_topic_sessions[t] \in Seq(Ptrs)
        /\ map_topic_sessions[t] # << >> /\ Distinct(map_topic_sessions[t])
    BY DEF IInv, IndexInv, MapOK
  <2>2. ASSUME NEW p \in Range(map_topic_sessions[t])
        PROVE  p \in live /\ t \in Range(buf_topics[p])
    <3>1. p \in Ptrs
      BY <2>1 DEF Range
    <3>2. t \in Range(buf_topics[p])
      BY <2>1, <3>1 DEF IInv, IndexInv, Agree, Listed
    <3>3. Range(<< >>) = {}
      BY DEF Range
    <3>4. QED
      BY <3>1, <3>2, <3>3 DEF IInv, IndexInv, TopicLists
  <2>3. QED
    BY <2>1, <2>2
<1>2. QED
  BY <1>1, Invariance, PTL

\* No subscriber is missing from the topic index.
THEOREM NoForgottenSubscriber == Spec => []IndexIsComplete
<1>1. IInv => IndexIsComplete
  <2> SUFFICES ASSUME IInv, NEW p \in live
               PROVE  /\ Distinct(buf_topics[p])
                      /\ \A t \in Range(buf_topics[p]) : Listed(map_topic_sessions, t, p)
    BY DEF IndexIsComplete
  <2>1. p \in Ptrs /\ buf_topics[p] \in Seq(DataTopics)
    BY DEF IInv, TypeOK
  <2>2. Distinct(buf_topics[p])
    BY <2>1 DEF IInv, IndexInv, TopicLists
  <2>3. \A t \in Range(buf_topics[p]) : t \in DataTopics
    BY <2>1 DEF Range
  <2>4. QED
    BY <2>1, <2>2, <2>3 DEF IInv, IndexInv, Agree
<1>2. QED
  BY <1>1, Invariance, PTL

\* The forwarding loop writes a frame at most once to a connection, and only
\* to open ones.
THEOREM ForwardsOnce == Spec => []ForwardOnce
<1>1. IInv => ForwardOnce
  BY DEF IInv
<1>2. QED
  BY <1>1, Invariance, PTL

\* What one client sends, and its leaving, never costs another client a
\* subscription or gives it one.
THEOREM OthersAreUndisturbed == Spec => OthersUndisturbed
<1> DEFINE Kept(p) == \A t : Listed(map_topic_sessions, t, p)
                               <=> Listed(map_topic_sessions', t, p)
<1>1. ASSUME IInv, [Next]_vars
      PROVE  [\A p \in live : s_io[p] # last'.io => Kept(p)]_vars
  <2> USE <1>1 DEF IInv
  <2>1. ASSUME NEW io \in IOs, NEW p \in live, s_io[p] # io
        PROVE  p # ctx[io]
    BY <2>1, BrokerAssumption DEF SessionOwnership, TypeOK
  <2>2. CASE map_topic_sessions' = map_topic_sessions
    BY <2>2
  <2>3. ASSUME NEW io \in IOs, NEW msg \in Msgs, OnReadSubscription(io, msg),
               NEW p \in live, s_io[p] # last'.io
        PROVE  Kept(p)
    <3> DEFINE t == TopicToSub(msg)
    <3>1. p # ctx[io]
      BY <2>1, <2>3, EventFields DEF OnReadSubscription, CommandFrame
    <3>2. ctx[io] \in Ptrs /\ t \in DataTopics /\ MapOK(map_topic_sessions)
      BY <2>3, TopicType DEF OnReadSubscription, TypeOK, IndexInv
    <3>3. \/ map_topic_sessions' = map_topic_sessions
          \/ map_topic_sessions' = hbus_ctx_session_add(map_topic_sessions, t, ctx[io])
          \/ map_topic_sessions' = SessionRmAll(map_topic_sessions, {t}, ctx[io])
      BY <2>3 DEF OnReadSubscription, AddSub, RemoveSub, hbus_ctx_session_rm
    <3> HIDE DEF t
    <3>4. CASE map_topic_sessions' = hbus_ctx_session_add(map_topic_sessions, t, ctx[io])
      BY <3>1, <3>2, <3>4, AddProperties
    <3>5. CASE map_topic_sessions' = SessionRmAll(map_topic_sessions, {t}, ctx[io])
      BY <3>1, <3>2, <3>5, RmAllProperties
    <3>6. QED
      BY <3>3, <3>4, <3>5
  <2>4. ASSUME NEW io \in IOs, CloseSession(io), last'.io = io,
               NEW p \in live, s_io[p] # last'.io
        PROVE  Kept(p)
    <3>1. p # ctx[io]
      BY <2>1, <2>4
    <3>2. \/ map_topic_sessions' = map_topic_sessions
          \/ map_topic_sessions' =
               SessionRmAll(map_topic_sessions, Range(buf_topics[ctx[io]]), ctx[io])
      BY <2>4 DEF CloseSession, hbus_seesion_free, SessionFree
    <3>3. QED
      BY <3>1, <3>2, RmAllProperties DEF IndexInv
  <2>5. \/ map_topic_sessions' = map_topic_sessions
        \/ \E io \in IOs, msg \in Msgs : OnReadSubscription(io, msg)
        \/ \E io \in IOs : CloseSession(io) /\ last'.io = io
    BY EventFields
       DEF Next, OnAccept, OnAcceptNoMemory, OnRead, OnClose, OnOversizeFrame,
         OnReadInvalid, OnReadForward, OnReadRegister, OnReadUnknown,
         OnReadNullSession, vars
  <2>6. QED
    BY <2>2, <2>3, <2>4, <2>5
<1>2. ASSUME IInv, [Next]_vars
      PROVE  [\A p \in live : s_io[p] # last'.io =>
                \A t \in DOMAIN map_topic_sessions \cup DOMAIN map_topic_sessions' :
                  Listed(map_topic_sessions, t, p) <=> Listed(map_topic_sessions', t, p)]_vars
  BY <1>1, <1>2
<1>3. QED
  BY <1>2, Invariance, PTL DEF Spec, OthersUndisturbed

\* The loop of hbus_seesion_free, topic by topic, does what SessionFree does at
\* once: its rounds touch different topics, because a session lists none twice.
THEOREM LoopIsRemoval == Spec => []LoopIsSetRemoval
<1>1. IInv => LoopIsSetRemoval
  <2> SUFFICES ASSUME IInv, NEW p \in live
               PROVE  SessionFreeLoop(map_topic_sessions, p) = SessionFree(map_topic_sessions, p)
    BY DEF LoopIsSetRemoval
  <2>1. /\ map_topic_sessions = [t \in DOMAIN map_topic_sessions |-> map_topic_sessions[t]]
        /\ buf_topics[p] \in Seq(DataTopics) /\ Distinct(buf_topics[p])
    BY DEF IInv, TypeOK, IndexInv, MapOK, TopicLists
  <2>2. QED
    BY <2>1, LoopRemoves
<1>2. QED
  BY <1>1, Invariance, PTL

===============================================================================
