----------------------------- MODULE RequestProofs -----------------------------
(***************************************************************************)
(* Proofs about Request: the slots are exclusive, no wake-up is lost and a *)
(* buffer only ever gets the reply to its own request, for every number of *)
(* threads, responders, slots and requests.                                *)
(***************************************************************************)
EXTENDS Request, SequenceTheorems, TLAPS

\* Where a thread holds its slot's mutex.
Holding == {"cas", "setup", "send", "wait", "timedwait", "finish"}

\* Where the slot points to the thread's seq and buffer.
Published == Owning \ {"setup"}

MutexHeld ==
  /\ \A t \in Threads : pc[t] \in Holding => mtx[SlotAt(t)] = t
  /\ io_pc = "handle" => mtx[SlotOf(io_msg.seq)] = IO

SlotPoints ==
  \A t \in Threads : pc[t] \in Published =>
    ctx_seq[SlotAt(t)] = seq[t] /\ ctx_rep[SlotAt(t)] = t

\* A seq in use belongs to one thread ...
SeqOwner ==
  \A t, u \in Threads :
    pc[t] \in Inside /\ pc[u] \in Inside /\ seq[t] = seq[u] => t = u

\* ... and every message with it answers that thread's request.
SeqNumber ==
  /\ \A t \in Threads, m \in replies :
       pc[t] \in Inside /\ m.seq = seq[t] => m.number = number[t]
  /\ io_pc # "idle" => \A t \in Threads :
       pc[t] \in Inside /\ io_msg.seq = seq[t] => io_msg.number = number[t]

\* The buffer is empty while the slot is BUSY and filled once it is DONE.
BufferFollowsStatus ==
  \A t \in Threads : pc[t] \in Published =>
    /\ ctx_status[SlotAt(t)] = "BUSY" => rep[t] = << >>
    /\ ctx_status[SlotAt(t)] = "DONE" => rep[t] = <<number[t]>>

\* What ret holds on the way out.
RetFollowsWait ==
  \A t \in Threads :
    /\ pc[t] \in (Inside \cup {"subscribe", "seq"}) \ {"relock", "finish"} => ret[t] = "OK"
    /\ pc[t] = "relock" => ret[t] \in {"OK", "ETIMEDOUT"}
    /\ pc[t] = "finish" => \/ ret[t] = "ETIMEDOUT"
                           \/ ret[t] = "EINVAL" /\ tv_msec[t] >= 1000
                           \/ ret[t] = "OK" /\ rep[t] # << >>
    /\ pc[t] \in Owning \ {"setup", "send"} /\ timeout[t] <= 1000 => tv_msec[t] < 1000

\* A slot is BUSY when it has just been taken, and stays what the head of the loop
\* found it to be until the wait: the mutex keeps the IO thread out.
BusyUnderMutex ==
  \A t \in Threads : pc[t] \in {"setup", "timedwait"} => ctx_status[SlotAt(t)] = "BUSY"

\* The inductive invariant, in the order in which its parts are established.
SlotInv == MutexHeld /\ SlotExclusive /\ SlotPoints /\ BusyUnderMutex
SeqInv == SeqOwner /\ SeqNumber /\ NoLostWakeUp
BufferInv == BufferFollowsStatus /\ ReplyIsMine /\ RetFollowsWait /\ OkHasReply
IInv == TypeOK /\ SlotInv /\ NoSlotLeak /\ SeqInv /\ BufferInv

-------------------------------------------------------------------------------
\* seq & (req_ctx_count - 1) is an index into req_ctx.
LEMMA SlotType == ASSUME NEW n \in Nat PROVE SlotOf(n) \in Slots
BY RequestAssumption DEF SlotOf, Slots

\* hnode_time_offset never makes tv_nsec negative.
LEMMA OffsetType ==
  ASSUME NEW now \in 0..999, NEW mill \in Nat
  PROVE  hnode_time_offset([sec |-> 0, msec |-> now], mill).msec \in Nat
<1>1. CASE now + mill >= 1000
  BY <1>1 DEF hnode_time_offset
<1>2. CASE ~(now + mill >= 1000)
  BY <1>2 DEF hnode_time_offset
<1>3. QED
  BY <1>1, <1>2

\* hnode_time_offset gives a valid tv_nsec for timeouts up to one second.
LEMMA DeadlineValid ==
  ASSUME TypeOK, NEW t \in Threads, NEW now \in Clocks, Send(t, now),
         timeout[t] <= 1000
  PROVE  tv_msec'[t] < 1000
<1> DEFINE msec == now + timeout[t]
<1>1. now \in 0..999 /\ timeout[t] \in Nat
  BY RequestAssumption DEF TypeOK
<1>2. tv_msec'[t] = IF msec >= 1000 THEN msec - 1000 ELSE msec
  <2>1. tv_msec'[t] = hnode_time_offset([sec |-> 0, msec |-> now], timeout[t]).msec
    BY DEF Send, TypeOK
  <2>2. CASE msec >= 1000
    BY <2>1, <2>2 DEF hnode_time_offset
  <2>3. CASE ~(msec >= 1000)
    BY <2>1, <2>3 DEF hnode_time_offset
  <2>4. QED
    BY <2>2, <2>3
<1>3. msec \in Nat /\ msec <= 1999
  BY <1>1
<1>4. QED
  BY <1>2, <1>3

\* The places of hnode_request.
Pcs == Inside \cup {"idle", "subscribe", "seq"}

\* The places by name.
LEMMA PcsElements ==
  {"idle", "subscribe", "seq", "trylock", "cas", "setup", "send", "wait",
   "timedwait", "blocked", "relock", "finish"} \subseteq Pcs
BY DEF Pcs, Inside, Owning

\* The assignments every step of hnode_request is made of keep the types.
LEMMA AssignType ==
  ASSUME TypeOK
  PROVE  /\ pc \in [Threads -> Pcs]
         /\ \A t \in Threads : SlotAt(t) \in Slots
         /\ \A t \in Threads, w \in Pcs : Goto(t, w) => pc' \in [Threads -> Pcs]
         /\ \A t \in Threads, c \in Codes : Set(t, c) => ret' \in [Threads -> Codes]
         /\ \A s \in Slots, w \in Threads \cup {IO} :
              Lock(s, w) => mtx' \in [Slots -> Threads \cup {IO, NULL}]
         /\ \A s \in Slots : Unlock(s) => mtx' \in [Slots -> Threads \cup {IO, NULL}]
         /\ \A s \in Slots, v \in {"IDLE", "BUSY", "DONE"} :
              SetStatus(s, v) => ctx_status' \in [Slots -> {"IDLE", "BUSY", "DONE"}]
<1> USE DEF TypeOK
<1>1. pc \in [Threads -> Pcs]
  BY DEF Pcs
<1>2. \A t \in Threads : SlotAt(t) \in Slots
  BY SlotType, RequestAssumption DEF SlotAt, Seqs
<1>3. \A t \in Threads, w \in Pcs : Goto(t, w) => pc' \in [Threads -> Pcs]
  BY <1>1 DEF Goto
<1>4. \A t \in Threads, c \in Codes : Set(t, c) => ret' \in [Threads -> Codes]
  BY DEF Set
<1>5. \A s \in Slots, w \in Threads \cup {IO} :
        Lock(s, w) => mtx' \in [Slots -> Threads \cup {IO, NULL}]
  BY DEF Lock
<1>6. \A s \in Slots : Unlock(s) => mtx' \in [Slots -> Threads \cup {IO, NULL}]
  BY DEF Unlock
<1>7. \A s \in Slots, v \in {"IDLE", "BUSY", "DONE"} :
        SetStatus(s, v) => ctx_status' \in [Slots -> {"IDLE", "BUSY", "DONE"}]
  BY DEF SetStatus
<1>8. QED
  BY <1>1, <1>2, <1>3, <1>4, <1>5, <1>6, <1>7

\* The types hold when the node starts.
LEMMA TypeInit == Init => TypeOK
<1> SUFFICES ASSUME Init PROVE TypeOK
  OBVIOUS
<1> USE RequestAssumption DEF Init
<1>1. 0 \in Seqs /\ 0 \in Numbers
  BY DEF Seqs, Numbers
<1>2. QED
  BY <1>1 DEF TypeOK, Codes, Inside, Owning, Reply

\* Every step of hnode_request and of the IO thread keeps the types.
LEMMA TypeStep == TypeOK /\ [Next]_vars => TypeOK'
<1> SUFFICES ASSUME TypeOK, [Next]_vars PROVE TypeOK'
  OBVIOUS
<1> USE AssignType, PcsElements DEF conn, count, slot, args, ioth
<1>c. {"OK", "EPARAM", "EDISCONNECT", "ETIMEOUT", "ESEND", "EBUSY", "ETIMEDOUT", "EINVAL"} \subseteq Codes
  BY DEF Codes
<1>1. ASSUME NEW t \in Threads, CallRefused(t) PROVE TypeOK'
  BY <1>1, <1>c DEF CallRefused, TypeOK
<1>2. ASSUME NEW t \in Threads, NEW mill \in Timeouts, Call(t, mill) PROVE TypeOK'
  <2>1. timeout' \in [Threads -> Nat]
    BY <1>2, RequestAssumption DEF Call, Clamp, HNODE_REQUEST_TIMEOUT_MAX, TypeOK
  <2>2. pc' \in [Threads -> Pcs] /\ ret' \in [Threads -> Codes]
    BY <1>2, <1>c DEF Call
  <2>3. QED
    BY <1>2, <2>1, <2>2 DEF Call, TypeOK, Pcs
<1>3. ASSUME NEW t \in Threads, SubscribeReply(t) PROVE TypeOK'
  <2>1. pc' \in [Threads -> Pcs]
    BY <1>3 DEF SubscribeReply
  <2>2. QED
    BY <1>3, <2>1 DEF SubscribeReply, TypeOK, Pcs
<1>3a. ASSUME NEW t \in Threads, NEW code \in Codes, SubscribeRefused(t, code) PROVE TypeOK'
  <2>1. pc' \in [Threads -> Pcs] /\ ret' \in [Threads -> Codes]
    BY <1>3a DEF SubscribeRefused, Return
  <2>2. QED
    BY <1>3a, <2>1 DEF SubscribeRefused, TypeOK, Pcs
<1>4. ASSUME NEW t \in Threads, TakeSeq(t) PROVE TypeOK'
  <2>1. ato_req_seq' \in Seqs
    BY <1>4, RequestAssumption DEF TakeSeq, Seqs, TypeOK
  <2>2. issued \in Numbers /\ issued' \in Numbers
    BY <1>4, RequestAssumption DEF TakeSeq, Numbers, TypeOK
  <2>3. pc' \in [Threads -> Pcs]
    BY <1>4 DEF TakeSeq
  <2>4. QED
    BY <1>4, <2>1, <2>2, <2>3 DEF TakeSeq, TypeOK, Pcs
<1>5. ASSUME NEW t \in Threads, TryLock(t) PROVE TypeOK'
  <2>1. pc' \in [Threads -> Pcs] /\ mtx' \in [Slots -> Threads \cup {IO, NULL}]
    BY <1>5 DEF TryLock
  <2>2. QED
    BY <1>5, <2>1 DEF TryLock, TypeOK, Pcs
<1>5a. ASSUME NEW t \in Threads, TryLockBusy(t) PROVE TypeOK'
  <2>1. pc' \in [Threads -> Pcs] /\ ret' \in [Threads -> Codes]
    BY <1>5a, <1>c DEF TryLockBusy, Return
  <2>2. QED
    BY <1>5a, <2>1 DEF TryLockBusy, TypeOK, Pcs
<1>6. ASSUME NEW t \in Threads, CompareExchange(t) PROVE TypeOK'
  <2>1. /\ pc' \in [Threads -> Pcs]
        /\ ctx_status' \in [Slots -> {"IDLE", "BUSY", "DONE"}]
    BY <1>6 DEF CompareExchange
  <2>2. QED
    BY <1>6, <2>1 DEF CompareExchange, TypeOK, Pcs
<1>6a. ASSUME NEW t \in Threads, CompareExchangeBusy(t) PROVE TypeOK'
  <2>1. pc' \in [Threads -> Pcs] /\ ret' \in [Threads -> Codes]
    BY <1>6a, <1>c DEF CompareExchangeBusy, Return
  <2>2. mtx' \in [Slots -> Threads \cup {IO, NULL}]
    BY <1>6a DEF CompareExchangeBusy
  <2>3. QED
    BY <1>6a, <2>1, <2>2 DEF CompareExchangeBusy, TypeOK, Pcs
<1>7. ASSUME NEW t \in Threads, Setup(t) PROVE TypeOK'
  <2>1. pc' \in [Threads -> Pcs]
    BY <1>7 DEF Setup
  <2>2. ctx_seq' \in [Slots -> Seqs] /\ ctx_rep' \in [Slots -> Threads \cup {NULL}]
    BY <1>7 DEF Setup, TypeOK
  <2>3. QED
    BY <1>7, <2>1, <2>2 DEF Setup, TypeOK, Pcs
<1>8. ASSUME NEW t \in Threads, NEW now \in Clocks, Send(t, now) PROVE TypeOK'
  <2>1. replies' \subseteq Reply
    BY <1>8 DEF Send, Reply, TypeOK
  <2>a. now \in 0..999 /\ timeout[t] \in Nat
    BY RequestAssumption DEF TypeOK
  <2>2. hnode_time_offset([sec |-> 0, msec |-> now], timeout[t]).msec \in Nat
    BY ONLY <2>a, OffsetType
  <2>3. tv_msec' \in [Threads -> Nat]
    BY <1>8, <2>2 DEF Send, TypeOK
  <2>4. pc' \in [Threads -> Pcs]
    BY <1>8 DEF Send
  <2>5. QED
    BY <1>8, <2>1, <2>3, <2>4 DEF Send, TypeOK, Pcs
<1>9. ASSUME NEW t \in Threads, Wait(t) PROVE TypeOK'
  <2>1. pc' \in [Threads -> Pcs] /\ mtx' \in [Slots -> Threads \cup {IO, NULL}]
    BY <1>9 DEF Wait
  <2>2. QED
    BY <1>9, <2>1 DEF Wait, TypeOK, Pcs
<1>9a. ASSUME NEW t \in Threads, WaitInvalid(t) PROVE TypeOK'
  <2>1. pc' \in [Threads -> Pcs] /\ ret' \in [Threads -> Codes]
    BY <1>9a, <1>c DEF WaitInvalid
  <2>2. QED
    BY <1>9a, <2>1 DEF WaitInvalid, TypeOK, Pcs
<1>9b. ASSUME NEW t \in Threads, WaitTest(t) PROVE TypeOK'
  <2>1. pc' \in [Threads -> Pcs]
    BY <1>9b DEF WaitTest
  <2>2. QED
    BY <1>9b, <2>1 DEF WaitTest, TypeOK, Pcs
<1>10. ASSUME NEW t \in Threads, Expire(t) \/ SpuriousWakeUp(t) PROVE TypeOK'
  <2>1. pc' \in [Threads -> Pcs] /\ ret' \in [Threads -> Codes]
    BY <1>10, <1>c DEF Expire, SpuriousWakeUp, WakeUp
  <2>2. QED
    BY <1>10, <2>1 DEF Expire, SpuriousWakeUp, WakeUp, TypeOK, Pcs
<1>11. ASSUME NEW t \in Threads, ReLock(t) PROVE TypeOK'
  <2>1. pc' \in [Threads -> Pcs] /\ mtx' \in [Slots -> Threads \cup {IO, NULL}]
    BY <1>11 DEF ReLock
  <2>2. QED
    BY <1>11, <2>1 DEF ReLock, TypeOK, Pcs
<1>12. ASSUME NEW t \in Threads, Finish(t) PROVE TypeOK'
  <2>1. pc' \in [Threads -> Pcs] /\ ret' \in [Threads -> Codes]
    BY <1>12, <1>c DEF Finish, Return
  <2>2. /\ mtx' \in [Slots -> Threads \cup {IO, NULL}]
        /\ ctx_status' \in [Slots -> {"IDLE", "BUSY", "DONE"}]
    BY <1>12 DEF Finish
  <2>3. QED
    BY <1>12, <2>1, <2>2 DEF Finish, TypeOK, Pcs
<1>13. ASSUME OnConnect PROVE TypeOK'
  BY <1>13 DEF OnConnect, TypeOK
<1>14. ASSUME NEW kept \in SUBSET replies, OnClose(kept) PROVE TypeOK'
  BY <1>14 DEF OnClose, TypeOK
<1>15. ASSUME NEW msg \in replies, OnRead(msg) PROVE TypeOK'
  BY <1>15 DEF OnRead, TypeOK
<1>16. ASSUME OnRespondLock PROVE TypeOK'
  <2>1. io_msg \in Reply /\ SlotOf(io_msg.seq) \in Slots
    BY <1>16, SlotType, RequestAssumption DEF OnRespondLock, Reply, Seqs, TypeOK
  <2>2. mtx' \in [Slots -> Threads \cup {IO, NULL}]
    BY <1>16, <2>1 DEF OnRespondLock
  <2>3. QED
    BY <1>16, <2>1, <2>2 DEF OnRespondLock, TypeOK
<1>17. ASSUME NEW s \in Slots, OnRespondAccept(s) PROVE TypeOK'
  <2>1. io_msg.number \in Numbers
    BY <1>17 DEF OnRespondAccept, Reply, TypeOK
  <2>2. ASSUME NEW t \in Threads PROVE rep'[t] \in Seq(Numbers)
    <3>1. CASE t = ctx_rep[s]
      <4>1. rep'[t] = Append(rep[t], io_msg.number)
        BY <1>17, <3>1 DEF OnRespondAccept, TypeOK
      <4>2. rep[t] \in Seq(Numbers)
        BY DEF TypeOK
      <4>3. QED
        BY <4>1, <4>2, <2>1, AppendProperties
    <3>2. CASE t # ctx_rep[s]
      BY <1>17, <3>2 DEF OnRespondAccept, TypeOK
    <3>3. QED
      BY <3>1, <3>2
  <2>3. rep' \in [Threads -> Seq(Numbers)]
    BY <1>17, <2>2 DEF OnRespondAccept, TypeOK
  <2>4. pc' \in [Threads -> Pcs] /\ ret' \in [Threads -> Codes]
    BY <1>17, <1>c DEF OnRespondAccept, TypeOK
  <2>5. /\ mtx' \in [Slots -> Threads \cup {IO, NULL}]
        /\ ctx_status' \in [Slots -> {"IDLE", "BUSY", "DONE"}]
    BY <1>17 DEF OnRespondAccept, OnRespondDone
  <2>6. QED
    BY <1>17, <2>3, <2>4, <2>5 DEF OnRespondAccept, OnRespondDone, TypeOK, Pcs
<1>18. ASSUME NEW s \in Slots, OnRespondDrop(s) PROVE TypeOK'
  <2>1. mtx' \in [Slots -> Threads \cup {IO, NULL}]
    BY <1>18 DEF OnRespondDrop, OnRespondDone
  <2>2. QED
    BY <1>18, <2>1 DEF OnRespondDrop, OnRespondDone, TypeOK
<1>19. CASE UNCHANGED vars
  BY <1>19 DEF vars, TypeOK
<1>20. QED
  BY <1>1, <1>2, <1>3, <1>3a, <1>4, <1>5, <1>5a, <1>6, <1>6a, <1>7, <1>8,
     <1>9, <1>9a, <1>9b, <1>10, <1>11, <1>12, <1>13, <1>14, <1>15, <1>16, <1>17, <1>18, <1>19
     DEF Next, Step, OnRespond

\* hnode_request and the IO thread keep every field in its range.
THEOREM TypeCorrect == Spec => []TypeOK
BY TypeInit, TypeStep, PTL DEF Spec

-------------------------------------------------------------------------------
(***************************************************************************)
(* The inductive invariant.                                                *)
(***************************************************************************)

\* The reply hnode_on_respond accepts goes to the one request that owns the
\* slot; that request is waiting, with an empty buffer, for this very number.
LEMMA AcceptedReply ==
  ASSUME IInv, NEW s \in Slots, OnRespondAccept(s)
  PROVE  \E u \in Threads : /\ pc[u] \in {"blocked", "relock"}
                            /\ SlotAt(u) = s
                            /\ ctx_rep[s] = u
                            /\ io_msg.number = number[u]
                            /\ rep[u] = << >>
                            /\ rep' = [rep EXCEPT ![u] = <<number[u]>>]
<1> USE DEF IInv
<1>1. ctx_status[s] = "BUSY" /\ io_msg.seq = ctx_seq[s] /\ mtx[s] = IO
  BY DEF OnRespondAccept, Expected, SlotInv, MutexHeld
<1>2. PICK u \in Threads : pc[u] \in Owning /\ SlotAt(u) = s
  BY <1>1 DEF NoSlotLeak
<1>3. pc[u] \in {"blocked", "relock"}
  BY <1>1, <1>2, RequestAssumption DEF SlotInv, MutexHeld, Holding, Owning
<1>4. ctx_rep[s] = u /\ io_msg.seq = seq[u]
  BY <1>1, <1>2, <1>3 DEF SlotInv, SlotPoints, Published, Owning
<1>5. io_msg.number = number[u]
  BY <1>2, <1>4 DEF SeqInv, SeqNumber, OnRespondAccept, Inside
<1>6. rep[u] = << >>
  BY <1>1, <1>2, <1>3 DEF BufferInv, BufferFollowsStatus, Published, Owning
<1>7. Append(rep[u], io_msg.number) = <<number[u]>>
  BY <1>5, <1>6
<1>8. rep' = [rep EXCEPT ![u] = <<number[u]>>]
  BY <1>4, <1>7 DEF OnRespondAccept
<1>9. QED
  BY <1>2, <1>3, <1>4, <1>5, <1>6, <1>8

\* Mutexes, owners and slot contents.
LEMMA SlotStep == ASSUME IInv, TypeOK', [Next]_vars PROVE SlotInv'
<1> USE AssignType, SlotType, RequestAssumption
    DEF IInv, TypeOK, SlotAt, Inside, Owning, Holding, Published,
        conn, count, slot, args, ioth, SlotInv, MutexHeld, SlotExclusive, SlotPoints, BusyUnderMutex
<1>1. ASSUME NEW t \in Threads, CallRefused(t) PROVE SlotInv'
  <2>1. UNCHANGED <<mtx, slot, pc, args, ioth>>
    BY <1>1 DEF CallRefused
  <2>2. QED
    BY <2>1
<1>2. ASSUME NEW t \in Threads, NEW mill \in Timeouts, Call(t, mill) PROVE SlotInv'
  <2>1. MutexHeld'
    BY <1>2 DEF Call, Set, Goto
  <2>2. SlotExclusive'
    BY <1>2 DEF Call, Set, Goto
  <2>3. SlotPoints' /\ BusyUnderMutex'
    BY <1>2 DEF Call, Set, Goto
  <2>4. QED
    BY <2>1, <2>2, <2>3
<1>3. ASSUME NEW t \in Threads, SubscribeReply(t) PROVE SlotInv'
  <2>1. MutexHeld'
    BY <1>3 DEF SubscribeReply, Goto
  <2>2. SlotExclusive'
    BY <1>3 DEF SubscribeReply, Goto
  <2>3. SlotPoints' /\ BusyUnderMutex'
    BY <1>3 DEF SubscribeReply, Goto
  <2>4. QED
    BY <2>1, <2>2, <2>3
<1>4. ASSUME NEW t \in Threads, NEW code \in Codes, SubscribeRefused(t, code) PROVE SlotInv'
  <2>1. MutexHeld'
    BY <1>4 DEF SubscribeRefused, Return, Set, Goto
  <2>2. SlotExclusive'
    BY <1>4 DEF SubscribeRefused, Return, Set, Goto
  <2>3. SlotPoints'
    BY <1>4 DEF SubscribeRefused, Return, Set, Goto
  <2>4. BusyUnderMutex'
    BY <1>4 DEF SubscribeRefused, Return, Set, Goto
  <2>5. QED
    BY <2>1, <2>2, <2>3, <2>4
<1>5. ASSUME NEW t \in Threads, TakeSeq(t) PROVE SlotInv'
  BY <1>5 DEF TakeSeq, NotPending, Goto
<1>6. ASSUME NEW t \in Threads, TryLock(t) PROVE SlotInv'
  BY <1>6 DEF TryLock, Lock, Goto
<1>7. ASSUME NEW t \in Threads, TryLockBusy(t) PROVE SlotInv'
  BY <1>7 DEF TryLockBusy, Return, Set, Goto
<1>8. ASSUME NEW t \in Threads, CompareExchange(t) PROVE SlotInv'
  <2>1. MutexHeld'
    BY <1>8 DEF CompareExchange, SetStatus, Goto
  <2>2. SlotExclusive'
    BY <1>8 DEF CompareExchange, SetStatus, Goto
  <2>3. SlotPoints'
    BY <1>8 DEF CompareExchange, SetStatus, Goto
  <2>4. BusyUnderMutex'
    BY <1>8 DEF CompareExchange, SetStatus, Goto
  <2>5. QED
    BY <2>1, <2>2, <2>3, <2>4
<1>9. ASSUME NEW t \in Threads, CompareExchangeBusy(t) PROVE SlotInv'
  BY <1>9 DEF CompareExchangeBusy, Unlock, Return, Set, Goto
<1>10. ASSUME NEW t \in Threads, Setup(t) PROVE SlotInv'
  BY <1>10 DEF Setup, Goto
<1>11. ASSUME NEW t \in Threads, NEW now \in Clocks, Send(t, now) PROVE SlotInv'
  BY <1>11 DEF Send, Goto
<1>12. ASSUME NEW t \in Threads, Wait(t) PROVE SlotInv'
  BY <1>12 DEF Wait, Unlock, Goto
<1>13. ASSUME NEW t \in Threads, WaitInvalid(t) PROVE SlotInv'
  BY <1>13 DEF WaitInvalid, Set, Goto
<1>14. ASSUME NEW t \in Threads, WaitTest(t) PROVE SlotInv'
  BY <1>14 DEF WaitTest, Goto
<1>15. ASSUME NEW t \in Threads, NEW code \in {"OK", "ETIMEDOUT"}, WakeUp(t, code) PROVE SlotInv'
  BY <1>15 DEF WakeUp, Set, Goto
<1>16. ASSUME NEW t \in Threads, ReLock(t) PROVE SlotInv'
  BY <1>16 DEF ReLock, Lock, Goto
<1>17. ASSUME NEW t \in Threads, Finish(t) PROVE SlotInv'
  BY <1>17 DEF Finish, SetStatus, Unlock, Return, Set, Goto
<1>18. ASSUME OnConnect PROVE SlotInv'
  BY <1>18 DEF OnConnect
<1>19. ASSUME NEW kept \in SUBSET replies, OnClose(kept) PROVE SlotInv'
  BY <1>19 DEF OnClose
<1>20. ASSUME NEW msg \in replies, OnRead(msg) PROVE SlotInv'
  BY <1>20 DEF OnRead
<1>21. ASSUME OnRespondLock PROVE SlotInv'
  BY <1>21 DEF OnRespondLock, Lock
<1>22. ASSUME NEW s \in Slots, OnRespondAccept(s) PROVE SlotInv'
  <2>1. \A t \in Threads : pc'[t] # pc[t] => pc[t] = "blocked" /\ pc'[t] = "relock"
    BY <1>22 DEF OnRespondAccept, Signalled
  <2>2. mtx[s] = IO /\ mtx' = [mtx EXCEPT ![s] = NULL]
    BY <1>22 DEF OnRespondAccept, OnRespondDone, Unlock
  <2>3. ctx_status' = [ctx_status EXCEPT ![s] = "DONE"] /\ UNCHANGED <<ctx_seq, ctx_rep, seq>>
    BY <1>22 DEF OnRespondAccept, OnRespondDone, SetStatus
  <2>4. MutexHeld'
    BY <1>22, <2>1, <2>2, <2>3 DEF OnRespondAccept, OnRespondDone
  <2>a. \A t \in Threads : pc'[t] \in Owning <=> pc[t] \in Owning
    BY <2>1
  <2>5. SlotExclusive'
    BY ONLY <2>a, <2>3, IInv, SlotType, \A t \in Threads : SlotAt(t) \in Slots,
         ctx_status \in [Slots -> {"IDLE", "BUSY", "DONE"}]
       DEF SlotExclusive, IInv, SlotInv, SlotAt
  <2>6. SlotPoints'
    BY <2>1, <2>3
  <2>7. BusyUnderMutex'
    BY <2>1, <2>2, <2>3
  <2>8. QED
    BY <2>4, <2>5, <2>6, <2>7
<1>23. ASSUME NEW s \in Slots, OnRespondDrop(s) PROVE SlotInv'
  BY <1>23 DEF OnRespondDrop, OnRespondDone, Unlock
<1>24. CASE UNCHANGED vars
  BY <1>24 DEF vars
<1>25. QED
  <2> HIDE DEF SlotInv, IInv, TypeOK, conn, count, slot, args, ioth
  <2>1. ASSUME NEW t \in Threads, Step(t) PROVE SlotInv'
    BY ONLY <2>1, t \in Threads, <1>3, <1>4, <1>5, <1>6, <1>7, <1>8, <1>9, <1>10, <1>11,
       <1>12, <1>13, <1>14, <1>16, <1>17 DEF Step
  <2>2. ASSUME OnRespond PROVE SlotInv'
    BY ONLY <2>2, <1>21, <1>22, <1>23 DEF OnRespond
  <2>3. ASSUME NEW t \in Threads, Expire(t) \/ SpuriousWakeUp(t) PROVE SlotInv'
    BY ONLY <2>3, t \in Threads, <1>15 DEF Expire, SpuriousWakeUp
  <2>4. QED
    BY ONLY [Next]_vars, <1>1, <1>2, <2>1, <2>2, <2>3, <1>18, <1>19, <1>20, <1>24 DEF Next

\* Every slot in use has its owner.  Only the CAS, the release and an accepted
\* reply change a status; all other steps keep every owner in place.
LEMMA LeakStep == ASSUME IInv, TypeOK', [Next]_vars PROVE NoSlotLeak'
<1> DEFINE Kept == \A v \in Threads : pc[v] \in Owning => pc'[v] \in Owning /\ seq'[v] = seq[v]
<1>t. /\ pc \in [Threads -> Pcs] /\ seq \in [Threads -> Seqs]
      /\ ctx_status \in [Slots -> {"IDLE", "BUSY", "DONE"}]
      /\ \A v \in Threads : SlotAt(v) \in Slots
  BY AssignType DEF IInv, TypeOK
<1>0. ASSUME Kept, \A r \in Slots : ctx_status'[r] # "IDLE" => ctx_status[r] # "IDLE"
      PROVE  NoSlotLeak'
  <2> SUFFICES ASSUME NEW r \in Slots, ctx_status'[r] # "IDLE"
               PROVE  \E v \in Threads : pc'[v] \in Owning /\ SlotOf(seq'[v]) = r
    BY DEF NoSlotLeak, SlotAt
  <2>1. PICK v \in Threads : pc[v] \in Owning /\ SlotAt(v) = r
    BY <1>0 DEF IInv, NoSlotLeak
  <2>2. QED
    BY <1>0, <2>1 DEF SlotAt
<1> USE DEF conn, count, slot, args, ioth
<1>1. ASSUME NEW t \in Threads, CallRefused(t) PROVE NoSlotLeak'
  <2>1. Kept
    BY <1>1, <1>t DEF CallRefused, Owning
  <2>2. ctx_status' = ctx_status
    BY <1>1 DEF CallRefused
  <2>3. QED
    BY <1>0, <2>1, <2>2
<1>2. ASSUME NEW t \in Threads, NEW mill \in Timeouts, Call(t, mill) PROVE NoSlotLeak'
  <2>1. Kept
    BY <1>2, <1>t DEF Call, Goto, Owning
  <2>2. ctx_status' = ctx_status
    BY <1>2 DEF Call
  <2>3. QED
    BY <1>0, <2>1, <2>2
<1>3. ASSUME NEW t \in Threads, SubscribeReply(t) PROVE NoSlotLeak'
  <2>1. Kept
    BY <1>3, <1>t DEF SubscribeReply, Goto, Owning
  <2>2. ctx_status' = ctx_status
    BY <1>3 DEF SubscribeReply
  <2>3. QED
    BY <1>0, <2>1, <2>2
<1>4. ASSUME NEW t \in Threads, NEW code \in Codes, SubscribeRefused(t, code) PROVE NoSlotLeak'
  <2>1. Kept
    BY <1>4, <1>t DEF SubscribeRefused, Return, Goto, Owning
  <2>2. ctx_status' = ctx_status
    BY <1>4 DEF SubscribeRefused
  <2>3. QED
    BY <1>0, <2>1, <2>2
<1>5. ASSUME NEW t \in Threads, TakeSeq(t) PROVE NoSlotLeak'
  <2>1. Kept
    BY <1>5, <1>t DEF TakeSeq, Goto, Owning
  <2>2. ctx_status' = ctx_status
    BY <1>5 DEF TakeSeq
  <2>3. QED
    BY <1>0, <2>1, <2>2
<1>6. ASSUME NEW t \in Threads, TryLock(t) PROVE NoSlotLeak'
  <2>1. Kept
    BY <1>6, <1>t DEF TryLock, Goto, Owning
  <2>2. ctx_status' = ctx_status
    BY <1>6 DEF TryLock
  <2>3. QED
    BY <1>0, <2>1, <2>2
<1>7. ASSUME NEW t \in Threads, TryLockBusy(t) PROVE NoSlotLeak'
  <2>1. Kept
    BY <1>7, <1>t DEF TryLockBusy, Return, Goto, Owning
  <2>2. ctx_status' = ctx_status
    BY <1>7 DEF TryLockBusy
  <2>3. QED
    BY <1>0, <2>1, <2>2
<1>8. ASSUME NEW t \in Threads, CompareExchange(t) PROVE NoSlotLeak'
  <2>1. /\ ctx_status' = [ctx_status EXCEPT ![SlotAt(t)] = "BUSY"]
        /\ pc' = [pc EXCEPT ![t] = "setup"] /\ seq' = seq
    BY <1>8 DEF CompareExchange, SetStatus, Goto
  <2> SUFFICES ASSUME NEW r \in Slots, ctx_status'[r] # "IDLE"
               PROVE  \E v \in Threads : pc'[v] \in Owning /\ SlotOf(seq'[v]) = r
    BY DEF NoSlotLeak, SlotAt
  <2>2. CASE r = SlotAt(t)
    BY <1>t, <2>1, <2>2 DEF Owning, SlotAt
  <2>3. CASE r # SlotAt(t)
    <3>1. PICK v \in Threads : pc[v] \in Owning /\ SlotAt(v) = r
      BY <1>t, <2>1, <2>3 DEF IInv, NoSlotLeak
    <3>2. QED
      BY <1>t, <2>1, <3>1 DEF Owning, SlotAt
  <2>4. QED
    BY <2>2, <2>3
<1>9. ASSUME NEW t \in Threads, CompareExchangeBusy(t) PROVE NoSlotLeak'
  <2>1. Kept
    BY <1>9, <1>t DEF CompareExchangeBusy, Return, Goto, Owning
  <2>2. ctx_status' = ctx_status
    BY <1>9 DEF CompareExchangeBusy
  <2>3. QED
    BY <1>0, <2>1, <2>2
<1>10. ASSUME NEW t \in Threads, Setup(t) PROVE NoSlotLeak'
  <2>1. Kept
    BY <1>10, <1>t DEF Setup, Goto, Owning
  <2>2. ctx_status' = ctx_status
    BY <1>10 DEF Setup
  <2>3. QED
    BY <1>0, <2>1, <2>2
<1>11. ASSUME NEW t \in Threads, NEW now \in Clocks, Send(t, now) PROVE NoSlotLeak'
  <2>1. Kept
    BY <1>11, <1>t DEF Send, Goto, Owning
  <2>2. ctx_status' = ctx_status
    BY <1>11 DEF Send
  <2>3. QED
    BY <1>0, <2>1, <2>2
<1>12. ASSUME NEW t \in Threads, Wait(t) PROVE NoSlotLeak'
  <2>1. Kept
    BY <1>12, <1>t DEF Wait, Goto, Owning
  <2>2. ctx_status' = ctx_status
    BY <1>12 DEF Wait
  <2>3. QED
    BY <1>0, <2>1, <2>2
<1>13. ASSUME NEW t \in Threads, WaitInvalid(t) PROVE NoSlotLeak'
  <2>1. Kept
    BY <1>13, <1>t DEF WaitInvalid, Goto, Owning
  <2>2. ctx_status' = ctx_status
    BY <1>13 DEF WaitInvalid
  <2>3. QED
    BY <1>0, <2>1, <2>2
<1>14. ASSUME NEW t \in Threads, WaitTest(t) PROVE NoSlotLeak'
  <2>1. Kept
    BY <1>14, <1>t DEF WaitTest, Goto, Owning
  <2>2. ctx_status' = ctx_status
    BY <1>14 DEF WaitTest
  <2>3. QED
    BY <1>0, <2>1, <2>2
<1>15. ASSUME NEW t \in Threads, NEW code \in {"OK", "ETIMEDOUT"}, WakeUp(t, code) PROVE NoSlotLeak'
  <2>1. Kept
    BY <1>15, <1>t DEF WakeUp, Goto, Owning
  <2>2. ctx_status' = ctx_status
    BY <1>15 DEF WakeUp
  <2>3. QED
    BY <1>0, <2>1, <2>2
<1>16. ASSUME NEW t \in Threads, ReLock(t) PROVE NoSlotLeak'
  <2>1. Kept
    BY <1>16, <1>t DEF ReLock, Goto, Owning
  <2>2. ctx_status' = ctx_status
    BY <1>16 DEF ReLock
  <2>3. QED
    BY <1>0, <2>1, <2>2
<1>17. ASSUME NEW t \in Threads, Finish(t) PROVE NoSlotLeak'
  <2>1. /\ ctx_status' = [ctx_status EXCEPT ![SlotAt(t)] = "IDLE"]
        /\ pc' = [pc EXCEPT ![t] = "idle"] /\ seq' = seq
    BY <1>17 DEF Finish, SetStatus, Return, Goto
  <2> SUFFICES ASSUME NEW r \in Slots, ctx_status'[r] # "IDLE"
               PROVE  \E v \in Threads : pc'[v] \in Owning /\ SlotOf(seq'[v]) = r
    BY DEF NoSlotLeak, SlotAt
  <2>2. r # SlotAt(t) /\ ctx_status[r] # "IDLE"
    BY <1>t, <2>1
  <2>3. PICK v \in Threads : pc[v] \in Owning /\ SlotAt(v) = r
    BY <2>2 DEF IInv, NoSlotLeak
  <2>4. QED
    BY <1>t, <2>1, <2>2, <2>3 DEF SlotAt
<1>18. ASSUME OnConnect PROVE NoSlotLeak'
  <2>1. Kept
    BY <1>18, <1>t DEF OnConnect, Owning
  <2>2. ctx_status' = ctx_status
    BY <1>18 DEF OnConnect
  <2>3. QED
    BY <1>0, <2>1, <2>2
<1>19. ASSUME NEW kept \in SUBSET replies, OnClose(kept) PROVE NoSlotLeak'
  <2>1. Kept
    BY <1>19, <1>t DEF OnClose, Owning
  <2>2. ctx_status' = ctx_status
    BY <1>19 DEF OnClose
  <2>3. QED
    BY <1>0, <2>1, <2>2
<1>20. ASSUME NEW msg \in replies, OnRead(msg) PROVE NoSlotLeak'
  <2>1. Kept
    BY <1>20, <1>t DEF OnRead, Owning
  <2>2. ctx_status' = ctx_status
    BY <1>20 DEF OnRead
  <2>3. QED
    BY <1>0, <2>1, <2>2
<1>21. ASSUME OnRespondLock PROVE NoSlotLeak'
  <2>1. Kept
    BY <1>21, <1>t DEF OnRespondLock, Owning
  <2>2. ctx_status' = ctx_status
    BY <1>21 DEF OnRespondLock
  <2>3. QED
    BY <1>0, <2>1, <2>2
<1>22. ASSUME NEW s \in Slots, OnRespondAccept(s) PROVE NoSlotLeak'
  <2>1. ctx_status[s] = "BUSY" /\ ctx_status' = [ctx_status EXCEPT ![s] = "DONE"]
    BY <1>22 DEF OnRespondAccept, Expected, SetStatus
  <2>2. Kept
    BY <1>22, <1>t DEF OnRespondAccept, OnRespondDone, Owning
  <2>3. QED
    BY <1>0, <1>t, <2>1, <2>2
<1>23. ASSUME NEW s \in Slots, OnRespondDrop(s) PROVE NoSlotLeak'
  <2>1. Kept
    BY <1>23, <1>t DEF OnRespondDrop, OnRespondDone, Owning
  <2>2. ctx_status' = ctx_status
    BY <1>23 DEF OnRespondDrop, OnRespondDone
  <2>3. QED
    BY <1>0, <2>1, <2>2
<1>24. ASSUME UNCHANGED vars PROVE NoSlotLeak'
  <2>1. Kept
    BY <1>24, <1>t DEF vars, Owning
  <2>2. ctx_status' = ctx_status
    BY <1>24 DEF vars
  <2>3. QED
    BY <1>0, <2>1, <2>2
<1>25. QED
  <2> HIDE DEF conn, count, slot, args, ioth
  <2>1. ASSUME NEW t \in Threads, Step(t) PROVE NoSlotLeak'
    BY ONLY <2>1, t \in Threads, <1>3, <1>4, <1>5, <1>6, <1>7, <1>8, <1>9, <1>10, <1>11,
       <1>12, <1>13, <1>14, <1>16, <1>17 DEF Step
  <2>2. ASSUME OnRespond PROVE NoSlotLeak'
    BY ONLY <2>2, <1>21, <1>22, <1>23 DEF OnRespond
  <2>3. ASSUME NEW t \in Threads, Expire(t) \/ SpuriousWakeUp(t) PROVE NoSlotLeak'
    BY ONLY <2>3, t \in Threads, <1>15 DEF Expire, SpuriousWakeUp
  <2>4. QED
    BY ONLY [Next]_vars, <1>1, <1>2, <2>1, <2>2, <2>3, <1>18, <1>19, <1>20, <1>24 DEF Next

\* A seq number is taken: nobody else uses it and no reply carries it.
LEMMA TakeSeqStep == ASSUME IInv, NEW t \in Threads, TakeSeq(t) PROVE SeqInv'
<1> DEFINE n == ato_req_seq
<1>t. pc \in [Threads -> Pcs] /\ seq \in [Threads -> Seqs] /\ number \in [Threads -> Numbers]
  BY AssignType DEF IInv, TypeOK
<1>i. SeqOwner /\ SeqNumber /\ NoLostWakeUp
  BY DEF IInv, SeqInv
<1>1. /\ pc' = [pc EXCEPT ![t] = "trylock"]
      /\ seq' = [seq EXCEPT ![t] = n]
      /\ number' = [number EXCEPT ![t] = issued]
      /\ UNCHANGED <<replies, io_pc, io_msg, ctx_status>>
  BY DEF TakeSeq, Goto, ioth, slot
<1>2. /\ \A u \in Threads : pc[u] \in Inside => seq[u] # n
      /\ \A m \in replies : m.seq # n
      /\ io_pc # "idle" => io_msg.seq # n
  BY DEF TakeSeq, NotPending
<1> HIDE DEF n
<1>3. \A u \in Threads : u # t => pc'[u] = pc[u] /\ seq'[u] = seq[u] /\ number'[u] = number[u]
  BY <1>1, <1>t
<1>4. pc'[t] = "trylock" /\ seq'[t] = n
  BY <1>1, <1>t
<1>5. SeqOwner'
  BY <1>2, <1>3, <1>4, <1>i DEF SeqOwner
<1>6. SeqNumber'
  <2>1. replies' = replies /\ io_pc' = io_pc /\ io_msg' = io_msg
    BY <1>1
  <2>2. \A v \in Threads, m \in replies :
          pc'[v] \in Inside /\ m.seq = seq'[v] => m.number = number'[v]
    BY <1>2, <1>3, <1>4, <1>i DEF SeqNumber
  <2>3. io_pc # "idle" => \A v \in Threads :
          pc'[v] \in Inside /\ io_msg.seq = seq'[v] => io_msg.number = number'[v]
    BY <1>2, <1>3, <1>4, <1>i DEF SeqNumber
  <2>4. QED
    BY <2>1, <2>2, <2>3 DEF SeqNumber
<1>7. NoLostWakeUp'
  BY <1>1, <1>3, <1>4, <1>i DEF NoLostWakeUp, SlotAt
<1>8. QED
  BY <1>5, <1>6, <1>7 DEF SeqInv

\* Seq numbers in use, and the wake-ups.
LEMMA SeqStep == ASSUME IInv, TypeOK', [Next]_vars PROVE SeqInv'
<1> USE AssignType, SlotType, RequestAssumption
    DEF IInv, TypeOK, SlotAt, Inside, Owning, Holding, Published,
        conn, count, slot, args, ioth, SeqInv, SeqOwner, SeqNumber, NoLostWakeUp,
        SlotInv, SlotExclusive, MutexHeld, BusyUnderMutex
<1>1. ASSUME NEW t \in Threads, CallRefused(t) PROVE SeqInv'
  BY <1>1 DEF CallRefused, Set
<1>2. ASSUME NEW t \in Threads, NEW mill \in Timeouts, Call(t, mill) PROVE SeqInv'
  BY <1>2 DEF Call, Set, Goto
<1>3. ASSUME NEW t \in Threads, SubscribeReply(t) PROVE SeqInv'
  BY <1>3 DEF SubscribeReply, Goto
<1>4. ASSUME NEW t \in Threads, NEW code \in Codes, SubscribeRefused(t, code) PROVE SeqInv'
  BY <1>4 DEF SubscribeRefused, Return, Set, Goto
<1>5. ASSUME NEW t \in Threads, TakeSeq(t) PROVE SeqInv'
  BY <1>5, TakeSeqStep
<1>6. ASSUME NEW t \in Threads, TryLock(t) PROVE SeqInv'
  BY <1>6 DEF TryLock, Lock, Goto
<1>7. ASSUME NEW t \in Threads, TryLockBusy(t) PROVE SeqInv'
  BY <1>7 DEF TryLockBusy, Return, Set, Goto
<1>8. ASSUME NEW t \in Threads, CompareExchange(t) PROVE SeqInv'
  BY <1>8 DEF CompareExchange, SetStatus, Goto
<1>9. ASSUME NEW t \in Threads, CompareExchangeBusy(t) PROVE SeqInv'
  BY <1>9 DEF CompareExchangeBusy, Unlock, Return, Set, Goto
<1>10. ASSUME NEW t \in Threads, Setup(t) PROVE SeqInv'
  BY <1>10 DEF Setup, Goto
<1>11. ASSUME NEW t \in Threads, NEW now \in Clocks, Send(t, now) PROVE SeqInv'
  BY <1>11 DEF Send, Goto
<1>12. ASSUME NEW t \in Threads, Wait(t) PROVE SeqInv'
  BY <1>12 DEF Wait, Unlock, Goto
<1>13. ASSUME NEW t \in Threads, WaitInvalid(t) PROVE SeqInv'
  BY <1>13 DEF WaitInvalid, Set, Goto
<1>14. ASSUME NEW t \in Threads, WaitTest(t) PROVE SeqInv'
  BY <1>14 DEF WaitTest, Goto
<1>15. ASSUME NEW t \in Threads, NEW code \in {"OK", "ETIMEDOUT"}, WakeUp(t, code) PROVE SeqInv'
  BY <1>15 DEF WakeUp, Set, Goto
<1>16. ASSUME NEW t \in Threads, ReLock(t) PROVE SeqInv'
  BY <1>16 DEF ReLock, Lock, Goto
<1>17. ASSUME NEW t \in Threads, Finish(t) PROVE SeqInv'
  BY <1>17 DEF Finish, SetStatus, Unlock, Return, Set, Goto
<1>18. ASSUME OnConnect PROVE SeqInv'
  BY <1>18 DEF OnConnect
<1>19. ASSUME NEW kept \in SUBSET replies, OnClose(kept) PROVE SeqInv'
  BY <1>19 DEF OnClose
<1>20. ASSUME NEW msg \in replies, OnRead(msg) PROVE SeqInv'
  BY <1>20 DEF OnRead
<1>21. ASSUME OnRespondLock PROVE SeqInv'
  BY <1>21 DEF OnRespondLock, Lock
<1>22. ASSUME NEW s \in Slots, OnRespondAccept(s) PROVE SeqInv'
  BY <1>22 DEF OnRespondAccept, OnRespondDone, Expected, Signalled, SetStatus, Unlock
<1>23. ASSUME NEW s \in Slots, OnRespondDrop(s) PROVE SeqInv'
  BY <1>23 DEF OnRespondDrop, OnRespondDone, Unlock
<1>24. CASE UNCHANGED vars
  BY <1>24 DEF vars
<1>25. QED
  <2> HIDE DEF SeqInv, IInv, TypeOK, conn, count, slot, args, ioth
  <2>1. ASSUME NEW t \in Threads, Step(t) PROVE SeqInv'
    BY ONLY <2>1, t \in Threads, <1>3, <1>4, <1>5, <1>6, <1>7, <1>8, <1>9, <1>10, <1>11,
       <1>12, <1>13, <1>14, <1>16, <1>17 DEF Step
  <2>2. ASSUME OnRespond PROVE SeqInv'
    BY ONLY <2>2, <1>21, <1>22, <1>23 DEF OnRespond
  <2>3. ASSUME NEW t \in Threads, Expire(t) \/ SpuriousWakeUp(t) PROVE SeqInv'
    BY ONLY <2>3, t \in Threads, <1>15 DEF Expire, SpuriousWakeUp
  <2>4. QED
    BY ONLY [Next]_vars, <1>1, <1>2, <2>1, <2>2, <2>3, <1>18, <1>19, <1>20, <1>24 DEF Next

\* Buffers and return codes.
LEMMA BufferStep == ASSUME IInv, TypeOK', [Next]_vars PROVE BufferInv'
<1> USE AssignType, SlotType, RequestAssumption
    DEF IInv, TypeOK, SlotAt, Inside, Owning, Holding, Published,
        conn, count, slot, args, ioth, BufferInv, BufferFollowsStatus, ReplyIsMine, RetFollowsWait, OkHasReply,
        SlotInv, MutexHeld, SlotExclusive, SlotPoints, BusyUnderMutex
<1>1. ASSUME NEW t \in Threads, CallRefused(t) PROVE BufferInv'
  BY <1>1 DEF CallRefused, Set
<1>2. ASSUME NEW t \in Threads, NEW mill \in Timeouts, Call(t, mill) PROVE BufferInv'
  BY <1>2 DEF Call, Set, Goto
<1>3. ASSUME NEW t \in Threads, SubscribeReply(t) PROVE BufferInv'
  BY <1>3 DEF SubscribeReply, Goto
<1>4. ASSUME NEW t \in Threads, NEW code \in Codes, SubscribeRefused(t, code) PROVE BufferInv'
  BY <1>4 DEF SubscribeRefused, Return, Set, Goto
<1>5. ASSUME NEW t \in Threads, TakeSeq(t) PROVE BufferInv'
  BY <1>5 DEF TakeSeq, NotPending, Goto
<1>6. ASSUME NEW t \in Threads, TryLock(t) PROVE BufferInv'
  BY <1>6 DEF TryLock, Lock, Goto
<1>7. ASSUME NEW t \in Threads, TryLockBusy(t) PROVE BufferInv'
  BY <1>7 DEF TryLockBusy, Return, Set, Goto
<1>8. ASSUME NEW t \in Threads, CompareExchange(t) PROVE BufferInv'
  <2>1. BufferFollowsStatus'
    BY <1>8 DEF CompareExchange, SetStatus, Goto
  <2>2. ReplyIsMine'
    BY <1>8 DEF CompareExchange, SetStatus, Goto
  <2>3. RetFollowsWait'
    BY <1>8 DEF CompareExchange, SetStatus, Goto
  <2>4. OkHasReply'
    BY <1>8 DEF CompareExchange, SetStatus, Goto
  <2>5. QED
    BY <2>1, <2>2, <2>3, <2>4
<1>9. ASSUME NEW t \in Threads, CompareExchangeBusy(t) PROVE BufferInv'
  BY <1>9 DEF CompareExchangeBusy, Unlock, Return, Set, Goto
<1>10. ASSUME NEW t \in Threads, Setup(t) PROVE BufferInv'
  <2>1. BufferFollowsStatus'
    BY <1>10 DEF Setup, Goto
  <2>2. ReplyIsMine' /\ RetFollowsWait' /\ OkHasReply'
    BY <1>10 DEF Setup, Goto
  <2>3. QED
    BY <2>1, <2>2
<1>11. ASSUME NEW t \in Threads, NEW now \in Clocks, Send(t, now) PROVE BufferInv'
  <2>1. timeout[t] <= 1000 => tv_msec'[t] < 1000
    BY <1>11, DeadlineValid
  <2>2. RetFollowsWait'
    BY <1>11, <2>1 DEF Send, Goto
  <2>3. BufferFollowsStatus' /\ ReplyIsMine' /\ OkHasReply'
    BY <1>11 DEF Send, Goto
  <2>4. QED
    BY <2>2, <2>3
<1>12. ASSUME NEW t \in Threads, Wait(t) PROVE BufferInv'
  BY <1>12 DEF Wait, Unlock, Goto
<1>13. ASSUME NEW t \in Threads, WaitInvalid(t) PROVE BufferInv'
  BY <1>13 DEF WaitInvalid, Set, Goto
<1>14. ASSUME NEW t \in Threads, WaitTest(t) PROVE BufferInv'
  <2>1. ASSUME ctx_status[SlotAt(t)] # "BUSY" PROVE rep[t] # << >>
    <3>1. ctx_status[SlotAt(t)] = "DONE"
      BY <1>14, <2>1 DEF WaitTest
    <3>2. rep[t] = <<number[t]>>
      BY <1>14, <3>1 DEF WaitTest
    <3>3. QED
      BY ONLY <3>2
  <2>3. RetFollowsWait'
    BY <1>14, <2>1 DEF WaitTest, Goto
  <2>4. BufferFollowsStatus' /\ ReplyIsMine' /\ OkHasReply'
    BY <1>14 DEF WaitTest, Goto
  <2>5. QED
    BY <2>3, <2>4
<1>15. ASSUME NEW t \in Threads, NEW code \in {"OK", "ETIMEDOUT"}, WakeUp(t, code) PROVE BufferInv'
  BY <1>15 DEF WakeUp, Set, Goto
<1>16. ASSUME NEW t \in Threads, ReLock(t) PROVE BufferInv'
  BY <1>16 DEF ReLock, Lock, Goto
<1>17. ASSUME NEW t \in Threads, Finish(t) PROVE BufferInv'
  BY <1>17 DEF Finish, SetStatus, Unlock, Return, Set, Goto
<1>18. ASSUME OnConnect PROVE BufferInv'
  BY <1>18 DEF OnConnect
<1>19. ASSUME NEW kept \in SUBSET replies, OnClose(kept) PROVE BufferInv'
  BY <1>19 DEF OnClose
<1>20. ASSUME NEW msg \in replies, OnRead(msg) PROVE BufferInv'
  BY <1>20 DEF OnRead
<1>21. ASSUME OnRespondLock PROVE BufferInv'
  BY <1>21 DEF OnRespondLock, Lock
<1>22. ASSUME NEW s \in Slots, OnRespondAccept(s) PROVE BufferInv'
  <2>1. PICK u \in Threads : /\ pc[u] \in {"blocked", "relock"}
                             /\ SlotAt(u) = s
                             /\ ctx_rep[s] = u
                             /\ io_msg.number = number[u]
                             /\ rep[u] = << >>
                             /\ rep' = [rep EXCEPT ![u] = <<number[u]>>]
    BY <1>22, AcceptedReply
  <2>2. \A t \in Threads : t # u => rep'[t] = rep[t] /\ pc'[t] = pc[t] /\ ret'[t] = ret[t]
    BY <1>22, <2>1 DEF OnRespondAccept, Signalled
  <2>3. /\ rep'[u] = <<number[u]>>
        /\ pc'[u] = "relock"
        /\ ret'[u] \in {"OK", "ETIMEDOUT"}
    BY <1>22, <2>1 DEF OnRespondAccept, Signalled
  <2>4. /\ ctx_status' = [ctx_status EXCEPT ![s] = "DONE"]
        /\ UNCHANGED <<seq, number, timeout, tv_msec>>
    BY <1>22 DEF OnRespondAccept, OnRespondDone, SetStatus
  <2>5. BufferFollowsStatus'
    BY <2>1, <2>2, <2>3, <2>4
  <2>6. ReplyIsMine'
    BY <2>1, <2>2, <2>3, <2>4
  <2>7. RetFollowsWait'
    BY <2>1, <2>2, <2>3, <2>4
  <2>8. OkHasReply'
    BY <2>1, <2>2, <2>3, <2>4
  <2>9. QED
    BY <2>5, <2>6, <2>7, <2>8
<1>23. ASSUME NEW s \in Slots, OnRespondDrop(s) PROVE BufferInv'
  BY <1>23 DEF OnRespondDrop, OnRespondDone, Unlock
<1>24. CASE UNCHANGED vars
  BY <1>24 DEF vars
<1>25. QED
  <2> HIDE DEF BufferInv, IInv, TypeOK, conn, count, slot, args, ioth
  <2>1. ASSUME NEW t \in Threads, Step(t) PROVE BufferInv'
    BY ONLY <2>1, t \in Threads, <1>3, <1>4, <1>5, <1>6, <1>7, <1>8, <1>9, <1>10, <1>11,
       <1>12, <1>13, <1>14, <1>16, <1>17 DEF Step
  <2>2. ASSUME OnRespond PROVE BufferInv'
    BY ONLY <2>2, <1>21, <1>22, <1>23 DEF OnRespond
  <2>3. ASSUME NEW t \in Threads, Expire(t) \/ SpuriousWakeUp(t) PROVE BufferInv'
    BY ONLY <2>3, t \in Threads, <1>15 DEF Expire, SpuriousWakeUp
  <2>4. QED
    BY ONLY [Next]_vars, <1>1, <1>2, <2>1, <2>2, <2>3, <1>18, <1>19, <1>20, <1>24 DEF Next

\* The invariant holds when the node starts.
LEMMA InvInit == Init => IInv
<1> SUFFICES ASSUME Init PROVE IInv
  OBVIOUS
<1>1. TypeOK
  BY TypeInit
<1> USE DEF Init
<1>2. SlotInv
  BY DEF SlotInv, MutexHeld, SlotExclusive, SlotPoints, BusyUnderMutex, Holding, Published, Owning
<1>3. NoSlotLeak
  BY DEF NoSlotLeak
<1>4. SeqInv
  BY DEF SeqInv, SeqOwner, SeqNumber, NoLostWakeUp, Inside, Owning
<1>5. BufferInv
  BY DEF BufferInv, BufferFollowsStatus, ReplyIsMine, RetFollowsWait, OkHasReply, Published, Inside, Owning
<1>6. QED
  BY <1>1, <1>2, <1>3, <1>4, <1>5 DEF IInv

\* Every step of a requester, of the IO thread and of the connection keeps it.
LEMMA InvStep == IInv /\ [Next]_vars => IInv'
<1> SUFFICES ASSUME IInv, [Next]_vars PROVE IInv'
  OBVIOUS
<1>1. TypeOK'
  BY TypeStep DEF IInv
<1>2. QED
  BY <1>1, SlotStep, LeakStep, SeqStep, BufferStep DEF IInv

\* The inductive invariant holds in every reachable state of hnode_request and
\* hnode_on_respond.
THEOREM Invariance == Spec => []IInv
BY InvInit, InvStep, PTL DEF Spec

\* No two requests share a slot, and a taken slot stays taken until its owner
\* releases it.
THEOREM SlotsAreExclusive == Spec => []SlotExclusive
<1>1. IInv => SlotExclusive
  BY DEF IInv, SlotInv
<1>2. QED
  BY <1>1, Invariance, PTL

\* No slot is taken out of use.
THEOREM SlotsDoNotLeak == Spec => []NoSlotLeak
<1>1. IInv => NoSlotLeak
  BY DEF IInv
<1>2. QED
  BY <1>1, Invariance, PTL

\* No request goes to sleep after its reply has come: what the head of the loop
\* loaded is still true when pthread_cond_timedwait gives the mutex up, and a
\* reply that comes later wakes the sleeper.
THEOREM WakeUpsAreNotLost == Spec => []NoLostWakeUp
<1>1. IInv => NoLostWakeUp
  BY DEF IInv, SeqInv
<1>2. QED
  BY <1>1, Invariance, PTL

\* A buffer holds the reply to its own request, or nothing.
THEOREM RepliesMatch == Spec => []ReplyIsMine
<1>1. IInv => ReplyIsMine
  BY DEF IInv, BufferInv
<1>2. QED
  BY <1>1, Invariance, PTL

\* With a timeout of at most a second, OK means that the reply is there.
THEOREM OkIsAnswered == Spec => []OkHasReply
<1>1. IInv => OkHasReply
  BY DEF IInv, BufferInv
<1>2. QED
  BY <1>1, Invariance, PTL

\* The IO thread writes into a caller's buffer only during the call.
THEOREM BuffersAreSafe == Spec => BufferNotTouchedOutside
<1>1. ASSUME IInv, [Next]_vars
      PROVE  [\A t \in Threads : rep'[t] # rep[t] => pc[t] \in Owning]_vars
  <2> USE DEF conn, count, slot, args, ioth
  <2>1. ASSUME NEW t \in Threads, Setup(t)
        PROVE  \A v \in Threads : rep'[v] # rep[v] => pc[v] \in Owning
    BY <1>1, <2>1 DEF Setup, Owning, IInv, TypeOK
  <2>2. ASSUME NEW s \in Slots, OnRespondAccept(s)
        PROVE  \A v \in Threads : rep'[v] # rep[v] => pc[v] \in Owning
    <3>1. PICK u \in Threads : /\ pc[u] \in {"blocked", "relock"}
                               /\ rep' = [rep EXCEPT ![u] = <<number[u]>>]
      BY <1>1, <2>2, AcceptedReply
    <3>2. QED
      BY <1>1, <3>1 DEF Owning, IInv, TypeOK
  <2>3. CASE rep' = rep
    BY <2>3
  <2>4. \/ rep' = rep
        \/ \E t \in Threads : Setup(t)
        \/ \E s \in Slots : OnRespondAccept(s)
    BY <1>1, ZenonT(60) DEF Next, Step, OnRespond, CallRefused, Call, SubscribeReply,
         SubscribeRefused, TakeSeq, TryLock, TryLockBusy, CompareExchange,
         CompareExchangeBusy, Send, Wait, WaitInvalid, WaitTest, Expire,
         SpuriousWakeUp, WakeUp, ReLock, Finish, OnConnect, OnClose, OnRead,
         OnRespondLock, OnRespondDrop, vars
  <2>5. QED
    BY <2>1, <2>2, <2>3, <2>4
<1>2. QED
  BY <1>1, Invariance, PTL DEF Spec, BufferNotTouchedOutside
===============================================================================
