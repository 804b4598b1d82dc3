-------------------------------- MODULE Request --------------------------------
(***************************************************************************)
(* The request/reply half of a node, src/hnode.c: application threads in   *)
(* hnode_request and the IO thread in hnode_on_respond meet in a fixed     *)
(* array of hrequest_ctx_t slots.  A slot has a mutex, a condition         *)
(* variable, a status and a pointer to the buffer of the waiting caller.   *)
(*                                                                         *)
(* Each thread takes one step per lock operation, test of a shared field   *)
(* or externally visible effect; stores under the mutex belong to the step *)
(* that gives the mutex up.  A reply carries, besides its seq, the         *)
(* number of the request it answers (history), so that "the right reply"   *)
(* can be stated without trusting the seq comparison of the code.          *)
(***************************************************************************)
EXTENDS Naturals, Sequences

CONSTANTS
  Threads,         \* application threads, each with its own rep buffer
  Responders,      \* nodes that answer a request; each answers it once
  req_ctx_count,   \* number of slots
  SEQ_MOD,         \* 2^32 in the code: ato_req_seq is a uint32_t
  MAX_REQUESTS,    \* bound on the seq numbers taken
  Timeouts,        \* timeout arguments, in ms
  Clocks,          \* ms into the current second when the deadline is computed
  IO,              \* the IO thread
  NULL

HNODE_REQUEST_TIMEOUT_MAX == 10000

ASSUME RequestAssumption ==
  /\ req_ctx_count \in Nat \ {0}
  /\ SEQ_MOD \in Nat \ {0}
  /\ MAX_REQUESTS \in Nat
  /\ Timeouts \subseteq Nat
  /\ Clocks \subseteq 0..999
  /\ IO \notin Threads
  /\ NULL \notin Threads \cup {IO}

VARIABLES
  status,       \* node->status
  map_subpool,  \* the reply topic, once subscribed
  ato_req_seq,
  issued,       \* history: seq numbers taken so far
  mtx,          \* owner of each slot's mutex
  ctx_status, ctx_seq, ctx_rep,   \* the fields of each slot
  pc,           \* where each thread is in hnode_request
  seq,          \* its seq, and (history) the number of its request
  number,
  timeout,      \* its timeout argument after the clamp
  tv_msec,      \* tv_nsec of its deadline, in ms
  ret,          \* its local ret; the code hnode_request returned when idle
  rep,          \* contents of its reply buffer: numbers of requests answered
  io_pc,        \* the IO thread: idle, or waiting for / holding a slot's mutex
  io_msg,       \* the reply it handles
  replies       \* replies that have not been read

conn == <<status, map_subpool>>
count == <<ato_req_seq, issued>>
slot == <<ctx_status, ctx_seq, ctx_rep>>
args == <<seq, number, timeout, tv_msec>>
ioth == <<io_pc, io_msg, replies>>
vars == <<conn, count, mtx, slot, pc, args, ret, rep, ioth>>

Slots == 0..(req_ctx_count - 1)
Seqs == 0..(SEQ_MOD - 1)
Numbers == 0..MAX_REQUESTS
Reply == [seq : Seqs, number : Numbers, from : Responders]

\* Where a thread has the slot to itself, and where it has a seq number.
Owning == {"setup", "send", "wait", "timedwait", "blocked", "relock", "finish"}
Inside == Owning \cup {"trylock", "cas"}

\* seq & (req_ctx_count - 1), for a power of two.
SlotOf(n) == n % req_ctx_count
SlotAt(t) == SlotOf(seq[t])

\* hnode_time_offset on [sec, msec]; the ns arithmetic is exact in ms.
hnode_time_offset(ts, mill) ==
  LET msec == ts.msec + mill
  IN  IF msec >= 1000
      THEN [sec |-> ts.sec + 1, msec |-> msec - 1000]
      ELSE [sec |-> ts.sec, msec |-> msec]

Clamp(mill) == IF HNODE_REQUEST_TIMEOUT_MAX < mill THEN HNODE_REQUEST_TIMEOUT_MAX ELSE mill

\* The return codes of hnode_request and the errors of the wait.
Codes == {"OK", "EPARAM", "EDISCONNECT", "ETIMEOUT", "ESEND", "EBUSY",
          "ETIMEDOUT", "EINVAL"}

Goto(t, where) == pc' = [pc EXCEPT ![t] = where]
Set(t, code) == ret' = [ret EXCEPT ![t] = code]
Return(t, code) == Goto(t, "idle") /\ Set(t, code)
Lock(s, who) == mtx[s] = NULL /\ mtx' = [mtx EXCEPT ![s] = who]
Unlock(s) == mtx' = [mtx EXCEPT ![s] = NULL]
SetStatus(s, v) == ctx_status' = [ctx_status EXCEPT ![s] = v]

Init ==
  /\ status = "DISCONNECT"
  /\ map_subpool = {}
  /\ ato_req_seq = 0
  /\ issued = 0
  /\ mtx = [s \in Slots |-> NULL]
  /\ ctx_status = [s \in Slots |-> "IDLE"]
  /\ ctx_seq = [s \in Slots |-> 0]
  /\ ctx_rep = [s \in Slots |-> NULL]
  /\ pc = [t \in Threads |-> "idle"]
  /\ seq = [t \in Threads |-> 0]
  /\ number = [t \in Threads |-> 0]
  /\ timeout = [t \in Threads |-> 0]
  /\ tv_msec = [t \in Threads |-> 0]
  /\ ret = [t \in Threads |-> "EPARAM"]
  /\ rep = [t \in Threads |-> << >>]
  /\ io_pc = "idle"
  /\ io_msg = NULL
  /\ replies = {}

-------------------------------------------------------------------------------
(***************************************************************************)
(* hnode_request, up to the slot.                                          *)
(***************************************************************************)

\* Entry: the parameter check, the status check and the clamp.
CallRefused(t) ==
  /\ pc[t] = "idle"
  /\ \/ Set(t, "EPARAM")
     \/ status # "CONNECTED" /\ Set(t, "EDISCONNECT")
  /\ UNCHANGED <<conn, count, mtx, slot, pc, args, rep, ioth>>

Call(t, mill) ==
  /\ pc[t] = "idle"
  /\ status = "CONNECTED"
  /\ timeout' = [timeout EXCEPT ![t] = Clamp(mill)]
  /\ Goto(t, "subscribe")
  /\ Set(t, "OK")
  /\ UNCHANGED <<conn, count, mtx, slot, seq, number, tv_msec, rep, ioth>>

\* hnode_subscribe_i for the reply topic: it tests the status again, writes
\* SUB unless the topic is known, and keeps the topic when hio_write returned
\* anything but 0.
SubscribeReply(t) ==
  /\ pc[t] = "subscribe"
  /\ status = "CONNECTED"
  /\ map_subpool' = {"reply"}
  /\ Goto(t, "seq")
  /\ UNCHANGED <<status, count, mtx, slot, args, ret, rep, ioth>>

SubscribeRefused(t, code) ==
  /\ pc[t] = "subscribe"
  /\ \/ code = "EDISCONNECT" /\ status # "CONNECTED"
     \/ code = "ESEND" /\ status = "CONNECTED" /\ map_subpool = {}
  /\ Return(t, code)
  /\ UNCHANGED <<conn, count, mtx, slot, args, rep, ioth>>

\* Assumed of the environment: 2^32 requests do not pass while a request, or
\* an answer to one, with the same seq is still on its way.
NotPending(n) ==
  /\ \A t \in Threads : pc[t] \in Inside => seq[t] # n
  /\ \A msg \in replies : msg.seq # n
  /\ io_pc # "idle" => io_msg.seq # n

\* Fault: the counter is wider than the seq field.
FaultSeqNotWrapped(t) ==
  /\ pc[t] = "seq"
  /\ issued < MAX_REQUESTS
  /\ seq' = [seq EXCEPT ![t] = ato_req_seq]
  /\ number' = [number EXCEPT ![t] = issued]
  /\ ato_req_seq' = ato_req_seq + 1
  /\ issued' = issued + 1
  /\ Goto(t, "trylock")
  /\ UNCHANGED <<conn, mtx, slot, timeout, tv_msec, ret, rep, ioth>>

TakeSeq(t) ==
  /\ pc[t] = "seq"
  /\ issued < MAX_REQUESTS
  /\ NotPending(ato_req_seq)
  /\ seq' = [seq EXCEPT ![t] = ato_req_seq]
  /\ number' = [number EXCEPT ![t] = issued]
  /\ ato_req_seq' = (ato_req_seq + 1) % SEQ_MOD
  /\ issued' = issued + 1
  /\ Goto(t, "trylock")
  /\ UNCHANGED <<conn, mtx, slot, timeout, tv_msec, ret, rep, ioth>>

TryLock(t) ==
  /\ pc[t] = "trylock"
  /\ Lock(SlotAt(t), t)
  /\ Goto(t, "cas")
  /\ UNCHANGED <<conn, count, slot, args, ret, rep, ioth>>

TryLockBusy(t) ==
  /\ pc[t] = "trylock"
  /\ mtx[SlotAt(t)] # NULL
  /\ Return(t, "EBUSY")
  /\ UNCHANGED <<conn, count, mtx, slot, args, rep, ioth>>

\* Fault: the mutex alone decides, the slot is taken whatever its status.
FaultNoCompare(t) ==
  /\ pc[t] = "cas"
  /\ SetStatus(SlotAt(t), "BUSY")
  /\ Goto(t, "setup")
  /\ UNCHANGED <<conn, count, mtx, ctx_seq, ctx_rep, args, ret, rep, ioth>>

\* The slot is taken when its status is IDLE.
CompareExchange(t) ==
  /\ pc[t] = "cas"
  /\ ctx_status[SlotAt(t)] = "IDLE"
  /\ SetStatus(SlotAt(t), "BUSY")
  /\ Goto(t, "setup")
  /\ UNCHANGED <<conn, count, mtx, ctx_seq, ctx_rep, args, ret, rep, ioth>>

\* Fault: the EBUSY return forgets the mutex.
FaultBusyKeepsMutex(t) ==
  /\ pc[t] = "cas"
  /\ ctx_status[SlotAt(t)] # "IDLE"
  /\ Return(t, "EBUSY")
  /\ UNCHANGED <<conn, count, mtx, slot, args, rep, ioth>>

CompareExchangeBusy(t) ==
  /\ pc[t] = "cas"
  /\ ctx_status[SlotAt(t)] # "IDLE"
  /\ Unlock(SlotAt(t))
  /\ Return(t, "EBUSY")
  /\ UNCHANGED <<conn, count, slot, args, rep, ioth>>

-------------------------------------------------------------------------------
(***************************************************************************)
(* hnode_request, with the slot.                                           *)
(***************************************************************************)

\* Fault: a slot keeps the buffer of its first request.
FaultKeepsBuffer(t) ==
  /\ pc[t] = "setup"
  /\ rep' = [rep EXCEPT ![t] = << >>]
  /\ ctx_seq' = [ctx_seq EXCEPT ![SlotAt(t)] = seq[t]]
  /\ ctx_rep' = [ctx_rep EXCEPT ![SlotAt(t)] = IF @ = NULL THEN t ELSE @]
  /\ Goto(t, "send")
  /\ UNCHANGED <<conn, count, mtx, ctx_status, args, ret, ioth>>

Setup(t) ==
  /\ pc[t] = "setup"
  /\ rep' = [rep EXCEPT ![t] = << >>]
  /\ ctx_seq' = [ctx_seq EXCEPT ![SlotAt(t)] = seq[t]]
  /\ ctx_rep' = [ctx_rep EXCEPT ![SlotAt(t)] = t]
  /\ Goto(t, "send")
  /\ UNCHANGED <<conn, count, mtx, ctx_status, args, ret, ioth>>

\* hio_write, whose result is ignored, and the deadline.  Every responder may
\* answer, early, late or never.
Send(t, now) ==
  /\ pc[t] = "send"
  /\ replies' = replies \cup
       {[seq |-> seq[t], number |-> number[t], from |-> r] : r \in Responders}
  /\ tv_msec' = [tv_msec EXCEPT ![t] =
       hnode_time_offset([sec |-> 0, msec |-> now], timeout[t]).msec]
  /\ Goto(t, "wait")
  /\ UNCHANGED <<conn, count, mtx, slot, seq, number, timeout, ret, rep, io_pc, io_msg>>

\* The head of the loop loads the status, with the mutex held.
WaitTest(t) ==
  /\ pc[t] = "wait"
  /\ Goto(t, IF ctx_status[SlotAt(t)] = "BUSY" THEN "timedwait" ELSE "finish")
  /\ UNCHANGED <<conn, count, mtx, slot, args, ret, rep, ioth>>

\* pthread_cond_timedwait, a step of its own after the load: it gives the mutex
\* up and blocks at once ...
Wait(t) ==
  /\ pc[t] = "timedwait"
  /\ Unlock(SlotAt(t))
  /\ Goto(t, "blocked")
  /\ UNCHANGED <<conn, count, slot, args, ret, rep, ioth>>

\* ... or, with a tv_nsec of 10^9 or more, returns EINVAL at once, which POSIX
\* asks for and winpthreads does not do.
WaitInvalid(t) ==
  /\ pc[t] = "timedwait"
  /\ tv_msec[t] >= 1000
  /\ Set(t, "EINVAL")
  /\ Goto(t, "finish")
  /\ UNCHANGED <<conn, count, mtx, slot, args, rep, ioth>>

WakeUp(t, code) ==
  /\ pc[t] = "blocked"
  /\ Goto(t, "relock")
  /\ Set(t, code)
  /\ UNCHANGED <<conn, count, mtx, slot, args, rep, ioth>>

Expire(t) == WakeUp(t, "ETIMEDOUT")
SpuriousWakeUp(t) == WakeUp(t, "OK")

\* Fault: "if" instead of "while" around the wait.
FaultWaitsOnce(t) ==
  /\ pc[t] = "relock"
  /\ Lock(SlotAt(t), t)
  /\ Goto(t, "finish")
  /\ UNCHANGED <<conn, count, slot, args, ret, rep, ioth>>

\* pthread_cond_timedwait returns with the mutex; an error leaves the loop.
ReLock(t) ==
  /\ pc[t] = "relock"
  /\ Lock(SlotAt(t), t)
  /\ Goto(t, IF ret[t] = "OK" THEN "wait" ELSE "finish")
  /\ UNCHANGED <<conn, count, slot, args, ret, rep, ioth>>

\* Fault: the slot is not released after a timeout.
FaultKeepsSlot(t) ==
  /\ pc[t] = "finish"
  /\ IF ret[t] = "ETIMEDOUT" THEN UNCHANGED ctx_status ELSE SetStatus(SlotAt(t), "IDLE")
  /\ Unlock(SlotAt(t))
  /\ Return(t, IF ret[t] = "ETIMEDOUT" THEN "ETIMEOUT" ELSE "OK")
  /\ UNCHANGED <<conn, count, ctx_seq, ctx_rep, args, rep, ioth>>

Finish(t) ==
  /\ pc[t] = "finish"
  /\ SetStatus(SlotAt(t), "IDLE")
  /\ Unlock(SlotAt(t))
  /\ Return(t, IF ret[t] = "ETIMEDOUT" THEN "ETIMEOUT" ELSE "OK")
  /\ UNCHANGED <<conn, count, ctx_seq, ctx_rep, args, rep, ioth>>

-------------------------------------------------------------------------------
(***************************************************************************)
(* The IO thread.                                                          *)
(***************************************************************************)

\* The callbacks of the connection run between two reads.  "DISCONNECT" stands
\* for every status but CONNECTED; the REGISTER and the status subscription that
\* hnode_on_connect writes touch neither the slots nor the reply topic.  Answers
\* can be lost with a connection, or still reach the next one.
OnConnect ==
  /\ io_pc = "idle"
  /\ status' = "CONNECTED"
  /\ UNCHANGED <<map_subpool, count, mtx, slot, pc, args, ret, rep, ioth>>

OnClose(kept) ==
  /\ io_pc = "idle"
  /\ status' = "DISCONNECT"
  /\ replies' = kept
  /\ UNCHANGED <<map_subpool, count, mtx, slot, pc, args, ret, rep, io_pc, io_msg>>

\* hnode_on_read finds hnode_on_respond in map_subpool and calls it.
OnRead(msg) ==
  /\ io_pc = "idle"
  /\ "reply" \in map_subpool
  /\ msg \in replies
  /\ replies' = replies \ {msg}
  /\ io_pc' = "lock"
  /\ io_msg' = msg
  /\ UNCHANGED <<conn, count, mtx, slot, pc, args, ret, rep>>

\* Fault: hnode_on_respond does not take the slot's mutex.
FaultNoLock ==
  /\ io_pc = "lock"
  /\ io_pc' = "handle"
  /\ UNCHANGED <<conn, count, mtx, slot, pc, args, ret, rep, io_msg, replies>>

OnRespondLock ==
  /\ io_pc = "lock"
  /\ Lock(SlotOf(io_msg.seq), IO)
  /\ io_pc' = "handle"
  /\ UNCHANGED <<conn, count, slot, pc, args, ret, rep, io_msg, replies>>

\* Fault: any reply that maps to the slot is taken.
FaultSeqNotCompared(s) == ctx_status[s] = "BUSY"

\* The slot waits for this very reply.
Expected(s) == ctx_status[s] = "BUSY" /\ io_msg.seq = ctx_seq[s]

\* pthread_cond_signal: the threads blocked on the slot's condition variable.
Signalled(s) == {t \in Threads : pc[t] = "blocked" /\ SlotAt(t) = s}

\* hnode_on_respond returns to the event loop.
OnRespondDone(s) ==
  /\ Unlock(s)
  /\ io_pc' = "idle"
  /\ io_msg' = NULL
  /\ UNCHANGED <<conn, count, args, replies>>

\* hbuf_push into the buffer the slot points to, DONE and the signal.
OnRespondAccept(s) ==
  /\ io_pc = "handle"
  /\ s = SlotOf(io_msg.seq)
  /\ Expected(s)
  /\ rep' = [rep EXCEPT ![ctx_rep[s]] = Append(@, io_msg.number)]
  /\ SetStatus(s, "DONE")
  /\ pc' = [t \in Threads |-> IF t \in Signalled(s) THEN "relock" ELSE pc[t]]
  /\ ret' = [t \in Threads |-> IF t \in Signalled(s) THEN "OK" ELSE ret[t]]
  /\ OnRespondDone(s)
  /\ UNCHANGED <<ctx_seq, ctx_rep>>

\* Fault: only the branch that takes the reply unlocks.
FaultDropKeepsMutex(s) ==
  /\ io_pc = "handle"
  /\ s = SlotOf(io_msg.seq)
  /\ ~Expected(s)
  /\ io_pc' = "idle"
  /\ io_msg' = NULL
  /\ UNCHANGED <<conn, count, mtx, slot, pc, args, ret, rep, replies>>

OnRespondDrop(s) ==
  /\ io_pc = "handle"
  /\ s = SlotOf(io_msg.seq)
  /\ ~Expected(s)
  /\ OnRespondDone(s)
  /\ UNCHANGED <<slot, pc, ret, rep>>

-------------------------------------------------------------------------------
\* What a thread inside hnode_request does by itself.
Step(t) ==
  \/ SubscribeReply(t)
  \/ \E code \in Codes : SubscribeRefused(t, code)
  \/ TakeSeq(t)
  \/ TryLock(t)
  \/ TryLockBusy(t)
  \/ CompareExchange(t)
  \/ CompareExchangeBusy(t)
  \/ Setup(t)
  \/ \E now \in Clocks : Send(t, now)
  \/ WaitTest(t)
  \/ Wait(t)
  \/ WaitInvalid(t)
  \/ ReLock(t)
  \/ Finish(t)

OnRespond ==
  \/ OnRespondLock
  \/ \E s \in Slots : OnRespondAccept(s) \/ OnRespondDrop(s)

Next ==
  \/ \E t \in Threads :
       \/ CallRefused(t)
       \/ \E mill \in Timeouts : Call(t, mill)
       \/ Step(t)
       \/ Expire(t)
       \/ SpuriousWakeUp(t)
  \/ OnConnect
  \/ \E kept \in SUBSET replies : OnClose(kept)
  \/ \E msg \in replies : OnRead(msg)
  \/ OnRespond

Spec == Init /\ [][Next]_vars

\* A thread inside hnode_request keeps running, a deadline passes eventually,
\* and the IO thread finishes what it handles.  No call, reply or wake-up is
\* promised.
Fairness ==
  /\ \A t \in Threads : WF_vars(Step(t)) /\ SF_vars(Expire(t))
  /\ WF_vars(OnRespond)

FairSpec == Spec /\ Fairness

-------------------------------------------------------------------------------
(***************************************************************************)
(* Properties.                                                             *)
(***************************************************************************)

\* Every variable has the shape that hrequest_ctx_t and the locals of
\* hnode_request give it.
TypeOK ==
  /\ status \in {"DISCONNECT", "CONNECTED"}
  /\ map_subpool \subseteq {"reply"}
  /\ ato_req_seq \in Seqs
  /\ issued \in Numbers
  /\ mtx \in [Slots -> Threads \cup {IO, NULL}]
  /\ ctx_status \in [Slots -> {"IDLE", "BUSY", "DONE"}]
  /\ ctx_seq \in [Slots -> Seqs]
  /\ ctx_rep \in [Slots -> Threads \cup {NULL}]
  /\ pc \in [Threads -> Inside \cup {"idle", "subscribe", "seq"}]
  /\ seq \in [Threads -> Seqs]
  /\ number \in [Threads -> Numbers]
  /\ timeout \in [Threads -> Nat]
  /\ tv_msec \in [Threads -> Nat]
  /\ ret \in [Threads -> Codes]
  /\ rep \in [Threads -> Seq(Numbers)]
  /\ io_pc \in {"idle", "lock", "handle"}
  /\ io_pc # "idle" => io_msg \in Reply
  /\ replies \subseteq Reply

\* A slot belongs to at most one request from the CAS to the store of IDLE,
\* also while its mutex is given up in pthread_cond_timedwait, and is not IDLE
\* meanwhile: no call can overwrite the seq and rep of a waiting one.
SlotExclusive ==
  /\ \A t, u \in Threads :
       pc[t] \in Owning /\ pc[u] \in Owning /\ SlotAt(t) = SlotAt(u) => t = u
  /\ \A t \in Threads : pc[t] \in Owning => ctx_status[SlotAt(t)] # "IDLE"

\* A slot that is not IDLE belongs to a request that is still in progress: no
\* return path, timeout or late reply takes a slot out of use.
NoSlotLeak ==
  \A s \in Slots : ctx_status[s] # "IDLE" =>
    \E t \in Threads : pc[t] \in Owning /\ SlotAt(t) = s

\* The buffer of a request that is waiting, or that was answered or timed out,
\* holds at most one reply and that is a reply to this request, whatever late,
\* duplicate or crossed replies hnode_on_respond sees and whichever requests
\* used the slot before.
ReplyIsMine ==
  \A t \in Threads :
    \/ pc[t] \in Owning \ {"setup"}
    \/ pc[t] = "idle" /\ ret[t] \in {"OK", "ETIMEOUT"}
    => rep[t] \in {<< >>, <<number[t]>>}

\* A thread sleeps on the condition variable only while its slot is BUSY: a
\* reply that comes between the load of the status and the wait is kept out by
\* the mutex, and one that comes later signals.
NoLostWakeUp ==
  \A t \in Threads : pc[t] = "blocked" => ctx_status[SlotAt(t)] = "BUSY"

\* The caller's buffer is its own again when hnode_request returns: the IO
\* thread never pushes into it outside the call.
BufferNotTouchedOutside ==
  [][\A t \in Threads : rep'[t] # rep[t] => pc[t] \in Owning]_vars

\* hnode_request returns OK only with a reply in the buffer, for timeouts up to
\* one second.
OkHasReply ==
  \A t \in Threads :
    pc[t] = "idle" /\ ret[t] = "OK" /\ timeout[t] <= 1000 => rep[t] # << >>

\* The same for every timeout that HNODE_REQUEST_TIMEOUT_MAX admits.
OkHasReplyAnyTimeout ==
  \A t \in Threads : pc[t] = "idle" /\ ret[t] = "OK" => rep[t] # << >>

\* A request that took a seq number returns, whatever happens to its replies:
\* no slot mutex, lost signal or busy IO thread holds it up for good.
RequestReturns ==
  \A t \in Threads : pc[t] \in Inside ~> pc[t] = "idle"

\* The IO thread never stays in hnode_on_respond: a requester cannot hold the
\* slot's mutex against it for good.
IoThreadProceeds == io_pc # "idle" ~> io_pc = "idle"
===============================================================================
