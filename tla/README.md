# Verification of hbus

hbus is a process communication framework in C: a broker process
(`src/hbroker.c`) to which nodes (`src/hnode.c`) connect over TCP, and a message
header (`include/hmsg.h`) they share. This directory holds TLA+ models of that
code, the TLC configurations that check them on small instances and proofs that
TLAPS checks for instances of every size.

Paths below are relative to the repository.

## 1. Inventory

| Component | State | Operations | What makes it correct |
|---|---|---|---|
| Message header, `include/hmsg.h` | none | flag and topic-key macros, header check | keys of commands and of data frames meet; accepted frames can be transported |
| Broker, `src/hbroker.c` | a session per connection (`io`, `node_id`, `buf_topics`), the index `map_topic_sessions` of raw session pointers | `on_accept`, `on_read` (forward, SUB, UNSUB, REGISTER), `on_close`, `on_timer` (prints) | index and sessions agree; no pointer dangles; a frame goes once to each addressed subscriber |
| Node, request/reply, `src/hnode.c:409-537` | `req_ctx` slots (mutex, condition variable, status, seq, buffer pointer), `ato_req_seq` | `hnode_request` (any thread), `hnode_on_respond` (IO thread) | a slot has one owner; a reply reaches its own request only; no lost wake-up; every call returns |
| Node, connection, `src/hnode.c:101-226` | `status`, `io`, `reconn_cnt` | reconnect timer, `hnode_on_connect`, `hnode_on_close`, `hnode_on_read` | a connected node is registered and subscribed to what it believes it is subscribed to |
| Node, subscriptions, `src/hnode.c:86-92, 305-407` | `map_subpool` under `map_subpool_mtx` | publish, subscribe, respond, unsubscribe, status responder | the table agrees with the broker's session |
| Node, life cycle, `src/hnode.c:228-302` | IO thread, loop | `hnode_init`, IO thread main, `hnode_destroy` | destroy terminates and nothing is used after it |

How they interact. The broker is one event loop: its callbacks never overlap, and
it talks to nodes only through frames on TCP connections. A node has an IO thread,
which runs the loop with the connection callbacks, the reconnect timer and the
message handlers, and any number of application threads, which call the API. They
share `status` (atomic), `io` (unprotected), `map_subpool` (its mutex) and the
request slots (a mutex, a condition variable and an atomic status each). A request
is a data frame with the REQUEST flag; the answer is a data frame with the RESPOND
flag, addressed to the requester and carrying its `seq`; the broker forwards both
like any other frame, so the requester must have subscribed to the answers.

What is hard here: raw pointers in an index whose targets are freed on close and
whose addresses are reused; two copies of every subscription; a mutex, an atomic
and a condition variable that together guard a slot; timeouts that race late
answers; sequence numbers that wrap; reconnects that keep local state the broker
has lost. `PROJECT.json` lists these hazards line by line with the properties that
cover them.

## 2. Modules

| Module | Models | Built on |
|---|---|---|
| `HMsg` | `include/hmsg.h`, the unpack settings | |
| `PubSub` | abstract: members, ids, topics, who is heard with which frame, deliveries | `HMsg` |
| `Broker` | `src/hbroker.c` | `HMsg`, refines `PubSub` |
| `MCBroker` + 2 cfgs | small brokers | `Broker` |
| `BrokerProofs`, `BrokerRefinement` | theorems about `Broker` | `Broker`, TLAPS |
| `Request` | `hnode_request`, `hnode_on_respond`, `hnode_time_offset` | |
| `MCRequest` + 3 cfgs | small nodes | `Request` |
| `RequestProofs` | theorems about `Request` | `Request`, TLAPS |
| `Node` | a node from `hnode_init` to `hnode_destroy`: connection, table, API calls, callbacks | `HMsg` |
| `MCNode` + 4 cfgs | small nodes | `Node` |
| `NodeProofs` | theorems about `Node` | `Node`, TLAPS |
| `NodeSession` | lemmas: a node as the other end of its connection sees it | `NodeProofs` |
| `Bus` | two nodes and the broker | `NodeSession` (that is, `Node`) twice, `PubSub` |
| `MCBus` + 3 cfgs | a node that asks and a node that answers | `Bus` |
| `BusProofs` | theorems about `Bus` | `Bus`, TLAPS |

Definitions named `Fault...` are not part of a model: each is a plausible mistake
in the definition that follows it, used to see that a property notices it.

### Broker

One action per callback and branch. `open` and `ctx` are the connections libhv
reads from and their `hio_context`; `live`, `s_io`, `node_id` and `buf_topics` are
the heap: an address of `Ptrs` that is not in `live` is free and may be returned
by the next `malloc`, so a stale pointer would silently become another client's.
`map_topic_sessions` is the hash map from key to list of addresses; it is changed
only through `hbus_ctx_session_add` and `SessionRmAll`. `hbus_seesion_free` loops
over the session's topics; the model removes them all at once and the invariant
`LoopIsSetRemoval` compares that with the loop in every reachable state.
`last` is history: the event handled last and, for a forward, the writes by list
position.

A callback is one step: the loop has one thread, and `hio_write` never closes a
connection synchronously (libhv defers the close after a failed write), so no
callback runs inside another. A failed write is followed by `OnClose`. A failed
allocation is `OnAcceptNoMemory`: the connection is read without a session, and
its first command or its close dereferences NULL, which stops the process
(`process = "crashed"`). This is the only way the broker stops, and the reason for
`CHECK_DEADLOCK FALSE`. A frame above `package_max_length` never reaches `on_read`:
libhv closes the connection (`OnOversizeFrame`).

Message fields are numbers of their width and flags and keys are computed by the
macros, because what SUB, UNSUB and DATA do depends on their bits.

### Request

A thread in `hnode_request` takes one step per lock operation, test of a shared field
or visible effect, and its stores under the mutex belong to the step that gives the
mutex up; `pc` says where it is:
`subscribe -> seq -> trylock -> cas -> setup -> send -> wait -> timedwait -> blocked -> relock`,
back to `wait` and at last to `finish`, with early returns to `idle`. The mutex is held
in `cas`, `setup`, `send`, `wait`, `timedwait` and `finish` and given up in `blocked`.
The test of the status in the loop is `WaitTest`, a step of its own: between it and the
block a reply could come, were it not for the mutex. `pthread_cond_timedwait` is `Wait`
(unlock and block), a wake-up by the signal, by the deadline (`Expire`) or spurious
(`SpuriousWakeUp`), and `ReLock`; with an invalid deadline it may return at once
(`WaitInvalid`: POSIX requires `EINVAL`, winpthreads waits, and the build supports
both). The IO thread is `OnRead`, `OnRespondLock`, and `OnRespondAccept` or
`OnRespondDrop`; connects and closes run only between reads.

`Send` adds one possible reply per responder; a reply may be read at any later
time, lost with the connection, or never read. Each carries, besides `seq`, the
number of the request it answers. The code does not have this number; it lets
`ReplyIsMine` say what the right reply is without using the comparison it is to
check.

`hnode_subscribe_i` is one step here: its effect on the one reply topic is only to
add it, and two threads that interleave in it add the same key. It may return
`ESEND` (when `hio_write` returns 0) or, on a lost connection, `EDISCONNECT`. Times
are in milliseconds, in which the nanosecond arithmetic of `hnode_time_offset` is
exact; the 32-bit `long` of some platforms is not modelled.

One assumption restricts the environment (`NotPending`): a seq number is not taken
again while a request or a reply with the same number is still on its way. In the
code that needs 2^32 requests during one reply's delay.

### Node

The IO thread and the application threads each have a place `pc` and a current
`call`. Both run the API functions, an application thread on its own and the IO
thread from a handler or from `hnode_on_connect`:
`status -> had -> find -> write -> store -> save`, then `send` and `await` for
a request. `had` and `store` wait for `map_subpool_mtx`; `find` and `save` are the
critical sections; every access to the atomic `status`, to `node->io` and to the
table is a step of its own. The event loop runs one callback at a time: `Timer`,
`OnConnect`, `OnConnectFailed`, `OnClose`, `OnReadInvalid`, `OnRead`; the last goes on
through the lookup (`read`, `dispatch`) to one of three handlers:
`hnode_on_status` (`collect`, `iterate`, `reply`), `hnode_on_respond` (`respond`) or one
of the application (`handler`), which may call the API in turn. The functions that an
application passes are one value, `app`: which of several it is cannot be told. A frame
above `package_max_length` is never read: libhv closes the connection (`OnClose`).

`heap` says whether the mutex and the table exist: `hnode_init` returns before the IO
thread has made them. `loop` is `node->loop`. `up` and `down` are the frames under way
on the connection; `conn` is `node->io`:

| `conn` | |
|---|---|
| `none` | `hloop_create_tcp_client` has not been called |
| `connecting`, `open` | being established, established |
| `broken` | lost, and the loop has not yet called `hnode_on_close` |
| `failed` | `hnode_on_connect` was called with an error; `node->io` is still there |
| `closed` | `hnode_on_close` has run |

Of libhv, whose source is not in the repository, this is assumed: `hio_write` may be
called from any thread and returns the bytes written (1 in the model), 0 when the
frame is queued, or a negative number when it fails, after which the loop closes the
connection; before the connection is established a frame can only be queued;
`hio_close` runs the close callback before it returns, and `hloop_free` closes every
`hio_t`; `hloop_stop` of NULL does nothing, and a stop before `hloop_run` is
overwritten by it.

Of the application: it makes no call during or after `hnode_destroy` and calls
`hnode_destroy` while no other call runs. The header does not say so, but the
function frees what a call would use.

The slots of requests are not repeated here: a request in `await` is answered by a
reply on its topic, finds its slot taken (`Busy`) or times out.

### Bus

Two instances of `Node`, with `PubSub` in place of the broker: `BrokerImplementsPubSub`
is the reason this is allowed. Node `a` sends status requests to node `b`, which
answers with `hnode_on_status`. A connection is a queue in each direction; a cut
(`CutA`, `CutB`: the network, or the broker closing or restarting) frees the session
at once, and the node sees it later. Frames on a cut connection are lost. A session
exists while the connection is `open`: the accept of the broker and the connect of the
node are one step, which hides only the time in which the broker has a session and
nothing to read. A session leaves in the same step in which the node's side of the
connection breaks; that the broker notices a close later, and then has the old session
of a node beside the new one, is not modelled. `first` is history: the nodes that have never lost a
connection, neither an established one nor one that broke while the node wrote its
REGISTER.

The ids of the two nodes differ and are not among those the header reserves (0, the
broker, everyone). The nodes are instances of `NodeSession`, which adds lemmas and no
definition of behaviour to `Node`, so that proofs about the bus can use them.

## 3. Runs

| Run | Instance | States | Result |
|---|---|---|---|
| `broker` | 3 connections, 3 addresses, 10 messages | 27,417 (symmetry) | all properties hold, `Broker` implements `PubSub` |
| `broker_unsub` | 2 connections, 2 addresses | | `UnsubRemoves` is violated |
| `request` | 2 threads, 2 responders, 1 slot, seq modulo 2, 3 requests | 929,124 (symmetry) | all properties hold |
| `request_live` | the same, 2 requests | 170,686 | every request returns |
| `request_deadline` | 1 request, timeout 2500 ms | | `OkHasReplyAnyTimeout` is violated |
| `node` | 2 threads that respond, request and unsubscribe | 1,242,469 (symmetry) | all properties hold |
| `node_live` | 1 thread that subscribes, publishes and requests, a handler that requests | 158,818 | all four liveness properties hold |
| `node_unsub` | 1 thread | | `UnsubscribeRemoves` is violated |
| `node_destroy` | 1 thread | | `DestroyAlwaysReturns` is violated |
| `bus` | 2 nodes, connections lost and writes failing at any time | 1,222,076 | all properties hold |
| `bus_live` | 2 nodes, no loss | 17,044 | every request is answered |
| `bus_ready` | 2 nodes | | `RespondReady` is violated |

Why these bounds. In the broker three sessions allow a list to be changed in the
middle while a first and a last entry remain, and with both an address and an
`hio_t` free a close and a new accept reuse either; two keys (publish and respond
of one topic) make a session leave several lists. Messages cover every branch of
`on_read`, a broadcast, two node ids, an invalid head and an oversized frame. An
allocation may fail at any accept. In the node one slot makes
every two requests collide, two responders give every request a duplicate answer,
and with seq modulo 2 and three requests (`MAX_REQUESTS`) the number wraps. The
timeouts 500 and 2500 ms at 600 ms into a second give a carried, valid deadline and an invalid one.

In `Node` two threads are enough for two calls to pass the lookup of one topic and
both write it, while the IO thread does the same for the status topic, which is the one
they respond on, or handles a frame; a third would repeat what the second does. Connections break, fail and come
back without bound. Every result of `hio_write` (`Results`) is possible at every write.
`MAX_QUEUE` bounds the frames under way in one direction to 1; a full queue makes a
write wait in the model, where libhv would queue, and since the peer may read at any
time this only orders the steps. Between them the two passing runs make every API
call on an application thread or in a handler, and get a status request, a reply, a
published message, a frame that is no data and one that is too long. In `Bus` the
queues hold 2 frames, so that SUB and request, or REGISTER and SUB, are under way
together; `hio_write` succeeds or fails in `bus` (`Results = {-1, 1}`) and succeeds in
`bus_live` and `bus_ready` (`{1}`). A queued write (0) is left to the theorems, which
hold for every `Results`: it makes the node forget a topic that the broker will
have, so the second half of `TableMatchesSession` is stated for `Results` without 0.

Fairness (`FairSpec`). Weak fairness of each thread's own steps inside
`hnode_request`, and of the IO thread inside `hnode_on_respond`: the operating
system schedules them. Strong fairness of `Expire`: the deadline is an absolute
time, so a thread cannot be woken spuriously for ever without reaching it. Nothing
is assumed of calls, connections, replies or the signal. No fairness of a mutex is
needed beyond this: `hnode_request` enters with a trylock, and each slot's mutex is
released within a bounded number of steps.

`Node` (`FairSpec`). Weak fairness of every thread's own steps, of the timer, of
timeouts, of `OnClose` on a connection that is broken or stuck at a frame that is too
long (libhv closes it) and of the broker's
reading. Strong fairness of the lock of `map_subpool_mtx`: its sections are short and
contain no wait, so a thread that keeps asking gets it. Strong fairness of `OnConnect`
says that the broker can be reached again and again, faster than the timer interval;
without a broker a node cannot connect. Nothing is assumed of calls, frames or losses,
and `hio_write` may always fail.

`Bus` (`FairSpecNoLoss`). The same for both nodes and weak fairness of the broker. The
run leaves out losses and timeouts that expire before an answer comes, because the
code promises no answer then.

## 4. What the checks show

Broker. Index and sessions agree (`IndexIsLive`, `IndexIsComplete`), sessions and
connections pair up (`SessionOwnership`), a frame is written once to each receiver
and only to open connections (`ForwardOnce`), and what one client does leaves the
entries of the others alone (`OthersUndisturbed`). Together they make the pointer
index an implementation of publish/subscribe over plain sets (`ImplementsPubSub`), in
which every event has a client and changes the membership, id and topics of that client
only.

Request. The combination of trylock, compare-and-exchange and seq comparison does
what the comments at `src/hnode.c:481-488` want: a slot has one owner
(`SlotExclusive`) and always comes back (`NoSlotLeak`); late, crossed and duplicate
replies never reach the wrong buffer (`ReplyIsMine`) nor a buffer after its call
(`BufferNotTouchedOutside`); a reply cannot slip in between the test of the status and
the wait, because `hnode_on_respond` takes the mutex first (`NoLostWakeUp`); calls return and
the IO thread is never held up (`RequestReturns`, `IoThreadProceeds`).

Node. The application gets the node before the IO thread has made its mutex, table and
loop; that no call uses them too early rests on `status`, which becomes CONNECTED only
inside the loop (`UsesAreSafe`). The status never claims a connection that nobody will
report as lost (`StatusTracksConnection`), so the reconnect timer always acts
(`AutoReconnect`). After OK the messages that a call asked for reach a handler of the
right kind, whichever thread wrote the topic first (`OkIsServed`): replies
`hnode_on_respond`, published messages and requests the application, except that
requests on the status topic may go to `hnode_on_status`. It need not be the handler that
the caller passed: `hnode_subscribe_i` returns OK for a known topic and keeps the handler
it has (`src/hnode.c:336-338`), and of two calls that both found the topic unknown the
last one wins. Handlers run without the mutex, so calls made in them
return, and the loop goes on (`EveryCallReturns`, `IoReturns`); a request made in a
handler cannot be answered and blocks the loop until its timeout. A destroy of a
running node returns (`DestroyReturns`).

Bus. Before the first loss the node's table and the broker's session agree up to the
commands under way and the handlers about to be stored (`TableMatchesSession`), a reply always finds its handler although
SUB is written before the handler is stored (`RepliesFindHandler`), and a status
request to a node that serves it is answered (`RequestAnswered`).

Disagreements between code and text. A run shows each of the first five:

1. `src/hbroker.c:184`: UNSUB (0x30) contains the SUB bit (0x20) and is taken by the
   SUB branch. UNSUB subscribes; the branch "remove sub" is unreachable.
2. `src/hnode.c:61-67` carries one second only: with a timeout above 1000 ms the
   deadline can be invalid, and `hnode_request` returns `HNODE_RET_OK` at once
   without a reply.
3. `src/hnode.c:366`: `hnode_unsubscribe` looks the topic up under the UNSUB flags and
   never finds it. It returns OK, writes nothing, and the handler stays.
4. `src/hnode.c:288`: a `hnode_destroy` before the loop runs stops nothing, and the
   join waits for ever.
5. `src/hnode.c:468`: "check respond ready" looks at a table that survives a reconnect,
   while the new session at the broker is empty: the request is sent and no reply can
   come back. The same holds for every other subscription after a reconnect.
6. `src/hnode.c:351`: a queued command (`hio_write` returns 0) is reported as not sent
   and its handler is not stored, although the broker will get it; a failed one
   (negative) is recorded as subscribed.
7. `include/hmsg.h:44` allows frames of 64 MB, `src/hbroker.c:237` limits the
   unpacker to 1 MB: a frame in between costs its sender the connection.

## 5. What is proved

Every theorem holds for all values of the constants that satisfy the named
assumptions: `BrokerAssumption` (messages have header fields of their width, NULL is
no address and no connection), `RequestAssumption` (at least one slot, a positive
modulus, clock readings within a second, distinct identities), `NodeAssumption` (calls
and incoming frames have fields of their width, `hio_write` returns a sign, distinct
identities) and `BusAssumption` (the same for two nodes with different, unreserved
ids). That the number of slots is a power of two is not needed beyond reading
`seq & (n - 1)` as a remainder.

Broker (`BrokerProofs`). The inductive invariant is the type invariant, session
ownership, `ForwardOnce` and `IndexInv`: every list of the index is non-empty and
without repetition, no session lists a topic twice, a free address has no topics,
and the two copies of the subscriptions are the same relation (`Agree`). The last
two are what makes the rest inductive: `hbuf_remove` takes out the first match
only, so a second one would survive a close, and an accept at a reused address
must start from nothing. The lemmas on lists (`RemoveAt`, `FirstIndexFinds`,
`RemoveItemProperties`, `AppendItem`) and on the index (`AddProperties`,
`RmAllProperties`) say which entries an operation adds or removes. From the
invariant follow the theorems for `TypeOK`, `SessionOwnership`, `IndexIsLive`,
`IndexIsComplete`, `ForwardOnce` and `OthersUndisturbed`, and the one that the model's
`SessionFree` is the loop of `hbus_seesion_free` (`LoopIsSetRemoval`). The last needs an
induction over the session's list, which is done by hand (`LoopRemoves`): the index
after each round is given explicitly, and a loop that differed from it would differ
first at a least round (`LeastNumber`), which starts from the same index and removes a
topic that no earlier round touched (`RmOneMore`).

Refinement (`BrokerRefinement`). Each callback is shown to be one step of `PubSub`
under the mapping in `Broker` (a connection with a session is a member, its id and
topics are those of the session, and the connection and the frame of the last event are
visible): accept
is Join, close and an oversize frame are Leave, SUB, UNSUB and REGISTER are the
commands, the forwarding loop is Publish. `PubSub` takes only valid frames, and a
command only with its flags. It lets a frame be dropped (Ignore) when it is invalid,
too long, a command without meaning, or a command whose sender has no session; a
forwardable frame always reaches exactly its receivers. Because the sender is visible,
a command that acted on another client's session would be no step of `PubSub`, and `Bus`
may let each node's commands act on that node's session.

Request (`RequestProofs`). The inductive invariant adds to the properties: who
holds a mutex (`MutexHeld`), that a slot points to its owner (`SlotPoints`), that it is
BUSY where its owner has set it or has just tested it (`BusyUnderMutex`: no reply can be
accepted there, because that takes the mutex; `NoLostWakeUp` needs it), that a
seq in use belongs to one thread (`SeqOwner`) and every message with it answers that
thread's request (`SeqNumber`), that the buffer is empty while the slot is BUSY and
holds the one reply once it is DONE (`BufferFollowsStatus`), and what `ret` can be
at each place (`RetFollowsWait`). From it follow the theorems for `TypeOK`,
`SlotExclusive`, `NoSlotLeak`, `NoLostWakeUp`, `ReplyIsMine`, `OkHasReply` and
`BufferNotTouchedOutside`.

Node (`NodeProofs`). The theorems for `TypeOK`, `UsesAreSafe`,
`StatusTracksConnection` and `OkIsServed` rest on one inductive invariant of nine
parts:

- `LifeInv` ties the place of the IO thread to `heap`, `loop` and `conn`. Its core is
  that status CONNECTED means the IO thread is inside `hloop_run`, and that a thread
  past its status test keeps it there, because only a destroy, which no call outlives,
  takes it out. `UsesAreSafe` is a consequence.
- `MutexInv` (a thread in a critical section owns `map_subpool_mtx`) makes lookup and
  store atomic with respect to each other.
- `CallInv` says that an unsubscribe never gets past its lookup. It needs `TableInv`
  (every key is one that a storing call forms, with its handler) and the arithmetic of
  the keys (`Keys`): the key of an unsubscribe carries the UNSUB flags and is no such key.
- `OkInv` says that the key of a call that returned OK is in the table, for requests of
  handlers and for the steps between lookup and `await` too. It is inductive only because
  nothing leaves the table before the IO thread takes it down, which is `CallInv`.
  `OkIsServed` follows with `TableInv`: whatever call stored the handler formed the same
  key, hence asked for the same kind of data on the same topic (`SameKey`).
- `UpInv` and `IoInv` say what frames a node writes and what `hnode_on_status` holds.

Three more theorems follow. `TableIsProtected`: the critical sections exclude each
other. `DispatchIsByKind`: no frame of any version, flags and topic meets the handler
of another kind of message. `NeverUnsubscribes`: no unsubscribe ever writes or deletes
anything, which is the general form of disagreement 3 above.

`NodeSession` restates a node for its peer: what the environment may do without
disturbing the invariant (`EnvStep`), what a step adds to the outgoing frames, and when
the table and the commands under way are in step with a session (`InStep`: a topic is
stored or about to be stored exactly when the session has it or its SUB is under way,
and before the connection is established there is none).

Bus (`BusProofs`). Both nodes satisfy their invariants; sessions are the open
connections and have the id of their node or none (`BrokerInv`); a frame that is a
reply to `a`, or a status request of `a`, exists only while `a` has the handler of the
reply, wherever the frame is: in either queue of either node or in the hands of an IO
thread (`FramesInv`); and a node that has lost no connection is in step with its session
(`SessionInv`). The ids matter here: a reply is addressed with `from` of its request,
and is delivered by the id of the session. The theorems for `TypeOK`,
`RepliesFindHandler` and `TableMatchesSession` follow (`TypeOK` with the sessions' topics
being keys of data topics, whatever the nodes write) for any calls of the nodes, any
results of `hio_write` and queues of any length.

Only model-checked: the liveness properties, because the prover does not handle
fairness and ENABLED, and the properties that are violated. Every safety invariant and
action property of a passing run is also a theorem.

## 6. Not modelled, and the plan

What comes next: an abstract specification of one request (called, answered at most
once, returned) that `Request` implements, with its proof.

Not modelled:

- `main` of the broker and `on_timer`: start-up and printing.
- Payloads, and the crc and timestamp fields, which are never read.
- `hnode_register_request_ctx` and `hnode_unregister_request_ctx`, which are never
  called.
- A failing `hbuf_push`, whose result is ignored everywhere, a failing
  `hloop_create_tcp_client`, and allocation failures in the node.
- `HC_GETMINPOW`, which rounds the number of slots up to a power of two and does not
  end for counts above 2^30; the number of slots is a parameter of `Request`.
- The test programs, which are command-line drivers for timing.
- libhv and hcore. The repository holds their headers (`3rd/include`, among them
  `json.hpp` and `stb_ds.h`: about 38,500 of the repository's 39,500 lines of C and C++)
  and no source of libhv. hbus uses none of its HTTP, JSON, cache or C++ classes, so
  there is no behaviour of this system in them; the few functions it does use are
  modelled as the code uses them. The models cover nearly all of hbus's own code.
