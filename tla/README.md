# cocoflow in TLA+

cocoflow is a C++ library of stackful coroutines ("tasks") on top of the libuv
event loop. Everything runs in one thread. A task gives the thread up only where
it waits, and what makes the library hard to test is what can happen in between:
other tasks run, are canceled, or destroy the object a callback is about to use.
This directory models that part of the code in TLA+ and checks it with TLC. With
TLAPS it proves, for any number of tasks, buffers and messages, that the
bookkeeping of coroutine ids is right and implements an abstract pool of ids, that
the scheduler passes control, results and cancellation to the right tasks in every
structured program, and the safety properties of udp, of the three ways to receive
on a tcp connection, of tcp connections themselves, of sleep, sync and getaddrinfo,
and of the redis and http extensions.

Paths below are relative to the repository: `include/cocoflow.h` (templates),
`src/cocoflow.cc` and `src/cocoflow-comm.h` (scheduler), `src/udp.cc`,
`src/tcp.cc`, `src/sleep.cc`, `src/sync.cc`, `src/getaddrinfo.cc`,
`extensions/redis`, `extensions/http`, `docs/index.html`.

## Inventory

| Component | State | Operations | Talks to |
|---|---|---|---|
| task objects and ids (`cocoflow.h`, `__init*`) | per template instance: range of ids, free list and its front; globally: tables id -> task and id -> coroutine | `init`, `task()`, `~task()`, `await`, `start`, `cocoflow()` | scheduler (who runs on an id) |
| scheduler (`cocoflow.cc`, `cocoflow-comm.h`) | per task: status, `reuse` (whom it awaits), `block_to`, `finish_to`, uninterruptable; globally: current task, one cancel signal; the coroutine stacks | `__await`, `__start`, `__task_runtime`, `__task_yield`, `__task_stand`, `all_of`, `any_of`, `__task_cancel_children` | every event task, through yield/stand/cancel |
| sleep, sync, getaddrinfo | a libuv handle or request each; sync: table of named syncs | `run`, `cancel`, callback; `sync::notify` | event loop, libuv's thread pool |
| udp and `seqer_wrapper` | mode (`receiving`), queue of `recv`, multimap seq -> task, counters | `bind`, `recv`, `recv_by_seq`, `send`, `ignore_recv`, cancel, `~udp`, callbacks | event loop, tasks resumed inside callbacks |
| tcp connected | mode, three ways to receive with their own queue and buffer, `broken`, async handle for canceled `recv_till` | `connect`, `send`, `recv`, `recv_till`, `recv_by_seq`, cancel, `~connected`, callbacks | event loop, tasks resumed inside callbacks |
| tcp listening | `accept_queue`, `accepting` | `accept`, cancel, callback | event loop |
| redis extension | context, one timer pointer for two kinds of timers, `old_opened`, reconnect interval; a request cell per command, shared with hiredis | `auto_connect`, `connect`, `command`, cancel, `~redis`, callbacks | hiredis, event loop |
| http extension | locals of one `run()`: pointers of the url parser, header fields, position in the caller's buffer | `http::get`, `http::post`: parse, resolve, connect, send, `recv_till` loops, cancel | getaddrinfo and tcp tasks, by await |
| address tools, `max_map_count` | none | conversions; one read of /proc | - |

Hard behaviours, the reason for the models (each is a `hazards` entry of
`PROJECT.json` with its line):

* ids move between a free list, a task and, during `await`, a parent's id;
* control goes to `block_to` once and to `finish_to` at the end, through nested
  awaits, starts and combinators; cancellation is one global flag that is read by
  whoever resumes next;
* a callback resumes a task in the middle (`__task_stand`) and then goes on with
  an object that task may have changed or destroyed;
* reading is started by the first receiver and stopped by the last one, and with
  two kinds of receivers these are different pieces of code;
* bytes that were read but not delivered must stay in stream order through
  buffers, patterns that straddle reads, and cancellation;
* a request of libuv or hiredis outlives the task that made it, and is answered
  after the task was canceled, timed out, or began something new;
* one pointer names a connect timeout at one time and a reconnect timer at
  another, and both race the answer of the server;
* parsers and copy loops run over what a server sends, into a buffer of the
  caller's size.

What makes each component correct: ids are never lost, doubled or out of the
tables; every waiting task is resumed exactly once, by the event it waits for or
by the combinator that cancels it; a combinator leaves no child behind; a
receiver never waits on a socket nobody reads; a datagram has one fate; a byte
stream is cut without loss or reordering; no callback uses an object that is
gone; every request ends and what it holds is released; what an http caller is
told about the body is true.

## Modules

| Module | Models | Checked by |
|---|---|---|
| `Tasks` | nothing but the set of task objects and the null pointer, which `TaskPool`, `Udp`, `EventTasks` and `RedisConn` share | with these |
| `TaskPool` | ids, free lists, manager tables, life of task objects | `MCTaskPool`, proofs in `PoolUdpHttpProofs` |
| `IdPool` | what `TaskPool` promises to the owners of ids: an abstract specification | `MCTaskPool`, proof in `PoolUdpHttpProofs` |
| `Scheduler` | control transfer, combinators, cancellation | `MCScheduler`, proofs in `SchedulerSteps` and `SchedulerProofs` |
| `Udp` | one udp object with its seqer | `MCUdp`, proofs in `PoolUdpHttpProofs` |
| `TcpRecvTill` | `recv_till` on one connection, and its failure and destruction | `MCTcpRecvTill`, proofs in `TcpRecvTillProofs` |
| `TcpChannel` | `recv`, `bind` and `recv_by_seq` on one connection, `break_all_recv` and `drop_all`, destruction | `MCTcpChannel`, proofs in `TcpChannelProofs` |
| `TcpConn` | `listening` and `accept`, `connect`, `send`, both destructors | `MCTcpConn`, proofs in `TcpConnProofs` |
| `EventTasks` | `sync` with its names and `notify`, `sleep`, `getaddrinfo` | `MCEventTasks`, proofs in `EventRedisProofs` |
| `RedisConn` | one `redis` object, its timers, connections and commands | `MCRedisConn`, proofs in `EventRedisProofs` |
| `Http` | one `http::get` or `http::post` | `MCHttp`, proofs in `PoolUdpHttpProofs` |
| `SharedLemmas` | nothing of the code: facts about queues kept as sequences, used by the proofs | proofs in it |

`Scheduler` names a coroutine by the task that took its id; that ids in use are
distinct and the table names that task is what `TaskPool` shows (`FreeListSound`,
`TablesSound`). The modules of tasks that wait for the event loop use of the
scheduler only that `__task_stand` runs a waiting task until it waits again or
ends, and that user code in between may perform any operation. `Udp`,
`TcpRecvTill`, `TcpChannel` and `RedisConn`, whose callbacks go on after
`__task_stand`, therefore let operations happen both between callbacks and inside
one; in `TcpConn` and `EventTasks` nothing but the `free()` of a request follows
it, so a callback is one step and operations come after it. `Http` uses of
getaddrinfo, connect, send and `recv_till` that they end with success or failure
and may be canceled, which is what `ResultsReleased`, `RequestsEnd`,
`StreamCutRight` and `BytesAreRead` are about.

**TaskPool.** Variables carry the names of the code (`free_list_front`,
`global_task_manager`, `reuse`, ...). Constructors are `Construct` and
`ConstructLimited` (with `__init` inside when it is the first task), destructors
`Destroy`, `Destructor`; `Await`/`AwaitReturn` are the two ends of `__await`;
`Start`, `StartChild`, `Cocoflow` begin a task on its own coroutine and `Finish`
is the end of `__task_runtime`'s loop body. Which task acts is left open. Stack
memory is not modelled; an id that has no coroutine is an id past `capacity`.

**Scheduler.** A program is a constant of the behaviour: a class for each task,
the calls of a user task, the children of a combinator. `stack[c]` holds the tasks
whose `run()` is active on coroutine `c`, innermost first; `act[t]` is the activation
of `t`, its program point and its locals, and `"none"` is the point of a task that
does not run. There is one action per stretch of code between two points at which
control may go elsewhere. The exception
`interrupt_canceled` is the points "throw" and "caught". `EventFires` is a libuv
callback that only calls `__task_stand`; sleep, sync and getaddrinfo are such
event tasks.

**Udp.** `cb` says which pair of callbacks libuv has; `phase` says where a
callback stands: before it, between alloc and recv callback, or inside
`__task_stand`. A datagram is its sequence number or `Bad`.

**TcpRecvTill.** A byte is its position in the stream, so a buffer knows both the
order and the values (`stream[b]`) of what it holds. A read returns any number of
the next bytes. Tasks may be canceled and the object destroyed wherever user code
runs. `phase` is again the place of the callback; "aborted" is a `CHECK` of
`tcp_alloc_cb1` (or libuv's assertion that there is room) that failed, and "freed",
"null" and "dangling" are the places where the code uses a destroyed object, a null
seqer or an erased iterator. These four can be reached and have no next step; how is
listed under Disagreements. `displaced` records that a canceled
`recv_till` has put its bytes behind later ones.

**TcpChannel.** The peer sends one element of the constant `Traffic`: packets, and
the same packets as bytes one after the other (`Concatenates`). A byte is
`<<k, i>>`, the i-th of packet `k`, so that `buf2` shows whether it holds one packet
from its first to its last byte. `Room` is what `tcp_alloc_cb2` offers,
and each read takes any number of bytes up to it. `AllocCb0` and the `RecvCb0`
actions are the callbacks of plain `recv`, the `RecvCb2` actions those of the
channel, and the `Break` actions walk the waiters of a connection that failed, one
`__task_stand` each, with `iter` as the iterator that has already been moved on.
The order in which `drop_all` meets the entries is left open. `bind` is assumed to
be given a buffer that holds a header (`ChannelAssumption`; `bind_inner` does not
compare the two lengths). After a packet of an impossible length the code goes on
reading the socket with a room that is not in `buf2` (`tcp.cc:755`, `:761`); such
reads are not modelled, and `RoomInBuffer` speaks of connections that work. A
program has to destroy the object in the task that is told.

**IdPool.** Four variables: whose pool an object belongs to, the ids of each pool,
who holds which id, who was refused. Four actions: `Open`, `Take`, `Refuse`,
`Release`. There is no list, no table and no order; `Take` may give any id that is
left. `TaskPool!Ids` is the instance under the refinement mapping: the holder of an
id is the task that took it (`Holds`: alive, and not one that runs on an id
borrowed in `await`), `Refused` are the "limited" objects.

**TcpConn.** One listening object and several connected ones. `accept_queue`,
`established`, `broken` are members of the code; `sock`, `connect_req`, `writes`
are libuv's side of a connection: the socket, the pending connect request with its
`data`, the queue of writes. `Accept`, `Connect`, `Send` are the `run()` of each
task with its constructors, `tcp_accept_cb`, `tcp_connect_cb`, `tcp_send_cb` the
callbacks. An answer comes with any outcome and at any time, also after
`connect::cancel` cleared the request's `data` and after `~connected`.

**EventTasks.** Handles and requests are numbered as they are made. The members
`async`, `timer`/`req` are numbers, so a pointer to a closed handle can be told
from one to a handle made later. `owed` records that a `notify` of this wait
returned 0. `Resolve` is libuv's thread pool; `CancelDns(t, stops)` is
`uv_cancel` with and without effect.

**RedisConn.** `context` and `timer` are the states of what the members point to;
`lost` and `stray` record that a live context was overwritten or a timer started over
a running one. No code asks whether a context, a timer or a cell is still there, so
each use of one that is gone is a step that sets `misuse` and ends the behaviour:
"callback" if the connection's own callbacks close a timer that is not open, "user"
if user code constructs a command on a freed or null context, awaits one whose cell
was freed by its reply, or destroys an object whose context or timer is gone.
`HandlesOwned` says that the first never happens. Contexts that go away first call back the commands they hold, with user
code in between; `phase` names the code that continues after that. A command's
cell is an element of `queue`: a task, or `NULL` once it was canceled.

**Http.** `pc` follows `run()` through its awaits; `Fail` is the error return that
most of them share. `url_parse` is translated pointer by pointer (`ScanChar`,
`ScanEnd`) over characters of six classes, and checked against a definition
without pointers (`WellFormed`, `HostPart`, ...). A header is a record of what the
parser finds in its text: a legal status line, fields with a key and value, an end
at the right place. A byte of the body is its position, so the caller's buffer
shows what was copied where. `Atoi` is glibc's `(int) strtol`: a number beyond a long
stays at the largest one, and an int keeps its low bits. The sum at
`cocoflow-http.cc:1179` is a `size_t` (`SizeSum`); `IntMax`, `LongMax` and `SizeMax` are
constants, small ones for TLC. "aborted" is the `CHECK` of a `recv_till` for no bytes,
"overrun" a `recv_till` with more room than the buffer has. The loop at `cocoflow-http.cc:560` is the state
"trimming", which has no next step.

### Seeded bugs

Next to some definitions there is a second one under another name, announced as
"(Seeded bug: ...)" in the comment. It is the definition with a plausible mistake
in it and is used by no specification. Putting it in place of the real one makes
TLC report the property listed with it under `mutants` in `PROJECT.json`: this is
how we know that every property can fail.

## Runs

Passing runs (`tlc -config X.cfg M`):

| Run | Bounds | Shows |
|---|---|---|
| `taskpool` | 2 template instances, up to 2 ids each, 3 addresses (symmetric); 567,570 states | `FreeListSound`: the free list stays in its array and accounts for every id; `TablesSound`; `OneInnermostPerCoroutine`; `ImplementsIdPool` |
| `scheduler` | all programs of three families over 7 tasks (pairs with nesting, triples, starts), every order of events; 100,257 states | `WaitersAndEvents`, `NoOrphans`, `TasksEndRight` (results of combinators, nobody canceled twice), `GlobalsRight` (current task, cancel signal), `Termination` |
| `udp` | 3 tasks, 2 numbers, 3 datagrams; 20,125 states | `RegisteredAndRead`, `OneFate`, `DeletedUntouched`, `ReceiversServed` |
| `tcp_recv_till` | 2 tasks, all streams of 4 bytes over 2 letters; requests for 2 bytes, and for pattern "pp" in 3 or 4; internal buffer of 3; 606,622 states | `AllocFailsOnlyAfterCancel` (when a read aborts), `StreamCutRight` (nothing lost or doubled, in order, pieces end where they should), `WaitersFed`, `BytesAreRead` |
| `tcp_channel` | 3 tasks, 2 numbers, all pairs of packets with header 2, buffer 3 and lengths 1 to 4; 490,260 states | `PacketsFramed`, `RegisteredAndRead`, `BreakReachesAll`, `OneFate`, `ChannelDrains` |
| `tcp_conn` | 2 tasks, 2 connections, 2 peers; 53,652 states | `WaitersKnown`: callbacks resume exactly who waits; `ConnectionsAccounted`, `EstablishedWhenTold`: a late answer makes no usable connection; `RequestsEnd` |
| `event_tasks` | 2 tasks, 1 name, 3 handles or requests; 34,309 states | `WaitsSound`, `NotifiedThenWoken`, `ResultsReleased` |
| `redis` | 3 tasks, intervals 1 to 3, 4 cells; 75,381 states | `HandlesOwned`, `EstablishedKept`, `CellsNameCommands`, `CommandsEnd`, the limits of the interval |
| `http` | all authorities of up to 4 characters and some longer, all headers of up to 2 fields of 8 kinds, all bodies of up to 3 chunks of 0, 1, 2, 7 or 8 bytes, buffers of 0 to 4; port at most 10, int 15, long 1023, size_t 8; 38,932 states | `InputsJudged`, `RoomInBuffer` (for a chunk, exactly while the sum is a size_t), `ResultTruthful`, `RequestEnds`, positions inside the buffer |

Why these bounds are enough for the cases we care about: three addresses give a
task that holds, one that borrows and one that finds the pool empty, and
addresses are used again; two instances give the tables a boundary between
ranges. Three tasks on a udp object are one being resumed, one canceled and one
arriving. In `tcp_recv_till` the two letters of the pattern are equal, so
occurrences overlap and are split between reads; the internal buffer is shorter
than a stream and grows; buffers are both shorter and longer than pattern and
stream. In `tcp_channel` the four lengths are one too short, a bare header, a full
buffer and one too long; a header is split between reads, a second packet shows
what the first one left in the buffer, and with three tasks one is being told of a
failure while another is next in the walk and a third is canceled. In `tcp_conn`
two tasks and two connections give an accept queue of two, a canceled connect
whose answer comes while the task is in another operation, and two sends on one
socket. In `event_tasks` three handles give a task that waits again under a name
whose first sync was notified and canceled, next to one that outlives its task. The
interval of `redis` goes through minimum, doubled and capped; three tasks give a
cell of a canceled command between two others. In `http` two fields give every
duplicate and both orders; three chunks and buffers of 0 to 4 give a buffer filled
before, at and after the end of a chunk, and a chunk as long as a `size_t` can say
makes the sum wrap; ports of three and four digits exceed int and long. The programs of `scheduler` have two
levels of combinators, with every kind of leaf at every place.

Deadlock is checked in the scheduler runs, where the last step of a program is
the explicit `Exit` of `uv_run`. In the others a program may simply stop using
the object.

### Disagreements

These runs end in a violation. Each shows a behaviour of the code that a sentence
of the documentation, a message or an assertion of the code contradicts; the
quotations are under `findings` in `PROJECT.json`.

| Run | What happens |
|---|---|
| `scheduler_nested_unsupport` | `any_of` a over b, c and f, where b is an `any_of` over an uninterruptable d and e. c ends, a cancels b; b sees d, marks itself uninterruptable and waits for it, with a suspended inside the `swap_running` of its cancel loop (`cocoflow.cc:77`). f ends and its `finish_to` resumes a there as if b had returned; a returns while b and d still run |
| `tcp_till_full_buffer` | a `recv_till` with a pattern whose buffer is full without it returns success, where `docs/index.html:587` promises an error |
| `http_trailing_space` | a field that ends in a space is never parsed to its end |

A full buffer is part of the passing run `tcp_recv_till` too, whose `StreamCutRight`
says what the code does there. The other passing runs exclude what leads to these
violations and to others, for which the modules keep a specification or a set of
programs with the step in it. Used in
place of `Spec` (or of `AllPrograms`) in the configuration of the passing run,
each breaks the property named:

| In place of | Use | Breaks | Because |
|---|---|---|---|
| `TaskPool!Spec` | `LateInitSpec` | `TablesSound` | `init` of a second instance after a task exists is accepted (`cocoflow.h:805` tests the flag of this instance only); its ids have no coroutine |
| `TaskPool!Spec` | `RejectedAwaitSpec` | `FreeListSound` | `await` of a task that is not ready returns -1 after it has given the task's id back |
| `Programs` | `StartWhenAwaited` | `WaitersAndEvents` | `start()` in an awaited task leaves its caller suspended, though the documentation says it does not block |
| `Programs` | `NestedCancel` (tasks `NamesG`) | `GlobalsRight` | with combinators nested three deep the global cancel signal outlives its target and is read by an unrelated task |
| `Programs` | `ChildEndsUnready` | `Termination` | `all_of` does not count a child that ended as child_unready |
| `Udp!UdpSpec` | `LateBindSpec` | `RegisteredAndRead` | a seqer bound while the object receives: `recv_by_seq` waits on callbacks that do not know it |
| `Udp!UdpSpec` | `SharedSeqSpec` | `OneFate`, `RegisteredAndRead` | `erase(seq)` at cancellation unregisters every waiter of the number |
| `TcpChannel!Spec` | `LateBindSpec` | `RegisteredAndRead` | `bind` inside the `__task_stand` of `tcp_recv_cb0`: the callback then stops the reading of the channel |
| `TcpConn!Spec` | `RetrySpec` | `WaitersKnown` | an accept that returned address_in_use is still in the queue when another one succeeds to listen |
| `TcpConn!Spec` | `DestroySpec` | `WaitersKnown` | a connection destroyed under a send or a connect: the callback sees `UV_ECANCELED` and resumes nobody |

With `TcpChannel!CancelSpec` a task that is told of a failure may cancel the one the
iterator of `break_all_recv` or `drop_all` has moved on to, and phase "dangling" is
reached. `Udp!IgnoreLasts` is stated and does not hold of `UdpSpec` itself:
`ignore_recv()` from a resumed receiver is undone by the rest of the callback.

Other outcomes that nobody will want are part of the passing runs. The properties
there say when they happen, or hold until they do:

| Where | What happens |
|---|---|
| `tcp.cc:494`, `:499` | `recv_till::cancel` leaves the socket being read until the async callback. A read before that finds an empty queue, or a first task without pattern while the internal buffer has bytes, and a `CHECK` aborts the program (`AllocCb1Aborts`). `AllocFailsOnlyAfterCancel`: at no other time |
| `tcp.cc:623-631` | a cancel that puts bytes back before the internal buffer was allocated makes one of exactly their size; the next `recv_till` with a longer pattern then offers a room of 0, on which libuv asserts |
| `tcp.cc:633` | bytes put back go behind bytes that are already there, so the stream is reordered (`displaced`); `StreamCutRight` still says that none is lost or doubled |
| `tcp.cc:711` | the async callback completes a task that destroys the connection; the test for that reads the data of the async handle, which the destructor leaves alone, and `check_remaining` goes on with the freed object ("freed") |
| `tcp.cc:196` | a task told of a failure cancels the one told next and the iterator dangles ("dangling"; it takes three tasks, one more than the run has) |
| `tcp.cc:204` | a connection without seqer breaks and is not destroyed in the failed receive: a call through a null pointer ("null") |
| `cocoflow-redis.cc:197-228` | a command between the loss of a connection and the next attempt, which the loop of `extensions/test/test_redis2.cc:75-87` may create, is given to a context hiredis has freed |
| `cocoflow-redis.cc:254-266` | a command awaited after its reply came reads a freed cell |
| `cocoflow-redis.cc:59-60` | `~redis` after an automatic connection was established closes a timer that is closed, and frees a context that may be gone |
| `cocoflow-redis.cc:162-167` | commands after a failed `redis::connect` (`extensions/test/test_redis.cc:53-58` issues them) wait until the object is destroyed; `CommandsEnd` speaks of automatic and established connections |
| `cocoflow-http.cc:175` | `atoi` of a port beyond an int: `a:4294967297` is accepted as port 1. `InputsJudged`: only such ports are misjudged |
| `cocoflow-http.cc:1179` | chunks that fill the caller's buffer exactly, and another one: a `recv_till` of no bytes, whose `CHECK` (`tcp.cc:585`) aborts the program. `ResultTruthful`: this is the only case |
| `cocoflow-http.cc:1179` | a chunk whose announced length and the bytes already received add up to more than a `size_t`: the sum wraps, and `recv_till` is given room beyond the buffer. `RoomInBuffer`: exactly then |

### Fairness

* `Scheduler`: weak fairness of the steps of the running coroutine (straight-line
  code is executed) and of the delivery of some active event while the loop has
  control (`uv_run` returns only when nothing is active). Nothing is assumed
  about the order of events.
* `Udp`: weak fairness of the callback in progress or due, and of send
  completions.
* `TcpRecvTill`: weak fairness of callbacks; strong fairness of the alloc/recv
  pair with data, because each round of libuv's loop polls every handle, so a
  readable socket is read however often other handles, which run user code, are
  served in between.
* `TcpChannel`: weak fairness of callbacks, and of reading the socket of a channel
  while it has bytes.
* `TcpConn`: weak fairness of each callback that is due, of the answer to a connect
  request (the network stack answers or times out) and of the end of a write.
* `EventTasks`: weak fairness, per handle or request, of timers running out, of
  libuv's threads finishing, and of the callbacks due.
* `RedisConn`: weak fairness of the two timers and of code that continues after the
  commands of a context were called back; and that an established connection
  answers its commands or ends. An attempt to connect need not be answered: its
  timeout is what `CommandsEnd` rests on.
* `Http`: weak fairness of the task's next step: each await ends, in success or
  failure.

No fairness is assumed of user code or of cancellation, nor that a peer sends
anything: `Udp`, `TcpRecvTill` and `TcpChannel` ask only that what has arrived is read.
That a request of the program is answered or fails in the end is assumed of the
environment in `TcpConn` (connect, write), `EventTasks` (lookups), `RedisConn` (commands
of an established connection) and `Http` (each await, the ones for the server's
bytes included, which TCP itself does not promise; a program that wants this puts
the request in an `any_of` with a sleep).

## Proofs

Each module of proofs extends the module it is about, states an inductive
invariant `IndInv`, shows that `Init` establishes it (`InitOK`) and that each action
preserves it (one lemma per action or family of actions), and derives the theorems. All
of them hold for any sets of tasks and any bounds; what is assumed of constants is
given below. Two modules of proofs are about several components each, which share
nothing but `Tasks`; there the names of all but one component carry its name
(`UdpSpec`, `UdpIndInv`, `HttpSpec`, `HttpIndInv`, `EventSpec`, `EventIndInv`). The proofs about `Scheduler` fill
two modules: `SchedulerSteps` has the invariant, what follows from it and the effect
of the actions, `SchedulerProofs` the rest and the theorems.

| Module | About | Theorems (property) |
|---|---|---|
| `SchedulerSteps`, `SchedulerProofs` | `Scheduler` | `Invariant` (`IndInv`), `SpecGlobalsRight` (`GlobalsRight`), `SpecWaitersAndEvents` (`WaitersAndEvents`), `SpecNoOrphans` (`NoOrphans`), `SpecTasksEndRight` (`TasksEndRight`), for structured programs |
| `PoolUdpHttpProofs` | `TaskPool` | `TypeCorrect` (`TypeOK`), `FreeListExact` (`FreeListSound`, from `FreeListSafe` and `IdsSafe`), `TablesSafe` (`TablesSound`), `InnermostUnique` (`OneInnermostPerCoroutine`), `LimitedSound` (action property `LimitedOnlyWhenFull`), `Refinement` (`ImplementsIdPool`) |
| | `Udp` | `RegisteredSafe` (`RegisteredAndRead`), `DeletedSafe` (`DeletedUntouched`), `OneFateSafe` (`OneFate`) |
| | `Http` | `HttpTypeSafe` (`HttpTypeOK`), `HttpRoomSafe` (`RoomInBuffer`), `HttpTruthful` (`ResultTruthful`), `HttpInputsJudged` (`InputsJudged`) |
| `TcpRecvTillProofs` | `TcpRecvTill` | `CutSafe` (`StreamCutRight`), `FedSafe` (`WaitersFed`), `AllocSafe` (`AllocFailsOnlyAfterCancel`, under `PatternsFit`) |
| `TcpChannelProofs` | `TcpChannel` | `RegisteredSafe` (`RegisteredAndRead`), `FramedSafe` (`PacketsFramed`), `BreakSafe` (`BreakReachesAll`), `OneFateSafe` (`OneFate`) |
| `TcpConnProofs` | `TcpConn` | `WaitersSafe` (`WaitersKnown`), `ConnectionsSafe` (`ConnectionsAccounted`), `EstablishedSafe` (`EstablishedWhenTold`) |
| `EventRedisProofs` | `EventTasks` | `WaitsSafe` (`WaitsSound`), `NoStrayWakeup` (`WokenOnlyWhenNotified`), `NeverReleasedTwice` (`ReleasedOnce`) |
| | `RedisConn` | `TypeSafe` (`TypeOK`), `HandlesSafe` (`HandlesOwned`), `CellsSafe` (`CellsNameCommands`), `EstablishedSafe` (`EstablishedKept`) |

`SharedLemmas` has what several of them need: which elements a queue has, and
where, after `push_back`, `pop_front`, `push_front` and `erase`; and that a nonempty
set of numbers has a least element, which stands in for induction where a search
stops at the first match.

Assumptions. `NULL`, `End` and `Bad` are no tasks, names or numbers
(`NullAssumption`, `ValuesDistinct`, and parts of `ChannelAssumption` and
`TillAssumption`); sizes and limits are numbers, positive where the code's are
(`MaxAssumption`, `OpsAssumption`, `IntervalAssumption`, `SizeAssumption`), and a port is
an int and an int a long (`PortAssumption`). `TillAssumption`
asks that a request has a length above 0, the `CHECK` of the constructor.
`ChannelAssumption` asks that a header fits the buffer and that `Traffic` is packets
with their bytes, `InputsAssumption` that what a client is given has the form of urls
and responses. Every run evaluates these. The theorems speak of `Spec`, which has no
steps of the second table under Disagreements and has those of the third. A redis
command that is constructed is assumed to be awaited or started, not destroyed
before that.

Two conditions belong to single theorems. Those about `Scheduler` speak of programs
that are `Structured`:

* no task is named twice: each is awaited or started at one place, or is the child
  of one combinator, and the tree has no cycle (a rank falls along it). An `await` of
  a task that already runs gives its id back, after which its callback finds nobody;
  `scheduler` checks programs that name a task again after it has ended;
* an awaited task does not call `start()`: `StartWhenAwaited` shows what happens
  otherwise;
* a task with a combinator above it that has a combinator above it in turn can be
  interrupted: `NestedUnsupport` and `NestedCancel` break `NoOrphans` and `GlobalsRight`
  otherwise. Uninterruptable children of a combinator that is not itself below one, and
  tasks these await, are allowed; so is nesting of any depth.

How many tasks there are, what they await, how deep combinators nest and how many
children they have is arbitrary. `TriplesStructured` in `MCScheduler` shows that the
condition is met: by all programs of `Triples`.

`AllocSafe` says that `tcp_alloc_cb1` has room to offer, in a buffer that it made
itself, when no pattern is longer than the first internal buffer (`PatternsFit`, 1024
bytes). With a longer one the buffer can be full before the
pattern can be recognised, and nothing in `recv_till` (`tcp.cc:509`) rules that out.

### Why the invariants are what they are

None of the properties is inductive as it stands.

**TaskPool.** That `--free_list_front` stays in the array needs that the object
giving an id back is one of as many holders as slots are taken, so `PoolOK` ties the
front to the cardinality of the set of holders and the remaining entries to the ids
nobody holds. Who is a holder depends on `reuse` (`ObjectsOK`: an awaited object has
its parent's id, both run, and a task is awaited by at most one). That the manager
entry of a held id names the holder needs that holders of different instances have
different ids (`RangesOK`, `DistinctIds`), and that ids index the table needs
`TablesOK`. `TakeOK` and `GiveOK` are lemmas about values, one for `*(front++)` and
one for `*(--front)`; then there is one lemma per operation, and `NextOK` puts them
together.

The refinement needs the same invariant. `HeldIs`, `TakenIs` and `LeftIs` say what
the mapping makes of a state that satisfies it: the ids left in a pool are the
entries of its free list from the front on. With that, taking the entry at the
front is `Take` (`TakeSim`), finding none is `Refuse` (`RefuseSim`), pushing an id is
`Release` (`DestructorSim`, and `AwaitSim` where `await` gives back the id of the
object that will run on its parent's), `init` is `Open` (`OpenSim`: the new range
begins where all others end), and the rest changes nothing that `IdPool` sees
(`SameIds`, `StatusSim`, `AwaitReturnSim`). `StepSim` collects the cases.

**Scheduler.** The properties speak of one moment: the loop has control, a task has
ended, the signal is set. What makes them true is what every coroutine that has given
control away relies on, so the invariant follows all of them.

* `StackInv`: along a stack each task is awaited by the one below it, at the `await`
  before its program counter, and `reuse`, `uid` and `parent` agree with that.
* `CallInv` and `BlockInv`: a coroutine that is in `start()`, starts a child or
  interrupts one (`Calling`) gave control to a coroutine that runs or is calling itself,
  and the pending `block_to`, on whichever task of that coroutine the awaits have moved
  it to (`Blk`), leads back. Where it interrupts, the other one is unwinding
  (`Unwinds`), will not block and ends into its `finish_to`. So no caller is left
  behind when the loop gets control, and nobody is resumed who does not wait.
* `NotYet` and `FinishInv`: tasks further on in a program are untouched, children not
  yet started have been told whom to resume, and a child that has begun belongs to a
  combinator that is still at work.
* `CountInv`: the counters of `all_of::run` and of `__task_cancel_children` are the
  numbers of children not completed, or still alive, plus one while a wake-up is on
  its way. With `DoomInv` (what has been marked canceled is unwinding or below a
  combinator that has visited it; what was visited and lives cannot be interrupted) and
  `LevelInv` (who can be uninterruptable) this gives `NoOrphans`.
* `ResultInv` and `CancelsInv`: what the children's results are at each point of the
  combinator, and for whom `cancel()` has been called; this gives `TasksEndRight`.
* `SignalInv`, `CurrentInv` and `ArmedInv` are about the two globals and the handles.

`SchedulerSteps` describes each action by what it changes for tasks and coroutines
(`TaskRuntimeIs`, `AwaitIs`, ...), splits the actions at their conditions
(`StepCases`), and then there is one lemma for each part of the invariant (`StatusStep`,
`StackStep`, ...), with one step for each case. `WalkExists` and `FinalFacts` are about
the walk along the awaits of a child, a recursive function on the numbers up to the
number of tasks: that it finds the uninterruptable task on the stack if there is one.

**Udp.** The end of `udp_recv_cb0` stops whatever is being read when it finds its
queue empty. That this never stops the reading for a task in `recv_by_seq` follows
from `ModesAgree`: these callbacks run only on an object without a seqer. `QueueInv`
and `MappingInv` say which entry stands for which task, `ReadInv` for whom the socket
is read.

**TcpRecvTill.** That a piece ends at the first occurrence of its pattern, also when
occurrences straddle reads, rests on `Clean`: no occurrence begins in the bytes the
first task in line has taken, because `remaining()` leaves the last `Len(pattern) - 1`
bytes in the internal buffer when it finds none. `RemainingOK` is the lemma that
`remaining()` keeps this, for any pattern and bytes. `Order` says that bytes
delivered, taken and buffered are the bytes read so far, each once, and in order until
a cancel has displaced some (`Whole`); what is appended to such a sequence, cut from it
or moved to its end leaves it so. `Turns` says that only the first in line has bytes,
and that it has been offered what is buffered before the loop has control (`Settled`),
unless a cancel has yet to be noticed, which is `WaitersFed`; `Control` which callback
may be in progress in which state of the connection.

**TcpChannel.** `packet_len` is read from the stream, so that it is the length of the
packet whose bytes follow needs `Framing`: `buf2` is a beginning of one packet, and
the bytes on the wire go on where it ends (`WireInv`). `BreakInv` follows
`break_all_recv`: its iterator is the front of what is left, because nobody can begin
to wait on a broken connection.

**TcpConn.** `OwnersInv` says what an operation in progress may rely on,
`FieldsAgree` which of `sock`, `established`, `broken` and `connect_req` go together.
`BeforeListen` tells apart the time before `uv_listen` has succeeded: an accept that
found the address in use leaves an entry behind that nothing reads.

**EventTasks.** The two ways between a task and its handle agree once open handles
have different numbers (`Numbering`, `Given`) and only a lookup can be without its
task (`Owned`). The action properties are the safety halves of `NotifiedThenWoken` and
`ResultsReleased` and need two facts about the past: a signal is on its way only if
its `notify` was of this wait (`DueOwed`), and a request whose result was handed
over or freed is closed (`ReleasedClosed`).

**RedisConn.** The code never asks whether its timer is open or its context alive.
As long as nothing undefined has been done, `Shape` lists the combinations of mode, context, timer, `old_opened` and callback that
occur; `Connecting` says that at most one task is in `connect`, `Cells` which task
each cell names.

**Http.** That a status means the whole body is in the buffer needs, in the middle of
the chunks, that what was received is the sum of the lengths of the chunks copied so
far and that no chunk before was empty (`BodyInv`); `SumsGrow` then compares it with
the sum that the properties speak of. `HeaderInv` says that the fields kept are those
that matter among the ones parsed, each once. The sums and the loop of `url_parse` are
recursive functions. Where induction would be used, the proofs take the least position
at which a statement fails: that the functions exist (`SumsExist`, `ScanExists`), and
what the ten pointers are after n characters (`ScanRight`: nothing found yet, one `:`,
a user part, or a text that is no authority whatever follows). `PlainParts`,
`ColonParts`, `UserParts` and `MalformedIsNot` compare each of these with the reference,
which counts and cuts (`PartNone`, `PartOnly`, `PartTwice`). `AtoiIs` says that atoi is
exact for a number that an int holds, and `NumberIsNat` that digits write a number at
all, by the least position at which they would not. `RoomIs` gives the room for a chunk
in the two cases of the sum (`SizeSumIs`).

### Only model-checked

* All liveness (`Termination`, `ReceiversServed`, `BytesAreRead`, `ChannelDrains`,
  `RequestsEnd`, `NotifiedThenWoken`, `ResultsReleased`, `CommandsEnd`, `RequestEnds`),
  which is outside what the prover handles.
* `Scheduler`: the four invariants for programs that are not structured. The run has
  such programs (tasks awaited a second time, children started elsewhere); they hold
  for these and fail for others (see the tables above).

## Not modelled

Stack memory and guard pages; Windows fibers; debug logging and tips; contents,
lengths and addresses of datagrams; the lifetime of heap tasks given to `start()`
(that `start()` of a task which already runs may delete it, `cocoflow.cc:279`);
`tools.cc` and `max_map_count.c` (pure conversions and I/O).

Of tcp: binding a listening socket and addresses of peers; a `bind` whose `max_len`
is below its `min_len`; reads after a packet of an impossible length. Of redis:
hiredis itself beyond what the code relies on, and the callbacks for monitoring. Of
http: the formatting of the request (one `snprintf` into 4096 bytes, whose `CHECK`
at `cocoflow-http.cc:751` also admits a text cut by one byte), the tables of field
names and status texts, path, query and comment of a url, headers longer than the
header buffer, and what happens after a write past the caller's buffer.

The demos, tests and benchmarks of the repository are programs that use the
library; the models cover them as user code.

## Plan

1. `TaskTree`, an abstract specification of structured concurrency (a set of
   tasks that start and end, a combinator ending after its children), and
   `Scheduler` shown to implement it; `Invariant` is what that needs.
2. The scheduler theorems for tasks that are awaited or started a second time.
3. The lifetime of tasks on the heap (`start` deletes what it ran) in `TaskPool`.
