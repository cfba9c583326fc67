# A TLA+ model of luce

luce is a coroutine-based network library in C++20: thread pools, an
edge-triggered epoll reactor that resumes coroutines, TCP, HTTP and RPC servers
on top of it, a timer, a codec and a few utilities. This directory holds TLA+
models of its parts, the TLC configurations that check them, and TLAPS proofs
about its thread pools, its reactor, its server, its timer, its HTTP handler, its
RPC, a codec and its buffer pool. Paths below are relative to the repository's root.

## 1. Inventory

| component | state | operations | interacts with |
|---|---|---|---|
| `ThreadPool` (`luce/common/thread_pool.h`) | `tasks_`, `stop_`, one mutex, `condition_` (workers), `condition_producers_` (Shutdown), worker threads | worker loop, `Commit`, `Shutdown`, destructor | used by `TcpServer` twice: the work pool and the reactor pool |
| `EventManager` (`luce/net/event_manager.*`) | epoll set, `events_`, `is_shutdown_` | `Start`, `AddRecv/DelRecv/AddSend/DelSend`, `Attach/Detach`, `UpdateEvent`, `Shutdown` | called by the awaiters on any thread; resumes coroutines inline |
| I/O awaiters (`luce/io/io_awaiter.*`) | the suspended coroutine and its buffer offset | `AsyncRead`, `AsyncWrite`, packet variants, `AcceptAwaiter` | `Socket`, `EventManager` |
| `Socket`, `TcpConnection` (`luce/net/socket.*`, `luce/net/tcp/tcp_connection.*`) | `recv_coro`, `send_coro`, `io_state_`, `detached_`, `closed_` | setters, `Close`, destructor | shared without a lock by a worker and the reactor thread |
| `TcpServer`, `TcpAcceptor` (`luce/net/tcp/`) | `is_shutdown_`, two pools, reactors, timer, listening socket | constructor, `Start`, `AcceptLoop`, `Shutdown` | everything above |
| `TimerManager` (`luce/timer/timer.h`) | `timers_` (a heap in a vector), `timer_id_`, `stop_` | `AddTimer`, `RemoveTimer`, `Tick`, `Shutdown` | `Tick` occupies a work-pool thread; HTTP handlers add and remove |
| `co::Task`, `CoThreadPool`, `BlockingQueue`, scheduler (`luce/co/`) | run queues, coroutine frames | `co_spawn`, work stealing, destructor | handlers are `co::Task`s |
| `blocking_queue_thread_pool.h` | a blocking queue per thread, `stop_` | `Commit`, `CommitById`, `Shutdown` | included by nothing |
| RPC (`luce/net/rpc/`) | registered functions, client connection, `err_code_` | `Call`, `NetCall`, `OnRequest`, `CallImpl` | packet awaiters, `Serializer` |
| HTTP (`luce/net/http/`) | request buffer, router, close timer | `OnRequest` loop, parsing, routing | `TimerManager`, `TcpConnection::Close` |
| codec, JSON, string utilities | a serializer's bytes and position; for JSON one static `Parser` (`Parser.cpp:8`) whose text and index all threads share | encode, decode, parse | RPC, HTTP |
| `CountDownLatch`, `IOBuf` pool | counter; free lists | wait, count down; allocate, revert | included by nothing in the library |
| logger, files, time stamps, addresses, singleton | none of interest | formatting and system calls | everywhere; `LOG_FATAL` ends the process |

What is hard about this code: a handler starts on a pool worker and continues
on the reactor thread, with an unsynchronised hand-over between the two; epoll
is edge-triggered, so a wakeup that is lost is lost for good; the pool decides
under a mutex but notifies outside of it; `Shutdown` walks through parts that
run on each other's threads; the heap of the timer is modified from its middle;
packets, request heads and bodies come in whatever pieces TCP makes of them; and
a timer's thread closes a connection under the handler that uses it.
`PROJECT.json` lists these hazards at their lines, with the property that
catches each of them or the reason why none does.

What makes each part correct:

* thread pools: an accepted task or coroutine runs exactly once, none sleeps in
  a queue while a thread sleeps that should take it, and closing the pool
  returns after everything accepted has run;
* reactor and awaiters: a coroutine is executed by one thread at a time and
  resumed only for what it waits for, bytes are neither lost nor repeated, no
  wakeup is lost, and a finished connection is released;
* server: every client that connects is accepted and handed over once, and
  `Shutdown` returns with nothing left running;
* timer: a timer is kept until it is popped or removed, a removed one is not
  started, and the front of the heap is the next one due;
* RPC, HTTP: a request is reassembled from whatever pieces arrive, answered once
  and on its own connection, and a client's error state matches the connection;
* codec, JSON, strings: decoding what was encoded gives it back, and the text
  functions do what a short definition of them says;
* latch, buffer pool: the waiting thread returns; no buffer is lost or shared,
  and the memory stays below its limit.

## 2. Modules

| module | models | kind |
|---|---|---|
| `TaskPool` | what a thread pool promises: accepted tasks run in order, refused ones never do, closing happens on an empty queue, and it returns when every accepted task has run | abstract specification |
| `ThreadPool` | `thread_pool.h`, one step per critical section or notification | component |
| `ThreadPoolProofs` | invariants of `ThreadPool`; `ThreadPool` implements `TaskPool` | proofs |
| `CoThreadPool` | `co::ThreadPool` over one `BlockingQueue` per thread, and `co_spawn` | component |
| `CoThreadPoolProofs` | its invariants | proofs |
| `EventLoop` | `EventManager`, `Socket`, `TcpConnection`, read and write awaiters, with the echo handler of `example/echo_server.cpp` | composition |
| `EventLoopProofs` | its invariants | proofs |
| `TcpServer`, `TcpServerProofs` | `TcpServer`, `TcpAcceptor`, `AcceptAwaiter` over two instances of `TaskPool`; its invariants | composition, proofs |
| `Timer`, `TimerProofs` | `TimerManager` with its heap; its invariant | component, proofs |
| `Codec`, `Serializer` | `codec/serializer.h`: numbers and strings; containers, tuples and objects of them | operators |
| `TinyPB` | `codec/tinypb_coder.cpp` | operators |
| `Rpc` | `BlockingRpcClient`, `RpcServer` and the packet awaiters, over `Codec` | composition |
| `RpcProofs` | the invariant of `Rpc`; the round trip of `TinyPB` | proofs |
| `StringUtil`, `JsonText` | `string_util.cpp` with the parsing of `http_request.cpp`; `Parser.cpp` and `JObject::ToString` | operators |
| `Http` | `HttpServer::OnRequest`, `Router`, `HttpContext`, the close timer and `TcpConnection::Close`, over `StringUtil` | composition |
| `HttpProofs` | its timers and its answers | proofs |
| `BufPool`, `CountDownLatch`, `BlockingQueuePool` | `io/io_buffer.cpp`; `count_down_latch.h`; `blocking_queue_thread_pool.h` over `blocking_queue.h` | components |
| `LibraryProofs` | the invariants of `BufPool` and `BlockingQueuePool` | proofs |
| `MC*` | the small instances for TLC | |

`EventLoop` and `TcpServer` overlap in one place on purpose. `TcpServer` takes
the registration of the listening socket as one step; `EventLoop` takes a
registration apart into the six accesses it consists of, for connections.
`TcpServer` rests on the contract of the pools and not on their code, which is
sound because of the theorem `Refinement`.

### State and code

**ThreadPool.** Each worker has a program counter: asleep in `condition_`, about
to take the lock, in a task, or ended. `tasks_` is a sequence, `stop_` the flag.
A wait is two steps, testing the predicate under the mutex and leaving the wait,
and a spurious wakeup is an action. `Commit` is the critical section followed by
the `notify_one` outside of it, so everything can happen in between. A refused
`Commit` (after `stop_`) breaks the future. `Shutdown` is: wait until the queue
is empty, set `stop_`, `notify_all`, join. The destructor calls `Shutdown`
unless it has been called. One owner closes the pool, as everywhere in the
repository.

**CoThreadPool.** One queue per thread, each item with `can_steal`. A worker
scans all queues (one step per `try_pop_if`, which may fail just because the
mutex is taken), then blocks on its own. `ScheduleById` reads `stopped_` in one
step, pushes in a second and notifies in a third. Without an id, `try_push` and
`rand()` together may choose any queue. Threads outside schedule until the
destructor begins; a coroutine may schedule others for as long as it runs, also
during the destructor. `bound`, `late`, `finished` and `dropped` record history
for the properties only.

**EventLoop.** `net` is the kernel and peer side of a connection: bytes in the
receive buffer, bytes in the send buffer, sent and received totals, and whether
the peer has finished or reset. `ep` and `ready` are the epoll set and its ready
list; an `epoll_ctl` polls the socket, an event enlists it if asked for, and
`epoll_wait` returns at most `events_.size()` of the listed ones that are really
ready. `sock` holds `io_state_`, whether it is attached, and whether each handle
is set. `thr` says where each thread is; a registration goes through `enter`
(closed and shut-down tests, `Attach`), `coro` (store the handle), `load` and
`store` (the read and the write of `io_state_`) and `ctl` (`EPOLL_CTL_MOD`).
Resuming a null or freed handle is undefined behaviour; it is taken to end the
process, as is a failing `epoll_ctl` (`LOG_FATAL`) and SIGPIPE.

**TcpServer.** `loop` is the position in `AcceptLoop`, `main` the thread inside
`Start()`, `closer` the next statement of `Shutdown()`. The loop runs on the
reactor pool's thread until it first suspends, then on the main thread.

**Timer.** A step is what a thread does while it holds `mtx_`. `AddTimer` and
`Tick` read the clock before they take the lock, arbitrarily long before in the
former's case. `pop()` keeps a reference to the front of the
vector across `Erase(0)`, so the task it starts is that of the *next* timer; for
the last timer the element is destroyed, and the outcome is either the old task
or the end of the process. The recursive calls of `HeapifyUp` and `HeapifyDown`
are taken at once, so that the heap can be reasoned about: `Visited` is the set of
indices they go through, and `Sift` moves every timer on it one place and the
sifted one to its end. `MCTimer` also has the two methods call by call
(`RecursiveUp`, `RecursiveDown`), and TLC compares them on every vector of up to
six timers with three expiry times, from every index (`SiftMeetsRecursion`, an
assumption that TLC evaluates when the run starts).

**Rpc.** `up` and `down` are the bytes on their way, `cli` the position in
`NetCall`, `ReadPacket` and `WritePacket`, `srv` the position in `OnRequest`,
`AsyncReadPacket` and `AsyncWritePacket`. Bodies are real: they are what
`Serializer` makes of a name and its arguments, byte by byte, and `CallImpl`
deserializes what has arrived. The argument of a call is its number and a
function adds 10 to it, so that a value tells which call it answers. A read takes any non-empty part of what is there. Both sides read a
header once and trust it (`AsyncReadPacket` ignores the result, `ReadPacket`
reads again into the beginning of the buffer), so a header that comes in pieces
stands for any length; `split` remembers that. `err_code_` starts with an
arbitrary value, as in the code. `NetCall`'s test for a negative result never
holds because `ReadPacket` returns a `size_t`; the step `ClientReadError` ends
the client there. Either program may end at any time.

**Http.** The client's stream is a sequence of tokens: a request's line with its
headers, the blank line, and body parameters that count one each for
Content-Length. `asking` is the token the client sends next, `up` the tokens that
have arrived and are not read. A round of `OnRequest` is `Top` (`AddTimer`), `Read`,
`ParseRequest`, `ReadMore` until the size fits, `RemoveTimerAndHandle`, `Send`
and `CheckKeepAlive`. A timer's task runs on a thread of its own and closes in
two steps, the descriptor and then the flag. From the model of `TimerManager` it
takes only that a task may start early, late or not at all, since `pop()` starts
the next timer's task. What the code does and a reader might not expect: at the
end of the stream, or once the timer has closed the connection, the loop goes on
and adds a timer in every round; a coroutine that waits on a descriptor when the
timer closes it is never resumed; `ParseBody` sees only what came with the head,
so the `/add/` handler of `docs/http.md` answers 404 when its parameters come
later, against line 12 of it; the result of `Trim` is not used, so only
`Connection:close` without a blank ends the loop;
`HttpContext::JSON` sets no body and nothing is sent.

**Codec, Serializer, TinyPB, StringUtil, JsonText.** Pure operators; strings are
sequences of bytes or characters. Recursion stands for the loops and for the
overload resolution of the source. `Codec` has the overloads that need none,
which are those that a call of `Rpc` uses; `Serializer` has the others but those
for `std::map`; an object with methods of its own writes its members in turn, as
the `Student` of the RPC test does. Numbers
from 2^24 on are one value, `Huge`: no buffer is that long. Undefined reads behind a buffer give a
position behind its end. A JSON number is a sign and its digits. `FromString`
starts from a fresh text and index, as each call does when calls do not overlap;
two threads that parse at once race on the shared `Parser`, which is undefined and
excluded. A JSON comment at the end of the text, which
`SkipComment` fails to notice, sends the parser back to the beginning of the
text, as in the code.

**BufPool, CountDownLatch, BlockingQueuePool.** A step is what a thread does
under the mutex. `BufPool` keeps which part of each buffer is in use, not its
bytes. In `BlockingQueuePool` a `Commit` may overtake the stop of its queue; such
a task (`late`) may stay there for ever. A latch wakes one of several waiting
threads; `LatchOpens` asks it of every waiter, which holds for one and fails for two.

### What is abstracted

Bytes are counted, not named: a connection is a FIFO and the echo handler does
not look at them. The kernel and the peers are external and modelled from how
the code uses them. A descriptor is not reused after `close`, and
`TcpConnection::Close` is one step. `EINTR` is a stuttering step. Events that
carry only `EPOLLERR` or `EPOLLHUP` are left out: the loop ignores them.
`accept4` fails only with `EAGAIN`; running out of descriptors is not modelled.
`Start` is called with its default argument, as everywhere in the repository.
Logging is left out. Socket options are system calls without effect on this state.

## 3. Runs

| run | instance | checks | result |
|---|---|---|---|
| `thread_pool` | 2 workers, 2 committing threads, 3 tasks | `Custody`, `StopIsFinal`, `NoLostWakeup`, `ShutdownIsComplete`, the liveness of futures and of Shutdown, and `ImplementsTaskPool` | pass |
| `coroutine_pool` | 2 threads that steal, 1 caller outside, 3 coroutines | `OnePlace`, `BoundToThread`, `OwnerAwake`, `DrainedAtEnd`, `QueuedIsResumed`, `DtorReturns` | pass |
| `reactor` | race: 1 connection, 3 bytes, buffer 2, send buffer 1; resets, a foreign `Close`, shutdown; the reactor may run inside a registration | `EchoConserved`, `OneRunner`, `ResumeMatchesWait` | pass |
| | apart: the same, but no event of a connection is returned inside its own registration; two: that for 2 connections of 1 byte, `events_` of one entry, no faults | those, and `ApartNoCrash`, `ApartEchoed`, `ApartReleased` | pass |
| `reactor_null_resume` | 1 connection, events inside the registration | `NoNullResume` | violated |
| `reactor_lost_update` | 1 connection, 2 bytes, events inside the registration, no faults | `EverythingEchoed` | violated |
| `tcp_server` | 3 clients, 2 work threads, one of them taken by `Tick` | `NoConnectionDropped`, `StopsAccepting`, `ClientServed`, `ServerShutdownReturns` | pass |
| `tcp_server_early_client` | clients may come before the acceptor is in epoll | `AcceptorSurvives` | violated |
| `rpc` | 2 calls of a bound or an unbound name, send buffers of 6 bytes, a header whole or cut in the middle, leftovers 0 and 3 | `AnswersMatchCalls`, `CallReturns`, `HandlerLeaves`; `SerializerRoundTrip` and `TinyPBRoundTrip` on samples | pass |
| `http` | 4 sessions of 2 requests, 3 timers, reads of 4 tokens | `AnswersInOrder`, `OneTimer`, `RequestAnswered`; `StringsMeetReference` and `JsonRoundTrip` on samples | pass |
| `http_head` | samples of a header and of a request line | `HeadAsCommented` | violated |
| `library` | 4 timers, 3 instants; 3 buffers in 2 capacities and a limit of 6; 1 waiting and 3 counting threads for a count of 2; 2 queues and 2 tasks | `TimersKept`, `RemovedStaysSilent`, `EveryTimerLeaves`, `BuffersKept`, `LatchOpens`, `PushedTasksRun` | pass |
| `latch_two_waiters` | 2 waiting and 3 counting threads for a count of 2 | `LatchOpens` | violated |

`OneRunner`, `NoConnectionDropped`, `TimersKept` and `BuffersKept` include the
type invariant of their module; for the two thread pools it is a theorem.

**Bounds.** Two workers and two committers are the least with which a
notification can reach the wrong thread; three tasks let one be queued, one run
and one be refused. Three coroutines are one that runs and schedules, one that
is scheduled and one that waits in a queue; since each is scheduled once, the
run says nothing about a bound coroutine starved by an endless supply of
stealable ones. Three bytes with a read buffer of two and a send buffer of
one force partial reads, partial writes and a second round of both. An `events_`
of one entry with two ready connections is filled and grows. Three clients are
one more than a single edge and one hand-off account for. Four timers give a
heap with two levels below the root. A send buffer of six bytes is smaller than
every packet of `rpc`, so that bodies are written and read in pieces, and two
calls let a late reply meet the next call. The four sessions of `http` combine a
plain request, one with a body of two pieces, one that closes, one to a route
that was refused and one whose handler sends nothing; three timers are one more
than there are requests, so that a timer of an earlier round can be left over. A
read of four tokens is as long as the longest request. In `rpc` and
`http` a behaviour is either a connection or one sample, fixed by the variable
`sample` of `MCRpc` and `MCHttp`, of what the codecs or the text functions are
given. The samples of the codecs
hold empty and nested values, numbers on both sides of a byte, and the bytes
that delimit something; the string functions are checked on all texts of up to
four characters over a letter, a delimiter and a blank. A memory limit of six
is reached: one more buffer of either capacity still fits, and the next does not.
Four timers are too few for a removal from the middle to disorder the heap, six
would do; no run says what happens then. In `library` and `reactor` a behaviour
is one of a single part or instance (`subject`, `instance`). Deadlock is not checked: a closed pool, a
stopped server, an idle connection and an empty timer may rest.

**The switches of `EventLoop`.** `Window` says whether `epoll_wait` may return a
connection whose worker is still inside its registration; other connections may
always be in theirs. In the code it may. The instance `race` of `reactor` says what
holds then, up to the step that ends the process, and `reactor_null_resume` and
`reactor_lost_update` show what does not. The other two instances take the steps
that the switch would leave (`Apart`): `ApartNoCrash` shows that this window is the
only way to a null handle, whatever is closed or reset, and `ApartEchoed` and
`ApartReleased` ask whether the protocol is right otherwise: is a wakeup ever
lost, is a connection ever leaked? Likewise `Early` in
`TcpServer`. These restrictions are assumptions of those runs, not guarantees of
the code. The liveness properties of these modules also excuse the states after
a shutdown, a reset, a `Close` by another thread or the end of the process.

**Fairness.** Every thread that can take a step eventually does (weak fairness
of the workers, of the reactor, of the accept loop, of `Tick` and of a `Shutdown`
that has begun): operating-system threads are scheduled. Tasks return. A peer
reads what it is sent. Time passes. Nobody is obliged to connect, to send, to
commit, to call `Shutdown` or to wake up spuriously. In `Rpc` both programs go on
while they can, but may leave or crash instead; in `Http` the handler, the
reactor that wakes it and a closing thread run, while the client owes nothing
and a timer may take as long as it likes. The `rpc` properties excuse a split
header and the `http` ones a client that does not wait for its answer or whose
head comes in pieces (`rough`): what the code does then depends on memory it has
not written.

**What the violated runs show** (`findings` in `PROJECT.json`, with the lines of
the documents they are measured by):

* `reactor_null_resume`: `AddRecv` and `AddSend` put a descriptor into epoll before
  they store the handle; an event in between resumes a null handle
  (`event_manager.cpp:77`).
* `reactor_lost_update`: the reactor has resumed the coroutine before its worker is
  through the registration, and both write `io_state_`. The worker's value is the
  older one and the last: epoll is asked for `EPOLLIN` while the coroutine waits
  for `EPOLLOUT`, for ever (`event_manager.cpp:80`). Nothing crashes, so the
  invariants of the instance `race` hold of this behaviour.
* `tcp_server_early_client`: `AcceptAwaiter::await_resume` calls `DelRecv` even when
  `accept4` succeeded at once; a client that connects between `listen()` and the
  first registration ends the process (`io_awaiter.h:120`).
* `http_head`: the blank behind a header's colon stays, as the result of `Trim` is
  discarded (`http_request.cpp:40`), and a parameter behind `?` is not found, as
  the URL is cut at `&` (`http_request.cpp:59`). Every sample shows both.
* `latch_two_waiters`: the last `CountDown` wakes one of two waiting threads
  (`count_down_latch.h:26`).

More that the models contain and no property asks for:

* nothing ignores SIGPIPE, although `docs/debug.md` names that as the remedy, so
  `WritePipe` ends the process;
* `pop()` starts the next timer's task, and a removal from the middle of six timers
  can leave a child before its parent, as `Erase` only sifts down (`timer.h:97`):
  such a timer is late, but not lost (`TimersKept`);
* `err_code_` is compared before anything has assigned it (`rpc_client.h:79`): if it
  happens to be `RPC_ERR_RECV_TIMEOUT`, the first request is not sent and the call
  waits for ever. And a server that goes away between two calls leaves the client
  reading the end of the stream for ever (`NoReply`). `CallReturns` excuses both;
* a POST to `/add/` whose body comes behind its head is answered 404 and not with
  the sum that `docs/http.md:12` promises, for the parameters are parsed before
  the body is there (`http_request.cpp:27`). `AnswersInOrder` is about the order
  and accepts either status of that route;
* a negative number that `ToString` writes is refused by `ParseNumber`
  (`Parser.cpp:74`); `JsonRoundTrip` states that it is never misread.

## 4. Proofs

`ThreadPoolProofs` is about `ThreadPool` with any set of workers, committing threads and tasks. The only assumptions are that
there is a worker (`WorkersAssumption`; with none, nothing is ever run) and that
`None` is not a task (`NoneAssumption`).

* `TypeCorrect`: `TypeOK` is inductive by itself.
* `Inductive`: `IInv == TypeOK /\ Custody /\ StopIsFinal /\ NoLostWakeup` holds
  always. The parts need each other: that a worker asleep has nothing to miss
  (`NoLostWakeup`) depends on nothing being queued behind `stop_`
  (`StopIsFinal`), and that a task taken by a worker is in one place only
  (`Custody`) depends on the queue holding each task once.
* `TasksAreKept`, `StopStays`, `WakeupsAreKept` are its parts;
  `ShutdownCompletes` follows from them: after the joins every worker has ended,
  the queue is empty, and hence every accepted task has run.
* `Refinement`: `Spec => ImplementsTaskPool`. The status of a task is read off
  the concrete state: queued if it is in `tasks_`, running if a worker holds it,
  otherwise done or refused as its future says. The step that takes a task is
  `Start`, the one that ends it `Finish`, the critical section of `Commit`
  either `Accept` or `Refuse`, setting `stop_` is `Close`, the join `Return`;
  every other step (waits, wakeups, notifications) is invisible.

`CoThreadPoolProofs` is about `CoThreadPool` with any positive number of threads,
with and without stealing, any callers that are not workers
(`CallersAssumption`) and any coroutines (`NoneAssumption`).

* `CoTypeCorrect` and `StaysOnItsThread` follow from `BInv`. `TypeOK` is not
  inductive alone here: that a queued item has a coroutine rests on what a call
  to `ScheduleById` carries (`CallsRespectBound`). `BoundToThread` rests on
  `ItemsRespectBound`: an item that can be stolen is unbound, and any other sits
  in the queue of its own thread.
* `OwnersAreAwake` and `DestructorDrains` follow from `DInv`, which adds
  `LeftoversAreLate`: a worker ends on an empty queue of a stopped pool, so
  whatever is in that queue later was pushed after `stopped_` was set.
* `CoroutinesAreKept`: `Spec => []OnePlace`. `OnePlace` is a sum of four
  cardinalities, which no step can be shown to preserve as such. `PInv` says the
  same with quantifiers, in two parts: no kind of place holds a coroutine twice
  (`OneSlot`, `OneHolder`, `OneCall`), and it is in one kind of place, namely
  exactly if it has been scheduled (`OneKind`). Stealing and popping are one
  lemma about the sequence without one of its elements. The cardinalities follow
  at the end, each of them 0 or 1.

`LibraryProofs` is about `BufPool` with any capacities, sizes, buffers and limit
(`CapsAssumption`), any initial lists in which no buffer occurs twice
(`FirstAssumption`) and a constructor that stays below the limit
(`MemAssumption`; the code's own numbers are 334 MB of 5 GB).

* `PoolIsKept`: `PoolSpec => []BuffersKept`. The invariant is inductive as it
  stands: that unlinking the front of a list leaves no second link to it needs
  that no list holds a buffer twice (`OneOwner`), and that a returned buffer goes
  to the list of its own capacity needs that a buffer in use has one. The two
  lemmas `PoppedList` and `PushedList` say where the elements of a list are after
  `Tail` and after adding one in front; one lemma per operation follows.

It is also about `BlockingQueuePool` with any number of threads and any tasks,
without an assumption.

* `PushedTasksKept`: the safety half of `PushedTasksRun` (`TasksKept`). A pushed
  task, and no other, has run, is run by one worker or lies once in one queue;
  and when `Shutdown` has returned, every task that was pushed before its queue
  was stopped has run. `QInv` adds why: a worker leaves only a stopped queue in
  which nothing lies but what was pushed behind the stop (`LeftEmpty`), and
  `Shutdown` waits for all of them (`Joined`).

`EventLoopProofs` is about `EventLoop` with any connections, buffer sizes and
number of bytes, with and without the switches.
There are four invariants, each built on the one before.

* `OneThreadAtATime`: `Spec => []OneRunner`. `RInv` adds where a worker can be
  and that, until it has stored a handle, neither handle is set and the reactor
  does not run its coroutine: an event alone cannot make two threads execute it.
  The types need `Bounded`, for a byte that is counted twice would exceed what
  was sent.
* `BytesAreKept`: `Spec => []EchoConserved`. A read overwrites the handler's
  buffer, so nothing is lost only if the buffer is empty whenever the next access
  is a read (`Emptied`). The coroutine may be resumed from that read on the other
  thread, so `Lifetime` relates the suspension point to the thread that executes.
* `WakeupsMatch`: `Spec => []ResumeMatchesWait`. `MInv` says that a stored handle
  belongs to the wait the coroutine is in (`Matched`). That is false after a
  `Close` and during a shutdown, where `DelRecv` and `DelSend` return early and
  leave the handle behind; then no event for it is in the batch, and none will
  come (`Stale`). That a connection is at most once in the ready list and in the
  batch is needed for this, too.
* `OnlyTheWindowCrashes`: `Spec /\ [][EpollWait => Apart]_vars => []NoCrash`. The
  hypothesis is about the behaviour and not about the switches: no call of
  `epoll_wait` returns a connection between the `Attach` and the last `epoll_ctl`
  of its own registration. Then no event finds a null or dangling handle, although
  other connections register, peers reset, threads close and the reactor is shut
  down at any moment, and an `epoll_ctl` fails only once another thread has closed
  a connection. So the window of `reactor_null_resume` is the only cause of a null
  resume, and a registration that stored the handle and `io_state_` before the
  descriptor became visible would be a sufficient repair. Every event epoll is
  asked for has its handle (`Settled`), except while a thread is between the
  accesses of one registration; `Halfway` says what holds at each of them. An
  event in the batch has its coroutine waiting (`Due`). `Registered` says that what
  is registered leaves the epoll set only by a `Close`.

`TcpServerProofs` is about `TcpServer` with any clients and any number of work
threads, whether or not clients come early, over the contract `TaskPool`.

* `ConnectionsAreKept` follows from `ServerInductive`. Its
  central part is `OneExecutor`: `AcceptLoop` starts on a pool thread and goes on
  on the main thread, and `held`, the connection it has accepted, survives only
  because no event finds the loop anywhere else than parked. `Backlogged` and
  `WorkQueued` say that no queue holds a client twice.
* `ShutdownStopsAccepting`: `Spec => StopsAccepting`. Once `is_shutdown_` is set and
  the loop holds a connection, it never takes another: the only way from the
  hand-off back to `accept` is through the test of the flag, whichever thread runs
  the loop and whatever `Shutdown` has come to.

`TimerProofs` is about `Timer` with any delays (`DelaysAssumption`) and bounds
(`BoundsAssumption`).

* `TimersAreKept` (`TimersKept`) and `RemovalIsFinal` (`RemovedStaysSilent`)
  follow from `TInv`: the ids in the vector are distinct, they are exactly those
  added and neither popped nor removed, and the vector is ordered as long as
  nothing was removed. What a sift does is shown without recursion. `VisitedLeast`
  is the induction: what holds of the first index and passes from an index to the
  next holds of the visited set. From it, each visited index but the first has one
  predecessor, so that `Origin` is a permutation of the indices (`OriginPermutes`,
  with the finiteness of the index set) and no timer is lost or doubled. `UpOrders` and
  `DownOrders` say that one timer out of order, at the end or at the front, is put
  in order; they are what `Push` and the erasure of the front need. Erasing from
  the middle is only shown to permute: the order is really lost there.

`HttpProofs` is about `Http` with any routes, sessions and limits
(`RoutesAssumption`: methods hold no `-`, which `Router` puts between method and
URL; `RequestsAssumption`, `HttpLimitsAssumption`).

* `AtMostOneTimer`: `Spec => []OneTimer`. The invariant is inductive together
  with the fact that the handler's state stays a record of its fields.
* `AnswersCorrect`: `Spec => []AnswersInOrder`. What has been received says nothing
  about what will be, so `AInv` puts the whole connection in step: at every
  position of the loop, how many tokens of which request have arrived, how many of
  those have been read, and what is still to be written (`Phase`). It holds only
  while the client waits for its answers (`~rough`), and only while neither side
  is gone; after that nothing is received any more. `RouterInv` says that under
  each key lies the handler of the last route accepted for it, and `KeyInjective`
  that two routes have the same key only for the same method and URL: without the
  assumption on `-` they need not. `Stuck` is the case that the handler has sent
  nothing (`HttpContext::JSON`): the client waits for ever, and what comes next is
  never sent.

`RpcProofs` is about `Rpc` with any names, bound or not, send buffers that take a
header, ways to cut a header and numbers of calls that fit the type of the
argument (`NamesAssumption`, `LimitsAssumption`, `LeftoverAssumption`); and about
`TinyPB` for every message.

* `RpcCorrect`: `Spec => []AnswersMatchCalls`. The invariant `Inv` is over the
  bytes themselves. `ServerView` says that what the server has read, what is on
  its way and what the client has still to write are together the request of the
  last call, and `ClientView` the same of the reply; `Turns` says that while both
  programs are there, bytes go in one direction only. Either view holds when the
  other program is gone, and then the rest of a packet is missing: a reply that is
  not whole is excused by the property, and the server never runs what it has not
  read whole. All of it is under `~split`: behind a torn header both sides read
  out of step. That what is read is what was written rests on lemmas about
  `Codec`: a number below `Huge` is read back from its bytes at any position
  (`NumberRead`), and so is a string (`StringRead`).
* `TinyPBCorrect`: for every message whose strings fit the arrays of the decoder
  and whose packet is shorter than `Huge`, `Decodes(m)`, which is what
  `TinyPBRoundTrip` checks on samples; and a packet that is cut anywhere behind its
  length is refused. No induction is needed: a packet is a concatenation of twelve
  parts, `Layout` says where each of them lies, and `DecodeReads` that the indices
  which the decoder computes one from another are those.

Model-checked only, and why:

* all liveness properties: the prover has no rules for fairness;
* `SerializerRoundTrip`, `StringsMeetReference`, `JsonRoundTrip` and
  `SiftMeetsRecursion`: what a recursive definition computes for every input needs
  induction over the data. The overloads of `Serializer` that are not recursive
  are covered by the lemmas of `RpcProofs`;
* `PushedTasksRun`, but for its safety half, and `LatchOpens`, which are about what
  finally happens.

## 5. Not modelled, and the plan

* `co/task.h`: exceptions, `co_yield` and the addresses of nested frames. Who runs
  and resumes a task is part of every model above it.
* A reactor that resumes through its work pool (`EventManager` with a pool): the
  code never starts one.
* `HttpServer::SendFile` and the static path: nothing calls or reads them. A
  session of the HTTP model has two requests and no more.
* Constructor arithmetic: `thread_num / 2 - 1` in `TcpServer` wraps for fewer
  than two threads, and `co::ThreadPool` with `thread_num` 0 starts threads over no
  queues. The models take a positive number of threads.
* Overflow of JSON numbers, the digits a double is rounded to, concurrent calls of
  `FromString`, and the overloads for `std::map`, whose `deserialize` cannot be
  instantiated.

Every invariant that a run checks is now a theorem, except for those about
recursive definitions. What is left is the round trip of the containers in
`Serializer`, which needs induction over a type.

Left out for good: logging, files, time stamps, address formatting, singletons,
tables of status texts and MIME types. They keep no state that a property here
could be about.
