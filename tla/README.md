# librim: models, model checking and proofs

librim is a header-only C++20 networking library on Boost.Asio
(`src/include/librim/*.hpp`). This directory holds TLA+ modules translated from
its code, the TLC configurations that check them on small instances, and TLAPS
proofs of their main invariants for every value of the constants.

## 1. Inventory

| Part | Header | State | Operations |
|---|---|---|---|
| Transmission pipeline of `TcpConnection` and `TcpClient` | `tcp_server.hpp`, `tcp_client.hpp` | `buffer_pool_`, `send_queue_`, `active_writes_`, `write_buffers_` | `send()`, the posted push handler, `do_write()` and its completion |
| `TcpConnection` | `tcp_server.hpp:44-315` | socket, strand, receive buffer, read timer | `start()`, `send()`, `close()`, `start_receive()`, `process_buffer()`, `reset_read_timeout()`, destructor |
| `TcpServer` | `tcp_server.hpp:324-454` | acceptor, registry of connections under a mutex | `start()`, `do_accept()`, `broadcast()`, the disconnect callback |
| `TcpClient` | `tcp_client.hpp` | as `TcpConnection`, and `is_connected_` | `connect()`, `send()`, `close()`, the receive loop |
| `UdpEndpoint` | `udp_endpoint.hpp` | as the pipeline, a target per item, `is_connected_` | `bind()`, `connect()`, `join_multicast()`, `start_receive()`, `send()`, `send_to()`, `close()` |
| `Context` | `context.hpp` | io_context, work guard, threads | `start()`, `stop()` |
| `RimApplication` | `application.hpp` | configuration, endpoint variants, logger, `app_running_` | `run()`, `send()`, `stop()`, the hooks |
| `MessageDispatcher` | `message_dispatcher.hpp` | routing table | `add_handler()`, `dispatch()`, `get_size_lambda()` |
| `AsyncLogger` | `async_logger.hpp` | two buffers, mutex, condition variable, `running_`, worker | `log()`, `process_loop()`, constructor, destructor |
| `Factory`, `expected` | `factory.hpp`, `expected.hpp` | none | construction, a value type |

**How they interact.** An application thread calls `send()`: it looks whether the
socket is open, spins until the lock-free pool gives it a buffer, copies the
payload and posts a handler to the socket's strand. The strand, run by whichever
worker of the `Context` is free, queues the buffer and starts an `async_write` if
none is outstanding; its completion puts the buffers back into the pool and
writes on. Completions of reads run on the same strand and call the application's
receive callback there, which may itself call `send()` or `close()`. `TcpServer`
calls `start()` of a new connection on the acceptor's thread, off the strand, and
keeps the connection alive in its registry until the disconnect callback.
`RimApplication::run()` makes a `Context`, an endpoint through the `Factory` and a
`MessageDispatcher`, whose size lambda frames the endpoint's stream and whose
`dispatch()` is its receive callback; it starts the workers, waits for `stop()`,
joins the workers, gives up the endpoint and destroys the `Context`.

**What is hard about it.** Threads inside `send()` interleave with the strand at
every step; five different events race to close a socket; timer handlers that are
already queued cannot be cancelled; the lifetime of a connection is that of the
last `shared_ptr` in a handler or a caller; the pool has a fixed size and an empty
one makes callers spin; the logger's shutdown uses a condition variable without
its mutex; the server is used through a bare pointer by handlers that only the join
of the workers holds back; workers that wait inside callbacks are missing from the
pool of threads that would end their wait. `PROJECT.json` lists these hazards at their lines.

**What makes each part correct.**

* Pipeline: a buffer has one owner, the queue never overwrites, one write at a
  time, none forgotten, messages leave in the order of posting; a starved sender
  eventually gets a buffer.
* `TcpConnection`: one receive loop, one disconnect callback, nothing leaked, a
  closed connection is destroyed.
* Framing: the callback gets exactly the frames of the stream, however it was
  chopped, within a bounded buffer.
* `AsyncLogger`: no accepted record lost, repeated or reordered, bounded buffers,
  no lost wakeup, a destructor that returns.
* `TcpClient`: as `TcpConnection`; every `connect()` answered once, `is_connected_`
  never ahead of or behind the socket, and all of it again after reconnecting.
* `UdpEndpoint`: one receive and one send at a time, datagrams in order and none
  twice, and a receive loop that goes on while the socket is open.
* `MessageDispatcher`: a handler gets every message of its type, in order, and the
  struct it is given is made of that message's bytes.
* `TcpServer`: the registry holds the open connections and otherwise only those that
  are about to be erased, the accept loop survives errors and connections that fail
  early, a broadcast waits no longer than its slowest peer.
* `Context` and `RimApplication`: no handler runs without its server, `run()`
  returns after `stop()`, and when it has returned nothing refers to the
  `io_context` any more.

## 2. Modules

| Module | What it is |
|---|---|
| `SendPath` | the transmission pipeline, actions without a `Next` of its own |
| `OrderedStream` | what the pipeline promises: an ordered stream until it breaks |
| `TcpConnection` | extends `SendPath` with the rest of the class |
| `TcpClient` | extends `SendPath` with `connect()`, `close()` and the receive loop of the client |
| `UdpEndpoint` | extends `SendPath` with the operations of the UDP socket |
| `FrameReader` | `start_receive()` and `process_buffer()`, byte by byte, actions without a `Next` |
| `MessageDispatcher` | extends `FrameReader` with the routing of messages to handlers |
| `ReconnectingReader` | extends `FrameReader` with the second connection of a client |
| `Context` | the `io_context` and its worker threads |
| `Endpoints` | extends `Context` with endpoints reduced to who waits for whom and who keeps whom alive |
| `TcpServer` | extends `Endpoints` with the accept loop and the registry |
| `RimApplication` | extends `TcpServer` to a whole node: `run()`, `send()`, `stop()` and all threads |
| `AsyncLogger` | the logger |
| `MCTcpConnection`, `MCTcpClient`, `MCUdpEndpoint`, `MCMessageDispatcher`, `MCReconnectingReader` | instances for TLC |
| `SendPathProofs`, `TcpConnectionProofs`, `TcpClientProofs`, `UdpEndpointProofs` | theorems about the pipeline and the three endpoints |
| `FrameReaderProofs`, `MessageDispatcherProofs` | theorems about framing and dispatching |
| `RimApplicationProofs`, `AsyncLoggerProofs` | theorems about the node and the logger |

Definitions marked *Fault* are wrong versions of the definition that follows;
nothing uses them. Each is a slip the code could have made, and replacing the
right definition by it makes TLC report the property that `PROJECT.json` pairs it
with under "mutants".

### SendPath and TcpConnection

`open` is `socket_.is_open()`. `send()` is three steps of a thread (`pc`):
`SendCheck` (the test), `SendPop` (the successful `pop`; while `pool` is empty the
step is not enabled, which is the spin loop) and `SendPost` (copy and post).
`OnRecv` stands for the strand's own thread when a receive callback calls
`send()`: until that call is over, `processing` stays true and no other handler
runs. `strand` is the FIFO of ready handlers; a handler is a record of its kind,
the buffer it carries and whether its operation succeeded. `writes` counts the
`async_write` operations in the kernel, so that a second one would be seen rather
than excluded by the representation. Message contents are numbers in the order of
posting; `wire` is what the peer got.

`SendCheck` reads `open` while the strand may be writing it: the C++ has a data
race there, modelled by reading the value before or after the write. `pool` is a
set: which idle buffer `pop` returns makes no difference to any property.
`boost::lockfree::queue::push` allocates when it needs to and does not fail, so
that the `delete` beside it is not an action.

`start()` is two steps, `StartTimer` and `StartRead`, because it runs off the
strand. `KernelRead`, `KernelWrite` and `TimerExpires` are the environment. A read
brings some number of frames and perhaps a header that the framing rule rejects;
`Deliver` is one call of `on_recv_`, `EndProcess` the way out of
`process_buffer()`. A cancelled timer completes with an error that its handler
ignores; the model drops it. `Destroy` is the destructor; `Unreferenced` lists
everything that holds a `shared_ptr`: the registry until `on_disc_`, the
acceptor's thread until `start()` returns, callers of `send()`, outstanding
operations and queued handlers, except those of `close()`, which hold a weak one.

`CallbackDoes` says what the application's receive callback may do, `Faults` what
may go wrong. Zero-length messages are left out.

### TcpClient

`open` is again `socket_.is_open()`, and `kernel` tells what the operating system
has behind it: nothing (`"down"`), a connection attempt or a connection. A client
may `connect()` again with the same object, and `async_connect` closes and reopens
the socket on the caller's thread. Operations of the closed socket are aborted,
but their completions arrive later: `aborted` counts those of reads and connects,
`stale` marks the outstanding write as one of them, and a completion that had
already reached the strand keeps its result. Nothing in the code tells old
completions from new ones, nor does the model.

External behaviour taken from how the code uses Asio: `async_connect` reports an
error if the socket was closed before its handler was made ready (`ConnectHandler`
looks at `open`); a read or write started while the socket is connecting waits for
the connection, as on Linux; on a socket that is not connected it fails at once.
The callback of a successful `connect()` runs inside its handler (`processing`)
and may send or close, as receive callbacks may. The environment is assumed to
call `connect()` only while it is not connected and has no other attempt under
way; without that assumption even the first connection has two receive loops.

### UdpEndpoint

`do_write()` takes one item at a time, which is `SendPath` with `Batch = 1`; the
number of a message stands for the payload and the target of its item. `bind()`,
`connect()` and `join_multicast()` run on the caller's thread and are atomic but
for the flag that `connect()` sets last. `listening` says that the application has
called `start_receive()` for the socket it opened, which it does once each time.
`ReceiveHandler`, the two `Callback...` actions and `ReceiveAgain` are the branch of
the completion handler that got data, `RetryHandler` the one that got an error, and
`EmptyDatagram` the case that falls through both. An aborted receive falls through
as well and is left out. The destructor is not modelled: it pops the
`UdpSendItem*` of the pool into a `std::vector<std::byte>*` and deletes them as
such, which is undefined, and of the queued items it deletes the buffers only.

### OrderedStream

`accepted` messages come `out` in order; a `Break` ends it for good, perhaps after
a last few messages. The refinement mapping takes `posted`, `wire` and the
negation of `StreamDown` (the socket is closed and no write is in the kernel, or
a failed completion is queued).

### FrameReader, MessageDispatcher and ReconnectingReader

`recv_buffer` has its real contents, stale bytes behind `active_bytes` included,
so that a wrong move or offset shows. `Read` lets the kernel return any number of
bytes of any values, `ReadFails` ends the stream; `Deliver` is a call of the
callback and the step to the next frame, and the other actions are the ways out of
the loop. The callback may close the endpoint: the frames that are already in the
buffer are still delivered, and the next read then fails, as in the code. The
framing rule is a constant operator, and `HeaderSize` is at least 1 (with 0 the
code's loop would not end).

`MessageDispatcher` takes the place of the callback. `Dispatch` is given the memory
that begins at the message and goes on behind it, because the handler's struct is
laid over it; `LongEnough` is the test that keeps the struct inside the message. A
UDP node hands over datagrams of any length in the same way. `AddHandler` stands
for the three overloads of `add_handler()`, which make the same entry. `dispatch()`
keeps no state and its result is used nowhere in the library.

`ReconnectingReader` calls `start_receive()` again after the connection has ended,
with the members as they were left.

### Context, Endpoints, TcpServer and RimApplication

These four make one model of a node. Its subject is the threads: the workers, the
main thread inside `run()`, and the application's own.

`worker[w]` is what a worker is at. Completions come in and handlers run only while
some worker is inside `io_context::run()` (`Served`). A handler that cannot block is
one step, and any idle worker may have run it; a handler whose callback calls
`send()` keeps its worker until the callback returns (`worker[w] = e`, and the
strand of `e` with it), and so do the accept handler (`"accept"`) and a handler that
has closed a connection and has still to run `on_disc_`.

`Endpoints` is a summary, made by hand, of what `TcpConnection`, `TcpClient` and
`UdpEndpoint` model in detail: buffers are counted, a write takes any number of
those in the queue, the receive timeout is one of the failures of a read, and
`open` is what `send()` tests. No refinement relates the two; the properties that
depend on the detail are checked on the detailed models. A caller's `todo` is the
rest of the snapshot of a `broadcast()`, or the one endpoint of a `send()`, and `at`
is where it spins for a buffer.

`TcpServer`: `Accept` is the completion of `async_accept` and its handler up to
`on_connect_`, `Accepted` the rest, after the greeting. `RimApplication` sets no
`on_connect_` itself; `Greets` adds one that sends, which a user of `TcpServer` may
have. `close()` is two steps: a handler that closes the socket of a connection keeps its
worker and the strand (`CallDisc`, which puts the connection into `leaving`), and
`OnDisc` then erases the entry under `connections_mutex_`. In between a broadcast on
another thread still copies the closed connection, and another worker may go on with
the accept handler that made it.

`RimApplication`: `role` is any of the four. The outcomes of the `Factory` are in
the `Setup...` actions: binding a TCP port that is taken throws out of `run()`, a
UDP endpoint that cannot be made leaves a node without one. The hook of a UDP
client runs before the workers do. `Unwind` is the destructor of the `Context`,
which destroys what is still queued or outstanding. `AppStop` may come at any time.

Assumed of the application: its threads call `send()` only between the set-up and
`teardown()`, and `teardown()` waits for them. `send()` reads the variants
without a lock, so that without this assumption there is a data race with `run()`.
`AppClose` closes an endpoint that is open; closing one that is still connecting is
in `TcpClient`.

### AsyncLogger

Critical sections are single steps but for `cv_.wait`: the predicate
(`WorkerLock`) and the sleep (`WorkerSleep`) are two, and in between the worker
holds the mutex. `running_` is not protected by it. `file_` opens or not in the
constructor. The logger is held by `shared_ptr`, so that the destructor begins
when no thread is inside `log()`. Records are numbers in the order of acceptance;
their sizes, which the capacity test adds up, are kept beside the buffers. The
fields of the record header are left out.

## 3. Runs

| Run | Shows |
|---|---|
| `conn_safety` | all safety properties of a connection, and that it implements `OrderedStream` |
| `conn_live` | with all failures: while the socket is open a starved sender gets a buffer and every message is sent; a closed connection is destroyed |
| `conn_echo` | violated: see findings |
| `client_reconnect` | what a client that connects again keeps: nothing is transmitted twice, `connect()` is answered once, `is_connected_` is true only of a connection, which has a receive loop; and on the first connection, no second loop and no forgotten write |
| `client_live` | `connect()` is answered; a dropped and closed client is destroyed |
| `client_stuck` | violated: see findings |
| `udp` | datagrams leave in order and none twice, through errors and reopening; on the first socket, one receive loop that goes on and no forgotten send |
| `client_frames` | violated: see findings |
| `messages` | framing is exact, bounded and terminates, and the handlers get exactly the messages meant for them |
| `node` | a whole node: the registry, that the server goes on accepting, handlers and their server, what is left when `run()` returns, who may wait for ever and why, and that `run()` returns after `stop()` |
| `logger` | the logger loses nothing, keeps its capacity and writes what it accepts |
| `logger_shutdown` | violated: see findings |

**Bounds.** `conn_safety` has one application thread and the callback as the
second sender, three sends each, three buffers, a queue of three and batches of
two: the pool runs empty, the queue fills to its capacity, a batch leaves a rest
behind, and buffers are used again. Each failure, timeout and `close()` may happen
once or more. Buffers are symmetric. `conn_live` has three sends for two buffers,
so that the pool starves. The client's runs have two buffers and batches of one,
which is the least that leaves a rest in the queue. `client_reconnect` has two
calls of `connect()`, three sends of one thread, so that a message can be queued,
under way and posted when the connection changes, and callbacks that close;
`client_live` has no other sender than the callback. `udp` has two senders with two
sends each and opens the socket twice. `messages` reads up to 7 bytes, with a
header of 2, messages of at most 3 and chunks of 3: frames of minimal and maximal
size, split in the header, in the body and at their boundary, and headers that are
too small (0) and too large (5). Two types are registered, one of them with two
structs, so that a later registration replaces an earlier one and a message can be
shorter than its struct. `client_frames` has two connections of up to 4 bytes.
`node` has two workers, one application thread, two connections besides the node's
own endpoint, one buffer in each pool and three calls: every sender can find the
pool empty, both workers can be inside callbacks at once, and a broadcast can meet
a connection that is closed since. The data of one read suffices for a callback to
hold a strand. `logger` has two threads with three calls each and records
of one or two bytes for a capacity of three, so that records are dropped and the
buffer fills exactly. Deadlock is not checked: every bounded instance ends when
its calls are used up.

**Fairness.** The workers of the `Context` run ready handlers, and a preempted
thread goes on (weak fairness of `RunStrand`, `Pop`, `Post`, `StartTimer`,
`StartRead`, `Destroy`). A timer expires once the socket is closed; before that,
data may restart it again and again. A connection attempt ends, and aborted
operations complete. An `async_write` completes, which for
an open socket means that the peer reads; a read completes only once the socket is
closed, for the peer need not send. In a node every thread that can go on does
(weak fairness for each thread by itself), ready handlers are run by whichever
worker is idle, and writes, attempts and the operations of a closed socket end
(`Settle`). Nobody has to call `send()`, `close()`,
`log()` or the destructor, and no spurious wakeup has to come.

**Findings.**

1. `conn_echo`: a receive callback that calls `send()`, as the echo example of the
   repository's README does, spins on the strand when the pool is empty. The
   completions that would refill the pool are queued behind it. `architecture.md`
   (section 2) describes the spin as backpressure that the OS resolves. Two more
   comments disagree with the same counterexample. `tcp_client.hpp:159-160` promises a
   fall-back to a dynamic allocation; the loop of the client, which is the same,
   allocates nothing and waits. `application.hpp:125` says that `stop()` terminates the
   threads reliably; the worker that waits is one that `Context::stop()` joins.
2. `client_frames`: `recv_buffer_` and `active_bytes_` outlive the connection. What is
   left of a message when the connection ends is parsed with the first bytes of the
   next one, and after a rejected header the old messages are delivered again.
3. `client_stuck`: what a failed write leaves in `send_queue_` stays there across
   `connect()`. No later push finds the queue empty, so that nothing is ever
   written, while `send()` reports success. The same rest is why `PoolRefills` and
   `ClosedIsReleased` are stated for an open socket and for a connection with no
   thread inside `send()`: a thread that waits for a buffer when the socket closes
   may wait for ever.
4. `logger_shutdown`: the destructor's notification can be lost between the
   worker's test and its sleep; `join()` then never returns.

**Limits that the passing properties state.** `FirstConnection` is about the first
connection: later, a read of the old connection that has completed behind the
timeout that closes it goes on reading on the new socket, beside the receive loop
that `connect()` starts, and both fill `recv_buffer_` from the same offset. Likewise an
aborted read of the old connection whose completion runs after the next `connect()`
closes the new connection; `ConnectedIsLive` counts it as a loop that will end so.
`FirstSocket` excepts two ends of a UDP receive loop: an error of one datagram that
is sent closes the socket for all peers, and an empty datagram takes neither branch
of the receive handler. `WaitsForReason` lists why a sender in a node may wait for
ever: the socket has closed with buffers left in its queue, the strand is held by a
handler that waits itself, or no worker is idle. The last two are needed in the
instance of `node`; the first is what `client_stuck` shows, and takes a pool of more
than one buffer. `AcceptsAgain` excepts a greeting that waits for ever for one of these
reasons, since it runs inside the accept handler. `StopReturns` holds unless a thread waits for ever: a worker that
waits for a buffer when the `io_context` is stopped, or the hook of a UDP client that
sends more than the pool holds before the workers are started, keeps `run()` from
returning.

**Seen while translating, and in no run.** `dispatch()` returns true for a message
that the handler has dropped as too short (`message_dispatcher.hpp:114` says "`true`
if uniquely handled"). `RimApplication::send()` of a UDP server sends nothing: its
endpoint is bound and not connected, and the error is discarded
(`application.hpp:134` says "Servers broadcast securely across all managed
sockets"). `create_tcp_server()` throws when the port is taken, although it returns
an `expected`. `udp_endpoint.hpp:185` calls the receive loop an "infinite asynchronous
recursive ingestion cycle", which an empty datagram ends while the socket is open:
`UdpEndpoint` has the action (`EmptyDatagram`), and `FirstSocket` the exception. A read
timeout that is queued when data arrives closes the connection all the same; in the
models a timer may expire at any time, so that this is not told from a timeout in time.

## 4. Proofs

Every safety property that a passing run checks, the refinement of `OrderedStream`
included, is also a theorem: for any sets of threads, workers, buffers and
connections, any bounds, any framing rule and every choice of faults and callbacks.
The assumptions are the named ASSUMEs of the modules. Those that say something about
the code: the pool is finite and no larger than the queue, as the two literals 8192
are; a header has at least one byte, and so has a registered struct. The others keep
names apart and give the bounds their types.

Each module proves that one conjunction is inductive (`Invariance`) and derives the
properties from it. What follows says what each conjunction adds to the properties,
and why.

### The pipeline and TcpConnection

`SendPathProofs` shows that `SendInv` is preserved by every `SendStep`: an action of
the pipeline, or an `EndpointStep` by which the rest of a class opens or closes the
socket, or takes or adds a handler that is neither a push nor a write completion. It
is therefore independent of the class and serves all three, reopened sockets
included. `NoStall` is kept by every step that does not reopen the socket, and only
by those: `client_stuck` shows why it is not part of `SendInv`. `SendInv` adds to the
properties that a thread holds a buffer exactly while it is posting, and that every
posted push carries a buffer. `NoOverwrite` then follows by counting: the buffer of
a waiting push is not in the queue, the queue has no repetitions, so the queue is
shorter than the pool.

The order of messages (`SendStepOrder`) is an invariant about all the places where
a message can be. `InOrder` says that the numbers on the wire, in the queue and on
the strand increase, each place before the next. Between a write and its completion
handler the written messages are on the wire and still in the queue; `OutAlready`
counts them, and the order is stated for the rest of the queue.

`TcpConnectionProofs` proves `TypeOK`, `BufferOwnership`, `NoOverwrite`, `OneWrite`,
`NoStall`, `OneReadLoop`, `DisconnectOnce`, `DestructorFreesAll` and the refinement.
It shows that each step of the class is a `SendStep`, and adds what the read loop
needs: before `start()` has begun the read, nothing reads. A closed connection stays
closed (`StaysClosed`), which gives `NoStall`. The destructor's theorem uses
`BufferOwnership`: when nothing refers to the object, no thread holds a buffer and
no push is queued, so pool and queue hold them all.

`ImplementsStream` takes more than the order, since the stream has no gaps.
`Numbered` says that the wire holds the numbers from 1 on and, until the stream is
down, that the rest of the queue and then the pushes on the strand go on with the
numbers up to `posted`. The second half is false once a write has failed, because
its completion handler drops what was not transmitted; it is therefore needed, and
stated, only while the stream is up. That the stream never comes up again is where
the refinement needs a socket that stays closed, which a client's does not.

### TcpClient and UdpEndpoint

`TcpClientProofs` is about a client that connects any number of times. Of
`ConnectedIsLive` the first half, `ConnectedIsOpen`, is not inductive: the step that
raises the flag is a handler queued earlier. `ClientInv` therefore adds that a closed
socket has nothing behind it (`ClosedIsDown`) and that a report of success still on
the strand is one of the present connection, unless the socket was closed since
(`ReportedIsUp`); this holds because `connect()` is called only when no report is
left (`NoneReported`), and is where that assumption on the application enters.
`Receiving` lists the places where the receive loop can be, in a form that needs no
counting, and `DroppedIsIdle` keeps callers of `send()` out of the destructor.
`TypeOK`, `BufferOwnership`, `OneWrite` and `DestructorFreesAll` are proved of the
client as well; it has no run for them, because the theorems say more.

`NeverResent` is a consequence of `SendStepOrder`, which does not care whether the
socket was reopened, for the client and for the UDP endpoint.

`AnsweredOnce` and `FirstConnection` count what is under way: attempts and reads in
the kernel, aborted ones, completions on the strand, and the handler that is running.
Every step moves one of them from a place to another, and only `connect()` adds one
(`CountsInv` does this sum once; `AttemptsInv` gives what each action moves).
`LoopsBounded`, that receive loops and attempts together are at most the calls of
`connect()`, is what makes the bound on receive loops inductive: a loop comes from an
attempt that ends. That the first connection never forgets a write follows from
`NoStall`, which the step that opens the socket keeps only if the pipeline was
untouched before; `Unconnected` says that it was.

`UdpEndpointProofs` proves `TypeOK`, `BufferOwnership` and `OneWrite` of an endpoint
that is closed and opened any number of times, `NeverResent`, and `FirstSocket` by the
same kind of counting: receives and the call of `start_receive()` still to come are
at most the sockets opened.

### Framing and dispatching

`ReaderInv` adds to `FramesTile`, `NothingHeldBack` and `BufferBounded` that the active
bytes of `recv_buffer_` are the last bytes of the stream (`BufferIsInput`). Without it
none of them is inductive: what is parsed is the buffer, what the properties are about
is the stream. That a read is issued only at offset 0 (`ReadsFromFront`) is what
keeps it true when the rest is moved to the front. `TypeOK` says that the indices stay
inside the buffer, so that no unsigned subtraction of `process_buffer()` wraps.

`MessageDispatcherProofs` proves these properties of a node that dispatches, and
`HandledExactly`. This one compares two sequences, the messages and the calls of
handlers, by the rank of a message among those that a handler is meant for; the
lemmas on ranks show that appending a message adds a rank at the end and leaves the
others alone. The framing rule, the registered structs, the stream and the way in
which the kernel chops it are arbitrary.

### The node

`RimApplicationProofs` proves `TypeOK`, `RegistryIsLive`, `HandlersFindServer` and
`AllReleased`. `NodeInv` has two halves. `EndsInv` is about
the endpoints: buffers in the pool, in the queue and on the strand are at most the
pool, and an accepted connection never connects. `ControlInv` is about the threads:
what holds in each phase of `run()` (`Lifecycle`: no worker has begun before the start,
all are gone after the join), who may be inside `send()` (`CallersKnown`), that a node
without an endpoint has nothing for a worker to do (`NothingWithout`), and that the
accept handler runs on one worker with one connection (`OneAccept`). `AllReleased`
follows from these without further induction.

`RegistryIsLive` is not inductive, because it only says that some worker is about to
erase a closed connection that is still registered. Erasing must not take away an entry
that a second worker still answers for, nor an open connection: `OneOnStrand` says that
at most one worker is inside a handler of an endpoint, `LeavingHeld` that every
connection in `leaving` is closed and held by a worker, and `Registered` that the
registry is what is open or in `leaving`.

### The logger

`LoggerInv` adds to the properties the types (`TypeOK`, which no run repeats), that
`flush_buffer_` is in use only between the swap and the write, that the worker ends only
after `running_` was cleared and the destructor goes on only after that, that nobody is
inside `log()` once the destructor has begun, that without a file nothing is buffered,
and that nothing is appended while the worker holds the mutex on its way to sleep. The
last is what `NoLostRecordWakeup` rests on, and is just what the destructor, which
notifies without the mutex, does not respect (`logger_shutdown`).

**Only model-checked.** Liveness: `PoolRefills`, `AcceptedIsSent`, `ClosedIsReleased`,
`ConnectAnswered`, `DroppedIsReleased`, `ProcessingEnds`, `AcceptedIsWritten`,
`WaitsForReason`, `StopReturns` and `AcceptsAgain`. The prover has no rules for fairness.

## 5. Plan

What could follow:

1. A refinement between `Endpoints` and `TcpConnection`, which would replace the
   summary made by hand: buffers counted instead of named, several handlers in one step.
2. The safety half of `WaitsForReason`: what is true of the other threads in a state
   where a sender cannot go on.
3. Invariants of `ReconnectingReader` after the first connection: how far the old rest
   can reach into the new stream.

**Not modelled and not planned.** `expected` (a value type); of the `Factory` the
fields of its configurations; a second `run()` of the same `RimApplication`, whose
`app_running_` nobody raises again, and a `Context` started again after `stop()`,
which nothing in the library does; the destructor of `UdpEndpoint` (undefined
behaviour, see above); log messages and the names of log files; DNS resolution; the
memory ordering of the lock-free queue, taken as linearizable; and the tests,
examples and benchmark.
