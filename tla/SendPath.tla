------------------------------ MODULE SendPath ------------------------------
(***************************************************************************)
(* The transmission pipeline that TcpConnection (tcp_server.hpp) and       *)
(* TcpClient (tcp_client.hpp) implement with the same code: a pool of      *)
(* pre-allocated buffers, send() on any number of threads, handlers queued *)
(* on the socket's strand, the circular send queue, and one scatter-gather *)
(* async_write at a time whose completion recycles its buffers.            *)
(* UdpEndpoint (udp_endpoint.hpp) has it too, with one item per write.     *)
(*                                                                         *)
(* A definition marked "Fault" is a wrong version of the one after it,     *)
(* kept to show that a property notices the difference; nothing uses it.   *)
(*                                                                         *)
(* The module has no next-state relation of its own.  The endpoints        *)
(* compose its actions with theirs, and add the guard "the strand is not   *)
(* inside another handler" to the ones the strand runs.                    *)
(***************************************************************************)
EXTENDS Naturals, Sequences, FiniteSets

CONSTANTS
    Senders,    \* application threads that call send()
    OnRecv,     \* the strand itself, when a receive callback calls send()
    Buffers,    \* the pre-allocated buffers (8192 in the code)
    None,       \* no buffer
    QueueCap,   \* capacity of send_queue_ (8192 in the code)
    Batch,      \* scatter-gather limit of do_write (512 in the code)
    MaxSends    \* bound: calls of send() per thread

Threads == Senders \cup {OnRecv}

ASSUME SendPathAssumption ==
    /\ OnRecv \notin Senders
    /\ None \notin Buffers
    /\ Batch \in Nat \ {0}
    /\ QueueCap \in Nat \ {0}
    /\ IsFiniteSet(Buffers)
    /\ Cardinality(Buffers) <= QueueCap
    /\ MaxSends \in Nat

VARIABLES
    open,           \* socket_.is_open()
    pool,           \* buffer_pool_: the idle buffers
    pc,             \* where each thread is inside send()
    held,           \* the buffer a thread popped and has not posted yet
    sends,          \* calls of send() each thread has made
    data,           \* contents of each buffer: the number of the message in it
    posted,         \* messages handed to the strand so far
    strand,         \* handlers waiting for strand_, in FIFO order
    send_queue,     \* send_queue_
    active_writes,  \* active_writes_
    write_buffers,  \* write_buffers_ of the latest async_write
    writes,         \* async_write operations the kernel has not completed
    wire            \* history: the messages the kernel transmitted

sendVars == <<open, pool, pc, held, sends, data, posted, strand, send_queue,
              active_writes, write_buffers, writes, wire>>

\* The ones that only this module's actions change.
sendRest == <<pool, pc, held, sends, data, posted, send_queue, active_writes,
              write_buffers, writes, wire>>

HandlerKinds == {"push", "written", "read", "timer", "close", "connect"}

Handlers == [kind : HandlerKinds, buf : Buffers \cup {None}, ok : BOOLEAN]

\* A handler of the strand: buf is the buffer a send() posted, ok is ~ec.
Handler(kind, buf, ok) == [kind |-> kind, buf |-> buf, ok |-> ok]

\* The strand's next handler is of this kind.
Next1st(kind) == strand # <<>> /\ Head(strand).kind = kind

SendInit ==
    /\ pool = Buffers
    /\ pc = [t \in Threads |-> "idle"]
    /\ held = [t \in Threads |-> None]
    /\ sends = [t \in Threads |-> 0]
    /\ data = [b \in Buffers |-> 0]
    /\ posted = 0
    /\ strand = <<>>
    /\ send_queue = <<>>
    /\ active_writes = 0
    /\ write_buffers = <<>>
    /\ writes = 0
    /\ wire = <<>>
-----------------------------------------------------------------------------
(***************************************************************************)
(* send(), on the calling thread.                                          *)
(***************************************************************************)

\* The liveness test at the top of send(); usable is the endpoint's own test.
\* A failed test returns not_connected to the caller.
SendCheck(t, usable) ==
    /\ pc[t] = "idle"
    /\ sends[t] < MaxSends
    /\ sends' = [sends EXCEPT ![t] = @ + 1]
    /\ pc' = [pc EXCEPT ![t] = IF usable THEN "popping" ELSE "idle"]
    /\ UNCHANGED <<open, pool, held, data, posted, strand, send_queue,
                   active_writes, write_buffers, writes, wire>>

\* The pop of the spin loop that succeeds.  While the pool is empty the
\* thread yields and tries again, without a second look at the socket.
SendPop(t) ==
    /\ pc[t] = "popping"
    /\ \E b \in pool :
        /\ pool' = pool \ {b}
        /\ held' = [held EXCEPT ![t] = b]
    /\ pc' = [pc EXCEPT ![t] = "posting"]
    /\ UNCHANGED <<open, sends, data, posted, strand, send_queue,
                   active_writes, write_buffers, writes, wire>>

\* Fault: the payload is copied into a fresh buffer only.
CopiedOnce(b) == IF data[b] = 0 THEN posted + 1 ELSE data[b]

\* What buffer b holds after resize() and memcpy().  Messages are numbered in
\* the order in which they are posted.
Copied(b) == posted + 1

\* Copy the payload into the private buffer and post the push handler.
SendPost(t) ==
    /\ pc[t] = "posting"
    /\ posted' = posted + 1
    /\ data' = [data EXCEPT ![held[t]] = Copied(held[t])]
    /\ strand' = Append(strand, Handler("push", held[t], TRUE))
    /\ held' = [held EXCEPT ![t] = None]
    /\ pc' = [pc EXCEPT ![t] = "idle"]
    /\ UNCHANGED <<open, pool, sends, send_queue, active_writes,
                   write_buffers, writes, wire>>
-----------------------------------------------------------------------------
(***************************************************************************)
(* The strand's part.                                                      *)
(***************************************************************************)

\* Fault: the queue is one place smaller than the pool.
CapacityOneShort == QueueCap - 1

\* send_queue_{8192}
Capacity == QueueCap

\* boost::circular_buffer::push_back: a full buffer loses its oldest element.
PushBack(q, b) == Append(IF Len(q) < Capacity THEN q ELSE Tail(q), b)

BatchSize(q) == IF Len(q) < Batch THEN Len(q) ELSE Batch

\* do_write() with send_queue_ = q, rest being the handlers left on the
\* strand.  On a socket that is not ready (closed or not connected)
\* async_write completes at once, with an error.
DoWrite(q, rest, ready) ==
    /\ active_writes' = BatchSize(q)
    /\ write_buffers' = SubSeq(q, 1, BatchSize(q))
    /\ writes' = IF ready THEN writes + 1 ELSE writes
    /\ strand' = IF ready THEN rest
                          ELSE Append(rest, Handler("written", None, FALSE))

\* Faults: always start a write; look whether the queue is empty only after
\* the buffer has been queued.
StartWriteAlways == TRUE
StartWriteAfterPush == PushBack(send_queue, Head(strand).buf) = <<>>

\* start_write, as it is computed before the buffer is queued.
StartWrite == send_queue = <<>>

\* The handler send() posts: queue the buffer, and start writing only if
\* nothing was queued before it.
PushHandler(ready) ==
    /\ Next1st("push")
    /\ send_queue' = PushBack(send_queue, Head(strand).buf)
    /\ IF StartWrite
       THEN DoWrite(send_queue', Tail(strand), ready)
       ELSE /\ strand' = Tail(strand)
            /\ UNCHANGED <<active_writes, write_buffers, writes>>
    /\ UNCHANGED <<open, pool, pc, held, sends, data, posted, wire>>

Contents(bufs) == [i \in 1 .. Len(bufs) |-> data[bufs[i]]]

\* External: the kernel has taken every byte of the write.
WriteOk ==
    /\ writes > 0
    /\ open
    /\ wire' = wire \o Contents(write_buffers)
    /\ writes' = writes - 1
    /\ strand' = Append(strand, Handler("written", None, TRUE))
    /\ UNCHANGED <<open, pool, pc, held, sends, data, posted, send_queue,
                   active_writes, write_buffers>>

\* External: the write fails (peer reset, or aborted by close()) after the
\* first n of its messages went out.
WriteFail ==
    /\ writes > 0
    /\ \E n \in 0 .. Len(write_buffers) - 1 :
        wire' = wire \o Contents(SubSeq(write_buffers, 1, n))
    /\ writes' = writes - 1
    /\ strand' = Append(strand, Handler("written", None, FALSE))
    /\ UNCHANGED <<open, pool, pc, held, sends, data, posted, send_queue,
                   active_writes, write_buffers>>

\* Fault: the loop that recycles stops one short.
RecycledButOne == {send_queue[i] : i \in 1 .. active_writes - 1}

\* The buffers that the completion handler puts back into the pool.
Recycled == {send_queue[i] : i \in 1 .. active_writes}

\* Fault: the error code of the write is not looked at.
WriteErrorIgnored == TRUE

WriteSucceeded == Head(strand).ok

\* The completion handler of do_write(): recycle the buffers that were
\* written, then write on, or close() inline if there was an error.
WrittenHandler(ready) ==
    LET left == SubSeq(send_queue, active_writes + 1, Len(send_queue))
    IN  /\ Next1st("written")
        /\ send_queue' = left
        /\ pool' = pool \cup Recycled
        /\ IF WriteSucceeded /\ left # <<>>
           THEN DoWrite(left, Tail(strand), ready)
           ELSE /\ strand' = Tail(strand)
                /\ UNCHANGED <<active_writes, write_buffers, writes>>
        /\ open' = (open /\ WriteSucceeded)
        /\ UNCHANGED <<pc, held, sends, data, posted, wire>>
-----------------------------------------------------------------------------
(***************************************************************************)
(* Properties.                                                             *)
(***************************************************************************)

SendTypeOK ==
    /\ open \in BOOLEAN
    /\ pool \subseteq Buffers
    /\ pc \in [Threads -> {"idle", "popping", "posting"}]
    /\ held \in [Threads -> Buffers \cup {None}]
    /\ sends \in [Threads -> 0 .. MaxSends]
    /\ data \in [Buffers -> Nat]
    /\ posted \in Nat
    /\ strand \in Seq(Handlers)
    /\ send_queue \in Seq(Buffers)
    /\ active_writes \in Nat
    /\ write_buffers \in Seq(Buffers)
    /\ writes \in Nat
    /\ wire \in Seq(Nat)

\* The places of the strand that hold a push handler, and a write completion.
Pushes == {i \in DOMAIN strand : strand[i].kind = "push"}
Writtens == {i \in DOMAIN strand : strand[i].kind = "written"}

\* Every buffer of the pool is somewhere the code can still find it: idle,
\* held by a thread inside send(), in a posted push handler, or queued.
NoBufferLost ==
    \A b \in Buffers :
        \/ b \in pool
        \/ \E t \in Threads : held[t] = b
        \/ \E i \in Pushes : strand[i].buf = b
        \/ \E i \in DOMAIN send_queue : send_queue[i] = b

\* No buffer is in two of these places, or twice in one of them.
NoBufferShared ==
    /\ \A t \in Threads : held[t] # None =>
        /\ held[t] \notin pool
        /\ \A u \in Threads : held[u] = held[t] => u = t
        /\ \A i \in Pushes : strand[i].buf # held[t]
        /\ \A i \in DOMAIN send_queue : send_queue[i] # held[t]
    /\ \A i \in Pushes :
        /\ strand[i].buf \notin pool
        /\ \A j \in Pushes : strand[j].buf = strand[i].buf => j = i
        /\ \A j \in DOMAIN send_queue : send_queue[j] # strand[i].buf
    /\ \A i \in DOMAIN send_queue :
        /\ send_queue[i] \notin pool
        /\ \A j \in DOMAIN send_queue : send_queue[j] = send_queue[i] => j = i

\* Each pre-allocated buffer has exactly one owner in every state: the cycle
\* pool -> send() -> strand -> send_queue_ -> pool neither loses a buffer nor
\* lets two messages share one.
BufferOwnership == NoBufferLost /\ NoBufferShared

\* A push handler always finds room in send_queue_, so that push_back never
\* overwrites a buffer that is waiting to be written.
NoOverwrite == Pushes # {} => Len(send_queue) < Capacity

WriteOutstanding == writes > 0 \/ Writtens # {}

\* One async_write at a time: a second one on the same socket would
\* interleave its bytes with the first, and both completions would recycle
\* active_writes_ buffers.  While it lasts it covers the front of
\* send_queue_, which is what its completion handler pops.
OneWrite ==
    /\ writes <= 1
    /\ \A i, j \in Writtens : i = j
    /\ writes > 0 => Writtens = {}
    /\ WriteOutstanding =>
        /\ active_writes \in 1 .. Len(send_queue)
        /\ write_buffers = SubSeq(send_queue, 1, active_writes)

\* As long as the socket is open, a queued buffer has a write outstanding
\* whose completion will come back to it: do_write() is never forgotten.
NoStall == open /\ send_queue # <<>> => WriteOutstanding

\* No further message can reach the wire.
StreamDown ==
    \/ ~open /\ writes = 0
    \/ \E i \in Writtens : ~strand[i].ok

Stream == INSTANCE OrderedStream
            WITH accepted <- posted, out <- wire, up <- ~StreamDown

\* The endpoint implements the ordered stream that send() promises: the peer
\* sees the messages in the order in which they were posted, without gap,
\* repetition or mix-up, up to the point where the socket fails.
StreamSpec == Stream!Spec
=============================================================================
