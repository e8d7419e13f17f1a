------------------------------ MODULE Endpoints ------------------------------
(***************************************************************************)
(* TcpConnection, TcpClient and UdpEndpoint as the rest of a node meets    *)
(* them: who waits for whom, and who keeps whom alive.  TcpConnection,     *)
(* TcpClient and UdpEndpoint are the detailed models.  Here buffers are    *)
(* counted, a write takes any number of the queued ones, and a handler     *)
(* that cannot block is one step of whichever worker is free.  Only a      *)
(* callback that sends keeps its worker, and its strand, for longer.       *)
(*                                                                         *)
(* A definition marked "Fault" is a wrong version of the one after it,     *)
(* kept to show that a property notices the difference; nothing uses it.   *)
(***************************************************************************)
EXTENDS Context

CONSTANTS
    Apps,        \* the application's own threads
    Main,        \* the thread inside run()
    Ends,        \* the endpoints
    Nobody,      \* no endpoint
    PoolSize,    \* buffers of an endpoint (8192 in the code)
    MaxCalls,    \* bound: calls of send() or broadcast()
    MaxReads     \* bound: reads that bring data

Callers == Apps \cup Workers \cup {Main}

ASSUME EndpointsAssumption ==
    /\ Main \notin Apps \cup Workers
    /\ Apps \cap Workers = {}
    /\ Nobody \notin Ends
    /\ {"none", "idle", "gone", "accept"} \cap Ends = {}
    /\ PoolSize \in Nat \ {0}
    /\ MaxCalls \in Nat
    /\ MaxReads \in Nat

VARIABLES
    open,      \* send() takes messages: the socket is open and connected
    free,      \* how many buffers are in buffer_pool_
    queued,    \* how many are in send_queue_
    strand,    \* handlers waiting for strand_, in FIFO order
    ops,       \* operations the kernel has not completed
    reads,     \* reads so far that brought data
    todo,      \* endpoints a caller has still to send to
    at,        \* the endpoint whose send() a caller is in, past its test
    calls      \* calls so far

sockVars == <<open, free, queued, strand, ops, reads>>
callVars == <<todo, at, calls>>

Operations == {"read", "write", "connect"}

HandlerKinds == {"push", "written", "failed", "read", "error", "close",
                 "connected", "refused"}

EndpointsInit ==
    /\ open = [e \in Ends |-> FALSE]
    /\ free = [e \in Ends |-> PoolSize]
    /\ queued = [e \in Ends |-> 0]
    /\ strand = [e \in Ends |-> <<>>]
    /\ ops = [e \in Ends |-> {}]
    /\ reads = 0
    /\ todo = [p \in Callers |-> {}]
    /\ at = [p \in Callers |-> Nobody]
    /\ calls = 0
-----------------------------------------------------------------------------
(***************************************************************************)
(* send(), on the thread of a caller.                                      *)
(***************************************************************************)

\* A caller outside send() and broadcast().
Idle(p) == todo[p] = {} /\ at[p] = Nobody

\* A caller begins to send to these endpoints, one after the other.
Call(p, targets) ==
    /\ Idle(p)
    /\ calls < MaxCalls
    /\ calls' = calls + 1
    /\ todo' = [todo EXCEPT ![p] = targets]
    /\ UNCHANGED at

\* The test at the top of send().
SendTest(p) ==
    /\ at[p] = Nobody
    /\ \E e \in todo[p] :
        /\ todo' = [todo EXCEPT ![p] = @ \ {e}]
        /\ at' = [at EXCEPT ![p] = IF open[e] THEN e ELSE Nobody]
    /\ UNCHANGED <<calls, sockVars>>

\* The rest of send(), once the pool has a buffer; until then the caller spins.
SendPost(p) ==
    LET e == at[p]
    IN  /\ e # Nobody
        /\ free[e] > 0
        /\ free' = [free EXCEPT ![e] = @ - 1]
        /\ strand' = [strand EXCEPT ![e] = Append(@, "push")]
        /\ at' = [at EXCEPT ![p] = Nobody]
        /\ UNCHANGED <<todo, calls, open, queued, ops, reads>>
-----------------------------------------------------------------------------
(***************************************************************************)
(* The handlers.  Each leaves open which worker runs it.                   *)
(***************************************************************************)

\* The strand may run its next handler, which is of this kind.
Ready(e, kind) ==
    /\ strand[e] # <<>>
    /\ Head(strand[e]) = kind
    /\ \A w \in Workers : worker[w] # e
    /\ Served

Rest(e) == Tail(strand[e])

\* Start an operation, up being whether the socket is open and rest the other
\* handlers of the strand.  On a closed socket it fails at once.
Begin(e, op, fails, up, rest) ==
    /\ ops' = IF up THEN [ops EXCEPT ![e] = @ \cup {op}] ELSE ops
    /\ strand' = [strand EXCEPT ![e] = IF up THEN rest ELSE Append(rest, fails)]

StartWrite(e) == Begin(e, "write", "failed", open[e], Rest(e))

\* start_receive(), after the callback.  (That of a UDP endpoint looks itself
\* whether the socket is open; here its read fails and is not repeated.)
StartRead(e, up, rest) == Begin(e, "read", "error", up, rest)

\* Close the socket.  Its operations are aborted: KernelFails has to come.
Close(e) ==
    /\ open' = [open EXCEPT ![e] = FALSE]
    /\ strand' = [strand EXCEPT ![e] = Rest(e)]
    /\ UNCHANGED <<ops, reads>>

\* Fault: a write is started only behind another buffer.
WriterIdleAfterPush(e) == queued[e] = 1

\* The test of the push handler: nothing is queued, so nobody writes.
WriterIdle(e) == queued[e] = 0

RunPush(e) ==
    /\ Ready(e, "push")
    /\ queued' = [queued EXCEPT ![e] = @ + 1]
    /\ IF WriterIdle(e)
       THEN StartWrite(e)
       ELSE strand' = [strand EXCEPT ![e] = Rest(e)] /\ UNCHANGED ops
    /\ UNCHANGED <<open, free, reads>>

\* Fault: the loop that recycles goes one too far.
RecycledAndOne(k) == k + 1

\* How many buffers a completed write of k buffers gives back.
Recycled(k) == k

\* The completion handler of do_write(), for a batch of k buffers: recycle
\* them, and write on.
RunWritten(e) ==
    /\ Ready(e, "written")
    /\ \E k \in 1 .. queued[e] :
        /\ queued' = [queued EXCEPT ![e] = @ - k]
        /\ free' = [free EXCEPT ![e] = @ + Recycled(k)]
        /\ IF k < queued[e]
           THEN StartWrite(e)
           ELSE strand' = [strand EXCEPT ![e] = Rest(e)] /\ UNCHANGED ops
    /\ UNCHANGED <<open, reads>>

\* The same after an error: what else is queued stays there.
RunFailed(e) ==
    /\ Ready(e, "failed")
    /\ \E k \in 1 .. queued[e] :
        /\ queued' = [queued EXCEPT ![e] = @ - k]
        /\ free' = [free EXCEPT ![e] = @ + Recycled(k)]
    /\ Close(e)

\* The dispatched half of close().
RunClose(e) ==
    /\ Ready(e, "close")
    /\ Close(e)
    /\ UNCHANGED <<free, queued>>

\* The read has failed, or its timer has expired: TCP endpoints close; a UDP
\* endpoint reads on while its socket is open.
RunError(e, datagrams) ==
    /\ Ready(e, "error")
    /\ IF datagrams /\ open[e]
       THEN StartRead(e, TRUE, Rest(e)) /\ UNCHANGED <<open, reads>>
       ELSE Close(e)
    /\ UNCHANGED <<free, queued>>

\* A read, or the success of connect(), whose callback sends nothing.
RunQuiet(e) ==
    /\ \/ Ready(e, "read") /\ UNCHANGED open
       \/ Ready(e, "connected") /\ open' = [open EXCEPT ![e] = TRUE]
    /\ StartRead(e, open'[e], Rest(e))
    /\ UNCHANGED <<free, queued, reads>>

\* One whose callback sends: the worker stays inside the handler.
RunCallback(w, e) ==
    /\ Free(w)
    /\ \/ Ready(e, "read") /\ UNCHANGED open
       \/ Ready(e, "connected") /\ open' = [open EXCEPT ![e] = TRUE]
    /\ worker' = [worker EXCEPT ![w] = e]
    /\ strand' = [strand EXCEPT ![e] = Rest(e)]
    /\ UNCHANGED <<stopped, free, queued, ops, reads>>

\* The callback has returned.
EndCallback(w) ==
    /\ worker[w] \in Ends
    /\ Idle(w)
    /\ StartRead(worker[w], open[worker[w]], strand[worker[w]])
    /\ worker' = [worker EXCEPT ![w] = "idle"]
    /\ UNCHANGED <<stopped, open, free, queued, reads, callVars>>

\* connect() has failed.
RunRefused(e) ==
    /\ Ready(e, "refused")
    /\ strand' = [strand EXCEPT ![e] = Rest(e)]
    /\ UNCHANGED <<open, free, queued, ops, reads>>

\* close() on a thread of the application.
CloseCall(e) ==
    /\ open[e]
    /\ \A i \in DOMAIN strand[e] : strand[e][i] # "close"
    /\ strand' = [strand EXCEPT ![e] = Append(@, "close")]
    /\ UNCHANGED <<open, free, queued, ops, reads, callVars>>
-----------------------------------------------------------------------------
(***************************************************************************)
(* External: operations complete.                                          *)
(***************************************************************************)

Completes(e, op, kind) ==
    /\ Served
    /\ op \in ops[e]
    /\ ops' = [ops EXCEPT ![e] = @ \ {op}]
    /\ strand' = [strand EXCEPT ![e] = Append(@, kind)]
    /\ UNCHANGED <<open, free, queued, callVars>>

KernelReads(e) ==
    /\ open[e]
    /\ reads < MaxReads
    /\ reads' = reads + 1
    /\ Completes(e, "read", "read")

KernelWrites(e) == open[e] /\ Completes(e, "write", "written") /\ UNCHANGED reads

KernelConnects(e) == Completes(e, "connect", "connected") /\ UNCHANGED reads

\* The peer closes or resets the connection or refuses it, the timer expires,
\* or close() has aborted the operation.
KernelFails(e) ==
    /\ \/ Completes(e, "read", "error")
       \/ Completes(e, "write", "failed")
       \/ Completes(e, "connect", "refused")
    /\ UNCHANGED reads
-----------------------------------------------------------------------------
EndpointsTypeOK ==
    /\ open \in [Ends -> BOOLEAN]
    /\ free \in [Ends -> 0 .. PoolSize]
    /\ queued \in [Ends -> 0 .. PoolSize]
    /\ \A e \in Ends : strand[e] \in Seq(HandlerKinds)
    /\ ops \in [Ends -> SUBSET Operations]
    /\ reads \in 0 .. MaxReads
    /\ todo \in [Callers -> SUBSET Ends]
    /\ at \in [Callers -> Ends \cup {Nobody}]
    /\ calls \in 0 .. MaxCalls
=============================================================================
