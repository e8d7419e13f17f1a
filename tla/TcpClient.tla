------------------------------ MODULE TcpClient ------------------------------
(***************************************************************************)
(* TcpClient (tcp_client.hpp).  SendPath is its transmission half; this    *)
(* module adds connect(), also when the object was connected before, the   *)
(* receive loop, the read timeout, close() and the destructor.             *)
(*                                                                         *)
(* When a socket is closed its outstanding operations are aborted, but     *)
(* their completions reach the strand later, perhaps when connect() has    *)
(* opened the socket anew; nothing tells them from those of the new one.   *)
(* A read or write on a socket that is still connecting waits, as it does  *)
(* on Linux; on one that is not connected at all it fails at once.         *)
(*                                                                         *)
(* The application calls connect() only while it is not connected and has  *)
(* no other attempt under way.                                             *)
(*                                                                         *)
(* A definition marked "Fault" is a wrong version of the one after it,     *)
(* kept to show that a property notices the difference; nothing uses it.   *)
(***************************************************************************)
EXTENDS SendPath

CONSTANTS
    ReadTimeout,    \* read_timeout_.count() > 0
    CallbackDoes,   \* what the callbacks may call: a subset of {"send", "close"}
    Faults,         \* a subset of {"refused", "reset", "close", "malformed"}
    MaxFrames,      \* bound: complete frames found by one read
    MaxConnects,    \* bound: calls of connect()
    MaxCloses       \* bound: calls of close() by the application's threads

ASSUME TcpClientAssumption ==
    /\ ReadTimeout \in BOOLEAN
    /\ CallbackDoes \subseteq {"send", "close"}
    /\ Faults \subseteq {"refused", "reset", "close", "malformed"}
    /\ MaxFrames \in Nat
    /\ MaxConnects \in Nat
    /\ MaxCloses \in Nat

VARIABLES
    is_connected,  \* is_connected_
    kernel,        \* the socket's state: "down", "connecting" or "up"
    reading,       \* reads outstanding on the socket
    aborted,       \* reads and connects that were aborted by closing their
                   \* socket and have not reached the strand yet
    stale,         \* the outstanding write belongs to a socket since closed
    timer,         \* a wait on read_timer_ is outstanding
    processing,    \* the strand is inside process_buffer() or connect's handler
    callbacks,     \* calls of the application's callbacks still to be made there
    malformed,     \* process_buffer() will end at a header it rejects
    connects,      \* calls of connect() so far
    answered,      \* calls of their callbacks so far
    closes,        \* calls of close() made by application threads
    owned,         \* the application still holds its shared_ptr
    alive,         \* the object exists
    freed          \* buffers the destructor has deleted

ioVars == <<is_connected, kernel, reading, aborted, stale, timer>>
loopVars == <<processing, callbacks, malformed>>
appVars == <<connects, answered, closes, owned, alive, freed>>
clientVars == <<ioVars, loopVars, appVars>>
vars == <<sendVars, clientVars>>

Init ==
    /\ SendInit
    /\ open = FALSE
    /\ is_connected = FALSE
    /\ kernel = "down"
    /\ reading = 0
    /\ aborted = [read |-> 0, connect |-> 0]
    /\ stale = FALSE
    /\ timer = FALSE
    /\ processing = FALSE
    /\ callbacks = 0
    /\ malformed = FALSE
    /\ connects = 0
    /\ answered = 0
    /\ closes = 0
    /\ owned = TRUE
    /\ alive = TRUE
    /\ freed = {}

If(condition) == IF condition THEN 1 ELSE 0
-----------------------------------------------------------------------------
(***************************************************************************)
(* connect() and close().                                                  *)
(***************************************************************************)

\* External: the operations outstanding on the socket when it is closed.
Abandon ==
    /\ reading' = 0
    /\ aborted' = [read |-> aborted.read + reading,
                   connect |-> aborted.connect + If(kernel = "connecting")]
    /\ stale' = (stale \/ writes > 0)

\* Operations may be started.
Ready == kernel # "down"

Connects == {i \in DOMAIN strand : strand[i].kind = "connect"}

\* Calls of connect() whose callback has yet to come.
Attempts == If(kernel = "connecting") + aborted.connect + Cardinality(Connects)

\* connect() once the name is resolved: async_connect closes the socket, if
\* it is open, and opens it again, all on the caller's thread.
Connect ==
    /\ owned
    /\ connects < MaxConnects
    /\ ~is_connected /\ Attempts = 0
    /\ connects' = connects + 1
    /\ Abandon
    /\ kernel' = "connecting"
    /\ open' = TRUE
    /\ UNCHANGED <<strand, sendRest, is_connected, timer, loopVars>>
    /\ UNCHANGED <<answered, closes, owned, alive, freed>>

\* Faults: close() leaves the flag as it is; close() leaves the operations of
\* the socket running.
CloseKeepsFlag ==
    /\ is_connected' = is_connected
    /\ kernel' = "down"
    /\ timer' = (timer /\ ~open)
    /\ Abandon

CloseAbortsNothing ==
    /\ is_connected' = FALSE
    /\ timer' = (timer /\ ~open)
    /\ UNCHANGED <<kernel, reading, aborted, stale>>

\* What close() does on the strand, apart from open' = FALSE: the flag falls
\* even if the socket was closed before.
CloseEffect ==
    /\ is_connected' = FALSE
    /\ kernel' = "down"
    /\ timer' = (timer /\ ~open)
    /\ Abandon

\* close() on an application thread: dispatched to the strand.
AppClose ==
    /\ "close" \in Faults
    /\ owned
    /\ closes < MaxCloses
    /\ closes' = closes + 1
    /\ strand' = Append(strand, Handler("close", None, TRUE))
    /\ UNCHANGED <<open, sendRest, ioVars, loopVars>>
    /\ UNCHANGED <<connects, answered, owned, alive, freed>>

\* The dispatched half.  It holds a weak pointer only.
CloseHandler ==
    /\ ~processing
    /\ Next1st("close")
    /\ strand' = Tail(strand)
    /\ IF alive THEN CloseEffect /\ open' = FALSE
                ELSE UNCHANGED <<ioVars, open>>
    /\ UNCHANGED <<sendRest, loopVars, appVars>>

\* reset_read_timeout(): the wait that is outstanding is cancelled, not a
\* handler that is already queued.
ResetReadTimeout == timer' = (timer \/ ReadTimeout)

\* start_receive(), s being the strand without the current handler.
StartReceive(s) ==
    IF Ready
    THEN reading' = reading + 1 /\ strand' = s
    ELSE reading' = reading /\ strand' = Append(s, Handler("read", None, FALSE))

\* Fault: the callback is not told of a failure.
ConnectHandlerSilent ==
    /\ ~processing
    /\ Next1st("connect")
    /\ strand' = Tail(strand)
    /\ LET ok == Head(strand).ok /\ open
       IN  /\ answered' = answered + If(ok)
           /\ is_connected' = (is_connected \/ ok)
           /\ processing' = ok
           /\ callbacks' = If(ok)
    /\ UNCHANGED <<open, sendRest, kernel, reading, aborted, stale, timer>>
    /\ UNCHANGED <<malformed, connects, closes, owned, alive, freed>>

\* The completion of async_connect, which reports an error if the socket has
\* been closed meanwhile.  The callback and the start of the receive loop
\* follow as Callback and EndProcess.
ConnectHandler ==
    /\ ~processing
    /\ Next1st("connect")
    /\ strand' = Tail(strand)
    /\ answered' = answered + 1
    /\ LET ok == Head(strand).ok /\ open
       IN  /\ is_connected' = (is_connected \/ ok)
           /\ processing' = ok
           /\ callbacks' = If(ok)
    /\ UNCHANGED <<open, sendRest, kernel, reading, aborted, stale, timer>>
    /\ UNCHANGED <<malformed, connects, closes, owned, alive, freed>>
-----------------------------------------------------------------------------
(***************************************************************************)
(* The send path, as this class uses it.                                   *)
(***************************************************************************)

Usable == is_connected /\ open

Send(t) ==
    /\ owned
    /\ SendCheck(t, Usable)
    /\ UNCHANGED clientVars

Pop(t) == SendPop(t) /\ UNCHANGED clientVars

Post(t) == SendPost(t) /\ UNCHANGED clientVars

RunPush ==
    /\ ~processing
    /\ PushHandler(Ready)
    /\ UNCHANGED clientVars

RunWritten ==
    /\ ~processing
    /\ WrittenHandler(Ready)
    /\ IF WriteSucceeded THEN UNCHANGED ioVars ELSE CloseEffect
    /\ UNCHANGED <<loopVars, appVars>>
-----------------------------------------------------------------------------
(***************************************************************************)
(* The receive loop.                                                       *)
(***************************************************************************)

\* Fault: the next read is started before the buffer is processed.
ReadHandlerReadsAhead ==
    /\ ~processing
    /\ Next1st("read")
    /\ IF Head(strand).ok
       THEN /\ processing' = TRUE
            /\ callbacks' \in 0 .. MaxFrames
            /\ malformed' \in {FALSE, "malformed" \in Faults}
            /\ StartReceive(Tail(strand))
            /\ UNCHANGED <<is_connected, kernel, aborted, stale, timer, open>>
       ELSE /\ CloseEffect
            /\ open' = FALSE
            /\ strand' = Tail(strand)
            /\ UNCHANGED loopVars
    /\ UNCHANGED <<sendRest, appVars>>

\* The completion handler of start_receive(): process_buffer() or close().
ReadHandler ==
    /\ ~processing
    /\ Next1st("read")
    /\ strand' = Tail(strand)
    /\ IF Head(strand).ok
       THEN /\ processing' = TRUE
            /\ callbacks' \in 0 .. MaxFrames
            /\ malformed' \in {FALSE, "malformed" \in Faults}
            /\ UNCHANGED <<ioVars, open>>
       ELSE /\ CloseEffect
            /\ open' = FALSE
            /\ UNCHANGED loopVars
    /\ UNCHANGED <<sendRest, appVars>>

\* There is a complete frame left, or connect()'s callback to call.
CallbackDue == callbacks > 0

\* The application's callback, on the strand: it may close(), which runs
\* inline, or begin a send(), whose remaining steps are Pop(OnRecv) and
\* Post(OnRecv).
Callback ==
    /\ processing
    /\ CallbackDue
    /\ pc[OnRecv] = "idle"
    /\ callbacks' = callbacks - 1
    /\ \/ UNCHANGED <<sendVars, ioVars>>
       \/ /\ "close" \in CallbackDoes
          /\ CloseEffect
          /\ open' = FALSE
          /\ UNCHANGED <<strand, sendRest>>
       \/ /\ "send" \in CallbackDoes
          /\ SendCheck(OnRecv, Usable)
          /\ UNCHANGED ioVars
    /\ UNCHANGED <<processing, malformed, appVars>>

\* The end of process_buffer(), or of connect's handler: restart the timer and
\* read; or close() because of a bad header.
EndProcess ==
    /\ processing
    /\ callbacks = 0
    /\ pc[OnRecv] = "idle"
    /\ processing' = FALSE
    /\ malformed' = FALSE
    /\ IF malformed
       THEN /\ CloseEffect
            /\ open' = FALSE
            /\ UNCHANGED strand
       ELSE /\ ResetReadTimeout
            /\ StartReceive(strand)
            /\ UNCHANGED <<open, is_connected, kernel, aborted, stale>>
    /\ UNCHANGED <<sendRest, callbacks, appVars>>

TimerHandler ==
    /\ ~processing
    /\ Next1st("timer")
    /\ strand' = Tail(strand)
    /\ CloseEffect
    /\ open' = FALSE
    /\ UNCHANGED <<sendRest, loopVars, appVars>>
-----------------------------------------------------------------------------
(***************************************************************************)
(* External: the kernel's part.                                            *)
(***************************************************************************)

\* An operation completes; its handler is queued on the strand.
Completes(kind, ok) ==
    /\ strand' = Append(strand, Handler(kind, None, ok))
    /\ UNCHANGED <<open, sendRest, is_connected, loopVars, appVars>>

\* A refused connection takes the operations with it that waited for it.
KernelConnect ==
    /\ kernel = "connecting"
    /\ \/ /\ kernel' = "up"
          /\ Completes("connect", TRUE)
          /\ UNCHANGED <<reading, aborted, stale>>
       \/ /\ "refused" \in Faults
          /\ kernel' = "down"
          /\ Completes("connect", FALSE)
          /\ reading' = 0
          /\ aborted' = [aborted EXCEPT !.read = @ + reading]
          /\ stale' = (stale \/ writes > 0)
    /\ UNCHANGED timer

KernelRead ==
    /\ kernel = "up"
    /\ reading > 0
    /\ reading' = reading - 1
    /\ \/ Completes("read", TRUE)
       \/ "reset" \in Faults /\ Completes("read", FALSE)
    /\ UNCHANGED <<kernel, aborted, stale, timer>>

KernelAbort ==
    /\ \E kind \in {"read", "connect"} :
        /\ aborted[kind] > 0
        /\ aborted' = [aborted EXCEPT ![kind] = @ - 1]
        /\ Completes(kind, FALSE)
    /\ UNCHANGED <<kernel, reading, stale, timer>>

KernelWrite ==
    /\ \/ ~stale /\ kernel = "up" /\ WriteOk
       \/ (stale \/ (kernel = "up" /\ "reset" \in Faults)) /\ WriteFail
    /\ stale' = FALSE
    /\ UNCHANGED <<is_connected, kernel, reading, aborted, timer>>
    /\ UNCHANGED <<loopVars, appVars>>

TimerExpires ==
    /\ timer
    /\ timer' = FALSE
    /\ Completes("timer", TRUE)
    /\ UNCHANGED <<kernel, reading, aborted, stale>>
-----------------------------------------------------------------------------
(***************************************************************************)
(* The end of the object.                                                  *)
(***************************************************************************)

\* The application gives up its shared_ptr, with no call of its own running.
AppDrop ==
    /\ owned
    /\ \A t \in Senders : pc[t] = "idle"
    /\ owned' = FALSE
    /\ UNCHANGED <<sendVars, ioVars, loopVars>>
    /\ UNCHANGED <<connects, answered, closes, alive, freed>>

\* Every outstanding operation and queued handler holds a shared_ptr, but for
\* those of close().
Unreferenced ==
    /\ ~owned
    /\ pc[OnRecv] = "idle"
    /\ ~processing /\ reading = 0 /\ ~timer /\ writes = 0
    /\ kernel # "connecting"
    /\ aborted = [read |-> 0, connect |-> 0]
    /\ \A i \in DOMAIN strand : strand[i].kind = "close"

\* The buffers the destructor deletes.
Deleted == pool \cup {send_queue[i] : i \in DOMAIN send_queue}

Destroy ==
    /\ alive
    /\ Unreferenced
    /\ alive' = FALSE
    /\ freed' = Deleted
    /\ open' = FALSE
    /\ kernel' = "down"
    /\ UNCHANGED <<strand, sendRest, is_connected, reading, aborted, stale,
                   timer, loopVars, connects, answered, closes, owned>>

RunStrand == \/ RunPush \/ RunWritten \/ ConnectHandler \/ ReadHandler
             \/ TimerHandler \/ CloseHandler \/ Callback \/ EndProcess

Kernel == KernelConnect \/ KernelRead \/ KernelAbort \/ KernelWrite \/ TimerExpires

Next ==
    \/ Connect
    \/ AppClose
    \/ \E t \in Senders : Send(t)
    \/ \E t \in Threads : Pop(t) \/ Post(t)
    \/ RunStrand
    \/ Kernel
    \/ AppDrop
    \/ Destroy

Spec == Init /\ [][Next]_vars

\* Worker threads run queued handlers, a thread inside send() keeps running,
\* a connection attempt and a write end, aborted operations complete, and the
\* timer expires once the socket is closed.  The peer need not send.
Fairness ==
    /\ WF_vars(RunStrand)
    /\ \A t \in Threads : WF_vars(Pop(t)) /\ WF_vars(Post(t))
    /\ WF_vars(KernelConnect)
    /\ WF_vars(KernelAbort)
    /\ WF_vars(KernelWrite)
    /\ WF_vars(~open /\ TimerExpires)
    /\ WF_vars(Destroy)

FairSpec == Spec /\ Fairness
-----------------------------------------------------------------------------
(***************************************************************************)
(* Properties.                                                             *)
(***************************************************************************)

\* The variables of the client have the values their C++ types allow, and
\* what the kernel does fits the socket's state.
TypeOK ==
    /\ SendTypeOK
    /\ is_connected \in BOOLEAN
    /\ kernel \in {"down", "connecting", "up"}
    /\ reading \in Nat
    /\ aborted \in [{"read", "connect"} -> Nat]
    /\ stale \in BOOLEAN
    /\ timer \in BOOLEAN
    /\ processing \in BOOLEAN
    /\ callbacks \in 0 .. MaxFrames + 1
    /\ malformed \in BOOLEAN
    /\ connects \in 0 .. MaxConnects
    /\ answered \in Nat
    /\ closes \in 0 .. MaxCloses
    /\ owned \in BOOLEAN
    /\ alive \in BOOLEAN
    /\ freed \subseteq Buffers

\* Every call of connect() is answered by one call of its callback, whether it
\* succeeds, is refused or is aborted by close(): the answers given and the
\* attempts under way add up.
AnsweredOnce == connects = answered + Attempts

\* Across connections no message is transmitted twice or overtakes another:
\* what a failed write leaves unsent is dropped, never queued again.
NeverResent == \A i, j \in DOMAIN wire : i < j => wire[i] < wire[j]

\* is_connected_, which lets send() pass, never outlives the connection, nor
\* does a late completion of connect() raise it for a socket since closed.
ConnectedIsOpen == is_connected => open /\ kernel = "up"

\* tcp_client.hpp, send(): it dispatches the data to the remote endpoint, or
\* says that the socket is dead.  So while the client is connected, queued
\* buffers have a write outstanding that will come back to them.
NeverStuck == is_connected /\ send_queue # <<>> => WriteOutstanding

Reads == {i \in DOMAIN strand : strand[i].kind = "read"}

\* Activities that read from the socket or are about to go on reading.
ReadLoops == reading + aborted.read + Cardinality(Reads) + If(processing)

\* A connected client receives: whatever completions of earlier connections
\* reach the strand, there is a read whose handler will read on or close.  It
\* may be one of an earlier connection.
ConnectedReceives == is_connected => ReadLoops > 0

\* What is_connected_ tells send() is true: behind it there is an open, connected
\* socket and a receive loop, which will notice the end of the connection.
ConnectedIsLive == ConnectedIsOpen /\ ConnectedReceives

\* On its first connection a client has no second receive loop and never
\* forgets to write.
FirstConnection == connects <= 1 => ReadLoops <= 1 /\ NeverStuck

\* The destructor deletes every buffer that the constructor allocated.
DestructorFreesAll == ~alive => freed = Buffers

\* Every call of connect() gets its answer.
ConnectAnswered ==
    \A n \in 1 .. MaxConnects : (connects >= n) ~> (answered >= n)

\* A closed client that the application has dropped is destroyed.
DroppedIsReleased == (~owned /\ ~open) ~> ~alive
=============================================================================
