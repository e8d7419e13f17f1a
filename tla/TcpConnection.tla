---------------------------- MODULE TcpConnection ----------------------------
(***************************************************************************)
(* TcpConnection (tcp_server.hpp): one accepted client.  SendPath is its   *)
(* transmission half; this module adds the receive loop, the read timeout, *)
(* close() with its disconnect callback, and the destructor.               *)
(*                                                                         *)
(* How a received byte string splits into frames is the subject of         *)
(* FrameReader; here a completed read holds some number of frames, perhaps *)
(* followed by a header the framing rule rejects.                          *)
(***************************************************************************)
EXTENDS SendPath

CONSTANTS
    ReadTimeout,    \* read_timeout_.count() > 0
    CallbackDoes,   \* what on_recv_ may call: a subset of {"send", "close"}
    Faults,         \* a subset of {"reset", "close", "malformed"}
    MaxFrames,      \* bound: complete frames found by one read
    MaxCloses       \* bound: calls of close() by the application's threads

ASSUME TcpConnectionAssumption ==
    /\ ReadTimeout \in BOOLEAN
    /\ CallbackDoes \subseteq {"send", "close"}
    /\ Faults \subseteq {"reset", "close", "malformed"}
    /\ MaxFrames \in Nat
    /\ MaxCloses \in Nat

VARIABLES
    started,     \* how far the acceptor's call of start() has come
    reading,     \* an async_read_some is outstanding
    timer,       \* a wait on read_timer_ is outstanding
    processing,  \* the strand is inside process_buffer()
    frames,      \* frames process_buffer() has yet to deliver
    malformed,   \* what follows them is a header it will reject
    discs,       \* calls of on_disc_ so far
    closes,      \* calls of close() made by application threads
    alive,       \* the object exists
    freed        \* buffers the destructor has deleted

connVars == <<started, reading, timer, processing, frames, malformed, discs,
              closes, alive, freed>>
vars == <<sendVars, connVars>>

Init ==
    /\ SendInit
    /\ open = TRUE
    /\ started = "no"
    /\ reading = FALSE
    /\ timer = FALSE
    /\ processing = FALSE
    /\ frames = 0
    /\ malformed = FALSE
    /\ discs = 0
    /\ closes = 0
    /\ alive = TRUE
    /\ freed = {}
-----------------------------------------------------------------------------
(***************************************************************************)
(* close() and reset_read_timeout().                                       *)
(***************************************************************************)

\* Faults: close() does not look whether the socket is still open; close()
\* does not call on_disc_.
CloseUnguarded == timer' = FALSE /\ discs' = discs + 1
CloseSilent == timer' = (timer /\ ~open) /\ discs' = discs

\* What close() does to this module's variables once it runs on the strand,
\* the socket being open: cancel the timer and call on_disc_.  A cancelled
\* wait completes with an error, which its handler ignores.
CloseEffect ==
    /\ timer' = (timer /\ ~open)
    /\ discs' = IF open THEN discs + 1 ELSE discs

\* reset_read_timeout(): expires_after() cancels the wait that is
\* outstanding, not a handler that is already queued.
ResetReadTimeout == timer' = (timer \/ ReadTimeout)

\* start_receive(), s being the strand without the current handler.  A read
\* on a closed socket completes at once, with an error.
StartReceive(s) ==
    /\ reading' = (reading \/ open)
    /\ strand' = IF open THEN s ELSE Append(s, Handler("read", None, FALSE))

\* start(), on the acceptor's thread and not on the strand: first the timer,
\* then the read, with whatever the strand does in between.
StartTimer ==
    /\ started = "no"
    /\ started' = "armed"
    /\ ResetReadTimeout
    /\ UNCHANGED sendVars
    /\ UNCHANGED <<reading, processing, frames, malformed, discs, closes,
                   alive, freed>>

StartRead ==
    /\ started = "armed"
    /\ started' = "yes"
    /\ StartReceive(strand)
    /\ UNCHANGED sendRest
    /\ UNCHANGED <<open, timer, processing, frames, malformed, discs, closes,
                   alive, freed>>

\* close() on an application thread: dispatched to the strand.
AppClose ==
    /\ "close" \in Faults
    /\ alive
    /\ closes < MaxCloses
    /\ closes' = closes + 1
    /\ strand' = Append(strand, Handler("close", None, TRUE))
    /\ UNCHANGED sendRest
    /\ UNCHANGED <<open, started, reading, timer, processing, frames,
                   malformed, discs, alive, freed>>

\* The dispatched half of close().  It holds a weak pointer only.
CloseHandler ==
    /\ ~processing
    /\ Next1st("close")
    /\ strand' = Tail(strand)
    /\ IF alive THEN CloseEffect /\ open' = FALSE
                ELSE UNCHANGED <<timer, discs, open>>
    /\ UNCHANGED sendRest
    /\ UNCHANGED <<started, reading, processing, frames, malformed, closes,
                   alive, freed>>
-----------------------------------------------------------------------------
(***************************************************************************)
(* The send path, as this class uses it.                                   *)
(***************************************************************************)

Send(t) ==
    /\ alive
    /\ SendCheck(t, open)
    /\ UNCHANGED connVars

Pop(t) == SendPop(t) /\ UNCHANGED connVars

Post(t) == SendPost(t) /\ UNCHANGED connVars

RunPush ==
    /\ ~processing
    /\ PushHandler(open)
    /\ UNCHANGED connVars

KernelWrite ==
    /\ \/ WriteOk
       \/ ("reset" \in Faults \/ ~open) /\ WriteFail
    /\ UNCHANGED connVars

RunWritten ==
    /\ ~processing
    /\ WrittenHandler(open)
    /\ IF WriteSucceeded THEN UNCHANGED <<timer, discs>> ELSE CloseEffect
    /\ UNCHANGED <<started, reading, processing, frames, malformed, closes,
                   alive, freed>>
-----------------------------------------------------------------------------
(***************************************************************************)
(* The receive loop.                                                       *)
(***************************************************************************)

\* External: the outstanding read completes, with bytes or (end of stream,
\* reset, aborted by close()) with an error.
KernelRead ==
    /\ reading
    /\ \E ok \in BOOLEAN :
        /\ IF ok THEN open ELSE "reset" \in Faults \/ ~open
        /\ strand' = Append(strand, Handler("read", None, ok))
    /\ reading' = FALSE
    /\ UNCHANGED sendRest
    /\ UNCHANGED <<open, started, timer, processing, frames, malformed, discs,
                   closes, alive, freed>>

\* process_buffer() is entered, with what the read has brought.
ProcessBuffer ==
    /\ processing' = TRUE
    /\ frames' \in 0 .. MaxFrames
    /\ malformed' \in BOOLEAN
    /\ malformed' => "malformed" \in Faults
    /\ UNCHANGED <<open, timer, discs>>

\* Fault: a read that fails is dropped without close().
ReadErrorDropped ==
    /\ ~processing
    /\ Next1st("read")
    /\ strand' = Tail(strand)
    /\ IF Head(strand).ok
       THEN ProcessBuffer
       ELSE UNCHANGED <<open, timer, discs, processing, frames, malformed>>
    /\ UNCHANGED sendRest
    /\ UNCHANGED <<started, reading, closes, alive, freed>>

\* The completion handler of start_receive(): process_buffer() or close().
ReadHandler ==
    /\ ~processing
    /\ Next1st("read")
    /\ strand' = Tail(strand)
    /\ IF Head(strand).ok
       THEN ProcessBuffer
       ELSE /\ CloseEffect
            /\ open' = FALSE
            /\ UNCHANGED <<processing, frames, malformed>>
    /\ UNCHANGED sendRest
    /\ UNCHANGED <<started, reading, closes, alive, freed>>

\* Fault: the loop of process_buffer() runs once too often.
HaveFrameOrEnd == frames >= 0

\* A complete frame is left in recv_buffer_.
HaveFrame == frames > 0

\* process_buffer() hands one frame to on_recv_.  The callback may call
\* close(), which runs inline on the strand, or begin a send() of its own,
\* whose remaining steps are Pop(OnRecv) and Post(OnRecv).
Deliver ==
    /\ processing
    /\ HaveFrame
    /\ pc[OnRecv] = "idle"
    /\ frames' = frames - 1
    /\ \/ UNCHANGED <<sendVars, timer, discs>>
       \/ /\ "close" \in CallbackDoes
          /\ CloseEffect
          /\ open' = FALSE
          /\ strand' = strand
          /\ UNCHANGED sendRest
       \/ /\ "send" \in CallbackDoes
          /\ SendCheck(OnRecv, open)
          /\ UNCHANGED <<timer, discs>>
    /\ UNCHANGED <<started, reading, processing, malformed, closes, alive,
                   freed>>

\* The end of process_buffer(): reject a bad header by close(), or keep the
\* incomplete rest, restart the timer and read on.
EndProcess ==
    /\ processing
    /\ frames = 0
    /\ pc[OnRecv] = "idle"
    /\ processing' = FALSE
    /\ malformed' = FALSE
    /\ IF malformed
       THEN /\ CloseEffect
            /\ open' = FALSE
            /\ UNCHANGED <<strand, reading>>
       ELSE /\ ResetReadTimeout
            /\ StartReceive(strand)
            /\ UNCHANGED <<open, discs>>
    /\ UNCHANGED sendRest
    /\ UNCHANGED <<started, frames, closes, alive, freed>>

\* The read timer expires; its handler is queued and can no longer be
\* cancelled.
TimerExpires ==
    /\ timer
    /\ timer' = FALSE
    /\ strand' = Append(strand, Handler("timer", None, TRUE))
    /\ UNCHANGED sendRest
    /\ UNCHANGED <<open, started, reading, processing, frames, malformed,
                   discs, closes, alive, freed>>

TimerHandler ==
    /\ ~processing
    /\ Next1st("timer")
    /\ strand' = Tail(strand)
    /\ CloseEffect
    /\ open' = FALSE
    /\ UNCHANGED sendRest
    /\ UNCHANGED <<started, reading, processing, frames, malformed, closes,
                   alive, freed>>
-----------------------------------------------------------------------------
(***************************************************************************)
(* The destructor, once the last shared_ptr is gone.  The acceptor's       *)
(* thread holds one until start() returns, the server until on_disc_, the  *)
(* callers of send(), every outstanding operation and every queued handler *)
(* one each, except those of close(), which hold a weak pointer.  An       *)
(* application that keeps one longer only delays this step.                *)
(***************************************************************************)
Unreferenced ==
    /\ started = "yes"
    /\ discs > 0
    /\ \A t \in Threads : pc[t] = "idle"
    /\ ~processing /\ ~reading /\ ~timer /\ writes = 0
    /\ \A i \in DOMAIN strand : strand[i].kind = "close"

\* Fault: the queued buffers are forgotten.
DeletedFromPool == pool

\* The buffers the destructor deletes.
Deleted == pool \cup {send_queue[i] : i \in DOMAIN send_queue}

Destroy ==
    /\ alive
    /\ Unreferenced
    /\ alive' = FALSE
    /\ freed' = Deleted
    /\ UNCHANGED sendVars
    /\ UNCHANGED <<started, reading, timer, processing, frames, malformed,
                   discs, closes>>

RunStrand == \/ RunPush \/ RunWritten \/ ReadHandler \/ TimerHandler
             \/ CloseHandler \/ Deliver \/ EndProcess

Next ==
    \/ StartTimer
    \/ StartRead
    \/ AppClose
    \/ \E t \in Senders : Send(t)
    \/ \E t \in Threads : Pop(t) \/ Post(t)
    \/ RunStrand
    \/ KernelWrite
    \/ KernelRead
    \/ TimerExpires
    \/ Destroy

Spec == Init /\ [][Next]_vars

\* Worker threads run queued handlers, a thread inside send() keeps running,
\* the acceptor's thread goes on to start(), a write completes, and so do a
\* pending read and a pending timer once the socket is closed (before that
\* the peer need not send, and its data may restart the timer for ever).
Fairness ==
    /\ WF_vars(RunStrand)
    /\ \A t \in Threads : WF_vars(Pop(t)) /\ WF_vars(Post(t))
    /\ WF_vars(StartTimer)
    /\ WF_vars(StartRead)
    /\ WF_vars(KernelWrite)
    /\ WF_vars(~open /\ KernelRead)
    /\ WF_vars(~open /\ TimerExpires)
    /\ WF_vars(Destroy)

FairSpec == Spec /\ Fairness
-----------------------------------------------------------------------------
(***************************************************************************)
(* Properties.                                                             *)
(***************************************************************************)

\* The variables of the connection have the values their C++ types allow.
TypeOK ==
    /\ SendTypeOK
    /\ started \in {"no", "armed", "yes"}
    /\ reading \in BOOLEAN
    /\ timer \in BOOLEAN
    /\ processing \in BOOLEAN
    /\ frames \in 0 .. MaxFrames
    /\ malformed \in BOOLEAN
    /\ discs \in Nat
    /\ closes \in 0 .. MaxCloses
    /\ alive \in BOOLEAN
    /\ freed \subseteq Buffers

Reads == {i \in DOMAIN strand : strand[i].kind = "read"}

\* The receive loop of a started connection neither forks (two reads into
\* recv_buffer_ at once) nor dies while the socket is open.
OneReadLoop ==
    /\ \A i, j \in Reads : i = j
    /\ reading => Reads = {} /\ ~processing
    /\ processing => Reads = {}
    /\ started = "yes" /\ open => reading \/ processing \/ Reads # {}

\* However many of read error, write error, timeout, bad header and close()
\* race, on_disc_ runs once, in the step that closes the socket.
DisconnectOnce == discs = IF open THEN 0 ELSE 1

\* The destructor deletes every buffer that the constructor allocated: none
\* is still inside a handler or a caller of send() by then.
DestructorFreesAll == ~alive => freed = Buffers

\* architecture.md, section 2: a sender that finds the pool empty yields until
\* the write completions recycle a buffer, as long as the socket is open.
PoolRefills == (pool = {}) ~> (pool # {} \/ ~open)

\* A message send() accepted is transmitted, unless the socket closes.
AcceptedIsSent ==
    \A n \in 1 .. MaxSends * Cardinality(Threads) :
        (posted >= n) ~> (Len(wire) >= n \/ ~open)

\* A closed connection is destroyed, whatever was going on when it closed,
\* once no thread is left inside send().  (One that waits there for a buffer
\* waits for ever if the buffers are in the queue of the closed socket.)
ClosedIsReleased == (~open /\ \A t \in Threads : pc[t] = "idle") ~> ~alive
=============================================================================
