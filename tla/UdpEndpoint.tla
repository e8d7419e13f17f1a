----------------------------- MODULE UdpEndpoint -----------------------------
(***************************************************************************)
(* UdpEndpoint (udp_endpoint.hpp).  SendPath is its transmission half, one *)
(* datagram at a time; the number of a message stands for the payload and  *)
(* the target of an item, which are written in the same step.  This module *)
(* adds bind(), connect(), join_multicast(), start_receive() and close().  *)
(*                                                                         *)
(* The operations that open the socket run on the caller's thread.  What   *)
(* the operating system knows of the socket besides (its port, peer and    *)
(* groups) is left out, and so is the destructor.                          *)
(*                                                                         *)
(* A definition marked "Fault" is a wrong version of the one after it,     *)
(* kept to show that a property notices the difference; nothing uses it.   *)
(***************************************************************************)
EXTENDS SendPath

CONSTANTS
    CallbackDoes,   \* what the callback may call: a subset of {"send", "close"}
    Faults,         \* a subset of {"unreachable", "error", "empty", "close"}
    MaxSockets,     \* bound: times the socket is opened
    MaxCloses       \* bound: calls of close() by the application's threads

ASSUME UdpEndpointAssumption ==
    /\ Batch = 1
    /\ CallbackDoes \subseteq {"send", "close"}
    /\ Faults \subseteq {"unreachable", "error", "empty", "close"}
    /\ MaxSockets \in Nat
    /\ MaxCloses \in Nat

VARIABLES
    is_connected,  \* is_connected_
    connecting,    \* connect() has yet to set the flag
    reading,       \* receives outstanding on the socket
    processing,    \* the strand is inside the receive callback
    stale,         \* the outstanding send belongs to a socket since closed
    sockets,       \* times the socket was opened
    listening,     \* history: start_receive() was called for this socket
    emptied,       \* history: an empty datagram has arrived
    closes         \* calls of close() made by application threads

udpVars == <<is_connected, connecting, reading, processing, stale, sockets,
             listening, emptied, closes>>
vars == <<sendVars, udpVars>>

Init ==
    /\ SendInit
    /\ open = FALSE
    /\ is_connected = FALSE
    /\ connecting = FALSE
    /\ reading = 0
    /\ processing = FALSE
    /\ stale = FALSE
    /\ sockets = 0
    /\ listening = FALSE
    /\ emptied = FALSE
    /\ closes = 0
-----------------------------------------------------------------------------
(***************************************************************************)
(* Opening and closing.                                                    *)
(***************************************************************************)

OpenSocket ==
    /\ sockets < MaxSockets
    /\ sockets' = sockets + 1
    /\ open' = TRUE
    /\ listening' = FALSE

\* bind(): an open socket is refused.  If the port is, the socket stays open.
Bind ==
    /\ ~open
    /\ OpenSocket
    /\ UNCHANGED <<strand, sendRest, is_connected, connecting, reading,
                   processing, stale, emptied, closes>>

\* connect(), up to the call of the operating system: the socket is opened
\* unless it is open.  If the system refuses, that is all it does.
Connect ==
    /\ ~connecting
    /\ IF open THEN UNCHANGED <<open, sockets, listening>> ELSE OpenSocket
    /\ connecting' \in {TRUE, "unreachable" \notin Faults}
    /\ UNCHANGED <<strand, sendRest, is_connected, reading, processing, stale,
                   emptied, closes>>

\* The rest of connect(), no longer aware of what close() did meanwhile.
ConnectFlag ==
    /\ connecting
    /\ connecting' = FALSE
    /\ is_connected' = TRUE
    /\ UNCHANGED <<sendVars, reading, processing, stale, sockets, listening,
                   emptied, closes>>

\* join_multicast(): if a later call of it fails, the socket stays open too.
JoinMulticast ==
    /\ IF open THEN UNCHANGED <<open, sockets, listening>> ELSE OpenSocket
    /\ UNCHANGED <<strand, sendRest, is_connected, connecting, reading,
                   processing, stale, emptied, closes>>

\* What close() does on the strand, apart from open' = FALSE.  Operations of
\* the socket are aborted; a receive's handler ignores that, so that it is
\* left out.
CloseEffect ==
    /\ is_connected' = FALSE
    /\ reading' = 0
    /\ stale' = (stale \/ writes > 0)

AppClose ==
    /\ "close" \in Faults
    /\ closes < MaxCloses
    /\ closes' = closes + 1
    /\ strand' = Append(strand, Handler("close", None, TRUE))
    /\ UNCHANGED <<open, sendRest, is_connected, connecting, reading,
                   processing, stale, sockets, listening, emptied>>

CloseHandler ==
    /\ ~processing
    /\ Next1st("close")
    /\ strand' = Tail(strand)
    /\ CloseEffect
    /\ open' = FALSE
    /\ UNCHANGED <<sendRest, connecting, processing, sockets, listening, emptied,
                   closes>>
-----------------------------------------------------------------------------
(***************************************************************************)
(* send() and send_to().                                                   *)
(***************************************************************************)

\* send() tests the flag, then the socket as send_to() does.
Send(t) == SendCheck(t, is_connected /\ open) /\ UNCHANGED udpVars

SendTo(t) == SendCheck(t, open) /\ UNCHANGED udpVars

Pop(t) == SendPop(t) /\ UNCHANGED udpVars

Post(t) == SendPost(t) /\ UNCHANGED udpVars

RunPush ==
    /\ ~processing
    /\ PushHandler(open)
    /\ UNCHANGED udpVars

\* Any error of one datagram closes the endpoint.
RunWritten ==
    /\ ~processing
    /\ WrittenHandler(open)
    /\ IF WriteSucceeded
       THEN UNCHANGED udpVars
       ELSE /\ CloseEffect
            /\ UNCHANGED <<connecting, processing, sockets, listening, emptied,
                           closes>>

\* External: the system takes the datagram, or reports an error.
KernelWrite ==
    /\ \/ ~stale /\ WriteOk
       \/ (stale \/ "unreachable" \in Faults) /\ WriteFail
    /\ stale' = FALSE
    /\ UNCHANGED <<is_connected, connecting, reading, processing, sockets,
                   listening, emptied, closes>>
-----------------------------------------------------------------------------
(***************************************************************************)
(* The receive loop.                                                       *)
(***************************************************************************)

\* Fault: start_receive() does not look whether the socket is open.
ReceiveUnguarded == reading' = reading + 1

\* start_receive(); the application has set its callback before.
Receive == reading' = IF open THEN reading + 1 ELSE reading

\* The application's call, once for each time it opened the socket.
StartReceive ==
    /\ open /\ ~listening
    /\ Receive
    /\ listening' = TRUE
    /\ UNCHANGED <<sendVars, is_connected, connecting, processing, stale,
                   sockets, emptied, closes>>

\* External: a datagram arrives, or an error is reported.
KernelReceive ==
    /\ reading > 0
    /\ reading' = reading - 1
    /\ \/ strand' = Append(strand, Handler("read", None, TRUE))
       \/ /\ "error" \in Faults
          /\ strand' = Append(strand, Handler("read", None, FALSE))
    /\ UNCHANGED <<open, sendRest, is_connected, connecting, processing, stale,
                   sockets, listening, emptied, closes>>

\* An empty datagram arrives: its handler does nothing at all.
EmptyDatagram ==
    /\ "empty" \in Faults
    /\ reading > 0
    /\ reading' = reading - 1
    /\ emptied' = TRUE
    /\ UNCHANGED <<sendVars, is_connected, connecting, processing, stale,
                   sockets, listening, closes>>

\* The handler given data calls the callback; ReceiveAgain follows.
ReceiveHandler ==
    /\ ~processing
    /\ Next1st("read") /\ Head(strand).ok
    /\ strand' = Tail(strand)
    /\ processing' = TRUE
    /\ UNCHANGED <<open, sendRest, is_connected, connecting, reading, stale,
                   sockets, listening, emptied, closes>>

\* The callback calls send_to(), which goes on with Pop and Post of OnRecv, or
\* close(), which runs inline.
CallbackSends ==
    /\ processing
    /\ "send" \in CallbackDoes
    /\ SendCheck(OnRecv, open)
    /\ UNCHANGED udpVars

CallbackCloses ==
    /\ processing
    /\ pc[OnRecv] = "idle"
    /\ "close" \in CallbackDoes
    /\ CloseEffect
    /\ open' = FALSE
    /\ UNCHANGED <<strand, sendRest, connecting, processing, sockets, listening,
                   emptied, closes>>

\* Fault: an error ends the loop.
RetryHandlerStops ==
    /\ ~processing
    /\ Next1st("read") /\ ~Head(strand).ok
    /\ strand' = Tail(strand)
    /\ UNCHANGED <<open, sendRest, udpVars>>

\* The handler given an error: receive again.
RetryHandler ==
    /\ ~processing
    /\ Next1st("read") /\ ~Head(strand).ok
    /\ strand' = Tail(strand)
    /\ Receive
    /\ UNCHANGED <<open, sendRest, is_connected, connecting, processing, stale,
                   sockets, listening, emptied, closes>>

ReceiveAgain ==
    /\ processing
    /\ pc[OnRecv] = "idle"
    /\ processing' = FALSE
    /\ Receive
    /\ UNCHANGED <<sendVars, is_connected, connecting, stale, sockets,
                   listening, emptied, closes>>

Next ==
    \/ Bind \/ Connect \/ ConnectFlag \/ JoinMulticast \/ StartReceive
    \/ AppClose \/ CloseHandler
    \/ \E t \in Senders : Send(t) \/ SendTo(t)
    \/ \E t \in Threads : Pop(t) \/ Post(t)
    \/ RunPush \/ RunWritten \/ KernelWrite
    \/ KernelReceive \/ EmptyDatagram
    \/ ReceiveHandler \/ CallbackSends \/ CallbackCloses
    \/ RetryHandler \/ ReceiveAgain

Spec == Init /\ [][Next]_vars
-----------------------------------------------------------------------------
(***************************************************************************)
(* Properties.                                                             *)
(***************************************************************************)

\* The variables of the endpoint have the values their C++ types allow, and a
\* receive is outstanding only on an open socket.
TypeOK ==
    /\ SendTypeOK
    /\ is_connected \in BOOLEAN
    /\ connecting \in BOOLEAN
    /\ reading \in IF open THEN Nat ELSE {0}
    /\ processing \in BOOLEAN
    /\ stale \in BOOLEAN
    /\ sockets \in 0 .. MaxSockets
    /\ listening \in BOOLEAN
    /\ emptied \in BOOLEAN
    /\ closes \in 0 .. MaxCloses

Reads == {i \in DOMAIN strand : strand[i].kind = "read"}

If(condition) == IF condition THEN 1 ELSE 0

\* Activities that receive or are about to go on receiving.
Receivers == reading + Cardinality(Reads) + If(processing)

\* As long as its first socket is open, an endpoint that start_receive() set
\* going receives, with one receive at a time into recv_buffer_, and has a send
\* outstanding if anything is queued.  Errors of a receive do not end this;
\* an empty datagram does.
FirstSocket ==
    sockets <= 1 =>
        /\ Receivers <= 1
        /\ open /\ listening /\ ~emptied => Receivers = 1
        /\ NoStall

\* However often the endpoint is closed and opened again, datagrams leave in
\* the order of the calls, each at most once.
NeverResent == \A i, j \in DOMAIN wire : i < j => wire[i] < wire[j]
=============================================================================
