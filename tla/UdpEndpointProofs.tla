-------------------------- MODULE UdpEndpointProofs --------------------------
(***************************************************************************)
(* The invariants of UdpEndpoint, for any number of threads, items, sends  *)
(* and sockets and every fault.                                            *)
(***************************************************************************)
EXTENDS UdpEndpoint, SendPathProofs

\* The state of this module, without the send pipeline's.
UdpTypeOK ==
    /\ is_connected \in BOOLEAN
    /\ connecting \in BOOLEAN
    /\ reading \in Nat
    /\ ~open => reading = 0
    /\ processing \in BOOLEAN
    /\ stale \in BOOLEAN
    /\ sockets \in 0 .. MaxSockets
    /\ listening \in BOOLEAN
    /\ emptied \in BOOLEAN
    /\ closes \in 0 .. MaxCloses

UdpInv == SendInv /\ UdpTypeOK
-----------------------------------------------------------------------------
\* To the send pipeline every step of the endpoint is a SendStep.
LEMMA StepIsSendStep ==
    ASSUME SendTypeOK, UdpTypeOK, [Next]_vars
    PROVE  [SendStep]_sendVars
  <1>. USE DEF SendTypeOK, EndpointStep, Foreign, Handler, Handlers, HandlerKinds
  <1>1. CASE UNCHANGED vars \/ ConnectFlag \/ StartReceive \/ EmptyDatagram \/ ReceiveAgain
    BY <1>1 DEF vars, sendVars, ConnectFlag, StartReceive, EmptyDatagram, ReceiveAgain
  <1>2. CASE Bind \/ Connect \/ JoinMulticast
    <2>1. EndpointStep
      BY <1>2 DEF Bind, Connect, JoinMulticast, OpenSocket
    <2>. QED BY <2>1 DEF SendStep
  <1>3. CASE AppClose
    <2>1. EndpointStep
      BY <1>3 DEF AppClose
    <2>. QED BY <2>1 DEF SendStep
  <1>4. CASE CloseHandler
    <2>1. EndpointStep
      BY <1>4 DEF CloseHandler, Next1st
    <2>. QED BY <2>1 DEF SendStep
  <1>5. CASE \E t \in Senders : Send(t) \/ SendTo(t)
    <2>1. PICK t \in Senders : SendCheck(t, is_connected /\ open) \/ SendCheck(t, open)
      BY <1>5 DEF Send, SendTo
    <2>2. t \in Threads
      BY DEF Threads
    <2>3. open \in BOOLEAN /\ (is_connected /\ open) \in BOOLEAN
      OBVIOUS
    <2>. QED BY <2>1, <2>2, <2>3 DEF SendStep
  <1>6. CASE \E t \in Threads : Pop(t) \/ Post(t)
    BY <1>6 DEF Pop, Post, SendStep
  <1>7. CASE RunPush \/ RunWritten
    <2>1. open \in BOOLEAN
      OBVIOUS
    <2>. QED BY <1>7, <2>1 DEF RunPush, RunWritten, SendStep
  <1>8. CASE KernelWrite
    <2>1. WriteOk \/ WriteFail
      BY <1>8 DEF KernelWrite
    <2>. QED BY <2>1 DEF SendStep
  <1>9. CASE KernelReceive
    <2>1. EndpointStep
      BY <1>9 DEF KernelReceive
    <2>. QED BY <2>1 DEF SendStep
  <1>10. CASE ReceiveHandler
    <2>1. EndpointStep
      BY <1>10 DEF ReceiveHandler, Next1st
    <2>. QED BY <2>1 DEF SendStep
  <1>11. CASE RetryHandler
    <2>1. EndpointStep
      BY <1>11 DEF RetryHandler, Next1st
    <2>. QED BY <2>1 DEF SendStep
  <1>12. CASE CallbackSends
    <2>1. open \in BOOLEAN /\ OnRecv \in Threads /\ SendCheck(OnRecv, open)
      BY <1>12 DEF CallbackSends, Threads
    <2>. QED BY <2>1 DEF SendStep
  <1>13. CASE CallbackCloses
    <2>1. EndpointStep
      BY <1>13 DEF CallbackCloses
    <2>. QED BY <2>1 DEF SendStep
  <1>. QED BY <1>1, <1>2, <1>3, <1>4, <1>5, <1>6, <1>7, <1>8, <1>9, <1>10, <1>11,
              <1>12, <1>13 DEF Next

\* Steps that leave the endpoint's own state alone, the socket still as it was.
LEMMA UdpKept ==
    ASSUME UdpTypeOK, UNCHANGED <<open, udpVars>>
    PROVE  UdpTypeOK'
  BY DEF UdpTypeOK, udpVars

\* Steps that close the socket.
LEMMA UdpClosed ==
    ASSUME UdpTypeOK, CloseEffect, open' = FALSE, processing' = processing,
           UNCHANGED <<connecting, sockets, listening, emptied, closes>>
    PROVE  UdpTypeOK'
  <1>1. stale' \in BOOLEAN
    BY DEF CloseEffect
  <1>. QED BY <1>1 DEF UdpTypeOK, CloseEffect

\* Steps of the receive loop: on an open socket a receive starts or is kept, on
\* a closed one there is none.
LEMMA UdpReceives ==
    ASSUME UdpTypeOK, SendTypeOK, Receive, open' = open,
           processing' \in BOOLEAN, listening' \in BOOLEAN,
           UNCHANGED <<is_connected, connecting, stale, sockets, emptied, closes>>
    PROVE  UdpTypeOK'
  <1>1. reading' \in Nat /\ (~open' => reading' = 0)
    BY DEF UdpTypeOK, SendTypeOK, Receive
  <1>. QED BY <1>1 DEF UdpTypeOK

\* Steps that may open the socket.
LEMMA UdpOpens ==
    ASSUME UdpTypeOK, SendTypeOK,
           OpenSocket \/ UNCHANGED <<open, sockets, listening>>,
           connecting' \in BOOLEAN,
           UNCHANGED <<is_connected, reading, processing, stale, emptied, closes>>
    PROVE  UdpTypeOK'
  <1>1. sockets' \in 0 .. MaxSockets
    BY UdpEndpointAssumption DEF UdpTypeOK, OpenSocket
  <1>2. ~open' => reading' = 0
    BY DEF UdpTypeOK, OpenSocket
  <1>. QED BY <1>1, <1>2 DEF UdpTypeOK, OpenSocket

LEMMA UdpTypeInv ==
    ASSUME SendTypeOK, UdpTypeOK, Next
    PROVE  UdpTypeOK'
  <1>1. CASE Bind \/ JoinMulticast
    <2>1. connecting' = connecting /\ connecting \in BOOLEAN
      BY <1>1 DEF Bind, JoinMulticast, UdpTypeOK
    <2>. QED BY <1>1, <2>1, UdpOpens DEF Bind, JoinMulticast
  <1>2. CASE Connect
    <2>1. connecting' \in BOOLEAN
      BY <1>2 DEF Connect
    <2>. QED BY <1>2, <2>1, UdpOpens DEF Connect
  <1>3. CASE ConnectFlag
    BY <1>3 DEF ConnectFlag, sendVars, UdpTypeOK
  <1>4. CASE StartReceive
    BY <1>4, UdpReceives DEF StartReceive, sendVars, UdpTypeOK
  <1>5. CASE AppClose
    <2>1. closes' \in 0 .. MaxCloses
      BY <1>5, UdpEndpointAssumption DEF AppClose, UdpTypeOK
    <2>. QED BY <1>5, <2>1 DEF AppClose, UdpTypeOK
  <1>6. CASE CloseHandler \/ CallbackCloses
    BY <1>6, UdpClosed DEF CloseHandler, CallbackCloses
  <1>7. CASE \/ \E t \in Senders : Send(t) \/ SendTo(t)
             \/ \E t \in Threads : Pop(t) \/ Post(t)
             \/ RunPush \/ CallbackSends
    BY <1>7, UdpKept DEF Send, SendTo, SendCheck, Pop, SendPop, Post, SendPost, RunPush,
                         PushHandler, CallbackSends
  <1>8. CASE RunWritten
    <2>1. CASE WriteSucceeded
      <3>1. open' = open
        BY <1>8, <2>1 DEF RunWritten, WrittenHandler, SendTypeOK
      <3>. QED BY <1>8, <2>1, <3>1, UdpKept DEF RunWritten
    <2>2. CASE ~WriteSucceeded
      <3>1. open' = FALSE
        BY <1>8, <2>2 DEF RunWritten, WrittenHandler
      <3>. QED BY <1>8, <2>2, <3>1, UdpClosed DEF RunWritten
    <2>. QED BY <2>1, <2>2
  <1>9. CASE KernelWrite
    <2>1. open' = open /\ stale' = FALSE
      BY <1>9 DEF KernelWrite, WriteOk, WriteFail
    <2>. QED BY <1>9, <2>1 DEF KernelWrite, UdpTypeOK
  <1>10. CASE KernelReceive \/ EmptyDatagram
    <2>1. open' = open /\ reading > 0 /\ reading' = reading - 1
      BY <1>10 DEF KernelReceive, EmptyDatagram, sendVars
    <2>2. reading' \in Nat /\ (~open' => reading' = 0)
      BY <2>1 DEF UdpTypeOK
    <2>. QED BY <1>10, <2>2 DEF KernelReceive, EmptyDatagram, UdpTypeOK
  <1>11. CASE ReceiveHandler
    BY <1>11 DEF ReceiveHandler, UdpTypeOK
  <1>12. CASE RetryHandler \/ ReceiveAgain
    BY <1>12, UdpReceives DEF RetryHandler, ReceiveAgain, sendVars, UdpTypeOK
  <1>. QED BY <1>1, <1>2, <1>3, <1>4, <1>5, <1>6, <1>7, <1>8, <1>9, <1>10, <1>11,
              <1>12 DEF Next
-----------------------------------------------------------------------------
\* UdpInv is an invariant of the endpoint, however often it is closed and
\* opened again.
THEOREM Invariance == Spec => []UdpInv
  <1>1. Init => UdpInv
    <2>1. Init => SendInv
      BY SendInvInit DEF Init
    <2>2. Init => UdpTypeOK
      <3>1. 0 \in Nat /\ 0 \in 0 .. MaxSockets /\ 0 \in 0 .. MaxCloses
        BY UdpEndpointAssumption
      <3>. QED BY <3>1 DEF Init, UdpTypeOK
    <2>. QED BY <2>1, <2>2 DEF UdpInv
  <1>2. UdpInv /\ [Next]_vars => UdpInv'
    <2>. SUFFICES ASSUME UdpInv, [Next]_vars PROVE UdpInv'
      OBVIOUS
    <2>1. SendTypeOK /\ UdpTypeOK
      BY DEF UdpInv, SendInv
    <2>2. SendInv'
      BY <2>1, StepIsSendStep, SendStepInv DEF UdpInv
    <2>3. UdpTypeOK'
      <3>1. CASE Next
        BY <2>1, <3>1, UdpTypeInv
      <3>2. CASE UNCHANGED vars
        BY <2>1, <3>2, UdpKept DEF vars, sendVars
      <3>. QED BY <3>1, <3>2
    <2>. QED BY <2>2, <2>3 DEF UdpInv
  <1>. QED BY <1>1, <1>2, PTL DEF Spec

\* Every variable keeps its type, and no receive is left outstanding on a socket
\* that close() has closed.
THEOREM TypeCorrect == Spec => []TypeOK
  <1>1. UdpInv => TypeOK
    BY DEF UdpInv, UdpTypeOK, SendInv, TypeOK
  <1>. QED BY <1>1, Invariance, PTL

\* Each pre-allocated item has one owner: send() and send_to() on any threads,
\* failed datagrams and reopened sockets neither lose one nor share one.
THEOREM ItemsOwned == Spec => []BufferOwnership
  <1>1. UdpInv => BufferOwnership
    BY DEF UdpInv, SendInv
  <1>. QED BY <1>1, Invariance, PTL

\* There is one async_send_to at a time, for the front of send_queue_.
THEOREM WritesExclusive == Spec => []OneWrite
  <1>1. UdpInv => OneWrite
    BY DEF UdpInv, SendInv
  <1>. QED BY <1>1, Invariance, PTL

\* However often the socket is reopened, datagrams leave in the order of the calls,
\* each at most once.
\* The induction is over where messages are, not only over the wire: what the
\* kernel has taken precedes the rest of the queue, and that the strand.
THEOREM NothingResent == Spec => []NeverResent
  <1>1. Init => InOrder
    BY OrderInit DEF Init
  <1>2. UdpInv /\ InOrder /\ [Next]_vars => InOrder'
    BY StepIsSendStep, SendStepOrder DEF UdpInv, SendInv
  <1>3. InOrder => NeverResent
    BY DEF InOrder, WireOrder, NeverResent
  <1>. QED BY <1>1, <1>2, <1>3, Invariance, PTL DEF Spec
-----------------------------------------------------------------------------
(***************************************************************************)
(* The first socket of an endpoint.                                        *)
(***************************************************************************)

\* start_receive() is called once for each socket, and a receive loop ends or
\* goes on by itself: there are never more of them than there were sockets.
ReceiversBounded == Receivers + If(open /\ ~listening) <= sockets

\* Nothing but close() and an empty datagram ends the loop of a socket.
StillReceives == open /\ listening /\ ~emptied => Receivers >= 1

\* An endpoint that was never opened has nothing to write.
Unopened == sockets = 0 => ~open /\ Untouched

FirstInv ==
    /\ ReceiversBounded
    /\ StillReceives
    /\ Unopened
    /\ sockets <= 1 => NoStall

LEMMA ReceiversCount ==
    ASSUME UdpInv
    PROVE  /\ Receivers = reading + Queued("read") + If(processing)
           /\ reading \in Nat /\ Queued("read") \in Nat /\ sockets \in Nat
           /\ open \in BOOLEAN /\ listening \in BOOLEAN /\ emptied \in BOOLEAN
           /\ processing \in BOOLEAN
  <1>1. Queued("read") \in Nat
    BY FinitelyMany DEF UdpInv, SendInv, SendTypeOK, Queued
  <1>2. Cardinality(Reads) = Queued("read")
    BY DEF Reads, Queued, KindsIn
  <1>. QED BY <1>1, <1>2 DEF Receivers, UdpInv, UdpTypeOK, SendInv, SendTypeOK

\* Where the receive loop is after a step: it may have moved on.
LEMMA ReceiversInv ==
    ASSUME UdpInv, ReceiversBounded, StillReceives, Next
    PROVE  ReceiversBounded' /\ StillReceives'
  <1>. USE DEF If
  <1>1. PICK q : q = Queued("read")
    OBVIOUS
  <1>2. /\ reading \in Nat /\ q \in Nat /\ sockets \in Nat
        /\ open \in BOOLEAN /\ listening \in BOOLEAN /\ emptied \in BOOLEAN
        /\ processing \in BOOLEAN
        /\ SendInv /\ SendTypeOK
    BY <1>1, ReceiversCount DEF UdpInv, SendInv
  <1>3. /\ reading + q + If(processing) + If(open /\ ~listening) <= sockets
        /\ open /\ listening /\ ~emptied => reading + q + If(processing) >= 1
    BY <1>1, ReceiversCount DEF ReceiversBounded, StillReceives
  <1>4. ASSUME /\ reading' + Queued("read")' + If(processing') + If(open' /\ ~listening') <= sockets'
               /\ open' /\ listening' /\ ~emptied' =>
                    reading' + Queued("read")' + If(processing') >= 1
        PROVE  ReceiversBounded' /\ StillReceives'
    <2>1. Receivers' = reading' + Queued("read")' + If(processing')
      BY DEF Receivers, Reads, Queued, KindsIn
    <2>. QED BY <1>4, <2>1 DEF ReceiversBounded, StillReceives
  <1>5. ASSUME UNCHANGED <<reading, processing, sockets, listening, emptied, open>>,
               Queued("read")' = q
        PROVE  ReceiversBounded' /\ StillReceives'
    BY <1>2, <1>3, <1>4, <1>5
  <1>6. ASSUME UNCHANGED strand PROVE Queued("read")' = q
    BY <1>1, <1>6 DEF Queued
  <1>7. ASSUME PipelineStep PROVE Queued("read")' = q
    BY <1>1, <1>2, <1>7, QueuedKept
  <1>8. ASSUME strand # <<>>, strand' = Tail(strand), Head(strand).kind # "read"
        PROVE  Queued("read")' = q
    BY <1>1, <1>2, <1>8, QueuedShrinks
  <1>9. ASSUME strand # <<>>, strand' = Tail(strand), Head(strand).kind = "read"
        PROVE  Queued("read")' = q - 1
    BY <1>1, <1>2, <1>9, QueuedShrinks
  <1>10. CASE Bind \/ Connect \/ JoinMulticast
    <2>1. /\ UNCHANGED <<strand, reading, processing, emptied>>
          /\ \/ UNCHANGED <<open, sockets, listening>>
             \/ ~open /\ sockets' = sockets + 1 /\ open' = TRUE /\ listening' = FALSE
      BY <1>10 DEF Bind, Connect, JoinMulticast, OpenSocket
    <2>2. Queued("read")' = q
      BY <1>6, <2>1
    <2>. QED BY <1>2, <1>3, <1>4, <2>1, <2>2
  <1>11. CASE ConnectFlag
    BY <1>5, <1>6, <1>11 DEF ConnectFlag, sendVars
  <1>12. CASE StartReceive
    <2>1. /\ UNCHANGED <<strand, open, processing, emptied, sockets>>
          /\ open /\ ~listening /\ listening' = TRUE /\ reading' = reading + 1
      BY <1>12 DEF StartReceive, Receive, sendVars
    <2>2. Queued("read")' = q
      BY <1>6, <2>1
    <2>. QED BY <1>2, <1>3, <1>4, <2>1, <2>2
  <1>13. CASE AppClose
    <2>1. PICK h : h = Handler("close", None, TRUE)
      OBVIOUS
    <2>2. h \in Handlers /\ h.kind # "read"
      BY <2>1 DEF Handler, Handlers, HandlerKinds
    <2>3. strand' = Append(strand, h)
      BY <1>13, <2>1 DEF AppClose
    <2>4. Queued("read")' = q
      BY <1>1, <1>2, <2>2, <2>3, QueuedGrows
    <2>. QED BY <1>5, <1>13, <2>4 DEF AppClose
  <1>14. ASSUME CloseEffect, open' = FALSE, UNCHANGED <<processing, sockets, listening, emptied>>,
                Queued("read")' = q
         PROVE  ReceiversBounded' /\ StillReceives'
    <2>1. reading' = 0
      BY <1>14 DEF CloseEffect
    <2>. QED BY <1>2, <1>3, <1>4, <1>14, <2>1
  <1>15. CASE CloseHandler
    <2>1. Queued("read")' = q
      BY <1>8, <1>15 DEF CloseHandler, Next1st
    <2>. QED BY <1>14, <1>15, <2>1 DEF CloseHandler
  <1>16. CASE CallbackCloses
    BY <1>6, <1>14, <1>16 DEF CallbackCloses
  <1>17. CASE \/ \E t \in Senders : Send(t) \/ SendTo(t)
              \/ \E t \in Threads : Pop(t) \/ Post(t)
              \/ RunPush \/ CallbackSends
    <2>1. UNCHANGED <<udpVars, open>>
      BY <1>17 DEF Send, SendTo, SendCheck, Pop, SendPop, Post, SendPost, RunPush,
                   PushHandler, CallbackSends
    <2>2. PipelineStep
      <3>1. open \in BOOLEAN /\ (is_connected /\ open) \in BOOLEAN
        BY <1>2
      <3>2. CASE \E t \in Senders : Send(t) \/ SendTo(t)
        BY <3>1, <3>2 DEF Send, SendTo, PipelineStep, Threads
      <3>3. CASE \E t \in Threads : Pop(t) \/ Post(t)
        BY <3>3 DEF Pop, Post, PipelineStep
      <3>4. CASE RunPush \/ CallbackSends
        BY <3>1, <3>4 DEF RunPush, CallbackSends, PipelineStep, Threads
      <3>. QED BY <1>17, <3>2, <3>3, <3>4
    <2>3. Queued("read")' = q
      BY <1>7, <2>2
    <2>. QED BY <1>5, <2>1, <2>3 DEF udpVars
  <1>18. CASE RunWritten
    <2>1. WrittenHandler(open)
      BY <1>18 DEF RunWritten
    <2>2. PipelineStep
      BY <1>2, <2>1 DEF PipelineStep
    <2>3. Queued("read")' = q
      BY <1>7, <2>2
    <2>4. CASE WriteSucceeded
      <3>1. open' = open
        BY <1>2, <2>1, <2>4 DEF WrittenHandler
      <3>. QED BY <1>5, <1>18, <2>3, <2>4, <3>1 DEF RunWritten, udpVars
    <2>5. CASE ~WriteSucceeded
      <3>1. open' = FALSE
        BY <2>1, <2>5 DEF WrittenHandler
      <3>. QED BY <1>14, <1>18, <2>3, <2>5, <3>1 DEF RunWritten
    <2>. QED BY <2>4, <2>5
  <1>19. CASE KernelWrite
    <2>1. WriteOk \/ WriteFail
      BY <1>19 DEF KernelWrite
    <2>2. Queued("read")' = q
      BY <1>7, <2>1 DEF PipelineStep
    <2>. QED BY <1>5, <1>19, <2>1, <2>2 DEF KernelWrite, WriteOk, WriteFail
  <1>20. CASE KernelReceive
    <2>1. PICK h \in Handlers : h.kind = "read" /\ strand' = Append(strand, h)
      <3>1. PICK y, n : y = Handler("read", None, TRUE) /\ n = Handler("read", None, FALSE)
        OBVIOUS
      <3>2. y \in Handlers /\ y.kind = "read" /\ n \in Handlers /\ n.kind = "read"
        BY <3>1 DEF Handler, Handlers, HandlerKinds
      <3>3. strand' = Append(strand, y) \/ strand' = Append(strand, n)
        BY <1>20, <3>1 DEF KernelReceive
      <3>. QED BY <3>2, <3>3
    <2>2. Queued("read")' = q + 1
      BY <1>1, <1>2, <2>1, QueuedGrows
    <2>3. /\ reading > 0 /\ reading' = reading - 1
          /\ UNCHANGED <<open, processing, sockets, listening, emptied>>
      BY <1>20 DEF KernelReceive
    <2>. QED BY <1>2, <1>3, <1>4, <2>2, <2>3
  <1>21. CASE EmptyDatagram
    <2>1. /\ reading > 0 /\ reading' = reading - 1 /\ emptied' = TRUE
          /\ UNCHANGED <<strand, open, processing, sockets, listening>>
      BY <1>21 DEF EmptyDatagram, sendVars
    <2>2. Queued("read")' = q
      BY <1>6, <2>1
    <2>. QED BY <1>2, <1>3, <1>4, <2>1, <2>2
  <1>22. CASE ReceiveHandler
    <2>1. /\ ~processing /\ processing' = TRUE
          /\ UNCHANGED <<reading, open, sockets, listening, emptied>>
      BY <1>22 DEF ReceiveHandler
    <2>2. Queued("read")' = q - 1
      BY <1>9, <1>22 DEF ReceiveHandler, Next1st
    <2>. QED BY <1>2, <1>3, <1>4, <2>1, <2>2
  <1>23. CASE RetryHandler
    <2>1. /\ reading' = IF open THEN reading + 1 ELSE reading
          /\ UNCHANGED <<processing, open, sockets, listening, emptied>>
      BY <1>23 DEF RetryHandler, Receive
    <2>2. Queued("read")' = q - 1
      BY <1>9, <1>23 DEF RetryHandler, Next1st
    <2>. QED BY <1>2, <1>3, <1>4, <2>1, <2>2
  <1>24. CASE ReceiveAgain
    <2>1. /\ reading' = IF open THEN reading + 1 ELSE reading
          /\ processing /\ processing' = FALSE
          /\ UNCHANGED <<strand, open, sockets, listening, emptied>>
      BY <1>24 DEF ReceiveAgain, Receive, sendVars
    <2>2. Queued("read")' = q
      BY <1>6, <2>1
    <2>. QED BY <1>2, <1>3, <1>4, <2>1, <2>2
  <1>. QED BY <1>10, <1>11, <1>12, <1>13, <1>15, <1>16, <1>17, <1>18, <1>19, <1>20,
              <1>21, <1>22, <1>23, <1>24 DEF Next

\* On a closed socket send() returns at its test.
LEMMA NoSendWhenClosed ==
    ASSUME SendTypeOK, UdpTypeOK, [Next]_vars, ~open,
           \A t \in Threads : pc[t] = "idle"
    PROVE  \A t \in Threads : pc'[t] # "popping"
  <1>1. CASE pc' = pc
    BY <1>1
  <1>2. ASSUME NEW t \in Threads, SendCheck(t, FALSE)
        PROVE  \A u \in Threads : pc'[u] # "popping"
    BY <1>2 DEF SendCheck, SendTypeOK
  <1>3. CASE \E t \in Senders : Send(t) \/ SendTo(t)
    <2>1. PICK t \in Senders : SendCheck(t, is_connected /\ open) \/ SendCheck(t, open)
      BY <1>3 DEF Send, SendTo
    <2>2. open = FALSE /\ (is_connected /\ open) = FALSE
      BY DEF SendTypeOK, UdpTypeOK
    <2>. QED BY <1>2, <2>1, <2>2 DEF Threads
  <1>4. CASE \E t \in Threads : Pop(t) \/ Post(t)
    BY <1>4 DEF Pop, SendPop, Post, SendPost
  <1>5. CASE CallbackSends
    <2>1. SendCheck(OnRecv, open) /\ open = FALSE /\ OnRecv \in Threads
      BY <1>5 DEF CallbackSends, SendTypeOK, Threads
    <2>. QED BY <1>2, <2>1
  <1>6. CASE RunPush \/ RunWritten \/ KernelWrite
    BY <1>1, <1>6 DEF RunPush, PushHandler, RunWritten, WrittenHandler, KernelWrite, WriteOk,
                      WriteFail
  <1>7. CASE Bind \/ Connect \/ JoinMulticast \/ AppClose \/ CloseHandler \/ KernelReceive
             \/ ReceiveHandler \/ CallbackCloses \/ RetryHandler
    BY <1>1, <1>7 DEF Bind, Connect, JoinMulticast, AppClose, CloseHandler, KernelReceive,
                      ReceiveHandler, CallbackCloses, RetryHandler, sendRest
  <1>8. CASE ConnectFlag \/ StartReceive \/ EmptyDatagram \/ ReceiveAgain \/ UNCHANGED vars
    BY <1>1, <1>8 DEF ConnectFlag, StartReceive, EmptyDatagram, ReceiveAgain, vars, sendVars
  <1>. QED BY <1>3, <1>4, <1>5, <1>6, <1>7, <1>8 DEF Next

\* A socket is opened by OpenSocket only.
LEMMA OpensCounted ==
    ASSUME SendTypeOK, UdpTypeOK, [Next]_vars
    PROVE  /\ sockets' \in {sockets, sockets + 1}
           /\ sockets' = sockets => (open' => open)
  <1>0. sockets \in Nat /\ open \in BOOLEAN
    BY DEF SendTypeOK, UdpTypeOK
  <1>a. ASSUME sockets' = sockets, open' = open \/ open' = FALSE
        PROVE  /\ sockets' \in {sockets, sockets + 1}
               /\ sockets' = sockets => (open' => open)
    BY <1>a
  <1>1. CASE Bind \/ Connect \/ JoinMulticast
    <2>1. \/ UNCHANGED <<open, sockets>>
          \/ sockets' = sockets + 1
      BY <1>1 DEF Bind, Connect, JoinMulticast, OpenSocket
    <2>2. CASE sockets' = sockets + 1
      BY <1>0, <2>2
    <2>. QED BY <1>a, <2>1, <2>2
  <1>2. CASE ConnectFlag \/ StartReceive \/ EmptyDatagram \/ ReceiveAgain \/ UNCHANGED vars
    BY <1>a, <1>2 DEF ConnectFlag, StartReceive, EmptyDatagram, ReceiveAgain, vars, sendVars,
                      udpVars
  <1>3. CASE AppClose \/ CloseHandler \/ KernelReceive \/ ReceiveHandler \/ CallbackCloses
             \/ RetryHandler
    BY <1>a, <1>3 DEF AppClose, CloseHandler, KernelReceive, ReceiveHandler, CallbackCloses,
                      RetryHandler
  <1>4. CASE \/ \E t \in Senders : Send(t) \/ SendTo(t)
             \/ \E t \in Threads : Pop(t) \/ Post(t)
             \/ RunPush \/ CallbackSends
    <2>1. UNCHANGED <<open, sockets>>
      BY <1>4 DEF Send, SendTo, SendCheck, Pop, SendPop, Post, SendPost, RunPush,
                  PushHandler, CallbackSends, udpVars
    <2>. QED BY <1>a, <2>1
  <1>5. CASE RunWritten
    <2>1. sockets' = sockets /\ open' = (open /\ WriteSucceeded)
      BY <1>5 DEF RunWritten, WrittenHandler, udpVars
    <2>. QED BY <2>1
  <1>6. CASE KernelWrite
    <2>1. UNCHANGED <<open, sockets>>
      BY <1>6 DEF KernelWrite, WriteOk, WriteFail
    <2>. QED BY <1>a, <2>1
  <1>. QED BY <1>1, <1>2, <1>3, <1>4, <1>5, <1>6 DEF Next

LEMMA FirstSocketInv ==
    ASSUME UdpInv, FirstInv, [Next]_vars
    PROVE  FirstInv'
  <1>. USE DEF FirstInv
  <1>1. SendInv /\ SendTypeOK /\ UdpTypeOK /\ sockets \in Nat
    BY DEF UdpInv, SendInv, UdpTypeOK
  <1>2. [SendStep]_sendVars
    BY <1>1, StepIsSendStep
  <1>3. /\ sockets' \in {sockets, sockets + 1}
        /\ sockets' = sockets => (open' => open)
    BY <1>1, OpensCounted
  <1>4. ReceiversBounded' /\ StillReceives'
    <2>1. CASE Next
      BY <2>1, ReceiversInv
    <2>2. CASE UNCHANGED vars
      BY <2>2 DEF ReceiversBounded, StillReceives, Receivers, Reads, vars, udpVars, sendVars
    <2>. QED BY <2>1, <2>2
  <1>5. ASSUME sockets = 0 PROVE Untouched'
    <2>1. ~open /\ Untouched
      BY <1>5 DEF Unopened
    <2>2. \A t \in Threads : pc'[t] # "popping"
      BY <1>1, <2>1, NoSendWhenClosed DEF Untouched
    <2>. QED BY <1>1, <1>2, <2>1, <2>2, StaysUntouched
  <1>6. Unopened'
    <2>. SUFFICES ASSUME sockets' = 0 PROVE ~open' /\ Untouched'
      BY DEF Unopened
    <2>1. sockets = 0
      BY <1>1, <1>3
    <2>. QED BY <1>3, <1>5, <2>1 DEF Unopened
  <1>7. ASSUME sockets' <= 1 PROVE NoStall'
    <2>1. CASE sockets' = sockets
      BY <1>1, <1>2, <1>3, <1>7, <2>1, SendStepInv
    <2>2. CASE sockets' = sockets + 1
      <3>1. sockets = 0
        BY <1>1, <1>7, <2>2
      <3>. QED BY <1>5, <3>1 DEF Untouched, NoStall
    <2>. QED BY <1>3, <2>1, <2>2
  <1>. QED BY <1>4, <1>6, <1>7

\* As long as its first socket is open, an endpoint that start_receive() set
\* going receives, with one receive at a time into recv_buffer_, and has a send
\* outstanding if anything is queued.
THEOREM FirstSocketServes == Spec => []FirstSocket
  <1>1. Init => FirstInv
    <2>. SUFFICES ASSUME Init PROVE FirstInv
      OBVIOUS
    <2>1. Reads = {} /\ Pushes = {} /\ send_queue = <<>> /\ ~open
          /\ reading = 0 /\ ~processing /\ sockets = 0
          /\ \A t \in Threads : pc[t] = "idle"
      BY DEF Init, SendInit, Reads, Pushes
    <2>2. Receivers = 0
      BY <2>1, FS_EmptySet DEF Receivers, If
    <2>. QED BY <2>1, <2>2 DEF FirstInv, ReceiversBounded, StillReceives, Unopened, Untouched,
                NoStall, If
  <1>2. UdpInv /\ FirstInv /\ [Next]_vars => FirstInv'
    BY FirstSocketInv
  <1>3. UdpInv /\ FirstInv => FirstSocket
    <2>. SUFFICES ASSUME UdpInv, FirstInv, sockets <= 1
                  PROVE  /\ Receivers <= 1
                         /\ open /\ listening /\ ~emptied => Receivers = 1
                         /\ NoStall
      BY DEF FirstSocket
    <2>1. Receivers \in Nat /\ sockets \in Nat /\ If(open /\ ~listening) \in Nat
      BY ReceiversCount DEF If
    <2>2. Receivers <= 1
      BY <2>1 DEF FirstInv, ReceiversBounded
    <2>. QED BY <2>1, <2>2 DEF FirstInv, StillReceives
  <1>. QED BY <1>1, <1>2, <1>3, Invariance, PTL DEF Spec
=============================================================================
