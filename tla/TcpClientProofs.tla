--------------------------- MODULE TcpClientProofs ---------------------------
(***************************************************************************)
(* The invariants of TcpClient, for any number of threads, buffers, sends, *)
(* frames and connections and every fault.                                 *)
(***************************************************************************)
EXTENDS TcpClient, SendPathProofs

\* The state of this module, without the send pipeline's.
ClientTypeOK ==
    /\ is_connected \in BOOLEAN
    /\ kernel \in {"down", "connecting", "up"}
    /\ reading \in Nat
    /\ aborted \in [{"read", "connect"} -> Nat]
    /\ stale \in BOOLEAN
    /\ timer \in BOOLEAN
    /\ processing \in BOOLEAN
    /\ callbacks \in 0 .. MaxFrames + 1
    /\ malformed \in BOOLEAN
    /\ connects \in 0 .. MaxConnects
    /\ answered \in Nat
    /\ closes \in 0 .. MaxCloses
    /\ owned \in BOOLEAN
    /\ alive \in BOOLEAN
    /\ freed \subseteq Buffers

\* The system has nothing behind a closed socket.
ClosedIsDown == ~open => kernel = "down"

\* A connection that was reported and not closed since is up.
ReportedIsUp == \A i \in Connects : strand[i].ok /\ open => kernel = "up"

\* A connected client has a read outstanding, aborted, completed or in hand.
Receiving ==
    is_connected =>
        processing \/ reading > 0 \/ aborted.read > 0 \/ Reads # {}

\* The application gives up the client with no call of send() running.
DroppedIsIdle == ~owned => \A t \in Senders : pc[t] = "idle"

ClientInv ==
    /\ SendInv
    /\ ClientTypeOK
    /\ ClosedIsDown
    /\ ReportedIsUp
    /\ ConnectedIsOpen
    /\ Receiving
    /\ DroppedIsIdle
    /\ DestructorFreesAll
-----------------------------------------------------------------------------
\* To the send pipeline every step of the client is a SendStep.
LEMMA StepIsSendStep ==
    ASSUME SendTypeOK, [Next]_vars
    PROVE  [SendStep]_sendVars
  <1>. USE DEF SendTypeOK, EndpointStep, Foreign, Handler, Handlers, HandlerKinds
  <1>1. CASE UNCHANGED vars \/ AppDrop
    BY <1>1 DEF vars, AppDrop
  <1>2. CASE Connect
    <2>1. EndpointStep
      BY <1>2 DEF Connect
    <2>. QED BY <2>1 DEF SendStep
  <1>3. CASE AppClose
    <2>1. EndpointStep
      BY <1>3 DEF AppClose
    <2>. QED BY <2>1 DEF SendStep
  <1>4. CASE \E t \in Senders : Send(t)
    BY <1>4 DEF Send, Usable, SendStep, Threads
  <1>5. CASE \E t \in Threads : Pop(t) \/ Post(t)
    BY <1>5 DEF Pop, Post, SendStep
  <1>6. CASE RunPush \/ RunWritten \/ KernelWrite
    BY <1>6 DEF RunPush, RunWritten, KernelWrite, Ready, SendStep
  <1>7. CASE CloseHandler
    <2>1. EndpointStep
      BY <1>7 DEF CloseHandler, Next1st
    <2>. QED BY <2>1 DEF SendStep
  <1>8. CASE TimerHandler
    <2>1. EndpointStep
      BY <1>8 DEF TimerHandler, Next1st
    <2>. QED BY <2>1 DEF SendStep
  <1>9. CASE ReadHandler
    <2>1. EndpointStep
      BY <1>9 DEF ReadHandler, Next1st
    <2>. QED BY <2>1 DEF SendStep
  <1>10. CASE ConnectHandler
    <2>1. EndpointStep
      BY <1>10 DEF ConnectHandler, Next1st
    <2>. QED BY <2>1 DEF SendStep
  <1>11. CASE Callback
    <2>1. \/ UNCHANGED sendVars
          \/ open' = FALSE /\ strand' = strand /\ UNCHANGED sendRest
          \/ SendCheck(OnRecv, Usable)
      BY <1>11 DEF Callback
    <2>2. CASE open' = FALSE /\ strand' = strand /\ UNCHANGED sendRest
      <3>1. EndpointStep
        BY <2>2
      <3>. QED BY <3>1 DEF SendStep
    <2>3. CASE SendCheck(OnRecv, Usable)
      BY <2>3 DEF SendStep, Threads, Usable
    <2>. QED BY <2>1, <2>2, <2>3
  <1>12. CASE EndProcess
    <2>1. EndpointStep
      BY <1>12 DEF EndProcess, StartReceive
    <2>. QED BY <2>1 DEF SendStep
  <1>13. CASE KernelConnect \/ KernelRead \/ KernelAbort \/ TimerExpires
    <2>1. PICK kind \in {"connect", "read", "timer"}, ok \in BOOLEAN : Completes(kind, ok)
      BY <1>13 DEF KernelConnect, KernelRead, KernelAbort, TimerExpires
    <2>2. EndpointStep
      BY <2>1 DEF Completes
    <2>. QED BY <2>2 DEF SendStep
  <1>14. CASE Destroy
    <2>1. EndpointStep
      BY <1>14 DEF Destroy
    <2>. QED BY <2>1 DEF SendStep
  <1>. QED BY <1>1, <1>2, <1>3, <1>4, <1>5, <1>6, <1>7, <1>8, <1>9, <1>10,
              <1>11, <1>12, <1>13, <1>14 DEF Next, RunStrand, Kernel
-----------------------------------------------------------------------------
(***************************************************************************)
(* Types.                                                                  *)
(***************************************************************************)

\* Closing the socket keeps the types.
LEMMA CloseTypes ==
    ASSUME ClientInv, CloseEffect
    PROVE  /\ is_connected' \in BOOLEAN
           /\ kernel' \in {"down", "connecting", "up"}
           /\ reading' \in Nat
           /\ aborted' \in [{"read", "connect"} -> Nat]
           /\ stale' \in BOOLEAN
           /\ timer' \in BOOLEAN
  <1>. USE DEF ClientInv, ClientTypeOK, CloseEffect
  <1>1. \A c : If(c) \in Nat
    BY DEF If
  <1>2. aborted.read \in Nat /\ aborted.connect \in Nat
    OBVIOUS
  <1>3. reading' \in Nat /\ aborted' \in [{"read", "connect"} -> Nat]
    <2>1. aborted' = [read |-> aborted.read + reading,
                      connect |-> aborted.connect + If(kernel = "connecting")]
      BY DEF Abandon
    <2>2. aborted.read + reading \in Nat
      BY <1>2
    <2>3. aborted.connect + If(kernel = "connecting") \in Nat
      BY <1>1, <1>2
    <2>. QED BY <2>1, <2>2, <2>3 DEF Abandon
  <1>4. stale' \in BOOLEAN
    BY DEF Abandon
  <1>. QED BY <1>3, <1>4

\* No caller of send() and no handler holds a buffer when the destructor runs.
LEMMA DestroyFreesAll ==
    ASSUME ClientInv, Destroy
    PROVE  freed' = Buffers
  <1>. USE DEF ClientInv, SendInv
  <1>1. freed' = pool \cup {send_queue[i] : i \in DOMAIN send_queue}
    BY DEF Destroy, Deleted
  <1>2. \A t \in Threads : held[t] = None
    BY DEF Destroy, Unreferenced, Holding, DroppedIsIdle, Threads
  <1>3. Pushes = {}
    BY DEF Destroy, Unreferenced, Pushes
  <1>4. send_queue \in [1 .. Len(send_queue) -> Buffers]
    BY LenProperties DEF SendTypeOK
  <1>5. freed' \subseteq Buffers
    BY <1>1, <1>4 DEF SendTypeOK
  <1>6. \A b \in Buffers : b \in freed'
    BY <1>1, <1>2, <1>3, SendPathAssumption DEF BufferOwnership, NoBufferLost
  <1>. QED BY <1>5, <1>6
-----------------------------------------------------------------------------
(***************************************************************************)
(* The connection and its receive loop.                                    *)
(***************************************************************************)

\* Every connect handler on the strand was there before.
NoNewReport == \A i \in Connects' : \E j \in Connects : strand'[i] = strand[j]

\* A read completion on the strand stays there.
ReadsStay == Reads # {} => Reads' # {}

LEMMA Appended ==
    ASSUME SendTypeOK, NEW kind \in HandlerKinds, NEW b \in Buffers \cup {None},
           NEW ok \in BOOLEAN, strand' = Append(strand, Handler(kind, b, ok))
    PROVE  /\ ReadsStay
           /\ kind = "read" => Reads' # {}
           /\ kind # "connect" => NoNewReport
           /\ \A i \in Connects' :
                strand'[i].ok /\ ~ok => \E j \in Connects : strand'[i] = strand[j]
  <1>1. /\ Handler(kind, b, ok) \in Handlers
        /\ Handler(kind, b, ok).kind = kind
        /\ Handler(kind, b, ok).ok = ok
    BY DEF Handler, Handlers
  <1>2. /\ Len(strand) \in Nat
        /\ DOMAIN strand = 1 .. Len(strand)
        /\ DOMAIN strand' = 1 .. Len(strand) + 1
        /\ \A i \in 1 .. Len(strand) : strand'[i] = strand[i]
        /\ strand'[Len(strand) + 1] = Handler(kind, b, ok)
    BY <1>1, LongerStrand DEF SendTypeOK
  <1>3. \A i \in DOMAIN strand : i \in DOMAIN strand' /\ strand'[i] = strand[i]
    BY <1>2
  <1>4. \A i \in DOMAIN strand' :
          i \in DOMAIN strand \/ (i = Len(strand) + 1 /\ strand'[i] = Handler(kind, b, ok))
    BY <1>2
  <1>5. ReadsStay
    BY <1>3 DEF ReadsStay, Reads
  <1>6. kind = "read" => Reads' # {}
    <2>1. Len(strand) + 1 \in DOMAIN strand'
      BY <1>2
    <2>. QED BY <2>1, <1>1, <1>2 DEF Reads
  <1>7. kind # "connect" => NoNewReport
    BY <1>1, <1>3, <1>4 DEF NoNewReport, Connects
  <1>8. \A i \in Connects' :
          strand'[i].ok /\ ~ok => \E j \in Connects : strand'[i] = strand[j]
    BY <1>1, <1>3, <1>4 DEF Connects
  <1>. QED BY <1>5, <1>6, <1>7, <1>8

LEMMA Shifted ==
    ASSUME SendTypeOK, strand # <<>>, NEW h \in Handlers, h.kind # "connect",
           strand' \in {Tail(strand), Append(Tail(strand), h)}
    PROVE  NoNewReport /\ (Head(strand).kind # "read" => ReadsStay)
  <1>1. /\ Len(strand) \in Nat \ {0}
        /\ DOMAIN strand = 1 .. Len(strand)
        /\ Head(strand) = strand[1]
    BY RestOfStrand DEF SendTypeOK
  <1>2. /\ \A i \in 1 .. Len(strand) - 1 :
             i \in DOMAIN strand' /\ strand'[i] = strand[i + 1]
        /\ \A i \in DOMAIN strand' :
             i \in 1 .. Len(strand) - 1 \/ (i = Len(strand) /\ strand'[i] = h)
    <2>1. strand \in Seq(Handlers)
      BY DEF SendTypeOK
    <2>. QED BY <2>1, StrandAfter
  <1>3. \A i \in 1 .. Len(strand) - 1 : i + 1 \in DOMAIN strand
    BY <1>1
  <1>4. NoNewReport
    BY <1>2, <1>3 DEF NoNewReport, Connects
  <1>5. \A i \in 2 .. Len(strand) :
          i - 1 \in DOMAIN strand' /\ strand'[i - 1] = strand[i]
    BY <1>1, <1>2
  <1>6. ASSUME Head(strand).kind # "read", NEW i \in Reads PROVE Reads' # {}
    <2>1. i \in 2 .. Len(strand)
      BY <1>1, <1>6 DEF Reads
    <2>. QED BY <2>1, <1>5 DEF Reads
  <1>. QED BY <1>4, <1>6 DEF ReadsStay

\* Steps that leave the socket alone.
LEMMA SocketKept ==
    ASSUME ClientInv, UNCHANGED <<open, kernel>>, NoNewReport
    PROVE  ClosedIsDown' /\ ReportedIsUp'
  <1>1. ASSUME NEW i \in Connects' PROVE strand'[i].ok /\ open' => kernel' = "up"
    <2>1. PICK j \in Connects : strand'[i] = strand[j]
      BY <1>1 DEF NoNewReport
    <2>2. strand[j].ok /\ open => kernel = "up"
      BY <2>1 DEF ClientInv, ReportedIsUp
    <2>. QED BY <2>1, <2>2
  <1>. QED BY <1>1 DEF ClientInv, ReportedIsUp, ClosedIsDown

\* Steps that leave the flag alone as well.
LEMMA ConnectionKept ==
    ASSUME ClientInv, UNCHANGED <<open, kernel, is_connected>>, NoNewReport
    PROVE  ClosedIsDown' /\ ReportedIsUp' /\ ConnectedIsOpen'
  BY SocketKept DEF ClientInv, ConnectedIsOpen

\* Steps that close the socket.
LEMMA ConnectionClosed ==
    ASSUME open' = FALSE, kernel' = "down", is_connected' = FALSE
    PROVE  ClosedIsDown' /\ ReportedIsUp' /\ ConnectedIsOpen' /\ Receiving'
  BY DEF ClosedIsDown, ReportedIsUp, ConnectedIsOpen, Receiving

\* Steps that leave the receive loop alone.
LEMMA LoopKept ==
    ASSUME ClientInv, UNCHANGED <<is_connected, processing, reading, aborted>>,
           ReadsStay
    PROVE  Receiving'
  BY DEF ClientInv, Receiving, ReadsStay

\* No report of a connection is on the strand when connect() is called.
LEMMA NoneReported ==
    ASSUME ClientInv, Attempts = 0
    PROVE  Connects = {}
  <1>1. Len(strand) \in Nat /\ DOMAIN strand = 1 .. Len(strand)
    BY LenProperties DEF ClientInv, SendInv, SendTypeOK
  <1>2. IsFiniteSet(Connects)
    <2>1. IsFiniteSet(1 .. Len(strand))
      BY <1>1, FS_Interval
    <2>2. Connects \subseteq 1 .. Len(strand)
      BY <1>1 DEF Connects
    <2>. QED BY <2>1, <2>2, FS_Subset
  <1>3. Cardinality(Connects) \in Nat
    BY <1>2, FS_CardinalityType
  <1>4. aborted.connect \in Nat /\ If(kernel = "connecting") \in Nat
    BY DEF ClientInv, ClientTypeOK, If
  <1>5. Cardinality(Connects) = 0
    BY <1>3, <1>4 DEF Attempts
  <1>. QED BY <1>2, <1>5, FS_EmptySet

LEMMA ConnectionInv ==
    ASSUME ClientInv, Next
    PROVE  ClosedIsDown' /\ ReportedIsUp' /\ ConnectedIsOpen' /\ Receiving'
  <1>0. SendTypeOK /\ ClientTypeOK
    BY DEF ClientInv, SendInv
  <1>a. \A kind \in HandlerKinds, ok \in BOOLEAN :
          /\ Handler(kind, None, ok) \in Handlers
          /\ Handler(kind, None, ok).kind = kind
    BY DEF Handler, Handlers
  <1>b. ASSUME CloseEffect, open' = FALSE
        PROVE  ClosedIsDown' /\ ReportedIsUp' /\ ConnectedIsOpen' /\ Receiving'
    BY <1>b, ConnectionClosed DEF CloseEffect
  <1>c. ASSUME UNCHANGED <<strand, open, is_connected, kernel, processing, reading, aborted>>
        PROVE  ClosedIsDown' /\ ReportedIsUp' /\ ConnectedIsOpen' /\ Receiving'
    <2>1. NoNewReport /\ ReadsStay
      BY <1>c DEF NoNewReport, ReadsStay, Connects, Reads
    <2>. QED BY <1>c, <2>1, ConnectionKept, LoopKept
  <1>d. ASSUME UNCHANGED <<open, is_connected, kernel, processing, reading, aborted>>,
               NEW kind \in HandlerKinds \ {"connect"}, NEW b \in Buffers \cup {None},
               NEW ok \in BOOLEAN, strand' = Append(strand, Handler(kind, b, ok))
        PROVE  ClosedIsDown' /\ ReportedIsUp' /\ ConnectedIsOpen' /\ Receiving'
    <2>1. NoNewReport /\ ReadsStay
      BY <1>0, <1>d, Appended
    <2>. QED BY <1>d, <2>1, ConnectionKept, LoopKept
  <1>1. CASE Connect
    <2>1. Connects' = {}
      BY <1>1, NoneReported DEF Connect, Connects
    <2>2. open' = TRUE /\ kernel' = "connecting" /\ ~is_connected'
      BY <1>1 DEF Connect
    <2>. QED BY <2>1, <2>2 DEF ClosedIsDown, ReportedIsUp, ConnectedIsOpen, Receiving
  <1>2. CASE AppClose
    <2>1. strand' = Append(strand, Handler("close", None, TRUE))
      BY <1>2 DEF AppClose
    <2>. QED BY <2>1, <1>2, <1>d DEF AppClose, ioVars, loopVars, HandlerKinds
  <1>3. CASE (\E t \in Senders : Send(t)) \/ (\E t \in Threads : Pop(t)) \/ AppDrop
    BY <1>3, <1>c DEF Send, SendCheck, Pop, SendPop, AppDrop, sendVars, clientVars,
                      ioVars, loopVars
  <1>4. CASE \E t \in Threads : Post(t)
    <2>1. PICK t \in Threads : Post(t)
      BY <1>4
    <2>2. held[t] \in Buffers \cup {None}
      BY <1>0 DEF SendTypeOK
    <2>. QED BY <2>1, <2>2, <1>d DEF Post, SendPost, HandlerKinds, clientVars, ioVars,
                                     loopVars
  <1>5. CASE RunPush
    <2>1. /\ strand # <<>> /\ Head(strand).kind = "push"
          /\ strand' \in {Tail(strand),
                          Append(Tail(strand), Handler("written", None, FALSE))}
          /\ UNCHANGED <<open, is_connected, kernel, processing, reading, aborted>>
      BY <1>5 DEF RunPush, PushHandler, Next1st, DoWrite, clientVars, ioVars, loopVars
    <2>2. NoNewReport /\ ReadsStay
      BY <1>0, <1>a, <2>1, Shifted DEF HandlerKinds
    <2>. QED BY <2>1, <2>2, ConnectionKept, LoopKept
  <1>6. CASE RunWritten
    <2>1. CASE WriteSucceeded
      <3>1. /\ strand # <<>> /\ Head(strand).kind = "written"
            /\ strand' \in {Tail(strand),
                            Append(Tail(strand), Handler("written", None, FALSE))}
            /\ UNCHANGED <<open, is_connected, kernel, processing, reading, aborted>>
        BY <1>0, <1>6, <2>1 DEF RunWritten, WrittenHandler, Next1st, DoWrite, ioVars,
                                loopVars, SendTypeOK
      <3>2. NoNewReport /\ ReadsStay
        BY <1>0, <1>a, <3>1, Shifted DEF HandlerKinds
      <3>. QED BY <3>1, <3>2, ConnectionKept, LoopKept
    <2>2. CASE ~WriteSucceeded
      BY <1>b, <1>6, <2>2 DEF RunWritten, WrittenHandler
    <2>. QED BY <2>1, <2>2
  <1>7. CASE CloseHandler
    <2>1. CASE alive
      BY <1>b, <1>7, <2>1 DEF CloseHandler
    <2>2. CASE ~alive
      <3>1. /\ strand # <<>> /\ Head(strand).kind = "close"
            /\ strand' = Tail(strand)
            /\ UNCHANGED <<open, is_connected, kernel, processing, reading, aborted>>
        BY <1>7, <2>2 DEF CloseHandler, Next1st, ioVars, loopVars
      <3>2. NoNewReport /\ ReadsStay
        BY <1>0, <1>a, <3>1, Shifted DEF HandlerKinds
      <3>. QED BY <3>1, <3>2, ConnectionKept, LoopKept
    <2>. QED BY <2>1, <2>2
  <1>8. CASE TimerHandler
    BY <1>b, <1>8 DEF TimerHandler
  <1>9. CASE ConnectHandler
    <2>1. /\ strand # <<>> /\ Head(strand).kind = "connect"
          /\ strand' = Tail(strand)
          /\ UNCHANGED <<open, kernel, reading, aborted>>
          /\ ~processing
          /\ is_connected' = (is_connected \/ (Head(strand).ok /\ open))
          /\ processing' = (Head(strand).ok /\ open)
      BY <1>9 DEF ConnectHandler, Next1st
    <2>2. NoNewReport /\ ReadsStay
      BY <1>0, <1>a, <2>1, Shifted DEF HandlerKinds
    <2>3. Head(strand).ok /\ open => kernel = "up"
      <3>1. Head(strand) = strand[1] /\ 1 \in DOMAIN strand
        BY <1>0, <2>1, RestOfStrand DEF SendTypeOK
      <3>. QED BY <3>1, <2>1 DEF ClientInv, ReportedIsUp, Connects
    <2>4. ConnectedIsOpen'
      BY <2>1, <2>3 DEF ClientInv, ConnectedIsOpen
    <2>5. Receiving'
      BY <2>1, <2>2 DEF ClientInv, Receiving, ReadsStay
    <2>. QED BY <2>1, <2>2, <2>4, <2>5, SocketKept
  <1>10. CASE ReadHandler
    <2>1. CASE Head(strand).ok
      <3>1. /\ strand # <<>> /\ strand' = Tail(strand) /\ processing'
            /\ UNCHANGED <<open, is_connected, kernel>>
        BY <1>10, <2>1 DEF ReadHandler, Next1st, ioVars
      <3>2. NoNewReport
        BY <1>0, <1>a, <3>1, Shifted DEF HandlerKinds
      <3>. QED BY <3>1, <3>2, ConnectionKept DEF Receiving
    <2>2. CASE ~Head(strand).ok
      BY <1>b, <1>10, <2>2 DEF ReadHandler
    <2>. QED BY <2>1, <2>2
  <1>11. CASE Callback
    <2>1. \/ UNCHANGED <<sendVars, ioVars>>
          \/ CloseEffect /\ open' = FALSE
          \/ SendCheck(OnRecv, Usable) /\ UNCHANGED ioVars
      BY <1>11 DEF Callback
    <2>2. processing' = processing
      BY <1>11 DEF Callback
    <2>. QED BY <1>b, <1>c, <2>1, <2>2 DEF sendVars, ioVars, SendCheck
  <1>12. CASE EndProcess
    <2>1. CASE malformed
      BY <1>b, <1>12, <2>1 DEF EndProcess
    <2>2. CASE ~malformed
      <3>1. UNCHANGED <<open, is_connected, kernel, aborted>> /\ StartReceive(strand)
        BY <1>12, <2>2 DEF EndProcess
      <3>2. CASE Ready
        <4>1. reading' = reading + 1 /\ strand' = strand
          BY <3>1, <3>2 DEF StartReceive
        <4>2. NoNewReport
          BY <4>1 DEF NoNewReport, Connects
        <4>3. reading' > 0
          BY <1>0, <4>1 DEF ClientTypeOK
        <4>. QED BY <3>1, <4>2, <4>3, ConnectionKept DEF Receiving
      <3>3. CASE ~Ready
        <4>1. strand' = Append(strand, Handler("read", None, FALSE))
          BY <3>1, <3>3 DEF StartReceive
        <4>2. NoNewReport /\ Reads' # {}
          BY <1>0, <4>1, Appended DEF HandlerKinds
        <4>. QED BY <3>1, <4>2, ConnectionKept DEF Receiving
      <3>. QED BY <3>2, <3>3
    <2>. QED BY <2>1, <2>2
  <1>13. CASE KernelConnect
    <2>1. open /\ ~is_connected /\ ~is_connected' /\ open' = open
      <3>1. kernel = "connecting" /\ UNCHANGED <<open, is_connected>>
        BY <1>13 DEF KernelConnect, Completes
      <3>2. open /\ ~is_connected
        BY <3>1 DEF ClientInv, ClosedIsDown, ConnectedIsOpen
      <3>. QED BY <3>1, <3>2
    <2>2. CASE kernel' = "up"
      BY <2>1, <2>2 DEF ClosedIsDown, ReportedIsUp, ConnectedIsOpen, Receiving
    <2>3. CASE kernel' # "up"
      <3>1. strand' = Append(strand, Handler("connect", None, FALSE))
        BY <1>13, <2>3 DEF KernelConnect, Completes
      <3>2. \A i \in Connects' :
              strand'[i].ok => \E j \in Connects : strand'[i] = strand[j]
        BY <1>0, <3>1, Appended DEF HandlerKinds
      <3>3. \A j \in Connects : ~strand[j].ok
        BY <1>13, <2>1 DEF KernelConnect, ClientInv, ReportedIsUp
      <3>4. \A i \in Connects' : ~strand'[i].ok
        BY <3>2, <3>3
      <3>. QED BY <2>1, <3>4 DEF ClosedIsDown, ReportedIsUp, ConnectedIsOpen, Receiving
    <2>. QED BY <2>2, <2>3
  <1>14. CASE KernelRead
    <2>1. PICK ok \in BOOLEAN : strand' = Append(strand, Handler("read", None, ok))
      BY <1>14 DEF KernelRead, Completes
    <2>2. NoNewReport /\ Reads' # {}
      BY <1>0, <2>1, Appended DEF HandlerKinds
    <2>3. UNCHANGED <<open, is_connected, kernel>>
      BY <1>14 DEF KernelRead, Completes
    <2>. QED BY <2>2, <2>3, ConnectionKept DEF Receiving
  <1>15. CASE KernelAbort
    <2>1. PICK kind \in {"read", "connect"} :
            /\ aborted' = [aborted EXCEPT ![kind] = @ - 1]
            /\ Completes(kind, FALSE)
      BY <1>15 DEF KernelAbort
    <2>2. UNCHANGED <<open, is_connected, kernel, reading, processing>>
      BY <1>15, <2>1 DEF KernelAbort, Completes, loopVars
    <2>3. /\ ReadsStay
          /\ kind = "read" => Reads' # {}
          /\ \A i \in Connects' :
                strand'[i].ok => \E j \in Connects : strand'[i] = strand[j]
      BY <1>0, <2>1, Appended DEF HandlerKinds, Completes
    <2>4. ReportedIsUp'
      <3>1. ASSUME NEW i \in Connects' PROVE strand'[i].ok /\ open' => kernel' = "up"
        <4>1. CASE strand'[i].ok
          <5>1. PICK j \in Connects : strand'[i] = strand[j]
            BY <2>3, <4>1
          <5>2. strand[j].ok /\ open => kernel = "up"
            BY DEF ClientInv, ReportedIsUp
          <5>. QED BY <5>1, <5>2, <2>2
        <4>. QED BY <4>1
      <3>. QED BY <3>1 DEF ReportedIsUp
    <2>5. kind = "connect" => aborted'.read = aborted.read
      BY <1>0, <2>1 DEF ClientTypeOK
    <2>6. Receiving'
      BY <2>1, <2>2, <2>3, <2>5 DEF ClientInv, Receiving, ReadsStay
    <2>. QED BY <2>2, <2>4, <2>6 DEF ClientInv, ClosedIsDown, ConnectedIsOpen
  <1>16. CASE KernelWrite
    <2>1. PICK ok \in BOOLEAN : strand' = Append(strand, Handler("written", None, ok))
      BY <1>16 DEF KernelWrite, WriteOk, WriteFail
    <2>2. UNCHANGED <<open, is_connected, kernel, processing, reading, aborted>>
      BY <1>16 DEF KernelWrite, WriteOk, WriteFail, loopVars
    <2>. QED BY <2>1, <2>2, <1>d DEF HandlerKinds
  <1>17. CASE TimerExpires
    <2>1. strand' = Append(strand, Handler("timer", None, TRUE))
      BY <1>17 DEF TimerExpires, Completes
    <2>2. UNCHANGED <<open, is_connected, kernel, processing, reading, aborted>>
      BY <1>17 DEF TimerExpires, Completes, loopVars
    <2>. QED BY <2>1, <2>2, <1>d DEF HandlerKinds
  <1>18. CASE Destroy
    <2>1. Reads = {} /\ aborted.read = 0 /\ reading = 0 /\ ~processing
      BY <1>18 DEF Destroy, Unreferenced, Reads
    <2>2. ~is_connected
      BY <2>1 DEF ClientInv, Receiving
    <2>. QED BY <1>0, <1>18, <2>2, ConnectionClosed DEF Destroy, ClientTypeOK
  <1>. QED BY <1>1, <1>2, <1>3, <1>4, <1>5, <1>6, <1>7, <1>8, <1>9, <1>10, <1>11,
              <1>12, <1>13, <1>14, <1>15, <1>16, <1>17, <1>18
           DEF Next, RunStrand, Kernel

LEMMA DestructorInv ==
    ASSUME ClientInv, Next
    PROVE  DestructorFreesAll' /\ (freed' \subseteq Buffers) /\ alive' \in BOOLEAN
  <1>. USE DEF ClientInv, DestructorFreesAll, ClientTypeOK
  <1>1. CASE UNCHANGED <<alive, freed>>
    BY <1>1
  <1>2. CASE Destroy
    BY <1>2, DestroyFreesAll DEF Destroy
  <1>3. CASE Connect \/ AppClose \/ AppDrop
    BY <1>1, <1>3 DEF Connect, AppClose, AppDrop
  <1>4. CASE (\E t \in Senders : Send(t)) \/ \E t \in Threads : Pop(t) \/ Post(t)
    BY <1>1, <1>4 DEF Send, Pop, Post, clientVars, appVars
  <1>5. CASE RunStrand
    BY <1>1, <1>5 DEF RunStrand, RunPush, RunWritten, ConnectHandler, ReadHandler,
       TimerHandler, CloseHandler, Callback, EndProcess, clientVars, appVars
  <1>6. CASE Kernel
    BY <1>1, <1>6 DEF Kernel, KernelConnect, KernelRead, KernelAbort, KernelWrite,
       TimerExpires, Completes, appVars
  <1>. QED BY <1>2, <1>3, <1>4, <1>5, <1>6 DEF Next

LEMMA DroppedInv ==
    ASSUME ClientInv, Next
    PROVE  DroppedIsIdle'
  <1>0. pc \in [Threads -> {"idle", "popping", "posting"}] /\ DroppedIsIdle
    BY DEF ClientInv, SendInv, SendTypeOK
  <1>1. CASE UNCHANGED <<owned, pc>>
    BY <1>0, <1>1 DEF DroppedIsIdle
  <1>2. CASE AppDrop
    BY <1>2 DEF AppDrop, sendVars, DroppedIsIdle
  <1>3. CASE \E t \in Senders : Send(t)
    BY <1>3 DEF Send, clientVars, appVars, DroppedIsIdle
  <1>4. CASE \E t \in Threads : Pop(t) \/ Post(t)
    <2>1. PICK t \in Threads : Pop(t) \/ Post(t)
      BY <1>4
    <2>2. /\ pc[t] # "idle"
          /\ owned' = owned
          /\ \A u \in Threads : u # t => pc'[u] = pc[u]
      BY <1>0, <2>1 DEF Pop, SendPop, Post, SendPost, clientVars, appVars
    <2>. QED BY <1>0, <2>1, <2>2 DEF DroppedIsIdle, Threads
  <1>5. CASE Callback
    <2>1. owned' = owned /\ \A u \in Senders : pc'[u] = pc[u]
      BY <1>0, <1>5, SendPathAssumption
         DEF Callback, sendVars, sendRest, SendCheck, appVars, Threads
    <2>. QED BY <1>0, <2>1 DEF DroppedIsIdle
  <1>6. CASE Connect \/ AppClose \/ Destroy
    BY <1>1, <1>6 DEF Connect, AppClose, Destroy, sendRest
  <1>7. CASE RunPush \/ RunWritten
    BY <1>1, <1>7 DEF RunPush, PushHandler, RunWritten, WrittenHandler, clientVars, appVars
  <1>8. CASE ConnectHandler \/ ReadHandler \/ TimerHandler \/ CloseHandler \/ EndProcess
    BY <1>1, <1>8 DEF ConnectHandler, ReadHandler, TimerHandler, CloseHandler,
       EndProcess, sendRest, appVars
  <1>9. CASE Kernel
    BY <1>1, <1>9 DEF Kernel, KernelConnect, KernelRead, KernelAbort, KernelWrite,
       TimerExpires, Completes, WriteOk, WriteFail, sendRest, appVars
  <1>. QED BY <1>2, <1>3, <1>4, <1>5, <1>6, <1>7, <1>8, <1>9 DEF Next, RunStrand

LEMMA ClientTypeInv ==
    ASSUME ClientInv, Next
    PROVE  ClientTypeOK'
  <1>. USE DEF ClientTypeOK
  <1>0. ClientTypeOK /\ open \in BOOLEAN /\ (freed' \subseteq Buffers) /\ alive' \in BOOLEAN
    BY DestructorInv DEF ClientInv, SendInv, SendTypeOK
  <1>. USE <1>0, TcpClientAssumption
  <1>a. CloseEffect => /\ is_connected' \in BOOLEAN
                       /\ kernel' \in {"down", "connecting", "up"}
                       /\ reading' \in Nat
                       /\ aborted' \in [{"read", "connect"} -> Nat]
                       /\ stale' \in BOOLEAN
                       /\ timer' \in BOOLEAN
    BY CloseTypes
  <1>b. \A c : If(c) \in {0, 1}
    BY DEF If
  <1>c. StartReceive(strand) => reading' \in Nat
    <2>1. StartReceive(strand) => reading' \in {reading, reading + 1}
      BY DEF StartReceive
    <2>. QED BY <2>1
  <1>1. CASE Connect
    <2>1. aborted.read \in Nat /\ aborted.connect \in Nat
      OBVIOUS
    <2>2. /\ aborted.read + reading \in Nat
          /\ aborted.connect + If(kernel = "connecting") \in Nat
      BY <1>b, <2>1
    <2>3. aborted' \in [{"read", "connect"} -> Nat]
      BY <1>1, <2>2 DEF Connect, Abandon
    <2>. QED BY <1>1, <2>3 DEF Connect, Abandon, loopVars
  <1>2. CASE AppClose \/ AppDrop
    <2>1. /\ UNCHANGED <<ioVars, loopVars, connects, answered>>
          /\ owned' \in {owned, FALSE}
          /\ closes' = closes \/ (closes < MaxCloses /\ closes' = closes + 1)
      BY <1>2 DEF AppClose, AppDrop
    <2>2. closes' \in 0 .. MaxCloses
      BY <2>1
    <2>. QED BY <2>1, <2>2 DEF ioVars, loopVars
  <1>3. CASE (\E t \in Senders : Send(t)) \/ \E t \in Threads : Pop(t) \/ Post(t)
    BY <1>3 DEF Send, Pop, Post, clientVars, ioVars, loopVars, appVars
  <1>4. CASE RunPush
    BY <1>4 DEF RunPush, clientVars, ioVars, loopVars, appVars
  <1>5. CASE RunWritten \/ CloseHandler \/ TimerHandler
    BY <1>a, <1>5 DEF RunWritten, CloseHandler, TimerHandler, ioVars, loopVars, appVars
  <1>6. CASE ConnectHandler
    BY <1>b, <1>6 DEF ConnectHandler
  <1>7. CASE ReadHandler
    <2>1. processing' \in BOOLEAN /\ malformed' \in BOOLEAN
      <3>1. processing' = TRUE \/ processing' = processing
        BY <1>7 DEF ReadHandler, loopVars
      <3>2. malformed' = FALSE \/ malformed' = ("malformed" \in Faults)
            \/ malformed' = malformed
        BY <1>7 DEF ReadHandler, loopVars
      <3>3. ("malformed" \in Faults) \in BOOLEAN
        OBVIOUS
      <3>. QED BY <3>1, <3>2, <3>3
    <2>2. callbacks' \in 0 .. MaxFrames + 1
      <3>1. callbacks' \in 0 .. MaxFrames \/ callbacks' = callbacks
        BY <1>7 DEF ReadHandler, loopVars
      <3>. QED BY <3>1
    <2>3. UNCHANGED ioVars \/ CloseEffect
      BY <1>7 DEF ReadHandler
    <2>4. UNCHANGED appVars
      BY <1>7 DEF ReadHandler
    <2>. QED BY <1>a, <2>1, <2>2, <2>3, <2>4 DEF ioVars, appVars
  <1>8. CASE Callback
    <2>1. /\ UNCHANGED <<processing, malformed, appVars>>
          /\ callbacks' = callbacks - 1 /\ callbacks > 0
          /\ UNCHANGED ioVars \/ CloseEffect
      BY <1>8 DEF Callback, CallbackDue
    <2>. QED BY <1>a, <2>1 DEF ioVars, appVars
  <1>9. CASE EndProcess
    BY <1>a, <1>c, <1>9 DEF EndProcess, ResetReadTimeout, appVars
  <1>10. CASE KernelConnect
    <2>1. aborted.read + reading \in Nat
      OBVIOUS
    <2>2. \/ aborted' = aborted
          \/ aborted' = [aborted EXCEPT !.read = @ + reading]
      BY <1>10 DEF KernelConnect
    <2>3. aborted' \in [{"read", "connect"} -> Nat]
      BY <2>1, <2>2
    <2>4. /\ kernel' \in {"up", "down"}
          /\ reading' \in {reading, 0}
          /\ stale' \in BOOLEAN
      BY <1>10 DEF KernelConnect
    <2>5. UNCHANGED <<is_connected, timer, loopVars, appVars>>
      BY <1>10 DEF KernelConnect, Completes
    <2>. QED BY <2>3, <2>4, <2>5 DEF loopVars, appVars
  <1>11. CASE KernelRead \/ TimerExpires
    <2>1. UNCHANGED <<is_connected, kernel, aborted, stale, loopVars, appVars>>
      BY <1>11 DEF KernelRead, TimerExpires, Completes
    <2>2. reading' = reading \/ (reading > 0 /\ reading' = reading - 1)
      BY <1>11 DEF KernelRead, TimerExpires
    <2>3. timer' \in {timer, FALSE}
      BY <1>11 DEF KernelRead, TimerExpires
    <2>4. reading' \in Nat
      BY <2>2
    <2>. QED BY <2>1, <2>3, <2>4 DEF loopVars, appVars
  <1>12. CASE KernelAbort
    <2>1. aborted' \in [{"read", "connect"} -> Nat]
      BY <1>12 DEF KernelAbort
    <2>. QED BY <1>12, <2>1 DEF KernelAbort, Completes, loopVars, appVars
  <1>13. CASE KernelWrite \/ Destroy
    BY <1>13 DEF KernelWrite, Destroy, loopVars, appVars
  <1>. QED BY <1>1, <1>2, <1>3, <1>4, <1>5, <1>6, <1>7, <1>8, <1>9, <1>10, <1>11,
              <1>12, <1>13 DEF Next, RunStrand, Kernel
-----------------------------------------------------------------------------
\* The strengthened invariant holds in every state of the client.
THEOREM Invariance == Spec => []ClientInv
  <1>1. Init => ClientInv
    <2>. SUFFICES ASSUME Init PROVE ClientInv
      OBVIOUS
    <2>1. SendInv
      BY SendInvInit DEF Init
    <2>2. Connects = {}
      BY DEF Init, SendInit, Connects
    <2>3. ClientTypeOK
      <3>1. /\ 0 \in 0 .. MaxFrames + 1 /\ 0 \in 0 .. MaxConnects
            /\ 0 \in 0 .. MaxCloses /\ 0 \in Nat
        BY TcpClientAssumption
      <3>2. [read |-> 0, connect |-> 0] \in [{"read", "connect"} -> Nat]
        OBVIOUS
      <3>. QED BY <3>1, <3>2 DEF Init, ClientTypeOK
    <2>. QED BY <2>1, <2>2, <2>3 DEF ClientInv, Init, ClosedIsDown, ReportedIsUp,
                ConnectedIsOpen, Receiving, DroppedIsIdle, DestructorFreesAll
  <1>2. ClientInv /\ [Next]_vars => ClientInv'
    <2>. SUFFICES ASSUME ClientInv, [Next]_vars PROVE ClientInv'
      OBVIOUS
    <2>1. SendInv'
      BY StepIsSendStep, SendStepInv DEF ClientInv, SendInv
    <2>2. CASE Next
      BY <2>1, <2>2, ClientTypeInv, ConnectionInv, DroppedInv, DestructorInv DEF ClientInv
    <2>3. CASE UNCHANGED vars
      BY <2>1, <2>3 DEF ClientInv, vars, clientVars, ioVars, loopVars, appVars, sendVars,
         ClientTypeOK, ClosedIsDown, ReportedIsUp, Connects, ConnectedIsOpen, Receiving,
         Reads, DroppedIsIdle, DestructorFreesAll
    <2>. QED BY <2>2, <2>3
  <1>. QED BY <1>1, <1>2, PTL DEF Spec

\* TcpClient keeps its variables within their types.
THEOREM TypeCorrect == Spec => []TypeOK
  <1>1. ClientInv => TypeOK
    BY DEF ClientInv, SendInv, ClientTypeOK, TypeOK
  <1>. QED BY <1>1, Invariance, PTL

\* Every buffer has exactly one owner, however often the client reconnects.
THEOREM BuffersOwned == Spec => []BufferOwnership
  <1>1. ClientInv => BufferOwnership
    BY DEF ClientInv, SendInv
  <1>. QED BY <1>1, Invariance, PTL

\* There is one async_write at a time, for the front of send_queue_, also while
\* the write of an earlier connection has yet to report its end.
THEOREM WritesExclusive == Spec => []OneWrite
  <1>1. ClientInv => OneWrite
    BY DEF ClientInv, SendInv
  <1>. QED BY <1>1, Invariance, PTL

\* is_connected_ is never true of a socket that is closed or not connected.
THEOREM FlagIsTrue == Spec => []ConnectedIsOpen
  <1>1. ClientInv => ConnectedIsOpen
    BY DEF ClientInv
  <1>. QED BY <1>1, Invariance, PTL

\* A connected client has a receive loop.
THEOREM LoopLives == Spec => []ConnectedReceives
  <1>1. ClientInv => ConnectedReceives
    <2>. SUFFICES ASSUME ClientInv PROVE ConnectedReceives
      OBVIOUS
    <2>1. /\ Len(strand) \in Nat /\ DOMAIN strand = 1 .. Len(strand)
          /\ reading \in Nat /\ aborted.read \in Nat
      BY LenProperties DEF ClientInv, SendInv, SendTypeOK, ClientTypeOK
    <2>2. IsFiniteSet(Reads)
      <3>1. IsFiniteSet(1 .. Len(strand))
        BY <2>1, FS_Interval
      <3>2. Reads \subseteq 1 .. Len(strand)
        BY <2>1 DEF Reads
      <3>. QED BY <3>1, <3>2, FS_Subset
    <2>3. Cardinality(Reads) \in Nat /\ (Reads # {} => Cardinality(Reads) # 0)
      BY <2>2, FS_CardinalityType, FS_EmptySet
    <2>4. If(processing) \in Nat /\ (processing => If(processing) = 1)
      BY DEF If
    <2>. QED BY <2>1, <2>3, <2>4 DEF ClientInv, Receiving, ConnectedReceives, ReadLoops
  <1>. QED BY <1>1, Invariance, PTL

\* A client that calls itself connected has a connected socket and receives.
THEOREM ConnectionLives == Spec => []ConnectedIsLive
  BY FlagIsTrue, LoopLives, PTL DEF ConnectedIsLive

\* The destructor deletes every buffer of the pool, whatever the connections
\* have left in the queue.
THEOREM NoPoolLeak == Spec => []DestructorFreesAll
  <1>1. ClientInv => DestructorFreesAll
    BY DEF ClientInv
  <1>. QED BY <1>1, Invariance, PTL

\* Across connections no message is transmitted twice or overtakes another.
\* The induction is over where messages are, not only over the wire: what the
\* kernel has taken precedes the rest of the queue, and that the strand.
THEOREM NothingResent == Spec => []NeverResent
  <1>1. Init => InOrder
    BY OrderInit DEF Init
  <1>2. ClientInv /\ InOrder /\ [Next]_vars => InOrder'
    BY StepIsSendStep, SendStepOrder DEF ClientInv, SendInv
  <1>3. InOrder => NeverResent
    BY DEF InOrder, WireOrder, NeverResent
  <1>. QED BY <1>1, <1>2, <1>3, Invariance, PTL DEF Spec
-----------------------------------------------------------------------------
(***************************************************************************)
(* Counting: the attempts and reads that are under way.                    *)
(***************************************************************************)

\* Attempts and reads whose completion has not reached the strand.
Trying == If(kernel = "connecting") + aborted.connect

Coming == reading + aborted.read

\* A receive loop begins with a call of connect() and never doubles.
LoopsBounded == ReadLoops + Attempts <= connects

\* A client that never called connect() has nothing to write.
Unconnected == connects = 0 => ~open /\ Untouched

FirstInv ==
    /\ AnsweredOnce
    /\ LoopsBounded
    /\ Unconnected
    /\ connects <= 1 => NoStall

LEMMA UnderWay ==
    ASSUME ClientInv
    PROVE  /\ Attempts = Trying + Queued("connect")
           /\ ReadLoops = Coming + Queued("read") + If(processing)
           /\ Trying \in Nat /\ Coming \in Nat
           /\ Queued("connect") \in Nat /\ Queued("read") \in Nat
           /\ aborted.read \in Nat /\ aborted.connect \in Nat /\ reading \in Nat
           /\ connects \in Nat /\ answered \in Nat /\ processing \in BOOLEAN
  <1>1. Queued("connect") \in Nat /\ Queued("read") \in Nat
    BY FinitelyMany DEF ClientInv, SendInv, SendTypeOK, Queued
  <1>2. Cardinality(Reads) = Queued("read") /\ Cardinality(Connects) = Queued("connect")
    BY DEF Reads, Connects, Queued, KindsIn
  <1>3. /\ aborted.read \in Nat /\ aborted.connect \in Nat /\ reading \in Nat
        /\ connects \in Nat /\ answered \in Nat /\ processing \in BOOLEAN
    BY DEF ClientInv, ClientTypeOK
  <1>4. Trying \in Nat /\ Coming \in Nat
    BY <1>3 DEF Trying, Coming, If
  <1>. QED BY <1>1, <1>2, <1>3, <1>4 DEF Attempts, ReadLoops, Trying, Coming, If

\* Closing a socket aborts what it does, and an aborted operation completes: in
\* these counts nothing changes.
LEMMA AbandonCounts ==
    ASSUME ClientInv, Abandon
    PROVE  /\ Coming' = Coming
           /\ kernel' # "connecting" => Trying' = Trying
           /\ kernel' = "connecting" => Trying' = Trying + 1
  <1>1. /\ aborted.read \in Nat /\ aborted.connect \in Nat /\ reading \in Nat
    BY UnderWay
  <1>2. /\ reading' = 0
        /\ aborted'.read = aborted.read + reading
        /\ aborted'.connect = aborted.connect + If(kernel = "connecting")
    BY DEF Abandon
  <1>. QED BY <1>1, <1>2 DEF Coming, Trying, If

\* How a step may change the counts.
CountsMove(trying, coming, connect, read) ==
    /\ Trying' = Trying + trying
    /\ Coming' = Coming + coming
    /\ Queued("connect")' = Queued("connect") + connect
    /\ Queued("read")' = Queued("read") + read

CountsAgree(trying, coming, connect, read) ==
    /\ connects' + answered = connects + answered' + trying + connect
    /\ trying + coming + connect + read + If(processing') + connects
         <= connects' + If(processing)

LEMMA CountsInv ==
    ASSUME ClientInv, AnsweredOnce, LoopsBounded,
           NEW a \in Int, NEW b \in Int, NEW c \in Int, NEW d \in Int,
           CountsMove(a, b, c, d),
           connects' \in Nat, answered' \in Nat,
           CountsAgree(a, b, c, d)
    PROVE  AnsweredOnce' /\ LoopsBounded'
  <1>1. PICK tr, co, qc, qr : /\ tr = Trying /\ co = Coming
                              /\ qc = Queued("connect") /\ qr = Queued("read")
    OBVIOUS
  <1>2. /\ tr \in Nat /\ co \in Nat /\ qc \in Nat /\ qr \in Nat
        /\ connects \in Nat /\ answered \in Nat
        /\ connects = answered + tr + qc
        /\ co + qr + If(processing) + tr + qc <= connects
    <2>1. If(processing) \in Nat
      BY DEF If
    <2>. QED BY <1>1, <2>1, UnderWay DEF AnsweredOnce, LoopsBounded
  <1>3. /\ Attempts' = (tr + a) + (qc + c)
        /\ ReadLoops' = (co + b) + (qr + d) + If(processing')
    <2>1. /\ Attempts' = If(kernel' = "connecting") + aborted'.connect + Queued("connect")'
          /\ ReadLoops' = reading' + aborted'.read + Queued("read")' + If(processing')
      BY DEF Attempts, ReadLoops, Reads, Connects, Queued, KindsIn
    <2>2. /\ Attempts' = Trying' + Queued("connect")'
          /\ ReadLoops' = Coming' + Queued("read")' + If(processing')
      BY <2>1 DEF Trying, Coming
    <2>. QED BY <1>1, <2>2 DEF CountsMove
  <1>4. If(processing) \in Nat /\ If(processing') \in Nat
    BY DEF If
  <1>5. connects' = answered' + ((tr + a) + (qc + c))
    <2>1. PICK x, y, u, v : /\ x = connects /\ y = answered
                            /\ u = connects' /\ v = answered'
      OBVIOUS
    <2>2. x \in Nat /\ y \in Nat /\ u \in Nat /\ v \in Nat
      BY <1>2, <2>1
    <2>3. u + y = x + v + a + c /\ x = y + tr + qc
      BY <1>2, <2>1 DEF CountsAgree
    <2>4. u = v + ((tr + a) + (qc + c))
      BY <1>2, <2>2, <2>3
    <2>. QED BY <2>1, <2>4
  <1>6. ((co + b) + (qr + d) + If(processing')) + ((tr + a) + (qc + c)) <= connects'
    <2>1. a + b + c + d + If(processing') + connects <= connects' + If(processing)
      BY DEF CountsAgree
    <2>. QED BY <1>2, <1>4, <2>1
  <1>. QED BY <1>3, <1>5, <1>6 DEF AnsweredOnce, LoopsBounded

\* A completion reaches the strand.
LEMMA CompletesCounts ==
    ASSUME ClientInv, NEW kind \in {"read", "connect", "timer"}, NEW ok \in BOOLEAN,
           Completes(kind, ok)
    PROVE  /\ kind = "read" => Queued("read")' = Queued("read") + 1
           /\ kind = "connect" => Queued("connect")' = Queued("connect") + 1
           /\ kind # "read" => Queued("read")' = Queued("read")
           /\ kind # "connect" => Queued("connect")' = Queued("connect")
           /\ UNCHANGED <<processing, connects, answered>>
  <1>1. PICK h : h = Handler(kind, None, ok)
    OBVIOUS
  <1>2. h \in Handlers /\ h.kind = kind
    BY <1>1 DEF Handler, Handlers, HandlerKinds
  <1>3. strand' = Append(strand, h) /\ UNCHANGED <<processing, connects, answered>>
    BY <1>1 DEF Completes, loopVars, appVars
  <1>4. \A k : Queued(k)' = Queued(k) + IF h.kind = k THEN 1 ELSE 0
    BY <1>2, <1>3, QueuedGrows DEF ClientInv, SendInv
  <1>5. Queued("read") \in Nat /\ Queued("connect") \in Nat
    BY UnderWay
  <1>6. /\ Queued("read")' = Queued("read") + IF h.kind = "read" THEN 1 ELSE 0
        /\ Queued("connect")' = Queued("connect") + IF h.kind = "connect" THEN 1 ELSE 0
    BY <1>4
  <1>. QED BY <1>2, <1>3, <1>5, <1>6

\* A handler leaves the strand.
LEMMA RunCounts ==
    ASSUME ClientInv, NEW kind, Next1st(kind), strand' = Tail(strand)
    PROVE  /\ kind = "read" => Queued("read")' = Queued("read") - 1
           /\ kind = "connect" => Queued("connect")' = Queued("connect") - 1
           /\ kind # "read" => Queued("read")' = Queued("read")
           /\ kind # "connect" => Queued("connect")' = Queued("connect")
  <1>1. \A k : Queued(k)' = Queued(k) - IF Head(strand).kind = k THEN 1 ELSE 0
    BY QueuedShrinks DEF ClientInv, SendInv, Next1st
  <1>2. Queued("read") \in Nat /\ Queued("connect") \in Nat
    BY UnderWay
  <1>3. /\ Queued("read")' = Queued("read") - IF Head(strand).kind = "read" THEN 1 ELSE 0
        /\ Queued("connect")' = Queued("connect") - IF Head(strand).kind = "connect" THEN 1 ELSE 0
    BY <1>1
  <1>4. Head(strand).kind = kind
    BY DEF Next1st
  <1>. QED BY <1>2, <1>3, <1>4

\* The socket is closed or left as it is.
ClosedOrSame ==
    \/ UNCHANGED <<kernel, reading, aborted>>
    \/ Abandon /\ kernel' = "down"

\* The steps that leave the counts alone, if only because what they abort is
\* still to complete.
LEMMA CountsKept ==
    ASSUME ClientInv, AnsweredOnce, LoopsBounded,
           ClosedOrSame,
           processing' \in {processing, FALSE},
           UNCHANGED <<connects, answered>>,
           Queued("connect")' = Queued("connect"), Queued("read")' = Queued("read")
    PROVE  AnsweredOnce' /\ LoopsBounded'
  <1>1. Trying' = Trying /\ Coming' = Coming
    <2>1. CASE UNCHANGED <<kernel, reading, aborted>>
      BY <2>1 DEF Trying, Coming
    <2>2. CASE Abandon /\ kernel' = "down"
      BY <2>2, AbandonCounts
    <2>. QED BY <2>1, <2>2 DEF ClosedOrSame
  <1>2. CountsMove(0, 0, 0, 0)
    BY <1>1, UnderWay DEF CountsMove
  <1>3. connects \in Nat /\ answered \in Nat
    BY UnderWay
  <1>4. CountsAgree(0, 0, 0, 0)
    <2>1. PICK p, p2 : p = If(processing) /\ p2 = If(processing')
      OBVIOUS
    <2>2. p \in Nat /\ p2 \in Nat /\ (p2 = p \/ p2 = 0)
      <3>1. p \in {0, 1} /\ p2 \in {0, 1}
        BY <2>1 DEF If
      <3>2. CASE processing' = processing
        BY <2>1, <3>1, <3>2
      <3>3. CASE processing' = FALSE
        BY <2>1, <3>1, <3>3 DEF If
      <3>. QED BY <3>2, <3>3
    <2>3. connects' + answered = connects + answered' + 0 + 0
      BY <1>3
    <2>4. 0 + 0 + 0 + 0 + p2 + connects <= connects' + p
      BY <1>3, <2>2
    <2>. QED BY <2>1, <2>3, <2>4 DEF CountsAgree
  <1>. QED BY <1>2, <1>3, <1>4, CountsInv

\* What a step moves from one count to another, or adds to them, is an attempt
\* or a receive loop that was there before, or comes from connect().
LEMMA AttemptsInv ==
    ASSUME ClientInv, AnsweredOnce, LoopsBounded, Next
    PROVE  AnsweredOnce' /\ LoopsBounded'
  <1>1. /\ SendInv /\ SendTypeOK
        /\ connects \in Nat /\ answered \in Nat /\ reading \in Nat
        /\ aborted.read \in Nat /\ aborted.connect \in Nat
        /\ Trying \in Nat /\ Coming \in Nat
        /\ Queued("connect") \in Nat /\ Queued("read") \in Nat
    BY UnderWay DEF ClientInv, SendInv
  <1>2. ASSUME strand' = strand
        PROVE  Queued("connect")' = Queued("connect") /\ Queued("read")' = Queued("read")
    BY <1>2 DEF Queued
  <1>3. ASSUME PipelineStep
        PROVE  Queued("connect")' = Queued("connect") /\ Queued("read")' = Queued("read")
    BY <1>1, <1>3, QueuedKept
  <1>4. CASE Connect
    <2>1. /\ Abandon /\ kernel' = "connecting" /\ strand' = strand
          /\ UNCHANGED <<processing, answered>> /\ connects' = connects + 1
      BY <1>4 DEF Connect, loopVars
    <2>2. CountsMove(1, 0, 0, 0)
      BY <1>1, <1>2, <2>1, AbandonCounts DEF CountsMove
    <2>3. CountsAgree(1, 0, 0, 0) /\ connects' \in Nat /\ answered' \in Nat
      BY <1>1, <2>1 DEF CountsAgree, If
    <2>. QED BY <2>2, <2>3, CountsInv
  <1>5. CASE AppClose
    <2>1. PICK h : h = Handler("close", None, TRUE)
      OBVIOUS
    <2>2. h \in Handlers /\ h.kind = "close"
      BY <2>1 DEF Handler, Handlers, HandlerKinds
    <2>3. strand' = Append(strand, h)
          /\ UNCHANGED <<kernel, reading, aborted, processing, connects, answered>>
      BY <1>5, <2>1 DEF AppClose, ioVars, loopVars
    <2>4. Queued("connect")' = Queued("connect") /\ Queued("read")' = Queued("read")
      BY <1>1, <2>2, <2>3, QueuedGrows
    <2>. QED BY <2>3, <2>4, CountsKept DEF ClosedOrSame
  <1>6. CASE \/ \E t \in Senders : Send(t)
             \/ \E t \in Threads : Pop(t) \/ Post(t)
             \/ RunPush
    <2>1. UNCHANGED clientVars
      BY <1>6 DEF Send, Pop, Post, RunPush
    <2>2. PipelineStep
      <3>1. Usable \in BOOLEAN /\ Ready \in BOOLEAN
        BY DEF Usable, Ready
      <3>. QED BY <1>6, <3>1 DEF Send, Pop, Post, RunPush, PipelineStep, Threads
    <2>. QED BY <1>3, <2>1, <2>2, CountsKept DEF ClosedOrSame, clientVars, ioVars, loopVars, appVars
  <1>7. CASE RunWritten
    <2>1. /\ WrittenHandler(Ready) /\ Ready \in BOOLEAN
          /\ UNCHANGED <<processing, connects, answered>>
          /\ ClosedOrSame
      BY <1>7 DEF RunWritten, CloseEffect, ClosedOrSame, Ready, ioVars, loopVars, appVars
    <2>2. PipelineStep
      BY <2>1 DEF PipelineStep
    <2>. QED BY <1>3, <2>1, <2>2, CountsKept
  <1>8. CASE CloseHandler \/ TimerHandler
    <2>1. /\ strand' = Tail(strand) /\ (Next1st("close") \/ Next1st("timer"))
          /\ UNCHANGED <<processing, connects, answered>>
          /\ ClosedOrSame
      BY <1>8 DEF CloseHandler, TimerHandler, CloseEffect, ClosedOrSame, ioVars, loopVars,
                  appVars
    <2>2. Queued("connect")' = Queued("connect") /\ Queued("read")' = Queued("read")
      BY <2>1, RunCounts
    <2>. QED BY <2>1, <2>2, CountsKept
  <1>9. CASE ConnectHandler
    <2>1. /\ strand' = Tail(strand) /\ Next1st("connect")
          /\ UNCHANGED <<kernel, reading, aborted, connects>>
          /\ answered' = answered + 1 /\ ~processing
      BY <1>9 DEF ConnectHandler
    <2>2. /\ Queued("connect")' = Queued("connect") - 1
          /\ Queued("read")' = Queued("read")
      BY <2>1, RunCounts
    <2>3. Trying' = Trying /\ Coming' = Coming
      BY <2>1 DEF Trying, Coming
    <2>4. CountsMove(0, 0, -1, 0)
      BY <1>1, <2>2, <2>3 DEF CountsMove
    <2>5. CountsAgree(0, 0, -1, 0) /\ connects' \in Nat /\ answered' \in Nat
      <3>1. PICK p : p = If(processing')
        OBVIOUS
      <3>2. p \in {0, 1} /\ If(processing) = 0
        BY <2>1, <3>1 DEF If
      <3>. QED BY <1>1, <2>1, <3>1, <3>2 DEF CountsAgree
    <2>. QED BY <2>4, <2>5, CountsInv
  <1>10. CASE ReadHandler
    <2>1. /\ strand' = Tail(strand) /\ Next1st("read") /\ ~processing
          /\ UNCHANGED <<connects, answered>>
          /\ ClosedOrSame
      BY <1>10 DEF ReadHandler, CloseEffect, ClosedOrSame, ioVars, appVars
    <2>2. /\ Queued("read")' = Queued("read") - 1
          /\ Queued("connect")' = Queued("connect")
      BY <2>1, RunCounts
    <2>3. Trying' = Trying /\ Coming' = Coming
      <3>1. CASE UNCHANGED <<kernel, reading, aborted>>
        BY <3>1 DEF Trying, Coming
      <3>2. CASE Abandon /\ kernel' = "down"
        BY <3>2, AbandonCounts
      <3>. QED BY <2>1, <3>1, <3>2 DEF ClosedOrSame
    <2>4. CountsMove(0, 0, 0, -1)
      BY <1>1, <2>2, <2>3 DEF CountsMove
    <2>5. CountsAgree(0, 0, 0, -1) /\ connects' \in Nat /\ answered' \in Nat
      <3>1. PICK p : p = If(processing')
        OBVIOUS
      <3>2. p \in {0, 1} /\ If(processing) = 0
        BY <2>1, <3>1 DEF If
      <3>. QED BY <1>1, <2>1, <3>1, <3>2 DEF CountsAgree
    <2>. QED BY <2>4, <2>5, CountsInv
  <1>11. CASE Callback
    <2>1. /\ UNCHANGED <<processing, connects, answered>>
          /\ ClosedOrSame
      BY <1>11 DEF Callback, CloseEffect, ClosedOrSame, ioVars, appVars
    <2>2. strand' = strand
      BY <1>11 DEF Callback, SendCheck, sendVars
    <2>. QED BY <1>2, <2>1, <2>2, CountsKept
  <1>12. CASE EndProcess
    <2>1. /\ processing /\ processing' = FALSE
          /\ UNCHANGED <<connects, answered>>
      BY <1>12 DEF EndProcess, appVars
    <2>2. CASE malformed
      <3>1. Abandon /\ kernel' = "down" /\ strand' = strand
        BY <1>12, <2>2 DEF EndProcess, CloseEffect
      <3>. QED BY <1>2, <2>1, <3>1, CountsKept DEF ClosedOrSame
    <2>3. CASE ~malformed
      <3>1. StartReceive(strand) /\ UNCHANGED <<kernel, aborted>>
        BY <1>12, <2>3 DEF EndProcess
      <3>2. If(processing) = 1 /\ If(processing') = 0
        BY <2>1 DEF If
      <3>3. Trying' = Trying
        BY <3>1 DEF Trying
      <3>4. CASE Ready
        <4>1. reading' = reading + 1 /\ strand' = strand
          BY <3>1, <3>4 DEF StartReceive
        <4>2. Coming' = Coming + 1
          BY <1>1, <3>1, <4>1 DEF Coming
        <4>3. CountsMove(0, 1, 0, 0)
          BY <1>1, <1>2, <3>3, <4>1, <4>2 DEF CountsMove
        <4>4. CountsAgree(0, 1, 0, 0) /\ connects' \in Nat /\ answered' \in Nat
          <5>1. PICK p, p2 : p = If(processing) /\ p2 = If(processing')
            OBVIOUS
          <5>2. p = 1 /\ p2 = 0
            BY <3>2, <5>1
          <5>3. UNCHANGED <<connects, answered>>
            BY <2>1
          <5>. QED BY <1>1, <5>1, <5>2, <5>3 DEF CountsAgree
        <4>. QED BY <4>3, <4>4, CountsInv
      <3>5. CASE ~Ready
        <4>1. PICK h : h = Handler("read", None, FALSE)
          OBVIOUS
        <4>2. h \in Handlers /\ h.kind = "read"
          BY <4>1 DEF Handler, Handlers, HandlerKinds
        <4>3. reading' = reading /\ strand' = Append(strand, h)
          BY <3>1, <3>5, <4>1 DEF StartReceive
        <4>4. /\ Queued("read")' = Queued("read") + 1
              /\ Queued("connect")' = Queued("connect")
          BY <1>1, <4>2, <4>3, QueuedGrows
        <4>5. Coming' = Coming
          BY <3>1, <4>3 DEF Coming
        <4>6. CountsMove(0, 0, 0, 1)
          BY <1>1, <3>3, <4>4, <4>5 DEF CountsMove
        <4>7. CountsAgree(0, 0, 0, 1) /\ connects' \in Nat /\ answered' \in Nat
          <5>1. PICK p, p2 : p = If(processing) /\ p2 = If(processing')
            OBVIOUS
          <5>2. p = 1 /\ p2 = 0
            BY <3>2, <5>1
          <5>3. UNCHANGED <<connects, answered>>
            BY <2>1
          <5>. QED BY <1>1, <5>1, <5>2, <5>3 DEF CountsAgree
        <4>. QED BY <4>6, <4>7, CountsInv
      <3>. QED BY <3>4, <3>5
    <2>. QED BY <2>2, <2>3
  <1>13. ASSUME UNCHANGED <<processing, connects, answered>>,
                \E d \in Int, e \in Int : CountsMove(d, e, -d, -e)
         PROVE  AnsweredOnce' /\ LoopsBounded'
    <2>1. PICK d \in Int, e \in Int : CountsMove(d, e, -d, -e)
      BY <1>13
    <2>2. PICK p : p = If(processing) /\ p \in Nat
      BY DEF If
    <2>3. CountsAgree(d, e, -d, -e) /\ connects' \in Nat /\ answered' \in Nat
      BY <1>1, <1>13, <2>2 DEF CountsAgree
    <2>. QED BY <2>1, <2>3, CountsInv
  <1>14. CASE KernelConnect
    <2>1. PICK ok \in BOOLEAN : Completes("connect", ok)
      BY <1>14 DEF KernelConnect
    <2>2. /\ Queued("connect")' = Queued("connect") + 1
          /\ Queued("read")' = Queued("read")
          /\ UNCHANGED <<processing, connects, answered>>
      BY <2>1, CompletesCounts
    <2>3. /\ kernel = "connecting" /\ kernel' # "connecting"
          /\ \/ UNCHANGED <<reading, aborted>>
             \/ /\ reading' = 0
                /\ aborted' = [aborted EXCEPT !.read = @ + reading]
      BY <1>14 DEF KernelConnect
    <2>4. aborted \in [{"read", "connect"} -> Nat]
      BY DEF ClientInv, ClientTypeOK
    <2>5. Coming' = Coming /\ aborted'.connect = aborted.connect
      BY <1>1, <2>3, <2>4 DEF Coming
    <2>6. Trying' = Trying - 1
      BY <1>1, <2>3, <2>5 DEF Trying, If
    <2>7. CountsMove(-1, 0, 1, 0)
      BY <1>1, <2>2, <2>5, <2>6 DEF CountsMove
    <2>. QED BY <1>13, <2>2, <2>7
  <1>15. CASE KernelRead
    <2>1. PICK ok \in BOOLEAN : Completes("read", ok)
      BY <1>15 DEF KernelRead
    <2>2. /\ Queued("read")' = Queued("read") + 1
          /\ Queued("connect")' = Queued("connect")
          /\ UNCHANGED <<processing, connects, answered>>
      BY <2>1, CompletesCounts
    <2>3. reading' = reading - 1 /\ UNCHANGED <<kernel, aborted>>
      BY <1>15 DEF KernelRead
    <2>4. Coming' = Coming - 1 /\ Trying' = Trying
      BY <1>1, <2>3 DEF Coming, Trying
    <2>5. CountsMove(0, -1, 0, 1)
      BY <1>1, <2>2, <2>4 DEF CountsMove
    <2>. QED BY <1>13, <2>2, <2>5
  <1>16. CASE KernelAbort
    <2>1. PICK kind \in {"read", "connect"} :
            /\ aborted' = [aborted EXCEPT ![kind] = @ - 1]
            /\ Completes(kind, FALSE)
      BY <1>16 DEF KernelAbort
    <2>2. aborted \in [{"read", "connect"} -> Nat]
      BY DEF ClientInv, ClientTypeOK
    <2>3. UNCHANGED <<kernel, reading>>
      BY <1>16 DEF KernelAbort
    <2>4. UNCHANGED <<processing, connects, answered>>
      BY <2>1, CompletesCounts
    <2>5. CASE kind = "read"
      <3>1. /\ Queued("read")' = Queued("read") + 1
            /\ Queued("connect")' = Queued("connect")
        BY <2>1, <2>5, CompletesCounts
      <3>2. aborted'.read = aborted.read - 1 /\ aborted'.connect = aborted.connect
        BY <2>1, <2>2, <2>5
      <3>3. Coming' = Coming - 1 /\ Trying' = Trying
        BY <1>1, <2>3, <3>2 DEF Coming, Trying
      <3>4. CountsMove(0, -1, 0, 1)
        BY <1>1, <3>1, <3>3 DEF CountsMove
      <3>. QED BY <1>13, <2>4, <3>4
    <2>6. CASE kind = "connect"
      <3>1. /\ Queued("connect")' = Queued("connect") + 1
            /\ Queued("read")' = Queued("read")
        BY <2>1, <2>6, CompletesCounts
      <3>2. aborted'.connect = aborted.connect - 1 /\ aborted'.read = aborted.read
        BY <2>1, <2>2, <2>6
      <3>3. Trying' = Trying - 1 /\ Coming' = Coming
        BY <1>1, <2>3, <3>2 DEF Coming, Trying, If
      <3>4. CountsMove(-1, 0, 1, 0)
        BY <1>1, <3>1, <3>3 DEF CountsMove
      <3>. QED BY <1>13, <2>4, <3>4
    <2>. QED BY <2>5, <2>6
  <1>17. CASE KernelWrite
    <2>1. /\ WriteOk \/ WriteFail
          /\ UNCHANGED <<kernel, reading, aborted, processing, connects, answered>>
      BY <1>17 DEF KernelWrite, loopVars, appVars
    <2>. QED BY <1>3, <2>1, CountsKept DEF PipelineStep, ClosedOrSame
  <1>18. CASE TimerExpires
    <2>1. Completes("timer", TRUE) /\ UNCHANGED <<kernel, reading, aborted>>
      BY <1>18 DEF TimerExpires
    <2>2. /\ Queued("connect")' = Queued("connect") /\ Queued("read")' = Queued("read")
          /\ UNCHANGED <<processing, connects, answered>>
      BY <2>1, CompletesCounts
    <2>. QED BY <2>1, <2>2, CountsKept DEF ClosedOrSame
  <1>19. CASE AppDrop
    <2>1. /\ strand' = strand
          /\ UNCHANGED <<kernel, reading, aborted, processing, connects, answered>>
      BY <1>19 DEF AppDrop, sendVars, ioVars, loopVars
    <2>. QED BY <1>2, <2>1, CountsKept DEF ClosedOrSame
  <1>20. CASE Destroy
    <2>1. /\ strand' = strand /\ kernel # "connecting" /\ kernel' = "down"
          /\ UNCHANGED <<reading, aborted, processing, connects, answered>>
      BY <1>20 DEF Destroy, Unreferenced, loopVars
    <2>2. Trying' = Trying /\ Coming' = Coming
      BY <2>1 DEF Trying, Coming, If
    <2>3. CountsMove(0, 0, 0, 0)
      BY <1>1, <1>2, <2>1, <2>2 DEF CountsMove
    <2>4. CountsAgree(0, 0, 0, 0) /\ connects' \in Nat /\ answered' \in Nat
      <3>1. PICK p : p = If(processing) /\ p \in Nat
        BY DEF If
      <3>. QED BY <1>1, <2>1, <3>1 DEF CountsAgree
    <2>. QED BY <2>3, <2>4, CountsInv
  <1>. QED BY <1>4, <1>5, <1>6, <1>7, <1>8, <1>9, <1>10, <1>11, <1>12, <1>14, <1>15, <1>16,
              <1>17, <1>18, <1>19, <1>20 DEF Next, RunStrand, Kernel

\* On a closed socket send() returns at its test.
LEMMA NoSendWhenClosed ==
    ASSUME SendTypeOK, ClientTypeOK, [Next]_vars, ~open,
           \A t \in Threads : pc[t] = "idle"
    PROVE  \A t \in Threads : pc'[t] # "popping"
  <1>1. CASE pc' = pc
    BY <1>1
  <1>2. ASSUME NEW t \in Threads, SendCheck(t, Usable)
        PROVE  \A u \in Threads : pc'[u] # "popping"
    <2>1. Usable = FALSE
      BY DEF Usable, SendTypeOK, ClientTypeOK
    <2>. QED BY <1>2, <2>1 DEF SendCheck, SendTypeOK
  <1>3. CASE \E t \in Senders : Send(t)
    BY <1>2, <1>3 DEF Send, Threads
  <1>4. CASE \E t \in Threads : Pop(t) \/ Post(t)
    BY <1>4 DEF Pop, SendPop, Post, SendPost
  <1>5. CASE Callback
    <2>1. pc' = pc \/ SendCheck(OnRecv, Usable)
      BY <1>5 DEF Callback, sendVars, sendRest
    <2>. QED BY <1>1, <1>2, <2>1 DEF Threads
  <1>6. CASE RunPush \/ RunWritten \/ KernelWrite
    BY <1>1, <1>6 DEF RunPush, PushHandler, RunWritten, WrittenHandler, KernelWrite, WriteOk,
                      WriteFail
  <1>7. CASE Connect \/ AppClose \/ CloseHandler \/ ConnectHandler \/ ReadHandler
             \/ TimerHandler \/ EndProcess \/ Destroy
    BY <1>1, <1>7 DEF Connect, AppClose, CloseHandler, ConnectHandler, ReadHandler,
                      TimerHandler, EndProcess, Destroy, sendRest
  <1>8. CASE KernelConnect \/ KernelRead \/ KernelAbort \/ TimerExpires
    BY <1>1, <1>8 DEF KernelConnect, KernelRead, KernelAbort, TimerExpires, Completes, sendRest
  <1>9. CASE AppDrop \/ UNCHANGED vars
    BY <1>1, <1>9 DEF AppDrop, vars, sendVars
  <1>. QED BY <1>3, <1>4, <1>5, <1>6, <1>7, <1>8, <1>9 DEF Next, RunStrand, Kernel

\* Nothing but connect() opens the socket.
LEMMA ConnectsCounted ==
    ASSUME SendTypeOK, ClientTypeOK, [Next]_vars
    PROVE  /\ connects' \in {connects, connects + 1}
           /\ connects' = connects => (open' => open)
  <1>0. connects \in Nat
    BY DEF ClientTypeOK
  <1>a. ASSUME connects' = connects, open' = open \/ open' = FALSE
        PROVE  /\ connects' \in {connects, connects + 1}
               /\ connects' = connects => (open' => open)
    BY <1>a
  <1>1. CASE Connect
    <2>1. connects' = connects + 1
      BY <1>1 DEF Connect
    <2>. QED BY <1>0, <2>1
  <1>2. CASE AppClose \/ CloseHandler \/ ConnectHandler \/ ReadHandler \/ TimerHandler
             \/ EndProcess \/ Destroy
    BY <1>a, <1>2 DEF AppClose, CloseHandler, ConnectHandler, ReadHandler, TimerHandler,
                      EndProcess, Destroy, appVars
  <1>3. CASE \/ \E t \in Senders : Send(t)
             \/ \E t \in Threads : Pop(t) \/ Post(t)
             \/ RunPush \/ KernelWrite
    <2>1. UNCHANGED <<open, connects>>
      BY <1>3 DEF Send, SendCheck, Pop, SendPop, Post, SendPost, RunPush, PushHandler,
                  KernelWrite, WriteOk, WriteFail, clientVars, appVars
    <2>. QED BY <1>a, <2>1
  <1>4. CASE RunWritten
    <2>1. connects' = connects /\ open' = (open /\ WriteSucceeded)
      BY <1>4 DEF RunWritten, WrittenHandler, appVars
    <2>. QED BY <2>1
  <1>5. CASE Callback
    <2>1. connects' = connects /\ (open' = open \/ open' = FALSE)
      BY <1>5 DEF Callback, SendCheck, sendVars, appVars
    <2>. QED BY <1>a, <2>1
  <1>6. CASE KernelConnect \/ KernelRead \/ KernelAbort \/ TimerExpires
    <2>1. UNCHANGED <<open, connects>>
      BY <1>6 DEF KernelConnect, KernelRead, KernelAbort, TimerExpires, Completes, appVars
    <2>. QED BY <1>a, <2>1
  <1>7. CASE AppDrop \/ UNCHANGED vars
    BY <1>a, <1>7 DEF AppDrop, vars, sendVars, clientVars, appVars
  <1>. QED BY <1>1, <1>2, <1>3, <1>4, <1>5, <1>6, <1>7 DEF Next, RunStrand, Kernel

LEMMA FirstConnectionInv ==
    ASSUME ClientInv, FirstInv, [Next]_vars
    PROVE  FirstInv'
  <1>. USE DEF FirstInv
  <1>1. SendInv /\ SendTypeOK /\ ClientTypeOK /\ connects \in Nat
    BY DEF ClientInv, SendInv, ClientTypeOK
  <1>2. [SendStep]_sendVars
    BY <1>1, StepIsSendStep
  <1>3. /\ connects' \in {connects, connects + 1}
        /\ connects' = connects => (open' => open)
    BY <1>1, ConnectsCounted
  <1>4. AnsweredOnce' /\ LoopsBounded'
    <2>1. CASE Next
      BY <2>1, AttemptsInv
    <2>2. CASE UNCHANGED vars
      BY <2>2 DEF AnsweredOnce, LoopsBounded, Attempts, ReadLoops, Reads, Connects, vars,
                  clientVars, ioVars, loopVars, appVars, sendVars
    <2>. QED BY <2>1, <2>2
  <1>5. ASSUME connects = 0 PROVE Untouched'
    <2>1. ~open /\ Untouched
      BY <1>5 DEF Unconnected
    <2>2. \A t \in Threads : pc'[t] # "popping"
      BY <1>1, <2>1, NoSendWhenClosed DEF Untouched
    <2>. QED BY <1>1, <1>2, <2>1, <2>2, StaysUntouched
  <1>6. Unconnected'
    <2>. SUFFICES ASSUME connects' = 0 PROVE ~open' /\ Untouched'
      BY DEF Unconnected
    <2>1. connects = 0
      BY <1>1, <1>3
    <2>. QED BY <1>3, <1>5, <2>1 DEF Unconnected
  <1>7. ASSUME connects' <= 1 PROVE NoStall'
    <2>1. CASE connects' = connects
      BY <1>1, <1>2, <1>3, <1>7, <2>1, SendStepInv
    <2>2. CASE connects' = connects + 1
      <3>1. connects = 0
        BY <1>1, <1>7, <2>2
      <3>. QED BY <1>5, <3>1 DEF Untouched, NoStall
    <2>. QED BY <1>3, <2>1, <2>2
  <1>. QED BY <1>4, <1>6, <1>7

\* FirstInv is inductive relative to ClientInv: attempts, receive loops and the
\* untouched pipeline of a client that has not called connect() yet.
THEOREM FirstInvariance == Spec => [](ClientInv /\ FirstInv)
  <1>1. Init => FirstInv
    <2>. SUFFICES ASSUME Init PROVE FirstInv
      OBVIOUS
    <2>1. /\ Reads = {} /\ Connects = {} /\ Pushes = {} /\ send_queue = <<>> /\ ~open
          /\ reading = 0 /\ ~processing /\ connects = 0 /\ answered = 0 /\ kernel = "down"
          /\ aborted.read = 0 /\ aborted.connect = 0
          /\ \A t \in Threads : pc[t] = "idle"
      BY DEF Init, SendInit, Reads, Connects, Pushes
    <2>2. ReadLoops = 0 /\ Attempts = 0
      BY <2>1, FS_EmptySet DEF ReadLoops, Attempts, If
    <2>. QED BY <2>1, <2>2 DEF FirstInv, AnsweredOnce, LoopsBounded, Unconnected, Untouched,
                NoStall
  <1>2. ClientInv /\ FirstInv /\ [Next]_vars => FirstInv'
    BY FirstConnectionInv
  <1>. QED BY <1>1, <1>2, Invariance, PTL DEF Spec

\* Each call of connect() is answered by exactly one call of its callback:
\* what was not answered yet is still under way, whatever close() and the
\* completions of earlier connections do.
THEOREM EveryAttemptCounts == Spec => []AnsweredOnce
  <1>1. FirstInv => AnsweredOnce
    BY DEF FirstInv
  <1>. QED BY <1>1, FirstInvariance, PTL

\* On its first connection a client has no second receive loop and never
\* forgets to write: what goes wrong later needs a second connect().
THEOREM FirstConnectionServes == Spec => []FirstConnection
  <1>1. ClientInv /\ FirstInv => FirstConnection
    <2>. SUFFICES ASSUME ClientInv, FirstInv, connects <= 1
                  PROVE  ReadLoops <= 1 /\ NeverStuck
      BY DEF FirstConnection
    <2>1. ReadLoops \in Nat /\ Attempts \in Nat /\ connects \in Nat
      BY UnderWay DEF If
    <2>2. ReadLoops <= 1
      BY <2>1 DEF FirstInv, LoopsBounded
    <2>3. NeverStuck
      BY DEF FirstInv, ClientInv, ConnectedIsOpen, NoStall, NeverStuck
    <2>. QED BY <2>2, <2>3
  <1>. QED BY <1>1, FirstInvariance, PTL
=============================================================================
