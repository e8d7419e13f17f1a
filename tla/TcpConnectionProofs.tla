------------------------- MODULE TcpConnectionProofs -------------------------
(***************************************************************************)
(* The invariants of TcpConnection, for any number of threads, buffers,    *)
(* sends and frames and every fault.                                       *)
(***************************************************************************)
EXTENDS TcpConnection, SendPathProofs

\* The state of this module, without the send pipeline's.
ConnTypeOK ==
    /\ started \in {"no", "armed", "yes"}
    /\ reading \in BOOLEAN
    /\ timer \in BOOLEAN
    /\ processing \in BOOLEAN
    /\ frames \in 0 .. MaxFrames
    /\ malformed \in BOOLEAN
    /\ discs \in Nat
    /\ closes \in 0 .. MaxCloses
    /\ alive \in BOOLEAN
    /\ freed \subseteq Buffers

\* Nothing reads before start() does.
NoEarlyRead == started # "yes" => ~reading /\ Reads = {} /\ ~processing

ConnInv ==
    /\ SendInv
    /\ NoStall
    /\ ConnTypeOK
    /\ DisconnectOnce
    /\ DestructorFreesAll
    /\ NoEarlyRead
    /\ OneReadLoop
-----------------------------------------------------------------------------
\* The socket of a connection is never opened again.
LEMMA StaysClosed ==
    ASSUME SendTypeOK, [Next]_vars
    PROVE  open' => open
  <1>. USE DEF sendVars
  <1>1. CASE UNCHANGED vars \/ StartTimer \/ StartRead \/ AppClose \/ Destroy
    BY <1>1 DEF vars, StartTimer, StartRead, AppClose, Destroy
  <1>2. CASE \E t \in Threads : Send(t) \/ Pop(t) \/ Post(t)
    BY <1>2 DEF Send, SendCheck, Pop, SendPop, Post, SendPost
  <1>3. CASE RunPush \/ RunWritten \/ KernelWrite
    BY <1>3 DEF RunPush, PushHandler, RunWritten, WrittenHandler, KernelWrite,
                WriteOk, WriteFail, SendTypeOK
  <1>4. CASE ReadHandler \/ TimerHandler \/ CloseHandler
    BY <1>4 DEF ReadHandler, ProcessBuffer, TimerHandler, CloseHandler
  <1>5. CASE Deliver \/ EndProcess
    BY <1>5 DEF Deliver, SendCheck, EndProcess
  <1>6. CASE KernelRead \/ TimerExpires
    BY <1>6 DEF KernelRead, TimerExpires
  <1>. QED BY <1>1, <1>2, <1>3, <1>4, <1>5, <1>6 DEF Next, RunStrand, Threads

\* What a connection does to its pipeline: a write succeeds or fails as the
\* socket is open or not, and a socket that is closed stays closed.
SocketStep ==
    /\ open' => open
    /\ \/ \E t \in Threads, usable \in BOOLEAN : SendCheck(t, usable)
       \/ \E t \in Threads : SendPop(t)
       \/ \E t \in Threads : SendPost(t)
       \/ PushHandler(open)
       \/ WriteOk
       \/ WriteFail
       \/ WrittenHandler(open)
       \/ EndpointStep

LEMMA StepIsSocketStep ==
    ASSUME SendTypeOK, [Next]_vars
    PROVE  [SocketStep]_sendVars
  <1>0. open' => open
    BY StaysClosed
  <1>. USE <1>0 DEF SendTypeOK, EndpointStep, Foreign, Handler, Handlers, HandlerKinds
  <1>1. CASE UNCHANGED vars \/ StartTimer \/ Destroy
    BY <1>1 DEF vars, sendVars, StartTimer, Destroy
  <1>2. CASE StartRead
    <2>1. EndpointStep
      BY <1>2 DEF StartRead, StartReceive
    <2>. QED BY <2>1 DEF SocketStep
  <1>3. CASE AppClose
    <2>1. EndpointStep
      BY <1>3 DEF AppClose
    <2>. QED BY <2>1 DEF SocketStep
  <1>4. CASE \E t \in Senders : Send(t)
    BY <1>4 DEF Send, SocketStep, Threads
  <1>5. CASE \E t \in Threads : Pop(t) \/ Post(t)
    BY <1>5 DEF Pop, Post, SocketStep
  <1>6. CASE RunPush \/ RunWritten \/ KernelWrite
    BY <1>6 DEF RunPush, RunWritten, KernelWrite, SocketStep
  <1>7. CASE CloseHandler
    <2>1. EndpointStep
      BY <1>7 DEF CloseHandler, Next1st
    <2>. QED BY <2>1 DEF SocketStep
  <1>8. CASE TimerHandler
    <2>1. EndpointStep
      BY <1>8 DEF TimerHandler, Next1st
    <2>. QED BY <2>1 DEF SocketStep
  <1>9. CASE ReadHandler
    <2>1. EndpointStep
      BY <1>9 DEF ReadHandler, ProcessBuffer, Next1st
    <2>. QED BY <2>1 DEF SocketStep
  <1>10. CASE Deliver
    <2>1. \/ UNCHANGED sendVars
          \/ open' = FALSE /\ strand' = strand /\ UNCHANGED sendRest
          \/ SendCheck(OnRecv, open)
      BY <1>10 DEF Deliver
    <2>2. CASE open' = FALSE /\ strand' = strand /\ UNCHANGED sendRest
      <3>1. EndpointStep
        BY <2>2
      <3>. QED BY <3>1 DEF SocketStep
    <2>3. CASE SendCheck(OnRecv, open)
      BY <2>3 DEF SocketStep, Threads
    <2>. QED BY <2>1, <2>2, <2>3
  <1>11. CASE EndProcess
    <2>1. EndpointStep
      BY <1>11 DEF EndProcess, StartReceive
    <2>. QED BY <2>1 DEF SocketStep
  <1>12. CASE TimerExpires
    <2>1. EndpointStep
      BY <1>12 DEF TimerExpires
    <2>. QED BY <2>1 DEF SocketStep
  <1>13. CASE KernelRead
    <2>1. EndpointStep
      BY <1>13 DEF KernelRead
    <2>. QED BY <2>1 DEF SocketStep
  <1>. QED BY <1>1, <1>2, <1>3, <1>4, <1>5, <1>6, <1>7, <1>8, <1>9, <1>10,
              <1>11, <1>12, <1>13 DEF Next, RunStrand

\* To the send pipeline every step of the connection is a SendStep.
LEMMA StepIsSendStep ==
    ASSUME SendTypeOK, [Next]_vars
    PROVE  [SendStep]_sendVars
  <1>1. open \in BOOLEAN
    BY DEF SendTypeOK
  <1>. QED BY <1>1, StepIsSocketStep DEF SocketStep, SendStep

\* The number of read completions on the strand, as far as it matters.
AtMostOneRead == \A i, j \in Reads : i = j

LEMMA HandlerIsHandler ==
    ASSUME NEW kind \in HandlerKinds, NEW b \in Buffers \cup {None},
           NEW ok \in BOOLEAN
    PROVE  Handler(kind, b, ok) \in Handlers /\ Handler(kind, b, ok).kind = kind
  BY DEF Handler, Handlers

LEMMA ReadsGrow ==
    ASSUME SendTypeOK, NEW kind \in HandlerKinds, NEW b \in Buffers \cup {None},
           NEW ok \in BOOLEAN, strand' = Append(strand, Handler(kind, b, ok))
    PROVE  /\ kind # "read" => Reads' = Reads
           /\ kind = "read" => Reads' = Reads \cup {Len(strand) + 1}
  <1>1. Handler(kind, b, ok) \in Handlers /\ Handler(kind, b, ok).kind = kind
    BY HandlerIsHandler
  <1>2. /\ Len(strand) \in Nat
        /\ DOMAIN strand = 1 .. Len(strand)
        /\ DOMAIN strand' = 1 .. Len(strand) + 1
        /\ \A i \in 1 .. Len(strand) : strand'[i] = strand[i]
        /\ strand'[Len(strand) + 1] = Handler(kind, b, ok)
    BY <1>1, LongerStrand DEF SendTypeOK
  <1>. QED BY <1>1, <1>2 DEF Reads

LEMMA ReadsShift ==
    ASSUME SendTypeOK, strand # <<>>, NEW h \in Handlers, h.kind # "read",
           strand' \in {Tail(strand), Append(Tail(strand), h)}, AtMostOneRead
    PROVE  /\ Head(strand).kind # "read" =>
                AtMostOneRead' /\ (Reads' = {} <=> Reads = {})
           /\ Head(strand).kind = "read" => Reads' = {} /\ Reads # {}
  <1>1. /\ Len(strand) \in Nat \ {0}
        /\ DOMAIN strand = 1 .. Len(strand)
        /\ Head(strand) = strand[1]
    BY RestOfStrand DEF SendTypeOK
  <1>2. /\ \A i \in 1 .. Len(strand) - 1 :
             i \in DOMAIN strand' /\ strand'[i] = strand[i + 1]
        /\ \A i \in DOMAIN strand' :
             i \in 1 .. Len(strand) - 1 \/ (i = Len(strand) /\ strand'[i] = h)
    <2>1. strand \in Seq(Handlers)
      BY DEF SendTypeOK
    <2>. QED BY <2>1, StrandAfter
  <1>3. \A i \in 2 .. Len(strand) :
          i - 1 \in DOMAIN strand' /\ strand'[i - 1] = strand[i]
    BY <1>1, <1>2
  <1>4. \A i \in Reads' : i \in Int /\ i + 1 \in Reads /\ i + 1 # 1
    BY <1>1, <1>2 DEF Reads
  <1>5. \A i \in Reads : i # 1 => i - 1 \in Reads'
    BY <1>1, <1>3 DEF Reads
  <1>6. 1 \in Reads <=> Head(strand).kind = "read"
    BY <1>1 DEF Reads
  <1>. QED BY <1>4, <1>5, <1>6 DEF AtMostOneRead

\* A step of the pipeline, and a step that adds or runs a handler other than a
\* read completion, leaves the receive loop alone.
LEMMA ReadLoopKept ==
    ASSUME ConnInv, UNCHANGED <<started, reading, processing>>, open' => open,
           AtMostOneRead', Reads' = {} <=> Reads = {}
    PROVE  NoEarlyRead' /\ OneReadLoop'
  BY DEF ConnInv, NoEarlyRead, OneReadLoop, AtMostOneRead

LEMMA ReadLoopInv ==
    ASSUME ConnInv, Next
    PROVE  NoEarlyRead' /\ OneReadLoop'
  <1>. USE DEF ConnInv
  <1>0. SendTypeOK /\ AtMostOneRead /\ open \in BOOLEAN
    BY DEF SendInv, SendTypeOK, OneReadLoop, AtMostOneRead
  <1>1. CASE StartTimer
    BY <1>1 DEF StartTimer, sendVars, NoEarlyRead, OneReadLoop, Reads
  <1>2. CASE StartRead
    <2>1. Reads = {} /\ ~reading /\ ~processing
      BY <1>2 DEF StartRead, NoEarlyRead
    <2>2. CASE open
      <3>1. Reads' = {}
        BY <1>2, <2>1, <2>2 DEF StartRead, StartReceive, Reads
      <3>. QED BY <3>1, <2>1, <2>2, <1>2
               DEF StartRead, StartReceive, NoEarlyRead, OneReadLoop
    <2>3. CASE ~open
      <3>1. Reads' = {Len(strand) + 1}
        BY <1>0, <1>2, <2>1, <2>3, ReadsGrow
           DEF StartRead, StartReceive, HandlerKinds
      <3>. QED BY <3>1, <2>1, <2>3, <1>2
               DEF StartRead, StartReceive, NoEarlyRead, OneReadLoop
    <2>. QED BY <2>2, <2>3
  <1>3. CASE AppClose
    <2>1. Reads' = Reads
      BY <1>0, <1>3, ReadsGrow DEF AppClose, HandlerKinds
    <2>. QED BY <2>1, <1>0, <1>3, ReadLoopKept DEF AppClose, AtMostOneRead
  <1>4. CASE (\E t \in Senders : Send(t)) \/ \E t \in Threads : Pop(t)
    <2>1. UNCHANGED <<strand, open, started, reading, processing>>
      BY <1>4 DEF Send, SendCheck, Pop, SendPop, connVars
    <2>. QED BY <2>1, <1>0, ReadLoopKept DEF AtMostOneRead, Reads
  <1>5. CASE \E t \in Threads : Post(t)
    <2>1. PICK t \in Threads : Post(t)
      BY <1>5
    <2>2. held[t] \in Buffers \cup {None}
      BY <1>0 DEF SendTypeOK
    <2>3. Reads' = Reads
      BY <1>0, <2>1, <2>2, ReadsGrow DEF Post, SendPost, HandlerKinds
    <2>. QED BY <2>1, <2>3, <1>0, ReadLoopKept
             DEF Post, SendPost, connVars, AtMostOneRead
  <1>6. CASE RunPush
    <2>1. /\ strand # <<>> /\ Head(strand).kind = "push"
          /\ strand' \in {Tail(strand),
                          Append(Tail(strand), Handler("written", None, FALSE))}
          /\ UNCHANGED <<started, reading, processing, open>>
      BY <1>6 DEF RunPush, PushHandler, Next1st, DoWrite, connVars
    <2>2. /\ Handler("written", None, FALSE) \in Handlers
          /\ Handler("written", None, FALSE).kind # "read"
      BY HandlerIsHandler DEF HandlerKinds
    <2>3. AtMostOneRead' /\ (Reads' = {} <=> Reads = {})
      BY <1>0, <2>1, <2>2, ReadsShift
    <2>. QED BY <2>1, <2>3, ReadLoopKept
  <1>7. CASE RunWritten
    <2>1. /\ strand # <<>> /\ Head(strand).kind = "written"
          /\ strand' \in {Tail(strand),
                          Append(Tail(strand), Handler("written", None, FALSE))}
          /\ UNCHANGED <<started, reading, processing>>
          /\ open' => open
      BY <1>7 DEF RunWritten, WrittenHandler, Next1st, DoWrite
    <2>2. /\ Handler("written", None, FALSE) \in Handlers
          /\ Handler("written", None, FALSE).kind # "read"
      BY HandlerIsHandler DEF HandlerKinds
    <2>3. AtMostOneRead' /\ (Reads' = {} <=> Reads = {})
      BY <1>0, <2>1, <2>2, ReadsShift
    <2>. QED BY <2>1, <2>3, ReadLoopKept
  <1>8. CASE KernelWrite
    <2>1. PICK ok \in BOOLEAN : strand' = Append(strand, Handler("written", None, ok))
      BY <1>8 DEF KernelWrite, WriteOk, WriteFail
    <2>2. Reads' = Reads
      BY <1>0, <2>1, ReadsGrow DEF HandlerKinds
    <2>3. UNCHANGED <<started, reading, processing, open>>
      BY <1>8 DEF KernelWrite, WriteOk, WriteFail, connVars
    <2>. QED BY <2>2, <2>3, <1>0, ReadLoopKept DEF AtMostOneRead
  <1>9. CASE CloseHandler \/ TimerHandler
    <2>1. /\ strand # <<>> /\ Head(strand).kind \in {"close", "timer"}
          /\ strand' = Tail(strand)
          /\ UNCHANGED <<started, reading, processing>>
          /\ open' => open
      BY <1>9 DEF CloseHandler, TimerHandler, Next1st
    <2>2. PICK h \in Handlers : h.kind # "read"
      BY HandlerIsHandler DEF HandlerKinds
    <2>3. AtMostOneRead' /\ (Reads' = {} <=> Reads = {})
      BY <1>0, <2>1, <2>2, ReadsShift
    <2>. QED BY <2>1, <2>3, ReadLoopKept
  <1>10. CASE ReadHandler
    <2>1. /\ strand # <<>> /\ Head(strand).kind = "read"
          /\ strand' = Tail(strand)
          /\ UNCHANGED <<started, reading>>
          /\ Head(strand).ok => processing'
          /\ ~Head(strand).ok => ~open' /\ processing' = processing
          /\ ~processing
      BY <1>10 DEF ReadHandler, ProcessBuffer, Next1st
    <2>2. PICK h \in Handlers : h.kind # "read"
      BY HandlerIsHandler DEF HandlerKinds
    <2>3. Reads' = {} /\ Reads # {}
      BY <1>0, <2>1, <2>2, ReadsShift
    <2>. QED BY <2>1, <2>3 DEF NoEarlyRead, OneReadLoop
  <1>11. CASE Deliver
    <2>1. /\ strand' = strand /\ (open' => open)
          /\ UNCHANGED <<started, reading, processing>>
      BY <1>11 DEF Deliver, sendVars, SendCheck
    <2>. QED BY <2>1, <1>0, ReadLoopKept DEF AtMostOneRead, Reads
  <1>12. CASE EndProcess
    <2>1. Reads = {} /\ ~reading /\ ~processing' /\ started' = started
          /\ started = "yes"
      BY <1>12 DEF EndProcess, OneReadLoop, NoEarlyRead
    <2>2. CASE malformed
      <3>1. ~open' /\ strand' = strand /\ reading' = reading
        BY <1>12, <2>2 DEF EndProcess
      <3>. QED BY <3>1, <2>1 DEF NoEarlyRead, OneReadLoop, Reads
    <2>3. CASE ~malformed /\ open
      <3>1. reading' /\ strand' = strand
        BY <1>12, <2>3 DEF EndProcess, StartReceive
      <3>2. Reads' = {}
        BY <3>1, <2>1 DEF Reads
      <3>. QED BY <3>1, <3>2, <2>1 DEF NoEarlyRead, OneReadLoop
    <2>4. CASE ~malformed /\ ~open
      <3>1. /\ reading' = reading /\ open' = open
            /\ strand' = Append(strand, Handler("read", None, FALSE))
        BY <1>12, <2>1, <2>4 DEF EndProcess, StartReceive, ConnTypeOK
      <3>2. Reads' = {Len(strand) + 1}
        BY <1>0, <3>1, <2>1, ReadsGrow DEF HandlerKinds
      <3>. QED BY <3>1, <3>2, <2>1 DEF NoEarlyRead, OneReadLoop
    <2>. QED BY <2>2, <2>3, <2>4
  <1>13. CASE TimerExpires
    <2>1. Reads' = Reads
      BY <1>0, <1>13, ReadsGrow DEF TimerExpires, HandlerKinds
    <2>. QED BY <2>1, <1>0, <1>13, ReadLoopKept DEF TimerExpires, AtMostOneRead
  <1>14. CASE KernelRead
    <2>1. PICK ok \in BOOLEAN : strand' = Append(strand, Handler("read", None, ok))
      BY <1>14 DEF KernelRead
    <2>2. Reads = {} /\ ~processing /\ started = "yes"
      BY <1>14 DEF KernelRead, OneReadLoop, NoEarlyRead
    <2>3. Reads' = {Len(strand) + 1}
      BY <1>0, <2>1, <2>2, ReadsGrow DEF HandlerKinds
    <2>. QED BY <2>2, <2>3, <1>14 DEF KernelRead, NoEarlyRead, OneReadLoop
  <1>15. CASE Destroy
    <2>1. UNCHANGED <<strand, open, started, reading, processing>>
      BY <1>15 DEF Destroy, sendVars
    <2>. QED BY <2>1, <1>0, ReadLoopKept DEF AtMostOneRead, Reads
  <1>. QED BY <1>1, <1>2, <1>3, <1>4, <1>5, <1>6, <1>7, <1>8, <1>9, <1>10,
              <1>11, <1>12, <1>13, <1>14, <1>15 DEF Next, RunStrand

LEMMA DisconnectInv ==
    ASSUME ConnInv, Next
    PROVE  DisconnectOnce'
  <1>. USE DEF ConnInv, DisconnectOnce
  <1>1. open \in BOOLEAN
    BY DEF SendInv, SendTypeOK
  <1>2. CASE UNCHANGED <<open, discs>>
    BY <1>2
  <1>3. CASE CloseEffect /\ open' = FALSE
    BY <1>1, <1>3 DEF CloseEffect
  <1>4. CASE StartTimer \/ StartRead \/ AppClose \/ TimerExpires \/ KernelRead \/ Destroy
    BY <1>2, <1>4 DEF StartTimer, StartRead, AppClose, TimerExpires, KernelRead,
       Destroy, sendVars
  <1>5. CASE (\E t \in Senders : Send(t)) \/ \E t \in Threads : Pop(t) \/ Post(t)
    BY <1>2, <1>5 DEF Send, SendCheck, Pop, SendPop, Post, SendPost, connVars
  <1>6. CASE RunPush \/ KernelWrite
    BY <1>2, <1>6 DEF RunPush, PushHandler, KernelWrite, WriteOk, WriteFail, connVars
  <1>7. CASE RunWritten
    BY <1>1, <1>2, <1>3, <1>7 DEF RunWritten, WrittenHandler, WriteSucceeded
  <1>8. CASE CloseHandler \/ TimerHandler
    BY <1>2, <1>3, <1>8 DEF CloseHandler, TimerHandler
  <1>9. CASE ReadHandler
    BY <1>2, <1>3, <1>9 DEF ReadHandler, ProcessBuffer
  <1>10. CASE Deliver
    BY <1>2, <1>3, <1>10 DEF Deliver, sendVars, SendCheck
  <1>11. CASE EndProcess
    BY <1>2, <1>3, <1>11 DEF EndProcess
  <1>. QED BY <1>4, <1>5, <1>6, <1>7, <1>8, <1>9, <1>10, <1>11 DEF Next, RunStrand

\* No caller of send() and no handler holds a buffer when the destructor runs.
LEMMA DestroyFreesAll ==
    ASSUME ConnInv, Destroy
    PROVE  freed' = Buffers
  <1>. USE DEF ConnInv, SendInv
  <1>1. freed' = pool \cup {send_queue[i] : i \in DOMAIN send_queue}
    BY DEF Destroy, Deleted
  <1>2. \A t \in Threads : held[t] = None
    BY DEF Destroy, Unreferenced, Holding
  <1>3. Pushes = {}
    BY DEF Destroy, Unreferenced, Pushes
  <1>4. send_queue \in [1 .. Len(send_queue) -> Buffers]
    BY LenProperties DEF SendTypeOK
  <1>5. freed' \subseteq Buffers
    BY <1>1, <1>4 DEF SendTypeOK
  <1>6. \A b \in Buffers : b \in freed'
    BY <1>1, <1>2, <1>3, SendPathAssumption DEF BufferOwnership, NoBufferLost
  <1>. QED BY <1>5, <1>6

LEMMA DestructorInv ==
    ASSUME ConnInv, Next
    PROVE  DestructorFreesAll' /\ (freed' \subseteq Buffers) /\ alive' \in BOOLEAN
  <1>. USE DEF ConnInv, DestructorFreesAll, ConnTypeOK
  <1>1. CASE UNCHANGED <<alive, freed>>
    BY <1>1
  <1>2. CASE Destroy
    BY <1>2, DestroyFreesAll DEF Destroy
  <1>3. CASE StartTimer \/ StartRead \/ AppClose \/ TimerExpires \/ KernelRead
    BY <1>1, <1>3 DEF StartTimer, StartRead, AppClose, TimerExpires, KernelRead
  <1>4. CASE (\E t \in Senders : Send(t)) \/ \E t \in Threads : Pop(t) \/ Post(t)
    BY <1>1, <1>4 DEF Send, Pop, Post, connVars
  <1>5. CASE RunStrand \/ KernelWrite
    BY <1>1, <1>5 DEF RunStrand, RunPush, RunWritten, ReadHandler, TimerHandler,
       CloseHandler, Deliver, EndProcess, KernelWrite, connVars
  <1>. QED BY <1>2, <1>3, <1>4, <1>5 DEF Next

LEMMA ConnTypeInv ==
    ASSUME ConnInv, Next
    PROVE  ConnTypeOK'
  <1>. USE DEF ConnInv, ConnTypeOK
  <1>0. open \in BOOLEAN /\ (freed' \subseteq Buffers) /\ alive' \in BOOLEAN
    BY DestructorInv DEF SendInv, SendTypeOK
  <1>. USE <1>0, TcpConnectionAssumption
  <1>a. ResetReadTimeout => timer' \in BOOLEAN
    BY DEF ResetReadTimeout
  <1>b. \A s : StartReceive(s) => reading' \in BOOLEAN
    BY DEF StartReceive
  <1>c. CloseEffect => timer' \in BOOLEAN /\ discs' \in Nat
    BY DEF CloseEffect
  <1>1. CASE StartTimer
    BY <1>a, <1>1 DEF StartTimer
  <1>2. CASE StartRead
    BY <1>b, <1>2 DEF StartRead
  <1>3. CASE AppClose
    BY <1>3 DEF AppClose
  <1>4. CASE (\E t \in Senders : Send(t)) \/ \E t \in Threads : Pop(t) \/ Post(t)
    BY <1>4 DEF Send, Pop, Post, connVars
  <1>5. CASE RunPush \/ KernelWrite
    BY <1>5 DEF RunPush, KernelWrite, connVars
  <1>6. CASE RunWritten \/ CloseHandler \/ TimerHandler
    BY <1>c, <1>6 DEF RunWritten, CloseHandler, TimerHandler
  <1>7. CASE ReadHandler
    BY <1>c, <1>7 DEF ReadHandler, ProcessBuffer
  <1>8. CASE Deliver
    <2>1. /\ UNCHANGED <<started, reading, processing, malformed, closes>>
          /\ frames' = frames - 1 /\ frames > 0
          /\ UNCHANGED <<timer, discs>> \/ CloseEffect
      BY <1>8 DEF Deliver, HaveFrame
    <2>. QED BY <1>c, <2>1
  <1>9. CASE EndProcess
    BY <1>a, <1>b, <1>c, <1>9 DEF EndProcess
  <1>10. CASE TimerExpires \/ KernelRead \/ Destroy
    BY <1>10 DEF TimerExpires, KernelRead, Destroy
  <1>. QED BY <1>1, <1>2, <1>3, <1>4, <1>5, <1>6, <1>7, <1>8, <1>9, <1>10
           DEF Next, RunStrand
-----------------------------------------------------------------------------
\* The strengthened invariant holds in every state of the connection.
THEOREM Invariance == Spec => []ConnInv
  <1>1. Init => ConnInv
    <2>. SUFFICES ASSUME Init PROVE ConnInv
      OBVIOUS
    <2>1. SendInv /\ NoStall
      BY SendInvInit DEF Init
    <2>2. Reads = {}
      BY DEF Init, SendInit, Reads
    <2>3. 0 \in 0 .. MaxFrames /\ 0 \in 0 .. MaxCloses /\ 0 \in Nat
      BY TcpConnectionAssumption
    <2>4. ConnTypeOK
      BY <2>3 DEF Init, ConnTypeOK
    <2>. QED BY <2>1, <2>2, <2>4 DEF ConnInv, Init, SendInit, DisconnectOnce,
                DestructorFreesAll, NoEarlyRead, OneReadLoop
  <1>2. ConnInv /\ [Next]_vars => ConnInv'
    <2>. SUFFICES ASSUME ConnInv, [Next]_vars PROVE ConnInv'
      OBVIOUS
    <2>1. SendInv' /\ NoStall'
      BY StepIsSendStep, StaysClosed, SendStepInv DEF ConnInv, SendInv
    <2>2. CASE Next
      BY <2>1, <2>2, ConnTypeInv, DisconnectInv, DestructorInv, ReadLoopInv DEF ConnInv
    <2>3. CASE UNCHANGED vars
      BY <2>1, <2>3 DEF ConnInv, vars, connVars, sendVars, ConnTypeOK,
         DisconnectOnce, DestructorFreesAll, NoEarlyRead, OneReadLoop, Reads
    <2>. QED BY <2>2, <2>3
  <1>. QED BY <1>1, <1>2, PTL DEF Spec

\* TcpConnection keeps its variables within their types: in particular the
\* completion of a write recycles buffers only, because active_writes_ never
\* exceeds the length of send_queue_.
THEOREM TypeCorrect == Spec => []TypeOK
  <1>1. ConnInv => TypeOK
    BY DEF ConnInv, SendInv, ConnTypeOK, TypeOK
  <1>. QED BY <1>1, Invariance, PTL

\* Every buffer has exactly one owner, whatever the number of threads.
THEOREM BuffersOwned == Spec => []BufferOwnership
  <1>1. ConnInv => BufferOwnership
    BY DEF ConnInv, SendInv
  <1>. QED BY <1>1, Invariance, PTL

\* send_queue_ never overwrites: it is as large as the pool, and a buffer is
\* never queued twice.
THEOREM QueueNeverOverwrites == Spec => []NoOverwrite
  <1>1. ConnInv => NoOverwrite
    BY NoOverwriteHolds DEF ConnInv, SendInv, BufferOwnership
  <1>. QED BY <1>1, Invariance, PTL

\* There is one async_write at a time, for the front of send_queue_.
THEOREM WritesExclusive == Spec => []OneWrite
  <1>1. ConnInv => OneWrite
    BY DEF ConnInv, SendInv
  <1>. QED BY <1>1, Invariance, PTL

\* An open connection with queued buffers always has a write outstanding.
THEOREM WriterNeverStalls == Spec => []NoStall
  <1>1. ConnInv => NoStall
    BY DEF ConnInv
  <1>. QED BY <1>1, Invariance, PTL

\* The receive loop neither forks nor dies while the socket is open.
THEOREM ReadsExclusive == Spec => []OneReadLoop
  <1>1. ConnInv => OneReadLoop
    BY DEF ConnInv
  <1>. QED BY <1>1, Invariance, PTL

\* on_disc_ is called once, by whichever of the competing causes closes the
\* socket first.
THEOREM DisconnectedOnce == Spec => []DisconnectOnce
  <1>1. ConnInv => DisconnectOnce
    BY DEF ConnInv
  <1>. QED BY <1>1, Invariance, PTL

\* The destructor deletes every buffer of the pool.
THEOREM NoPoolLeak == Spec => []DestructorFreesAll
  <1>1. ConnInv => DestructorFreesAll
    BY DEF ConnInv
  <1>. QED BY <1>1, Invariance, PTL
-----------------------------------------------------------------------------
(***************************************************************************)
(* The stream of a connection is the abstract ordered stream.              *)
(***************************************************************************)

\* The number of the last message that has left the strand.
Lead == (Len(wire) - OutAlready) + Len(send_queue)

PushNumbers == {data[strand[i].buf] : i \in Pushes}

\* Until the stream goes down every posted message is on the wire, in the queue
\* or on the strand, at the place that its number says.
QueueNumbered ==
    /\ OutAlready <= Len(wire)
    /\ \A j \in DOMAIN send_queue : data[send_queue[j]] = (Len(wire) - OutAlready) + j

WireNumbered == \A i \in DOMAIN wire : wire[i] = i

PushesNumbered == Lead <= posted /\ PushNumbers = Lead + 1 .. posted

Numbered == WireNumbered /\ (~StreamDown => QueueNumbered /\ PushesNumbered)

StreamInv == SendInv /\ InOrder /\ Numbered

StreamStep == [Stream!StreamNext]_(Stream!streamVars)

\* The wire is 1, 2, ... up to a posted message.
LEMMA WireIsCount ==
    ASSUME StreamInv
    PROVE  /\ Len(wire) \in Nat /\ Len(wire) <= posted /\ posted \in Nat
           /\ wire = [i \in 1 .. Len(wire) |-> i]
  <1>1. Numbers /\ wire \in Seq(Nat)
    BY AllNumbers DEF StreamInv, SendInv, SendTypeOK
  <1>2. Len(wire) \in Nat /\ posted \in Nat /\ DOMAIN wire = 1 .. Len(wire)
    BY <1>1 DEF Numbers
  <1>3. \A i \in 1 .. Len(wire) : wire[i] = i /\ wire[i] <= posted
    BY <1>2 DEF StreamInv, Numbered, WireNumbered, InOrder, PostedBound
  <1>4. Len(wire) <= posted
    <2>1. CASE Len(wire) = 0
      BY <1>2, <2>1
    <2>2. CASE Len(wire) # 0
      <3>1. Len(wire) \in 1 .. Len(wire)
        BY <1>2, <2>2
      <3>. QED BY <1>3, <3>1
    <2>. QED BY <2>1, <2>2
  <1>5. wire = [i \in 1 .. Len(wire) |-> i]
    <2>1. wire = [i \in DOMAIN wire |-> wire[i]]
      BY <1>1
    <2>. QED BY <1>2, <1>3, <2>1
  <1>. QED BY <1>2, <1>4, <1>5

\* A step that transmits nothing can at most take the stream down.
LEMMA QuietStep ==
    ASSUME StreamInv, UNCHANGED <<posted, wire>>, StreamDown => StreamDown'
    PROVE  StreamStep
  <1>1. CASE StreamDown' = StreamDown
    BY <1>1 DEF StreamStep, Stream!streamVars
  <1>2. CASE ~StreamDown /\ StreamDown'
    <2>1. Len(wire) \in Len(wire) .. posted
      BY WireIsCount
    <2>2. wire' = [i \in 1 .. Len(wire) |-> i]
      BY WireIsCount
    <2>3. Stream!Break
      BY <1>2, <2>1, <2>2 DEF Stream!Break, Stream!OutUpTo
    <2>. QED BY <2>3 DEF StreamStep, Stream!StreamNext
  <1>. QED BY <1>1, <1>2 DEF StreamDown

LEMMA NumberedKept ==
    ASSUME Numbered, UNCHANGED <<data, posted, wire, send_queue>>,
           OutAlready' = OutAlready, PushNumbers' = PushNumbers,
           StreamDown => StreamDown'
    PROVE  Numbered'
  BY DEF Numbered, WireNumbered, QueueNumbered, PushesNumbered, Lead

\* Nothing but the endpoint's own state moves.
LEMMA StrandKept ==
    ASSUME StreamInv, UNCHANGED sendRest, open' => open,
           \/ strand' = strand
           \/ EndpointStep
    PROVE  Numbered' /\ StreamStep
  <1>. USE DEF StreamInv
  <1>1. UNCHANGED <<data, posted, wire, send_queue, active_writes, writes>>
    BY DEF sendRest
  <1>2. /\ \A i \in Pushes : \E j \in Pushes' : strand'[j] = strand[i]
        /\ \A j \in Pushes' : \E i \in Pushes : strand'[j] = strand[i]
        /\ Writtens' = {} <=> Writtens = {}
        /\ \A i \in Writtens : \E j \in Writtens' : strand'[j] = strand[i]
    <2>1. CASE strand' = strand
      BY <2>1 DEF Pushes, Writtens
    <2>2. CASE EndpointStep
      <3>1. \A j \in Pushes' : \E i \in Pushes : strand'[j] = strand[i]
        BY <2>2, EndpointMoves DEF PushesStay, PushesShift
      <3>. QED BY <2>2, <3>1, EndpointMoves
    <2>. QED BY <2>1, <2>2
  <1>3. OutAlready' = OutAlready
    BY <1>1, <1>2 DEF OutAlready
  <1>4. PushNumbers' = PushNumbers
    BY <1>1, <1>2 DEF PushNumbers
  <1>5. StreamDown => StreamDown'
    BY <1>1, <1>2 DEF StreamDown
  <1>. QED BY <1>1, <1>3, <1>4, <1>5, NumberedKept, QuietStep

\* send() posts the next number.
LEMMA PostStream ==
    ASSUME StreamInv, NEW t \in Threads, SendPost(t)
    PROVE  Numbered' /\ StreamStep
  <1>. USE DEF StreamInv, SendInv
  <1>n. Numbers
    BY AllNumbers
  <1>1. held[t] \in Buffers /\ held[t] # None
    BY DEF Holding, SendPost, SendTypeOK
  <1>h. PICK h : h = Handler("push", held[t], TRUE)
    OBVIOUS
  <1>2. h \in Handlers /\ h.kind = "push" /\ h.buf = held[t]
    BY <1>h, <1>1 DEF Handler, Handlers, HandlerKinds
  <1>3. /\ Pushes' = Pushes \cup {Len(strand) + 1}
        /\ Writtens' = Writtens
        /\ \A i \in Pushes : strand'[i] = strand[i]
        /\ \A i \in Writtens : strand'[i] = strand[i]
        /\ strand'[Len(strand) + 1] = h
    <2>1. strand \in Seq(Handlers) /\ strand' = Append(strand, h)
      BY <1>h DEF SendPost, SendTypeOK
    <2>2. /\ Len(strand) \in Nat
          /\ DOMAIN strand = 1 .. Len(strand)
          /\ DOMAIN strand' = 1 .. Len(strand) + 1
          /\ \A i \in 1 .. Len(strand) : strand'[i] = strand[i]
          /\ strand'[Len(strand) + 1] = h
      BY <1>2, <2>1, LongerStrand
    <2>. QED BY <1>2, <2>2 DEF Pushes, Writtens
  <1>4. /\ posted' = posted + 1
        /\ data' = [data EXCEPT ![held[t]] = posted + 1]
        /\ data \in [Buffers -> Nat]
        /\ UNCHANGED <<send_queue, wire, active_writes, writes, open>>
    BY DEF SendPost, Copied, SendTypeOK
  <1>5. /\ \A i \in DOMAIN send_queue : data'[send_queue[i]] = data[send_queue[i]]
        /\ \A i \in Pushes : data'[strand[i].buf] = data[strand[i].buf]
        /\ data'[held[t]] = posted + 1
    BY <1>n, <1>1, <1>4 DEF BufferOwnership, NoBufferShared, Numbers
  <1>6. OutAlready' = OutAlready /\ Lead' = Lead
    BY <1>3, <1>4 DEF OutAlready, Lead
  <1>7. PushNumbers' = PushNumbers \cup {posted + 1}
    <2>1. \A i \in Pushes : data'[strand'[i].buf] = data[strand[i].buf]
      BY <1>3, <1>5
    <2>2. data'[strand'[Len(strand) + 1].buf] = posted + 1
      BY <1>2, <1>3, <1>5
    <2>. QED BY <1>3, <2>1, <2>2 DEF PushNumbers
  <1>8. StreamDown' = StreamDown
    <2>1. \A i \in Writtens : strand'[i].ok = strand[i].ok
      BY <1>3
    <2>. QED BY <1>3, <1>4, <2>1 DEF StreamDown
  <1>9. Lead \in Int /\ posted \in Nat
    BY <1>n DEF Lead, Numbers
  <1>10. Numbered'
    <2>1. WireNumbered'
      BY <1>4 DEF Numbered, WireNumbered
    <2>2. ASSUME ~StreamDown PROVE QueueNumbered'
      BY <1>4, <1>5, <1>6, <2>2 DEF Numbered, QueueNumbered
    <2>3. ASSUME ~StreamDown PROVE PushesNumbered'
      BY <1>4, <1>6, <1>7, <1>9, <2>3 DEF Numbered, PushesNumbered
    <2>. QED BY <1>8, <2>1, <2>2, <2>3 DEF Numbered
  <1>11. Stream!Accept
    BY <1>4, <1>8 DEF Stream!Accept
  <1>. QED BY <1>10, <1>11 DEF StreamStep, Stream!StreamNext

\* The push handler queues the lowest number of the strand.
LEMMA PushStream ==
    ASSUME StreamInv, PushHandler(open)
    PROVE  Numbered' /\ StreamStep
  <1>. USE DEF StreamInv
  <1>n. Numbers /\ open \in BOOLEAN
    BY AllNumbers DEF SendInv, SendTypeOK
  <1>. PICK b, n : b = strand[1].buf /\ n = Len(send_queue)
    OBVIOUS
  <1>1. /\ 1 \in Pushes /\ b \in Buffers
        /\ send_queue' = Append(send_queue, b) /\ send_queue \in Seq(Buffers)
        /\ PushesShift
        /\ UNCHANGED <<open, data, posted, wire>>
    BY <1>n, PushFacts DEF SendInv, SendTypeOK
  <1>2. /\ n \in Nat
        /\ DOMAIN send_queue = 1 .. n
        /\ DOMAIN send_queue' = 1 .. n + 1
        /\ Len(send_queue') = n + 1
        /\ \A i \in 1 .. n : send_queue'[i] = send_queue[i]
        /\ send_queue'[n + 1] = b
    BY <1>1, AppendProperties, LenProperties
  <1>3. StreamDown' = StreamDown /\ (~StreamDown => OutAlready' = OutAlready)
    <2>1. CASE send_queue # <<>>
      <3>1. /\ UNCHANGED <<active_writes, writes>>
            /\ Writtens' = {} <=> Writtens = {}
            /\ strand # <<>> /\ strand' = Tail(strand) /\ Head(strand).kind = "push"
        BY <1>n, <2>1, PushFacts
      <3>2. PICK fail : FailedWrite(fail)
        BY FailedWriteExists
      <3>3. 1 \notin Writtens
        BY <3>1, <3>2, StrandMoves DEF HasRun, SendInv
      <3>4. /\ \A i \in Writtens' : i + 1 \in Writtens /\ strand'[i] = strand[i + 1]
            /\ \A i \in Writtens : i - 1 \in Writtens' /\ strand'[i - 1] = strand[i]
        BY <3>1, <3>2, <3>3, StrandMoves DEF HasRun, SendInv
      <3>5. StreamDown' <=> StreamDown
        BY <1>1, <3>1, <3>4 DEF StreamDown
      <3>. QED BY <3>1, <3>5 DEF OutAlready, StreamDown
    <2>2. CASE send_queue = <<>>
      <3>1. Writtens = {} /\ writes = 0 /\ WriteStarts(open)
        BY <1>n, <2>2, PushFacts
      <3>2. CASE open
        BY <1>1, <3>1, <3>2 DEF WriteStarts, StreamDown, OutAlready
      <3>3. CASE ~open
        BY <1>1, <3>1, <3>3 DEF WriteStarts, StreamDown, OutAlready
      <3>. QED BY <1>n, <3>2, <3>3
    <2>. QED BY <2>1, <2>2
  <1>4. ASSUME ~StreamDown PROVE data[b] = Lead + 1
    <2>1. /\ Lead \in Int /\ PushNumbers = Lead + 1 .. posted /\ posted \in Nat
      BY <1>n, <1>4 DEF Numbered, PushesNumbered, Lead, Numbers
    <2>2. data[b] \in PushNumbers
      BY <1>1 DEF PushNumbers
    <2>3. Lead + 1 \in PushNumbers
      BY <2>1, <2>2
    <2>4. PICK i \in Pushes : data[strand[i].buf] = Lead + 1
      BY <2>3 DEF PushNumbers
    <2>5. i = 1 \/ i > 1
      <3>1. i \in 1 .. Len(strand) /\ Len(strand) \in Nat
        BY LenProperties DEF Pushes, SendInv, SendTypeOK
      <3>. QED BY <3>1
    <2>6. CASE i > 1
      <3>1. data[b] < Lead + 1
        BY <1>1, <2>4, <2>6 DEF InOrder, PushOrder
      <3>. QED BY <2>1, <2>2, <3>1
    <2>. QED BY <2>4, <2>5, <2>6
  <1>5. PushNumbers' = PushNumbers \ {data[b]}
    <2>1. ASSUME NEW i \in Pushes'
          PROVE  data[strand'[i].buf] \in PushNumbers \ {data[b]}
      <3>1. i \in Nat /\ i + 1 \in Pushes /\ i + 1 # 1 /\ strand'[i] = strand[i + 1]
        BY <1>1 DEF PushesShift
      <3>2. 1 < i + 1
        BY <3>1
      <3>3. data[b] < data[strand[i + 1].buf]
        BY <1>1, <3>1, <3>2 DEF InOrder, PushOrder
      <3>4. data[strand'[i].buf] # data[b]
        BY <1>n, <1>1, <3>1, <3>3 DEF Numbers
      <3>. QED BY <3>1, <3>4 DEF PushNumbers
    <2>2. ASSUME NEW i \in Pushes, data[strand[i].buf] # data[b]
          PROVE  \E j \in Pushes' : data[strand'[j].buf] = data[strand[i].buf]
      <3>1. i # 1
        BY <2>2
      <3>. QED BY <1>1, <3>1 DEF PushesShift
    <2>. QED BY <1>1, <2>1, <2>2 DEF PushNumbers
  <1>6. Numbered'
    <2>1. WireNumbered'
      BY <1>1 DEF Numbered, WireNumbered
    <2>2. ASSUME ~StreamDown PROVE QueueNumbered' /\ PushesNumbered'
      <3>1. /\ OutAlready' = OutAlready /\ OutAlready \in Nat /\ Len(wire) \in Nat
            /\ Lead = (Len(wire) - OutAlready) + n
            /\ Lead' = Lead + 1 /\ Lead \in Int
        BY <1>n, <1>1, <1>2, <1>3, <2>2 DEF Lead, Numbers
      <3>2. QueueNumbered'
        <4>1. ASSUME NEW j \in 1 .. n + 1
              PROVE  data[send_queue'[j]] = (Len(wire) - OutAlready) + j
          <5>1. CASE j \in 1 .. n
            BY <1>2, <2>2, <5>1 DEF Numbered, QueueNumbered
          <5>2. CASE j = n + 1
            BY <1>2, <1>4, <2>2, <3>1, <5>2
          <5>. QED BY <1>2, <5>1, <5>2
        <4>2. OutAlready <= Len(wire)
          BY <2>2 DEF Numbered, QueueNumbered
        <4>. QED BY <1>1, <1>2, <3>1, <4>1, <4>2 DEF QueueNumbered
      <3>3. PushesNumbered'
        <4>1. /\ PushNumbers = Lead + 1 .. posted /\ posted \in Nat
              /\ data[b] \in PushNumbers /\ data[b] = Lead + 1
          BY <1>n, <1>1, <1>4, <2>2 DEF Numbered, PushesNumbered, Numbers, PushNumbers
        <4>. QED BY <1>1, <1>5, <3>1, <4>1 DEF PushesNumbered
      <3>. QED BY <3>2, <3>3
    <2>. QED BY <1>3, <2>1, <2>2 DEF Numbered
  <1>7. StreamStep
    BY <1>1, <1>3, QuietStep
  <1>. QED BY <1>6, <1>7

\* The kernel transmits the next numbers, or a few of them and then breaks down.
LEMMA KernelStream ==
    ASSUME StreamInv, WriteOk \/ WriteFail
    PROVE  Numbered' /\ StreamStep
  <1>. USE DEF StreamInv
  <1>n. Numbers
    BY AllNumbers
  <1>1. /\ UNCHANGED <<open, data, posted, send_queue, active_writes>> /\ PushesStay
        /\ OutAlready = 0 /\ OutAlready' = active_writes
        /\ active_writes \in 1 .. Len(send_queue)
        /\ Writtens = {} /\ writes = 1 /\ writes' = 0
        /\ Writtens' = {Len(strand) + 1}
    BY KernelFacts DEF OutAlready
  <1>2. PICK w, n :
            /\ w = Len(wire) /\ n \in 0 .. active_writes
            /\ WriteOk => n = active_writes /\ open /\ strand'[Len(strand) + 1].ok
            /\ ~WriteOk => n < active_writes /\ ~strand'[Len(strand) + 1].ok
            /\ wire' \in Seq(Nat)
            /\ Len(wire') = w + n
            /\ \A i \in 1 .. w : wire'[i] = wire[i]
            /\ \A i \in 1 .. n : wire'[w + i] = data[send_queue[i]]
    BY KernelFacts, ZenonT(30)
  <1>3. /\ w \in Nat /\ n \in Nat /\ DOMAIN wire = 1 .. w /\ DOMAIN wire' = 1 .. w + n
        /\ \A k \in 1 .. n : k \in DOMAIN send_queue
        /\ Len(send_queue) \in Nat /\ posted \in Nat
    BY <1>n, <1>1, <1>2, LenProperties DEF Numbers
  <1>4. ~StreamDown
    BY <1>1 DEF StreamDown
  <1>5. StreamDown' <=> ~WriteOk
    BY <1>1, <1>2 DEF StreamDown
  <1>6. \A j \in DOMAIN send_queue : data[send_queue[j]] = w + j
    BY <1>1, <1>2, <1>3, <1>4 DEF Numbered, QueueNumbered
  <1>7. \A i \in 1 .. w + n : wire'[i] = i
    <2>. TAKE i \in 1 .. w + n
    <2>1. CASE i <= w
      <3>1. i \in 1 .. w /\ i \in DOMAIN wire
        BY <1>3, <2>1
      <3>2. wire'[i] = wire[i]
        BY <1>2, <3>1
      <3>. QED BY <3>1, <3>2 DEF Numbered, WireNumbered
    <2>2. CASE i > w
      <3>1. PICK k : k = i - w
        OBVIOUS
      <3>2. k \in 1 .. n /\ w + k = i
        BY <1>3, <2>2, <3>1
      <3>3. wire'[w + k] = data[send_queue[k]] /\ data[send_queue[k]] = w + k
        BY <1>2, <1>3, <1>6, <3>2
      <3>. QED BY <3>2, <3>3
    <2>. QED BY <1>3, <2>1, <2>2
  <1>8. w + n <= posted
    <2>1. CASE n = 0
      BY <1>2, <1>3, <2>1, WireIsCount
    <2>2. CASE n # 0
      <3>1. n \in DOMAIN send_queue
        BY <1>3, <2>2
      <3>2. data[send_queue[n]] <= posted /\ data[send_queue[n]] = w + n
        BY <1>6, <3>1 DEF InOrder, PostedBound
      <3>. QED BY <3>2
    <2>. QED BY <2>1, <2>2
  <1>9. Numbered'
    <2>1. WireNumbered'
      BY <1>3, <1>7 DEF WireNumbered
    <2>2. ASSUME WriteOk PROVE QueueNumbered' /\ PushesNumbered'
      <3>1. n = active_writes /\ Len(wire') - OutAlready' = w
        BY <1>1, <1>2, <1>3, <2>2
      <3>2. QueueNumbered'
        BY <1>1, <1>2, <1>3, <1>6, <3>1 DEF QueueNumbered
      <3>3. Lead' = Lead
        <4>1. Lead' = ((w + active_writes) - active_writes) + Len(send_queue)
          BY <1>1, <1>2, <2>2 DEF Lead
        <4>2. Lead = (w - 0) + Len(send_queue)
          BY <1>1, <1>2 DEF Lead
        <4>. QED BY <1>1, <1>3, <4>1, <4>2
      <3>4. PushNumbers' = PushNumbers
        BY <1>1 DEF PushNumbers, PushesStay
      <3>. QED BY <1>1, <1>4, <3>2, <3>3, <3>4 DEF Numbered, PushesNumbered
    <2>. QED BY <1>5, <2>1, <2>2 DEF Numbered
  <1>10. wire' = [i \in 1 .. w + n |-> i]
    <2>1. wire' = [i \in DOMAIN wire' |-> wire'[i]]
      BY <1>2
    <2>. QED BY <1>3, <1>7, <2>1
  <1>11. CASE WriteOk
    <2>1. w + n \in Len(wire) + 1 .. posted
      BY <1>1, <1>2, <1>3, <1>8, <1>11
    <2>2. Stream!OutUpTo(w + n)
      BY <1>10 DEF Stream!OutUpTo
    <2>3. UNCHANGED <<posted, ~StreamDown>>
      BY <1>1, <1>4, <1>5, <1>11
    <2>4. Stream!Transmit
      BY <1>4, <2>1, <2>2, <2>3 DEF Stream!Transmit
    <2>. QED BY <1>9, <2>4 DEF StreamStep, Stream!StreamNext
  <1>12. CASE ~WriteOk
    <2>1. w + n \in Len(wire) .. posted
      BY <1>2, <1>3, <1>8
    <2>2. Stream!OutUpTo(w + n)
      BY <1>10 DEF Stream!OutUpTo
    <2>3. StreamDown'
      BY <1>5, <1>12
    <2>4. Stream!Break
      BY <1>1, <1>4, <2>1, <2>2, <2>3 DEF Stream!Break
    <2>. QED BY <1>9, <2>4 DEF StreamStep, Stream!StreamNext
  <1>. QED BY <1>9, <1>11, <1>12

\* The completion takes off the queue what the wire has.
LEMMA WrittenStream ==
    ASSUME StreamInv, WrittenHandler(open)
    PROVE  Numbered' /\ StreamStep
  <1>. USE DEF StreamInv
  <1>n. Numbers /\ open \in BOOLEAN
    BY AllNumbers DEF SendInv, SendTypeOK
  <1>1. PICK a : a = active_writes
    OBVIOUS
  <1>2. /\ UNCHANGED <<data, posted, wire>> /\ PushesShift /\ 1 \notin Pushes
        /\ OutAlready = a /\ a \in 1 .. Len(send_queue)
        /\ Len(send_queue') = Len(send_queue) - a
        /\ DOMAIN send_queue' = 1 .. Len(send_queue) - a
        /\ \A i \in DOMAIN send_queue' : send_queue'[i] = send_queue[a + i]
        /\ Writtens = {1} /\ writes = 0
        /\ strand[1].ok \in BOOLEAN
        /\ open' = (open /\ strand[1].ok)
    BY <1>n, <1>1, WrittenFacts DEF OutAlready
  <1>3. IF strand[1].ok /\ send_queue' # <<>> THEN WriteStarts(open)
        ELSE writes' = 0 /\ Writtens' = {}
    BY <1>n, WrittenFacts
  <1>4. StreamDown <=> ~(open /\ strand[1].ok)
    BY <1>2 DEF StreamDown
  <1>5. StreamDown => StreamDown'
    <2>1. CASE ~open
      <3>1. writes' = 0 /\ ~open'
        BY <1>2, <1>3, <2>1 DEF WriteStarts
      <3>. QED BY <3>1 DEF StreamDown
    <2>2. CASE ~strand[1].ok
      <3>1. writes' = 0 /\ ~open'
        BY <1>2, <1>3, <2>2
      <3>. QED BY <3>1 DEF StreamDown
    <2>. QED BY <1>4, <2>1, <2>2
  <1>6. ASSUME ~StreamDown PROVE OutAlready' = 0
    <2>1. Writtens' = {}
      BY <1>3, <1>4, <1>6 DEF WriteStarts
    <2>. QED BY <2>1 DEF OutAlready
  <1>7. PushNumbers' = PushNumbers
    <2>1. /\ \A i \in Pushes : \E j \in Pushes' : strand'[j] = strand[i]
          /\ \A j \in Pushes' : \E i \in Pushes : strand'[j] = strand[i]
      BY <1>2 DEF PushesShift
    <2>. QED BY <1>2, <2>1 DEF PushNumbers
  <1>8. Numbered'
    <2>1. WireNumbered'
      BY <1>2 DEF Numbered, WireNumbered
    <2>2. ASSUME ~StreamDown PROVE QueueNumbered' /\ PushesNumbered'
      <3>1. QueueNumbered /\ PushesNumbered /\ OutAlready' = 0
            /\ Len(wire) \in Nat /\ Len(send_queue) \in Nat /\ a \in Nat
        BY <1>n, <1>2, <1>6, <2>2 DEF Numbered, Numbers
      <3>2. ASSUME NEW j \in DOMAIN send_queue'
            PROVE  data[send_queue'[j]] = Len(wire) + j
        <4>1. a + j \in DOMAIN send_queue /\ j \in Nat
          BY <1>n, <1>2, <3>1 DEF Numbers
        <4>2. data[send_queue[a + j]] = (Len(wire) - a) + (a + j)
          BY <1>2, <3>1, <4>1 DEF QueueNumbered
        <4>. QED BY <1>2, <3>1, <4>1, <4>2, SMTT(30)
      <3>3. QueueNumbered'
        BY <1>2, <3>1, <3>2 DEF QueueNumbered
      <3>4. Lead' = Lead
        BY <1>2, <3>1 DEF Lead
      <3>. QED BY <1>2, <1>7, <3>1, <3>3, <3>4 DEF PushesNumbered
    <2>. QED BY <1>5, <2>1, <2>2 DEF Numbered
  <1>9. StreamStep
    BY <1>2, <1>5, QuietStep
  <1>. QED BY <1>8, <1>9

LEMMA SocketStepStream ==
    ASSUME StreamInv, [SocketStep]_sendVars
    PROVE  Numbered' /\ StreamStep
  <1>1. ASSUME UNCHANGED <<open, data, posted, wire, send_queue, strand, active_writes, writes>>
        PROVE  Numbered' /\ StreamStep
    <2>1. OutAlready' = OutAlready /\ PushNumbers' = PushNumbers
      BY <1>1 DEF OutAlready, Writtens, PushNumbers, Pushes
    <2>2. StreamDown => StreamDown'
      BY <1>1 DEF StreamDown, Writtens
    <2>. QED BY <1>1, <2>1, <2>2, NumberedKept, QuietStep DEF StreamInv
  <1>2. ASSUME NEW t \in Threads, NEW usable \in BOOLEAN, SendCheck(t, usable)
        PROVE  Numbered' /\ StreamStep
    BY <1>1, <1>2 DEF SendCheck
  <1>3. ASSUME NEW t \in Threads, SendPop(t) PROVE Numbered' /\ StreamStep
    BY <1>1, <1>3 DEF SendPop
  <1>4. CASE EndpointStep /\ (open' => open)
    <2>1. UNCHANGED sendRest
      BY <1>4 DEF EndpointStep
    <2>. QED BY <1>4, <2>1, StrandKept
  <1>5. CASE UNCHANGED sendVars
    BY <1>1, <1>5 DEF sendVars
  <1>. QED BY <1>2, <1>3, <1>4, <1>5, PostStream, PushStream, KernelStream, WrittenStream
           DEF SocketStep

\* TcpConnection implements the ordered stream: the peer sees the messages in
\* the order in which send() posted them, without gap, repetition or mix-up, up
\* to the point where the socket fails.  Numbered says where each posted
\* message is; it holds only because a socket that fails is closed for good.
THEOREM ImplementsStream == Spec => StreamSpec
  <1>1. Init => InOrder /\ Numbered /\ Stream!StreamInit
    <2>. SUFFICES ASSUME Init PROVE InOrder /\ Numbered /\ Stream!StreamInit
      OBVIOUS
    <2>1. InOrder
      BY OrderInit DEF Init
    <2>2. /\ open = TRUE /\ Pushes = {} /\ Writtens = {} /\ posted = 0
          /\ wire = <<>> /\ send_queue = <<>>
      BY DEF Init, SendInit, Pushes, Writtens
    <2>3. ~StreamDown
      BY <2>2 DEF StreamDown
    <2>4. Stream!StreamInit
      BY <2>2, <2>3 DEF Stream!StreamInit
    <2>5. Len(wire) = 0 /\ Len(send_queue) = 0
          /\ DOMAIN wire = {} /\ DOMAIN send_queue = {}
      BY <2>2, EmptySeq
    <2>6. OutAlready = 0 /\ Lead = 0 /\ PushNumbers = {}
      BY <2>2, <2>5 DEF OutAlready, Lead, PushNumbers
    <2>7. Numbered
      BY <2>2, <2>5, <2>6 DEF Numbered, WireNumbered, QueueNumbered, PushesNumbered
    <2>. QED BY <2>1, <2>4, <2>7
  <1>2. ConnInv /\ InOrder /\ Numbered /\ [Next]_vars
          => InOrder' /\ Numbered' /\ [Stream!StreamNext]_(Stream!streamVars)
    <2>. SUFFICES ASSUME ConnInv, InOrder, Numbered, [Next]_vars
                  PROVE  InOrder' /\ Numbered' /\ StreamStep
      BY DEF StreamStep
    <2>1. SendInv /\ SendTypeOK
      BY DEF ConnInv, SendInv
    <2>2. InOrder'
      BY <2>1, StepIsSendStep, SendStepOrder
    <2>3. Numbered' /\ StreamStep
      BY <2>1, StepIsSocketStep, SocketStepStream DEF StreamInv
    <2>. QED BY <2>2, <2>3
  <1>. QED BY <1>1, <1>2, Invariance, PTL DEF Spec, StreamSpec, Stream!Spec
=============================================================================
