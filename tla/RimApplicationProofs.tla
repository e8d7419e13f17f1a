------------------------ MODULE RimApplicationProofs ------------------------
(***************************************************************************)
(* The safety properties of a node, for any number of workers, threads of  *)
(* the application, connections, buffers and calls.                        *)
(***************************************************************************)
EXTENDS RimApplication, SequenceTheorems, FiniteSetTheorems, TLAPS

\* How many buffers a strand carries to the send queue.
PushesOn(s) == {i \in DOMAIN s : s[i] = "push"}
PushCount(s) == Cardinality(PushesOn(s))

\* No handler of a successful connect() is waiting.
NoneConnected(s) == \A i \in DOMAIN s : s[i] # "connected"

SockTypeOK ==
    /\ open \in [Ends -> BOOLEAN]
    /\ free \in [Ends -> Nat]
    /\ queued \in [Ends -> Nat]
    /\ strand \in [Ends -> Seq(HandlerKinds)]
    /\ ops \in [Ends -> SUBSET Operations]
    /\ reads \in 0 .. MaxReads

\* A buffer is in the pool, in the queue or on its way to it.
BuffersBounded ==
    \A e \in Ends : free[e] + queued[e] + PushCount(strand[e]) <= PoolSize

\* Only a TCP client connects: an accepted connection is opened once.
NeverConnects ==
    \A c \in Conns : "connect" \notin ops[c] /\ NoneConnected(strand[c])

EndsInv == SockTypeOK /\ BuffersBounded /\ NeverConnects

ControlTypeOK ==
    /\ stopped \in BOOLEAN
    /\ worker \in [Workers -> {"none", "idle", "gone", "accept"} \cup Ends]
    /\ todo \in [Callers -> SUBSET Ends]
    /\ at \in [Callers -> Ends \cup {Nobody}]
    /\ calls \in 0 .. MaxCalls
    /\ ServerTypeOK
    /\ role \in Roles
    /\ app_running \in BOOLEAN
    /\ variant \in BOOLEAN
    /\ phase \in {"setup", "hook", "start", "wait", "stop", "join", "release",
                  "unwind", "returned"}

\* What holds in which phase of run().
Lifecycle ==
    /\ phase \in {"setup", "hook", "start"} => \A w \in Workers : worker[w] = "none"
    /\ phase \in {"release", "unwind", "returned"} => Joined
    /\ phase = "setup" => ~variant
    /\ phase = "hook" => variant
    /\ phase \in {"unwind", "returned"} => ~variant
    /\ phase = "returned" => \A e \in Ends : strand[e] = <<>> /\ ops[e] = {}

\* Who may be inside send(): a worker inside a handler, the application's
\* threads before teardown() has joined them, and run() in its hook.
CallersKnown ==
    /\ \A w \in Workers : worker[w] \in {"none", "idle", "gone"} => Idle(w)
    /\ \A a \in Apps : ~Idle(a) => phase \in {"start", "wait"}
    /\ ~Idle(Main) => phase = "hook"

\* Without an endpoint there is nothing for a worker to do, until what is left
\* over waits for the destructor of the Context.
NothingWithout ==
    ~variant =>
        /\ acceptor = "none" /\ registry = {}
        /\ \/ phase \in {"unwind", "returned"}
           \/ made = {} /\ \A e \in Ends : strand[e] = <<>> /\ ops[e] = {}

\* The accept handler runs on one worker at a time, and has a connection.
OneAccept ==
    /\ accepting # Nobody <=> \E w \in Workers : worker[w] = "accept"
    /\ \A w \in Workers : worker[w] = "accept" => acceptor = "running"
    /\ \A v, w \in Workers : worker[v] = "accept" /\ worker[w] = "accept" => v = w

\* A strand runs one handler at a time.
OneOnStrand ==
    \A v, w \in Workers : worker[v] = worker[w] /\ worker[v] \in Ends => v = w

\* A connection that is leaving is closed, and held by a worker that has nothing
\* else to do.
LeavingHeld ==
    \A c \in leaving : ~open[c] /\ \E w \in Workers : worker[w] = c /\ Idle(w)

\* The registry, and where the open connections come from.
Registered ==
    /\ \A c \in Conns : open[c] => c \in made
    /\ variant /\ role = "tcp_server" =>
           registry = {c \in made : open[c] \/ c \in leaving}

ControlInv ==
    /\ ControlTypeOK
    /\ Lifecycle
    /\ CallersKnown
    /\ NothingWithout
    /\ OneAccept
    /\ OneOnStrand
    /\ LeavingHeld
    /\ Registered
    /\ HandlersFindServer

NodeInv == EndsInv /\ ControlInv
-----------------------------------------------------------------------------
(***************************************************************************)
(* What queueing and taking a handler does to a strand.                    *)
(***************************************************************************)
LEMMA CountType ==
    ASSUME NEW s \in Seq(HandlerKinds)
    PROVE  IsFiniteSet(PushesOn(s)) /\ PushCount(s) \in Nat
  <1>0. Len(s) \in Nat /\ DOMAIN s = 1 .. Len(s)
    BY LenProperties
  <1>1. IsFiniteSet(1 .. Len(s)) /\ PushesOn(s) \subseteq 1 .. Len(s)
    BY <1>0, FS_Interval DEF PushesOn
  <1>2. IsFiniteSet(PushesOn(s))
    BY <1>1, FS_Subset
  <1>. QED BY <1>2, FS_CardinalityType DEF PushCount

LEMMA Queued ==
    ASSUME NEW s \in Seq(HandlerKinds), NEW k \in HandlerKinds
    PROVE  /\ Append(s, k) \in Seq(HandlerKinds)
           /\ k # "push" => PushCount(Append(s, k)) = PushCount(s)
           /\ k = "push" => PushCount(Append(s, k)) = PushCount(s) + 1
           /\ NoneConnected(s) /\ k # "connected" => NoneConnected(Append(s, k))
  <1>. DEFINE t == Append(s, k)
              n == Len(s) + 1
  <1>1. /\ t \in Seq(HandlerKinds)
        /\ Len(s) \in Nat
        /\ DOMAIN s = 1 .. Len(s) /\ DOMAIN t = 1 .. n
        /\ \A i \in 1 .. Len(s) : t[i] = s[i]
        /\ t[n] = k
    BY AppendProperties, LenProperties
  <1>. HIDE DEF t
  <1>2. k # "push" => PushesOn(t) = PushesOn(s)
    BY <1>1 DEF PushesOn
  <1>3. k = "push" => PushesOn(t) = PushesOn(s) \cup {n}
    BY <1>1 DEF PushesOn
  <1>4. n \notin PushesOn(s)
    BY <1>1 DEF PushesOn
  <1>5. Cardinality(PushesOn(s) \cup {n}) = Cardinality(PushesOn(s)) + 1
    BY <1>4, CountType, FS_AddElement
  <1>6. NoneConnected(s) /\ k # "connected" => NoneConnected(t)
    BY <1>1 DEF NoneConnected
  <1>7. t \in Seq(HandlerKinds)
    BY <1>1
  <1>. QED BY <1>2, <1>3, <1>5, <1>6, <1>7 DEF t, PushCount

LEMMA Taken ==
    ASSUME NEW s \in Seq(HandlerKinds), s # <<>>
    PROVE  /\ Tail(s) \in Seq(HandlerKinds)
           /\ Head(s) # "push" => PushCount(Tail(s)) = PushCount(s)
           /\ Head(s) = "push" => PushCount(Tail(s)) + 1 = PushCount(s)
           /\ NoneConnected(s) => NoneConnected(Tail(s)) /\ Head(s) # "connected"
  <1>. DEFINE t == Tail(s)
              n == Len(s) - 1
  <1>1. /\ t \in Seq(HandlerKinds)
        /\ Len(s) \in Nat \ {0} /\ n \in Nat
        /\ DOMAIN s = 1 .. Len(s) /\ DOMAIN t = 1 .. n
        /\ \A i \in 1 .. n : t[i] = s[i + 1]
        /\ Head(s) = s[1]
    BY HeadTailProperties, LenProperties, EmptySeq
  <1>. HIDE DEF t
  <1>. DEFINE f == [i \in PushesOn(t) |-> i + 1]
              R == PushesOn(s) \ {1}
  <1>2. \A i \in PushesOn(t) : i + 1 \in R
    BY <1>1 DEF PushesOn
  <1>3. \A j \in R : j - 1 \in PushesOn(t)
    BY <1>1 DEF PushesOn
  <1>4. PushesOn(t) \subseteq Nat /\ PushesOn(s) \subseteq Nat
    BY <1>1 DEF PushesOn
  <1>5. f \in Bijection(PushesOn(t), R)
    <2>1. f \in [PushesOn(t) -> R]
      BY <1>2
    <2>2. \A i, j \in PushesOn(t) : f[i] = f[j] => i = j
      BY <1>4
    <2>3. \A j \in R : \E i \in PushesOn(t) : f[i] = j
      <3>. TAKE j \in R
      <3>1. j - 1 \in PushesOn(t) /\ j \in Nat
        BY <1>3, <1>4
      <3>2. f[j - 1] = j
        BY <3>1
      <3>. QED BY <3>1, <3>2
    <2>. HIDE DEF f, R
    <2>. QED BY <2>1, <2>2, <2>3
             DEF Bijection, Injection, Surjection, IsInjective
  <1>6. IsFiniteSet(PushesOn(s)) /\ IsFiniteSet(PushesOn(t))
    BY <1>1, CountType
  <1>7. Cardinality(PushesOn(t)) = Cardinality(R)
    <2>. HIDE DEF f, R
    <2>. QED BY <1>5, <1>6, FS_Bijection DEF ExistsBijection
  <1>8. s[1] # "push" => R = PushesOn(s)
    BY <1>1 DEF PushesOn
  <1>9. s[1] = "push" => 1 \in PushesOn(s)
    BY <1>1 DEF PushesOn
  <1>10. 1 \in PushesOn(s) => Cardinality(R) = Cardinality(PushesOn(s)) - 1
    BY <1>6, FS_RemoveElement
  <1>11. Cardinality(PushesOn(s)) \in Nat
    BY <1>6, FS_CardinalityType
  <1>12. NoneConnected(s) => NoneConnected(t) /\ Head(s) # "connected"
    BY <1>1 DEF NoneConnected
  <1>13. t \in Seq(HandlerKinds) /\ Head(s) = s[1]
    BY <1>1
  <1>. HIDE DEF R
  <1>. QED BY <1>7, <1>8, <1>9, <1>10, <1>11, <1>12, <1>13 DEF t, PushCount
-----------------------------------------------------------------------------
(***************************************************************************)
(* The endpoints: one lemma for every way a step changes an endpoint e,    *)
(* and then one per action.                                                *)
(***************************************************************************)
LEMMA EndsAfter ==
    ASSUME EndsInv, NEW e \in Ends,
           NEW s \in Seq(HandlerKinds), NEW o \in SUBSET Operations,
           NEW f \in Nat, NEW q \in Nat,
           strand' = [strand EXCEPT ![e] = s],
           ops' = [ops EXCEPT ![e] = o],
           free' = [free EXCEPT ![e] = f],
           queued' = [queued EXCEPT ![e] = q],
           open' \in [Ends -> BOOLEAN],
           reads' \in 0 .. MaxReads,
           f + q + PushCount(s) <= PoolSize,
           e \in Conns => "connect" \notin o /\ NoneConnected(s)
    PROVE  EndsInv'
  <1>. USE DEF EndsInv
  <1>1. SockTypeOK'
    BY DEF SockTypeOK
  <1>2. BuffersBounded'
    BY DEF SockTypeOK, BuffersBounded
  <1>3. NeverConnects'
    BY TcpServerAssumption DEF SockTypeOK, NeverConnects
  <1>. QED BY <1>1, <1>2, <1>3

\* What Begin does: the operation it starts, or the handler it queues instead.
Begun(e, op, fails, rest) ==
    \/ /\ strand' = [strand EXCEPT ![e] = rest]
       /\ ops' = [ops EXCEPT ![e] = @ \cup {op}]
    \/ /\ strand' = [strand EXCEPT ![e] = Append(rest, fails)]
       /\ UNCHANGED ops

LEMMA EndsBegin ==
    ASSUME EndsInv, NEW e \in Ends, NEW rest \in Seq(HandlerKinds),
           NEW op \in Operations, NEW fails \in HandlerKinds,
           op # "connect", fails # "push", fails # "connected",
           NEW f \in Nat, NEW q \in Nat,
           Begun(e, op, fails, rest),
           free' = [free EXCEPT ![e] = f],
           queued' = [queued EXCEPT ![e] = q],
           open' \in [Ends -> BOOLEAN],
           reads' \in 0 .. MaxReads,
           f + q + PushCount(rest) <= PoolSize,
           e \in Conns => NoneConnected(rest)
    PROVE  EndsInv'
  <1>. USE DEF EndsInv, SockTypeOK
  <1>1. CASE /\ strand' = [strand EXCEPT ![e] = rest]
             /\ ops' = [ops EXCEPT ![e] = @ \cup {op}]
    <2>1. ops' = [ops EXCEPT ![e] = ops[e] \cup {op}]
      BY <1>1
    <2>2. /\ ops[e] \cup {op} \in SUBSET Operations
          /\ e \in Conns => "connect" \notin ops[e] \cup {op}
      BY DEF NeverConnects
    <2>. QED BY <1>1, <2>1, <2>2, EndsAfter
  <1>2. CASE strand' = [strand EXCEPT ![e] = Append(rest, fails)] /\ UNCHANGED ops
    <2>1. ops' = [ops EXCEPT ![e] = ops[e]]
      BY <1>2
    <2>2. /\ ops[e] \in SUBSET Operations
          /\ e \in Conns => "connect" \notin ops[e]
      BY DEF NeverConnects
    <2>3. /\ Append(rest, fails) \in Seq(HandlerKinds)
          /\ PushCount(Append(rest, fails)) = PushCount(rest)
          /\ NoneConnected(rest) => NoneConnected(Append(rest, fails))
      BY Queued
    <2>. QED BY <1>2, <2>1, <2>2, <2>3, EndsAfter
  <1>. QED BY <1>1, <1>2 DEF Begun

LEMMA KindNames ==
    /\ {"read", "write"} \subseteq Operations
    /\ {"error", "failed"} \subseteq HandlerKinds
    /\ "read" # "connect" /\ "write" # "connect"
    /\ "error" # "push" /\ "error" # "connected"
    /\ "failed" # "push" /\ "failed" # "connected"
  BY DEF Operations, HandlerKinds

\* A step that only puts s in place of the strand.
LEMMA EndsMoved ==
    ASSUME EndsInv, NEW e \in Ends, NEW s \in Seq(HandlerKinds),
           NEW f \in Nat, NEW q \in Nat,
           strand' = [strand EXCEPT ![e] = s],
           free' = [free EXCEPT ![e] = f],
           queued' = [queued EXCEPT ![e] = q],
           UNCHANGED <<ops, reads>>,
           open' \in [Ends -> BOOLEAN],
           f + q + PushCount(s) <= PoolSize,
           e \in Conns => NoneConnected(s)
    PROVE  EndsInv'
  <1>1. ops' = [ops EXCEPT ![e] = ops[e]] /\ reads' \in 0 .. MaxReads
    BY DEF EndsInv, SockTypeOK
  <1>2. /\ ops[e] \in SUBSET Operations
        /\ e \in Conns => "connect" \notin ops[e]
    BY DEF EndsInv, SockTypeOK, NeverConnects
  <1>. QED BY <1>1, <1>2, EndsAfter

\* What is known of an endpoint, and of its strand when a handler is taken.
EndKnown(e) ==
    /\ strand[e] \in Seq(HandlerKinds)
    /\ free[e] \in Nat /\ queued[e] \in Nat /\ open[e] \in BOOLEAN
    /\ PushCount(strand[e]) \in Nat
    /\ PoolSize \in Nat
    /\ free[e] + queued[e] + PushCount(strand[e]) <= PoolSize
    /\ e \in Conns => NoneConnected(strand[e])
    /\ free = [free EXCEPT ![e] = free[e]]
    /\ queued = [queued EXCEPT ![e] = queued[e]]

LEMMA EndFacts == ASSUME EndsInv, NEW e \in Ends PROVE EndKnown(e)
  BY CountType, EndpointsAssumption
     DEF EndsInv, SockTypeOK, BuffersBounded, NeverConnects, EndKnown

LEMMA ReadyFacts ==
    ASSUME EndsInv, NEW e \in Ends, NEW kind, Ready(e, kind)
    PROVE  /\ Rest(e) \in Seq(HandlerKinds)
           /\ PushCount(Rest(e)) \in Nat
           /\ kind # "push" => PushCount(Rest(e)) = PushCount(strand[e])
           /\ kind = "push" => PushCount(Rest(e)) + 1 = PushCount(strand[e])
           /\ e \in Conns => NoneConnected(Rest(e)) /\ kind # "connected"
  <1>1. strand[e] \in Seq(HandlerKinds) /\ strand[e] # <<>> /\ Head(strand[e]) = kind
    BY EndFacts DEF Ready, EndKnown
  <1>2. PushCount(Tail(strand[e])) \in Nat
    BY <1>1, Taken, CountType
  <1>. QED BY <1>1, <1>2, Taken, EndFacts DEF Rest, EndKnown

\* RunWritten and RunFailed give k buffers of the queue back to the pool.
LEMMA Recycling ==
    ASSUME EndsInv, NEW e \in Ends, NEW k \in 1 .. queued[e]
    PROVE  /\ queued[e] - k \in Nat
           /\ free[e] + Recycled(k) \in Nat
           /\ (free[e] + Recycled(k)) + (queued[e] - k) = free[e] + queued[e]
  BY EndFacts, SMTT(30) DEF Recycled, EndKnown

LEMMA PushEnds ==
    ASSUME EndsInv, NEW e \in Ends, RunPush(e)
    PROVE  EndsInv'
  <1>k. EndKnown(e)
    BY EndFacts
  <1>. USE <1>k DEF EndKnown
  <1>1. Ready(e, "push")
    BY DEF RunPush
  <1>2. /\ Rest(e) \in Seq(HandlerKinds)
        /\ PushCount(Rest(e)) \in Nat
        /\ PushCount(Rest(e)) + 1 = PushCount(strand[e])
        /\ e \in Conns => NoneConnected(Rest(e))
    BY <1>1, ReadyFacts
  <1>3. /\ free' = [free EXCEPT ![e] = free[e]]
        /\ queued' = [queued EXCEPT ![e] = queued[e] + 1]
        /\ open' \in [Ends -> BOOLEAN]
        /\ reads' \in 0 .. MaxReads
    BY DEF RunPush, EndsInv, SockTypeOK
  <1>4. queued[e] + 1 \in Nat /\ free[e] + (queued[e] + 1) + PushCount(Rest(e)) <= PoolSize
    BY <1>2
  <1>5. CASE WriterIdle(e)
    <2>1. Begun(e, "write", "failed", Rest(e))
      BY <1>5 DEF RunPush, StartWrite, Begin, Begun
    <2>. QED BY <2>1, <1>2, <1>3, <1>4, EndsBegin, KindNames
  <1>6. CASE ~WriterIdle(e)
    <2>1. strand' = [strand EXCEPT ![e] = Rest(e)] /\ UNCHANGED <<ops, reads>>
      BY <1>6 DEF RunPush
    <2>. QED BY <2>1, <1>2, <1>3, <1>4, EndsMoved
  <1>. QED BY <1>5, <1>6

LEMMA WrittenEnds ==
    ASSUME EndsInv, NEW e \in Ends, RunWritten(e)
    PROVE  EndsInv'
  <1>k. EndKnown(e)
    BY EndFacts
  <1>. USE <1>k DEF EndKnown
  <1>1. Ready(e, "written")
    BY DEF RunWritten
  <1>2. /\ Rest(e) \in Seq(HandlerKinds)
        /\ PushCount(Rest(e)) = PushCount(strand[e])
        /\ e \in Conns => NoneConnected(Rest(e))
    BY <1>1, ReadyFacts
  <1>3. PICK k \in 1 .. queued[e] :
        /\ queued' = [queued EXCEPT ![e] = @ - k]
        /\ free' = [free EXCEPT ![e] = @ + Recycled(k)]
        /\ IF k < queued[e]
           THEN StartWrite(e)
           ELSE strand' = [strand EXCEPT ![e] = Rest(e)] /\ UNCHANGED ops
    BY DEF RunWritten
  <1>. DEFINE f == free[e] + Recycled(k)
              q == queued[e] - k
  <1>4. /\ free' = [free EXCEPT ![e] = f]
        /\ queued' = [queued EXCEPT ![e] = q]
        /\ open' \in [Ends -> BOOLEAN]
        /\ reads' = reads /\ reads' \in 0 .. MaxReads
    BY <1>3 DEF RunWritten, EndsInv, SockTypeOK
  <1>5. f \in Nat /\ q \in Nat /\ f + q = free[e] + queued[e]
    BY Recycling
  <1>. HIDE DEF f, q
  <1>6. f + q + PushCount(Rest(e)) <= PoolSize
    BY <1>2, <1>5
  <1>7. CASE k < queued[e]
    <2>1. Begun(e, "write", "failed", Rest(e))
      BY <1>3, <1>7 DEF StartWrite, Begin, Begun
    <2>. QED BY <2>1, <1>2, <1>4, <1>5, <1>6, EndsBegin, KindNames
  <1>8. CASE ~(k < queued[e])
    <2>1. strand' = [strand EXCEPT ![e] = Rest(e)] /\ UNCHANGED <<ops, reads>>
      BY <1>3, <1>4, <1>8
    <2>. QED BY <2>1, <1>2, <1>4, <1>5, <1>6, EndsMoved
  <1>. QED BY <1>7, <1>8

LEMMA FailedEnds ==
    ASSUME EndsInv, NEW e \in Ends, RunFailed(e)
    PROVE  EndsInv'
  <1>k. EndKnown(e)
    BY EndFacts
  <1>. USE <1>k DEF EndKnown
  <1>1. Ready(e, "failed")
    BY DEF RunFailed
  <1>2. /\ Rest(e) \in Seq(HandlerKinds)
        /\ PushCount(Rest(e)) = PushCount(strand[e])
        /\ e \in Conns => NoneConnected(Rest(e))
    BY <1>1, ReadyFacts
  <1>3. PICK k \in 1 .. queued[e] :
        /\ queued' = [queued EXCEPT ![e] = @ - k]
        /\ free' = [free EXCEPT ![e] = @ + Recycled(k)]
    BY DEF RunFailed
  <1>. DEFINE f == free[e] + Recycled(k)
              q == queued[e] - k
  <1>4. /\ free' = [free EXCEPT ![e] = f]
        /\ queued' = [queued EXCEPT ![e] = q]
        /\ open' \in [Ends -> BOOLEAN]
        /\ strand' = [strand EXCEPT ![e] = Rest(e)]
        /\ UNCHANGED <<ops, reads>>
    BY <1>3 DEF RunFailed, Close, EndsInv, SockTypeOK
  <1>5. f \in Nat /\ q \in Nat /\ f + q = free[e] + queued[e]
    BY Recycling
  <1>. HIDE DEF f, q
  <1>6. f + q + PushCount(Rest(e)) <= PoolSize
    BY <1>2, <1>5
  <1>. QED BY <1>2, <1>4, <1>5, <1>6, EndsMoved

\* The handlers that leave the pool and the queue alone.
LEMMA OtherEnds ==
    ASSUME EndsInv, NEW e \in Ends,
           \/ RunClose(e) \/ RunError(e, Datagrams) \/ RunQuiet(e) \/ RunRefused(e)
           \/ \E w \in Workers : RunCallback(w, e)
    PROVE  EndsInv'
  <1>k. EndKnown(e)
    BY EndFacts
  <1>. USE <1>k DEF EndKnown
  <1>0. PICK kind \in HandlerKinds \ {"push"} : Ready(e, kind)
    BY DEF RunClose, RunError, RunQuiet, RunRefused, RunCallback, HandlerKinds
  <1>1. /\ Rest(e) \in Seq(HandlerKinds)
        /\ PushCount(Rest(e)) = PushCount(strand[e])
        /\ e \in Conns => NoneConnected(Rest(e))
    BY <1>0, ReadyFacts
  <1>2. /\ free' = [free EXCEPT ![e] = free[e]]
        /\ queued' = [queued EXCEPT ![e] = queued[e]]
        /\ reads' = reads /\ reads' \in 0 .. MaxReads
    BY DEF RunClose, RunError, RunQuiet, RunRefused, RunCallback, Close, EndsInv, SockTypeOK
  <1>3. open' \in [Ends -> BOOLEAN]
    BY DEF RunClose, RunError, RunQuiet, RunRefused, RunCallback, Close, EndsInv, SockTypeOK
  <1>4. CASE strand' = [strand EXCEPT ![e] = Rest(e)] /\ UNCHANGED ops
    BY <1>1, <1>2, <1>3, <1>4, EndsMoved
  <1>5. CASE Begun(e, "read", "error", Rest(e))
    BY <1>1, <1>2, <1>3, <1>5, EndsBegin, KindNames
  <1>6. \/ strand' = [strand EXCEPT ![e] = Rest(e)] /\ UNCHANGED ops
        \/ Begun(e, "read", "error", Rest(e))
    <2>1. CASE RunClose(e) \/ RunRefused(e) \/ \E w \in Workers : RunCallback(w, e)
      BY <2>1 DEF RunClose, RunRefused, RunCallback, Close
    <2>2. CASE RunError(e, Datagrams)
      BY <2>2 DEF RunError, Close, StartRead, Begin, Begun
    <2>3. CASE RunQuiet(e)
      <3>1. open'[e] \in BOOLEAN
        BY <1>3
      <3>. QED BY <2>3, <3>1 DEF RunQuiet, StartRead, Begin, Begun
    <2>. QED BY <2>1, <2>2, <2>3
  <1>. QED BY <1>4, <1>5, <1>6

LEMMA HandlerEnds ==
    ASSUME EndsInv, NEW e \in Ends,
           RunHandler(e) \/ \E w \in Workers : RunSending(w, e)
    PROVE  EndsInv'
  BY PushEnds, WrittenEnds, FailedEnds, OtherEnds DEF RunHandler, RunSending

\* A handler that has been left goes on to receive.
LEMMA ReceivingEnds ==
    ASSUME EndsInv, NEW e \in Ends,
           StartRead(e, open[e], strand[e]),
           UNCHANGED <<open, free, queued, reads>>
    PROVE  EndsInv'
  <1>k. EndKnown(e)
    BY EndFacts
  <1>. USE <1>k DEF EndKnown
  <1>1. /\ free' = [free EXCEPT ![e] = free[e]]
        /\ queued' = [queued EXCEPT ![e] = queued[e]]
        /\ open' \in [Ends -> BOOLEAN]
        /\ reads' \in 0 .. MaxReads
    BY DEF EndsInv, SockTypeOK
  <1>2. Begun(e, "read", "error", strand[e])
    BY DEF StartRead, Begin, Begun
  <1>. QED BY <1>1, <1>2, EndsBegin, KindNames

\* send() and close() queue a handler.
LEMMA PostEnds ==
    ASSUME EndsInv, NEW e \in Ends, NEW k \in {"push", "close"},
           NEW f \in Nat,
           strand' = [strand EXCEPT ![e] = Append(@, k)],
           free' = [free EXCEPT ![e] = f],
           k = "push" => f + 1 = free[e],
           k = "close" => f = free[e],
           UNCHANGED <<open, queued, ops, reads>>
    PROVE  EndsInv'
  <1>k. EndKnown(e)
    BY EndFacts
  <1>. USE <1>k DEF EndKnown
  <1>1. /\ queued' = [queued EXCEPT ![e] = queued[e]]
        /\ open' \in [Ends -> BOOLEAN]
        /\ k \in HandlerKinds /\ k # "connected"
    BY DEF EndsInv, SockTypeOK, HandlerKinds
  <1>2. /\ Append(strand[e], k) \in Seq(HandlerKinds)
        /\ k = "push" => PushCount(Append(strand[e], k)) = PushCount(strand[e]) + 1
        /\ k # "push" => PushCount(Append(strand[e], k)) = PushCount(strand[e])
        /\ e \in Conns => NoneConnected(Append(strand[e], k))
    BY <1>1, Queued
  <1>3. f + queued[e] + PushCount(Append(strand[e], k)) <= PoolSize
    BY <1>2
  <1>. QED BY <1>1, <1>2, <1>3, EndsMoved

LEMMA ContinueEnds ==
    ASSUME EndsInv, NEW p \in Callers, at[p] \in Ends \cup {Nobody}, Continue(p)
    PROVE  EndsInv'
  <1>1. CASE SendTest(p)
    BY <1>1 DEF SendTest, sockVars, EndsInv, SockTypeOK, BuffersBounded, NeverConnects
  <1>2. CASE SendPost(p)
    <2>1. /\ at[p] \in Ends /\ free[at[p]] > 0
          /\ free' = [free EXCEPT ![at[p]] = @ - 1]
          /\ strand' = [strand EXCEPT ![at[p]] = Append(@, "push")]
          /\ UNCHANGED <<open, queued, ops, reads>>
      BY <1>2 DEF SendPost
    <2>2. free[at[p]] \in Nat
      BY <2>1, EndFacts DEF EndKnown
    <2>3. free[at[p]] - 1 \in Nat /\ (free[at[p]] - 1) + 1 = free[at[p]]
      BY <2>1, <2>2
    <2>. QED BY <2>1, <2>3, PostEnds
  <1>. QED BY <1>1, <1>2 DEF Continue

LEMMA KernelEnds ==
    ASSUME EndsInv, NEW e \in Ends, Kernel(e)
    PROVE  EndsInv'
  <1>k. EndKnown(e)
    BY EndFacts
  <1>. USE <1>k DEF EndKnown
  <1>1. PICK op \in ops[e], kind \in HandlerKinds \ {"push"} :
            Completes(e, op, kind) /\ (kind = "connected" => op = "connect")
    <2>1. \/ Completes(e, "read", "read") \/ Completes(e, "write", "written")
          \/ Completes(e, "connect", "connected") \/ Completes(e, "read", "error")
          \/ Completes(e, "write", "failed") \/ Completes(e, "connect", "refused")
      BY DEF Kernel, KernelReads, KernelWrites, KernelConnects, KernelFails
    <2>2. \A op, kind : Completes(e, op, kind) => op \in ops[e]
      BY DEF Completes
    <2>. QED BY SMTT(30), <2>1, <2>2 DEF HandlerKinds
  <1>2. /\ ops' = [ops EXCEPT ![e] = ops[e] \ {op}]
        /\ strand' = [strand EXCEPT ![e] = Append(strand[e], kind)]
        /\ free' = [free EXCEPT ![e] = free[e]]
        /\ queued' = [queued EXCEPT ![e] = queued[e]]
        /\ open' \in [Ends -> BOOLEAN]
        /\ ops[e] \ {op} \in SUBSET Operations
        /\ e \in Conns => "connect" \notin ops[e]
    BY <1>1 DEF Completes, EndsInv, SockTypeOK, NeverConnects
  <1>3. /\ Append(strand[e], kind) \in Seq(HandlerKinds)
        /\ PushCount(Append(strand[e], kind)) = PushCount(strand[e])
        /\ e \in Conns => NoneConnected(Append(strand[e], kind))
    BY <1>1, <1>2, Queued
  <1>4. reads' \in 0 .. MaxReads
    BY EndpointsAssumption
       DEF Kernel, KernelReads, KernelWrites, KernelConnects, KernelFails, EndsInv, SockTypeOK
  <1>. QED BY <1>2, <1>3, <1>4, EndsAfter

\* Steps that only open a socket, or leave all of them alone.
LEMMA OpenedEnds ==
    ASSUME EndsInv, open' \in [Ends -> BOOLEAN],
           UNCHANGED <<free, queued, strand, ops, reads>>
    PROVE  EndsInv'
  BY DEF EndsInv, SockTypeOK, BuffersBounded, NeverConnects

\* The connection that comes next is one that has not been made.
LEMMA FreshIsNew ==
    ASSUME made \subseteq Conns, made # Conns
    PROVE  Fresh \in Conns /\ Fresh \notin made /\ Fresh \in Ends /\ Fresh # Nobody
  BY TcpServerAssumption, EndpointsAssumption DEF Fresh

LEMMA OwnIsEnd == Own \in Ends /\ Own \notin Conns
  BY ApplicationAssumption

\* run() sets its endpoint up, and destroys what is left of all of them.
LEMMA RunEnds ==
    ASSUME EndsInv, Run
    PROVE  EndsInv'
  <1>0. open \in [Ends -> BOOLEAN] /\ ops \in [Ends -> SUBSET Operations]
    BY DEF EndsInv, SockTypeOK
  <1>1. CASE UNCHANGED sockVars
    BY <1>0, <1>1, OpenedEnds DEF sockVars
  <1>2. CASE OpenUdp
    <2>1. /\ open' \in [Ends -> BOOLEAN] /\ ops' \in [Ends -> SUBSET Operations]
          /\ \A c \in Conns : ops'[c] = ops[c]
          /\ UNCHANGED <<free, queued, strand, reads>>
      BY <1>0, <1>2, OwnIsEnd, TcpServerAssumption DEF OpenUdp, Operations
    <2>. QED BY <2>1 DEF EndsInv, SockTypeOK, BuffersBounded, NeverConnects
  <1>3. CASE SetupTcpClient
    <2>1. /\ ops' \in [Ends -> SUBSET Operations]
          /\ \A c \in Conns : ops'[c] = ops[c]
          /\ UNCHANGED <<open, free, queued, strand, reads>>
      BY <1>0, <1>3, OwnIsEnd, TcpServerAssumption DEF SetupTcpClient, Operations
    <2>. QED BY <2>1 DEF EndsInv, SockTypeOK, BuffersBounded, NeverConnects
  <1>4. CASE Unwind
    <2>1. /\ strand' = [e \in Ends |-> <<>>] /\ ops' = [e \in Ends |-> {}]
          /\ UNCHANGED <<open, free, queued, reads>>
      BY <1>4 DEF Unwind
    <2>2. <<>> \in Seq(HandlerKinds) /\ PushesOn(<<>>) = {} /\ NoneConnected(<<>>)
      BY EmptySeq DEF PushesOn, NoneConnected
    <2>3. PushCount(<<>>) = 0
      BY <2>2, FS_EmptySet DEF PushCount
    <2>4. SockTypeOK'
      BY <2>1, <2>2 DEF EndsInv, SockTypeOK
    <2>5. BuffersBounded'
      <3>. SUFFICES ASSUME NEW e \in Ends
                    PROVE  free[e] + queued[e] + PushCount(<<>>) <= PoolSize
        BY <2>1 DEF BuffersBounded
      <3>. QED BY <2>3, EndFacts DEF EndKnown
    <2>6. NeverConnects'
      BY <2>1, <2>2, TcpServerAssumption DEF NeverConnects
    <2>. QED BY <2>4, <2>5, <2>6 DEF EndsInv
  <1>5. UNCHANGED sockVars \/ OpenUdp \/ SetupTcpClient \/ Unwind
    BY DEF Run, SetupTcpServer, SetupUdpServer, SetupUdpClient, HookReturns,
           StartContext, Teardown, StopContext, JoinWorkers, Release
  <1>. QED BY <1>1, <1>2, <1>3, <1>4, <1>5

LEMMA EndsStep ==
    ASSUME NodeInv, Next
    PROVE  EndsInv'
  <1>. USE DEF NodeInv
  <1>0. /\ open \in [Ends -> BOOLEAN]
        /\ \A p \in Callers : at[p] \in Ends \cup {Nobody}
        /\ made \subseteq Conns
        /\ \A w \in Workers : worker[w] = "accept" => accepting \in Ends
    BY TcpServerAssumption
       DEF EndsInv, SockTypeOK, ControlInv, ControlTypeOK, ServerTypeOK, OneAccept
  <1>1. CASE Run
    BY <1>1, RunEnds
  <1>2. CASE UNCHANGED sockVars
    BY <1>0, <1>2, OpenedEnds DEF sockVars
  <1>3. CASE AppClose
    <2>1. /\ strand' = [strand EXCEPT ![Own] = Append(@, "close")]
          /\ free' = [free EXCEPT ![Own] = free[Own]]
          /\ free[Own] \in Nat
          /\ UNCHANGED <<open, queued, ops, reads>>
      BY <1>3, OwnIsEnd, EndFacts DEF AppClose, CloseCall, EndKnown
    <2>. QED BY <2>1, OwnIsEnd, PostEnds
  <1>4. CASE \E p \in Callers : Continue(p)
    BY <1>0, <1>4, ContinueEnds
  <1>5. CASE \E e \in Ends : RunHandler(e) \/ Kernel(e)
    BY <1>5, HandlerEnds, KernelEnds
  <1>6. CASE \E w \in Workers, e \in Ends : RunSending(w, e)
    BY <1>6, HandlerEnds
  <1>7. CASE \E w \in Workers : Work(w)
    <2>1. PICK w \in Workers : Work(w)
      BY <1>7
    <2>2. CASE EndCallback(w)
      <3>1. worker[w] \in Ends /\ StartRead(worker[w], open[worker[w]], strand[worker[w]])
        BY <2>2 DEF EndCallback
      <3>. QED BY <2>2, <3>1, ReceivingEnds DEF EndCallback
    <2>3. CASE Accepted(w)
      <3>1. accepting \in Ends /\ StartRead(accepting, open[accepting], strand[accepting])
        BY <2>3, <1>0 DEF Accepted
      <3>. QED BY <2>3, <3>1, ReceivingEnds DEF Accepted
    <2>. QED BY <2>1, <2>2, <2>3, <1>2 DEF Work, OnDisc
  <1>8. CASE \E w \in Workers : Accept(w)
    <2>1. made # Conns
      BY <1>8 DEF Accept
    <2>2. open' \in [Ends -> BOOLEAN]
      BY <1>0, <1>8, <2>1, FreshIsNew DEF Accept
    <2>. QED BY <2>2, <1>8, OpenedEnds DEF Accept
  <1>9. CASE Incoming
    BY <1>2, <1>8, <1>9 DEF Incoming, AcceptFails
  <1>10. CASE HookSends \/ AppStop \/ \E a \in Apps : AppSend(a)
    BY <1>2, <1>10 DEF HookSends, AppStop, AppSend
  <1>. QED BY <1>1, <1>3, <1>4, <1>5, <1>6, <1>7, <1>9, <1>10 DEF Next
-----------------------------------------------------------------------------
(***************************************************************************)
(* The threads, the server and run(): one lemma per kind of step.          *)
(***************************************************************************)

\* A worker that has something to do does it between start() and join().
LEMMA WorkerPhase ==
    ASSUME ControlInv, NEW w \in Workers, worker[w] \notin {"none", "gone"}
    PROVE  phase \in {"wait", "stop", "join"}
  BY DEF ControlInv, ControlTypeOK, Lifecycle, Joined

\* Where there is something to do there is an endpoint.
LEMMA ServedPhase ==
    ASSUME ControlInv, Served,
           NEW e \in Ends, strand[e] # <<>> \/ ops[e] # {}
    PROVE  variant /\ phase \in {"wait", "stop", "join"}
  <1>1. phase \in {"wait", "stop", "join"}
    BY WorkerPhase DEF Served, Free
  <1>. QED BY <1>1 DEF ControlInv, ControlTypeOK, NothingWithout

\* The thread inside run() is not a worker, and the application's are neither.
LEMMA ThreadsDiffer ==
    /\ Main \in Callers /\ Main \notin Apps /\ Main \notin Workers
    /\ \A a \in Apps : a \in Callers /\ a \notin Workers
    /\ \A w \in Workers : w \in Callers
  BY EndpointsAssumption DEF Callers

\* Whatever happens to an endpoint that exists and is not closed by it.
LEMMA SocketsControl ==
    ASSUME ControlInv, variant,
           UNCHANGED <<open, contextVars, callVars, serverVars, nodeVars>>
    PROVE  ControlInv'
  <1>. USE DEF ControlInv, contextVars, callVars, serverVars, nodeVars
  <1>1. ControlTypeOK'
    BY DEF ControlTypeOK, ServerTypeOK
  <1>2. Lifecycle' /\ NothingWithout'
    BY DEF Lifecycle, NothingWithout, Joined
  <1>3. CallersKnown' /\ OneAccept'
    BY DEF CallersKnown, OneAccept, Idle
  <1>4. Registered' /\ HandlersFindServer'
    BY DEF Registered, HandlersFindServer, Idle
  <1>5. OneOnStrand' /\ LeavingHeld'
    BY DEF OneOnStrand, LeavingHeld, Idle
  <1>. QED BY <1>1, <1>2, <1>3, <1>4, <1>5

LEMMA KernelControl ==
    ASSUME ControlInv, NEW e \in Ends, Kernel(e)
    PROVE  ControlInv'
  <1>1. Served /\ ops[e] # {} /\ UNCHANGED <<open, callVars>>
    BY DEF Kernel, KernelReads, KernelWrites, KernelConnects, KernelFails, Completes
  <1>2. variant
    BY <1>1, ServedPhase
  <1>3. UNCHANGED <<contextVars, serverVars, nodeVars>>
    BY DEF Kernel
  <1>. QED BY <1>1, <1>2, <1>3, SocketsControl

LEMMA CloseControl ==
    ASSUME ControlInv, AppClose
    PROVE  ControlInv'
  BY SocketsControl DEF AppClose, CloseCall

\* What a handler may do to its own socket.
LEMMA HandlerOpens ==
    ASSUME EndsInv, NEW e \in Ends, RunHandler(e)
    PROVE  /\ strand[e] # <<>> /\ Served
           /\ \A w \in Workers : worker[w] # e
           /\ \/ UNCHANGED open
              \/ open' = [open EXCEPT ![e] = FALSE]
              \/ open' = [open EXCEPT ![e] = TRUE] /\ e \notin Conns
  <1>1. \A kind : Ready(e, kind) =>
            strand[e] # <<>> /\ Served /\ \A w \in Workers : worker[w] # e
    BY DEF Ready
  <1>2. CASE RunPush(e) \/ RunWritten(e) \/ RunRefused(e)
    BY <1>1, <1>2 DEF RunPush, RunWritten, RunRefused
  <1>3. CASE RunFailed(e) \/ RunClose(e) \/ RunError(e, Datagrams)
    BY <1>1, <1>3 DEF RunFailed, RunClose, RunError, Close
  <1>4. CASE RunQuiet(e)
    <2>1. CASE Ready(e, "read") /\ UNCHANGED open
      BY <2>1, <1>1
    <2>2. CASE Ready(e, "connected") /\ open' = [open EXCEPT ![e] = TRUE]
      <3>1. e \notin Conns
        BY <2>2, ReadyFacts
      <3>. QED BY <2>2, <3>1, <1>1
    <2>. QED BY <1>4, <2>1, <2>2 DEF RunQuiet
  <1>. QED BY <1>2, <1>3, <1>4 DEF RunHandler

\* A handler that does not go on to on_disc_.
LEMMA PlainControl ==
    ASSUME NodeInv, NEW e \in Ends, RunHandler(e),
           ~(e \in Conns /\ open[e] /\ ~open'[e])
    PROVE  ControlInv'
  <1>. USE DEF NodeInv, ControlInv
  <1>1. variant
    BY HandlerOpens, ServedPhase
  <1>2. UNCHANGED <<worker, stopped, callVars, nodeVars, acceptor, accepting, made,
                    registry, leaving>>
    BY DEF RunHandler, CallDisc
  <1>3. /\ open \in [Ends -> BOOLEAN]
        /\ made \subseteq Conns /\ leaving \subseteq Conns /\ Conns \subseteq Ends
    BY TcpServerAssumption DEF EndsInv, SockTypeOK, ControlTypeOK, ServerTypeOK
  <1>4. \A c \in Conns : open'[c] = open[c]
    <2>1. CASE UNCHANGED open
      BY <2>1
    <2>2. CASE open' = [open EXCEPT ![e] = FALSE]
      BY <1>3, <2>2
    <2>3. CASE open' = [open EXCEPT ![e] = TRUE] /\ e \notin Conns
      BY <1>3, <2>3
    <2>. QED BY <2>1, <2>2, <2>3, HandlerOpens
  <1>. USE <1>1, <1>2 DEF callVars, nodeVars
  <1>5. ControlTypeOK'
    BY DEF ControlTypeOK, ServerTypeOK
  <1>6. Lifecycle' /\ NothingWithout'
    BY DEF Lifecycle, NothingWithout, Joined
  <1>7. CallersKnown' /\ OneAccept' /\ OneOnStrand'
    BY DEF CallersKnown, OneAccept, OneOnStrand, Idle
  <1>8. HandlersFindServer'
    BY DEF HandlersFindServer, Idle
  <1>9. LeavingHeld' /\ Registered'
    BY <1>3, <1>4 DEF LeavingHeld, Registered, Idle
  <1>. QED BY <1>5, <1>6, <1>7, <1>8, <1>9

\* One that closes the socket of a connection, and whose worker w stays.
LEMMA ClosingControl ==
    ASSUME NodeInv, NEW e \in Ends, RunHandler(e),
           e \in Conns, open[e], ~open'[e]
    PROVE  ControlInv'
  <1>. USE DEF NodeInv, ControlInv
  <1>1. PICK w \in Workers : Free(w) /\ worker' = [worker EXCEPT ![w] = e]
    BY DEF RunHandler, CallDisc
  <1>2. /\ leaving' = leaving \cup {e}
        /\ UNCHANGED <<stopped, todo, at, calls, role, app_running, variant, phase,
                       acceptor, accepting, made, registry>>
    BY DEF RunHandler, CallDisc, callVars, nodeVars
  <1>3. variant /\ phase \in {"wait", "stop", "join"}
    BY HandlerOpens, ServedPhase
  <1>4. /\ open \in [Ends -> BOOLEAN]
        /\ made \subseteq Conns /\ leaving \subseteq made /\ Conns \subseteq Ends
    BY TcpServerAssumption DEF EndsInv, SockTypeOK, ControlTypeOK, ServerTypeOK
  <1>5. e \in made /\ open' = [open EXCEPT ![e] = FALSE]
    BY <1>4, HandlerOpens DEF Registered
  <1>6. /\ worker \in [Workers -> {"none", "idle", "gone", "accept"} \cup Ends]
        /\ worker' \in [Workers -> {"none", "idle", "gone", "accept"} \cup Ends]
        /\ worker[w] = "idle" /\ worker'[w] = e
        /\ \A v \in Workers : v # w => worker'[v] = worker[v]
        /\ \A v \in Workers : worker[v] # e
        /\ "idle" \notin Ends
        /\ e \notin {"none", "idle", "gone", "accept"}
    BY <1>1, HandlerOpens, EndpointsAssumption DEF ControlTypeOK, Free
  <1>7. Idle(w)
    BY <1>6 DEF CallersKnown
  <1>. USE <1>2, <1>3
  <1>8. ControlTypeOK'
    BY <1>5, <1>6 DEF ControlTypeOK, ServerTypeOK
  <1>9. Lifecycle' /\ NothingWithout' /\ HandlersFindServer'
    BY DEF Lifecycle, NothingWithout, HandlersFindServer
  <1>10. CallersKnown'
    BY <1>6 DEF CallersKnown, Idle
  <1>11. OneAccept'
    BY <1>6 DEF OneAccept
  <1>12. OneOnStrand'
    BY <1>6 DEF OneOnStrand
  <1>13. LeavingHeld'
    <2>1. ~open'[e] /\ worker'[w] = e /\ Idle(w)'
      BY <1>6, <1>7 DEF Idle
    <2>2. ASSUME NEW c \in leaving
          PROVE  ~open'[c] /\ \E v \in Workers : worker'[v] = c /\ Idle(v)'
      <3>1. PICK v \in Workers : worker[v] = c /\ Idle(v)
        BY DEF LeavingHeld
      <3>2. c \in Ends /\ ~open[c]
        BY <1>4 DEF LeavingHeld
      <3>3. worker'[v] = c /\ Idle(v)'
        BY <1>6, <3>1, <3>2 DEF Idle
      <3>4. ~open'[c]
        BY <1>4, <1>5, <3>2
      <3>. QED BY <3>3, <3>4
    <2>. QED BY <2>1, <2>2 DEF LeavingHeld
  <1>14. Registered'
    BY <1>4, <1>5 DEF Registered
  <1>. QED BY <1>8, <1>9, <1>10, <1>11, <1>12, <1>13, <1>14

LEMMA HandlerControl ==
    ASSUME NodeInv, NEW e \in Ends, RunHandler(e)
    PROVE  ControlInv'
  BY PlainControl, ClosingControl

\* A node sends only to endpoints, and only when it has one.
LEMMA TargetsExist ==
    ASSUME ControlInv
    PROVE  Targets \in SUBSET Ends /\ (Targets # {} => variant)
  <1>1. registry \subseteq Ends /\ variant \in BOOLEAN /\ role \in Roles
    BY TcpServerAssumption DEF ControlInv, ControlTypeOK, ServerTypeOK
  <1>2. CASE ~variant \/ role = "udp_server"
    BY <1>1, <1>2 DEF Targets
  <1>3. CASE variant /\ role = "tcp_server"
    BY <1>1, <1>3 DEF Targets, Snapshot
  <1>4. CASE variant /\ role \in {"tcp_client", "udp_client"}
    BY <1>1, <1>4, OwnIsEnd DEF Targets
  <1>. QED BY <1>1, <1>2, <1>3, <1>4 DEF Roles

\* What a call changes: its caller is not idle if there is anyone to send to.
LEMMA Calling ==
    ASSUME ControlInv, NEW p \in Callers, NEW T \in SUBSET Ends, Call(p, T)
    PROVE  /\ todo' \in [Callers -> SUBSET Ends]
           /\ at' \in [Callers -> Ends \cup {Nobody}]
           /\ calls' \in 0 .. MaxCalls
           /\ \A q \in Callers : q # p => todo'[q] = todo[q] /\ at'[q] = at[q]
           /\ todo'[p] = T /\ at'[p] = Nobody
  BY EndpointsAssumption DEF ControlInv, ControlTypeOK, Call, Idle

LEMMA SendControl ==
    ASSUME ControlInv, HookSends \/ \E a \in Apps : AppSend(a)
    PROVE  ControlInv'
  <1>. USE DEF ControlInv
  <1>1. PICK p \in Apps \cup {Main} :
            /\ Call(p, Targets)
            /\ p \in Apps => phase \in {"start", "wait"}
            /\ p = Main => phase = "hook"
    BY ThreadsDiffer DEF HookSends, AppSend
  <1>2. UNCHANGED <<contextVars, sockVars, serverVars, nodeVars>>
    BY DEF HookSends, AppSend
  <1>3. p \in Callers /\ p \notin Workers
    BY ThreadsDiffer
  <1>4. /\ todo' \in [Callers -> SUBSET Ends]
        /\ at' \in [Callers -> Ends \cup {Nobody}]
        /\ calls' \in 0 .. MaxCalls
        /\ \A q \in Callers : q # p => todo'[q] = todo[q] /\ at'[q] = at[q]
        /\ todo'[p] = Targets /\ at'[p] = Nobody
    BY <1>1, <1>3, TargetsExist, Calling
  <1>. USE <1>2 DEF contextVars, sockVars, serverVars, nodeVars
  <1>5. ControlTypeOK'
    BY <1>4 DEF ControlTypeOK, ServerTypeOK
  <1>6. Lifecycle' /\ NothingWithout' /\ OneAccept'
    BY DEF Lifecycle, NothingWithout, OneAccept, Joined
  <1>7. CallersKnown'
    BY <1>1, <1>3, <1>4, ThreadsDiffer DEF CallersKnown, Idle
  <1>8. Registered' /\ OneOnStrand'
    BY DEF Registered, OneOnStrand
  <1>9. HandlersFindServer'
    BY <1>4, TargetsExist DEF HandlersFindServer, Idle
  <1>10. LeavingHeld'
    BY <1>3, <1>4, ThreadsDiffer DEF LeavingHeld, Idle
  <1>. QED BY <1>5, <1>6, <1>7, <1>8, <1>9, <1>10

LEMMA ContinueControl ==
    ASSUME NodeInv, NEW p \in Callers, Continue(p)
    PROVE  ControlInv'
  <1>. USE DEF NodeInv, ControlInv
  <1>1. ~Idle(p)
    BY DEF Continue, SendTest, SendPost, Idle
  <1>2. variant
    BY <1>1 DEF HandlersFindServer
  <1>3. UNCHANGED <<contextVars, serverVars, nodeVars, open>>
    BY DEF Continue, SendTest, SendPost, sockVars
  <1>4. /\ todo' \in [Callers -> SUBSET Ends]
        /\ at' \in [Callers -> Ends \cup {Nobody}]
        /\ calls' = calls
        /\ \A q \in Callers : q # p => todo'[q] = todo[q] /\ at'[q] = at[q]
    <2>1. CASE SendTest(p)
      BY <2>1 DEF SendTest, ControlTypeOK
    <2>2. CASE SendPost(p)
      BY <2>2 DEF SendPost, ControlTypeOK
    <2>. QED BY <2>1, <2>2 DEF Continue
  <1>. USE <1>2, <1>3 DEF contextVars, serverVars, nodeVars
  <1>5. ControlTypeOK'
    BY <1>4 DEF ControlTypeOK, ServerTypeOK
  <1>6. Lifecycle' /\ NothingWithout' /\ OneAccept'
    BY DEF Lifecycle, NothingWithout, OneAccept, Joined
  <1>7. CallersKnown'
    BY <1>1, <1>4, ThreadsDiffer DEF CallersKnown, Idle
  <1>8. Registered' /\ OneOnStrand' /\ HandlersFindServer'
    BY DEF Registered, OneOnStrand, HandlersFindServer
  <1>9. LeavingHeld'
    BY <1>1, <1>4, ThreadsDiffer DEF LeavingHeld, Idle
  <1>. QED BY <1>5, <1>6, <1>7, <1>8, <1>9

\* A worker enters a handler of the strand of e.
LEMMA SendingControl ==
    ASSUME NodeInv, NEW w \in Workers, NEW e \in Ends, RunSending(w, e)
    PROVE  ControlInv'
  <1>. USE DEF NodeInv, ControlInv
  <1>1. /\ Free(w) /\ Call(w, Targets)
        /\ worker' = [worker EXCEPT ![w] = e]
        /\ UNCHANGED <<stopped, serverVars, nodeVars>>
    BY DEF RunSending, RunCallback
  <1>2. PICK kind : Ready(e, kind) /\ (UNCHANGED open \/
            (kind = "connected" /\ open' = [open EXCEPT ![e] = TRUE]))
    BY DEF RunSending, RunCallback
  <1>3. variant /\ phase \in {"wait", "stop", "join"}
    BY <1>2, ServedPhase DEF Ready
  <1>4. w \in Callers
    BY ThreadsDiffer
  <1>5. /\ todo' \in [Callers -> SUBSET Ends]
        /\ at' \in [Callers -> Ends \cup {Nobody}]
        /\ calls' \in 0 .. MaxCalls
        /\ \A q \in Callers : q # w => todo'[q] = todo[q] /\ at'[q] = at[q]
    BY <1>1, <1>4, TargetsExist, Calling
  <1>6. /\ worker \in [Workers -> {"none", "idle", "gone", "accept"} \cup Ends]
        /\ worker' \in [Workers -> {"none", "idle", "gone", "accept"} \cup Ends]
        /\ worker[w] = "idle" /\ worker'[w] = e
        /\ \A v \in Workers : v # w => worker'[v] = worker[v]
        /\ e \notin {"none", "idle", "gone", "accept"}
    BY <1>1, EndpointsAssumption DEF ControlTypeOK, Free
  <1>7. UNCHANGED <<stopped, acceptor, accepting, made, registry, leaving, role,
                    app_running, variant, phase>>
    BY <1>1 DEF serverVars, nodeVars
  <1>. USE <1>3, <1>7
  <1>8. ControlTypeOK'
    BY <1>5, <1>6 DEF ControlTypeOK, ServerTypeOK
  <1>9. Lifecycle' /\ NothingWithout' /\ HandlersFindServer'
    BY DEF Lifecycle, NothingWithout, HandlersFindServer
  <1>10. OneAccept'
    BY <1>6 DEF OneAccept
  <1>11. CallersKnown'
    BY <1>5, <1>6, ThreadsDiffer DEF CallersKnown, Idle
  <1>12. /\ made \subseteq Conns /\ leaving \subseteq Conns /\ leaving \subseteq Ends
         /\ \A c \in Conns : open'[c] = open[c]
    <2>1. /\ open \in [Ends -> BOOLEAN] /\ Conns \subseteq Ends
          /\ made \subseteq Conns /\ leaving \subseteq Conns
      BY TcpServerAssumption DEF EndsInv, SockTypeOK, ControlTypeOK, ServerTypeOK
    <2>2. kind = "connected" => e \notin Conns
      BY <1>2, ReadyFacts
    <2>. QED BY <1>2, <2>1, <2>2
  <1>13. Registered'
    BY <1>12 DEF Registered
  <1>14. OneOnStrand'
    <2>1. \A v \in Workers : worker[v] # e
      BY <1>2 DEF Ready
    <2>. QED BY <1>6, <2>1 DEF OneOnStrand
  <1>15. LeavingHeld'
    BY <1>5, <1>6, <1>12, ThreadsDiffer, EndpointsAssumption DEF LeavingHeld, Idle
  <1>. QED BY <1>8, <1>9, <1>10, <1>11, <1>13, <1>14, <1>15

\* A worker leaves a handler of a strand, or run().
LEMMA LeavingControl ==
    ASSUME ControlInv, NEW w \in Workers, NEW there \in {"idle", "gone"},
           worker[w] \notin {"none", "gone", "accept"} \cup leaving, Idle(w),
           worker' = [worker EXCEPT ![w] = there],
           variant \/ UNCHANGED <<strand, ops>>,
           UNCHANGED <<stopped, open, callVars, serverVars, nodeVars>>
    PROVE  ControlInv'
  <1>. USE DEF ControlInv, callVars, serverVars, nodeVars
  <1>1. phase \in {"wait", "stop", "join"}
    BY WorkerPhase
  <1>2. /\ worker \in [Workers -> {"none", "idle", "gone", "accept"} \cup Ends]
        /\ worker' \in [Workers -> {"none", "idle", "gone", "accept"} \cup Ends]
        /\ worker'[w] = there
        /\ \A v \in Workers : v # w => worker'[v] = worker[v]
        /\ there \notin Ends
    BY EndpointsAssumption DEF ControlTypeOK
  <1>. USE <1>1
  <1>3. ControlTypeOK'
    BY <1>2 DEF ControlTypeOK, ServerTypeOK
  <1>4. Lifecycle' /\ NothingWithout' /\ Registered'
    BY DEF Lifecycle, NothingWithout, Registered
  <1>5. CallersKnown'
    BY <1>2 DEF CallersKnown, Idle
  <1>6. OneAccept'
    BY <1>2 DEF OneAccept
  <1>7. HandlersFindServer'
    BY <1>2 DEF HandlersFindServer, Idle
  <1>8. OneOnStrand'
    BY <1>2 DEF OneOnStrand
  <1>9. LeavingHeld'
    BY <1>2 DEF LeavingHeld, Idle
  <1>. QED BY <1>3, <1>4, <1>5, <1>6, <1>7, <1>8, <1>9

\* on_disc_ erases the connection, and the handler returns.
LEMMA DiscControl ==
    ASSUME ControlInv, NEW w \in Workers, OnDisc(w), UNCHANGED nodeVars
    PROVE  ControlInv'
  <1>. USE DEF ControlInv
  <1>1. PICK c \in leaving : c = worker[w]
    BY DEF OnDisc
  <1>2. /\ registry' = registry \ {c} /\ leaving' = leaving \ {c}
        /\ worker' = [worker EXCEPT ![w] = "idle"]
        /\ UNCHANGED <<stopped, open, strand, ops, todo, at, calls, acceptor, accepting,
                       made, role, app_running, variant, phase>>
    BY <1>1 DEF OnDisc, Erased, sockVars, callVars, nodeVars
  <1>3. /\ made \subseteq Conns /\ leaving \subseteq made /\ leaving \subseteq Ends
        /\ c \in Ends /\ c \notin {"none", "idle", "gone", "accept"}
    BY TcpServerAssumption, EndpointsAssumption DEF ControlTypeOK, ServerTypeOK
  <1>4. variant /\ phase \in {"wait", "stop", "join"}
    BY <1>1, <1>3, WorkerPhase DEF HandlersFindServer
  <1>5. ~open[c] /\ Idle(w)
    BY <1>1, <1>3 DEF LeavingHeld, OneOnStrand
  <1>6. /\ worker \in [Workers -> {"none", "idle", "gone", "accept"} \cup Ends]
        /\ worker' \in [Workers -> {"none", "idle", "gone", "accept"} \cup Ends]
        /\ worker'[w] = "idle" /\ "idle" \notin Ends
        /\ \A v \in Workers : v # w => worker'[v] = worker[v]
    BY <1>2, EndpointsAssumption DEF ControlTypeOK
  <1>. USE <1>2, <1>4
  <1>7. ControlTypeOK'
    BY <1>6 DEF ControlTypeOK, ServerTypeOK
  <1>8. Lifecycle' /\ NothingWithout' /\ HandlersFindServer'
    BY DEF Lifecycle, NothingWithout, HandlersFindServer
  <1>9. CallersKnown'
    BY <1>5, <1>6 DEF CallersKnown, Idle
  <1>10. OneAccept'
    BY <1>1, <1>3, <1>6 DEF OneAccept
  <1>11. OneOnStrand'
    BY <1>6 DEF OneOnStrand
  <1>12. LeavingHeld'
    BY <1>1, <1>6 DEF LeavingHeld, Idle
  <1>13. Registered'
    BY <1>5 DEF Registered
  <1>. QED BY <1>7, <1>8, <1>9, <1>10, <1>11, <1>12, <1>13

\* The accept handler returns.
LEMMA AcceptedControl ==
    ASSUME ControlInv, NEW w \in Workers, Accepted(w), UNCHANGED nodeVars
    PROVE  ControlInv'
  <1>. USE DEF ControlInv
  <1>1. /\ worker[w] = "accept" /\ Idle(w)
        /\ worker' = [worker EXCEPT ![w] = "idle"]
        /\ acceptor' = "waiting" /\ accepting' = Nobody
        /\ UNCHANGED <<stopped, open, todo, at, calls, made, registry, leaving, role,
                       app_running, variant, phase>>
    BY DEF Accepted, Rearmed, callVars, nodeVars
  <1>2. variant /\ phase \in {"wait", "stop", "join"}
    BY <1>1, WorkerPhase DEF HandlersFindServer
  <1>3. /\ worker \in [Workers -> {"none", "idle", "gone", "accept"} \cup Ends]
        /\ worker' \in [Workers -> {"none", "idle", "gone", "accept"} \cup Ends]
        /\ worker'[w] = "idle"
        /\ \A v \in Workers : v # w => worker'[v] = worker[v]
    BY <1>1 DEF ControlTypeOK
  <1>. USE <1>1, <1>2
  <1>4. ControlTypeOK'
    BY <1>3 DEF ControlTypeOK, ServerTypeOK
  <1>5. Lifecycle' /\ NothingWithout' /\ Registered' /\ HandlersFindServer'
    BY DEF Lifecycle, NothingWithout, Registered, HandlersFindServer
  <1>6. CallersKnown'
    BY <1>3 DEF CallersKnown, Idle
  <1>7. OneAccept'
    BY <1>3 DEF OneAccept
  <1>8. leaving \subseteq Ends /\ {"idle", "accept"} \cap Ends = {}
    BY TcpServerAssumption, EndpointsAssumption DEF ControlTypeOK, ServerTypeOK
  <1>9. OneOnStrand'
    BY <1>3, <1>8 DEF OneOnStrand
  <1>10. LeavingHeld'
    BY <1>3, <1>8 DEF LeavingHeld, Idle
  <1>. QED BY <1>4, <1>5, <1>6, <1>7, <1>9, <1>10

LEMMA WorkControl ==
    ASSUME ControlInv, NEW w \in Workers, Work(w)
    PROVE  ControlInv'
  <1>1. UNCHANGED nodeVars
    BY DEF Work
  <1>2. CASE worker[w] \notin leaving /\ EndCallback(w) /\ UNCHANGED serverVars
    <2>1. /\ worker[w] \in Ends /\ Idle(w)
          /\ worker' = [worker EXCEPT ![w] = "idle"]
          /\ UNCHANGED <<stopped, open, callVars>>
      BY <1>2 DEF EndCallback
    <2>2. variant
      BY <2>1 DEF ControlInv, HandlersFindServer
    <2>3. worker[w] \notin {"none", "gone", "accept"} \cup leaving
      BY <1>2, <2>1, EndpointsAssumption
    <2>. QED BY <1>1, <1>2, <2>1, <2>2, <2>3, LeavingControl
  <1>3. CASE Accepted(w)
    BY <1>1, <1>3, AcceptedControl
  <1>4. CASE Leave(w) /\ UNCHANGED <<sockVars, callVars, serverVars>>
    <2>1. /\ worker[w] = "idle" /\ Idle(w)
          /\ worker' = [worker EXCEPT ![w] = "gone"]
          /\ UNCHANGED <<stopped, open, strand, ops>>
      BY <1>4 DEF Leave, sockVars, ControlInv, CallersKnown
    <2>2. worker[w] \notin {"none", "gone", "accept"} \cup leaving
      BY <2>1, TcpServerAssumption, EndpointsAssumption
         DEF ControlInv, ControlTypeOK, ServerTypeOK
    <2>. QED BY <1>1, <1>4, <2>1, <2>2, LeavingControl
  <1>5. CASE OnDisc(w)
    BY <1>1, <1>5, DiscControl
  <1>. QED BY <1>2, <1>3, <1>4, <1>5 DEF Work

\* A connection comes in.
LEMMA AcceptControl ==
    ASSUME NodeInv, NEW w \in Workers, Accept(w), UNCHANGED nodeVars
    PROVE  ControlInv'
  <1>. USE DEF NodeInv, ControlInv
  <1>1. /\ acceptor = "waiting" /\ made # Conns /\ Free(w)
        /\ made' = made \cup {Fresh}
        /\ registry' = registry \cup {Fresh}
        /\ accepting' = Fresh
        /\ open' = [open EXCEPT ![Fresh] = TRUE]
        /\ acceptor' = "running"
        /\ worker' = [worker EXCEPT ![w] = "accept"]
        /\ UNCHANGED <<stopped, leaving, role, app_running, variant, phase>>
        /\ UNCHANGED callVars \/ Call(w, {Fresh})
    BY DEF Accept, nodeVars
  <1>2. Fresh \in Conns /\ Fresh \notin made /\ Fresh \in Ends /\ Fresh # Nobody
    BY <1>1, FreshIsNew DEF ControlTypeOK, ServerTypeOK
  <1>3. variant /\ phase \in {"wait", "stop", "join"}
    BY <1>1, WorkerPhase DEF NothingWithout, ControlTypeOK, Free
  <1>4. w \in Callers
    BY ThreadsDiffer
  <1>5. /\ todo' \in [Callers -> SUBSET Ends]
        /\ at' \in [Callers -> Ends \cup {Nobody}]
        /\ calls' \in 0 .. MaxCalls
        /\ \A q \in Callers : q # w => todo'[q] = todo[q] /\ at'[q] = at[q]
    <2>1. CASE UNCHANGED callVars
      BY <2>1 DEF callVars, ControlTypeOK
    <2>2. CASE Call(w, {Fresh})
      <3>1. {Fresh} \in SUBSET Ends
        BY <1>2
      <3>. QED BY <2>2, <3>1, <1>4, Calling
    <2>. QED BY <1>1, <2>1, <2>2
  <1>6. /\ worker \in [Workers -> {"none", "idle", "gone", "accept"} \cup Ends]
        /\ worker' \in [Workers -> {"none", "idle", "gone", "accept"} \cup Ends]
        /\ worker[w] = "idle" /\ worker'[w] = "accept"
        /\ \A v \in Workers : v # w => worker'[v] = worker[v]
    BY <1>1 DEF ControlTypeOK, Free
  <1>. USE <1>1, <1>2, <1>3
  <1>7. ControlTypeOK'
    BY <1>5, <1>6 DEF ControlTypeOK, ServerTypeOK
  <1>8. Lifecycle' /\ NothingWithout' /\ HandlersFindServer'
    BY DEF Lifecycle, NothingWithout, HandlersFindServer
  <1>9. CallersKnown'
    BY <1>5, <1>6, ThreadsDiffer DEF CallersKnown, Idle
  <1>10. OneAccept'
    BY <1>6 DEF OneAccept
  <1>11. /\ open \in [Ends -> BOOLEAN] /\ Conns \subseteq Ends
         /\ made \subseteq Conns /\ leaving \subseteq made
         /\ {"idle", "accept"} \cap Ends = {}
    BY TcpServerAssumption, EndpointsAssumption
       DEF EndsInv, SockTypeOK, ControlTypeOK, ServerTypeOK
  <1>12. Registered'
    BY <1>11 DEF Registered
  <1>13. OneOnStrand'
    BY <1>6, <1>11 DEF OneOnStrand
  <1>14. LeavingHeld'
    <2>. SUFFICES ASSUME NEW c \in leaving
                  PROVE  ~open'[c] /\ \E v \in Workers : worker'[v] = c /\ Idle(v)'
      BY DEF LeavingHeld
    <2>1. PICK v \in Workers : worker[v] = c /\ Idle(v)
      BY DEF LeavingHeld
    <2>2. c \in Ends /\ c # Fresh /\ ~open[c] /\ v # w
      BY <1>6, <1>11, <2>1 DEF LeavingHeld
    <2>3. ~open'[c]
      BY <1>11, <2>2
    <2>4. worker'[v] = c /\ Idle(v)'
      BY <1>5, <1>6, <2>1, <2>2, ThreadsDiffer DEF Idle
    <2>. QED BY <2>3, <2>4
  <1>. QED BY <1>7, <1>8, <1>9, <1>10, <1>12, <1>13, <1>14

\* An accept fails, or the application is stopped.
LEMMA QuietControl ==
    ASSUME ControlInv, (AcceptFails /\ UNCHANGED nodeVars) \/ AppStop
    PROVE  ControlInv'
  <1>. USE DEF ControlInv
  <1>1. /\ acceptor' \in {acceptor, "waiting"}
        /\ acceptor' = "waiting" => acceptor = "waiting"
        /\ app_running' \in {app_running, FALSE}
        /\ UNCHANGED <<accepting, made, registry, leaving, stopped, worker, open, strand,
                       ops, todo, at, calls, role, variant, phase>>
    BY DEF AcceptFails, Rearmed, AppStop, contextVars, sockVars, callVars,
           serverVars, nodeVars
  <1>. USE <1>1
  <1>2. ControlTypeOK'
    BY DEF ControlTypeOK, ServerTypeOK
  <1>3. Lifecycle' /\ NothingWithout' /\ OneAccept'
    BY DEF Lifecycle, NothingWithout, OneAccept, Joined
  <1>4. CallersKnown' /\ HandlersFindServer'
    BY DEF CallersKnown, HandlersFindServer, Idle
  <1>5. Registered' /\ OneOnStrand' /\ LeavingHeld'
    BY DEF Registered, OneOnStrand, LeavingHeld, Idle
  <1>. QED BY <1>2, <1>3, <1>4, <1>5

\* run() makes its endpoint.  Nobody else runs yet.
LEMMA SetupControl ==
    ASSUME NodeInv, SetupTcpServer \/ SetupUdpServer \/ SetupTcpClient \/ SetupUdpClient
    PROVE  ControlInv'
  <1>. USE DEF NodeInv, ControlInv
  <1>1. /\ phase = "setup" /\ ~variant
        /\ UNCHANGED <<stopped, worker, todo, at, calls, accepting, made, registry,
                       leaving, role, app_running>>
        /\ variant' \in BOOLEAN
        /\ phase' \in {"hook", "start", "unwind"}
        /\ phase' = "hook" => variant'
        /\ phase' = "unwind" => ~variant'
        /\ ~variant' => UNCHANGED <<acceptor, strand, ops>>
        /\ variant' /\ role = "tcp_server" => acceptor' = "waiting" /\ UNCHANGED open
        /\ acceptor' \in {acceptor, "waiting"}
    <2>1. ~variant /\ variant \in BOOLEAN
      BY DEF ControlTypeOK, Lifecycle, SetupTcpServer, SetupUdpServer, SetupTcpClient, SetupUdpClient
    <2>2. CASE SetupTcpServer
      <3>. USE <2>1, <2>2 DEF SetupTcpServer, Goto, contextVars, sockVars, callVars
      <3>1. CASE variant' = TRUE /\ Listen /\ Goto("start")
        BY <3>1 DEF Listen
      <3>2. CASE Goto("unwind") /\ UNCHANGED <<variant, serverVars>>
        BY <3>2 DEF serverVars
      <3>. QED BY <3>1, <3>2
    <2>3. CASE SetupUdpServer
      BY <2>1, <2>3 DEF SetupUdpServer, OpenUdp, Goto, contextVars, sockVars, callVars, serverVars
    <2>4. CASE SetupTcpClient
      BY <2>1, <2>4 DEF SetupTcpClient, Goto, contextVars, callVars, serverVars
    <2>5. CASE SetupUdpClient
      BY <2>1, <2>5 DEF SetupUdpClient, OpenUdp, Goto, contextVars, sockVars, callVars, serverVars
    <2>. QED BY <2>2, <2>3, <2>4, <2>5
  <1>2. /\ \A w \in Workers : worker[w] = "none"
        /\ \A p \in Callers : Idle(p)
        /\ acceptor = "none" /\ registry = {} /\ made = {} /\ leaving = {}
        /\ accepting = Nobody
        /\ \A e \in Ends : strand[e] = <<>> /\ ops[e] = {}
    BY <1>1 DEF ControlTypeOK, ServerTypeOK, Lifecycle, HandlersFindServer,
                NothingWithout, OneAccept
  <1>o. \A c \in Conns : open'[c] = open[c]
    BY OwnIsEnd, TcpServerAssumption
       DEF EndsInv, SockTypeOK, SetupTcpServer, SetupUdpServer, SetupTcpClient,
           SetupUdpClient, OpenUdp, sockVars
  <1>. USE <1>1, <1>2
  <1>3. ControlTypeOK'
    BY DEF ControlTypeOK, ServerTypeOK
  <1>4. Lifecycle' /\ NothingWithout'
    BY DEF Lifecycle, NothingWithout, Joined
  <1>5. CallersKnown' /\ OneAccept'
    BY ThreadsDiffer DEF CallersKnown, OneAccept, Idle
  <1>6. HandlersFindServer'
    BY EndpointsAssumption DEF HandlersFindServer, Idle
  <1>7. Registered'
    BY <1>o DEF Registered
  <1>8. OneOnStrand' /\ LeavingHeld'
    BY DEF OneOnStrand, LeavingHeld
  <1>. QED BY <1>3, <1>4, <1>5, <1>6, <1>7, <1>8

\* The steps of run() between the setup and the release of the endpoint.
LEMMA PassControl ==
    ASSUME ControlInv,
           HookReturns \/ StartContext \/ Teardown \/ StopContext \/ JoinWorkers
    PROVE  ControlInv'
  <1>. USE DEF ControlInv
  <1>1. /\ stopped' \in BOOLEAN
        /\ UNCHANGED <<open, strand, ops, todo, at, calls, acceptor, accepting, made,
                       registry, leaving, role, app_running, variant>>
    BY DEF HookReturns, StartContext, Teardown, StopContext, JoinWorkers, Goto, Start,
           StopIo, contextVars, sockVars, callVars, serverVars, ControlTypeOK
  <1>2. CASE StartContext
    <2>1. /\ phase = "start" /\ phase' = "wait"
          /\ \A w \in Workers : worker[w] = "none"
      BY <1>2 DEF StartContext, Goto, Lifecycle
    <2>2. worker' = [w \in Workers |-> "idle"]
      BY <1>2, <2>1 DEF StartContext, Start, Spawned
    <2>3. \A w \in Workers : Idle(w)
      BY <2>1 DEF CallersKnown
    <2>. USE <1>1, <2>1, <2>2
    <2>4. ControlTypeOK'
      BY DEF ControlTypeOK, ServerTypeOK
    <2>5. Lifecycle' /\ NothingWithout' /\ OneAccept'
      BY DEF Lifecycle, NothingWithout, OneAccept
    <2>6. CallersKnown' /\ HandlersFindServer'
      BY <2>3, EndpointsAssumption DEF CallersKnown, HandlersFindServer, Idle
    <2>7. Registered'
      BY DEF Registered
    <2>8. leaving = {}
      BY TcpServerAssumption, EndpointsAssumption DEF LeavingHeld, ControlTypeOK, ServerTypeOK
    <2>9. OneOnStrand' /\ LeavingHeld'
      BY <2>8, EndpointsAssumption DEF OneOnStrand, LeavingHeld
    <2>. QED BY <2>4, <2>5, <2>6, <2>7, <2>9
  <1>3. CASE HookReturns \/ Teardown \/ StopContext \/ JoinWorkers
    <2>1. /\ UNCHANGED worker
          /\ \/ phase = "hook" /\ phase' = "start" /\ Idle(Main)
             \/ phase = "wait" /\ phase' = "stop" /\ \A a \in Apps : Idle(a)
             \/ phase = "stop" /\ phase' = "join"
             \/ phase = "join" /\ phase' = "release" /\ Joined
      BY <1>3 DEF HookReturns, Teardown, StopContext, JoinWorkers, Goto, StopIo, contextVars
    <2>. USE <1>1, <2>1
    <2>2. ControlTypeOK'
      BY DEF ControlTypeOK, ServerTypeOK
    <2>3. Lifecycle' /\ NothingWithout' /\ OneAccept'
      BY DEF Lifecycle, NothingWithout, OneAccept, Joined
    <2>4. CallersKnown' /\ HandlersFindServer'
      BY DEF CallersKnown, HandlersFindServer, Idle
    <2>5. Registered' /\ OneOnStrand' /\ LeavingHeld'
      BY DEF Registered, OneOnStrand, LeavingHeld, Idle
    <2>. QED BY <2>2, <2>3, <2>4, <2>5
  <1>. QED BY <1>2, <1>3

\* The workers have been joined: everybody is outside the endpoints.
LEMMA AllOutside ==
    ASSUME ControlInv, phase \in {"release", "unwind", "returned"}
    PROVE  /\ \A p \in Callers : Idle(p)
           /\ \A w \in Workers : worker[w] \in {"none", "gone"}
           /\ \A w \in Workers : worker[w] \notin Ends
           /\ accepting = Nobody
  <1>. USE DEF ControlInv
  <1>1. \A w \in Workers : worker[w] \in {"none", "gone"}
    BY DEF Lifecycle, Joined
  <1>2. \A w \in Workers : Idle(w)
    BY <1>1 DEF CallersKnown
  <1>3. Idle(Main) /\ \A a \in Apps : Idle(a)
    BY DEF CallersKnown
  <1>4. accepting = Nobody
    BY <1>1 DEF OneAccept
  <1>. QED BY <1>1, <1>2, <1>3, <1>4, EndpointsAssumption DEF Callers

LEMMA EndControl ==
    ASSUME ControlInv, Release \/ Unwind
    PROVE  ControlInv'
  <1>. USE DEF ControlInv
  <1>1. /\ phase \in {"release", "unwind"}
        /\ stopped' \in BOOLEAN
        /\ UNCHANGED <<worker, open, todo, at, calls, accepting, made, leaving, role,
                       app_running>>
    BY DEF Release, Released, Destroyed, Unwind, StopIo, Goto, contextVars, sockVars,
           callVars, serverVars, ControlTypeOK
  <1>2. /\ variant' = FALSE /\ acceptor' = "none" /\ registry' = {}
        /\ phase' \in {"unwind", "returned"}
        /\ phase' = "returned" => \A e \in Ends : strand'[e] = <<>> /\ ops'[e] = {}
    <2>1. CASE Release
      BY <2>1 DEF Release, Released, Destroyed, Goto
    <2>2. CASE Unwind
      BY <2>2 DEF Unwind, Goto, serverVars, Lifecycle, NothingWithout, ControlTypeOK
    <2>. QED BY <2>1, <2>2
  <1>3. /\ \A p \in Callers : Idle(p)
        /\ \A w \in Workers : worker[w] \in {"none", "gone"}
        /\ \A w \in Workers : worker[w] \notin Ends
        /\ accepting = Nobody
    BY <1>1, AllOutside
  <1>. USE <1>1, <1>2, <1>3
  <1>4. ControlTypeOK'
    BY DEF ControlTypeOK, ServerTypeOK
  <1>5. Lifecycle' /\ NothingWithout' /\ OneAccept'
    BY DEF Lifecycle, NothingWithout, OneAccept, Joined
  <1>6. CallersKnown' /\ HandlersFindServer'
    BY ThreadsDiffer DEF CallersKnown, HandlersFindServer, Idle
  <1>7. Registered' /\ OneOnStrand' /\ LeavingHeld'
    BY DEF Registered, OneOnStrand, LeavingHeld, Idle
  <1>. QED BY <1>4, <1>5, <1>6, <1>7

LEMMA ControlStep ==
    ASSUME NodeInv, Next
    PROVE  ControlInv'
  <1>. USE DEF NodeInv
  <1>1. CASE Run
    BY <1>1, SetupControl, PassControl, EndControl DEF Run
  <1>2. CASE HookSends \/ \E a \in Apps : AppSend(a)
    BY <1>2, SendControl
  <1>3. CASE AppStop \/ AppClose
    BY <1>3, QuietControl, CloseControl
  <1>4. CASE \E p \in Callers : Continue(p)
    BY <1>4, ContinueControl
  <1>5. CASE \E e \in Ends : RunHandler(e) \/ Kernel(e)
    BY <1>5, HandlerControl, KernelControl
  <1>6. CASE \E w \in Workers : Work(w) \/ \E e \in Ends : RunSending(w, e)
    BY <1>6, WorkControl, SendingControl
  <1>7. CASE Incoming
    BY <1>7, QuietControl, AcceptControl DEF Incoming
  <1>. QED BY <1>1, <1>2, <1>3, <1>4, <1>5, <1>6, <1>7 DEF Next
-----------------------------------------------------------------------------
(***************************************************************************)
(* The theorems.                                                           *)
(***************************************************************************)
LEMMA NodeInit == Init => NodeInv
  <1>. SUFFICES ASSUME Init PROVE NodeInv
    OBVIOUS
  <1>. USE DEF Init, ContextInit, EndpointsInit, ServerInit
  <1>1. <<>> \in Seq(HandlerKinds) /\ PushesOn(<<>>) = {} /\ NoneConnected(<<>>)
    BY EmptySeq DEF PushesOn, NoneConnected
  <1>2. PushCount(<<>>) = 0
    BY <1>1, FS_EmptySet DEF PushCount
  <1>3. SockTypeOK
    BY <1>1, EndpointsAssumption DEF SockTypeOK
  <1>4. BuffersBounded
    BY <1>2, EndpointsAssumption DEF BuffersBounded
  <1>5. NeverConnects
    BY <1>1, TcpServerAssumption DEF NeverConnects
  <1>6. ControlTypeOK
    <2>1. stopped \in BOOLEAN /\ app_running \in BOOLEAN /\ variant \in BOOLEAN
      OBVIOUS
    <2>2. /\ worker \in [Workers -> {"none", "idle", "gone", "accept"} \cup Ends]
          /\ todo \in [Callers -> SUBSET Ends]
          /\ at \in [Callers -> Ends \cup {Nobody}]
          /\ calls \in 0 .. MaxCalls
      BY EndpointsAssumption
    <2>. QED BY <2>1, <2>2 DEF ControlTypeOK, ServerTypeOK
  <1>7. Lifecycle /\ NothingWithout /\ OneAccept
    BY DEF Lifecycle, NothingWithout, OneAccept
  <1>8. CallersKnown /\ HandlersFindServer
    BY ThreadsDiffer, EndpointsAssumption DEF CallersKnown, HandlersFindServer, Idle
  <1>9. Registered /\ OneOnStrand /\ LeavingHeld
    BY TcpServerAssumption, EndpointsAssumption DEF Registered, OneOnStrand, LeavingHeld
  <1>. QED BY <1>3, <1>4, <1>5, <1>6, <1>7, <1>8, <1>9 DEF NodeInv, EndsInv, ControlInv

\* Every reachable state of a node satisfies the inductive invariant.
THEOREM Invariance == Spec => []NodeInv
  <1>1. NodeInv /\ [Next]_vars => NodeInv'
    <2>. SUFFICES ASSUME NodeInv, [Next]_vars PROVE NodeInv'
      OBVIOUS
    <2>1. CASE Next
      BY <2>1, EndsStep, ControlStep DEF NodeInv
    <2>2. CASE UNCHANGED vars
      <3>1. UNCHANGED <<open, free, queued, strand, ops, reads>>
        BY <2>2 DEF vars, sockVars
      <3>2. UNCHANGED <<stopped, worker, todo, at, calls, acceptor, accepting, made,
                        registry, leaving, role, app_running, variant, phase>>
        BY <2>2 DEF vars, contextVars, callVars, serverVars, nodeVars
      <3>3. EndsInv'
        BY <3>1, OpenedEnds DEF NodeInv, EndsInv, SockTypeOK
      <3>4. ControlTypeOK' /\ Lifecycle' /\ NothingWithout' /\ OneAccept'
        BY <3>1, <3>2 DEF NodeInv, ControlInv, ControlTypeOK, ServerTypeOK, Lifecycle,
                          NothingWithout, OneAccept, Joined
      <3>5. CallersKnown' /\ HandlersFindServer'
        BY <3>1, <3>2 DEF NodeInv, ControlInv, CallersKnown, HandlersFindServer, Idle
      <3>6. Registered' /\ OneOnStrand' /\ LeavingHeld'
        BY <3>1, <3>2 DEF NodeInv, ControlInv, Registered, OneOnStrand, LeavingHeld, Idle
      <3>. QED BY <3>3, <3>4, <3>5, <3>6 DEF NodeInv, ControlInv
    <2>. QED BY <2>1, <2>2
  <1>. QED BY <1>1, NodeInit, PTL DEF Spec

\* The variables of a node keep their types: above all, no pool ever holds, and
\* no send queue ever needs, more buffers than were allocated.
THEOREM TypeCorrect == Spec => []TypeOK
  <1>1. NodeInv => TypeOK
    <2>. SUFFICES ASSUME NodeInv PROVE TypeOK
      OBVIOUS
    <2>1. \A e \in Ends : free[e] \in 0 .. PoolSize /\ queued[e] \in 0 .. PoolSize
      <3>. SUFFICES ASSUME NEW e \in Ends
                    PROVE  free[e] \in 0 .. PoolSize /\ queued[e] \in 0 .. PoolSize
        OBVIOUS
      <3>1. EndKnown(e)
        BY EndFacts DEF NodeInv
      <3>. QED BY <3>1 DEF EndKnown
    <2>2. EndpointsTypeOK
      BY <2>1 DEF NodeInv, EndsInv, SockTypeOK, ControlInv, ControlTypeOK, EndpointsTypeOK
    <2>. QED BY <2>2 DEF NodeInv, ControlInv, ControlTypeOK, TypeOK
  <1>. QED BY <1>1, Invariance, PTL

\* tcp_server.hpp: the registry that broadcast() copies holds every open
\* connection, and a closed one only while the worker that has closed it is about
\* to erase it, whichever handlers close it and whenever.
THEOREM RegistryLive == Spec => []RegistryIsLive
  <1>1. NodeInv => RegistryIsLive
    BY DEF NodeInv, ControlInv, Registered, LeavingHeld, RegistryIsLive
  <1>. QED BY <1>1, Invariance, PTL

\* application.hpp, run(): the variants outlive every handler and every send().
THEOREM ServerOutlivesHandlers == Spec => []HandlersFindServer
  BY Invariance, PTL DEF NodeInv, ControlInv

\* application.hpp, run(): nothing refers to an endpoint once run() has returned.
THEOREM NothingLeftBehind == Spec => []AllReleased
  <1>1. NodeInv => AllReleased
    <2>. SUFFICES ASSUME NodeInv, phase = "returned", NEW e \in Ends
                  PROVE  ~Referenced(e)
      BY DEF AllReleased
    <2>. USE DEF NodeInv, ControlInv
    <2>1. /\ \A p \in Callers : Idle(p)
          /\ \A w \in Workers : worker[w] \notin Ends
          /\ accepting = Nobody
      BY AllOutside
    <2>2. ~variant /\ registry = {} /\ strand[e] = <<>> /\ ops[e] = {}
      BY DEF Lifecycle, NothingWithout
    <2>3. DOMAIN strand[e] = {}
      BY <2>2
    <2>. QED BY <2>1, <2>2, <2>3, EndpointsAssumption DEF Referenced, Idle
  <1>. QED BY <1>1, Invariance, PTL
=============================================================================
