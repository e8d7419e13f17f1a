--------------------------- MODULE SendPathProofs ---------------------------
(***************************************************************************)
(* The invariants of the send pipeline, for any number of threads, buffers *)
(* and sends.  SendStep is all that an endpoint may do to the pipeline;    *)
(* the theorems about an endpoint show that its steps are SendSteps.       *)
(***************************************************************************)
EXTENDS SendPath, SequenceTheorems, FunctionTheorems, FiniteSetTheorems, TLAPS

\* A handler the pipeline has no part in.
Foreign(h) == h.kind \notin {"push", "written"}

\* What the endpoint itself does: queue or run a handler of its own, and open
\* or close the socket.
EndpointStep ==
    /\ UNCHANGED sendRest
    /\ open' \in BOOLEAN
    /\ \/ strand' = strand
       \/ \E h \in Handlers : Foreign(h) /\ strand' = Append(strand, h)
       \/ strand # <<>> /\ Foreign(Head(strand)) /\ strand' = Tail(strand)

SendStep ==
    \/ \E t \in Threads, usable \in BOOLEAN : SendCheck(t, usable)
    \/ \E t \in Threads : SendPop(t)
    \/ \E t \in Threads : SendPost(t)
    \/ \E ready \in BOOLEAN : PushHandler(ready)
    \/ WriteOk
    \/ WriteFail
    \/ \E ready \in BOOLEAN : WrittenHandler(ready)
    \/ EndpointStep

\* A thread holds a buffer exactly between its pop and its post.
Holding == \A t \in Threads : pc[t] = "posting" <=> held[t] # None

\* A push handler carries a buffer.
PushesCarry == \A i \in Pushes : strand[i].buf \in Buffers

SendInv ==
    /\ SendTypeOK
    /\ Holding
    /\ PushesCarry
    /\ BufferOwnership
    /\ OneWrite
-----------------------------------------------------------------------------
(***************************************************************************)
(* The queue has room for every buffer that is not in it.                  *)
(***************************************************************************)
LEMMA RoomForOneMore ==
    ASSUME NEW q \in Seq(Buffers),
           NEW b \in Buffers,
           \A i \in 1 .. Len(q) : q[i] # b,
           \A i, j \in 1 .. Len(q) : q[i] = q[j] => i = j
    PROVE  Len(q) < QueueCap
  <1>. DEFINE n == Len(q) + 1
              r == [i \in 1 .. n |-> IF i <= Len(q) THEN q[i] ELSE b]
  <1>1. Len(q) \in Nat /\ q \in [1 .. Len(q) -> Buffers]
    BY LenProperties
  <1>2. n \in Nat /\ r \in [1 .. n -> Buffers]
    BY <1>1
  <1>3. \A i, j \in 1 .. n : r[i] = r[j] => i = j
    BY <1>1
  <1>4. IsFiniteSet(1 .. n) /\ Cardinality(1 .. n) = n
    BY <1>2, FS_Interval
  <1>5. Cardinality(Buffers) \in Nat
    BY SendPathAssumption, FS_CardinalityType
  <1>6. ~(Cardinality(Buffers) < n)
    <2>. HIDE DEF n, r
    <2>. QED BY <1>2, <1>3, <1>4, FS_PigeonHole, SendPathAssumption
  <1>. QED BY <1>1, <1>5, <1>6, SendPathAssumption

LEMMA NoOverwriteHolds ==
    ASSUME SendTypeOK, PushesCarry, NoBufferShared
    PROVE  NoOverwrite
  <1>. SUFFICES ASSUME NEW i \in Pushes
                PROVE  Len(send_queue) < QueueCap
    BY DEF NoOverwrite, Capacity
  <1>1. send_queue \in Seq(Buffers) /\ DOMAIN send_queue = 1 .. Len(send_queue)
    BY LenProperties DEF SendTypeOK
  <1>2. strand[i].buf \in Buffers
    BY DEF PushesCarry
  <1>. QED BY <1>1, <1>2, RoomForOneMore DEF NoBufferShared

\* The invariant holds initially.
LEMMA SendInvInit == ASSUME SendInit, open \in BOOLEAN PROVE SendInv /\ NoStall
  <1>. USE SendPathAssumption DEF SendInit
  <1>1. SendTypeOK
    BY DEF SendTypeOK
  <1>2. Holding /\ PushesCarry
    BY DEF Holding, PushesCarry, Pushes
  <1>3. BufferOwnership
    BY DEF BufferOwnership, NoBufferLost, NoBufferShared, Pushes
  <1>4. OneWrite /\ NoStall
    BY DEF OneWrite, NoStall, WriteOutstanding, Writtens
  <1>. QED BY <1>1, <1>2, <1>3, <1>4 DEF SendInv-----------------------------------------------------------------------------
(***************************************************************************)
(* Every step preserves the invariant: one lemma per action.               *)
(***************************************************************************)

LEMMA SendCheckInv ==
    ASSUME SendInv, NEW t \in Threads, NEW usable \in BOOLEAN,
           SendCheck(t, usable)
    PROVE  SendInv' /\ (NoStall => NoStall')
  <1>. USE DEF SendInv, SendCheck
  <1>1. SendTypeOK'
    BY SendPathAssumption DEF SendTypeOK
  <1>2. Holding'
    BY DEF Holding, SendTypeOK
  <1>3. (PushesCarry /\ BufferOwnership)'
    BY DEF PushesCarry, BufferOwnership, NoBufferLost, NoBufferShared, Pushes
  <1>4. OneWrite' /\ (NoStall => NoStall')
    BY DEF OneWrite, NoStall, WriteOutstanding, Writtens
  <1>. QED BY <1>1, <1>2, <1>3, <1>4

LEMMA SendPopInv ==
    ASSUME SendInv, NEW t \in Threads, SendPop(t)
    PROVE  SendInv' /\ (NoStall => NoStall')
  <1>. USE DEF SendInv
  <1>0. PICK b \in pool : pool' = pool \ {b} /\ held' = [held EXCEPT ![t] = b]
    BY DEF SendPop
  <1>. b \in Buffers /\ b # None
    BY SendPathAssumption DEF SendTypeOK
  <1>1. SendTypeOK'
    BY <1>0 DEF SendTypeOK, SendPop
  <1>2. Holding'
    BY <1>0 DEF Holding, SendTypeOK, SendPop
  <1>3. held[t] = None
    BY DEF Holding, SendPop
  <1>4. UNCHANGED <<strand, send_queue>>
    BY DEF SendPop
  <1>5. PushesCarry'
    BY <1>4 DEF PushesCarry, Pushes
  <1>6. NoBufferLost'
    <2>. SUFFICES ASSUME NEW c \in Buffers, c \notin pool'
                  PROVE  \/ \E u \in Threads : held'[u] = c
                         \/ \E i \in Pushes : strand[i].buf = c
                         \/ \E i \in DOMAIN send_queue : send_queue[i] = c
      BY <1>4 DEF NoBufferLost, Pushes
    <2>1. CASE c = b
      BY <2>1, <1>0 DEF SendTypeOK
    <2>2. CASE c # b
      <3>1. c \notin pool
        BY <2>2, <1>0
      <3>2. \A u \in Threads : held[u] = c => held'[u] = c
        BY <1>0, <1>3, SendPathAssumption DEF SendTypeOK
      <3>. QED BY <3>1, <3>2 DEF NoBufferLost, BufferOwnership
    <2>. QED BY <2>1, <2>2
  <1>7. NoBufferShared'
    BY <1>0, <1>3, <1>4 DEF NoBufferShared, BufferOwnership, Pushes, SendTypeOK
  <1>8. OneWrite' /\ (NoStall => NoStall')
    BY DEF OneWrite, NoStall, WriteOutstanding, Writtens, SendPop
  <1>. QED BY <1>1, <1>2, <1>5, <1>6, <1>7, <1>8 DEF BufferOwnership

LEMMA SendPostInv ==
    ASSUME SendInv, NEW t \in Threads, SendPost(t)
    PROVE  SendInv' /\ (NoStall => NoStall')
  <1>. USE DEF SendInv
  <1>. DEFINE h == Handler("push", held[t], TRUE)
  <1>1. held[t] \in Buffers /\ held[t] # None
    BY DEF Holding, SendPost, SendTypeOK
  <1>2. h \in Handlers /\ h.kind = "push" /\ h.buf = held[t]
    BY <1>1 DEF Handler, Handlers, HandlerKinds
  <1>3. strand \in Seq(Handlers) /\ strand' = Append(strand, h)
    BY DEF SendTypeOK, SendPost
  <1>. HIDE DEF h
  <1>4. /\ strand' \in Seq(Handlers)
        /\ DOMAIN strand = 1 .. Len(strand)
        /\ DOMAIN strand' = 1 .. Len(strand) + 1
        /\ \A i \in 1 .. Len(strand) : strand'[i] = strand[i]
        /\ strand'[Len(strand) + 1] = h
        /\ Len(strand) \in Nat
    BY <1>2, <1>3, AppendProperties, LenProperties
  <1>5. Pushes' = Pushes \cup {Len(strand) + 1} /\ Writtens' = Writtens
    BY <1>2, <1>4 DEF Pushes, Writtens
  <1>6. Len(strand) + 1 \notin Pushes /\ \A i \in Pushes : i \in 1 .. Len(strand)
    BY <1>4 DEF Pushes
  <1>7. SendTypeOK'
    <2>1. data' \in [Buffers -> Nat] /\ posted' \in Nat
      BY <1>1 DEF SendTypeOK, SendPost, Copied
    <2>2. /\ pc' \in [Threads -> {"idle", "popping", "posting"}]
          /\ held' \in [Threads -> Buffers \cup {None}]
      BY DEF SendTypeOK, SendPost
    <2>3. UNCHANGED <<open, pool, sends, send_queue, active_writes,
                      write_buffers, writes, wire>>
      BY DEF SendPost
    <2>. QED BY <2>1, <2>2, <2>3, <1>4 DEF SendTypeOK
  <1>8. Holding'
    BY DEF Holding, SendTypeOK, SendPost
  <1>9. PushesCarry'
    BY <1>1, <1>2, <1>4, <1>5, <1>6 DEF PushesCarry
  <1>10. held' = [held EXCEPT ![t] = None] /\ UNCHANGED <<pool, send_queue>>
    BY DEF SendPost
  <1>11. NoBufferLost'
    <2>. SUFFICES ASSUME NEW b \in Buffers
                  PROVE  \/ b \in pool'
                         \/ \E u \in Threads : held'[u] = b
                         \/ \E i \in Pushes' : strand'[i].buf = b
                         \/ \E i \in DOMAIN send_queue' : send_queue'[i] = b
      BY DEF NoBufferLost
    <2>1. CASE b = held[t]
      BY <2>1, <1>2, <1>4, <1>5
    <2>2. CASE b # held[t]
      BY <2>2, <1>4, <1>5, <1>6, <1>10
         DEF NoBufferLost, BufferOwnership, SendTypeOK
    <2>. QED BY <2>1, <2>2
  <1>12. NoBufferShared'
    <2>1. \A u \in Threads : held'[u] # None => u # t /\ held'[u] = held[u]
      BY <1>10 DEF SendTypeOK
    <2>. QED BY <2>1, <1>1, <1>2, <1>4, <1>5, <1>6, <1>10
             DEF NoBufferShared, BufferOwnership
  <1>13. OneWrite' /\ (NoStall => NoStall')
    BY <1>5, <1>4 DEF OneWrite, NoStall, WriteOutstanding, SendPost
  <1>. QED BY <1>7, <1>8, <1>9, <1>11, <1>12, <1>13 DEF BufferOwnership

\* What is left of the strand once its first handler has been taken.
LEMMA RestOfStrand ==
    ASSUME NEW s \in Seq(Handlers), s # <<>>
    PROVE  /\ Tail(s) \in Seq(Handlers)
           /\ Len(s) \in Nat \ {0}
           /\ DOMAIN s = 1 .. Len(s)
           /\ Len(Tail(s)) = Len(s) - 1
           /\ DOMAIN Tail(s) = 1 .. Len(s) - 1
           /\ \A i \in 1 .. Len(s) - 1 : Tail(s)[i] = s[i + 1]
           /\ Head(s) = s[1]
           /\ s[1] \in Handlers
  BY HeadTailProperties, LenProperties, EmptySeq

\* A strand with one more handler.
LEMMA LongerStrand ==
    ASSUME NEW s \in Seq(Handlers), NEW h \in Handlers
    PROVE  /\ Append(s, h) \in Seq(Handlers)
           /\ Len(s) \in Nat
           /\ DOMAIN s = 1 .. Len(s)
           /\ DOMAIN Append(s, h) = 1 .. Len(s) + 1
           /\ \A i \in 1 .. Len(s) : Append(s, h)[i] = s[i]
           /\ Append(s, h)[Len(s) + 1] = h
  BY AppendProperties, LenProperties

\* The strand after a handler that takes itself off and may start a write:
\* the rest, and perhaps the completion h of a write that failed at once.
LEMMA StrandAfter ==
    ASSUME NEW s \in Seq(Handlers), s # <<>>, NEW h \in Handlers,
           NEW after, after \in {Tail(s), Append(Tail(s), h)}
    PROVE  /\ after \in Seq(Handlers)
           /\ \A i \in 1 .. Len(s) - 1 :
                i \in DOMAIN after /\ after[i] = s[i + 1]
           /\ \A i \in DOMAIN after :
                i \in 1 .. Len(s) - 1 \/ (i = Len(s) /\ after[i] = h)
           /\ after = Tail(s) => DOMAIN after = 1 .. Len(s) - 1
           /\ after = Append(Tail(s), h) =>
                DOMAIN after = 1 .. Len(s) /\ after[Len(s)] = h
  <1>. DEFINE rest == Tail(s)
  <1>1. /\ rest \in Seq(Handlers)
        /\ Len(s) \in Nat \ {0}
        /\ Len(rest) = Len(s) - 1
        /\ DOMAIN rest = 1 .. Len(s) - 1
        /\ \A i \in 1 .. Len(s) - 1 : rest[i] = s[i + 1]
    BY RestOfStrand
  <1>. HIDE DEF rest
  <1>2. /\ Append(rest, h) \in Seq(Handlers)
        /\ DOMAIN Append(rest, h) = 1 .. Len(rest) + 1
        /\ \A i \in 1 .. Len(rest) : Append(rest, h)[i] = rest[i]
        /\ Append(rest, h)[Len(rest) + 1] = h
    BY <1>1, LongerStrand
  <1>3. Len(rest) + 1 = Len(s)
    <2>1. Len(s) \in Nat \ {0} /\ Len(rest) = Len(s) - 1
      BY <1>1, Zenon
    <2>. QED BY <2>1, SMTT(30)
  <1>4. CASE after = rest
    <2>1. rest # Append(rest, h)
      BY <1>1, <1>2
    <2>. QED BY <1>1, <1>4, <2>1 DEF rest
  <1>5. CASE after = Append(rest, h)
    <2>1. rest # Append(rest, h)
      BY <1>1, <1>2
    <2>2. \A i \in 1 .. Len(s) - 1 :
            i \in DOMAIN after /\ after[i] = s[i + 1]
      BY <1>1, <1>2, <1>5
    <2>3. \A i \in DOMAIN after :
            i \in 1 .. Len(s) - 1 \/ (i = Len(s) /\ after[i] = h)
      BY <1>1, <1>2, <1>3, <1>5
    <2>4. DOMAIN after = 1 .. Len(s) /\ after[Len(s)] = h
      BY <1>2, <1>3, <1>5
    <2>. QED BY <1>2, <1>5, <2>1, <2>2, <2>3, <2>4 DEF rest
  <1>. QED BY <1>4, <1>5 DEF rest

\* A batch is a non-empty front part of the queue.
LEMMA BatchOfQueue ==
    ASSUME NEW q \in Seq(Buffers), q # <<>>
    PROVE  /\ BatchSize(q) \in 1 .. Len(q)
           /\ BatchSize(q) \in Nat
           /\ SubSeq(q, 1, BatchSize(q)) \in Seq(Buffers)
  <1>1. Len(q) \in Nat \ {0} /\ \A i \in 1 .. Len(q) : q[i] \in Buffers
    BY EmptySeq, ElementOfSeq
  <1>2. BatchSize(q) \in 1 .. Len(q) /\ BatchSize(q) \in Nat
    BY <1>1, SendPathAssumption DEF BatchSize
  <1>3. SubSeq(q, 1, BatchSize(q)) \in Seq(Buffers)
    BY <1>1, <1>2, SubSeqProperties
  <1>. QED BY <1>2, <1>3

\* A longer queue has the same front part.
LEMMA FrontOfLonger ==
    ASSUME NEW q \in Seq(Buffers), NEW b \in Buffers, NEW n \in 1 .. Len(q)
    PROVE  SubSeq(Append(q, b), 1, n) = SubSeq(q, 1, n)
  <1>1. /\ Len(q) \in Nat
        /\ n \in Int
        /\ \A i \in 1 .. Len(q) : Append(q, b)[i] = q[i] /\ q[i] \in Buffers
    BY AppendProperties, LenProperties, ElementOfSeq
  <1>2. /\ SubSeq(q, 1, n) \in Seq(Buffers)
        /\ Len(SubSeq(q, 1, n)) = n
        /\ \A i \in 1 .. n : SubSeq(q, 1, n)[i] = q[i]
    BY <1>1, SubSeqProperties
  <1>3. /\ SubSeq(Append(q, b), 1, n) \in Seq(Buffers)
        /\ Len(SubSeq(Append(q, b), 1, n)) = n
        /\ \A i \in 1 .. n : SubSeq(Append(q, b), 1, n)[i] = q[i]
    BY <1>1, SubSeqProperties
  <1>. QED BY <1>2, <1>3, SeqEqual

LEMMA PushHandlerInv ==
    ASSUME SendInv, NEW ready \in BOOLEAN, PushHandler(ready)
    PROVE  SendInv' /\ (NoStall => NoStall')
  <1>. USE DEF SendInv
  <1>. DEFINE fail == Handler("written", None, FALSE)
              b == strand[1].buf
  <1>1. fail \in Handlers /\ fail.kind = "written"
    BY DEF Handler, Handlers, HandlerKinds
  <1>2. strand # <<>> /\ Head(strand).kind = "push" /\ strand \in Seq(Handlers)
    BY DEF PushHandler, Next1st, SendTypeOK
  <1>3. /\ Len(strand) \in Nat \ {0}
        /\ DOMAIN strand = 1 .. Len(strand)
        /\ Head(strand) = strand[1]
    BY <1>2, RestOfStrand
  <1>4. 1 \in Pushes /\ b \in Buffers
    BY <1>2, <1>3 DEF Pushes, PushesCarry
  <1>5. send_queue' = Append(send_queue, b) /\ send_queue \in Seq(Buffers)
    <2>1. Len(send_queue) < QueueCap
      BY <1>4, NoOverwriteHolds DEF NoOverwrite, Capacity, BufferOwnership
    <2>. QED BY <2>1, <1>3 DEF PushHandler, PushBack, Capacity, SendTypeOK
  <1>6. strand' \in {Tail(strand), Append(Tail(strand), fail)}
    BY DEF PushHandler, DoWrite
  <1>. HIDE DEF fail, b
  <1>7. /\ strand' \in Seq(Handlers)
        /\ \A i \in 1 .. Len(strand) - 1 :
             i \in DOMAIN strand' /\ strand'[i] = strand[i + 1]
        /\ \A i \in DOMAIN strand' :
             i \in 1 .. Len(strand) - 1 \/ (i = Len(strand) /\ strand'[i] = fail)
        /\ strand' = Tail(strand) => DOMAIN strand' = 1 .. Len(strand) - 1
        /\ strand' = Append(Tail(strand), fail) =>
             DOMAIN strand' = 1 .. Len(strand) /\ strand'[Len(strand)] = fail
    BY <1>1, <1>2, <1>6, StrandAfter
  <1>8. /\ \A i \in Pushes' : i + 1 \in Pushes /\ strand'[i] = strand[i + 1]
        /\ \A i \in Pushes : i # 1 =>
             i - 1 \in Pushes' /\ strand'[i - 1] = strand[i]
    BY <1>1, <1>3, <1>7 DEF Pushes
  <1>9. /\ send_queue' \in Seq(Buffers)
        /\ Len(send_queue) \in Nat
        /\ DOMAIN send_queue = 1 .. Len(send_queue)
        /\ Len(send_queue') = Len(send_queue) + 1
        /\ DOMAIN send_queue' = 1 .. Len(send_queue) + 1
        /\ \A i \in 1 .. Len(send_queue) : send_queue'[i] = send_queue[i]
        /\ send_queue'[Len(send_queue) + 1] = b
        /\ send_queue' # <<>>
    BY <1>4, <1>5, AppendProperties, LenProperties
  <1>10. UNCHANGED <<open, pool, pc, held, sends, data, posted, wire>>
    BY DEF PushHandler
  <1>11. PushesCarry'
    BY <1>8 DEF PushesCarry
  <1>12. NoBufferLost'
    <2>. SUFFICES ASSUME NEW c \in Buffers, c \notin pool,
                         \A t \in Threads : held[t] # c
                  PROVE  \/ \E i \in Pushes' : strand'[i].buf = c
                         \/ \E i \in DOMAIN send_queue' : send_queue'[i] = c
      BY <1>10 DEF NoBufferLost
    <2>1. CASE \E i \in Pushes : strand[i].buf = c
      <3>1. PICK i \in Pushes : strand[i].buf = c
        BY <2>1
      <3>2. CASE i = 1
        BY <3>1, <3>2, <1>9 DEF b
      <3>3. CASE i # 1
        BY <3>1, <3>3, <1>8
      <3>. QED BY <3>2, <3>3
    <2>2. CASE \E i \in DOMAIN send_queue : send_queue[i] = c
      BY <2>2, <1>9
    <2>. QED BY <2>1, <2>2 DEF NoBufferLost, BufferOwnership
  <1>13. NoBufferShared'
    <2>1. \A i \in Pushes' : i + 1 \in Pushes /\ i + 1 # 1 /\ i \in Int
      BY <1>3, <1>7, <1>8 DEF Pushes
    <2>2. \A i \in Pushes' : strand'[i].buf # b
      BY <2>1, <1>4, <1>8 DEF NoBufferShared, BufferOwnership, b
    <2>3. b \notin pool /\ \A i \in DOMAIN send_queue : send_queue[i] # b
      BY <1>4 DEF NoBufferShared, BufferOwnership, b
    <2>4. \A t \in Threads : held[t] # None => held[t] # b
      BY <1>4 DEF NoBufferShared, BufferOwnership, b
    <2>5. (\A t \in Threads : held[t] # None =>
            /\ held[t] \notin pool
            /\ \A u \in Threads : held[u] = held[t] => u = t
            /\ \A i \in Pushes : strand[i].buf # held[t]
            /\ \A i \in DOMAIN send_queue : send_queue[i] # held[t])'
      BY <1>8, <1>9, <1>10, <2>4 DEF NoBufferShared, BufferOwnership
    <2>6. (\A i \in Pushes :
            /\ strand[i].buf \notin pool
            /\ \A j \in Pushes : strand[j].buf = strand[i].buf => j = i
            /\ \A j \in DOMAIN send_queue : send_queue[j] # strand[i].buf)'
      BY <1>8, <1>9, <1>10, <2>1, <2>2 DEF NoBufferShared, BufferOwnership
    <2>7. (\A i \in DOMAIN send_queue :
            /\ send_queue[i] \notin pool
            /\ \A j \in DOMAIN send_queue : send_queue[j] = send_queue[i] => j = i)'
      BY <1>9, <1>10, <2>3 DEF NoBufferShared, BufferOwnership
    <2>. QED BY <2>5, <2>6, <2>7 DEF NoBufferShared
  <1>14. CASE send_queue # <<>>
    <2>1. strand' = Tail(strand) /\ UNCHANGED <<active_writes, write_buffers, writes>>
      BY <1>14 DEF PushHandler, StartWrite
    <2>2. /\ \A i \in Writtens' : i + 1 \in Writtens /\ i \in Int
          /\ \A i \in Writtens : i - 1 \in Writtens'
      <3>1. DOMAIN strand' = 1 .. Len(strand) - 1 /\ strand[1].kind = "push"
        BY <2>1, <1>2, <1>3, <1>7
      <3>2. \A i \in 1 .. Len(strand) - 1 : strand'[i] = strand[i + 1]
        BY <1>7
      <3>3. \A i \in Writtens' : i + 1 \in Writtens /\ i \in Int
        BY <3>1, <3>2, <1>3 DEF Writtens
      <3>4. ASSUME NEW i \in Writtens PROVE i - 1 \in Writtens'
        <4>1. i \in 1 .. Len(strand) /\ strand[i].kind = "written" /\ i # 1
          BY <3>1, <1>3 DEF Writtens
        <4>2. i - 1 \in 1 .. Len(strand) - 1 /\ (i - 1) + 1 = i
          BY <4>1, <1>3
        <4>3. strand'[i - 1] = strand[i]
          BY <4>2, <3>2
        <4>. QED BY <4>1, <4>2, <4>3, <3>1 DEF Writtens
      <3>. QED BY <3>3, <3>4
    <2>3. WriteOutstanding' => WriteOutstanding
      BY <2>1, <2>2 DEF WriteOutstanding
    <2>4. SendTypeOK'
      BY <2>1, <1>7, <1>9, <1>10 DEF SendTypeOK
    <2>5. (WriteOutstanding => /\ active_writes \in 1 .. Len(send_queue)
                              /\ write_buffers = SubSeq(send_queue, 1, active_writes))'
      <3>. SUFFICES ASSUME WriteOutstanding
                    PROVE  /\ active_writes \in 1 .. Len(send_queue')
                           /\ write_buffers = SubSeq(send_queue', 1, active_writes)
        BY <2>1, <2>3
      <3>. QED BY <1>4, <1>5, <1>9, FrontOfLonger DEF OneWrite
    <2>6. OneWrite'
      BY <2>1, <2>2, <2>5 DEF OneWrite
    <2>7. NoStall => NoStall'
      BY <2>1, <2>2, <1>10, <1>14 DEF NoStall, WriteOutstanding
    <2>8. Holding'
      BY <1>10 DEF Holding
    <2>. QED BY <2>4, <2>6, <2>7, <2>8, <1>11, <1>12, <1>13 DEF BufferOwnership
  <1>15. CASE send_queue = <<>>
    <2>1. writes = 0 /\ Writtens = {}
      BY <1>9, <1>15, EmptySeq DEF OneWrite, WriteOutstanding, SendTypeOK
    <2>2. /\ active_writes' = BatchSize(send_queue')
          /\ write_buffers' = SubSeq(send_queue', 1, BatchSize(send_queue'))
          /\ writes' = IF ready THEN writes + 1 ELSE writes
          /\ strand' = IF ready THEN Tail(strand) ELSE Append(Tail(strand), fail)
      BY <1>15 DEF PushHandler, StartWrite, DoWrite, fail
    <2>3. /\ active_writes' \in 1 .. Len(send_queue')
          /\ active_writes' \in Nat
          /\ write_buffers' \in Seq(Buffers)
          /\ write_buffers' = SubSeq(send_queue', 1, active_writes')
      BY <2>2, <1>9, BatchOfQueue
    <2>4. SendTypeOK'
      <3>1. writes' \in Nat
        BY <2>1, <2>2
      <3>. QED BY <3>1, <2>3, <1>7, <1>9, <1>10 DEF SendTypeOK
    <2>5. Holding'
      BY <1>10 DEF Holding
    <2>6. \A i \in 1 .. Len(strand) - 1 : strand'[i].kind # "written"
      BY <2>1, <1>3, <1>7 DEF Writtens
    <2>7. CASE ready
      <3>1. Writtens' = {} /\ writes' = 1
        BY <2>1, <2>2, <2>6, <2>7, <1>7 DEF Writtens
      <3>. QED BY <3>1, <2>3, <2>4, <2>5, <1>11, <1>12, <1>13
               DEF OneWrite, NoStall, WriteOutstanding, BufferOwnership
    <2>8. CASE ~ready
      <3>1. DOMAIN strand' = 1 .. Len(strand) /\ strand'[Len(strand)] = fail
        BY <2>2, <2>8, <1>7
      <3>2. Writtens' = {Len(strand)}
        BY <3>1, <2>6, <1>1, <1>3 DEF Writtens
      <3>3. writes' = 0
        BY <2>1, <2>2, <2>8
      <3>. QED BY <3>2, <3>3, <2>3, <2>4, <2>5, <1>11, <1>12, <1>13
               DEF OneWrite, NoStall, WriteOutstanding, BufferOwnership
    <2>. QED BY <2>7, <2>8 DEF SendTypeOK
  <1>. QED BY <1>14, <1>15

\* The contents of queued buffers are message numbers.
LEMMA ContentsType ==
    ASSUME SendTypeOK, NEW q \in Seq(Buffers)
    PROVE  /\ Contents(q) \in Seq(Nat)
           /\ Len(Contents(q)) = Len(q)
           /\ \A i \in 1 .. Len(q) : Contents(q)[i] = data[q[i]]
  BY LenProperties DEF Contents, SendTypeOK

\* A handler added at the end of the strand leaves the others in place.
LEMMA PushesGrow ==
    ASSUME SendTypeOK, NEW h \in Handlers, strand' = Append(strand, h)
    PROVE  /\ strand' \in Seq(Handlers)
           /\ Len(strand) \in Nat
           /\ h.kind # "push" => Pushes' = Pushes
           /\ h.kind # "written" => Writtens' = Writtens
           /\ h.kind = "written" => Writtens' = Writtens \cup {Len(strand) + 1}
           /\ \A i \in Pushes : strand'[i] = strand[i]
           /\ \A i \in Writtens : strand'[i] = strand[i]
           /\ strand'[Len(strand) + 1] = h
  <1>1. /\ strand' \in Seq(Handlers)
        /\ Len(strand) \in Nat
        /\ DOMAIN strand = 1 .. Len(strand)
        /\ DOMAIN strand' = 1 .. Len(strand) + 1
        /\ \A i \in 1 .. Len(strand) : strand'[i] = strand[i]
        /\ strand'[Len(strand) + 1] = h
    BY LongerStrand DEF SendTypeOK
  <1>. QED BY <1>1 DEF Pushes, Writtens

LEMMA KernelInv ==
    ASSUME SendInv, WriteOk \/ WriteFail
    PROVE  SendInv' /\ (NoStall => NoStall')
  <1>. USE DEF SendInv
  <1>1. /\ writes > 0
        /\ writes' = writes - 1
        /\ UNCHANGED <<open, pool, pc, held, sends, data, posted, send_queue,
                       active_writes, write_buffers>>
    BY DEF WriteOk, WriteFail
  <1>2. PICK h \in Handlers : h.kind = "written" /\ strand' = Append(strand, h)
    BY DEF WriteOk, WriteFail, Handler, Handlers, HandlerKinds
  <1>3. /\ strand' \in Seq(Handlers)
        /\ Len(strand) \in Nat
        /\ Pushes' = Pushes
        /\ Writtens' = Writtens \cup {Len(strand) + 1}
        /\ \A i \in Pushes : strand'[i] = strand[i]
    BY <1>2, PushesGrow
  <1>4. writes = 1 /\ Writtens = {} /\ writes' = 0
    BY <1>1 DEF OneWrite, SendTypeOK
  <1>5. wire' \in Seq(Nat)
    <2>. write_buffers \in Seq(Buffers) /\ wire \in Seq(Nat)
      BY DEF SendTypeOK
    <2>1. CASE WriteOk
      <3>1. Contents(write_buffers) \in Seq(Nat)
        BY ContentsType
      <3>. QED BY <2>1, <3>1, ConcatProperties DEF WriteOk
    <2>2. CASE WriteFail
      <3>1. PICK n \in 0 .. Len(write_buffers) - 1 :
              wire' = wire \o Contents(SubSeq(write_buffers, 1, n))
        BY <2>2 DEF WriteFail
      <3>2. SubSeq(write_buffers, 1, n) \in Seq(Buffers)
        BY LenProperties, ElementOfSeq, SubSeqProperties
      <3>3. Contents(SubSeq(write_buffers, 1, n)) \in Seq(Nat)
        BY <3>2, ContentsType
      <3>. QED BY <3>1, <3>3, ConcatProperties
    <2>. QED BY <2>1, <2>2
  <1>6. SendTypeOK'
    BY <1>1, <1>3, <1>4, <1>5 DEF SendTypeOK
  <1>7. Holding'
    BY <1>1 DEF Holding
  <1>8. PushesCarry'
    BY <1>3 DEF PushesCarry
  <1>9. BufferOwnership'
    BY <1>1, <1>3 DEF BufferOwnership, NoBufferLost, NoBufferShared
  <1>10. OneWrite' /\ (NoStall => NoStall')
    BY <1>1, <1>3, <1>4 DEF OneWrite, NoStall, WriteOutstanding
  <1>. QED BY <1>6, <1>7, <1>8, <1>9, <1>10

LEMMA EndpointInv ==
    ASSUME SendInv, EndpointStep
    PROVE  SendInv' /\ (NoStall /\ (open' => open) => NoStall')
  <1>. USE DEF SendInv
  <1>1. UNCHANGED <<pool, pc, held, sends, data, posted, send_queue,
                    active_writes, write_buffers, writes, wire>>
    BY DEF EndpointStep, sendRest
  <1>2. open' \in BOOLEAN
    BY DEF EndpointStep
  <1>3. Holding'
    BY <1>1 DEF Holding
  <1>4. CASE /\ strand' \in Seq(Handlers)
             /\ Pushes' = Pushes /\ Writtens' = Writtens
             /\ \A i \in Pushes : strand'[i] = strand[i]
    <2>1. SendTypeOK'
      BY <1>1, <1>2, <1>4 DEF SendTypeOK
    <2>2. PushesCarry'
      BY <1>4 DEF PushesCarry
    <2>3. BufferOwnership'
      BY <1>1, <1>4 DEF BufferOwnership, NoBufferLost, NoBufferShared
    <2>4. OneWrite' /\ (NoStall /\ (open' => open) => NoStall')
      BY <1>1, <1>2, <1>4 DEF OneWrite, NoStall, WriteOutstanding
    <2>. QED BY <1>3, <2>1, <2>2, <2>3, <2>4
  <1>5. CASE strand' = strand
    BY <1>4, <1>5 DEF SendTypeOK, Pushes, Writtens
  <1>6. CASE \E h \in Handlers : Foreign(h) /\ strand' = Append(strand, h)
    BY <1>4, <1>6, PushesGrow DEF Foreign
  <1>7. CASE strand # <<>> /\ Foreign(Head(strand)) /\ strand' = Tail(strand)
    <2>1. /\ strand' \in Seq(Handlers)
          /\ Len(strand) \in Nat \ {0}
          /\ DOMAIN strand = 1 .. Len(strand)
          /\ DOMAIN strand' = 1 .. Len(strand) - 1
          /\ \A i \in 1 .. Len(strand) - 1 : strand'[i] = strand[i + 1]
          /\ strand[1].kind \notin {"push", "written"}
      BY <1>7, RestOfStrand DEF SendTypeOK, Foreign
    <2>2. \A i \in 2 .. Len(strand) :
            i - 1 \in 1 .. Len(strand) - 1 /\ strand'[i - 1] = strand[i]
      BY <2>1
    <2>3. /\ \A i \in Pushes' : i \in Int /\ i + 1 \in Pushes /\ strand'[i] = strand[i + 1]
          /\ \A i \in Pushes : i - 1 \in Pushes' /\ strand'[i - 1] = strand[i]
          /\ \A i \in Writtens' : i \in Int /\ i + 1 \in Writtens
          /\ \A i \in Writtens : i - 1 \in Writtens'
      BY <2>1, <2>2 DEF Pushes, Writtens
    <2>4. SendTypeOK'
      BY <1>1, <1>2, <2>1 DEF SendTypeOK
    <2>5. PushesCarry'
      BY <2>3 DEF PushesCarry
    <2>6. NoBufferLost'
      BY <1>1, <2>3 DEF BufferOwnership, NoBufferLost
    <2>7. NoBufferShared'
      BY <1>1, <2>3 DEF BufferOwnership, NoBufferShared
    <2>8. OneWrite' /\ (NoStall /\ (open' => open) => NoStall')
      BY <1>1, <1>2, <2>3 DEF OneWrite, NoStall, WriteOutstanding
    <2>. QED BY <1>3, <2>4, <2>5, <2>6, <2>7, <2>8 DEF BufferOwnership
  <1>. QED BY <1>5, <1>6, <1>7 DEF EndpointStep

LEMMA WrittenHandlerInv ==
    ASSUME SendInv, NEW ready \in BOOLEAN, WrittenHandler(ready)
    PROVE  SendInv' /\ (NoStall => NoStall')
  <1>. USE DEF SendInv
  <1>. DEFINE fail == Handler("written", None, FALSE)
              n == active_writes
              q == send_queue
              left == SubSeq(q, n + 1, Len(q))
              done == {q[i] : i \in 1 .. n}
              more == Head(strand).ok /\ left # <<>>
  <1>1. fail \in Handlers /\ fail.kind = "written"
    BY DEF Handler, Handlers, HandlerKinds
  <1>2. strand # <<>> /\ Head(strand).kind = "written" /\ strand \in Seq(Handlers)
    BY DEF WrittenHandler, Next1st, SendTypeOK
  <1>3. /\ Len(strand) \in Nat \ {0}
        /\ DOMAIN strand = 1 .. Len(strand)
        /\ Head(strand) = strand[1]
        /\ strand[1] \in Handlers
    BY <1>2, RestOfStrand
  <1>4. Writtens = {1} /\ writes = 0
    <2>1. 1 \in Writtens
      BY <1>2, <1>3 DEF Writtens
    <2>2. Writtens = {1}
      BY <2>1 DEF OneWrite
    <2>. QED BY <2>1, <2>2 DEF OneWrite, SendTypeOK
  <1>5. /\ q \in Seq(Buffers) /\ Len(q) \in Nat
        /\ DOMAIN q = 1 .. Len(q)
        /\ n \in 1 .. Len(q) /\ n \in Nat
        /\ \A i \in 1 .. Len(q) : q[i] \in Buffers
    BY <1>4, LenProperties, ElementOfSeq
       DEF OneWrite, WriteOutstanding, SendTypeOK
  <1>6. /\ send_queue' = left
        /\ pool' = pool \cup done
        /\ open' = (open /\ Head(strand).ok)
        /\ UNCHANGED <<pc, held, sends, data, posted, wire>>
    BY DEF WrittenHandler, Recycled, WriteSucceeded
  <1>7. IF more
        THEN /\ active_writes' = BatchSize(left)
             /\ write_buffers' = SubSeq(left, 1, BatchSize(left))
             /\ writes' = IF ready THEN writes + 1 ELSE writes
             /\ strand' = IF ready THEN Tail(strand) ELSE Append(Tail(strand), fail)
        ELSE /\ strand' = Tail(strand)
             /\ UNCHANGED <<active_writes, write_buffers, writes>>
    BY DEF WrittenHandler, WriteSucceeded, DoWrite
  <1>. HIDE DEF fail, more, left
  <1>8. /\ left \in Seq(Buffers)
        /\ Len(left) = Len(q) - n
        /\ DOMAIN left = 1 .. Len(q) - n
        /\ \A i \in 1 .. Len(q) - n : left[i] = q[n + i]
    <2>1. /\ SubSeq(q, n + 1, Len(q)) \in Seq(Buffers)
          /\ Len(SubSeq(q, n + 1, Len(q))) =
                IF n + 1 <= Len(q) THEN Len(q) - (n + 1) + 1 ELSE 0
          /\ \A i \in 1 .. Len(q) - (n + 1) + 1 :
                SubSeq(q, n + 1, Len(q))[i] = q[n + 1 + i - 1]
      BY <1>5, SubSeqProperties
    <2>2. left \in Seq(Buffers) /\ Len(left) = Len(q) - n
      <3>1. n \in Nat /\ Len(q) \in Nat /\ n <= Len(q)
        BY <1>5
      <3>2. CASE n + 1 <= Len(q)
        BY <3>1, <3>2, <2>1 DEF left
      <3>3. CASE ~(n + 1 <= Len(q))
        <4>1. n = Len(q)
          BY <3>1, <3>3
        <4>2. Len(left) = 0
          BY <3>3, <2>1 DEF left
        <4>. QED BY <4>1, <4>2, <3>1, <2>1 DEF left
      <3>. QED BY <3>2, <3>3
    <2>3. DOMAIN left = 1 .. Len(left)
      BY <2>2, LenProperties
    <2>4. \A i \in 1 .. Len(q) - n : left[i] = q[n + i]
      BY <2>1, <1>5 DEF left
    <2>. QED BY <2>2, <2>3, <2>4
  <1>9. /\ strand' \in Seq(Handlers)
        /\ \A i \in 1 .. Len(strand) - 1 :
             i \in DOMAIN strand' /\ strand'[i] = strand[i + 1]
        /\ \A i \in DOMAIN strand' :
             i \in 1 .. Len(strand) - 1 \/ (i = Len(strand) /\ strand'[i] = fail)
        /\ strand' = Tail(strand) => DOMAIN strand' = 1 .. Len(strand) - 1
        /\ strand' = Append(Tail(strand), fail) =>
             DOMAIN strand' = 1 .. Len(strand) /\ strand'[Len(strand)] = fail
    <2>1. strand' \in {Tail(strand), Append(Tail(strand), fail)}
      BY <1>7
    <2>. QED BY <2>1, <1>1, <1>2, StrandAfter
  <1>10. /\ \A i \in Pushes' : i \in Int /\ i + 1 \in Pushes /\ strand'[i] = strand[i + 1]
         /\ \A i \in Pushes : i - 1 \in Pushes' /\ strand'[i - 1] = strand[i]
    <2>1. \A i \in 2 .. Len(strand) :
            i - 1 \in 1 .. Len(strand) - 1 /\ strand'[i - 1] = strand[i]
      BY <1>3, <1>9
    <2>. QED BY <2>1, <1>1, <1>2, <1>3, <1>9 DEF Pushes
  <1>11. \A i \in 1 .. Len(strand) - 1 : strand'[i].kind # "written"
    BY <1>3, <1>4, <1>9 DEF Writtens
  <1>12. PushesCarry'
    BY <1>10 DEF PushesCarry
  <1>13. Holding'
    BY <1>6 DEF Holding
  <1>14. NoBufferLost'
    <2>. SUFFICES ASSUME NEW c \in Buffers, c \notin pool,
                         \A t \in Threads : held[t] # c,
                         \A i \in Pushes : strand[i].buf # c
                  PROVE  c \in done \/ \E i \in DOMAIN left : left[i] = c
      BY <1>6, <1>10 DEF NoBufferLost
    <2>1. PICK i \in 1 .. Len(q) : q[i] = c
      BY <1>5 DEF NoBufferLost, BufferOwnership
    <2>2. CASE i <= n
      BY <2>1, <2>2, <1>5
    <2>3. CASE i > n
      <3>1. i - n \in 1 .. Len(q) - n /\ n + (i - n) = i
        BY <2>3, <1>5
      <3>. QED BY <3>1, <2>1, <1>8
    <2>. QED BY <2>2, <2>3, <1>5
  <1>15. NoBufferShared'
    <2>1. \A c \in done : \E i \in DOMAIN q : c = q[i]
      BY <1>5
    <2>2. \A j \in DOMAIN left :
            n + j \in DOMAIN q /\ left[j] = q[n + j] /\ n + j > n /\ j \in Int
      BY <1>5, <1>8
    <2>3. \A j \in DOMAIN left : left[j] \notin done
      <3>. SUFFICES ASSUME NEW j \in DOMAIN left, NEW i \in 1 .. n, left[j] = q[i]
                    PROVE  FALSE
        OBVIOUS
      <3>1. n + j = i
        BY <2>2, <1>5 DEF NoBufferShared, BufferOwnership
      <3>. QED BY <3>1, <2>2, <1>5
    <2>4. (\A t \in Threads : held[t] # None =>
            /\ held[t] \notin pool
            /\ \A u \in Threads : held[u] = held[t] => u = t
            /\ \A i \in Pushes : strand[i].buf # held[t]
            /\ \A i \in DOMAIN send_queue : send_queue[i] # held[t])'
      BY <2>1, <2>2, <1>6, <1>10 DEF NoBufferShared, BufferOwnership
    <2>5. (\A i \in Pushes :
            /\ strand[i].buf \notin pool
            /\ \A j \in Pushes : strand[j].buf = strand[i].buf => j = i
            /\ \A j \in DOMAIN send_queue : send_queue[j] # strand[i].buf)'
      <3>1. /\ pool' = pool \cup done
            /\ send_queue' = left
        BY <1>6
      <3>2. \A i \in Pushes : /\ strand[i].buf \notin pool
                             /\ \A j \in DOMAIN q : q[j] # strand[i].buf
        BY DEF NoBufferShared, BufferOwnership
      <3>3. \A i \in Pushes' : \A j \in Pushes' :
              strand'[j].buf = strand'[i].buf => j = i
        BY <1>10 DEF NoBufferShared, BufferOwnership
      <3>. QED BY <3>1, <3>2, <3>3, <2>1, <2>2, <1>10
    <2>6. (\A i \in DOMAIN send_queue :
            /\ send_queue[i] \notin pool
            /\ \A j \in DOMAIN send_queue : send_queue[j] = send_queue[i] => j = i)'
      BY SMTT(30), <2>2, <2>3, <1>5, <1>6 DEF NoBufferShared, BufferOwnership
    <2>. QED BY <2>4, <2>5, <2>6 DEF NoBufferShared
  <1>16. pool' \subseteq Buffers
    BY <1>5, <1>6 DEF SendTypeOK
  <1>17. open' \in BOOLEAN
    BY <1>3, <1>6 DEF SendTypeOK, Handlers
  <1>18. CASE more
    <2>1. Head(strand).ok /\ left # <<>> /\ open' = open
      BY <1>6, <1>18 DEF more, SendTypeOK
    <2>2. /\ active_writes' \in 1 .. Len(left)
          /\ active_writes' \in Nat
          /\ write_buffers' \in Seq(Buffers)
          /\ write_buffers' = SubSeq(left, 1, active_writes')
      BY <2>1, <1>7, <1>8, <1>18, BatchOfQueue
    <2>3. writes' = (IF ready THEN 1 ELSE 0)
      BY <1>4, <1>7, <1>18
    <2>4. SendTypeOK'
      BY <2>2, <2>3, <1>6, <1>8, <1>9, <1>16, <1>17 DEF SendTypeOK
    <2>5. CASE ready
      <3>1. DOMAIN strand' = 1 .. Len(strand) - 1
        BY <1>7, <1>9, <1>18, <2>5
      <3>2. Writtens' = {} /\ writes' = 1
        BY <3>1, <2>3, <2>5, <1>11 DEF Writtens
      <3>3. OneWrite' /\ NoStall'
        BY <3>2, <2>2, <1>6 DEF OneWrite, NoStall, WriteOutstanding
      <3>. QED BY <3>3, <2>4, <1>12, <1>13, <1>14, <1>15 DEF BufferOwnership
    <2>6. CASE ~ready
      <3>1. DOMAIN strand' = 1 .. Len(strand) /\ strand'[Len(strand)] = fail
        BY <1>7, <1>9, <1>18, <2>6
      <3>2. Writtens' = {Len(strand)} /\ writes' = 0
        BY <3>1, <2>3, <2>6, <1>1, <1>3, <1>11 DEF Writtens
      <3>3. OneWrite' /\ NoStall'
        BY <3>2, <2>2, <1>6 DEF OneWrite, NoStall, WriteOutstanding
      <3>. QED BY <3>3, <2>4, <1>12, <1>13, <1>14, <1>15 DEF BufferOwnership
    <2>. QED BY <2>5, <2>6
  <1>19. CASE ~more
    <2>1. UNCHANGED <<active_writes, write_buffers, writes>>
      BY <1>7, <1>19
    <2>2. DOMAIN strand' = 1 .. Len(strand) - 1
      BY <1>7, <1>9, <1>19
    <2>3. Writtens' = {} /\ writes' = 0
      BY <2>1, <2>2, <1>4, <1>11 DEF Writtens
    <2>4. SendTypeOK'
      BY <2>1, <1>6, <1>8, <1>9, <1>16, <1>17 DEF SendTypeOK
    <2>5. ~open' \/ send_queue' = <<>>
      BY <1>6, <1>19 DEF more
    <2>6. OneWrite' /\ NoStall'
      BY <2>3, <2>5 DEF OneWrite, NoStall, WriteOutstanding
    <2>. QED BY <2>4, <2>6, <1>12, <1>13, <1>14, <1>15 DEF BufferOwnership
  <1>. QED BY <1>18, <1>19

\* Whatever an endpoint does, each of its steps preserves the invariant.
THEOREM SendStepInv ==
    ASSUME SendInv, [SendStep]_sendVars
    PROVE  SendInv' /\ (NoStall /\ (open' => open) => NoStall')
  <1>1. CASE SendStep
    BY <1>1, SendCheckInv, SendPopInv, SendPostInv, PushHandlerInv, KernelInv,
       WrittenHandlerInv, EndpointInv DEF SendStep
  <1>2. CASE UNCHANGED sendVars
    <2>. USE <1>2 DEF SendInv, sendVars
    <2>1. SendTypeOK' /\ Holding' /\ PushesCarry'
      BY DEF SendTypeOK, Holding, PushesCarry, Pushes
    <2>2. BufferOwnership'
      BY DEF BufferOwnership, NoBufferLost, NoBufferShared, Pushes
    <2>3. OneWrite' /\ (NoStall /\ (open' => open) => NoStall')
      BY DEF OneWrite, NoStall, WriteOutstanding, Writtens
    <2>. QED BY <2>1, <2>2, <2>3
  <1>. QED BY <1>1, <1>2
-----------------------------------------------------------------------------
(***************************************************************************)
(* How the handlers of the strand move along when one of them runs.        *)
(***************************************************************************)

\* The first handler has left the strand, and the pushes behind it have moved up.
PushesShift ==
    /\ \A i \in Pushes' : i \in Nat /\ i + 1 \in Pushes /\ i + 1 # 1 /\ strand'[i] = strand[i + 1]
    /\ \A i \in Pushes : i \in Nat /\ (i # 1 => i - 1 \in Pushes' /\ strand'[i - 1] = strand[i])

PushesStay ==
    /\ Pushes' = Pushes
    /\ \A i \in Pushes : i \in Nat /\ strand'[i] = strand[i]

\* What do_write() makes of an empty or a rest queue: either a write that the
\* kernel has, or the completion of one that failed at once.
WriteStarts(ready) ==
    /\ active_writes' \in 1 .. Len(send_queue')
    /\ ready => writes' = 1 /\ Writtens' = {}
    /\ ~ready => /\ writes' = 0
                 /\ Writtens' = {Len(strand)}
                 /\ ~strand'[Len(strand)].ok

\* The completion of a write that failed at once.
FailedWrite(h) == h \in Handlers /\ h.kind = "written" /\ ~h.ok

LEMMA FailedWriteExists ==
    FailedWrite(Handler("written", None, FALSE))
  BY DEF FailedWrite, Handler, Handlers, HandlerKinds

\* The first handler of the strand has run, and may have left such a completion.
HasRun(fail) ==
    /\ strand # <<>>
    /\ FailedWrite(fail)
    /\ strand' \in {Tail(strand), Append(Tail(strand), fail)}

LEMMA StrandMoves ==
    ASSUME SendTypeOK, NEW fail, HasRun(fail)
    PROVE  /\ PushesShift
           /\ 1 \in Pushes <=> Head(strand).kind = "push"
           /\ 1 \in Writtens <=> Head(strand).kind = "written"
           /\ strand' = Tail(strand) =>
                /\ \A i \in Writtens' : i \in Nat /\ i + 1 \in Writtens /\ i + 1 # 1
                                        /\ strand'[i] = strand[i + 1]
                /\ \A i \in Writtens : i # 1 => i - 1 \in Writtens' /\ strand'[i - 1] = strand[i]
           /\ strand' = Append(Tail(strand), fail) =>
                /\ Len(strand) \in Writtens'
                /\ ~strand'[Len(strand)].ok
                /\ \A i \in Writtens' : i = Len(strand) \/ (i + 1 \in Writtens /\ i + 1 # 1)
  <1>1. fail \in Handlers /\ fail.kind = "written" /\ ~fail.ok
    BY DEF HasRun, FailedWrite
  <1>2. /\ Len(strand) \in Nat \ {0}
        /\ DOMAIN strand = 1 .. Len(strand)
        /\ Head(strand) = strand[1]
    BY RestOfStrand DEF SendTypeOK, HasRun
  <1>3. /\ \A i \in 1 .. Len(strand) - 1 :
             i \in DOMAIN strand' /\ strand'[i] = strand[i + 1]
        /\ \A i \in DOMAIN strand' :
             i \in 1 .. Len(strand) - 1 \/ (i = Len(strand) /\ strand'[i] = fail)
        /\ strand' = Tail(strand) => DOMAIN strand' = 1 .. Len(strand) - 1
        /\ strand' = Append(Tail(strand), fail) =>
             DOMAIN strand' = 1 .. Len(strand) /\ strand'[Len(strand)] = fail
    <2>1. /\ strand \in Seq(Handlers) /\ strand # <<>>
          /\ strand' \in {Tail(strand), Append(Tail(strand), fail)}
      BY DEF SendTypeOK, HasRun
    <2>. QED BY <1>1, <2>1, StrandAfter
  <1>4. \A i \in 2 .. Len(strand) : i - 1 \in DOMAIN strand' /\ strand'[i - 1] = strand[i]
    BY <1>2, <1>3
  <1>5. PushesShift
    BY <1>1, <1>2, <1>3, <1>4 DEF PushesShift, Pushes
  <1>6. /\ 1 \in Pushes <=> Head(strand).kind = "push"
        /\ 1 \in Writtens <=> Head(strand).kind = "written"
    BY <1>2 DEF Pushes, Writtens
  <1>7. ASSUME strand' = Tail(strand)
        PROVE  /\ \A i \in Writtens' : i \in Nat /\ i + 1 \in Writtens /\ i + 1 # 1
                                       /\ strand'[i] = strand[i + 1]
               /\ \A i \in Writtens : i # 1 => i - 1 \in Writtens' /\ strand'[i - 1] = strand[i]
    <2>1. DOMAIN strand' = 1 .. Len(strand) - 1
      BY <1>3, <1>7
    <2>2. ASSUME NEW i \in Writtens'
          PROVE  i \in Nat /\ i + 1 \in Writtens /\ i + 1 # 1 /\ strand'[i] = strand[i + 1]
      <3>1. i \in 1 .. Len(strand) - 1 /\ strand'[i].kind = "written"
        BY <2>1 DEF Writtens
      <3>2. i \in Nat /\ i + 1 \in 1 .. Len(strand) /\ i + 1 # 1
        BY <1>2, <3>1
      <3>3. strand'[i] = strand[i + 1]
        BY <1>3, <3>1
      <3>. QED BY <1>2, <3>1, <3>2, <3>3 DEF Writtens
    <2>3. \A i \in Writtens : i # 1 => i - 1 \in Writtens' /\ strand'[i - 1] = strand[i]
      BY <1>2, <1>4 DEF Writtens
    <2>. QED BY <2>2, <2>3
  <1>8. ASSUME strand' = Append(Tail(strand), fail)
        PROVE  /\ Len(strand) \in Writtens'
               /\ ~strand'[Len(strand)].ok
               /\ \A i \in Writtens' : i = Len(strand) \/ (i + 1 \in Writtens /\ i + 1 # 1)
    <2>1. DOMAIN strand' = 1 .. Len(strand) /\ strand'[Len(strand)] = fail
      BY <1>3, <1>8
    <2>2. Len(strand) \in Writtens' /\ ~strand'[Len(strand)].ok
      BY <1>1, <1>2, <2>1 DEF Writtens
    <2>3. \A i \in Writtens' : i = Len(strand) \/ (i + 1 \in Writtens /\ i + 1 # 1)
      <3>. TAKE i \in Writtens'
      <3>1. i \in 1 .. Len(strand) /\ strand'[i].kind = "written"
        BY <2>1 DEF Writtens
      <3>2. CASE i # Len(strand)
        <4>1. i \in 1 .. Len(strand) - 1 /\ i + 1 \in 1 .. Len(strand) /\ i + 1 # 1
          BY <1>2, <3>1, <3>2
        <4>. QED BY <1>2, <1>3, <3>1, <4>1 DEF Writtens
      <3>. QED BY <3>2
    <2>. QED BY <2>2, <2>3
  <1>. QED BY <1>5, <1>6, <1>7, <1>8

\* A push handler moves its buffer to the end of the queue, and starts a write
\* if the queue was empty.
LEMMA PushFacts ==
    ASSUME SendInv, NEW ready \in BOOLEAN, PushHandler(ready)
    PROVE  /\ 1 \in Pushes
           /\ strand[1].buf \in Buffers
           /\ send_queue' = Append(send_queue, strand[1].buf)
           /\ PushesShift
           /\ UNCHANGED <<open, data, posted, wire>>
           /\ send_queue # <<>> =>
                /\ UNCHANGED <<active_writes, writes>>
                /\ strand # <<>> /\ strand' = Tail(strand)
                /\ Head(strand).kind = "push"
                /\ Writtens' = {} <=> Writtens = {}
           /\ send_queue = <<>> => Writtens = {} /\ writes = 0 /\ WriteStarts(ready)
  <1>. USE DEF SendInv
  <1>. PICK fail : fail = Handler("written", None, FALSE) /\ FailedWrite(fail)
    BY FailedWriteExists
  <1>1. /\ strand # <<>> /\ Head(strand).kind = "push" /\ Head(strand) = strand[1]
        /\ Len(strand) \in Nat \ {0}
        /\ strand' \in {Tail(strand), Append(Tail(strand), fail)}
    BY RestOfStrand DEF PushHandler, Next1st, DoWrite, SendTypeOK
  <1>2. PushesShift /\ 1 \in Pushes /\ 1 \notin Writtens
    BY <1>1, StrandMoves DEF HasRun
  <1>3. strand[1].buf \in Buffers /\ send_queue \in Seq(Buffers)
    BY <1>2 DEF PushesCarry, SendTypeOK
  <1>4. send_queue' = Append(send_queue, strand[1].buf)
    <2>1. Len(send_queue) < QueueCap
      BY <1>2, NoOverwriteHolds DEF NoOverwrite, Capacity, BufferOwnership
    <2>. QED BY <2>1, <1>1 DEF PushHandler, PushBack, Capacity
  <1>5. UNCHANGED <<open, data, posted, wire>>
    BY DEF PushHandler
  <1>6. ASSUME send_queue # <<>>
        PROVE  /\ UNCHANGED <<active_writes, writes>>
               /\ strand' = Tail(strand)
               /\ Writtens' = {} <=> Writtens = {}
    <2>1. UNCHANGED <<active_writes, writes>> /\ strand' = Tail(strand)
      BY <1>6 DEF PushHandler, StartWrite
    <2>2. /\ \A i \in Writtens' : i + 1 \in Writtens
          /\ \A i \in Writtens : i # 1 => i - 1 \in Writtens'
      BY <1>1, <2>1, StrandMoves DEF HasRun
    <2>. QED BY <1>2, <2>1, <2>2
  <1>7. ASSUME send_queue = <<>>
        PROVE  Writtens = {} /\ writes = 0 /\ WriteStarts(ready)
    <2>1. writes = 0 /\ Writtens = {}
      BY <1>7, EmptySeq DEF OneWrite, WriteOutstanding, SendTypeOK
    <2>2. /\ active_writes' = BatchSize(send_queue')
          /\ writes' = IF ready THEN writes + 1 ELSE writes
          /\ strand' = IF ready THEN Tail(strand)
                       ELSE Append(Tail(strand), fail)
      BY <1>7 DEF PushHandler, StartWrite, DoWrite
    <2>3. active_writes' \in 1 .. Len(send_queue')
      <3>1. send_queue' \in Seq(Buffers) /\ send_queue' # <<>>
        BY <1>3, <1>4, AppendProperties, LenProperties
      <3>. QED BY <2>2, <3>1, BatchOfQueue
    <2>4. ASSUME ready PROVE writes' = 1 /\ Writtens' = {}
      <3>1. strand' = Tail(strand) /\ writes' = 1
        BY <2>4, <1>1, <2>1, <2>2
      <3>2. \A i \in Writtens' : i + 1 \in Writtens /\ i + 1 # 1
        BY <1>1, <3>1, StrandMoves DEF HasRun
      <3>. QED BY <1>1, <2>1, <2>2, <3>1, <3>2
    <2>5. ~ready => writes' = 0 /\ Writtens' = {Len(strand)} /\ ~strand'[Len(strand)].ok
      BY <1>1, <2>1, <2>2, StrandMoves DEF HasRun
    <2>. QED BY <2>1, <2>3, <2>4, <2>5 DEF WriteStarts
  <1>. QED BY <1>1, <1>2, <1>3, <1>4, <1>5, <1>6, <1>7

\* A write completion takes the messages of the write off the queue and writes
\* on, or closes the socket.
LEMMA WrittenFacts ==
    ASSUME SendInv, NEW ready \in BOOLEAN, WrittenHandler(ready)
    PROVE  /\ Writtens = {1} /\ writes = 0
           /\ active_writes \in 1 .. Len(send_queue)
           /\ Len(send_queue) \in Nat
           /\ send_queue' \in Seq(Buffers)
           /\ Len(send_queue') = Len(send_queue) - active_writes
           /\ DOMAIN send_queue' = 1 .. Len(send_queue) - active_writes
           /\ \A i \in DOMAIN send_queue' : send_queue'[i] = send_queue[active_writes + i]
           /\ PushesShift /\ 1 \notin Pushes
           /\ UNCHANGED <<data, posted, wire>>
           /\ strand[1].ok \in BOOLEAN
           /\ open' = (open /\ strand[1].ok)
           /\ IF strand[1].ok /\ send_queue' # <<>> THEN WriteStarts(ready)
              ELSE writes' = 0 /\ Writtens' = {}
  <1>. USE DEF SendInv
  <1>. PICK n, q : n = active_writes /\ q = send_queue
    OBVIOUS
  <1>. PICK fail : fail = Handler("written", None, FALSE) /\ FailedWrite(fail)
    BY FailedWriteExists
  <1>1. /\ strand # <<>> /\ Head(strand).kind = "written" /\ Head(strand) = strand[1]
        /\ Len(strand) \in Nat \ {0} /\ strand[1] \in Handlers
        /\ strand' \in {Tail(strand), Append(Tail(strand), fail)}
    BY RestOfStrand DEF WrittenHandler, Next1st, DoWrite, SendTypeOK
  <1>2. PushesShift /\ 1 \in Writtens /\ 1 \notin Pushes
    BY <1>1, StrandMoves DEF HasRun
  <1>3. Writtens = {1} /\ writes = 0
    BY <1>2 DEF OneWrite, SendTypeOK
  <1>4. /\ q \in Seq(Buffers) /\ Len(q) \in Nat
        /\ n \in 1 .. Len(q) /\ n \in Nat
        /\ \A i \in 1 .. Len(q) : q[i] \in Buffers
    BY <1>3, LenProperties, ElementOfSeq DEF OneWrite, WriteOutstanding, SendTypeOK
  <1>5. /\ send_queue' = SubSeq(q, n + 1, Len(q))
        /\ open' = (open /\ strand[1].ok)
        /\ UNCHANGED <<data, posted, wire>>
    BY <1>1 DEF WrittenHandler, WriteSucceeded
  <1>6. /\ send_queue' \in Seq(Buffers)
        /\ Len(send_queue') = Len(q) - n
        /\ DOMAIN send_queue' = 1 .. Len(q) - n
        /\ \A i \in 1 .. Len(q) - n : send_queue'[i] = q[n + i]
    <2>1. /\ SubSeq(q, n + 1, Len(q)) \in Seq(Buffers)
          /\ Len(SubSeq(q, n + 1, Len(q))) =
                IF n + 1 <= Len(q) THEN Len(q) - (n + 1) + 1 ELSE 0
          /\ \A i \in 1 .. Len(q) - (n + 1) + 1 :
                SubSeq(q, n + 1, Len(q))[i] = q[n + 1 + i - 1]
      BY <1>4, SubSeqProperties
    <2>2. Len(send_queue') = Len(q) - n
      BY <1>4, <1>5, <2>1
    <2>3. DOMAIN send_queue' = 1 .. Len(send_queue')
      BY <1>5, <2>1, LenProperties
    <2>4. \A i \in 1 .. Len(q) - n : SubSeq(q, n + 1, Len(q))[i] = q[n + i]
      BY <1>4, <2>1
    <2>. QED BY <1>5, <2>1, <2>2, <2>3, <2>4
  <1>7. ASSUME strand[1].ok, send_queue' # <<>>
        PROVE  WriteStarts(ready)
    <2>1. /\ active_writes' = BatchSize(send_queue')
          /\ writes' = IF ready THEN writes + 1 ELSE writes
          /\ strand' = IF ready THEN Tail(strand)
                       ELSE Append(Tail(strand), fail)
      BY <1>1, <1>5, <1>7 DEF WrittenHandler, WriteSucceeded, DoWrite
    <2>2. active_writes' \in 1 .. Len(send_queue')
      BY <1>6, <1>7, <2>1, BatchOfQueue
    <2>3. ASSUME ready PROVE writes' = 1 /\ Writtens' = {}
      <3>1. strand' = Tail(strand) /\ writes' = 1
        BY <2>3, <1>1, <1>3, <2>1
      <3>2. \A i \in Writtens' : i + 1 \in Writtens /\ i + 1 # 1
        BY <1>1, <3>1, StrandMoves DEF HasRun
      <3>. QED BY <1>1, <1>3, <2>1, <3>1, <3>2
    <2>4. ~ready => writes' = 0 /\ Writtens' = {Len(strand)} /\ ~strand'[Len(strand)].ok
      BY <1>1, <1>3, <2>1, StrandMoves DEF HasRun
    <2>. QED BY <2>2, <2>3, <2>4 DEF WriteStarts
  <1>8. ASSUME ~(strand[1].ok /\ send_queue' # <<>>)
        PROVE  writes' = 0 /\ Writtens' = {}
    <2>1. strand' = Tail(strand) /\ writes' = writes
      BY <1>1, <1>5, <1>8 DEF WrittenHandler, WriteSucceeded
    <2>. QED BY <1>1, <1>3, <2>1, StrandMoves DEF HasRun
  <1>. QED BY <1>1, <1>2, <1>3, <1>4, <1>5, <1>6, <1>7, <1>8 DEF Handlers
-----------------------------------------------------------------------------
(***************************************************************************)
(* The order of messages: what is on the wire was posted before what is in *)
(* the queue, and that before what is still on the strand.                 *)
(***************************************************************************)

\* How many messages at the front of the queue have been with the kernel: their
\* completion is on the strand and will take them off.
OutAlready == IF Writtens = {} THEN 0 ELSE active_writes

WireOrder == \A i, j \in DOMAIN wire : i < j => wire[i] < wire[j]

QueueOrder ==
    \A i, j \in DOMAIN send_queue : i < j => data[send_queue[i]] < data[send_queue[j]]

PushOrder == \A i, j \in Pushes : i < j => data[strand[i].buf] < data[strand[j].buf]

WireFirst ==
    \A i \in DOMAIN wire :
        /\ \A j \in DOMAIN send_queue : j > OutAlready => wire[i] < data[send_queue[j]]
        /\ \A j \in Pushes : wire[i] < data[strand[j].buf]

QueueNext ==
    \A i \in DOMAIN send_queue : \A j \in Pushes : data[send_queue[i]] < data[strand[j].buf]

PostedBound ==
    /\ \A i \in DOMAIN wire : wire[i] <= posted
    /\ \A i \in DOMAIN send_queue : data[send_queue[i]] <= posted
    /\ \A i \in Pushes : data[strand[i].buf] <= posted

InOrder == /\ WireOrder /\ QueueOrder /\ PushOrder
           /\ WireFirst /\ QueueNext /\ PostedBound

\* All of these are numbers.
Numbers ==
    /\ posted \in Nat
    /\ Len(wire) \in Nat /\ DOMAIN wire = 1 .. Len(wire)
    /\ Len(send_queue) \in Nat /\ DOMAIN send_queue = 1 .. Len(send_queue)
    /\ \A i \in DOMAIN wire : wire[i] \in Nat
    /\ \A i \in DOMAIN send_queue : send_queue[i] \in Buffers /\ data[send_queue[i]] \in Nat
    /\ \A i \in Pushes : i \in Nat /\ strand[i].buf \in Buffers /\ data[strand[i].buf] \in Nat
    /\ OutAlready \in Nat /\ OutAlready <= Len(send_queue)

LEMMA AllNumbers == ASSUME SendInv PROVE Numbers
  <1>. USE DEF SendInv
  <1>1. /\ Len(wire) \in Nat /\ DOMAIN wire = 1 .. Len(wire)
        /\ \A i \in DOMAIN wire : wire[i] \in Nat
    BY LenProperties, ElementOfSeq DEF SendTypeOK
  <1>2. /\ Len(send_queue) \in Nat /\ DOMAIN send_queue = 1 .. Len(send_queue)
        /\ \A i \in DOMAIN send_queue : send_queue[i] \in Buffers
    BY LenProperties, ElementOfSeq DEF SendTypeOK
  <1>3. \A i \in Pushes : i \in Nat /\ strand[i].buf \in Buffers
    <2>1. DOMAIN strand = 1 .. Len(strand) /\ Len(strand) \in Nat
      BY LenProperties DEF SendTypeOK
    <2>. QED BY <2>1 DEF PushesCarry, Pushes
  <1>4. data \in [Buffers -> Nat] /\ posted \in Nat
    BY DEF SendTypeOK
  <1>5. OutAlready \in Nat /\ OutAlready <= Len(send_queue)
    BY <1>2 DEF OutAlready, OneWrite, WriteOutstanding
  <1>. QED BY <1>1, <1>2, <1>3, <1>4, <1>5 DEF Numbers

LEMMA OrderInit == ASSUME SendInit PROVE InOrder
  BY DEF SendInit, InOrder, WireOrder, QueueOrder, PushOrder, WireFirst, QueueNext, PostedBound,
         Pushes

\* A step that leaves messages where they are.
LEMMA OrderKept ==
    ASSUME InOrder, Numbers, UNCHANGED <<data, posted, wire, send_queue>>,
           PushesStay \/ PushesShift, OutAlready' = OutAlready
    PROVE  InOrder'
  <1>. USE DEF InOrder
  <1>1. PICK d \in Nat : \A i \in Pushes' : i \in Nat /\ i + d \in Pushes
                                            /\ strand'[i] = strand[i + d]
    <2>1. CASE PushesStay
      <3>1. \A i \in Pushes' : i \in Nat /\ i + 0 \in Pushes /\ strand'[i] = strand[i + 0]
        BY <2>1 DEF PushesStay
      <3>. QED BY <3>1
    <2>2. CASE PushesShift
      BY <2>2 DEF PushesShift
    <2>. QED BY <2>1, <2>2
  <1>2. WireOrder' /\ QueueOrder'
    BY DEF WireOrder, QueueOrder
  <1>3. PushOrder'
    <2>. SUFFICES ASSUME NEW i \in Pushes', NEW j \in Pushes', i < j
                  PROVE  data[strand'[i].buf] < data[strand'[j].buf]
      BY DEF PushOrder
    <2>1. i + d < j + d
      BY <1>1
    <2>. QED BY <1>1, <2>1 DEF PushOrder
  <1>4. WireFirst' /\ QueueNext' /\ PostedBound'
    BY <1>1 DEF WireFirst, QueueNext, PostedBound
  <1>. QED BY <1>2, <1>3, <1>4

\* send() copies into a buffer that nobody else has, and posts it behind all
\* the others.
LEMMA PostOrder ==
    ASSUME SendInv, InOrder, NEW t \in Threads, SendPost(t)
    PROVE  InOrder'
  <1>. USE DEF SendInv, InOrder
  <1>n. Numbers
    BY AllNumbers
  <1>1. held[t] \in Buffers /\ held[t] # None
    BY DEF Holding, SendPost, SendTypeOK
  <1>h. PICK h : h = Handler("push", held[t], TRUE)
    OBVIOUS
  <1>2. h \in Handlers /\ h.kind = "push" /\ h.buf = held[t]
    BY <1>h, <1>1 DEF Handler, Handlers, HandlerKinds
  <1>3. /\ Len(strand) \in Nat
        /\ Pushes' = Pushes \cup {Len(strand) + 1}
        /\ Writtens' = Writtens
        /\ \A i \in Pushes : i \in 1 .. Len(strand) /\ strand'[i] = strand[i]
        /\ strand'[Len(strand) + 1] = h
    <2>1. strand \in Seq(Handlers) /\ strand' = Append(strand, h)
      BY <1>h DEF SendPost, SendTypeOK
    <2>2. /\ Len(strand) \in Nat
          /\ DOMAIN strand = 1 .. Len(strand)
          /\ DOMAIN strand' = 1 .. Len(strand) + 1
          /\ \A i \in 1 .. Len(strand) : strand'[i] = strand[i]
          /\ strand'[Len(strand) + 1] = h
      BY <1>2, <2>1, LongerStrand
    <2>. QED BY <1>2, <2>2 DEF Pushes, Writtens
  <1>4. /\ posted' = posted + 1
        /\ data' = [data EXCEPT ![held[t]] = posted + 1]
        /\ data \in [Buffers -> Nat]
        /\ UNCHANGED <<send_queue, wire, active_writes>>
    BY DEF SendPost, Copied, SendTypeOK
  <1>5. /\ \A i \in DOMAIN send_queue : data'[send_queue[i]] = data[send_queue[i]]
        /\ \A i \in Pushes : data'[strand[i].buf] = data[strand[i].buf]
        /\ data'[held[t]] = posted + 1
    BY <1>n, <1>1, <1>4 DEF BufferOwnership, NoBufferShared, Numbers
  <1>6. OutAlready' = OutAlready
    BY <1>3, <1>4 DEF OutAlready
  <1>7. WireOrder' /\ QueueOrder'
    BY <1>4, <1>5 DEF WireOrder, QueueOrder
  <1>8. PushOrder'
    <2>. SUFFICES ASSUME NEW i \in Pushes', NEW j \in Pushes', i < j
                  PROVE  data'[strand'[i].buf] < data'[strand'[j].buf]
      BY DEF PushOrder
    <2>1. i \in Pushes
      BY <1>3
    <2>2. CASE j \in Pushes
      BY <1>3, <1>5, <2>1, <2>2 DEF PushOrder
    <2>3. CASE j = Len(strand) + 1
      <3>1. data'[strand'[j].buf] = posted + 1
        BY <1>2, <1>3, <1>5, <2>3
      <3>. QED BY <1>n, <1>3, <1>5, <2>1, <3>1 DEF PostedBound, Numbers
    <2>. QED BY <1>3, <2>2, <2>3
  <1>9. WireFirst' /\ QueueNext'
    <2>1. \A j \in Pushes' : j \in Pushes \/ data'[strand'[j].buf] = posted + 1
      BY <1>2, <1>3, <1>5
    <2>2. \A j \in Pushes : data'[strand'[j].buf] = data[strand[j].buf]
      BY <1>3, <1>5
    <2>3. WireFirst'
      <3>1. \A i \in DOMAIN wire : \A j \in DOMAIN send_queue :
              j > OutAlready' => wire[i] < data'[send_queue[j]]
        BY <1>5, <1>6 DEF WireFirst
      <3>2. \A i \in DOMAIN wire : \A j \in Pushes' : wire[i] < data'[strand'[j].buf]
        BY <1>n, <2>1, <2>2 DEF WireFirst, PostedBound, Numbers
      <3>. QED BY <1>4, <3>1, <3>2 DEF WireFirst
    <2>4. QueueNext'
      BY <1>n, <1>4, <1>5, <2>1, <2>2 DEF QueueNext, PostedBound, Numbers
    <2>. QED BY <2>3, <2>4
  <1>10. PostedBound'
    <2>1. \A j \in Pushes' : data'[strand'[j].buf] <= posted + 1
      <3>1. \A j \in Pushes : data'[strand'[j].buf] = data[strand[j].buf]
        BY <1>3, <1>5
      <3>2. data'[strand'[Len(strand) + 1].buf] = posted + 1
        BY <1>2, <1>3, <1>5
      <3>. QED BY <1>n, <1>3, <3>1, <3>2 DEF PostedBound, Numbers
    <2>. QED BY <1>n, <1>4, <1>5, <2>1 DEF PostedBound, Numbers
  <1>. QED BY <1>7, <1>8, <1>9, <1>10

\* The push handler: from the strand to the end of the queue.
LEMMA PushHandlerOrder ==
    ASSUME SendInv, InOrder, NEW ready \in BOOLEAN, PushHandler(ready)
    PROVE  InOrder'
  <1>. USE DEF InOrder
  <1>n. Numbers
    BY AllNumbers
  <1>. PICK b, n : b = strand[1].buf /\ n = Len(send_queue)
    OBVIOUS
  <1>1. /\ 1 \in Pushes /\ b \in Buffers
        /\ send_queue' = Append(send_queue, b) /\ send_queue \in Seq(Buffers)
        /\ PushesShift
        /\ UNCHANGED <<data, posted, wire>>
    BY PushFacts DEF SendInv, SendTypeOK
  <1>2. /\ n \in Nat
        /\ DOMAIN send_queue = 1 .. n
        /\ DOMAIN send_queue' = 1 .. n + 1
        /\ \A i \in 1 .. n : send_queue'[i] = send_queue[i]
        /\ send_queue'[n + 1] = b
    BY <1>1, AppendProperties, LenProperties
  <1>3. \A j \in DOMAIN send_queue' : j > OutAlready' => j > OutAlready \/ j = n + 1
    <2>1. CASE send_queue # <<>>
      <3>1. OutAlready' = OutAlready
        BY <2>1, PushFacts DEF OutAlready
      <3>. QED BY <3>1
    <2>2. CASE send_queue = <<>>
      <3>1. n = 0
        BY <2>2, EmptySeq
      <3>. QED BY <1>2, <3>1
    <2>. QED BY <2>1, <2>2
  <1>4. WireOrder'
    BY <1>1 DEF WireOrder
  <1>5. QueueOrder'
    <2>. SUFFICES ASSUME NEW i \in 1 .. n + 1, NEW j \in 1 .. n + 1, i < j
                  PROVE  data[send_queue'[i]] < data[send_queue'[j]]
      BY <1>1, <1>2 DEF QueueOrder
    <2>1. i \in 1 .. n /\ (j \in 1 .. n \/ j = n + 1)
      BY <1>2
    <2>. QED BY <1>1, <1>2, <2>1 DEF QueueOrder, QueueNext
  <1>6. PushOrder'
    <2>. SUFFICES ASSUME NEW i \in Pushes', NEW j \in Pushes', i < j
                  PROVE  data[strand'[i].buf] < data[strand'[j].buf]
      BY <1>1 DEF PushOrder
    <2>1. /\ i + 1 \in Pushes /\ j + 1 \in Pushes /\ i + 1 < j + 1
          /\ strand'[i] = strand[i + 1] /\ strand'[j] = strand[j + 1]
      BY <1>1 DEF PushesShift
    <2>. QED BY <2>1 DEF PushOrder
  <1>7. \A j \in Pushes' : /\ j + 1 \in Pushes /\ strand'[j] = strand[j + 1]
                           /\ data[b] < data[strand'[j].buf]
    <2>. TAKE j \in Pushes'
    <2>1. j \in Nat /\ j + 1 \in Pushes /\ j + 1 # 1 /\ strand'[j] = strand[j + 1]
      BY <1>1 DEF PushesShift
    <2>2. 1 < j + 1
      BY <2>1
    <2>. QED BY <1>1, <2>1, <2>2 DEF PushOrder
  <1>8. \A i \in DOMAIN wire : wire[i] < data[b]
    BY <1>1 DEF WireFirst
  <1>9. WireFirst'
    <2>1. \A i \in DOMAIN wire : \A j \in 1 .. n + 1 :
            j > OutAlready' => wire[i] < data[send_queue'[j]]
      <3>. TAKE i \in DOMAIN wire
      <3>. TAKE j \in 1 .. n + 1
      <3>1. CASE j = n + 1
        BY <1>2, <1>8, <3>1
      <3>2. CASE j \in 1 .. n
        <4>1. j # n + 1
          BY <1>2, <3>2
        <4>. QED BY <1>2, <1>3, <3>2, <4>1 DEF WireFirst
      <3>. QED BY <1>2, <3>1, <3>2
    <2>2. \A i \in DOMAIN wire : \A j \in Pushes' : wire[i] < data[strand'[j].buf]
      BY <1>7 DEF WireFirst
    <2>. QED BY <1>1, <1>2, <2>1, <2>2 DEF WireFirst
  <1>10. QueueNext'
    <2>1. \A i \in 1 .. n + 1 : \A j \in Pushes' : data[send_queue'[i]] < data[strand'[j].buf]
      BY <1>2, <1>7 DEF QueueNext
    <2>. QED BY <1>1, <1>2, <2>1 DEF QueueNext
  <1>11. PostedBound'
    <2>1. \A i \in 1 .. n + 1 : data[send_queue'[i]] <= posted
      BY <1>1, <1>2 DEF PostedBound
    <2>2. \A i \in Pushes' : data[strand'[i].buf] <= posted
      BY <1>7 DEF PostedBound
    <2>. QED BY <1>1, <1>2, <2>1, <2>2 DEF PostedBound
  <1>. QED BY <1>4, <1>5, <1>6, <1>9, <1>10, <1>11

LEMMA FrontOfQueue ==
    ASSUME NEW q \in Seq(Buffers), NEW n \in Nat, n <= Len(q)
    PROVE  /\ SubSeq(q, 1, n) \in Seq(Buffers)
           /\ Len(SubSeq(q, 1, n)) = n
           /\ \A i \in 1 .. n : SubSeq(q, 1, n)[i] = q[i]
  <1>1. Len(q) \in Nat /\ \A i \in 1 .. Len(q) : q[i] \in Buffers
    BY LenProperties, ElementOfSeq
  <1>2. \A i \in 1 .. n : q[i] \in Buffers
    BY <1>1
  <1>3. n \in Int /\ 1 \in Int
    OBVIOUS
  <1>4. /\ SubSeq(q, 1, n) \in Seq(Buffers)
        /\ Len(SubSeq(q, 1, n)) = IF 1 <= n THEN n - 1 + 1 ELSE 0
        /\ \A i \in 1 .. n - 1 + 1 : SubSeq(q, 1, n)[i] = q[1 + i - 1]
    BY <1>2, <1>3, SubSeqProperties
  <1>. QED BY <1>4

LEMMA FrontOfFront ==
    ASSUME NEW q \in Seq(Buffers), NEW m \in Nat, NEW n \in Nat, n <= m, m <= Len(q)
    PROVE  SubSeq(SubSeq(q, 1, m), 1, n) = SubSeq(q, 1, n)
  <1>. PICK r : r = SubSeq(q, 1, m)
    OBVIOUS
  <1>1. Len(q) \in Nat
    BY LenProperties
  <1>2. r \in Seq(Buffers) /\ Len(r) = m /\ \A i \in 1 .. m : r[i] = q[i]
    BY FrontOfQueue
  <1>3. /\ SubSeq(r, 1, n) \in Seq(Buffers) /\ Len(SubSeq(r, 1, n)) = n
        /\ \A i \in 1 .. n : SubSeq(r, 1, n)[i] = r[i]
    BY <1>2, FrontOfQueue
  <1>4. /\ SubSeq(q, 1, n) \in Seq(Buffers) /\ Len(SubSeq(q, 1, n)) = n
        /\ \A i \in 1 .. n : SubSeq(q, 1, n)[i] = q[i]
    BY <1>1, FrontOfQueue
  <1>5. \A i \in 1 .. n : SubSeq(r, 1, n)[i] = SubSeq(q, 1, n)[i]
    BY <1>2, <1>3, <1>4
  <1>. QED BY <1>3, <1>4, <1>5, SeqEqual

LEMMA JoinedWire ==
    ASSUME NEW s \in Seq(Nat), NEW z \in Seq(Nat)
    PROVE  /\ s \o z \in Seq(Nat) /\ Len(s \o z) = Len(s) + Len(z)
           /\ \A i \in 1 .. Len(s) : (s \o z)[i] = s[i]
           /\ \A i \in 1 .. Len(z) : (s \o z)[Len(s) + i] = z[i]
  <1>1. Len(s) \in Nat /\ Len(z) \in Nat
    BY LenProperties
  <1>2. /\ s \o z \in Seq(Nat) /\ Len(s \o z) = Len(s) + Len(z)
        /\ \A i \in 1 .. Len(s) + Len(z) :
             (s \o z)[i] = IF i <= Len(s) THEN s[i] ELSE z[i - Len(s)]
    BY ConcatProperties
  <1>3. ASSUME NEW i \in 1 .. Len(z) PROVE (s \o z)[Len(s) + i] = z[i]
    <2>1. Len(s) + i \in 1 .. Len(s) + Len(z) /\ ~(Len(s) + i <= Len(s)) /\ Len(s) + i - Len(s) = i
      BY <1>1
    <2>. QED BY <1>2, <2>1
  <1>. QED BY <1>1, <1>2, <1>3

\* The kernel transmits the first n messages of the queue.
Transmits(n) == wire' = wire \o Contents(SubSeq(send_queue, 1, n))

\* A write transmits a front part of the queue.
LEMMA KernelFacts ==
    ASSUME SendInv, WriteOk \/ WriteFail
    PROVE  /\ Writtens = {} /\ writes = 1 /\ writes' = 0
           /\ Writtens' = {Len(strand) + 1}
           /\ PushesStay
           /\ UNCHANGED <<open, data, posted, send_queue, active_writes>>
           /\ active_writes \in 1 .. Len(send_queue)
           /\ \E n \in 0 .. active_writes :
                /\ WriteOk => n = active_writes /\ open /\ strand'[Len(strand) + 1].ok
                /\ ~WriteOk => n < active_writes /\ ~strand'[Len(strand) + 1].ok
                /\ wire' \in Seq(Nat)
                /\ Len(wire') = Len(wire) + n
                /\ \A i \in 1 .. Len(wire) : wire'[i] = wire[i]
                /\ \A i \in 1 .. n : wire'[Len(wire) + i] = data[send_queue[i]]
  <1>. USE DEF SendInv
  <1>1. /\ writes > 0
        /\ writes' = writes - 1
        /\ UNCHANGED <<open, data, posted, send_queue, active_writes, write_buffers>>
    BY DEF WriteOk, WriteFail
  <1>2. writes = 1 /\ Writtens = {} /\ writes' = 0
    BY <1>1 DEF OneWrite, SendTypeOK
  <1>3. /\ active_writes \in 1 .. Len(send_queue)
        /\ write_buffers = SubSeq(send_queue, 1, active_writes)
        /\ send_queue \in Seq(Buffers) /\ Len(send_queue) \in Nat /\ active_writes \in Nat
        /\ wire \in Seq(Nat)
    BY <1>2, LenProperties DEF OneWrite, WriteOutstanding, SendTypeOK
  <1>4. PICK h \in Handlers : /\ h.kind = "written" /\ strand' = Append(strand, h)
                              /\ WriteOk => h.ok
                              /\ ~WriteOk => ~h.ok
    <2>1. CASE WriteOk
      <3>1. PICK h : h = Handler("written", None, TRUE)
        OBVIOUS
      <3>2. h \in Handlers /\ h.kind = "written" /\ h.ok
        BY <3>1 DEF Handler, Handlers, HandlerKinds
      <3>. QED BY <2>1, <3>1, <3>2 DEF WriteOk
    <2>2. CASE WriteFail /\ ~WriteOk
      <3>1. PICK h : h = Handler("written", None, FALSE)
        OBVIOUS
      <3>2. h \in Handlers /\ h.kind = "written" /\ ~h.ok
        BY <3>1 DEF Handler, Handlers, HandlerKinds
      <3>3. strand' = Append(strand, h)
        BY <2>2, <3>1 DEF WriteFail
      <3>. QED BY <2>2, <3>2, <3>3
    <2>. QED BY <2>1, <2>2
  <1>5. /\ Writtens' = {Len(strand) + 1} /\ strand'[Len(strand) + 1] = h
        /\ Pushes' = Pushes
        /\ \A i \in Pushes : strand'[i] = strand[i]
    BY <1>2, <1>4, PushesGrow
  <1>6. PushesStay
    BY <1>5, AllNumbers DEF PushesStay, Numbers
  <1>7. PICK n \in 0 .. active_writes :
            /\ WriteOk => n = active_writes
            /\ ~WriteOk => n < active_writes
            /\ Transmits(n)
    <2>1. Len(write_buffers) = active_writes
      <3>1. \A i \in 1 .. Len(send_queue) : send_queue[i] \in Buffers
        BY <1>3, ElementOfSeq
      <3>. QED BY <1>3, <3>1, SubSeqProperties
    <2>2. CASE WriteOk
      <3>1. Transmits(active_writes)
        BY <1>3, <2>2 DEF WriteOk, Transmits
      <3>. QED BY <1>3, <2>2, <3>1
    <2>3. CASE WriteFail /\ ~WriteOk
      <3>1. PICK n \in 0 .. active_writes - 1 :
                wire' = wire \o Contents(SubSeq(write_buffers, 1, n))
        BY <2>1, <2>3 DEF WriteFail
      <3>2. Transmits(n)
        <4>1. n \in Nat /\ n <= active_writes /\ active_writes <= Len(send_queue)
          BY <1>3
        <4>2. SubSeq(write_buffers, 1, n) = SubSeq(send_queue, 1, n)
          BY <1>3, <4>1, FrontOfFront
        <4>. QED BY <3>1, <4>2 DEF Transmits
      <3>3. n \in 0 .. active_writes /\ n < active_writes
        BY <1>3
      <3>. QED BY <2>3, <3>2, <3>3
    <2>. QED BY <2>2, <2>3
  <1>8. PICK c : c = SubSeq(send_queue, 1, n)
    OBVIOUS
  <1>9. /\ c \in Seq(Buffers) /\ Len(c) = n /\ n \in Nat
        /\ \A i \in 1 .. n : c[i] = send_queue[i]
    <2>1. n \in Nat /\ n <= Len(send_queue)
      BY <1>3
    <2>. QED BY <1>3, <1>8, <2>1, FrontOfQueue
  <1>10. /\ wire' \in Seq(Nat)
         /\ Len(wire') = Len(wire) + n
         /\ \A i \in 1 .. Len(wire) : wire'[i] = wire[i]
         /\ \A i \in 1 .. n : wire'[Len(wire) + i] = data[send_queue[i]]
    <2>1. PICK z : z = Contents(c)
      OBVIOUS
    <2>2. /\ z \in Seq(Nat) /\ Len(z) = n
          /\ \A i \in 1 .. n : z[i] = data[c[i]]
      BY <1>9, <2>1, ContentsType
    <2>3. wire' = wire \o z
      BY <1>7, <1>8, <2>1 DEF Transmits
    <2>4. /\ wire \o z \in Seq(Nat) /\ Len(wire \o z) = Len(wire) + n
          /\ \A i \in 1 .. Len(wire) : (wire \o z)[i] = wire[i]
          /\ \A i \in 1 .. n : (wire \o z)[Len(wire) + i] = z[i]
      BY <1>3, <2>2, JoinedWire
    <2>5. \A i \in 1 .. n : z[i] = data[send_queue[i]]
      BY <1>9, <2>2
    <2>. QED BY <2>3, <2>4, <2>5
  <1>11. WriteOk => open
    BY DEF WriteOk
  <1>. QED BY <1>1, <1>2, <1>3, <1>4, <1>5, <1>6, <1>7, <1>10, <1>11

\* The kernel takes messages off the front of the queue, in order.
LEMMA KernelOrder ==
    ASSUME SendInv, InOrder, WriteOk \/ WriteFail
    PROVE  InOrder'
  <1>. USE DEF InOrder
  <1>n. Numbers
    BY AllNumbers
  <1>1. /\ UNCHANGED <<data, posted, send_queue, active_writes>> /\ PushesStay
        /\ OutAlready = 0 /\ OutAlready' = active_writes
        /\ active_writes \in 1 .. Len(send_queue)
    BY KernelFacts DEF OutAlready
  <1>2. PICK w, n :
            /\ w = Len(wire) /\ n \in 0 .. active_writes
            /\ wire' \in Seq(Nat)
            /\ Len(wire') = w + n
            /\ \A i \in 1 .. w : wire'[i] = wire[i]
            /\ \A i \in 1 .. n : wire'[w + i] = data[send_queue[i]]
    BY KernelFacts, ZenonT(30)
  <1>3. /\ w \in Nat /\ n \in Nat /\ DOMAIN wire = 1 .. w /\ DOMAIN wire' = 1 .. w + n
        /\ \A k \in 1 .. n : k \in DOMAIN send_queue /\ k <= active_writes
    BY <1>n, <1>1, <1>2, LenProperties DEF Numbers
  <1>s. \A k \in 1 .. n : \A i : i = w + k => wire'[i] = data[send_queue[k]]
    <2>1. \A k \in 1 .. n : wire'[w + k] = data[send_queue[k]]
      BY <1>2
    <2>. QED BY ONLY <2>1, Zenon
  <1>4. ASSUME NEW i \in DOMAIN wire'
        PROVE  i \in DOMAIN wire \/ \E k \in 1 .. n : i = w + k
    <2>1. CASE i > w
      <3>1. i - w \in 1 .. n /\ i = w + (i - w)
        BY <1>3, <2>1
      <3>. QED BY <3>1
    <2>. QED BY <1>3, <2>1
  <1>5. WireOrder'
    <2>. SUFFICES ASSUME NEW i \in DOMAIN wire', NEW j \in DOMAIN wire', i < j
                  PROVE  wire'[i] < wire'[j]
      BY DEF WireOrder
    <2>1. CASE i \in DOMAIN wire /\ j \in DOMAIN wire
      BY <1>2, <1>3, <2>1 DEF WireOrder
    <2>2. ASSUME i \in DOMAIN wire, NEW k \in 1 .. n, j = w + k
          PROVE  wire'[i] < wire'[j]
      <3>1. k \in DOMAIN send_queue /\ k > OutAlready
        BY <1>1, <1>3
      <3>2. wire[i] < data[send_queue[k]]
        BY <2>2, <3>1 DEF WireFirst
      <3>. QED BY <1>2, <1>3, <2>2, <3>2
    <2>3. ASSUME NEW k \in 1 .. n, NEW l \in 1 .. n, i = w + k, j = w + l
          PROVE  wire'[i] < wire'[j]
      <3>1. k < l
        BY <1>3, <2>3
      <3>2. data[send_queue[k]] < data[send_queue[l]]
        BY <1>3, <3>1 DEF QueueOrder
      <3>. QED BY <1>s, <2>3, <3>2
    <2>4. ASSUME NEW k \in 1 .. n, i = w + k
          PROVE  j \notin DOMAIN wire
      BY <1>3, <2>4
    <2>. QED BY <1>4, <2>1, <2>2, <2>3, <2>4
  <1>6. QueueOrder'
    BY <1>1 DEF QueueOrder
  <1>7. Pushes' = Pushes /\ \A i \in Pushes : i \in Nat /\ strand'[i] = strand[i]
    BY <1>1 DEF PushesStay
  <1>8. PushOrder' /\ QueueNext'
    BY <1>1, <1>7 DEF PushOrder, QueueNext
  <1>9. WireFirst'
    <2>1. ASSUME NEW i \in DOMAIN wire'
          PROVE  /\ \A j \in DOMAIN send_queue : j > active_writes => wire'[i] < data[send_queue[j]]
                 /\ \A j \in Pushes : wire'[i] < data[strand[j].buf]
      <3>1. CASE i \in DOMAIN wire
        <4>1. \A j \in DOMAIN send_queue : j > OutAlready
          BY <1>n, <1>1 DEF Numbers
        <4>2. wire'[i] = wire[i]
          BY <1>2, <1>3, <3>1
        <4>. QED BY <3>1, <4>1, <4>2 DEF WireFirst
      <3>2. ASSUME NEW k \in 1 .. n, i = w + k
            PROVE  /\ \A j \in DOMAIN send_queue :
                        j > active_writes => wire'[i] < data[send_queue[j]]
                   /\ \A j \in Pushes : wire'[i] < data[strand[j].buf]
        <4>1. wire'[i] = data[send_queue[k]]
          BY <1>s, <3>2
        <4>2. k \in DOMAIN send_queue /\ k <= active_writes
          BY <1>3
        <4>3. \A j \in DOMAIN send_queue : j > active_writes => k < j
          BY <1>n, <1>1, <1>3, <4>2 DEF Numbers
        <4>. QED BY <4>1, <4>2, <4>3 DEF QueueOrder, QueueNext
      <3>. QED BY <1>4, <3>1, <3>2
    <2>. QED BY <1>1, <1>7, <2>1 DEF WireFirst
  <1>10. PostedBound'
    <2>1. ASSUME NEW i \in DOMAIN wire' PROVE wire'[i] <= posted
      <3>1. CASE i \in DOMAIN wire
        BY <1>2, <1>3, <3>1 DEF PostedBound
      <3>2. ASSUME NEW k \in 1 .. n, i = w + k PROVE wire'[i] <= posted
        BY <1>s, <1>3, <3>2 DEF PostedBound
      <3>. QED BY <1>4, <3>1, <3>2
    <2>. QED BY <1>1, <1>7, <2>1 DEF PostedBound
  <1>. QED BY <1>5, <1>6, <1>8, <1>9, <1>10

\* The completion takes the messages off the queue that are on the wire.
LEMMA WrittenOrder ==
    ASSUME SendInv, InOrder, NEW ready \in BOOLEAN, WrittenHandler(ready)
    PROVE  InOrder'
  <1>. USE DEF InOrder
  <1>n. Numbers
    BY AllNumbers
  <1>1. PICK a : a = active_writes
    OBVIOUS
  <1>2. /\ UNCHANGED <<data, posted, wire>> /\ PushesShift
        /\ OutAlready = a /\ a \in 1 .. Len(send_queue)
        /\ DOMAIN send_queue' = 1 .. Len(send_queue) - a
        /\ \A i \in DOMAIN send_queue' : send_queue'[i] = send_queue[a + i]
    BY <1>1, WrittenFacts DEF OutAlready
  <1>3. \A i \in DOMAIN send_queue' : /\ i \in Nat /\ a + i \in DOMAIN send_queue
                                      /\ a + i > a /\ send_queue'[i] = send_queue[a + i]
    BY <1>n, <1>2 DEF Numbers
  <1>4. \A i \in Pushes' : i \in Nat /\ i + 1 \in Pushes /\ strand'[i] = strand[i + 1]
    BY <1>2 DEF PushesShift
  <1>5. WireOrder'
    BY <1>2 DEF WireOrder
  <1>6. QueueOrder'
    <2>. SUFFICES ASSUME NEW i \in DOMAIN send_queue', NEW j \in DOMAIN send_queue', i < j
                  PROVE  data[send_queue'[i]] < data[send_queue'[j]]
      BY <1>2 DEF QueueOrder
    <2>1. a + i < a + j
      BY <1>2, <1>3
    <2>. QED BY <1>3, <2>1 DEF QueueOrder
  <1>7. PushOrder'
    <2>. SUFFICES ASSUME NEW i \in Pushes', NEW j \in Pushes', i < j
                  PROVE  data[strand'[i].buf] < data[strand'[j].buf]
      BY <1>2 DEF PushOrder
    <2>1. i + 1 < j + 1
      BY <1>4
    <2>. QED BY <1>4, <2>1 DEF PushOrder
  <1>8. WireFirst'
    BY <1>2, <1>3, <1>4 DEF WireFirst
  <1>9. QueueNext'
    BY <1>2, <1>3, <1>4 DEF QueueNext
  <1>10. PostedBound'
    BY <1>2, <1>3, <1>4 DEF PostedBound
  <1>. QED BY <1>5, <1>6, <1>7, <1>8, <1>9, <1>10

\* The endpoint's own steps do not touch the messages.
LEMMA EndpointMoves ==
    ASSUME SendInv, EndpointStep
    PROVE  /\ PushesStay \/ PushesShift
           /\ \A i \in Pushes : \E j \in Pushes' : strand'[j] = strand[i]
           /\ Writtens' = {} <=> Writtens = {}
           /\ \A i \in Writtens : \E j \in Writtens' : strand'[j] = strand[i]
           /\ \A j \in Writtens' : \E i \in Writtens : strand'[j] = strand[i]
  <1>. USE DEF SendInv
  <1>0. strand \in Seq(Handlers) /\ Numbers
    BY AllNumbers DEF SendTypeOK
  <1>1. CASE strand' = strand
    BY <1>0, <1>1 DEF PushesStay, Pushes, Writtens, Numbers
  <1>2. ASSUME NEW h \in Handlers, Foreign(h), strand' = Append(strand, h)
        PROVE  /\ PushesStay
               /\ Writtens' = Writtens
               /\ \A i \in Writtens : strand'[i] = strand[i]
    <2>1. h.kind # "push" /\ h.kind # "written"
      BY <1>2 DEF Foreign
    <2>2. /\ Pushes' = Pushes /\ Writtens' = Writtens
          /\ \A i \in Pushes : strand'[i] = strand[i]
          /\ \A i \in Writtens : strand'[i] = strand[i]
      BY <1>2, <2>1, PushesGrow
    <2>. QED BY <1>0, <2>2 DEF PushesStay, Numbers
  <1>3. ASSUME strand # <<>>, Foreign(Head(strand)), strand' = Tail(strand)
        PROVE  /\ PushesShift
               /\ \A i \in Pushes : i - 1 \in Pushes' /\ strand'[i - 1] = strand[i]
               /\ \A i \in Writtens' : i + 1 \in Writtens /\ strand'[i] = strand[i + 1]
               /\ \A i \in Writtens : i - 1 \in Writtens' /\ strand'[i - 1] = strand[i]
    <2>1. PICK fail : FailedWrite(fail)
      BY FailedWriteExists
    <2>2. HasRun(fail)
      BY <1>3, <2>1 DEF HasRun
    <2>3. 1 \notin Writtens /\ 1 \notin Pushes
      BY <1>3, <2>2, StrandMoves DEF Foreign
    <2>4. PushesShift
      BY <2>2, StrandMoves
    <2>5. \A i \in Pushes : i - 1 \in Pushes' /\ strand'[i - 1] = strand[i]
      BY <2>3, <2>4 DEF PushesShift
    <2>. QED BY <1>3, <2>2, <2>3, <2>4, <2>5, StrandMoves
  <1>. QED BY <1>1, <1>2, <1>3 DEF EndpointStep, PushesStay

\* Whatever an endpoint does, each of its steps keeps the messages in order.
THEOREM SendStepOrder ==
    ASSUME SendInv, InOrder, [SendStep]_sendVars
    PROVE  InOrder'
  <1>n. Numbers
    BY AllNumbers
  <1>1. ASSUME UNCHANGED <<data, posted, wire, send_queue, strand, active_writes>>
        PROVE  InOrder'
    <2>1. PushesStay /\ OutAlready' = OutAlready
      BY <1>n, <1>1 DEF PushesStay, OutAlready, Pushes, Writtens, Numbers
    <2>. QED BY <1>n, <1>1, <2>1, OrderKept
  <1>2. ASSUME NEW t \in Threads, NEW usable \in BOOLEAN, SendCheck(t, usable)
        PROVE  InOrder'
    BY <1>1, <1>2 DEF SendCheck
  <1>3. ASSUME NEW t \in Threads, SendPop(t) PROVE InOrder'
    BY <1>1, <1>3 DEF SendPop
  <1>4. CASE EndpointStep
    <2>1. UNCHANGED <<data, posted, wire, send_queue, active_writes>>
      BY <1>4 DEF EndpointStep, sendRest
    <2>2. PushesStay \/ PushesShift
      BY <1>4, EndpointMoves
    <2>3. OutAlready' = OutAlready
      BY <1>4, <2>1, EndpointMoves DEF OutAlready
    <2>. QED BY <1>n, <2>1, <2>2, <2>3, OrderKept
  <1>5. CASE UNCHANGED sendVars
    BY <1>1, <1>5 DEF sendVars
  <1>. QED BY <1>2, <1>3, <1>4, <1>5, PostOrder, PushHandlerOrder, KernelOrder, WrittenOrder
           DEF SendStep
-----------------------------------------------------------------------------
(***************************************************************************)
(* How many handlers of a kind are on the strand.                          *)
(***************************************************************************)
KindsIn(s, k) == {i \in DOMAIN s : s[i].kind = k}

Queued(k) == Cardinality(KindsIn(strand, k))

LEMMA FinitelyMany ==
    ASSUME NEW s \in Seq(Handlers), NEW k
    PROVE  /\ IsFiniteSet(KindsIn(s, k))
           /\ Cardinality(KindsIn(s, k)) \in Nat
           /\ Cardinality(KindsIn(s, k)) = 0 <=> KindsIn(s, k) = {}
  <1>1. Len(s) \in Nat /\ DOMAIN s = 1 .. Len(s)
    BY LenProperties
  <1>2. IsFiniteSet(1 .. Len(s))
    BY <1>1, FS_Interval
  <1>3. KindsIn(s, k) \subseteq 1 .. Len(s)
    BY <1>1 DEF KindsIn
  <1>4. IsFiniteSet(KindsIn(s, k))
    BY <1>2, <1>3, FS_Subset
  <1>. QED BY <1>4, FS_CardinalityType, FS_EmptySet

LEMMA OneMore ==
    ASSUME NEW s \in Seq(Handlers), NEW h \in Handlers, NEW k
    PROVE  Cardinality(KindsIn(Append(s, h), k)) =
             Cardinality(KindsIn(s, k)) + IF h.kind = k THEN 1 ELSE 0
  <1>1. /\ Len(s) \in Nat /\ DOMAIN s = 1 .. Len(s)
        /\ DOMAIN Append(s, h) = 1 .. Len(s) + 1
        /\ \A i \in 1 .. Len(s) : Append(s, h)[i] = s[i]
        /\ Append(s, h)[Len(s) + 1] = h
    BY LongerStrand
  <1>2. IsFiniteSet(KindsIn(s, k)) /\ Cardinality(KindsIn(s, k)) \in Nat
    BY FinitelyMany
  <1>3. Len(s) + 1 \notin KindsIn(s, k)
    BY <1>1 DEF KindsIn
  <1>4. CASE h.kind = k
    <2>1. KindsIn(Append(s, h), k) = KindsIn(s, k) \cup {Len(s) + 1}
      BY <1>1, <1>4 DEF KindsIn
    <2>. QED BY <1>2, <1>3, <1>4, <2>1, FS_AddElement, ZenonT(30)
  <1>5. CASE h.kind # k
    <2>1. KindsIn(Append(s, h), k) = KindsIn(s, k)
      BY <1>1, <1>5 DEF KindsIn
    <2>. QED BY <1>2, <1>5, <2>1
  <1>. QED BY <1>4, <1>5

LEMMA OneLess ==
    ASSUME NEW s \in Seq(Handlers), s # <<>>, NEW k
    PROVE  Cardinality(KindsIn(Tail(s), k)) =
             Cardinality(KindsIn(s, k)) - IF Head(s).kind = k THEN 1 ELSE 0
  <1>1. /\ Tail(s) \in Seq(Handlers)
        /\ Len(s) \in Nat \ {0} /\ DOMAIN s = 1 .. Len(s)
        /\ DOMAIN Tail(s) = 1 .. Len(s) - 1
        /\ \A i \in 1 .. Len(s) - 1 : Tail(s)[i] = s[i + 1]
        /\ Head(s) = s[1]
    BY RestOfStrand
  <1>. PICK S, T, R : /\ S = KindsIn(Tail(s), k) /\ T = KindsIn(s, k)
                      /\ R = T \ {1}
    OBVIOUS
  <1>2. IsFiniteSet(S) /\ IsFiniteSet(T) /\ Cardinality(T) \in Nat
    BY <1>1, FinitelyMany
  <1>3. 1 \in T <=> Head(s).kind = k
    BY <1>1 DEF KindsIn
  <1>4. \A i \in S : i \in Nat /\ i + 1 \in R
    BY <1>1 DEF KindsIn
  <1>5. \A i \in R : i \in Nat /\ i - 1 \in S
    <2>. TAKE i \in R
    <2>1. i \in 2 .. Len(s) /\ s[i].kind = k
      BY <1>1 DEF KindsIn
    <2>2. i - 1 \in 1 .. Len(s) - 1 /\ (i - 1) + 1 = i
      BY <1>1, <2>1
    <2>3. Tail(s)[i - 1] = s[i]
      BY <1>1, <2>2
    <2>. QED BY <1>1, <2>1, <2>2, <2>3 DEF KindsIn
  <1>6. ExistsBijection(S, R)
    <2>. DEFINE f == [i \in S |-> i + 1]
    <2>1. f \in [S -> R]
      BY <1>4
    <2>2. \A i, j \in S : f[i] = f[j] => i = j
      BY <1>4
    <2>3. \A j \in R : \E i \in S : f[i] = j
      <3>. TAKE j \in R
      <3>1. j - 1 \in S /\ f[j - 1] = j
        BY <1>5
      <3>. QED BY <3>1
    <2>. HIDE DEF f
    <2>4. f \in Bijection(S, R)
      BY <2>1, <2>2, <2>3, Fun_IsBij
    <2>. QED BY <2>4 DEF ExistsBijection
  <1>7. Cardinality(R) = Cardinality(S)
    BY <1>2, <1>6, FS_Bijection
  <1>8. Cardinality(R) = IF 1 \in T THEN Cardinality(T) - 1 ELSE Cardinality(T)
    BY <1>2, FS_RemoveElement
  <1>. QED BY <1>2, <1>3, <1>7, <1>8

LEMMA QueuedGrows ==
    ASSUME SendTypeOK, NEW h \in Handlers, strand' = Append(strand, h), NEW k
    PROVE  Queued(k)' = Queued(k) + IF h.kind = k THEN 1 ELSE 0
  BY OneMore DEF Queued, SendTypeOK

LEMMA QueuedShrinks ==
    ASSUME SendTypeOK, strand # <<>>, strand' = Tail(strand), NEW k
    PROVE  Queued(k)' = Queued(k) - IF Head(strand).kind = k THEN 1 ELSE 0
  BY OneLess DEF Queued, SendTypeOK

\* The pipeline's own actions neither queue nor run the endpoint's handlers.
PipelineStep ==
    \/ \E t \in Threads, usable \in BOOLEAN : SendCheck(t, usable)
    \/ \E t \in Threads : SendPop(t)
    \/ \E t \in Threads : SendPost(t)
    \/ \E ready \in BOOLEAN : PushHandler(ready)
    \/ WriteOk
    \/ WriteFail
    \/ \E ready \in BOOLEAN : WrittenHandler(ready)

LEMMA QueuedKept ==
    ASSUME SendInv, PipelineStep, NEW k, k \notin {"push", "written"}
    PROVE  Queued(k)' = Queued(k)
  <1>. USE DEF SendInv
  <1>1. strand \in Seq(Handlers) /\ Queued(k) \in Nat
    BY FinitelyMany DEF SendTypeOK, Queued
  <1>2. CASE strand' = strand
    BY <1>2 DEF Queued
  <1>3. ASSUME NEW h \in Handlers, h.kind \in {"push", "written"}, strand' = Append(strand, h)
        PROVE  Queued(k)' = Queued(k)
    BY <1>1, <1>3, QueuedGrows
  <1>4. ASSUME NEW fail, FailedWrite(fail), strand # <<>>,
               Head(strand).kind \in {"push", "written"},
               strand' \in {Tail(strand), Append(Tail(strand), fail)}
        PROVE  Queued(k)' = Queued(k)
    <2>1. PICK r : r = Tail(strand)
      OBVIOUS
    <2>2. r \in Seq(Handlers) /\ Cardinality(KindsIn(r, k)) = Queued(k)
      BY <1>1, <1>4, <2>1, OneLess, RestOfStrand DEF Queued
    <2>3. fail \in Handlers /\ fail.kind = "written"
      BY <1>4 DEF FailedWrite
    <2>4. Cardinality(KindsIn(Append(r, fail), k)) = Queued(k)
      BY <1>1, <2>2, <2>3, OneMore
    <2>. QED BY <1>4, <2>1, <2>2, <2>4 DEF Queued
  <1>5. ASSUME NEW t \in Threads, SendPost(t) PROVE Queued(k)' = Queued(k)
    <2>1. held[t] \in Buffers
      BY <1>5 DEF Holding, SendPost, SendTypeOK
    <2>2. PICK h : h = Handler("push", held[t], TRUE)
      OBVIOUS
    <2>3. h \in Handlers /\ h.kind = "push"
      BY <2>1, <2>2 DEF Handler, Handlers, HandlerKinds
    <2>. QED BY <1>3, <1>5, <2>2, <2>3 DEF SendPost
  <1>6. CASE WriteOk \/ WriteFail
    <2>1. PICK h \in Handlers : h.kind = "written" /\ strand' = Append(strand, h)
      <3>1. PICK y, n : y = Handler("written", None, TRUE) /\ n = Handler("written", None, FALSE)
        OBVIOUS
      <3>2. y \in Handlers /\ y.kind = "written" /\ n \in Handlers /\ n.kind = "written"
        BY <3>1 DEF Handler, Handlers, HandlerKinds
      <3>3. strand' = Append(strand, y) \/ strand' = Append(strand, n)
        BY <1>6, <3>1 DEF WriteOk, WriteFail
      <3>. QED BY <3>2, <3>3
    <2>. QED BY <1>3, <2>1
  <1>7. ASSUME NEW ready \in BOOLEAN, PushHandler(ready) \/ WrittenHandler(ready)
        PROVE  Queued(k)' = Queued(k)
    <2>1. PICK fail : fail = Handler("written", None, FALSE) /\ FailedWrite(fail)
      BY FailedWriteExists
    <2>2. /\ strand # <<>> /\ Head(strand).kind \in {"push", "written"}
          /\ strand' \in {Tail(strand), Append(Tail(strand), fail)}
      BY <1>7, <2>1 DEF PushHandler, WrittenHandler, Next1st, DoWrite
    <2>. QED BY <1>4, <2>1, <2>2
  <1>. QED BY <1>2, <1>5, <1>6, <1>7 DEF PipelineStep, SendCheck, SendPop
-----------------------------------------------------------------------------
\* Nobody has got past the test at the top of send() yet.
Untouched ==
    /\ \A t \in Threads : pc[t] = "idle"
    /\ Pushes = {}
    /\ send_queue = <<>>

LEMMA StaysUntouched ==
    ASSUME SendInv, Untouched, [SendStep]_sendVars, \A t \in Threads : pc'[t] # "popping"
    PROVE  Untouched'
  <1>. USE DEF Untouched
  <1>0. \A t \in Threads : pc[t] # "popping" /\ pc[t] # "posting"
    OBVIOUS
  <1>1. ASSUME UNCHANGED <<pc, strand, send_queue>> PROVE Untouched'
    BY <1>1 DEF Pushes
  <1>2. ASSUME NEW t \in Threads, NEW usable \in BOOLEAN, SendCheck(t, usable)
        PROVE  Untouched'
    <2>1. pc' = [pc EXCEPT ![t] = IF usable THEN "popping" ELSE "idle"]
          /\ pc \in [Threads -> {"idle", "popping", "posting"}]
      BY <1>2 DEF SendCheck, SendInv, SendTypeOK
    <2>2. \A u \in Threads : pc'[u] = "idle"
      BY <2>1
    <2>. QED BY <1>2, <2>2 DEF SendCheck, Pushes
  <1>3. ~ \E t \in Threads : SendPop(t) \/ SendPost(t)
    BY <1>0 DEF SendPop, SendPost
  <1>4. ~ \E ready \in BOOLEAN : PushHandler(ready)
    BY PushFacts
  <1>5. ~ \E ready \in BOOLEAN : WrittenHandler(ready)
    <2>1. Len(send_queue) = 0
      BY EmptySeq
    <2>. QED BY <2>1, WrittenFacts
  <1>6. ~ (WriteOk \/ WriteFail)
    <2>1. Len(send_queue) = 0
      BY EmptySeq
    <2>. QED BY <2>1, KernelFacts
  <1>7. CASE EndpointStep
    <2>1. UNCHANGED <<pc, send_queue>>
      BY <1>7 DEF EndpointStep, sendRest
    <2>2. PushesStay \/ PushesShift
      BY <1>7, EndpointMoves
    <2>3. Pushes' = {}
      BY <2>2 DEF PushesStay, PushesShift
    <2>. QED BY <2>1, <2>3
  <1>8. CASE UNCHANGED sendVars
    BY <1>1, <1>8 DEF sendVars
  <1>. QED BY <1>2, <1>3, <1>4, <1>5, <1>6, <1>7, <1>8 DEF SendStep
=============================================================================
