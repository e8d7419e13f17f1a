------------------------- MODULE AsyncLoggerProofs -------------------------
(***************************************************************************)
(* The safety properties of the logger, for any number of producers and    *)
(* records, any sizes and any capacity.                                    *)
(***************************************************************************)
EXTENDS AsyncLogger, SequenceTheorems, TLAPS

\* The records 1 to n in order.
Numbered(n) == [i \in 1 .. n |-> i]

\* flush_buffer_ is in use only between the swap and the write.
FlushIsPrivate ==
    worker # "writing" => flush_buffer = <<>> /\ flush_size = 0

\* The worker leaves its loop only after running_ has been cleared, and the
\* destructor goes on only after the worker has ended.
WorkerEnds ==
    /\ worker = "ended" => ~running
    /\ destructor \in {"flushing", "returned"} => worker = "ended"

\* Before the destructor running_ tells whether there is a file; after it has
\* begun, nobody is inside log().
Lifetime ==
    /\ destructor = "idle" => running = is_open
    /\ destructor # "idle" => \A p \in Producers : pc[p] = "idle"
    /\ destructor # "idle" => ~running

\* Without a file nothing is ever buffered.
NoFile ==
    ~is_open => /\ active_buffer = <<>>
                /\ worker = "ended"
                /\ \A p \in Producers : pc[p] = "idle"

\* While the worker holds mutex_ on its way to sleep, nothing is appended.
NothingWhileBlocking == worker = "blocking" => active_buffer = <<>>

LoggerInv ==
    /\ TypeOK
    /\ FlushIsPrivate
    /\ WorkerEnds
    /\ Lifetime
    /\ NoFile
    /\ NothingWhileBlocking
    /\ NothingLost
    /\ FlushedAtEnd
    /\ WithinCapacity
    /\ NoLostRecordWakeup
-----------------------------------------------------------------------------
(***************************************************************************)
(* Appending a record to the last of the three sequences appends it to     *)
(* their concatenation.                                                    *)
(***************************************************************************)
LEMMA ConcatAppend ==
    ASSUME NEW s \in Seq(Nat), NEW t \in Seq(Nat), NEW e \in Nat
    PROVE  s \o Append(t, e) = Append(s \o t, e)
  <1>1. Append(t, e) = t \o <<e>> /\ <<e>> \in Seq(Nat)
    BY AppendIsConcat
  <1>2. s \o t \in Seq(Nat)
    BY ConcatProperties
  <1>3. Append(s \o t, e) = (s \o t) \o <<e>>
    BY <1>2, AppendIsConcat
  <1>. QED BY <1>1, <1>3, ConcatAssociative

LEMMA NumberedNext ==
    ASSUME NEW n \in Nat
    PROVE  /\ Numbered(n) \in Seq(Nat)
           /\ Append(Numbered(n), n + 1) = Numbered(n + 1)
  <1>. DEFINE s == Numbered(n)
  <1>1. s \in Seq(Nat) /\ Len(s) = n /\ \A i \in 1 .. n : s[i] = i
    BY DEF Numbered
  <1>2. /\ Numbered(n + 1) \in Seq(Nat)
        /\ Len(Numbered(n + 1)) = n + 1
        /\ \A i \in 1 .. n + 1 : Numbered(n + 1)[i] = i
    BY DEF Numbered
  <1>. HIDE DEF s
  <1>3. /\ Append(s, n + 1) \in Seq(Nat)
        /\ Len(Append(s, n + 1)) = n + 1
        /\ \A i \in 1 .. n : Append(s, n + 1)[i] = s[i]
        /\ Append(s, n + 1)[n + 1] = n + 1
    BY <1>1, AppendProperties
  <1>4. \A i \in 1 .. n + 1 : Append(s, n + 1)[i] = Numbered(n + 1)[i]
    BY <1>1, <1>2, <1>3
  <1>. QED BY <1>1, <1>2, <1>3, <1>4, SeqEqual DEF s

LEMMA LoggerInit == Init => LoggerInv
  <1>. SUFFICES ASSUME Init PROVE LoggerInv
    OBVIOUS
  <1>. USE AsyncLoggerAssumption DEF Init
  <1>1. TypeOK
    BY EmptySeq DEF TypeOK
  <1>2. FlushIsPrivate /\ WorkerEnds /\ Lifetime /\ NoFile /\ NothingWhileBlocking
    BY DEF FlushIsPrivate, WorkerEnds, Lifetime, NoFile, NothingWhileBlocking
  <1>3. NothingLost
    <2>1. file \o flush_buffer \o active_buffer = <<>>
      BY EmptySeq, ConcatEmptySeq
    <2>2. [n \in 1 .. accepted |-> n] = <<>>
      OBVIOUS
    <2>. QED BY <2>1, <2>2 DEF NothingLost
  <1>4. FlushedAtEnd /\ NoLostRecordWakeup
    BY DEF FlushedAtEnd, NoLostRecordWakeup
  <1>5. WithinCapacity
    BY DEF WithinCapacity
  <1>. QED BY <1>1, <1>2, <1>3, <1>4, <1>5 DEF LoggerInv
-----------------------------------------------------------------------------
(***************************************************************************)
(* The steps of log().                                                     *)
(***************************************************************************)

LEMMA LogTestInv ==
    ASSUME LoggerInv, NEW p \in Producers, LogTest(p)
    PROVE  LoggerInv'
  <1>. USE DEF LoggerInv, LogTest
  <1>1. TypeOK'
    BY AsyncLoggerAssumption DEF TypeOK
  <1>2. FlushIsPrivate' /\ WorkerEnds' /\ NothingWhileBlocking'
    BY DEF FlushIsPrivate, WorkerEnds, NothingWhileBlocking
  <1>3. Lifetime' /\ NoFile'
    BY DEF Lifetime, NoFile, TypeOK
  <1>4. NothingLost' /\ FlushedAtEnd' /\ WithinCapacity'
    BY DEF NothingLost, FlushedAtEnd, WithinCapacity
  <1>5. NoLostRecordWakeup'
    BY DEF NoLostRecordWakeup, TypeOK
  <1>. QED BY <1>1, <1>2, <1>3, <1>4, <1>5

LEMMA LogAppendInv ==
    ASSUME LoggerInv, NEW p \in Producers, LogAppend(p)
    PROVE  LoggerInv'
  <1>. USE DEF LoggerInv
  <1>1. PICK size \in Sizes :
        IF Full(size)
        THEN /\ dropped_logs' = dropped_logs + 1
             /\ pc' = [pc EXCEPT ![p] = "idle"]
             /\ UNCHANGED <<active_buffer, active_size, accepted>>
        ELSE /\ accepted' = accepted + 1
             /\ active_buffer' = Append(active_buffer, accepted + 1)
             /\ active_size' = active_size + size
             /\ pc' = [pc EXCEPT ![p] = "notifying"]
             /\ UNCHANGED dropped_logs
    BY DEF LogAppend
  <1>2. /\ pc[p] = "appending" /\ worker # "blocking"
        /\ UNCHANGED <<is_open, running, flush_buffer, flush_size, file, calls,
                       worker, destructor>>
    BY DEF LogAppend, MutexFree
  <1>3. destructor = "idle" /\ is_open
    BY <1>2 DEF Lifetime, NoFile
  <1>4. size \in Nat
    BY AsyncLoggerAssumption
  <1>5. FlushIsPrivate' /\ WorkerEnds' /\ NothingWhileBlocking' /\ FlushedAtEnd'
    BY <1>2, <1>3
       DEF FlushIsPrivate, WorkerEnds, NothingWhileBlocking, FlushedAtEnd
  <1>6. Lifetime' /\ NoFile'
    BY <1>2, <1>3 DEF Lifetime, NoFile
  <1>7. CASE Full(size)
    <2>0. /\ dropped_logs' = dropped_logs + 1
          /\ pc' = [pc EXCEPT ![p] = "idle"]
          /\ UNCHANGED <<active_buffer, active_size, accepted>>
      BY <1>1, <1>7
    <2>. USE <1>2, <2>0
    <2>1. TypeOK'
      BY DEF TypeOK
    <2>2. NothingLost' /\ WithinCapacity'
      BY DEF NothingLost, WithinCapacity
    <2>3. NoLostRecordWakeup'
      BY DEF NoLostRecordWakeup, TypeOK
    <2>. QED BY <1>5, <1>6, <2>1, <2>2, <2>3
  <1>8. CASE ~Full(size)
    <2>0. /\ accepted' = accepted + 1
          /\ active_buffer' = Append(active_buffer, accepted + 1)
          /\ active_size' = active_size + size
          /\ pc' = [pc EXCEPT ![p] = "notifying"]
          /\ UNCHANGED dropped_logs
      BY <1>1, <1>8
    <2>. USE <1>2, <2>0
    <2>1. TypeOK'
      BY <1>4 DEF TypeOK
    <2>2. WithinCapacity'
      BY <1>4, <1>8, AsyncLoggerAssumption DEF WithinCapacity, Full, TypeOK
    <2>3. NoLostRecordWakeup'
      BY DEF NoLostRecordWakeup, TypeOK
    <2>4. NothingLost'
      <3>a. NothingLost
        OBVIOUS
      <3>0. file \o flush_buffer \o active_buffer = Numbered(accepted)
        BY ONLY <3>a DEF NothingLost, Numbered
      <3>1. /\ file \in Seq(Nat) /\ flush_buffer \in Seq(Nat)
            /\ active_buffer \in Seq(Nat) /\ accepted \in Nat
        BY DEF TypeOK
      <3>2. file \o flush_buffer \in Seq(Nat)
        BY <3>1, ConcatProperties
      <3>3. (file \o flush_buffer) \o Append(active_buffer, accepted + 1)
              = Append(Numbered(accepted), accepted + 1)
        <4>1. (file \o flush_buffer) \o Append(active_buffer, accepted + 1)
                = Append(file \o flush_buffer \o active_buffer, accepted + 1)
          BY ONLY <3>1, <3>2, accepted + 1 \in Nat, ConcatAppend
        <4>. QED BY ONLY <4>1, <3>0
      <3>4. file' \o flush_buffer' \o active_buffer' = Numbered(accepted')
        BY <3>1, <3>3, NumberedNext
      <3>. QED BY <3>4 DEF NothingLost, Numbered
    <2>. QED BY <1>5, <1>6, <2>1, <2>2, <2>3, <2>4
  <1>. QED BY <1>7, <1>8

LEMMA LogNotifyInv ==
    ASSUME LoggerInv, NEW p \in Producers, LogNotify(p)
    PROVE  LoggerInv'
  <1>. USE DEF LoggerInv, LogNotify, Notified
  <1>1. TypeOK'
    BY DEF TypeOK
  <1>2. FlushIsPrivate' /\ WorkerEnds' /\ NothingWhileBlocking'
    BY DEF FlushIsPrivate, WorkerEnds, NothingWhileBlocking
  <1>3. Lifetime' /\ NoFile'
    BY DEF Lifetime, NoFile, TypeOK
  <1>4. NothingLost' /\ FlushedAtEnd' /\ WithinCapacity'
    BY DEF NothingLost, FlushedAtEnd, WithinCapacity
  <1>5. NoLostRecordWakeup'
    BY DEF NoLostRecordWakeup, TypeOK
  <1>. QED BY <1>1, <1>2, <1>3, <1>4, <1>5
-----------------------------------------------------------------------------
(***************************************************************************)
(* The steps of the worker.                                                *)
(***************************************************************************)

\* Steps that move nothing but the worker, and do not wake it for nothing.
LEMMA WorkerMovesInv ==
    ASSUME LoggerInv, WorkerTest \/ WorkerSleep \/ WorkerWake
    PROVE  LoggerInv'
  <1>. USE DEF LoggerInv, WorkerTest, WorkerSleep, WorkerWake
  <1>1. TypeOK'
    BY DEF TypeOK
  <1>2. FlushIsPrivate' /\ WorkerEnds' /\ NothingWhileBlocking'
    BY DEF FlushIsPrivate, WorkerEnds, NothingWhileBlocking
  <1>3. Lifetime' /\ NoFile'
    BY DEF Lifetime, NoFile
  <1>4. NothingLost' /\ FlushedAtEnd' /\ WithinCapacity'
    BY DEF NothingLost, FlushedAtEnd, WithinCapacity
  <1>5. NoLostRecordWakeup'
    BY DEF NoLostRecordWakeup, NothingWhileBlocking
  <1>. QED BY <1>1, <1>2, <1>3, <1>4, <1>5

LEMMA WorkerLockInv ==
    ASSUME LoggerInv, WorkerLock
    PROVE  LoggerInv'
  <1>. USE DEF LoggerInv, WorkerLock
  <1>1. TypeOK'
    BY DEF TypeOK
  <1>2. FlushIsPrivate' /\ WorkerEnds' /\ NothingWhileBlocking'
    BY DEF FlushIsPrivate, WorkerEnds, NothingWhileBlocking
  <1>3. Lifetime' /\ NoFile'
    BY DEF Lifetime, NoFile
  <1>4. FlushedAtEnd' /\ WithinCapacity' /\ NoLostRecordWakeup'
    BY DEF FlushedAtEnd, WithinCapacity, NoLostRecordWakeup, WorkerEnds
  <1>5. NothingLost'
    <2>1. /\ flush_buffer = <<>>
          /\ file \in Seq(Nat) /\ active_buffer \in Seq(Nat)
          /\ file' = file /\ accepted' = accepted
      BY DEF FlushIsPrivate, TypeOK
    <2>2. CASE active_buffer' = flush_buffer /\ flush_buffer' = active_buffer
      <3>1. /\ file \o <<>> = file
            /\ (file \o active_buffer) \o <<>> = file \o active_buffer
        BY <2>1, ConcatProperties, ConcatEmptySeq
      <3>. QED BY <2>1, <2>2, <3>1 DEF NothingLost
    <2>3. CASE UNCHANGED <<active_buffer, flush_buffer>>
      BY <2>1, <2>3 DEF NothingLost
    <2>. QED BY <2>2, <2>3
  <1>. QED BY <1>1, <1>2, <1>3, <1>4, <1>5

LEMMA WorkerWriteInv ==
    ASSUME LoggerInv, WorkerWrite
    PROVE  LoggerInv'
  <1>. USE DEF LoggerInv, WorkerWrite
  <1>1. TypeOK'
    BY ConcatProperties DEF TypeOK
  <1>2. FlushIsPrivate' /\ WorkerEnds' /\ NothingWhileBlocking'
    BY DEF FlushIsPrivate, WorkerEnds, NothingWhileBlocking
  <1>3. Lifetime' /\ NoFile'
    BY DEF Lifetime, NoFile
  <1>4. FlushedAtEnd' /\ WithinCapacity' /\ NoLostRecordWakeup'
    BY AsyncLoggerAssumption
       DEF FlushedAtEnd, WithinCapacity, NoLostRecordWakeup, WorkerEnds
  <1>5. NothingLost'
    <2>1. file \o flush_buffer \in Seq(Nat)
      BY ConcatProperties DEF TypeOK
    <2>2. (file \o flush_buffer) \o <<>> = file \o flush_buffer
      BY <2>1, ConcatEmptySeq
    <2>. QED BY <2>2 DEF NothingLost
  <1>. QED BY <1>1, <1>2, <1>3, <1>4, <1>5
-----------------------------------------------------------------------------
(***************************************************************************)
(* The steps of the destructor.                                            *)
(***************************************************************************)

LEMMA DestructorMovesInv ==
    ASSUME LoggerInv, DestructorStop \/ DestructorNotify \/ DestructorJoin
    PROVE  LoggerInv'
  <1>. USE DEF LoggerInv, DestructorStop, DestructorNotify, DestructorJoin,
               Notified
  <1>1. TypeOK'
    BY DEF TypeOK
  <1>2. FlushIsPrivate' /\ NothingWhileBlocking'
    BY DEF FlushIsPrivate, NothingWhileBlocking
  <1>3. WorkerEnds'
    BY DEF WorkerEnds, Lifetime, NoFile, TypeOK
  <1>4. Lifetime' /\ NoFile'
    BY DEF Lifetime, NoFile, TypeOK
  <1>5. NothingLost' /\ FlushedAtEnd' /\ WithinCapacity'
    BY DEF NothingLost, FlushedAtEnd, WithinCapacity
  <1>6. NoLostRecordWakeup'
    BY DEF NoLostRecordWakeup
  <1>. QED BY <1>1, <1>2, <1>3, <1>4, <1>5, <1>6

LEMMA DestructorFlushInv ==
    ASSUME LoggerInv, DestructorFlush
    PROVE  LoggerInv'
  <1>. USE DEF LoggerInv, DestructorFlush
  <1>1. /\ worker = "ended" /\ flush_buffer = <<>>
        /\ file \in Seq(Nat) /\ active_buffer \in Seq(Nat)
    BY DEF WorkerEnds, FlushIsPrivate, TypeOK
  <1>2. Residue = active_buffer
    BY DEF NoFile, Residue
  <1>3. file \o active_buffer = [n \in 1 .. accepted |-> n]
    BY <1>1, ConcatEmptySeq DEF NothingLost
  <1>4. file' = [n \in 1 .. accepted |-> n] /\ file' \in Seq(Nat)
    BY <1>1, <1>2, <1>3, ConcatProperties
  <1>5. TypeOK'
    BY <1>4 DEF TypeOK
  <1>6. FlushIsPrivate' /\ WorkerEnds' /\ NothingWhileBlocking'
    BY <1>1 DEF FlushIsPrivate, WorkerEnds, NothingWhileBlocking
  <1>7. Lifetime' /\ NoFile'
    BY DEF Lifetime, NoFile
  <1>8. NothingLost' /\ FlushedAtEnd'
    BY <1>4, ConcatEmptySeq DEF NothingLost, FlushedAtEnd
  <1>9. WithinCapacity' /\ NoLostRecordWakeup'
    BY AsyncLoggerAssumption DEF WithinCapacity, NoLostRecordWakeup
  <1>. QED BY <1>5, <1>6, <1>7, <1>8, <1>9
-----------------------------------------------------------------------------
(***************************************************************************)
(* The theorems.                                                           *)
(***************************************************************************)

\* Every step of log(), of the worker and of the destructor keeps the
\* invariant, however the threads interleave.
THEOREM Invariance == Spec => []LoggerInv
  <1>1. LoggerInv /\ [Next]_vars => LoggerInv'
    <2>. SUFFICES ASSUME LoggerInv, [Next]_vars PROVE LoggerInv'
      OBVIOUS
    <2>1. CASE Next
      BY <2>1, LogTestInv, LogAppendInv, LogNotifyInv, WorkerMovesInv,
         WorkerLockInv, WorkerWriteInv, DestructorMovesInv, DestructorFlushInv
         DEF Next, Worker, Destructor
    <2>2. CASE UNCHANGED vars
      <3>. USE <2>2 DEF LoggerInv, vars
      <3>1. TypeOK' /\ FlushIsPrivate' /\ WorkerEnds' /\ Lifetime' /\ NoFile'
        BY DEF TypeOK, FlushIsPrivate, WorkerEnds, Lifetime, NoFile
      <3>2. NothingWhileBlocking' /\ NothingLost' /\ FlushedAtEnd'
        BY DEF NothingWhileBlocking, NothingLost, FlushedAtEnd
      <3>3. WithinCapacity' /\ NoLostRecordWakeup'
        BY DEF WithinCapacity, NoLostRecordWakeup
      <3>. QED BY <3>1, <3>2, <3>3
    <2>. QED BY <2>1, <2>2
  <1>. QED BY <1>1, LoggerInit, PTL DEF Spec

\* The variables of the logger keep their types.
THEOREM TypeCorrect == Spec => []TypeOK
  BY Invariance, PTL DEF LoggerInv

\* log(), the swap, the worker's write and the destructor's flush together
\* lose no accepted record, repeat none and keep them in order.
THEOREM RecordsKept == Spec => []NothingLost
  BY Invariance, PTL DEF LoggerInv

\* When the destructor has returned, the file holds every record that log()
\* accepted.
THEOREM FileComplete == Spec => []FlushedAtEnd
  BY Invariance, PTL DEF LoggerInv

\* The backpressure test of log() keeps both buffers within max_capacity_.
THEOREM CapacityKept == Spec => []WithinCapacity
  BY Invariance, PTL DEF LoggerInv

\* The worker never sleeps on a record unless a producer is about to notify it.
THEOREM NoWakeupLost == Spec => []NoLostRecordWakeup
  BY Invariance, PTL DEF LoggerInv
=============================================================================
