----------------------------- MODULE AsyncLogger -----------------------------
(***************************************************************************)
(* AsyncLogger (async_logger.hpp): log() on any number of threads appends  *)
(* to active_buffer_; a worker swaps it with flush_buffer_ and writes that *)
(* to the file; the destructor stops the worker and writes what is left.   *)
(*                                                                         *)
(* A definition marked "Fault" is a wrong version of the one after it,     *)
(* kept to show that a property notices the difference; nothing uses it.   *)
(*                                                                         *)
(* The critical sections of log(), of the destructor and of the swap are   *)
(* single steps.  The one that is not is condition_variable::wait: between *)
(* a false predicate and going to sleep the worker holds mutex_, and       *)
(* running_ is not protected by it.                                        *)
(***************************************************************************)
EXTENDS Naturals, Sequences, FiniteSets

CONSTANTS
    Producers,     \* threads that call log()
    Sizes,         \* sizes of a record, header and payload
    max_capacity,  \* max_capacity_
    MaxLogs        \* bound: calls of log() per thread

ASSUME AsyncLoggerAssumption ==
    /\ Sizes \subseteq Nat \ {0}
    /\ max_capacity \in Nat
    /\ MaxLogs \in Nat

VARIABLES
    is_open,        \* file_.is_open(), settled by the constructor
    running,        \* running_
    active_buffer,  \* active_buffer_, as the numbers of the records in it
    active_size,    \* active_buffer_.size()
    flush_buffer,   \* flush_buffer_, likewise
    flush_size,     \* flush_buffer_.size()
    file,           \* the records in the file
    dropped_logs,   \* dropped_logs_
    accepted,       \* history: records appended so far, which numbers them
    pc,             \* where each producer is inside log()
    calls,          \* calls of log() each producer has made
    worker,         \* where the worker is inside process_loop()
    destructor      \* where the destructor is

vars == <<is_open, running, active_buffer, active_size, flush_buffer,
          flush_size, file, dropped_logs, accepted, pc, calls, worker,
          destructor>>

\* The constructor: without a file there is no worker, and log() does nothing.
Init ==
    /\ is_open \in BOOLEAN
    /\ running = is_open
    /\ active_buffer = <<>>
    /\ active_size = 0
    /\ flush_buffer = <<>>
    /\ flush_size = 0
    /\ file = <<>>
    /\ dropped_logs = 0
    /\ accepted = 0
    /\ pc = [p \in Producers |-> "idle"]
    /\ calls = [p \in Producers |-> 0]
    /\ worker = IF is_open THEN "test" ELSE "ended"
    /\ destructor = "idle"

\* mutex_ is free: the worker keeps it only while it prepares to sleep.
MutexFree == worker # "blocking"

\* Fault: nobody is notified.
NotNotified == worker

\* cv_.notify_one(): there is no waiter but the worker.
Notified == IF worker = "asleep" THEN "locking" ELSE worker
-----------------------------------------------------------------------------
(***************************************************************************)
(* log(), on a producer.                                                   *)
(***************************************************************************)

\* The caller owns a reference, so that the destructor has not begun.
LogTest(p) ==
    /\ pc[p] = "idle"
    /\ destructor = "idle"
    /\ calls[p] < MaxLogs
    /\ calls' = [calls EXCEPT ![p] = @ + 1]
    /\ pc' = [pc EXCEPT ![p] = IF running THEN "appending" ELSE "idle"]
    /\ UNCHANGED <<is_open, running, active_buffer, active_size, flush_buffer,
                   flush_size, file, dropped_logs, accepted, worker, destructor>>

\* Fault: the size of the new record is left out of the test.
FullBefore(size) == active_size >= max_capacity

\* The backpressure test for a record of this size.
Full(size) == active_size + size > max_capacity

\* Under mutex_: append header and payload, or count a dropped record.
LogAppend(p) ==
    /\ pc[p] = "appending"
    /\ MutexFree
    /\ \E size \in Sizes :
        IF Full(size)
        THEN /\ dropped_logs' = dropped_logs + 1
             /\ pc' = [pc EXCEPT ![p] = "idle"]
             /\ UNCHANGED <<active_buffer, active_size, accepted>>
        ELSE /\ accepted' = accepted + 1
             /\ active_buffer' = Append(active_buffer, accepted + 1)
             /\ active_size' = active_size + size
             /\ pc' = [pc EXCEPT ![p] = "notifying"]
             /\ UNCHANGED dropped_logs
    /\ UNCHANGED <<is_open, running, flush_buffer, flush_size, file, calls,
                   worker, destructor>>

LogNotify(p) ==
    /\ pc[p] = "notifying"
    /\ worker' = Notified
    /\ pc' = [pc EXCEPT ![p] = "idle"]
    /\ UNCHANGED <<is_open, running, active_buffer, active_size, flush_buffer,
                   flush_size, file, dropped_logs, accepted, calls, destructor>>
-----------------------------------------------------------------------------
(***************************************************************************)
(* process_loop(), on the worker.                                          *)
(***************************************************************************)

\* Fault: the loop ends as soon as there is nothing to do.
WorkerTestIdle ==
    /\ worker = "test"
    /\ worker' = IF running /\ active_buffer # <<>> THEN "locking" ELSE "ended"
    /\ UNCHANGED <<is_open, running, active_buffer, active_size, flush_buffer,
                   flush_size, file, dropped_logs, accepted, pc, calls,
                   destructor>>

\* The test of the while loop.
WorkerTest ==
    /\ worker = "test"
    /\ worker' = IF running THEN "locking" ELSE "ended"
    /\ UNCHANGED <<is_open, running, active_buffer, active_size, flush_buffer,
                   flush_size, file, dropped_logs, accepted, pc, calls, destructor>>

\* Under mutex_: the predicate of cv_.wait, and the swap if it is true.
WorkerLock ==
    /\ worker = "locking"
    /\ IF active_buffer # <<>> \/ ~running
       THEN /\ active_buffer' = flush_buffer
            /\ active_size' = flush_size
            /\ flush_buffer' = active_buffer
            /\ flush_size' = active_size
            /\ worker' = "writing"
       ELSE /\ worker' = "blocking"
            /\ UNCHANGED <<active_buffer, active_size, flush_buffer, flush_size>>
    /\ UNCHANGED <<is_open, running, file, dropped_logs, accepted, pc, calls,
                   destructor>>

\* cv_.wait gives up mutex_ and sleeps.
WorkerSleep ==
    /\ worker = "blocking"
    /\ worker' = "asleep"
    /\ UNCHANGED <<is_open, running, active_buffer, active_size, flush_buffer,
                   flush_size, file, dropped_logs, accepted, pc, calls, destructor>>

\* A spurious wakeup, which the standard allows and nobody can rely on.
WorkerWake ==
    /\ worker = "asleep"
    /\ worker' = "locking"
    /\ UNCHANGED <<is_open, running, active_buffer, active_size, flush_buffer,
                   flush_size, file, dropped_logs, accepted, pc, calls, destructor>>

\* Fault: flush_buffer_ is not cleared.
WorkerWriteOnly ==
    /\ worker = "writing"
    /\ file' = file \o flush_buffer
    /\ worker' = "test"
    /\ UNCHANGED <<is_open, running, active_buffer, active_size, flush_buffer,
                   flush_size, dropped_logs, accepted, pc, calls, destructor>>

\* Without mutex_: write and clear flush_buffer_.
WorkerWrite ==
    /\ worker = "writing"
    /\ file' = file \o flush_buffer
    /\ flush_buffer' = <<>>
    /\ flush_size' = 0
    /\ worker' = "test"
    /\ UNCHANGED <<is_open, running, active_buffer, active_size, dropped_logs,
                   accepted, pc, calls, destructor>>

Worker == WorkerTest \/ WorkerLock \/ WorkerSleep \/ WorkerWrite
-----------------------------------------------------------------------------
(***************************************************************************)
(* The destructor, when the last owner lets go: nobody is inside log().    *)
(***************************************************************************)

DestructorStop ==
    /\ destructor = "idle"
    /\ \A p \in Producers : pc[p] = "idle"
    /\ destructor' = IF running THEN "notifying" ELSE "flushing"
    /\ running' = FALSE
    /\ UNCHANGED <<is_open, active_buffer, active_size, flush_buffer, flush_size,
                   file, dropped_logs, accepted, pc, calls, worker>>

DestructorNotify ==
    /\ destructor = "notifying"
    /\ worker' = Notified
    /\ destructor' = "joining"
    /\ UNCHANGED <<is_open, running, active_buffer, active_size, flush_buffer,
                   flush_size, file, dropped_logs, accepted, pc, calls>>

DestructorJoin ==
    /\ destructor = "joining"
    /\ worker = "ended"
    /\ destructor' = "flushing"
    /\ UNCHANGED <<is_open, running, active_buffer, active_size, flush_buffer,
                   flush_size, file, dropped_logs, accepted, pc, calls, worker>>

\* Fault: the worker is trusted to have written everything.
NoResidue == <<>>

\* What the destructor itself writes.
Residue == IF is_open THEN active_buffer ELSE <<>>

\* Write the rest; the buffers go with the object.
DestructorFlush ==
    /\ destructor = "flushing"
    /\ file' = file \o Residue
    /\ active_buffer' = <<>>
    /\ active_size' = 0
    /\ flush_buffer' = <<>>
    /\ flush_size' = 0
    /\ destructor' = "returned"
    /\ UNCHANGED <<is_open, running, dropped_logs, accepted, pc, calls, worker>>

Destructor == \/ DestructorStop \/ DestructorNotify \/ DestructorJoin
              \/ DestructorFlush

Next ==
    \/ \E p \in Producers : LogTest(p) \/ LogAppend(p) \/ LogNotify(p)
    \/ Worker
    \/ WorkerWake
    \/ Destructor

Spec == Init /\ [][Next]_vars

\* Threads run.  Nobody has to call log() or the destructor, and no spurious
\* wakeup has to come.
Fairness ==
    /\ WF_vars(Worker)
    /\ \A p \in Producers : WF_vars(LogNotify(p))
    /\ WF_vars(DestructorNotify \/ DestructorJoin \/ DestructorFlush)

FairSpec == Spec /\ Fairness
-----------------------------------------------------------------------------
(***************************************************************************)
(* Properties.                                                             *)
(***************************************************************************)

\* The variables of the logger have the values their C++ types allow.
TypeOK ==
    /\ is_open \in BOOLEAN
    /\ running \in BOOLEAN
    /\ active_buffer \in Seq(Nat)
    /\ active_size \in Nat
    /\ flush_buffer \in Seq(Nat)
    /\ flush_size \in Nat
    /\ file \in Seq(Nat)
    /\ dropped_logs \in Nat
    /\ accepted \in Nat
    /\ pc \in [Producers -> {"idle", "appending", "notifying"}]
    /\ calls \in [Producers -> 0 .. MaxLogs]
    /\ worker \in {"test", "locking", "blocking", "asleep", "writing", "ended"}
    /\ destructor \in {"idle", "notifying", "joining", "flushing",
                       "returned"}

\* File and buffers together hold the accepted records, each once and in the
\* order of their acceptance, across swaps, writes and the final flush.
NothingLost ==
    file \o flush_buffer \o active_buffer = [n \in 1 .. accepted |-> n]

\* After the destructor every record that log() accepted is in the file: no
\* buffer is dropped by whichever way the worker left its loop.
FlushedAtEnd == destructor = "returned" => file = [n \in 1 .. accepted |-> n]

\* Neither buffer outgrows max_capacity_, the limit that dropping records is
\* for, although flush_buffer_ is cleared after the swap only.
WithinCapacity == active_size <= max_capacity /\ flush_size <= max_capacity

\* The worker never sleeps on a record nobody will wake it for.
NoLostRecordWakeup ==
    worker = "asleep" /\ active_buffer # <<>> =>
        \E p \in Producers : pc[p] = "notifying"

\* A record that log() accepted reaches the file without waiting for another
\* call of log() or for the destructor.
AcceptedIsWritten ==
    \A n \in 1 .. MaxLogs * Cardinality(Producers) :
        (accepted >= n) ~> (Len(file) >= n)

\* async_logger.hpp, destructor: it terminates the worker gracefully, waking
\* it up if it sleeps; so the destructor returns.
DestructorReturns ==
    destructor # "idle" ~> destructor = "returned"
=============================================================================
