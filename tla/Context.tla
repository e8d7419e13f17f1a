------------------------------- MODULE Context -------------------------------
(***************************************************************************)
(* Context (context.hpp): the io_context and the threads that run it.      *)
(* What a handler does is up to the modules that extend this one; a worker *)
(* that is inside one has its name in worker[w].  Handlers still queued    *)
(* when the io_context is stopped are never run.                           *)
(***************************************************************************)
EXTENDS Naturals, Sequences, FiniteSets

CONSTANT Workers    \* the threads start() spawns

VARIABLES
    stopped,        \* io_context_ has been stopped
    worker          \* what each worker is at: "none" before start(), "idle"
                    \* inside run(), a handler, or "gone" after run()

contextVars == <<stopped, worker>>

ContextInit ==
    /\ stopped = FALSE
    /\ worker = [w \in Workers |-> "none"]

Spawned == \E w \in Workers : worker[w] # "none"

\* start(): a second call finds threads_ filled and does nothing.
Start ==
    /\ worker' = IF Spawned THEN worker ELSE [w \in Workers |-> "idle"]
    /\ UNCHANGED stopped

\* A worker that may take up a handler.
Free(w) == worker[w] = "idle" /\ ~stopped

\* The reactor is polled, by which completions come in, and handlers are run.
Served == \E w \in Workers : Free(w)

\* run() returns.  While the io_context is not stopped the work guard keeps
\* it from doing so.
Leave(w) ==
    /\ worker[w] = "idle"
    /\ stopped
    /\ worker' = [worker EXCEPT ![w] = "gone"]
    /\ UNCHANGED stopped

\* Fault: stop() only gives up the work guard, which ends no run() that still
\* has an operation outstanding.
StopWorkGuard ==
    /\ stopped' = stopped
    /\ UNCHANGED worker

\* The first half of stop().
StopIo ==
    /\ stopped' = TRUE
    /\ UNCHANGED worker

\* Fault: the threads are detached.
Detached == TRUE

\* The loop of join() has come to its end.
Joined == \A w \in Workers : worker[w] \in {"none", "gone"}
=============================================================================
