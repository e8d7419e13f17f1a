------------------------------ MODULE TcpServer ------------------------------
(***************************************************************************)
(* TcpServer (tcp_server.hpp): the accept loop, the registry of            *)
(* connections and the disconnect callback.  The accept handler runs on    *)
(* any worker, on no strand, and blocks only in on_connect_.  It and the   *)
(* disconnect callback hold a bare pointer to the server.                  *)
(*                                                                         *)
(* A definition marked "Fault" is a wrong version of the one after it,     *)
(* kept to show that a property notices the difference; nothing uses it.   *)
(***************************************************************************)
EXTENDS Endpoints

CONSTANTS
    Conns,      \* the connections that may come
    Greets      \* whether on_connect_ is set and sends to the new connection

ASSUME TcpServerAssumption == Conns \subseteq Ends /\ Greets \in BOOLEAN

VARIABLES
    acceptor,   \* the accept loop: "none", "waiting" for a connection, or
                \* "running" its handler
    accepting,  \* the connection the running handler has made
    made,       \* the connections that have been made
    registry,   \* connections_
    leaving     \* connections whose socket has been closed and whose on_disc_
                \* has still to take connections_mutex_

serverVars == <<acceptor, accepting, made, registry, leaving>>

ServerInit ==
    /\ acceptor = "none"
    /\ accepting = Nobody
    /\ made = {}
    /\ registry = {}
    /\ leaving = {}

\* start(): the acceptor has been open since it was constructed.
Listen ==
    /\ acceptor' = "waiting"
    /\ UNCHANGED <<accepting, made, registry, leaving>>

\* The connection that comes next; which one makes no difference.
Fresh == CHOOSE c \in Conns : c \notin made

\* async_accept completes, and the handler runs up to on_connect_: the
\* connection is in the registry before the application hears of it and before
\* it receives.
Accept(w) ==
    /\ acceptor = "waiting"
    /\ made # Conns
    /\ Free(w)
    /\ made' = made \cup {Fresh}
    /\ registry' = registry \cup {Fresh}
    /\ accepting' = Fresh
    /\ open' = [open EXCEPT ![Fresh] = TRUE]
    /\ \/ UNCHANGED callVars
       \/ Greets /\ Call(w, {Fresh})
    /\ acceptor' = "running"
    /\ worker' = [worker EXCEPT ![w] = "accept"]
    /\ UNCHANGED <<stopped, free, queued, strand, ops, reads, leaving>>

\* Fault: the loop goes on only where a connection was made.
RearmedOnSuccess == IF accepting = Nobody THEN "none" ELSE "waiting"

\* The end of the handler: the acceptor is still open, and the loop goes on.
Rearmed == "waiting"

\* The rest of it: start() of the connection, which may have been closed since,
\* and the next async_accept.
Accepted(w) ==
    /\ worker[w] = "accept"
    /\ Idle(w)
    /\ StartRead(accepting, open[accepting], strand[accepting])
    /\ accepting' = Nobody
    /\ acceptor' = Rearmed
    /\ worker' = [worker EXCEPT ![w] = "idle"]
    /\ UNCHANGED <<stopped, open, free, queued, reads, callVars>>
    /\ UNCHANGED <<made, registry, leaving>>

\* async_accept completes with an error, which need not be the last one.
AcceptFails ==
    /\ acceptor = "waiting"
    /\ Served
    /\ acceptor' = Rearmed
    /\ UNCHANGED <<accepting, made, registry, leaving>>
    /\ UNCHANGED <<contextVars, sockVars, callVars>>

\* A handler of e that closes the socket of a connection goes on to on_disc_:
\* its worker stays inside it, and with it the strand.
CallDisc(e) ==
    /\ IF e \in Conns /\ open[e] /\ ~open'[e]
       THEN /\ \E w \in Workers :
                /\ Free(w)
                /\ worker' = [worker EXCEPT ![w] = e]
            /\ leaving' = leaving \cup {e}
       ELSE UNCHANGED <<worker, leaving>>
    /\ UNCHANGED <<stopped, acceptor, accepting, made, registry>>

\* Fault: on_disc_ is set only for a connection that has started.
ErasedIfStarted(e) == IF e = accepting THEN registry ELSE registry \ {e}

Erased(e) == registry \ {e}

\* on_disc_, under connections_mutex_.  Whoever held the mutex before may have
\* copied the closed connection.
OnDisc(w) ==
    /\ worker[w] \in leaving
    /\ registry' = Erased(worker[w])
    /\ leaving' = leaving \ {worker[w]}
    /\ worker' = [worker EXCEPT ![w] = "idle"]
    /\ UNCHANGED <<stopped, sockVars, callVars, acceptor, accepting, made>>

\* The connections that broadcast() copies under connections_mutex_, to send to
\* one after the other.
Snapshot == registry

\* The destructor: the acceptor is closed and the references are given up.
Destroyed ==
    /\ acceptor' = "none"
    /\ registry' = {}
    /\ UNCHANGED <<accepting, made, leaving>>
-----------------------------------------------------------------------------
ServerTypeOK ==
    /\ acceptor \in {"none", "waiting", "running"}
    /\ accepting \in Conns \cup {Nobody}
    /\ made \subseteq Conns
    /\ registry \subseteq made
    /\ leaving \subseteq made
=============================================================================
