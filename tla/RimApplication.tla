--------------------------- MODULE RimApplication ---------------------------
(***************************************************************************)
(* RimApplication (application.hpp), which composes a node: run() on the   *)
(* main thread, the Context's workers, the application's own threads that  *)
(* call send(), and a TCP server, TCP client or UDP endpoint.              *)
(*                                                                         *)
(* The application's threads call send() after the endpoints have been set *)
(* up, and teardown() joins them: send() reads the variants unprotected.   *)
(*                                                                         *)
(* A definition marked "Fault" is a wrong version of the one after it,     *)
(* kept to show that a property notices the difference; nothing uses it.   *)
(***************************************************************************)
EXTENDS TcpServer

CONSTANT Own     \* the endpoint of a TCP client or a UDP node

ASSUME ApplicationAssumption == Ends = Conns \cup {Own} /\ Own \notin Conns

Roles == {"tcp_server", "udp_server", "tcp_client", "udp_client"}

VARIABLES
    role,          \* config_.role and config_.protocol
    app_running,   \* app_running_
    variant,       \* server_ or client_ holds an endpoint
    phase          \* how far run() has come

nodeVars == <<role, app_running, variant, phase>>

vars == <<contextVars, sockVars, callVars, serverVars, nodeVars>>

Init ==
    /\ ContextInit
    /\ EndpointsInit
    /\ ServerInit
    /\ role \in Roles
    /\ app_running = TRUE
    /\ variant = FALSE
    /\ phase = "setup"

Datagrams == role \in {"udp_server", "udp_client"}

\* Whom send() sends to.  The UDP endpoint of a server is bound but not
\* connected, and its send() returns an error.
Targets ==
    CASE variant /\ role = "tcp_server" -> Snapshot
      [] variant /\ role \in {"tcp_client", "udp_client"} -> {Own}
      [] ~variant \/ role = "udp_server" -> {}
-----------------------------------------------------------------------------
(***************************************************************************)
(* run(), until the workers start.  An endpoint that cannot be made is     *)
(* only logged, and run() goes on without it.                              *)
(***************************************************************************)

Goto(there) == phase' = there /\ UNCHANGED <<role, app_running>>

\* create_tcp_server() and start(); the acceptor's constructor throws if the
\* port is taken, and run() is left.
SetupTcpServer ==
    /\ phase = "setup" /\ role = "tcp_server"
    /\ \/ variant' = TRUE /\ Listen /\ Goto("start")
       \/ Goto("unwind") /\ UNCHANGED <<variant, serverVars>>
    /\ UNCHANGED <<contextVars, sockVars, callVars>>

\* The UDP endpoint is bound or connected, and receives.
OpenUdp ==
    /\ variant' = TRUE
    /\ open' = [open EXCEPT ![Own] = TRUE]
    /\ ops' = [ops EXCEPT ![Own] = {"read"}]
    /\ UNCHANGED <<free, queued, strand, reads>>

\* create_udp_server() and start_receive().
SetupUdpServer ==
    /\ phase = "setup" /\ role = "udp_server"
    /\ OpenUdp \/ UNCHANGED <<variant, sockVars>>
    /\ Goto("start")
    /\ UNCHANGED <<contextVars, callVars, serverVars>>

\* create_tcp_client() and connect(), which may fail to resolve the name.
SetupTcpClient ==
    /\ phase = "setup" /\ role = "tcp_client"
    /\ variant' = TRUE
    /\ ops' \in {ops, [ops EXCEPT ![Own] = {"connect"}]}
    /\ Goto("start")
    /\ UNCHANGED <<contextVars, open, free, queued, strand, reads>>
    /\ UNCHANGED <<callVars, serverVars>>

\* create_udp_client() and start_receive().  on_client_connected() is called
\* inline, and no worker runs yet.
SetupUdpClient ==
    /\ phase = "setup" /\ role = "udp_client"
    /\ \/ OpenUdp /\ Goto("hook")
       \/ Goto("start") /\ UNCHANGED <<variant, sockVars>>
    /\ UNCHANGED <<contextVars, callVars, serverVars>>

HookSends ==
    /\ phase = "hook"
    /\ Call(Main, Targets)
    /\ UNCHANGED <<contextVars, sockVars, serverVars, nodeVars>>

HookReturns ==
    /\ phase = "hook"
    /\ Idle(Main)
    /\ Goto("start")
    /\ UNCHANGED <<contextVars, sockVars, callVars, serverVars, variant>>

StartContext ==
    /\ phase = "start"
    /\ Start
    /\ Goto("wait")
    /\ UNCHANGED <<sockVars, callVars, serverVars, variant>>
-----------------------------------------------------------------------------
(***************************************************************************)
(* run(), from the end of wait_for_shutdown() on.                          *)
(***************************************************************************)

\* wait_for_shutdown() and teardown().
Teardown ==
    /\ phase = "wait"
    /\ ~app_running
    /\ \A a \in Apps : Idle(a)
    /\ Goto("stop")
    /\ UNCHANGED <<contextVars, sockVars, callVars, serverVars, variant>>

StopContext ==
    /\ phase = "stop"
    /\ StopIo
    /\ Goto("join")
    /\ UNCHANGED <<sockVars, callVars, serverVars, variant>>

JoinWorkers ==
    /\ phase = "join"
    /\ Joined
    /\ Goto("release")
    /\ UNCHANGED <<contextVars, sockVars, callVars, serverVars, variant>>

\* Fault: the variants are left to the destructor of RimApplication.
ReleasedLater == UNCHANGED <<serverVars, variant>>

\* server_ and client_ are emptied.
Released == variant' = FALSE /\ Destroyed

Release ==
    /\ phase = "release"
    /\ Released
    /\ Goto("unwind")
    /\ UNCHANGED <<contextVars, sockVars, callVars>>

\* The destructor of the Context, at the end of run() or when it throws: what
\* is still queued or outstanding is destroyed without being run.
Unwind ==
    /\ phase = "unwind"
    /\ Joined
    /\ StopIo
    /\ strand' = [e \in Ends |-> <<>>]
    /\ ops' = [e \in Ends |-> {}]
    /\ Goto("returned")
    /\ UNCHANGED <<open, free, queued, reads, callVars, serverVars, variant>>

Run == \/ SetupTcpServer \/ SetupUdpServer \/ SetupTcpClient \/ SetupUdpClient
       \/ HookReturns \/ StartContext
       \/ Teardown \/ StopContext \/ JoinWorkers \/ Release \/ Unwind
-----------------------------------------------------------------------------
(***************************************************************************)
(* The other threads.                                                      *)
(***************************************************************************)

\* stop(), at any time and on any thread.
AppStop ==
    /\ app_running
    /\ app_running' = FALSE
    /\ UNCHANGED <<contextVars, sockVars, callVars, serverVars, role, variant, phase>>

\* send() on a thread of the application.
AppSend(a) ==
    /\ phase \in {"start", "wait"}
    /\ Call(a, Targets)
    /\ UNCHANGED <<contextVars, sockVars, serverVars, nodeVars>>

\* A subclass closes its endpoint.
AppClose ==
    /\ variant /\ phase \in {"start", "wait"}
    /\ CloseCall(Own)
    /\ UNCHANGED <<contextVars, serverVars, nodeVars>>

\* A thread goes on inside send() or broadcast().
Continue(p) ==
    /\ SendTest(p) \/ SendPost(p)
    /\ UNCHANGED <<contextVars, serverVars, nodeVars>>

\* A handler of the strand of e that does not block.
RunHandler(e) ==
    /\ \/ RunPush(e) \/ RunWritten(e) \/ RunFailed(e) \/ RunClose(e)
       \/ RunError(e, Datagrams) \/ RunQuiet(e) \/ RunRefused(e)
    /\ CallDisc(e)
    /\ UNCHANGED <<callVars, nodeVars>>

\* A handler that dispatches a message to an application's handler, or calls
\* on_client_connected(), and that one calls send().
RunSending(w, e) ==
    /\ RunCallback(w, e)
    /\ Call(w, Targets)
    /\ UNCHANGED <<serverVars, nodeVars>>

Work(w) ==
    /\ \/ worker[w] \notin leaving /\ EndCallback(w) /\ UNCHANGED serverVars
       \/ OnDisc(w)
       \/ Accepted(w)
       \/ Leave(w) /\ UNCHANGED <<sockVars, callVars, serverVars>>
    /\ UNCHANGED nodeVars

Incoming ==
    /\ AcceptFails \/ \E w \in Workers : Accept(w)
    /\ UNCHANGED nodeVars

Kernel(e) ==
    /\ KernelReads(e) \/ KernelWrites(e) \/ KernelConnects(e) \/ KernelFails(e)
    /\ UNCHANGED <<contextVars, serverVars, nodeVars>>

Next ==
    \/ Run
    \/ HookSends
    \/ AppStop
    \/ AppClose
    \/ \E a \in Apps : AppSend(a)
    \/ \E p \in Callers : Continue(p)
    \/ \E e \in Ends : RunHandler(e) \/ Kernel(e)
    \/ \E w \in Workers : Work(w) \/ \E e \in Ends : RunSending(w, e)
    \/ Incoming

Spec == Init /\ [][Next]_vars

\* The operations of e that are sure to end: those of a closed socket, writes,
\* because the peer reads, and connection attempts.
Settle(e) == Kernel(e) /\ (open[e] => ops[e] \ ops'[e] # {"read"})

\* Every thread that can go on does so, the workers run what is ready, and
\* operations end.  Nobody has to call send(), close() or stop(), and no data,
\* connection or failure has to come.
Fairness ==
    /\ WF_vars(Run \/ Continue(Main))
    /\ \A a \in Apps : WF_vars(Continue(a))
    /\ \A w \in Workers : WF_vars(Work(w) \/ Continue(w))
    /\ \A e \in Ends : WF_vars(RunHandler(e)) /\ WF_vars(Settle(e))

FairSpec == Spec /\ Fairness
-----------------------------------------------------------------------------
(***************************************************************************)
(* Properties.                                                             *)
(***************************************************************************)

\* The variables of a node have the values their C++ types allow; no endpoint
\* ever has more idle buffers than were allocated for it.
TypeOK ==
    /\ stopped \in BOOLEAN
    /\ worker \in [Workers -> {"none", "idle", "gone", "accept"} \cup Ends]
    /\ EndpointsTypeOK
    /\ ServerTypeOK
    /\ role \in Roles
    /\ app_running \in BOOLEAN
    /\ variant \in BOOLEAN
    /\ phase \in {"setup", "hook", "start", "wait", "stop", "join", "release",
                  "unwind", "returned"}

\* Between the close of a socket and on_disc_ broadcast() on any thread still
\* finds the connection.  Otherwise the registry holds the connections that are
\* open and no others: a closed one is there only while a worker is about to
\* erase it, also if its own greeting has closed it before start() was called.
RegistryIsLive ==
    variant /\ role = "tcp_server" =>
        registry = {c \in made : \/ open[c]
                                 \/ \E w \in Workers : worker[w] = c /\ c \in leaving}

\* The handlers of a worker use the server through a bare pointer, and send()
\* uses the variants without a lock: both exist while a worker is inside a
\* handler or a thread inside send().
HandlersFindServer ==
    (\E w \in Workers : worker[w] \in Ends \cup {"accept"}) \/ (\E p \in Callers : ~Idle(p))
        => variant

Referenced(e) ==
    \/ variant /\ e = Own
    \/ e \in registry
    \/ ops[e] # {}
    \/ \E i \in DOMAIN strand[e] : strand[e][i] # "close"
    \/ e = accepting
    \/ \E w \in Workers : worker[w] = e
    \/ \E p \in Callers : e \in todo[p] \/ e = at[p]

\* application.hpp, run(): the sockets are destroyed before the io_context they
\* refer to, or with it.  Nothing keeps an endpoint alive when run() is over.
AllReleased == phase = "returned" => \A e \in Ends : ~Referenced(e)

Waiting(p) == at[p] # Nobody

\* Why a buffer of e may never come back: its write has failed, its strand is
\* held by a handler that waits itself, or no worker is left to run the strand,
\* because they all wait, have not been started yet or are gone.
Blocked(e) ==
    \/ ~open[e]
    \/ \E w \in Workers : worker[w] = e
    \/ \A w \in Workers : worker[w] # "idle"

\* Whoever waits in send() or broadcast() for ever does so for one of these
\* reasons.  In particular, a connection that is slow delays the others in a
\* broadcast, but its peer need only read.
WaitsForReason ==
    \A p \in Callers, e \in Ends : <>[](at[p] = e) => <>[]Blocked(e)

\* The accept loop of a server stays away from its acceptor for ever only if a
\* greeting waits for ever for a buffer of the connection it greets: whatever
\* async_accept has returned and whatever became of the connection since, the
\* next one is begun.
AcceptsAgain ==
    <>[](variant /\ role = "tcp_server" /\ acceptor # "waiting") =>
        <>[](\E w \in Workers : worker[w] = "accept" /\ Waiting(w) /\ Blocked(at[w]))

\* After stop(), run() returns, whatever is queued, outstanding or running,
\* unless some thread waits for a buffer for ever.
StopReturns ==
    <>[](\E p \in Callers : Waiting(p)) \/ (~app_running ~> phase = "returned")
=============================================================================
