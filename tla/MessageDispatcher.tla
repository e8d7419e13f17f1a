-------------------------- MODULE MessageDispatcher --------------------------
(***************************************************************************)
(* MessageDispatcher (message_dispatcher.hpp) where RimApplication puts it:*)
(* its size lambda frames the stream, its dispatch() is the whole receive  *)
(* callback.  FrameReader supplies the messages of a TCP endpoint; a UDP   *)
(* endpoint hands over its datagrams as they come.                         *)
(*                                                                         *)
(* A definition marked "Fault" is a wrong version of the one after it,     *)
(* kept to show that a property notices the difference; nothing uses it.   *)
(***************************************************************************)
EXTENDS FrameReader, FiniteSets

CONSTANTS
    Extract(_),   \* extractor_: the type and the size in a header
    Definitions   \* the pairs <<type, sizeof(MsgDef)>> an application registers

\* get_size_lambda() and header_size() are what the endpoint frames with.
ASSUME DispatcherAssumption ==
    /\ \A h \in [1 .. HeaderSize -> Byte] : TotalSize(h) = Extract(h)[2]
    /\ \A d \in Definitions : d[2] \in Nat \ {0}

VARIABLES
    udp,        \* the node's protocol is UDP
    datagram,   \* history: the datagram received, <<>> if none
    handlers,   \* handlers_: sizeof(MsgDef) of each registered type, else 0
    handled     \* history: what the handlers were called with: the type, the
                \* place of the message and the bytes of the struct

vars == <<readerVars, udp, datagram, handlers, handled>>

Types == {d[1] : d \in Definitions}

Init ==
    /\ ReaderInit
    /\ udp \in BOOLEAN
    /\ datagram = <<>>
    /\ handlers = [t \in Types |-> 0]
    /\ handled = <<>>

\* add_handler() in setup_handlers(), before anything is received.  The last
\* registration of a type counts.
AddHandler ==
    /\ input = <<>> /\ datagram = <<>> /\ state = "reading"
    /\ \E d \in Definitions : handlers' = [handlers EXCEPT ![d[1]] = d[2]]
    /\ UNCHANGED <<readerVars, udp, datagram, handled>>

Header(memory) == [i \in 1 .. HeaderSize |-> memory[i]]

\* Fault: the size of the message is not compared with the struct.
AnyLength(size, t) == TRUE

\* The handler's own test: the message has all bytes of the struct.
LongEnough(size, t) == size >= handlers[t]

\* dispatch()'s test.
HasHeader(size) == size >= HeaderSize

\* dispatch() of a message of this size at the start of memory, found at this
\* position of the input: the handler is given the struct's bytes in place,
\* whether or not they are the message's.
Dispatch(at, size, memory) ==
    LET t == Extract(Header(memory))[1]
    IN  handled' =
            IF HasHeader(size) /\ t \in Types /\ handlers[t] > 0 /\ LongEnough(size, t)
            THEN Append(handled, [type |-> t, at |-> at,
                                  msg |-> SubSeq(memory, 1, handlers[t])])
            ELSE handled

\* The receive callback of a TCP endpoint.
DeliverMessage ==
    /\ Deliver
    /\ Dispatch(Len(input) - Unparsed, total_size,
                SubSeq(recv_buffer, current_offset + 1, Len(recv_buffer)))
    /\ UNCHANGED <<udp, datagram, handlers>>

\* A step of the reader alone.
ReadOn ==
    /\ ~udp
    /\ ReaderStep
    /\ UNCHANGED <<udp, datagram, handlers, handled>>

\* The receive callback of a UDP endpoint gets one datagram, of any length;
\* behind it lies the rest of the endpoint's buffer.  dispatch() keeps no
\* state, so that one datagram will do.
Datagram ==
    /\ udp
    /\ datagram = <<>>
    /\ \E n \in 1 .. Chunk : \E bytes \in [1 .. n -> Byte] :
        /\ datagram' = bytes
        /\ Dispatch(0, n, bytes \o recv_buffer)
    /\ UNCHANGED <<readerVars, udp, handlers>>

Next == AddHandler \/ ReadOn \/ DeliverMessage \/ Datagram

Spec == Init /\ [][Next]_vars

\* process_buffer() runs to its end once it is entered.
FairSpec == Spec /\ WF_vars((ReadOn /\ Processing) \/ DeliverMessage)
-----------------------------------------------------------------------------
(***************************************************************************)
(* Properties.                                                             *)
(***************************************************************************)

TypeOK ==
    /\ ReaderTypeOK
    /\ udp \in BOOLEAN
    /\ datagram \in Seq(Byte)
    /\ handlers \in [Types -> Nat]
    /\ handled \in Seq([type : Types, at : Nat, msg : Seq(Byte)])

\* The messages that have come in.
Messages ==
    IF ~udp THEN delivered
    ELSE IF datagram = <<>> THEN <<>> ELSE <<[at |-> 0, bytes |-> datagram]>>

\* The n bytes that the peer sent at position p.
SentAt(p, n) == SubSeq(IF udp THEN datagram ELSE input, p + 1, p + n)

\* A message of a registered type that fills the registered struct.
Meant(m) ==
    /\ Len(m.bytes) >= HeaderSize
    /\ LET t == Extract(Header(m.bytes))[1]
       IN  t \in Types /\ handlers[t] \in 1 .. Len(m.bytes)

MeantOnes == {k \in DOMAIN Messages : Meant(Messages[k])}

\* Which of those message k is.
Rank(k) == Cardinality({i \in MeantOnes : i <= k})

\* What the handler has to be called with for m.
Expected(m) ==
    LET t == Extract(SentAt(m.at, HeaderSize))[1]
    IN  [type |-> t, at |-> m.at, msg |-> SentAt(m.at, handlers[t])]

\* The handlers see, in the order of the stream, every message meant for them
\* and nothing else: the struct is made of the peer's bytes of that very
\* message, never of the next one's or of what an earlier read left behind.
HandledExactly ==
    /\ Len(handled) = Cardinality(MeantOnes)
    /\ \A k \in MeantOnes : handled[Rank(k)] = Expected(Messages[k])
=============================================================================
