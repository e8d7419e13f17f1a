----------------------------- MODULE FrameReader -----------------------------
(***************************************************************************)
(* How TcpConnection and TcpClient cut the received byte stream into       *)
(* messages: start_receive() reads behind the bytes it already has,        *)
(* process_buffer() walks over the complete frames, hands each to on_recv_ *)
(* and moves the incomplete rest to the front of recv_buffer_.             *)
(*                                                                         *)
(* A definition marked "Fault" is a wrong version of the one after it,     *)
(* kept to show that a property notices the difference; nothing uses it.   *)
(*                                                                         *)
(* The stream, and how the kernel chops it into reads, are arbitrary.      *)
(* The callback may close the socket; whatever else it does is the subject *)
(* of TcpConnection and TcpClient.                                         *)
(***************************************************************************)
EXTENDS Naturals, Sequences

CONSTANTS
    Byte,            \* the values of a byte
    Zero,            \* the byte resize() fills recv_buffer_ with
    HeaderSize,      \* header_size_
    TotalSize(_),    \* get_total_size_, the application's framing rule
    MaxMessageSize,  \* max_message_size_
    Chunk,           \* room start_receive() makes for a read (65536)
    MaxInput         \* bound: bytes the peer sends on a connection

\* A header has at least one byte: with header_size_ = 0 the loop of
\* process_buffer() would never end.
ASSUME FrameReaderAssumption ==
    /\ Zero \in Byte
    /\ HeaderSize \in Nat \ {0}
    /\ \A h \in [1 .. HeaderSize -> Byte] : TotalSize(h) \in Nat
    /\ MaxMessageSize \in Nat
    /\ Chunk \in Nat \ {0}
    /\ MaxInput \in Nat

VARIABLES
    recv_buffer,     \* recv_buffer_
    active_bytes,    \* active_bytes_: how much of it holds received bytes
    current_offset,  \* current_offset of process_buffer()
    state,           \* "reading", "processing", "closing" (processing, and a
                     \* callback has closed the socket), "rejected" or "closed"
    input,           \* history: all bytes received on this connection
    delivered        \* history: the messages on_recv_ was given, each with
                     \* the position in the input where it was found

readerVars == <<recv_buffer, active_bytes, current_offset, state, input,
                delivered>>

Zeroes(n) == [i \in 1 .. n |-> Zero]

\* Fault: recv_buffer_ grows with every read.
EnlargedAlways(buffer, active) == buffer \o Zeroes(Chunk)

\* The test at the head of start_receive(): room for Chunk more bytes.
Enlarged(buffer, active) ==
    IF Len(buffer) < active + Chunk
    THEN buffer \o Zeroes(active + Chunk - Len(buffer))
    ELSE buffer

ReaderInit ==
    /\ recv_buffer = Zeroes(Chunk)
    /\ active_bytes = 0
    /\ current_offset = 0
    /\ state = "reading"
    /\ input = <<>>
    /\ delivered = <<>>

\* The bytes of a read land behind the active ones.
Filled(buffer, active, bytes) ==
    [i \in 1 .. Len(buffer) |->
        IF i \in active + 1 .. active + Len(bytes) THEN bytes[i - active]
                                                   ELSE buffer[i]]

\* The completion of async_read_some with at least one byte.
Read ==
    /\ state = "reading"
    /\ \E n \in 1 .. Len(recv_buffer) - active_bytes :
        /\ Len(input) + n <= MaxInput
        /\ \E bytes \in [1 .. n -> Byte] :
            /\ recv_buffer' = Filled(recv_buffer, active_bytes, bytes)
            /\ input' = input \o bytes
        /\ active_bytes' = active_bytes + n
    /\ current_offset' = 0
    /\ state' = "processing"
    /\ UNCHANGED delivered

\* The read ends otherwise: the peer has closed or reset the connection, or
\* close() or the timeout has.
ReadFails ==
    /\ state = "reading"
    /\ state' = "closed"
    /\ UNCHANGED <<recv_buffer, active_bytes, current_offset, input, delivered>>
-----------------------------------------------------------------------------
(***************************************************************************)
(* process_buffer(): Deliver is an iteration of its loop, Reject and Stop  *)
(* are the ways out of it.                                                 *)
(***************************************************************************)

Unparsed == active_bytes - current_offset

\* Fault: a header needs a byte behind it.
HaveMoreThanHeader == Unparsed > HeaderSize

HaveHeader == Unparsed >= HeaderSize

\* The n bytes at the offset.
Span(n) == [i \in 1 .. n |-> recv_buffer[current_offset + i]]

total_size == TotalSize(Span(HeaderSize))

Acceptable(n) == HeaderSize <= n /\ n <= MaxMessageSize

\* Fault: a message is complete one byte too early.
CompleteEarly(n) == Unparsed + 1 >= n

\* All bytes of a message of n bytes are there.
Complete(n) == Unparsed >= n

\* process_buffer() is running.
Processing == state \in {"processing", "closing"}

\* A complete message is handed to on_recv_.  If the callback closes the
\* socket, the loop goes on all the same.
Deliver ==
    /\ Processing
    /\ HaveHeader
    /\ Acceptable(total_size)
    /\ Complete(total_size)
    /\ delivered' = Append(delivered,
                           [at |-> Len(input) - Unparsed,
                            bytes |-> Span(total_size)])
    /\ current_offset' = current_offset + total_size
    /\ state' \in {state, "closing"}
    /\ UNCHANGED <<recv_buffer, active_bytes, input>>

\* close(), and process_buffer() returns without reading on.  The messages it
\* has delivered stay in recv_buffer_.
Reject ==
    /\ Processing
    /\ HaveHeader
    /\ ~Acceptable(total_size)
    /\ state' = "rejected"
    /\ UNCHANGED <<recv_buffer, active_bytes, current_offset, input, delivered>>

\* Fault: memmove moves one byte less.
CompactedShort(n) ==
    [i \in 1 .. Len(recv_buffer) |->
        IF i < n THEN recv_buffer[current_offset + i] ELSE recv_buffer[i]]

\* memmove of n bytes from the offset to the front; what lies behind them
\* stays where it is.
Compacted(n) ==
    [i \in 1 .. Len(recv_buffer) |->
        IF i <= n THEN recv_buffer[current_offset + i] ELSE recv_buffer[i]]

\* Fault: the break is missing, so that an incomplete message keeps the loop
\* going.
LoopEndsAtHeader == ~HaveHeader

\* The loop ends: not even a header is left, or an incomplete message.
LoopEnds == HaveHeader => Acceptable(total_size) /\ ~Complete(total_size)

\* No complete frame is left: keep the rest and read on.  On a socket that is
\* closed the read fails.
Stop ==
    /\ Processing
    /\ LoopEnds
    /\ recv_buffer' = Enlarged(Compacted(Unparsed), Unparsed)
    /\ active_bytes' = Unparsed
    /\ current_offset' = 0
    /\ state' = IF state = "processing" THEN "reading" ELSE "closed"
    /\ UNCHANGED <<input, delivered>>

\* The steps of the reader that call no callback.
ReaderStep == Read \/ ReadFails \/ Reject \/ Stop
-----------------------------------------------------------------------------
(***************************************************************************)
(* Properties.                                                             *)
(***************************************************************************)

\* The indices stay within recv_buffer_: the unsigned subtractions of
\* process_buffer() never wrap and no read goes beyond the received bytes.
ReaderTypeOK ==
    /\ recv_buffer \in Seq(Byte)
    /\ active_bytes \in 0 .. Len(recv_buffer)
    /\ current_offset \in 0 .. active_bytes
    /\ state \in {"reading", "processing", "closing", "rejected", "closed"}
    /\ input \in Seq(Byte)
    /\ delivered \in Seq([at : Nat, bytes : Seq(Byte)])

\* Where in the input the walk over the frames has come to.
Parsed == Len(input) - Unparsed

\* The sizes a message may have.
WellFormed == HeaderSize .. MaxMessageSize

\* The n bytes of the input from position p on.
InputAt(p, n) == [i \in 1 .. n |-> input[p + i]]

\* Each message given to on_recv_ starts where the one before it ends, has the
\* length that its own header announces, and the bytes the peer sent there.
MessagesTile ==
    \A k \in DOMAIN delivered :
        LET d == delivered[k]
            n == TotalSize(InputAt(d.at, HeaderSize))
        IN  /\ d.at = IF k = 1 THEN 0
                      ELSE delivered[k - 1].at + Len(delivered[k - 1].bytes)
            /\ n \in WellFormed
            /\ d.at + n <= Len(input)
            /\ d.bytes = InputAt(d.at, n)

\* The messages tile the stream from its start up to where the walk over the
\* buffer has come: they depend on the stream alone and not on how the kernel
\* chopped it or how the rest was moved, not even when a callback has closed
\* the socket and the loop goes on.
FramesTile ==
    /\ MessagesTile
    /\ Parsed = IF delivered = <<>> THEN 0
                ELSE LET d == delivered[Len(delivered)]
                     IN  d.at + Len(d.bytes)

\* While the reader waits for more, no complete message is left undelivered;
\* it gives up only where the stream itself holds an unacceptable header.
NothingHeldBack ==
    LET n == TotalSize(InputAt(Parsed, HeaderSize))
        header == Len(input) - Parsed >= HeaderSize
    IN  /\ state = "reading" /\ header =>
            n \in WellFormed /\ Parsed + n > Len(input)
        /\ state = "rejected" => header /\ n \notin WellFormed

\* No more than an incomplete header or message is kept for the next read.
LargestRest == IF HeaderSize > MaxMessageSize THEN HeaderSize ELSE MaxMessageSize

\* What max_message_size_ buys: however long the stream, recv_buffer_ never
\* grows beyond one incomplete message and one read.
BufferBounded == Len(recv_buffer) < LargestRest + Chunk

\* process_buffer() terminates: every read is followed by another or by
\* close().
ProcessingEnds == Processing ~> ~Processing
=============================================================================
