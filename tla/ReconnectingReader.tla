------------------------- MODULE ReconnectingReader -------------------------
(***************************************************************************)
(* FrameReader inside a TcpClient whose connect() is called again once the *)
(* connection is closed: recv_buffer_ and active_bytes_ belong to the      *)
(* object, and nothing empties them.                                       *)
(***************************************************************************)
EXTENDS FrameReader

CONSTANT MaxConnects   \* bound: connections of the object

VARIABLE connects      \* connections so far

vars == <<readerVars, connects>>

Init == ReaderInit /\ connects = 1

\* The handler of connect() calls start_receive().  The histories are those
\* of the new connection.
Reconnect ==
    /\ state \in {"closed", "rejected"}
    /\ connects < MaxConnects
    /\ connects' = connects + 1
    /\ recv_buffer' = Enlarged(recv_buffer, active_bytes)
    /\ state' = "reading"
    /\ input' = <<>>
    /\ delivered' = <<>>
    /\ UNCHANGED <<active_bytes, current_offset>>

Next ==
    \/ Reconnect
    \/ (ReaderStep \/ Deliver) /\ UNCHANGED connects

Spec == Init /\ [][Next]_vars

\* tcp_client.hpp, ReceiveCallback: it is called for a validated application
\* message that has been completely received.  So on every connection the
\* callback is given the frames of what was received on that connection.
EachStreamFramed == MessagesTile
=============================================================================
