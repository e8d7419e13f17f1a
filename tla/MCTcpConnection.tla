--------------------------- MODULE MCTcpConnection ---------------------------
(* TLC instance of TcpConnection. *)
EXTENDS TcpConnection, TLC

\* Buffers are interchangeable.
Symmetry == Permutations(Buffers)
=============================================================================
