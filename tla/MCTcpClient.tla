----------------------------- MODULE MCTcpClient -----------------------------
(* TLC instance of TcpClient. *)
EXTENDS TcpClient, TLC

\* Buffers are interchangeable.
Symmetry == Permutations(Buffers)
=============================================================================
