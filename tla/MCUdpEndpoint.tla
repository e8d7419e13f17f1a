---------------------------- MODULE MCUdpEndpoint ----------------------------
(* TLC instance of UdpEndpoint. *)
EXTENDS UdpEndpoint, TLC

\* Buffers are interchangeable.
Symmetry == Permutations(Buffers)
=============================================================================
