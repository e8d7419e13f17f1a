------------------------ MODULE MCReconnectingReader ------------------------
(* TLC instance: the second byte of a header is the length.                *)
EXTENDS ReconnectingReader

MCTotalSize(h) == h[2]
=============================================================================
