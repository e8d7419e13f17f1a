------------------------- MODULE MCMessageDispatcher -------------------------
(* TLC instance: a header is a type and a length.                          *)
EXTENDS MessageDispatcher

MCExtract(h) == <<h[1], h[2]>>
MCTotalSize(h) == h[2]
MCDefinitions == {<<2, 2>>, <<2, 3>>, <<3, 3>>}
=============================================================================
