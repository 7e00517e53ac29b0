--------------------------- MODULE MCClientRelay ---------------------------
EXTENDS ClientRelay, TLC

CONSTANTS x1, x2, x3, b1, b2

\* x1 and x3 together overflow a cache.
MCSize == (x1 :> 1) @@ (x2 :> 1) @@ (x3 :> 2)

MCBlockTxs == (b1 :> <<x2, x3, x1>>) @@ (b2 :> <<x1, x3>>)
============================================================================
