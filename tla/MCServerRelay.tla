--------------------------- MODULE MCServerRelay ---------------------------
EXTENDS ServerRelay

CONSTANTS c1, c2, x1, x2, x3, b1, b2, b3

\* x3 is oversize for the old type, and a new cache has room for it and one other.
MCSize == (x1 :> 1) @@ (x2 :> 1) @@ (x3 :> 2)

\* Blocks that leave something in a cache, out of cache order or with transactions of
\* their own, as the case may be; b3 is of an old version.
MCBlockTxs == (b1 :> <<x2, x3>>) @@ (b2 :> <<x2, x1>>) @@ (b3 :> <<x1>>)

Symmetry == Permutations(Client)
============================================================================
