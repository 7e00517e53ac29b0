------------------------ MODULE MCFlaggedArraySet ------------------------
EXTENDS FlaggedArraySet, TLC

CONSTANTS a, b, c, d, e, f

\* With maxSize = 4 and maxFlagCount = 6 the number evicts when the five small
\* elements meet, the sum when f joins more than one of them.
MCFlag == (a :> 1) @@ (b :> 1) @@ (c :> 1) @@ (d :> 1) @@ (e :> 2) @@ (f :> 5)
===========================================================================
