-------------------------- MODULE MCMempoolServer --------------------------
EXTENDS MempoolServer, TLC

CONSTANTS c1, x1, x2, x3, x4

\* x3 depends on x1 and x2, and pays better; x4 depends on x1 and is too large; x1 and
\* x2 pay the same and differ in priority.
MCDeps == (x1 :> {}) @@ (x2 :> {}) @@ (x3 :> {x1, x2}) @@ (x4 :> {x1})
MCFee  == (x1 :> 1) @@ (x2 :> 1) @@ (x3 :> 3) @@ (x4 :> 9)
MCPrio == (x1 :> 1) @@ (x2 :> 2) @@ (x3 :> 1) @@ (x4 :> 1)
MCSize == (x1 :> 1) @@ (x2 :> 1) @@ (x3 :> 2) @@ (x4 :> 3)
============================================================================
