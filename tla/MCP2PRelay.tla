---------------------------- MODULE MCP2PRelay ----------------------------
EXTENDS P2PRelay

CONSTANTS x1, x2

\* The first block comes from the network, the second one from a relay client.
MCTheirs == {Block(1), <<"tx", x1>>}
MCOurs == {Block(2)}

\* The receiving connection is made twice.
MCMaxConn == [r \in Relayer |-> IF r = "recv" THEN 2 ELSE 1]
===========================================================================
