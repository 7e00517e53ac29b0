---------------------------- MODULE MCBentPipe ----------------------------
EXTENDS BentPipe

\* The first bitcoind may be replaced by one with another version, and it does the
\* talking: the pipes are alike, and one direction stands for the other.
MCVersion == <<{1, 2}, {3}>>
MCChatter == <<{m \in Said : m.key = 2 => m.value = 1}, {}>>
===========================================================================
