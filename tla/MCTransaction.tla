--------------------------- MODULE MCTransaction ----------------------------
\* Values of the constants of Transaction for TLC.
EXTENDS Transaction

\* The first two requests share a channel.
SharedChannel == [r \in Numbers |-> IF r <= 2 THEN 1 ELSE r]
=============================================================================
