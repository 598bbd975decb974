------------------------------ MODULE MCFabric ------------------------------
\* Values of the constants of Fabric for TLC.
EXTENDS Fabric, TLC

CONSTANTS client1, client2, first, second, fallback1, fallback2, response

Alike == Permutations({client1, client2}) \cup Permutations({first, second})
           \cup Permutations({fallback1, fallback2})
=============================================================================
