---------------------------- MODULE MCBusChannel ----------------------------
\* Values of the constants of BusChannel for TLC.
EXTENDS BusChannel

CONSTANTS p1, p2
=============================================================================
