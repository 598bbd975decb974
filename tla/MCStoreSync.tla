---------------------------- MODULE MCStoreSync -----------------------------
\* Values of the constants of StoreSync for TLC.
EXTENDS StoreSync, TLC

CONSTANTS client1, client2, item, something

\* A client has sent three frames when its requests are handled out of order (it
\* subscribed, opened and closed or opened again), and with MaxFrames = 4 no other
\* can open the store after that: nothing is left to be seen but what becomes of
\* the client whose order was lost, which the properties make no claim about.
InOrder == overtaken = {}

Alike == Permutations({client1, client2})
=============================================================================
