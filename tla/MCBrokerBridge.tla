--------------------------- MODULE MCBrokerBridge ---------------------------
\* Values of the constants of BrokerBridge for TLC.
EXTENDS BrokerBridge, TLC

CONSTANTS channel1, channel2, thread1, thread2

Alike == Permutations({channel1, channel2}) \cup Permutations({thread1, thread2})
=============================================================================
