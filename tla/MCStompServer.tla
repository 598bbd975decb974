--------------------------- MODULE MCStompServer ----------------------------
\* Values of the constants of StompServer for TLC.
EXTENDS StompServer, TLC

CONSTANTS a, b, topic, news

\* Two subscriptions that share an id, or a single one.
SharedId == {[id |-> 1, destination |-> topic], [id |-> 1, destination |-> news]}
OneTopic == {[id |-> 1, destination |-> topic]}
=============================================================================
