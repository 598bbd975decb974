-------------------------- MODULE MCMessageHandler --------------------------
\* Values of the constants of MessageHandler for TLC.
EXTENDS MessageHandler, TLC

CONSTANTS a, b, x, y

\* RequestOnceForDestination, ListenRequestStreamForDestination (a server of
\* requests) and RequestStreamForDestination, all for x.
OnceForX == [dir |-> "response", dest |-> x, once |-> TRUE, all |-> FALSE]
ServerForX == [dir |-> "request", dest |-> x, once |-> FALSE, all |-> FALSE]
StreamForX == [dir |-> "response", dest |-> x, once |-> FALSE, all |-> FALSE]
OnceAndServer == (a :> OnceForX) @@ (b :> ServerForX)
OnceAndStream == (a :> OnceForX) @@ (b :> StreamForX)

Response(d) == [dir |-> "response", dest |-> d]
Failure(d) == [dir |-> "error", dest |-> d]
ToY == {Response(y), Failure(y)}
ToX == {Response(x)}
=============================================================================
