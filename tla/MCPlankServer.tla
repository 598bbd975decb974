---------------------------- MODULE MCPlankServer ----------------------------
\* Values of the constants of PlankServer for TLC: two services with a bridge
\* on the same path, one of them with HEAD and OPTIONS, which an override may
\* ask for, too; the application may set a prefix of that path.
EXTENDS PlankServer, TLC

CONSTANTS service1, service2

PathA == <<"a">>
PathB == <<"a", "b">>
MCPaths == {PathA, PathB}
MCMethods == {"GET", "HEAD", "OPTIONS"}
Get == [path |-> PathA, method |-> "GET", head |-> FALSE, options |-> FALSE, prefix |-> FALSE]
GetHead == [Get EXCEPT !.head = TRUE, !.options = TRUE]
MCBridgesOf == service1 :> <<Get>> @@ service2 :> <<GetHead>>
MCOverridesOf == service1 :> {} @@ service2 :> {GetHead}
MCByHandOf == service1 :> {} @@ service2 :> {[Get EXCEPT !.method = "*", !.prefix = TRUE]}

Alike == Permutations(Calls) \cup Permutations(Requests)

\* The bound of the run: what the application and the clients ask for, together.
MaxAsked == 4
FewAsked ==
  Cardinality({c \in Calls : call[c] # Unused}) + Cardinality({h \in Requests : request[h] # Unsent})
    =< MaxAsked
=============================================================================
