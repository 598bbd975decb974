------------------------------ MODULE HttpRouter ------------------------------
(***************************************************************************)
(* The HTTP router of plank (plank/pkg/routing): which route answers a     *)
(* request.  A router is the sequence of its routes, in the order in which *)
(* they were added; the router makes a net/http ServeMux of them, rebuilt  *)
(* whenever a route has changed, so that the answer is a function of the   *)
(* sequence.  A path is the sequence of its segments; path variables and   *)
(* trailing slashes are left out.                                          *)
(***************************************************************************)
EXTENDS Naturals, Sequences, SequencesExt, FiniteSets

CONSTANTS
  Nil              \* no handler

\* A route under a name; methods is empty when it takes every method.
NewRoute(name, path, prefix, methods, handler) ==
  [name |-> name, path |-> path, prefix |-> prefix, methods |-> methods, handler |-> handler]

\* A pattern without a method takes every method.
AnyMethod == ""
Pattern(method, path, subtree) == [method |-> method, path |-> path, subtree |-> subtree]

\* An exact route is its path; a prefix is its path and all below it.
PathPatterns(rt) ==
  {Pattern(AnyMethod, rt.path, subtree) :
     subtree \in {t \in BOOLEAN : IF t THEN rt.prefix ELSE ~rt.prefix \/ rt.path # <<>>}}

DispatchPatterns(rt) ==
  IF rt.methods = {} THEN PathPatterns(rt)
  ELSE {Pattern(m, p.path, p.subtree) : p \in PathPatterns(rt), m \in rt.methods}

\* registerPattern: a pattern belongs to the first route that has it.
Claims(rt, p) == rt.handler # Nil /\ p \in DispatchPatterns(rt)
First(routes, i, p) == Claims(routes[i], p) /\ \A j \in 1..(i - 1) : ~Claims(routes[j], p)
Registered(routes) ==
  UNION {{[route |-> i, pattern |-> p] :
            p \in {q \in DispatchPatterns(routes[i]) : First(routes, i, q)}} : i \in DOMAIN routes}

\* ServeMux: a GET pattern takes HEAD, too.
TakesMethod(p, method) == p.method \in {AnyMethod, method} \/ (p.method = "GET" /\ method = "HEAD")
TakesPath(p, path) ==
  IF p.subtree THEN p.path = <<>> \/ IsStrictPrefix(p.path, path) ELSE p.path = path

\* ServeMux: the more specific path wins, then the more specific method.
Rank(p, method, path) ==
  LET pathRank == IF p.subtree THEN Len(p.path) ELSE Len(path) + 1
      methodRank == IF p.method = method THEN 2 ELSE IF p.method = "GET" THEN 1 ELSE 0
  IN  3 * pathRank + methodRank

Matching(routes, method, path) ==
  {e \in Registered(routes) : TakesMethod(e.pattern, method) /\ TakesPath(e.pattern, path)}

Answer(code, handler) == [code |-> code, handler |-> handler]

\* ServeHTTP and routeHandler: methods are checked exactly.
Dispatch(routes, method, path) ==
  LET matching == Matching(routes, method, path)
      best == CHOOSE e \in matching :
                \A f \in matching : Rank(f.pattern, method, path) =< Rank(e.pattern, method, path)
      rt == routes[best.route]
      elsewhere == \E i \in DOMAIN routes :
                     routes[i].handler # Nil /\ \E p \in PathPatterns(routes[i]) : TakesPath(p, path)
  IN  IF matching # {}
      THEN IF rt.methods = {} \/ method \in rt.methods THEN Answer(200, rt.handler) ELSE Answer(405, Nil)
      ELSE Answer(IF elsewhere THEN 405 ELSE 404, Nil)

\* Get: the last route that was given the name, 0 if there is none.
Named(routes, name) ==
  LET having == {i \in DOMAIN routes : routes[i].name = name}
  IN  IF having = {} THEN 0 ELSE CHOOSE i \in having : \A j \in having : j =< i

\* A clone keeps the order of the routes: the n-th of its routes has n - 1 of
\* them before it.
CloneExcluding(routes, names) ==
  LET kept == {i \in DOMAIN routes : routes[i].name \notin names}
      Before(i) == Cardinality({j \in kept : j < i})
  IN  [n \in 1..Cardinality(kept) |-> routes[CHOOSE i \in kept : Before(i) = n - 1]]

SetHandler(routes, i, handler) == [routes EXCEPT ![i].handler = handler]
=============================================================================
