----------------------------- MODULE PlankServer -----------------------------
(***************************************************************************)
(* The plank server: ServiceRoutes together with the REST bridges of the   *)
(* services.  Each announcement of bridges is handled in a goroutine of    *)
(* its own, in any order; an override puts a clone of the HTTP router      *)
(* without the routes of the service in the place of the router, in two    *)
(* steps, and so does the start of the server with the router that it has  *)
(* read before.  The middleware manager changes the handler of a route     *)
(* that was fetched before.  The registry of bridges and the middleware    *)
(* manager share the map of the handlers, and the routes, but not a mutex: *)
(* each access under the mutex of one may fall between two of the other.   *)
(* An HTTP request is sent to the service and takes the next response from *)
(* the payload channel of the service, its own or not.                     *)
(*                                                                         *)
(* The start of services that announce that they are ready, static routes  *)
(* and the single page application are left out.                           *)
(***************************************************************************)
EXTENDS ServiceRoutes, HttpRouter

CONSTANTS
  Paths, Methods,  \* of requests and of bridges
  BridgesOf,       \* the bridges a service announces, in their order
  OverridesOf,     \* bridges an override may ask for
  ByHandOf,        \* bridges the application may set, exact or prefix
  Requests,        \* bound: requests to services, over HTTP or not
  PayloadCap       \* capacity of a payload channel: 100 in the code

\* A bridge: path, method, AllowHead, AllowOptions, and the mode it is set in.
AllMethodsWildcard == "*"
Bridges == [path : Paths, method : Methods \cup {AllMethodsWildcard},
            head : BOOLEAN, options : BOOLEAN, prefix : BOOLEAN]
\* Announced bridges are set exactly.
ExactBridges == {b \in Bridges : ~b.prefix}
\* A path is its segments; a method is a token, which is never empty.
ASSUME PathAssumption == Paths \subseteq Seq(STRING) /\ AnyMethod \notin Methods
ASSUME BridgeAssumption ==
  /\ BridgesOf \in [Services -> Seq(ExactBridges)]
  /\ OverridesOf \in [Services -> SUBSET ExactBridges]
  /\ ByHandOf \in [Services -> SUBSET Bridges]
ASSUME CapAssumption == PayloadCap \in Nat \ {0}

VARIABLES
  setup,           \* the announcements, under their calls
  routers,         \* the routers that were made, each the routes in it
  loaded,          \* which of them is the router
  start,           \* StartServer: how far it is, and the router it has read
  handlers,        \* endpointHandlerMap
  endpoints,       \* serviceChanToBridgeEndpoints
  bridged,         \* services with an entry in messageBridgeMap
  setting,         \* the bridge that set is at, under the mutex
  originals,       \* originalHandlersMap of the middleware manager
  fetched,         \* the route a middleware call has fetched, and the handler
  request,         \* state, service, whether it may still answer, response
  payload,         \* payload channels
  torn,            \* history: keys changed in the middle of another change
  stale,           \* history: keys given a handler that is not their own
  mixed            \* history: services with two answers to choose from

routerVars == <<routers, loaded, start>>
mapVars == <<handlers, endpoints, bridged, setting>>
middlewareVars == <<originals, fetched>>
bridgeVars == <<setup, routerVars, mapVars, middlewareVars, torn, stale>>
httpVars == <<request, payload, mixed>>
vars == <<routeVars, bridgeVars, httpVars>>

Key(path, method) == [path |-> path, method |-> method]
KeyOf(b) == Key(b.path, IF b.prefix THEN AllMethodsWildcard ELSE b.method)
BridgesFor(s) == Range(BridgesOf[s]) \cup OverridesOf[s] \cup ByHandOf[s]
Keys == {KeyOf(b) : b \in UNION {BridgesFor(s) : s \in Services}}
HandlerType == [service : Services \cup {None}, bridge : Keys \cup {Nil},
                builder : Calls \cup {None}, layers : 0..Cardinality(Calls)] \cup {Nil}
ASSUME NilAssumption == /\ Nil \notin {None} \cup Services \cup Calls \cup Keys
                        /\ Nil \notin [service : Services \cup {None}, bridge : Keys \cup {Nil},
                                       builder : Calls \cup {None}, layers : Nat]
                        /\ None \notin Requests
Handler(s, c, k) == [service |-> s, bridge |-> k, builder |-> c, layers |-> 0]
\* A nil http.HandlerFunc, which panics: not the absence of a handler.
Broken == [service |-> None, bridge |-> Nil, builder |-> None, layers |-> 0]
NoSetup == [at |-> "none", override |-> FALSE, todo |-> <<>>, clone |-> 0]
NotSetting == [at |-> "free", key |-> Nil, bridge |-> Nil, handler |-> Nil]
NotFetched == [key |-> Nil, router |-> 0, index |-> 0, handler |-> Nil]
Unsent == [at |-> "unsent", service |-> None, owed |-> FALSE, got |-> None]

Init ==
  /\ RoutesInit
  /\ setup = [c \in Calls |-> NoSetup]
  /\ routers = << <<>> >> /\ loaded = 1
  /\ start = [at |-> "off", router |-> 1]
  /\ handlers = [k \in Keys |-> Nil] /\ originals = [k \in Keys |-> Nil]
  /\ endpoints = [s \in Services |-> {}] /\ bridged = {}
  /\ setting = NotSetting
  /\ fetched = [c \in Calls |-> NotFetched]
  /\ request = [h \in Requests |-> Unsent]
  /\ payload = [s \in Services |-> <<>>]
  /\ torn = {} /\ stale = {} /\ mixed = {}

TypeOK ==
  /\ RoutesTypeOK
  /\ \A c \in Calls :
       /\ setup[c].at \in {"none", "new", "cleared", "setting", "done"}
       /\ Range(setup[c].todo) \subseteq ExactBridges
       /\ setup[c].clone \in (IF setup[c].at = "cleared" THEN DOMAIN routers ELSE {0})
       /\ fetched[c].key # Nil => /\ fetched[c].router \in DOMAIN routers
                                  /\ fetched[c].index \in DOMAIN routers[fetched[c].router]
  /\ loaded \in DOMAIN routers /\ start.router \in DOMAIN routers
  /\ \A r \in DOMAIN routers : \A i \in DOMAIN routers[r] :
       routers[r][i].name \in Keys /\ routers[r][i].handler \in HandlerType
  /\ handlers \in [Keys -> HandlerType] /\ originals \in [Keys -> HandlerType]
  /\ \A s, t \in Services : s # t => endpoints[s] \cap endpoints[t] = {}
  /\ UNION {endpoints[s] : s \in Services} \subseteq {k \in Keys : handlers[k] # Nil}
  /\ {k \in Keys \ torn : handlers[k] # Nil} \subseteq UNION {endpoints[s] : s \in Services}
  /\ {s \in Services : endpoints[s] # {}} \subseteq bridged /\ bridged \subseteq channels
  /\ request \in [Requests -> [at : {"unsent", "waiting", "done", "foreign"},
                               service : Services \cup {None}, owed : BOOLEAN,
                               got : Requests \cup {None}]]
  /\ \A s \in Services : Len(payload[s]) =< PayloadCap /\ (payload[s] # <<>> => s \in bridged)
-----------------------------------------------------------------------------
(***************************************************************************)
(* RestBridgeRegistry, each operation under its mutex.                     *)
(***************************************************************************)
router == routers[loaded]
\* Clones of the router that are not loaded yet.
CloneUnderWay == \E c \in Calls : setup[c].at = "cleared"
\* A middleware call has changed the handler, and not yet the route.
Rehandled(k) == \E c \in Calls : call[c].at = "written" /\ fetched[c].key = k
Unlocked == setting.at = "free"

\* A route takes the methods of its bridge, all of them if it is a prefix.
RouteOf(b, handler) ==
  LET allowed == {m \in {"HEAD"} : b.head} \cup {m \in {"OPTIONS"} : b.options}
  IN  NewRoute(KeyOf(b), b.path, b.prefix, IF b.prefix THEN {} ELSE {b.method} \cup allowed, handler)

\* The handler of an endpoint is made and belongs to the service.
StoreBridge(c, s, b) ==
  LET k == KeyOf(b)
  IN  /\ bridged' = bridged \cup {s}
      /\ handlers' = [handlers EXCEPT ![k] = Handler(s, c, k)]
      /\ endpoints' = [endpoints EXCEPT ![s] = @ \cup {k}]
      /\ setting' = [at |-> "stored", key |-> k, bridge |-> b, handler |-> Nil]
      /\ torn' = torn \cup {l \in {k} : CloneUnderWay}

\* A mistake: the last registration of an endpoint replaces the one before.
SetBridgeAlways(c, s, b) ==
  /\ Unlocked
  /\ IF s \in bridged \cup channels THEN StoreBridge(c, s, b)
     ELSE UNCHANGED <<mapVars, torn>>

\* set: the first registration of an endpoint stays; the response stream can
\* be made once the channel of the service exists.
SetBridge(c, s, b) ==
  /\ Unlocked
  /\ IF handlers[KeyOf(b)] = Nil /\ s \in bridged \cup channels THEN StoreBridge(c, s, b)
     ELSE UNCHANGED <<mapVars, torn>>

\* registerHttpBridgeRoute: the route has its path, its methods and its name
\* before it has the handler, which was read first.
PublishRoute ==
  /\ setting.at = "stored"
  /\ routers' = [routers EXCEPT ![loaded] = Append(@, RouteOf(setting.bridge, Nil))]
  /\ setting' = [setting EXCEPT !.at = "named", !.handler = handlers[setting.key]]
  /\ UNCHANGED <<routeVars, setup, loaded, start, handlers, endpoints, bridged,
                 middlewareVars, torn, stale, httpVars>>

SetRouteHandler ==
  /\ setting.at = "named"
  /\ routers' = [routers EXCEPT ![loaded] = SetHandler(@, Len(@), setting.handler)]
  /\ torn' = torn \cup {k \in {setting.key} : handlers[k] # setting.handler}
  /\ setting' = NotSetting
  /\ UNCHANGED <<routeVars, setup, loaded, start, handlers, endpoints, bridged,
                 middlewareVars, stale, httpVars>>

\* ClearForService: bridges.router stays as it is until the clone is loaded.
Clear(c) ==
  LET keys == endpoints[call[c].service]
  IN  /\ Unlocked
      /\ setup[c].at = "new" /\ setup[c].override
      /\ routers' = Append(routers, CloneExcluding(router, keys))
      /\ setup' = [setup EXCEPT ![c].at = "cleared", ![c].clone = Len(routers) + 1]
      /\ endpoints' = [endpoints EXCEPT ![call[c].service] = {}]
      /\ handlers' = [k \in Keys |-> IF k \in keys THEN Nil ELSE handlers[k]]
      /\ stale' = stale \ keys
      /\ torn' = torn \cup {k \in Keys : Rehandled(k)}
                      \cup {k \in {router[i].name : i \in DOMAIN router} :
                              CloneUnderWay /\ handlers'[k] = Nil}
      /\ UNCHANGED <<routeVars, loaded, start, bridged, setting, middlewareVars, httpVars>>

\* The bridges of an announcement are set one after the other.
SetHttpChannelBridge(c) ==
  LET todo == setup[c].todo
  IN  /\ setup[c].at = (IF setup[c].override THEN "setting" ELSE "new")
      /\ todo # <<>>
      /\ SetBridge(c, call[c].service, Head(todo))
      /\ setup' = [setup EXCEPT ![c].todo = Tail(todo),
                                ![c].at = IF Len(todo) = 1 THEN "done" ELSE @]
      /\ UNCHANGED <<routeVars, routerVars, middlewareVars, stale, httpVars>>

Announced(override, todo) ==
  [at |-> "new", override |-> override, todo |-> todo, clone |-> 0]

AnnounceBridges(c) ==
  /\ Announce(c)
  /\ setup' = IF call[c].service \in registered
              THEN [setup EXCEPT ![c] = Announced(FALSE, BridgesOf[call[c].service])] ELSE setup
  /\ UNCHANGED <<routerVars, mapVars, middlewareVars, torn, stale, httpVars>>

OverrideRESTBridgeConfig(c, s, b) ==
  /\ s \in registered
  /\ Make(c, "override", s, "done")
  /\ setup' = [setup EXCEPT ![c] = Announced(TRUE, <<b>>)]
  /\ UNCHANGED <<registered, channels, fabric, pending, handles, routed, overtaken,
                 routerVars, mapVars, middlewareVars, torn, stale, httpVars>>

\* SetHttpChannelBridge and SetHttpPathPrefixChannelBridge by the application;
\* without the channel the call changes nothing.
BridgeByHand(c, s, b) ==
  /\ s \in bridged \cup channels
  /\ Make(c, "bridge", s, "done")
  /\ SetBridge(c, s, b)
  /\ UNCHANGED <<registered, channels, fabric, pending, handles, routed, overtaken, setup,
                 routerVars, middlewareVars, stale, httpVars>>
-----------------------------------------------------------------------------
(***************************************************************************)
(* loadGlobalHttpHandler, which takes the mutexes of the middleware        *)
(* manager and of the registry: by an override, with its clone, and by     *)
(* StartServer, which reads the router first.                              *)
(***************************************************************************)
\* A middleware call is under the mutex of the middleware manager.
Rewiring == \E c \in Calls : call[c].at \in {"checked", "written"}

LoadGlobalHttpHandler(c) ==
  /\ Unlocked /\ ~Rewiring
  /\ setup[c].at = "cleared"
  /\ loaded' = setup[c].clone
  /\ setup' = [setup EXCEPT ![c].at = "setting", ![c].clone = 0]
  /\ UNCHANGED <<routeVars, routers, start, mapVars, middlewareVars, torn, stale, httpVars>>

ReadRouter ==
  /\ start.at = "off"
  /\ start' = [at |-> "read", router |-> loaded]
  /\ UNCHANGED <<routeVars, setup, routers, loaded, mapVars, middlewareVars, torn, stale, httpVars>>

\* What has been changed since in the router is lost.
LoadAtStart ==
  LET RoutesNamed(r, k) == {routers[r][i] : i \in {j \in DOMAIN routers[r] : routers[r][j].name = k}}
  IN  /\ Unlocked /\ ~Rewiring
      /\ start.at = "read"
      /\ loaded' = start.router
      /\ start' = [start EXCEPT !.at = "done"]
      /\ torn' = torn \cup {k \in Keys : RoutesNamed(start.router, k) # RoutesNamed(loaded, k)}
      /\ UNCHANGED <<routeVars, setup, routers, mapVars, middlewareVars, stale, httpVars>>
-----------------------------------------------------------------------------
(***************************************************************************)
(* MiddlewareManager: a route is fetched by its name, then wrapped or      *)
(* stripped; handlers are looked up by the name.  A call holds the mutex   *)
(* of the manager while it reads the handler, writes it and tells the      *)
(* route; the registry may change the map and the route in between.        *)
(***************************************************************************)
MiddlewareStep(c, at) ==
  /\ Proceed(c, at)
  /\ UNCHANGED <<registered, channels, fabric, pending, handles, routed, overtaken, setup,
                 loaded, start, endpoints, bridged, setting, httpVars>>

GetRoute(c, kind, k) ==
  /\ ~Rewiring
  /\ Named(router, k) # 0
  /\ Make(c, kind, None, "fetched")
  /\ fetched' = [fetched EXCEPT ![c] = [key |-> k, router |-> loaded, index |-> Named(router, k),
                                        handler |-> Nil]]
  /\ UNCHANGED <<registered, channels, fabric, pending, handles, routed, overtaken, setup,
                 routerVars, mapVars, originals, torn, stale, httpVars>>

\* The handler is there, and is kept if there was no middleware before.
SetNewMiddleware(c) ==
  LET k == fetched[c].key
  IN  /\ ~Rewiring
      /\ call[c].at = "fetched" /\ call[c].kind = "wrap"
      /\ handlers[k] # Nil
      /\ originals' = [originals EXCEPT ![k] = IF @ = Nil THEN handlers[k] ELSE @]
      /\ fetched' = [fetched EXCEPT ![c].handler = handlers[k]]
      /\ MiddlewareStep(c, "checked")
      /\ UNCHANGED <<routers, handlers, torn, stale>>

RemoveMiddleware(c) ==
  LET k == fetched[c].key
  IN  /\ ~Rewiring
      /\ call[c].at = "fetched" /\ call[c].kind = "unwrap"
      /\ handlers[k] # Nil
      /\ fetched' = [fetched EXCEPT ![c].handler = handlers[k]]
      /\ MiddlewareStep(c, "checked")
      /\ UNCHANGED <<routers, handlers, originals, torn, stale>>

\* There is no handler under the name any more.
RefuseMiddleware(c) ==
  /\ ~Rewiring
  /\ call[c].at = "fetched"
  /\ handlers[fetched[c].key] = Nil
  /\ fetched' = [fetched EXCEPT ![c] = NotFetched]
  /\ MiddlewareStep(c, "done")
  /\ UNCHANGED <<routers, handlers, originals, torn, stale>>

\* The handler that was seen is wrapped, or the original one comes back: that
\* of an earlier registration, perhaps, or none.
Rewired(c) ==
  LET original == originals[fetched[c].key]
  IN  IF call[c].kind = "wrap" THEN [fetched[c].handler EXCEPT !.layers = @ + 1]
      ELSE IF original = Nil THEN Broken ELSE original

\* The map is written, whatever has become of the endpoint since the check.
WriteHandler(c) ==
  LET k == fetched[c].key
      seen == fetched[c].handler
  IN  /\ call[c].at = "checked"
      /\ handlers' = [handlers EXCEPT ![k] = Rewired(c)]
      /\ fetched' = [fetched EXCEPT ![c].handler = Rewired(c)]
      /\ torn' = torn \cup {l \in {k} : handlers[k] # seen \/ fetched[c].router # loaded \/ CloneUnderWay}
      /\ stale' = stale \cup {l \in {k} : /\ call[c].kind = "unwrap"
                                          /\ originals[k] = Nil \/ originals[k].builder # seen.builder}
      /\ MiddlewareStep(c, "written")
      /\ UNCHANGED <<routers, originals>>

\* A mistake: the route is not told of its new handler.
LeaveRoute(c) ==
  /\ call[c].at = "written"
  /\ fetched' = [fetched EXCEPT ![c] = NotFetched]
  /\ MiddlewareStep(c, "done")
  /\ UNCHANGED <<routers, handlers, originals, torn, stale>>

RouteHandler(c) ==
  LET route == fetched[c]
  IN  /\ call[c].at = "written"
      /\ routers' = [routers EXCEPT ![route.router] = SetHandler(@, route.index, route.handler)]
      /\ fetched' = [fetched EXCEPT ![c] = NotFetched]
      /\ MiddlewareStep(c, "done")
      /\ UNCHANGED <<handlers, originals, torn, stale>>
-----------------------------------------------------------------------------
(***************************************************************************)
(* buildEndpointHandler: an HTTP request, and the responses of services.   *)
(***************************************************************************)
\* Requests to s whose response may still come, or that wait for one.
Open(s) == {h \in Requests : request[h].service = s /\ (request[h].at = "waiting" \/ request[h].owed)}

\* Request h to s: its response will not be the only one, or not the first.
AsksFor(h, s, at) ==
  /\ request[h] = Unsent
  /\ request' = [request EXCEPT ![h] = [at |-> at, service |-> s,
                                        owed |-> s \in registered, got |-> None]]
  /\ mixed' = mixed \cup {t \in {s} : Open(s) # {} \/ payload[s] # <<>>}
  /\ UNCHANGED <<routeVars, bridgeVars, payload>>

\* The HTTP server is up before the endpoint is made and is shut down before
\* the endpoint is stopped.
Serving == start.at = "done" /\ fabric \in {"off", "set", "on", "failing"}

SendRequest(h, method, path) ==
  LET answer == Dispatch(router, method, path)
  IN  /\ Serving
      /\ answer.code = 200 /\ answer.handler.service # None
      /\ AsksFor(h, answer.handler.service, "waiting")

\* A client of the fabric asks the service.
BridgeMessage(h, s) == s \in registered /\ AsksFor(h, s, "foreign")

\* A mistake: one payload channel for all services.
AnswersIntoOne(h) == CHOOSE s \in Services : bridged # {} => s \in bridged

\* The service whose payload channel takes the response to a request.
AnswersInto(h) == request[h].service

\* SendResponse of the service, and the handler of the response stream, which
\* hears every response on the channel, those to clients of the fabric as well,
\* and waits for room; the service answers a request once, or never.
SendResponse(h) ==
  LET s == AnswersInto(h)
  IN  /\ request[h].owed
      /\ s \in bridged => Len(payload[s]) < PayloadCap
      /\ payload' = [payload EXCEPT ![s] = IF s \in bridged THEN Append(@, h) ELSE @]
      /\ request' = [request EXCEPT ![h].owed = FALSE]
      /\ UNCHANGED <<routeVars, bridgeVars, mixed>>

ReceiveResponse(h) ==
  LET s == request[h].service
  IN  /\ request[h].at = "waiting"
      /\ payload[s] # <<>>
      /\ payload' = [payload EXCEPT ![s] = Tail(@)]
      /\ request' = [request EXCEPT ![h].got = Head(payload[s]), ![h].at = "done"]
      /\ UNCHANGED <<routeVars, bridgeVars, mixed>>

TimeOut(h) ==
  /\ request[h].at = "waiting"
  /\ request' = [request EXCEPT ![h].at = "done"]
  /\ UNCHANGED <<routeVars, bridgeVars, payload, mixed>>
-----------------------------------------------------------------------------
\* StartServer makes the endpoint after it has loaded the router.
EndpointStep == (fabric = "off" => start.at = "done") /\ ServerStep

RegistryStep ==
  /\ \/ \E c \in Calls, s \in Services : Register(c, s) \/ Unregister(c, s)
     \/ \E c \in Calls : RouteStep(c)
     \/ EndpointStep
  /\ UNCHANGED <<bridgeVars, httpVars>>

Next ==
  \/ RegistryStep
  \/ PublishRoute \/ SetRouteHandler \/ ReadRouter \/ LoadAtStart
  \/ \E c \in Calls : \/ AnnounceBridges(c) \/ Clear(c) \/ LoadGlobalHttpHandler(c)
                      \/ SetHttpChannelBridge(c)
                      \/ SetNewMiddleware(c) \/ RemoveMiddleware(c) \/ RefuseMiddleware(c)
                      \/ WriteHandler(c) \/ RouteHandler(c)
  \/ \E c \in Calls, s \in Services : \E b \in OverridesOf[s] : OverrideRESTBridgeConfig(c, s, b)
  \/ \E c \in Calls, s \in Services : \E b \in ByHandOf[s] : BridgeByHand(c, s, b)
  \/ \E c \in Calls, k \in Keys : GetRoute(c, "wrap", k) \/ GetRoute(c, "unwrap", k)
  \/ \E h \in Requests, m \in Methods, p \in Paths : SendRequest(h, m, p)
  \/ \E h \in Requests : SendResponse(h) \/ ReceiveResponse(h) \/ TimeOut(h)
  \/ \E h \in Requests, s \in Services : BridgeMessage(h, s)

Spec == Init /\ [][Next]_vars
-----------------------------------------------------------------------------
\* While no clone of the router is under way, the router has a route for an
\* endpoint exactly when endpointHandlerMap has a handler, and a request with
\* a method of the endpoint is given that handler, unless another route of the
\* same path has the method, too (GET stands before HEAD of a prefix, and
\* refuses it); an endpoint takes no other method, if its handler can be told
\* from others (router.go:102-120, 285-299); and the handler is that its own service
\* has registered (rest_bridge_registry.go:85-139).  An endpoint that set, or
\* a middleware call, is at is not looked at before it is done.  Exempt for
\* good are the endpoints that were changed in the middle of another change
\* (torn): set or wrapped while a clone without them was under way; cleared or
\* set anew within a middleware call, or wrapped by way of a route of an
\* earlier router; wrapped within set; changed between the router that
\* StartServer had read and the one it put away.  From the last part those are
\* exempt, too, whose middleware was removed after they had been registered
\* again, or without having been set (stale).
EndpointsAreServed ==
  ~CloneUnderWay =>
    \A k \in Keys \ torn :
      LET routes == {i \in DOMAIN router : router[i].name = k}
          takes(i, m) == router[i].methods = {} \/ m \in router[i].methods
          others(m) == {i \in DOMAIN router \ routes :
                          router[i].path = k.path
                            /\ (m \in router[i].methods \/ (m = "HEAD" /\ "GET" \in router[i].methods))}
      IN  setting.key # k /\ ~Rehandled(k) =>
            /\ routes # {} <=> handlers[k] # Nil
            /\ \A i \in routes, m \in Methods :
                 /\ takes(i, m) => \/ Dispatch(router, m, k.path) = Answer(200, handlers[k])
                                   \/ others(m) # {}
                 /\ ~takes(i, m) /\ handlers[k].bridge = k =>
                      Dispatch(router, m, k.path).handler # handlers[k]
            /\ routes # {} /\ k \notin stale =>
                 handlers[k].bridge = k /\ k \in endpoints[handlers[k].service]

\* A response is given to one HTTP request at most, of the service that sent
\* it; and to the request it answers, as long as the service has never had two
\* requests open at a time, over HTTP or by a client of the fabric, or a
\* response nobody waited for (rest_bridge_registry.go:164,
\* endpointer_handler_factory.go:38-44).
OwnAnswer ==
  \A h \in Requests :
    request[h].got # None =>
      /\ request[h].got # h => request[h].service \in mixed
      /\ request[request[h].got].service = request[h].service
      /\ \A g \in Requests \ {h} : request[g].got # request[h].got
=============================================================================
