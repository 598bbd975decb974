# ranch in TLA+

This directory is the verification project kept beside `pb33f/ranch`: a Go
event bus with transactions, replicated stores, a STOMP server, a fabric
endpoint that joins the two, a client bridge to an external broker, a service
registry, and `plank`, the HTTP server built on top. The modules below are
translated from the source; every definition that stands for code is listed
with its lines in `PROJECT.json` (`map`).

## 1. Inventory

| component | state it keeps | operations | who calls it |
|---|---|---|---|
| bus channel (`bus/channel.go`) | copy-on-write handler list, `fired` flags, activity (`next`, `outstanding`), wait group, broker subscriptions | subscribe, unsubscribe, send, prune, begin/end, `WaitForChannel` | every goroutine of the application, and handler callbacks themselves |
| message handler (`bus/message_handler.go`, `wrapMessageHandler`) | subscription id, `closed`, `setupOnce`, `invokeOnce`, handler context | `Handle`, `Close`, `Fire` | application, `tx`, `fabric`, `store`, `plank` |
| channel manager (`bus/channel_manager.go`) | copy-on-write map of channels | create, destroy, look up, (un)subscribe by NAME, mark galactic/local | application, fabric, services |
| monitor (`bus/eventbus.go`, `monitor/`) | listeners per event type | add, remove, send (synchronous callbacks) | channel manager, stores, fabric |
| transaction (`bus/tx`) | state, completed count, responses | add request, commit, cancel, success, error | application; bus callbacks |
| store (`store/store.go`, streams) | items, version, ready channel, streams | put, remove, populate, mutate, reset, initialise, subscribe | application; galactic responses |
| store sync (`store/store_sync_service.go`, galactic store) | open stores and listeners per client channel; the replica at the client | open, close, update, content and update responses | STOMP clients through the fabric |
| STOMP server (`stompserver/`) | connection map, subscription map, two bounded event queues, per-connection queues | accept, connect, subscribe, send, disconnect, close, stop | clients, fabric endpoint |
| fabric endpoint and router (`transport/fabric`) | channel mappings, subscription index, routes | add/remove subscription, forward, bridge a message, register/close a route | STOMP server callbacks; application |
| broker bridge (`bridge/`, galactic channels) | broker connection, its subscriptions, channel broker subscriptions | connect, subscribe, unsubscribe, receive, disconnect | channel manager |
| service registry and core (`service/`) | registered services, lifecycle | register, unregister, initialise, REST calls | plank, application |
| plank server (`plank/pkg/server`) | HTTP routes, message bridges, pending routes, status | start, stop, register, REST-to-bus bridge | operator, HTTP clients |
| HTTP router, rate limiter, error policies (`plank/pkg/server/...`) | routes, visitors | add, clone, match, allow, clean up | plank |
| configuration, TLS, static files, CLI, bench, test harness | — | pure I/O | — |

The parts interact in four ways: messages on channels (asynchronous: one
goroutine per message), synchronous monitor events, synchronous callbacks of
the STOMP server into the fabric endpoint, and shared maps under mutexes. What
is hard: callbacks that re-enter the component that called them, state looked
up by name after it was looked up by object, bounded queues between loops that
feed each other, timeouts that drop events, work that continues after the
operation it belongs to was aborted.

What makes each component correct:

* channel: a run-once handler is called once; a nil `FireContext` means the
  dispatches since its watermark are over; no call blocks forever.
* message handler: a once-handler is invoked once; a closed handler leaves no
  subscription behind; every callback returns.
* transaction: exactly one outcome; completion exactly when every request has
  its response; a sync transaction sends requests one after the other.
* store: versions only grow; the last notification agrees with the content;
  whoever waits for readiness is told; an unsubscribed stream is silent.
* store sync: the service answers the clients that have a store open and no
  others; a replica converges to the store it mirrors.
* STOMP server: the server's maps agree with the connections'; every
  subscription that was announced is withdrawn; a stop closes everything.
* fabric: a response is forwarded once; a mapped channel has a listener;
  nothing listens for a channel nobody uses.
* bridge: a galactic channel has one live broker subscription and a local one
  has none; messages arrive once and in order; no closed channel is closed.
* plank: a registered service has one route and the others none; an endpoint is
  served by the handler it was registered with; an HTTP request is answered
  with its own response.

## 2. Modules and the code they model

`PROJECT.json` names the lines of every definition; this section says how to
read the state.

### BusChannel (`bus/channel.go`, `FireContext` in `bus/message_handler.go`)

Actors are the goroutines that may call into the channel: the publishers and
the dispatch goroutines, whose callbacks may send, fire and wait as well.
`pc` is the control point of an actor; `"idle"` is a publisher outside a call,
or a dispatch inside a callback. The handler list is a set of numbers, since
handlers are appended and removals keep the order.

| code | model |
|---|---|
| `dispatchContext`: load the list, one compare-and-swap per run-once handler, stop at a canceled context, prune, start the goroutine | `Send`/`Load`, `Claim`, `StopScan`, `Prune`, `Begin` or `BeginNothing` |
| `channelActivity.next`, `outstanding` | `next`, `outstanding`; a dispatch goroutine is named by its sequence number |
| `sendMessageToHandlers` with the deferred `wg.Done` and `activity.end` | `EnterHandler`, `ReturnFromHandler`, `FinishDispatch`, `EndDispatch` |
| `watermark`, `waitQuiescentAfter` with its condition variable and `context.AfterFunc` | `Fire`, `Await`, `Recheck`, `Cancel`, `CancelWakeup` |
| `WaitForChannel` (`wg.Wait`) | `WaitForChannel`, `WaitDone` |
| `subscribeHandler`, `unsubscribeHandler` (under `channelLock`) | `Subscribe`, `Unsubscribe` |

The steps that hold a lock are one step; everything the code does between two
locks or atomic operations may interleave.

### MessageHandler (`bus/message_handler.go`, `wrapMessageHandler`)

A listener holds the channel *object* it was created with and subscribes by
channel *name*; `current` is the object of the name, `created` counts objects.
`HandleContext` is two steps (`HandleSubscribe`, then `HandleStore` under
`closeMu`), so is `Close` (`Close`, then `Unsubscribe`). A dispatch visits its
listeners: `Skip`, `CloseExpired`, or `EnterCallback` inside `invokeOnce.Do`,
then `ReturnFromCallback`, `UnsubscribeOnce` and `ReleaseOnce`. A second
dispatch at a running once-listener has no step: it is blocked in the `Do`.

This module uses the channel as `BusChannel` shows it to be: a `FireContext`
returns when no dispatch begun on its object after the watermark is alive
(theorem `FireIsQuiescent`).

### TransactionSpec and Transaction (`bus/tx/transaction.go`)

`TransactionSpec` is the promise of the type's comments: requests are added, a
transaction is committed, collects one response per request and completes with
the last, or aborts; a synchronous one is answered in order. `Transaction` is
the code: `exec[r]` is how far `executeRequest` has come for request `r`,
`answer[r]` is its listener and the callback that is running, `cursor` is the
goroutine that commits an asynchronous transaction. A callback closes its
listener first and takes the lock of the transaction afterwards, hence two
steps. The context, a failing send, responses, errors of responders, errors of
others on the same channel and stores that become ready all race. `Promise`
is the refinement mapping: `size <- requests`, `status <- state`,
`answered <- responses`.

### StompServer (`stompserver/server.go`, `stompserver/stomp_connection.go`)

| code | model |
|---|---|
| `run` of the server, and what handling one API event takes | `loop`, `work`: `TakeSend`/`Deliver`, `TakeKick`/`Kick`, `TakeCloseServer`, `HandleConnectionEvent` |
| `waitForConnections`, `sendConnectionEvent` | `acceptor`, `newcomer`: `Accept`, `CheckRunning`, `Announce`, `Refuse`, `AcceptorEnds` |
| `stompConn.run` and the frame handlers | `goroutine[c]`: `Connect`/`Connected`, `Subscribe`, `Unsubscribe`, `Send`, `Leave`, `TakeFrame`/`Written` |
| `sendEvent` with its five seconds | `SendEvent`, `SendEventGivesUp` |
| `Close` (`sync.Once`) and `sendConnectionClosed` | `Close`, `ReportClosed`, `ClosedTimesOut` |
| `Stop` | `Stop`, `QueueCloseServer` |
| a listener after its `Close` | `CloseEndsAccept`: `AcceptorEnds`, or `Accept` as before |
| `connectionsMap`, `subscriptionsMap`; `stompConn.subscriptions` | the variables of those names |

What a client has sent is left open: a connection that reads finds any frame
or the end of the stream. A timer may fire whenever what it guards is not
possible (there is no room), never otherwise.

### Store (`store/store.go`, the two streams)

`Put`, `Remove` commit version and item in one step, then their goroutine
copies the list of streams (`CopyStreams`) and for each reads the handler under
the stream's lock (`ReadHandler`) and calls it without (`Call`). Subscribing
sets the handler and registers the stream in two steps, unsubscribing clears
and deregisters in two. `Without` is the removal of `onStreamUnsubscribe`,
which moves the last stream into the gap. `readyC` numbers the ready channels
a `Reset` replaces. A stream stands for its owner as well: it reads all values
with the version once the store is ready (`ReadAll`, `AllValuesAndVersion`) and
keeps the newest value of every item, which is what `StoreVersion` is for.

### StoreSync (`store/store_sync_service.go`, `store/store_manager.go`, the galactic half of `store/store.go`)

One store id, its store at the server, and a galactic store at every client.
`wire[c]` are the frames of a client: they arrive in order, and `Receive` takes
one, as the loop of the STOMP server does. From there nothing is ordered: the
bus starts a goroutine for every request (`handling`, taken in any order) and
for every response (`responses`, `TakeResponse`).

A store object is known to more than the manager: to a request that has looked it
up (`found`), to a WhenReady callback, to a change on its way to the stream, and
the manager may have destroyed it since. What a `Reset` leaves of it is a new
incarnation in `stores`, without items, streams, versions and with a `readyC` of
its own; `now` leads from an incarnation to the one its object has become. Versions
count in an incarnation, and `current` is that of the store the manager has.

| code | model |
|---|---|
| `CreateStore`, `DestroyStore` of the manager, `Put`, `Remove`, `Populate`, `Initialize`, `Reset`, the notification of a change | the actions of those names, `Notify` |
| `manager.GetStore` in `openStore` and `updateStore`, before any lock | `LookUp`, `FindNone` |
| `openStore` under the lock, its `WhenReady` callback, `closeStore`, `updateStore` | `OpenStore`, `SendContent`, `CloseStore`, `UpdateStore` |
| the monitor listener of the service (channel subscribed, unsubscribed, closed) | part of `Receive`: `OpenChannel`, `CloseClientSyncChannel`, `CloseChannel`; `syncClients`, `openStores`, `listener` |
| galactic `OpenStore`, `Reset`, `OnDestroy`, `Put`, `Remove` | `OpenGalacticStore`, `ResetGalactic`, `OnDestroy`, `PutGalactic`, `RemoveGalactic` |
| the response handler: content, then `Initialize` | `TakeResponse`, `InitializeGalactic` |

### Fabric (`transport/fabric/endpoint.go`, `transport/fabric/router.go`)

One bus channel. `loop` is what the loop of the STOMP server does: it holds
`chanLock` in `addSubscription` while it looks for a route and installs the
fallback (`AddToMapping`, `LookForRoute` or `LookForNoRoute`,
`ListenForFallback`, `HandleFallback`, `AddMapping`), and removes a subscription
in one step. A registration publishes its route, takes over the mapping,
closes the fallback it has detached and subscribes its own stream, each under a
lock of its own (`ListenRoute` to `FinishRegister`, control point `pc[r]`),
against `CloseRoute`, `CloseRouter`, `StopServer` and `DestroyChannel`. A
forwarder is a listener of MessageHandler: a response is handed to the
forwarders that listened when it was sent, and each is called later
(`Deliver`), closed or not.

### BrokerBridge (`bridge/`, galactic channels in `bus/channel.go`, `bus/channel_manager.go`)

One connection and one destination; `transport` says whether frames come
through one goroutine and a handler (WebSocket) or through a goroutine per
subscription (TCP). Threads of the application call `MarkGalactic`,
`MarkLocal`, `RequestResponse`; `op[t]` is how far a call is. A mark of a channel
is one step and what follows from it others: `CheckSubscribed`, `Lookup`,
`MakeSubscription`, `AddSubscription` after `SetGalactic`, `CloseSubscriptions`
and `Unsubscribe` after `SetLocal`, so a contrary mark may come between. The
connection keeps the subscription of the destination (`cached`), the client keeps it by destination (`mapped`), and it is
alive as long as its Go channel is `open` and the broker serves it (`active`).
That Go channel has no buffer: `offered` is the message its sender waits with.
When a connection over TCP ends, or the broker sends an ERROR frame, the library
ends every subscription with an error message (`EndSubscriptions`), which is
passed on as an empty one; and a subscription it refuses to make is used all the
same, which panics (`FailSubscription`, `connection.go:174-177`).
`listener` is the goroutine that passes messages on to the bus channel.

### HttpRouter, ServiceRoutes, PlankServer (`plank/pkg/server`, `plank/pkg/routing`, `plank/pkg/middleware`, `service/`)

`HttpRouter` is the algorithm of the router: a router is the sequence of its
routes, patterns go to the first route that registers them, and `Dispatch`
answers a request as `ServeMux` with the router's check of methods does.

`ServiceRoutes` are the services: `Register` and `Unregister` take the lock of
the registry (`registered`) and then `routeMu` (`pending`, `handles`, `routed`),
so that calls for one service overtake each other; `SetEndpoint`,
`DrainPendingRoutes`, `CloseRouter`, `DropEndpoint` are the start and the stop.
A route here stands for one whole registration of Fabric.

`PlankServer` extends both. A call that announces bridges
(`AnnounceBridges`, `OverrideRESTBridgeConfig`) leaves a `setup`, the goroutine
of the bus that handles the announcement: `Clear` makes a clone of the router
without the endpoints of the service, `LoadGlobalHttpHandler` puts it in place,
and `SetHttpChannelBridge` sets one endpoint after the other; `BridgeByHand` is the
application that sets one, exactly or as a prefix. `routers` are all the routers
that were made, and `loaded` says which one serves; `StartServer` reads the
router and puts it in place again later (`ReadRouter`, `LoadAtStart`;
`server.go:193`).

The registry of bridges and the middleware manager change the map of the handlers
and the routes under a mutex each. What one of them does under its own mutex is
split wherever the other one may come between:

* `set` enters the endpoint in the maps (`SetBridge`), then adds the route with its
  path, methods and name and reads the handler (`PublishRoute`), then gives the
  route that handler (`SetRouteHandler`; `rest_bridge_registry.go:174-195`);
  `setting` says how far it is;
* a middleware call fetches the route without a mutex (`GetRoute`), then looks at
  the map (`SetNewMiddleware`, `RemoveMiddleware`, or `RefuseMiddleware` when the
  handler has gone), writes it (`WriteHandler`), and tells the route
  (`RouteHandler`; `middleware_manager.go:71-84`, `103-113`).

Two steps stay whole. `ClearForService` (`Clear`) holds the mutex of the registry
and changes the map in one loop: a middleware call at work on one of its keys
comes before or after it, which the steps of the call show, and which of two
keys goes first is told apart by nobody, for a call is about one key. The
replacement of the router takes both mutexes. The access of two goroutines to one Go
map at the same time is a data race and not modelled (see the hazards).

`SendRequest`,
`ReceiveResponse` and `TimeOut` are HTTP requests: all of a service take
responses from one Go channel, `payload`, which hears those to clients of the
fabric (`BridgeMessage`) as well.

### History variables

Some properties are about what the code achieves as long as something it gives
up on does not happen. The model records when it does, and the properties say
which cases they leave out:

* `lost` (StompServer): an event of the connection timed out;
* `cutOff`: another goroutine closed the connection; `cleaned`: its
  ConnectionClosed was handled;
* `overlapped` (Store): the owner subscribed and unsubscribed a stream at the
  same time; `mixed`: a `Reset` came while a change was being notified;
* `owed`, `reached`, `doubled`, `silent`, `view`, `synced`: what a stream is
  entitled to and has had;
* `overtaken` (StoreSync): a request of the client was handled after a later
  one; `reordered`: the client took responses out of order; `refused`: it opened
  a store there was not, or that was destroyed or reset while it did; `silent`:
  the incarnation was populated after its content was told (`told`) or changed;
  `interrupted`: a replica was reset while content was taken;
  `cut`: it left its channel; `newest`, `seen`: the newest response it has had;
* `orphaned`, `abandoned` (Fabric): the channel was destroyed under the route, or
  the mapping lost its route; `overlap`: a forwarder was left when the next came;
* `shared` (BrokerBridge): the connection has handed a subscription out again;
  `raced`: two goroutines made one each; `crossed`: a channel was marked galactic
  and local at a time; `refused`: a subscription was used that was not made;
* `overtaken` (ServiceRoutes): the service was unregistered within its own
  `RegisterService`; `torn` (PlankServer): the endpoint was changed in the
  middle of another change: set or wrapped while a clone was under way, cleared
  or set within a middleware call, wrapped within `set` or by way of a route of
  an earlier router, or between the router that the start had read and the one it
  replaced; `stale`: it was given a handler that is not its own;
  `mixed`: the service had two answers to choose from.

Each stands for something the code does, which the comment of the property
names; a property with its exemption removed is violated by a run.

## 3. Runs

| run | question | instance and why it is enough |
|---|---|---|
| `bus_channel` | channel safety and liveness | two publishers, two handlers of either kind, two calls, two dispatches, one cancellable context, one waiter: the second call may come from the other publisher or from the callback of the first dispatch, so races for one run-once handler, nested fires and a wait against a later dispatch all occur. The invariants are proved for all values |
| `message_handler` | leaks and doubled calls | a once-listener with a request to fire and a server, messages and errors for another destination, two channel objects, two dispatches: Close against Handle, destroy and re-create, two dispatches at one once-listener |
| `message_handler_nested_fire` | does every callback return that fires a request | violated, finding 1 |
| `transaction_async` | outcomes, completion, refinement | three requests, of which one waits for a store and two share a channel: the smallest with a first, a middle and a last request |
| `transaction_sync` | order and progress | the same for the other type: `Decides` says that a committed transaction whose responders answer is decided, and that a done context closes every listener for good |
| `stomp_server` | maps, subscriptions and progress | one connection, two subscriptions with one id, every queue of one place, five frames, two API calls, kicks. Capacities of one reach the full queue at once; the loop and the maps keep each connection apart, so what one connection does with the loop is the interesting part. A TCP listener, so that the acceptor can end |
| `stomp_server_stop_closes_all` | does Stop close all connections | violated, finding 2; a WebSocket listener |
| `store` | streams, versions, readiness | two goroutines, two change streams and a mutation stream, one item, five calls, one reset, one caller of WhenReady; five calls are subscribe, subscribe, put, unsubscribe and one more, which covers a list that changes while it is read. Goroutines are alike and the two change streams are; no property of this run is about liveness, so symmetry is sound |
| `store_sync` | whom the service serves, and what becomes of the replicas | two clients alike, four frames in all: one may subscribe, open, leave and come back, or both may have the store open. Two incarnations, so that the store is destroyed and created again, or reset; one item, one change, one frame of a client under way. Requests of a client overtake each other with two frames, responses with two. What comes after requests were handled out of order is not explored (`InOrder`, a state constraint): by then the client has sent three frames, and nobody else can open the store any more |
| `fabric` | who forwards a response | two clients, two routes, two fallbacks (one attached, one being detached), one response, one destroyed channel: a registration meets the subscription of a client, the close of the other route, the close of the router and the destruction of the channel. Clients, routes and fallbacks are alike |
| `broker_bridge` | which listener serves which channel, what arrives, and what panics | two channels, two threads, three calls (mark, mark of another or of the same channel, and local again), two messages, an ERROR frame, either transport. The second call is the first that may get a subscription of the first, the third the first that may meet its end |
| `plank` | routes of services, the endpoint's handler, whose response a request is given | two services with a `GET` bridge on one path, that of the second with `HEAD` and `OPTIONS`; an override of the second may ask for the same again, and the application may set a prefix of the path by hand; the methods GET, HEAD and OPTIONS, of which the first service's endpoint takes only the first; three calls (register, an override or a bridge by hand, and middleware put on or taken off; or register, unregister and register again) and two requests over HTTP or by a fabric client, at most four of them together (`MaxAsked`, a state constraint): a middleware call meets the clearing, the setting anew and the replacement of the router at each of its steps, and `set` meets a middleware call at each of its own. The start reads the router before or after an override. Payload channels have one place: a response nobody waits for, one for a fabric client and one after a timeout, in any order. Calls are alike, and so are requests |

The properties of the runs with symmetry are invariants: no run uses it for
liveness.

Every bound has a name: `MaxHandlers`, `MaxCalls`, `MaxSends`, `MaxObjects`,
`MaxRequests`, `MaxFrames`, `MaxResets`, `Budget` (frames of one client),
`MaxWire`, `MaxChanges`, `MaxDestroyed`, `MaxFaults`, `MaxAsked`, and the sets `Dispatch`,
`Goroutines`, `Fallbacks`, `Messages`, `Routes`, `Calls` and `Requests`.
Capacities of the code that are made smaller are `EventQueue`, `ApiQueue`,
`OutQueue` and `PayloadCap`. A bound stops a caller from starting something,
never a goroutine from going on, except that `Begin` of BusChannel needs a
sequence number: `Dispatch` has as many as `MaxCalls` permits.
`CHECK_DEADLOCK FALSE` is said everywhere, for a program whose callers have no
more calls to make stops.

### Fairness

Nothing is assumed of callers, clients or responders. Assumed is that the Go
scheduler runs a goroutine that can run, that a callback returns once its own
calls have and that a timer fires. A write to a socket is not assumed to end:
no write deadline is set (`stomp_connection.go:286`), so it hangs for as long as
the client does not read and nobody closes the connection:

* BusChannel: `Progress(a)` and `GoroutineStep(d)`;
* MessageHandler (for `message_handler_nested_fire`): the started calls
  (`HandleStore`, `Unsubscribe`, `FireReturns`) and the dispatches;
* Transaction: `WatchContext` and `Internal(r)`. That responders answer and
  stores become ready is a premise of `Decides`, not an assumption of the
  specification;
* StompServer: `Acceptor`, `Loop`, `QueueCloseServer`, `Goes(c)`, a write to a
  connection that is closed, a goroutine that finds its state closed, and the
  goroutine left behind by `Close`. That other writes end, those of `Writes(c)`
  and the one of `Kick`, is the premise `ClientsRead` of the two liveness
  properties. It is needed: the loop waits for room in `outFrames`
  (`stomp_connection.go:194`) of a client that does not read, and with the loop
  every other client and `Stop` wait. `CloseEndsAccept` says which listener the
  server has: `Accept` of a closed TCP listener fails, the one of the WebSocket
  listener goes on waiting for an upgrade
  (`websocket_connection_listener.go:301-308`), and the acceptor with it.

All of it is weak fairness. The other modules state none: their properties are
about what is so whenever nothing is on its way (`Quiet`, `LoopFree`), and
BrokerBridge has states in which the code hangs.

### Findings

1. `FireInCallbackReturns`: a once-listener runs its callback inside
   `invokeOnce.Do`. If the callback fires a request on the same channel while
   another publisher sends a message the listener hears, that dispatch waits
   for the `Do`, `FireContext` waits for that dispatch and the callback waits
   for `FireContext`. `message_handler.go:135-136` says that concurrent
   publishers can keep sending independently.
2. `StopClosesAll`: `closeServer` closes the connections in `connectionsMap`.
   A connection whose ConnectionStarting is still queued is not there and stays
   open after the server has ended (`server.go:414`).

Seen while modelling, and not the subject of a run:

* the goroutines of a connection run before its ConnectionStarting is queued
  (`server.go:390`), so the loop may enter a connection that is already closed;
* a ConnectionClosed for which there is no room for five seconds is dropped
  (`stomp_connection.go:220-262`), and the server keeps the subscriptions;
* an error for any request of a channel aborts every transaction that listens
  on the channel (`eventbus.go:479`; `cause = "foreign"`);
* who called `WhenReady` before a `Reset` of a store that was not initialised
  is never told (`store.go:585`);
* `Populate` of a store that is empty, initialised or not, or has become empty
  again, changes it without a version and without a notification
  (`store.go:327`): the galactic stores of clients that opened it before stay
  empty (`silent`);
* `Reset` of a store at the server takes the stream of the sync service away
  (`store.go:585`), and the listener the service keeps is never called again: who
  opens the store has its content and no update (`Served`);
* `openStore` asks the manager before it takes the lock of the service
  (`store_sync_service.go:159`, `166`): a store destroyed and made again between
  them leaves the listener on the old one (`refused`);
* an `openStore` handled after the channel of its client was closed leaves a
  channel in the listener that nobody removes (`overtaken`);
* the galactic store takes responses in the order in which they come
  (`store.go:213`): with a goroutine per message an older value may stay;
* a galactic store that is reset between taking content and its `Initialize` is
  initialised without content (`interrupted`);
* when the route of a channel is closed, nothing installs the fallback forwarder
  for the clients that are still subscribed (`endpoint.go`, `router.go`;
  `abandoned`), until the last of them has left;
* a bridge connection keeps the subscription of a destination although it was
  unsubscribed (`connection.go:95`, `subscription.go:50`): the channel made
  galactic again listens to a dead one, and the second unsubscribe closes a
  closed channel (`crashed`). Over TCP a second mark of a galactic channel
  unsubscribes the subscription it shares with the first;
* `MarkChannelAsLocal` closes the subscriptions of the channel after it has set
  the mark, under another lock (`channel_manager.go:192`, `194`): a
  `MarkChannelAsGalactic` between the two returns because the channel is
  subscribed (`channel_manager.go:206`), and the close leaves a galactic channel
  that listens to nothing (`crossed`);
* over TCP the error of the library's `Subscribe` is dropped: on a connection that
  is lost or closing the subscription is nil and the program panics
  (`connection.go:174-177`; `refused`);
* `RequestResponse` leaves its subscription unread, and the frame handler waits
  for a reader with the lock that `Unsubscribe` needs; an ERROR frame waits for
  ever for a channel that is nil (`bridge_client.go:231-245`);
* a `GET` route of a path stands before the prefix that takes every method: `HEAD`
  of the path is answered 405 (`HttpRouter`, `EndpointsAreServed`);
* after an override the middleware manager still has the original handlers of
  the bridges before (`middleware_manager.go:112`; `stale`), and an endpoint set
  between the two halves of another service's override is lost with the old
  router (`rest_bridge_registry.go:122`; `torn`);
* a middleware call looks at the handler and writes it back under a mutex that
  `ClearForService` does not take: it brings back an endpoint that was cleared in
  between, in the map alone, and the next `set` takes it for registered and adds no
  route (`middleware_manager.go:71`, `83`, `rest_bridge_registry.go:136`; `torn`);
* `set` names the route before it gives it the handler: a middleware put on in
  between stays in the map, and the route serves the plain handler
  (`rest_bridge_registry.go:191-195`; `torn`);
* the start of the server loads the router it was given before the mutex is taken:
  after an override in between, the old router serves again (`server.go:193`;
  `torn`);
* `UnregisterService` leaves the REST endpoints of the service: they answer with
  their timeout;
* `endpointHandlerMap` is written under two different mutexes
  (`middleware_manager.go:83`, `rest_bridge_registry.go:108`), and the fabric
  endpoint is set and dropped without `routeMu` (`server.go:409`);
* the rate limiter's fast path leaves `lastSeen`, so that the clean-up removes
  visitors that are active (`limiter.go:72`).

## 4. Proofs

The theorems hold for every value of the constants that meets the assumptions
named here. Each module states its parts of the inductive invariant as named
conjuncts, proves one lemma per action, and derives the properties from
`Invariant`; the assumptions of the constants are evaluated by the runs.

| module | theorems | assumptions |
|---|---|---|
| `BusChannelProofs` | `TypeCorrect`, `AtMostOnce`, `FiredHandlersArePruned`, `FireWaitsUpward`, `FireIsQuiescent` | sequence numbers are positive, publishers are not dispatches |
| `TransactionProofs`, about Transaction | `TypeCorrect`, `OutcomeIsUnique`, `CompletionIsExact`, `SyncIsSequential`, `Implements` | a natural number of requests |
| `TransactionProofs`, about MessageHandler | `HandlerTypeCorrect`, `CloseWins`, `OneCall` | at least one channel object, a natural number of messages |
| `FabricProofs` | `TypeCorrect`, `NothingLeft`, `SomebodyForwards`, `OneForwarder` | a natural number of channels destroyed, `None` and the channel's topic are names of their own |
| `BrokerBridgeProofs` | `TypeCorrect`, `OneListener`, `ChannelServed`, `OneClose`, `InOrderOnce` | natural bounds, `None`, `Socket` and `Fault` are none of what they are told from |
| `PlankServerProofs` | `TypeCorrect`, `RoutesFollow`, `EndpointsServed`, `OwnResponse` | finitely many calls; `None` and `Nil` are no service, call, key, request or handler; paths are sequences of segments; no method is empty; payload channels have a place |
| `StoreProofs` | `TypeCorrect`, `ChangesReachStreams`, `NewestIsCurrent`, `WaitersTold` | a stream is of one kind and matches ids that exist; natural bounds |
| `StoreSyncProofs` | `TypeCorrect`, `ListenerServed`, `NewestIsCurrent`, `Converges` | natural bounds, at least one store object; `None` is no listener |
| `StompServerProofs` | `TypeCorrect`, `TwoMaps` | queues have a place, natural bounds; `None` is no event |

### BusChannel

* `GoroutinesTracked` is the strengthening the two theorems on `FireContext`
  need: no dispatch beyond `next` is born, and a dispatch is outstanding from
  its birth to its end.
* `FireWaitsUpward`: a dispatch that fires takes its watermark when it is
  already begun, and numbers only grow.
* `FireIsQuiescent` rests on `CheckQuiescence`, where a drained target is
  replaced by `next` before the wait ends; then nothing after the watermark is
  outstanding, up to `next`.
* `ClaimsAreFired` says that whatever run-once handler is scheduled or has a
  dispatch is fired; `AtMostOnce` needs it, for a handler that wins its swap is
  not fired yet. `FiredHandlersArePruned` says that who claims one will prune.

### MessageHandler

The listeners are what the requests of a transaction rest on; their proofs are the
second part of `TransactionProofs`, which extends both modules. That is why the
initial state, the steps, the specification and the type invariant of
MessageHandler have names that begin with `Handler`.

`ClosedIsUnsubscribed` is not inductive: when `Close` reads no id it relies on
`HandleContext` to undo its own subscription, and when it reads one it relies on
that id being the only hold a channel has. `IdComesLast` and `HeldByIdOnly` say
so: nothing holds a listener before `HandleContext` has subscribed it, and what
holds it afterwards is known by its id. `FreshIsEmpty` is needed where the
channel is made again under the same name, `BornInOrder` where a message begins
a dispatch. `OnceCalledOnce` follows with `ReadyNeverRan`: the `invokeOnce` of a
listener never becomes ready again.

### Transaction

The invariant has the types; only requests that exist are executed or
answered (`OnlyRequests`); a listener, its callback and the execution of its
request fit together and a response in its slot has no callback left
(`ListenersFollow`); one request at a time is being executed (`OneExecutes`);
a synchronous transaction is answered up to the request at which it is
(`InOrder`); and the two properties themselves. `Counting` is the arithmetic of
adding a new element to a set of responses. `Implements` maps every step to a
step of `TransactionSpec` or to none, which needs the invariant: that a success
is a *new* response, in order, and that the counter reaches `requests` with the
last one.

### Fabric

`Shape` is the ownership that the code never writes down: which goroutine has a
fallback in its hands (`FallbacksOwned`, `DetachedShape`), where a registration
is while the router has its route (`RouteShape`), from when to when its stream
is called (`StreamShape`). With it,

* `NothingLeft` needs `OrphansRecorded`: a listener is left behind only on a
  channel that was destroyed under it;
* `SomebodyForwards` needs `MappingServed`: a mapping has a listening fallback or
  a route, or is about to have one, from the step that makes it;
* `OneForwarder` needs three facts of registrations that do not overlap:
  one registration is between its entry and its end (`OneRegistration`), a route
  that has detached the fallback forwards alone (`RouteAlone`), and of those a
  message has still to reach at most one forwards it, none if one has
  (`OneWillForward`, which counts the calls that are still to come).

### BrokerBridge

`CallForm`, `CallsApart` and `ListenersMade` tie a listener to the call that
makes it as the last it does. `OneListener` then follows from `MarksRule`, which
has a case for the channel that is marked local and whose subscriptions are not
yet closed,
`OneClose` from `OwnSubscriptions` (a subscription that was handed out once
passes from its call to its listener to the call that unsubscribes it, so it is
closed once), `ChannelServed` from `ServedRule`, which speaks of the calls under
way as well. `InOrderOnce` needs the whole pipeline, as long as two calls have
not made a subscription each: one subscription and one queue (`OneSubscription`,
`OneQueue`); what is offered was published before what is on its way, what was
taken before both, and what a channel received before what its listener holds
(`FramesInOrder`, `TakenFirst`, `SentInOrder`); and a second listener of a
channel comes only when the subscription is closed (`LateListeners`), which is
why the first, still sending, cannot be overtaken.

### PlankServer

Three groups of conjuncts, each with a lemma that says what any step of the
server does to it (`RoutesMove`, `BridgesMove`, `HttpMove`):

* `RoutesInv`. `Balance` is an account per service: the routes it has, pending
  or in the router, plus the registrations between their two locks, are as many
  as its entry in the registry plus the unregistrations between theirs.
  `RoutesFollow` is the account when no call is running.
* `BridgesInv`. Handlers and routes are formed for their keys (`HandlersFormed`),
  what a call has fetched is still where it was (`FetchedForm`), the route that
  `set` has named is the last one (`SettingForm`), every endpoint is of one
  service at most and has a handler (`EndpointsApart`), and `RoutesServe`, one
  statement `KeyServed` per key that is not torn: every clone under way serves
  it; the router does, too, unless the clone leaves the key out; and while `set`
  or a middleware call is at the key, no clone is under way, and what the call
  holds is what the map has. This is what makes replacing the router safe.
  `KeyStays` says that a step leaves the keys alone that it is not about, and
  `LoadedStep` is the replacement of the router, for an override and for the
  start.
* `HttpInv`. A response is in one payload channel, once, and nobody has it
  (`QueuesHold`); all that is under way for a service without mixed answers is one
  request (`OneAnswer`).

`EndpointsServed` also needs what the router does. `RouteAnswers` says that a
route asked for at its own path with one of its methods wins against every
other pattern, unless a rival of the same path has the method, too;
`AnswerIsOfRoute` that an answer is always of a route that takes the method.
They rest on the ranks of patterns (`HighestRank`) and on the first
registration of each (`OwnPattern`). `ClonedRoutes` says that `CloneExcluding`
keeps the other routes, each once.

The proof corrected the property: an endpoint refuses the methods it does not
have only if its handler can be told from others. `RemoveMiddleware` of an
endpoint that was never wrapped leaves a nil function, and two endpoints of one
path whose handlers are both nil are answered alike (`Broken`). TLC refutes the
property without that guard, given four calls and a third method.

### Store

* `OneOwner` is about streams whose owner does one thing at a time: such a
  stream is on its list at most once, and has its handler while it is on it,
  unless it is being taken off. It needs to know what `onStreamUnsubscribe`
  makes of a list (`WithoutList`): one entry of the stream less, and every
  other stream still there.
* `ChangesReachStreams` follows from `OwedAhead` (who is owed a notice is on the
  list that will be copied, then in the copy, then the one called; and nobody
  is taking it off), `ReachedBehind` (who has had it is not in the rest of the
  copy) and `SilentOnes` (who had no handler at the commit has none).
* `VersionsOrderChanges` says nothing of changes under way, so it is not
  inductive. `ViewsFollow` is: for each item an owner has read, either it has
  the value of the store and nothing newer is under way (`UpToDate`), or the
  goroutine with the newest notice of the item, which carries that value, still
  owes it to the owner (`Brings`). `Versions` keeps the versions under way
  apart and at most that of the store, which is where the lock around the
  version and the item matters.
* `Readiness`: a `sync.Once` that has run has closed the channel of its
  incarnation.

### StoreSync

The three properties hold at rest, or of a client that nothing was handled out of
order for; the invariant says what is under way instead, in five groups.

* Types. `version \in 1 .. commits + 1` bounds the versions, so that stamps order
  what different store objects say (`StampOrder`).
  An incarnation leads to a later one or to itself, and the store of the manager to
  itself (`Versions`).
* `Frame`, about the frames of a client. They are numbered, and what the server
  has of them comes before those on the wire (`Numbered`); a request whose channel
  is gone comes after what its client sent later (`StaleRequests`), so that a late
  `closeStore` for an old channel counts as overtaken. With these two
  `ListenerServesOpenClients` is inductive. What is still on the wire makes up for
  itself: an unsubscribe is followed by a subscribe if the client has its channel
  (`ChannelFollows`), whatever takes an open away is followed by another open
  while the client has had the channel since it opened the store (`OpenFollows`,
  `CutOff`), and a close being handled has an open behind it or is overtaken
  (`CloseOvertaken`). Hence such a client has the store open or an open pending
  (`OpenServed`).
* `AllGenuine`. Content, updates, changes not yet notified and what a client has
  seen are all reports on an item. Each is of a version the incarnation has had,
  and a report of its last version is so. That a version does not tell the content,
  for `Populate` puts items in without one, is met by `told`: until an incarnation
  is told of or changed there is no report on it, and one that is populated later
  is `silent`.
* `DataFollows`. A client with nothing pending, whose listener is on the current
  store, either waits for the content (`Awaits`) or has it on its way or taken
  (`Filled`), and then the newest report on every item, wherever it is (seen, in a
  response, in a change the listener is still to be called with), is of the current
  store and so (`Leads`). Every way of adding a report either adds an older one, or
  the newest, which is genuine; taking a response or calling the listener hands the
  report on and loses none. At rest only what was seen is left.
* `ReplicasFilled`. A replica with content is ready or about to be, and one that
  has taken no older response after a newer one holds what it has seen.

`NoneAssumption` keeps `None`, the absence of a listener, from being one.

### StompServer

Every step but those at the end of the server is one of six (`Effects`): nothing
happens to the queue of events, the loop takes the first, somebody puts one (the
goroutine that had it to report, or the acceptor and `Close`), one is dropped, or
a goroutine begins to report one. In the end (`Ends`) nothing changes the maps any
more. What the steps do to `closed`, `cutOff` and `lost` is `Grows`. The three
parts of `MapsAgree` each need what is on its way:

* The last event that decides on a pair says whether the loop will know it
  (`Knows`). Taking an event leaves that alone (`KnowsTaken`), for `Track` does
  to the map what the event says; an event that is put decides or leaves it as it
  was (`KnowsNext`). `Agree` is the first part for closed connections, too: the
  loop will know no more than what is subscribed there. A connection another
  goroutine has closed may still subscribe, and for its ids `Apart` has to hold.
* `Apart` needs `ComesFree`: when the loop comes to a SubscribeToTopic, it knows no
  other subscription with the id any more. That follows from `Agree` when the event
  is made, `IdIsFree` being about the map of the connection.
* `NothingLeft` needs `ClosedLast`: the goroutine that closes its connection has
  ended, so that no SubscribeToTopic comes after its ConnectionClosed.

`NoneAssumption` keeps `None`, no event to report, from being one.

### Only model-checked

* Liveness: `Progress` properties under fairness and everything that speaks of
  `ENABLED` have no rule in the prover. Every invariant of a passing run is a
  theorem.
* `FiredHandlersArePruned` is a theorem only, and `KeepsPromise` is checked for
  the asynchronous type and proved for both.

## 5. Not modelled

* The rate limiter: a map of visitors under a lock, around a library; the first
  item of the plan.
* The connection listeners: I/O. StompServer leaves open when connections come
  and end.
* STOMP heart-beats, headers, receipts, versions, middleware; a second `Start`
  of a server; what the callbacks of the server's owner do inside the loop (in
  Fabric they are steps of their own).
* The error messages, the routes in the direction of requests and the overrides
  of the destination of Fabric; that two channels share the locks of the
  endpoint.
* What a bridge sends; its receipts and headers.
* Readiness and shutdown hooks of services, the REST service (an HTTP client);
  static routes, the single page application, path variables, trailing slashes,
  and the muxes the router keeps between requests.
* The monitor as a component: its callbacks are synchronous, and the one that
  changes state elsewhere is part of `Receive` in StoreSync.
* Payloads, JSON and logging; configuration, TLS, static files, command line;
  sample services, benchmarks, the test harness.

## 6. Plan

Done: all modules above, and the proofs about BusChannel, MessageHandler,
Transaction, Fabric, BrokerBridge, PlankServer, Store, StoreSync and StompServer.
Left, in this order:

1. The rate limiter: requests of a visitor against the clean-up, with
   `lastSeen`.
2. Two connections in StompServer, for kicks and sends that address one of them.
3. Readiness and shutdown hooks in PlankServer.
