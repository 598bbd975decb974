------------------------------- MODULE Fabric -------------------------------
(***************************************************************************)
(* The fabric endpoint and its message router (transport/fabric), for one  *)
(* bus channel: who forwards the responses of a channel to the STOMP       *)
(* clients that subscribe to its topic.                                    *)
(*                                                                         *)
(* The loop of the STOMP server calls addSubscription, removeSubscription  *)
(* and bridgeMessage one at a time; it installs a fallback forwarder when  *)
(* the channel has no route, and creates the channel when there is none.   *)
(* Services register and close routes from goroutines of their own, and    *)
(* the endpoint is stopped from yet another.  A forwarder is a message     *)
(* handler of the bus (MessageHandler): it subscribes to the channel by    *)
(* name, and a response is handed to the handlers subscribed when it was   *)
(* sent, each in the goroutine of the message (BusChannel), closed or not  *)
(* by then.                                                                *)
(***************************************************************************)
EXTENDS Naturals, FiniteSets

CONSTANTS
  Clients,         \* STOMP clients, each with one subscription to the channel
  Routes,          \* calls of RegisterRoute for the channel
  Fallbacks,       \* bound: fallback forwarders in use
  Messages,        \* bound: responses sent on the channel
  MaxDestroyed,    \* bound: times the application destroys the channel
  Topic,           \* the topic destination of the channel
  None

ASSUME BoundAssumption == MaxDestroyed \in Nat
ASSUME NamesDiffer == None \notin Routes \cup Fallbacks /\ Topic \notin Clients
                      /\ Routes \cap Fallbacks = {}

VARIABLES
  server,          \* the STOMP server: new, running, stopped
  exists,          \* the bus has the channel
  listening,       \* forwarders subscribed to it
  closed,          \* routes whose stream was closed
  subs,            \* chanMappings[channel].subs; there is no mapping without
  fallback,        \* its handler
  autoCreated,
  loop,            \* addSubscription midway, holding chanLock
  route,           \* router.routes[channel]
  routerClosed,
  closing,         \* routes router.Close has still to close
  pc,              \* of a RegisterRoute, and of the Close of its handle
  detached,        \* the fallback it has detached
  message,         \* state, destination asked for, forwarders still to be
                   \* called, destinations it was sent to
  destroyed,       \* history: number of DestroyChannel by the application
  orphaned,        \* history: routes whose channel was destroyed under them
  abandoned,       \* history: the mapping lost its route, or its channel
  overlap          \* history: a forwarder was left when the next was made

busVars == <<exists, listening, closed>>
mappingVars == <<subs, fallback, autoCreated, loop>>
routerVars == <<route, routerClosed, closing, pc, detached>>
historyVars == <<destroyed, orphaned, abandoned, overlap>>
vars == <<server, busVars, mappingVars, routerVars, message, historyVars>>

Forwarders == Routes \cup Fallbacks
Idle == [at |-> "idle", client |-> None, stream |-> None, created |-> FALSE]
Unsent == [state |-> "unsent", to |-> Topic, pending |-> {}, sent |-> {}, count |-> 0]

Init ==
  /\ server = "new"
  /\ exists \in BOOLEAN /\ listening = {} /\ closed = {}
  /\ subs = {} /\ fallback = None /\ autoCreated = FALSE /\ loop = Idle
  /\ route = None /\ routerClosed = FALSE /\ closing = {}
  /\ pc = [r \in Routes |-> "idle"]
  /\ detached = [r \in Routes |-> None]
  /\ message = [m \in Messages |-> Unsent]
  /\ destroyed = 0 /\ orphaned = {} /\ abandoned = FALSE /\ overlap = FALSE

LoopFree == loop = Idle

LoopRecord == [at : {"idle", "unrouted", "listening", "mapping"},
               client : Clients \cup {None}, stream : Fallbacks \cup {None},
               created : BOOLEAN]
MessageRecord ==
  [state : {"unsent", "asked", "sent"}, to : Clients \cup {Topic},
   pending : SUBSET Forwarders, sent : SUBSET (Clients \cup {Topic}), count : Nat]

TypeOK ==
  /\ server \in {"new", "running", "stopped"}
  /\ exists \in BOOLEAN /\ listening \subseteq Forwarders /\ closed \subseteq Routes
  /\ (~exists => listening = {})
  /\ subs \subseteq Clients /\ fallback \in Fallbacks \cup {None} /\ autoCreated \in BOOLEAN
  /\ (subs = {} => fallback = None /\ ~autoCreated)
  /\ loop \in LoopRecord
  /\ route \in Routes \cup {None} /\ routerClosed \in BOOLEAN /\ closing \subseteq Routes
  /\ (routerClosed => route = None)
  /\ pc \in [Routes -> {"idle", "listened", "published", "detached", "ready", "subscribed",
                        "registered", "failed", "unlinked", "closed"}]
  /\ detached \in [Routes -> Fallbacks \cup {None}]
  /\ message \in [Messages -> MessageRecord]
  /\ destroyed \in 0..MaxDestroyed /\ orphaned \subseteq Routes
  /\ abandoned \in BOOLEAN /\ overlap \in BOOLEAN
-----------------------------------------------------------------------------
(***************************************************************************)
(* addSubscription, removeSubscription: the loop, under chanLock.          *)
(***************************************************************************)
\* A mapped channel has its forwarder: only the subscription is added.
AddToMapping(c) ==
  /\ server = "running" /\ LoopFree
  /\ c \notin subs /\ subs # {}
  /\ subs' = subs \cup {c}
  /\ UNCHANGED <<server, busVars, fallback, autoCreated, loop, routerVars, message, historyVars>>

\* The loop does not ask for a route.
LookForNoRoute(c) ==
  /\ server = "running" /\ LoopFree
  /\ subs = {}
  /\ loop' = [Idle EXCEPT !.client = c, !.at = "unrouted"]
  /\ UNCHANGED <<server, busVars, subs, fallback, autoCreated, routerVars, message, historyVars>>

\* hasRoute: what the loop knows of the router may be out of date at once.
LookForRoute(c) ==
  /\ server = "running" /\ LoopFree
  /\ subs = {}
  /\ loop' = [Idle EXCEPT !.client = c,
                          !.at = IF route = None THEN "unrouted" ELSE "mapping"]
  /\ UNCHANGED <<server, busVars, subs, fallback, autoCreated, routerVars, message, historyVars>>

\* Forwarders that somebody has, or that may still be called.
InUse == listening \cup {fallback} \cup {detached[r] : r \in Routes}
           \cup UNION {message[m].pending : m \in Messages}

\* ListenStream, after CreateChannel if there is no such channel.
ListenForFallback(f) ==
  /\ loop.at = "unrouted"
  /\ f \notin InUse
  /\ exists' = TRUE
  /\ loop' = [loop EXCEPT !.at = "listening", !.stream = f, !.created = ~exists]
  /\ UNCHANGED <<server, listening, closed, subs, fallback, autoCreated, routerVars, message,
                 historyVars>>

HandleFallback ==
  /\ loop.at = "listening"
  /\ listening' = IF exists THEN listening \cup {loop.stream} ELSE listening
  /\ loop' = [loop EXCEPT !.at = "mapping"]
  /\ UNCHANGED <<server, exists, closed, subs, fallback, autoCreated, routerVars, message,
                 historyVars>>

AddMapping ==
  /\ loop.at = "mapping"
  /\ subs' = {loop.client}
  /\ fallback' = loop.stream
  /\ autoCreated' = loop.created
  /\ loop' = Idle
  /\ UNCHANGED <<server, busVars, routerVars, message, historyVars>>

Unsubscribed(f) == IF f = None THEN listening ELSE listening \ {f}

RemoveOneOfMany(c) ==
  /\ server = "running" /\ LoopFree
  /\ c \in subs /\ subs # {c}
  /\ subs' = subs \ {c}
  /\ UNCHANGED <<server, busVars, fallback, autoCreated, loop, routerVars, message, historyVars>>

\* DestroyChannel: whoever listens to the channel, the fallback closed before
\* it included, is left with a channel the bus no longer has.
DestroyAutoCreated ==
  IF autoCreated
  THEN /\ exists' = FALSE /\ listening' = {}
       /\ orphaned' = orphaned \cup {r \in Routes : pc[r] \in {"listened", "published"}}
  ELSE listening' = Unsubscribed(fallback) /\ UNCHANGED <<exists, orphaned>>

RemoveLast(c) ==
  /\ server = "running" /\ LoopFree
  /\ subs = {c}
  /\ subs' = {} /\ fallback' = None /\ autoCreated' = FALSE
  /\ DestroyAutoCreated
  /\ abandoned' = FALSE
  /\ UNCHANGED <<server, closed, loop, routerVars, message, destroyed, overlap>>
-----------------------------------------------------------------------------
(***************************************************************************)
(* RegisterRoute.                                                          *)
(***************************************************************************)
At(r, from, to) == pc[r] = from /\ pc' = [pc EXCEPT ![r] = to]

\* The router is open, and the bus has the channel.
ListenRoute(r) ==
  /\ At(r, "idle", IF ~routerClosed /\ exists THEN "listened" ELSE "failed")
  /\ UNCHANGED <<server, busVars, mappingVars, route, routerClosed, closing, detached, message,
                 historyVars>>

\* The router is not looked at again after ListenStream.
RefusedIfTaken(r) == route # None
Refused(r) == routerClosed \/ route # None

RefuseRoute(r) ==
  /\ Refused(r)
  /\ At(r, "listened", "failed")
  /\ closed' = closed \cup {r}
  /\ UNCHANGED <<server, exists, listening, mappingVars, route, routerClosed, closing, detached,
                 message, historyVars>>

\* Forwarders of other routes that may still be called.
Lingering(r) == (listening \cup UNION {message[m].pending : m \in Messages}) \cap (Routes \ {r})

PublishRoute(r) ==
  /\ ~Refused(r)
  /\ At(r, "listened", "published")
  /\ route' = r
  /\ overlap' = (overlap \/ Lingering(r) # {})
  /\ UNCHANGED <<server, busVars, mappingVars, routerClosed, closing, detached, message,
                 destroyed, orphaned, abandoned>>

\* The channel stays the subscribers' own.
TakeHandler(r) ==
  /\ detached' = [detached EXCEPT ![r] = fallback]
  /\ fallback' = None
  /\ UNCHANGED autoCreated

\* detachSubscriptionForwarderLocked.
TakeForwarder(r) ==
  /\ detached' = [detached EXCEPT ![r] = fallback]
  /\ fallback' = None
  /\ autoCreated' = FALSE

DetachForwarder(r) ==
  /\ LoopFree
  /\ At(r, "published", "detached")
  /\ TakeForwarder(r)
  /\ abandoned' = (abandoned \/ (subs # {} /\ route # r))
  /\ UNCHANGED <<server, busVars, subs, loop, route, routerClosed, closing, message, destroyed,
                 orphaned, overlap>>

CloseDetached(r) ==
  /\ At(r, "detached", "ready")
  /\ listening' = Unsubscribed(detached[r])
  /\ detached' = [detached EXCEPT ![r] = None]
  /\ UNCHANGED <<server, exists, closed, mappingVars, route, routerClosed, closing, message, historyVars>>

\* HandleContext: subscribes by name, and sees then whether it was closed.
SubscribeRoute(r) ==
  /\ At(r, "ready", "subscribed")
  /\ listening' = IF exists THEN listening \cup {r} ELSE listening
  /\ UNCHANGED <<server, exists, closed, mappingVars, route, routerClosed, closing, detached,
                 message, historyVars>>

\* HandleContext does not look whether it was closed.
FinishAnyway(r) ==
  /\ At(r, "subscribed", "registered")
  /\ UNCHANGED <<server, busVars, mappingVars, route, routerClosed, closing, detached, message,
                 historyVars>>

FinishRegister(r) ==
  /\ At(r, "subscribed", "registered")
  /\ listening' = IF r \in closed THEN listening \ {r} ELSE listening
  /\ UNCHANGED <<server, exists, closed, mappingVars, route, routerClosed, closing, detached,
                 message, historyVars>>
-----------------------------------------------------------------------------
(***************************************************************************)
(* Close of a route handle, of the router, Start and Stop of the endpoint. *)
(***************************************************************************)
Registering(r) == pc[r] \in {"published", "detached", "ready", "subscribed"}

\* A mapping, there or about to be, loses what would have forwarded for it.
Abandon == abandoned' = (abandoned \/ subs # {} \/ ~LoopFree)

\* handle.Close: it deletes its own entry only.
CloseRoute(r) ==
  /\ At(r, "registered", "unlinked")
  /\ IF route = r THEN route' = None /\ Abandon ELSE UNCHANGED <<route, abandoned>>
  /\ UNCHANGED <<server, busVars, mappingVars, routerClosed, closing, detached, message,
                 destroyed, orphaned, overlap>>

\* stream.Close, once; a stream that has not stored the id of its
\* subscription yet is only marked.
CloseStream(r) ==
  /\ closed' = closed \cup {r}
  /\ listening' = IF r \notin closed /\ pc[r] # "subscribed" THEN listening \ {r} ELSE listening

CloseUnlinked(r) ==
  /\ At(r, "unlinked", "closed")
  /\ CloseStream(r)
  /\ UNCHANGED <<server, exists, mappingVars, route, routerClosed, closing, detached, message,
                 historyVars>>

\* Stop: router.Close takes the routes, and closes one after the other.
CloseRouter ==
  /\ ~routerClosed /\ routerClosed' = TRUE
  /\ closing' = {route} \ {None}
  /\ route' = None
  /\ IF route # None THEN Abandon ELSE UNCHANGED abandoned
  /\ overlap' = (overlap \/ \E r \in Routes : Registering(r))
  /\ UNCHANGED <<server, busVars, mappingVars, pc, detached, message, destroyed, orphaned>>

CloseTaken(r) ==
  /\ r \in closing
  /\ closing' = closing \ {r}
  /\ CloseStream(r)
  /\ UNCHANGED <<server, exists, mappingVars, route, routerClosed, pc, detached, message,
                 historyVars>>

\* The mappings and their fallbacks stay.
StopServer ==
  /\ routerClosed /\ closing = {} /\ LoopFree
  /\ server = "running" /\ server' = "stopped"
  /\ UNCHANGED <<busVars, mappingVars, routerVars, message, historyVars>>

Start ==
  /\ server = "new" /\ server' = "running"
  /\ UNCHANGED <<busVars, mappingVars, routerVars, message, historyVars>>
-----------------------------------------------------------------------------
(***************************************************************************)
(* Requests and responses.                                                 *)
(***************************************************************************)
\* bridgeMessage: a private request names the queue of its client as the
\* destination of the answer.
BridgeMessage(m, c, private) ==
  /\ server = "running" /\ LoopFree
  /\ message[m].state = "unsent"
  /\ message' = [message EXCEPT ![m].state = "asked",
                                ![m].to = IF private THEN c ELSE Topic]
  /\ UNCHANGED <<server, busVars, mappingVars, routerVars, historyVars>>

\* A service answers, or sends of its own accord (to the topic); without the
\* channel the message is lost.
SendResponse(m) ==
  /\ message[m].state # "sent"
  /\ message' = [message EXCEPT ![m].state = "sent", ![m].pending = listening]
  /\ UNCHANGED <<server, busVars, mappingVars, routerVars, historyVars>>

\* forwardMessage: fallbacks and routes let the response name its destination.
Target(m) == message[m].to

\* RouteMessage looks the route up by name: a stream forwards for whichever
\* route is there, and not at all if there is none.
Forwards(h) == h \in Fallbacks \/ route # None

Deliver(m, h) ==
  /\ h \in message[m].pending
  /\ message' = [message EXCEPT
       ![m].pending = @ \ {h},
       ![m].sent = IF Forwards(h) THEN @ \cup {Target(m)} ELSE @,
       ![m].count = IF Forwards(h) THEN @ + 1 ELSE @]
  /\ UNCHANGED <<server, busVars, mappingVars, routerVars, historyVars>>
-----------------------------------------------------------------------------
(***************************************************************************)
(* The application: other users of the channel create and destroy it.      *)
(***************************************************************************)
CreateChannel ==
  /\ ~exists /\ exists' = TRUE
  /\ UNCHANGED <<server, listening, closed, mappingVars, routerVars, message, historyVars>>

DestroyChannel ==
  /\ exists /\ exists' = FALSE
  /\ destroyed < MaxDestroyed /\ destroyed' = destroyed + 1
  /\ listening' = {}
  /\ orphaned' = orphaned \cup {r \in Routes : pc[r] # "idle"}
  /\ Abandon
  /\ UNCHANGED <<server, closed, mappingVars, routerVars, message, overlap>>
-----------------------------------------------------------------------------
Subscriber(c) ==
  \/ AddToMapping(c) \/ LookForRoute(c)
  \/ RemoveOneOfMany(c) \/ RemoveLast(c)
  \/ \E m \in Messages, private \in BOOLEAN : BridgeMessage(m, c, private)

Registrar(r) ==
  \/ ListenRoute(r) \/ RefuseRoute(r) \/ PublishRoute(r)
  \/ DetachForwarder(r) \/ CloseDetached(r)
  \/ SubscribeRoute(r) \/ FinishRegister(r)
  \/ CloseRoute(r) \/ CloseUnlinked(r)

Next ==
  \/ \E c \in Clients : Subscriber(c)
  \/ \E f \in Fallbacks : ListenForFallback(f)
  \/ HandleFallback \/ AddMapping
  \/ \E r \in Routes : Registrar(r) \/ CloseTaken(r)
  \/ CloseRouter \/ StopServer \/ Start
  \/ \E m \in Messages : SendResponse(m) \/ \E h \in Forwarders : Deliver(m, h)
  \/ CreateChannel \/ DestroyChannel

Spec == Init /\ [][Next]_vars
-----------------------------------------------------------------------------
(***************************************************************************)
(* Properties.                                                             *)
(***************************************************************************)

(* A response is forwarded at most once, and to nobody but the client that *)
(* asked in private: the fallback of a channel                             *)
(* and its route never both forward it, although the route is published    *)
(* while the fallback is still there (RegisterRoute, addSubscription).     *)
(* Not promised when a route is registered while the stream of the one     *)
(* before may still be called, or the router closed under a registration.  *)
ForwardedOnce ==
  ~overlap => \A m \in Messages :
                message[m].count <= 1 /\ message[m].sent \subseteq {message[m].to}

(* A client that subscribes while a service comes is not forgotten between *)
(* the two forwarders: when no registration is midway, a mapped channel    *)
(* has a fallback that listens or a route that does (addSubscription,      *)
(* RegisterRoute).  Closing the route or destroying the channel under the  *)
(* mapping leaves it without (abandoned, orphaned); nothing brings the     *)
(* fallback back before the last client has left.  And the channel of a    *)
(* registered route is not destroyed with the last subscription, even when *)
(* a subscription created it: detaching the fallback takes the channel     *)
(* over (detachSubscriptionForwarderLocked, removeSubscription).           *)
ChannelIsForwarded ==
  /\ subs # {} /\ LoopFree /\ (\A r \in Routes : ~Registering(r))
       => \/ fallback \in listening
          \/ route # None /\ (route \in listening \cup orphaned)
          \/ abandoned
  /\ \A r \in Routes : pc[r] = "registered" /\ route = r => r \in listening \cup orphaned

(* No fallback forwards for a channel nobody is subscribed to: it is the   *)
(* handler of the mapping, or the loop or a registration has it in hands   *)
(* (removeSubscription, RegisterRoute).  And when the router is closed,    *)
(* every close has returned and no registration is midway, no route        *)
(* listens any more: neither the one being registered while Close took the *)
(* routes, nor the one refused (router.Close, messageHandler.HandleContext).*)
NothingLeftListening ==
  /\ listening \cap Fallbacks \subseteq
       {fallback, loop.stream} \cup {detached[r] : r \in Routes}
  /\ routerClosed /\ closing = {} /\ (\A r \in Routes : ~Registering(r) /\ pc[r] # "unlinked")
       => listening \cap Routes = {}
=============================================================================
