---------------------------- MODULE FabricProofs ----------------------------
(***************************************************************************)
(* Proofs about Fabric, for all clients, routes, fallbacks and messages.   *)
(***************************************************************************)
EXTENDS Fabric, TLAPS

\* The control points at which a route is in the router, unless it was closed.
Entered == {"published", "detached", "ready", "subscribed", "registered"}

\* addSubscription is about a channel that has no mapping yet.
LoopShape ==
  /\ loop.at = "idle" => loop = Idle
  /\ loop.at = "unrouted" => loop.stream = None /\ ~loop.created
  /\ loop.at = "listening" => loop.stream \in Fallbacks
  /\ loop.at # "idle" => subs = {} /\ loop.client \in Clients

\* A fallback in the hands of a registration is in nobody else's.
DetachedShape ==
  \A r \in Routes : detached[r] # None =>
    pc[r] = "detached" /\ detached[r] # fallback /\ detached[r] # loop.stream

\* A registration that has entered the router is the router's route, until
\* somebody has taken it away to close it.
RouteShape ==
  /\ route # None => pc[route] \in Entered /\ route \notin closed
  /\ closing # {} => routerClosed
  /\ \A r \in closing : pc[r] \notin {"idle", "listened", "failed"}
  /\ \A r \in Routes : pc[r] \in {"idle", "listened"} => r \notin closed
  /\ \A r \in Routes : pc[r] \in Entered => route = r \/ r \in closing \cup closed

\* The stream of a route is called from its Handle on, and a closed one listens
\* only until the Handle it has overtaken undoes that.
StreamShape ==
  /\ \A r \in Routes : r \in listening =>
       pc[r] \in {"subscribed", "registered", "unlinked"}
  /\ \A r \in Routes : r \in listening \cap closed => pc[r] = "subscribed"
  /\ \A m \in Messages, r \in Routes : r \in message[m].pending =>
       pc[r] \in {"subscribed", "registered", "unlinked", "closed"}

\* Who has the fallbacks that listen: the first half of NothingLeftListening.
FallbacksOwned ==
  listening \cap Fallbacks \subseteq
    {fallback, loop.stream} \cup {detached[r] : r \in Routes}

Shape == /\ LoopShape /\ DetachedShape /\ RouteShape /\ StreamShape
         /\ FallbacksOwned

\* Whoever registered on a channel that is gone is recorded as orphaned, and a
\* channel that goes with its last subscription has no other users: whoever
\* detached the fallback before has an older channel.
OrphansRecorded ==
  /\ ~exists => \A r \in Routes : pc[r] \notin {"idle", "failed"} => r \in orphaned
  /\ autoCreated \/ loop.created =>
       \A r \in Routes :
         pc[r] \notin {"idle", "failed", "listened", "published"} => r \in orphaned
  /\ \A r \in Routes : pc[r] \in {"subscribed", "registered"} /\ r \notin closed =>
       r \in listening \cup orphaned

\* A mapping, there or in the making, has a fallback that listens or a route.
MappingServed ==
  ~abandoned =>
    /\ subs # {} => fallback \in listening \/ route # None
    /\ loop.at = "listening" => exists
    /\ loop.at = "mapping" => loop.stream \in listening \/ route # None

\* One registration at a time is between its entry into the router and its end,
\* and no other stream may then still be called.
OneRegistration ==
  ~overlap =>
    /\ \A r \in Routes : Registering(r) => route = r
    /\ route # None =>
         \A r \in Routes : r # route =>
           r \notin listening /\ \A m \in Messages : r \notin message[m].pending

\* A route that has detached the fallback is the only forwarder.
RouteAlone ==
  ~overlap /\ route # None /\ pc[route] \in Entered \ {"published"} =>
      /\ fallback = None
      /\ loop.at \in {"idle", "mapping"} /\ loop.stream = None
      /\ listening \cap Fallbacks \subseteq {detached[route]}

\* Of the forwarders a message has still to reach at most one will forward it,
\* and none if one has.
OneWillForward ==
  /\ \A m \in Messages :
       /\ message[m].state # "sent" =>
            message[m].sent = {} /\ message[m].count = 0 /\ message[m].pending = {}
       /\ message[m].sent \subseteq {message[m].to}
  /\ ~overlap => \A m \in Messages :
       /\ message[m].count <= 1
       /\ \A f, g \in message[m].pending \cap Fallbacks : f = g
       /\ (message[m].count = 1 \/ message[m].pending \cap Fallbacks # {}) =>
            route \notin message[m].pending
       /\ message[m].count = 1 => message[m].pending \cap Fallbacks = {}

IInv == /\ TypeOK /\ Shape /\ OrphansRecorded /\ MappingServed /\ OneRegistration
        /\ RouteAlone /\ OneWillForward

LEMMA TypesInitially == Init => TypeOK
<1> SUFFICES ASSUME Init PROVE TypeOK
  OBVIOUS
<1>1. Unsent \in MessageRecord
  BY DEF Unsent, MessageRecord
<1>2. message \in [Messages -> MessageRecord]
  BY <1>1 DEF Init
<1>3. loop \in LoopRecord
  BY DEF Init, Idle, LoopRecord
<1>4. destroyed \in 0 .. MaxDestroyed
  BY BoundAssumption DEF Init
<1> QED
  BY <1>2, <1>3, <1>4 DEF Init, TypeOK

LEMMA TypesKept ==
  TypeOK /\ Shape /\ [Next]_vars => TypeOK'
<1> SUFFICES ASSUME TypeOK, Shape, [Next]_vars
             PROVE  TypeOK'
  OBVIOUS
<1> USE BoundAssumption, NamesDiffer DEF TypeOK, Forwarders
<1>1. ASSUME NEW c \in Clients, AddToMapping(c) PROVE TypeOK'
  BY <1>1 DEF AddToMapping, LoopFree, busVars, routerVars, historyVars
<1>2. ASSUME NEW c \in Clients, LookForRoute(c) PROVE TypeOK'
  <2>1. loop' \in LoopRecord
    BY <1>2 DEF LookForRoute, Idle, LoopRecord
  <2> QED
    BY <1>2, <2>1 DEF LookForRoute, busVars, routerVars, historyVars
<1>3. ASSUME NEW c \in Clients, RemoveOneOfMany(c) PROVE TypeOK'
  BY <1>3 DEF RemoveOneOfMany, LoopFree, busVars, routerVars, historyVars
<1>4. ASSUME NEW c \in Clients, RemoveLast(c) PROVE TypeOK'
  BY <1>4 DEF RemoveLast, DestroyAutoCreated, LoopFree, Unsubscribed,
      routerVars
<1>5. ASSUME NEW c \in Clients, NEW m \in Messages, NEW private \in BOOLEAN, BridgeMessage(m, c, private)
      PROVE  TypeOK'
  <2> DEFINE new == [message[m] EXCEPT !.state = "asked",
                                     !.to = IF private THEN c ELSE Topic]
  <2>1. message' = [message EXCEPT ![m] = new]
    BY <1>5 DEF BridgeMessage
  <2>2. message[m] \in MessageRecord
    OBVIOUS
  <2>3. new \in MessageRecord
    BY <2>2 DEF MessageRecord
  <2>4. message' \in [Messages -> MessageRecord]
    BY <2>1, <2>3
  <2> HIDE DEF new
  <2> QED
    BY <1>5, <2>4 DEF BridgeMessage, busVars, mappingVars, routerVars, historyVars
<1>6. ASSUME NEW f \in Fallbacks, ListenForFallback(f) PROVE TypeOK'
  <2>1. loop' \in LoopRecord
    BY <1>6 DEF ListenForFallback, LoopRecord
  <2> QED
    BY <1>6, <2>1 DEF ListenForFallback, routerVars, historyVars
<1>7. ASSUME HandleFallback PROVE TypeOK'
  <2>1. loop' \in LoopRecord /\ loop.stream \in Fallbacks
    BY <1>7 DEF HandleFallback, LoopRecord, Shape, LoopShape
  <2> QED
    BY <1>7, <2>1 DEF HandleFallback, routerVars, historyVars
<1>8. ASSUME AddMapping PROVE TypeOK'
  <2>1. loop' \in LoopRecord /\ loop.stream \in Fallbacks \cup {None}
        /\ loop.client \in Clients \cup {None} /\ loop.created \in BOOLEAN
    BY <1>8 DEF AddMapping, Idle, LoopRecord
  <2>2. loop.client \in Clients
    BY <1>8 DEF AddMapping, Shape, LoopShape
  <2> QED
    BY <1>8, <2>1, <2>2 DEF AddMapping, busVars, routerVars, historyVars
<1>9. ASSUME NEW r \in Routes, ListenRoute(r) PROVE TypeOK'
  BY <1>9 DEF ListenRoute, At, busVars, mappingVars, historyVars
<1>10. ASSUME NEW r \in Routes, RefuseRoute(r) PROVE TypeOK'
  BY <1>10 DEF RefuseRoute, At, Refused, mappingVars, historyVars
<1>11. ASSUME NEW r \in Routes, PublishRoute(r) PROVE TypeOK'
  BY <1>11 DEF PublishRoute, At, Refused, Lingering, busVars, mappingVars
<1>12. ASSUME NEW r \in Routes, DetachForwarder(r) PROVE TypeOK'
  BY <1>12 DEF DetachForwarder, At, TakeForwarder, LoopFree, busVars
<1>13. ASSUME NEW r \in Routes, CloseDetached(r) PROVE TypeOK'
  BY <1>13 DEF CloseDetached, At, Unsubscribed, mappingVars, historyVars
<1>14. ASSUME NEW r \in Routes, SubscribeRoute(r) PROVE TypeOK'
  BY <1>14 DEF SubscribeRoute, At, mappingVars, historyVars
<1>15. ASSUME NEW r \in Routes, FinishRegister(r) PROVE TypeOK'
  BY <1>15 DEF FinishRegister, At, mappingVars, historyVars
<1>16. ASSUME NEW r \in Routes, CloseRoute(r) PROVE TypeOK'
  <2>1. abandoned' \in BOOLEAN
    BY <1>16 DEF CloseRoute, Abandon, LoopFree
  <2> QED
    BY <1>16, <2>1 DEF CloseRoute, At, busVars, mappingVars
<1>17. ASSUME NEW r \in Routes, CloseUnlinked(r) PROVE TypeOK'
  BY <1>17 DEF CloseUnlinked, At, CloseStream, mappingVars, historyVars
<1>18. ASSUME NEW r \in Routes, CloseTaken(r) PROVE TypeOK'
  BY <1>18 DEF CloseTaken, CloseStream, mappingVars, historyVars
<1>19. ASSUME CloseRouter PROVE TypeOK'
  <2>1. abandoned' \in BOOLEAN /\ overlap' \in BOOLEAN
    BY <1>19 DEF CloseRouter, Abandon, LoopFree
  <2> QED
    BY <1>19, <2>1 DEF CloseRouter, busVars, mappingVars
<1>20. ASSUME StopServer PROVE TypeOK'
  BY <1>20 DEF StopServer, LoopFree, busVars, mappingVars, routerVars,
      historyVars
<1>21. ASSUME Start PROVE TypeOK'
  BY <1>21 DEF Start, busVars, mappingVars, routerVars, historyVars
<1>22. ASSUME NEW m \in Messages, SendResponse(m) PROVE TypeOK'
  <2> DEFINE new == [message[m] EXCEPT !.state = "sent", !.pending = listening]
  <2>1. message' = [message EXCEPT ![m] = new]
    BY <1>22 DEF SendResponse
  <2>2. message[m] \in MessageRecord /\ listening \subseteq Forwarders
    OBVIOUS
  <2>3. new \in MessageRecord
    BY <2>2 DEF MessageRecord
  <2>4. message' \in [Messages -> MessageRecord]
    BY <2>1, <2>3
  <2> HIDE DEF new
  <2> QED
    BY <1>22, <2>4 DEF SendResponse, busVars, mappingVars, routerVars, historyVars
<1>23. ASSUME NEW m \in Messages, NEW h \in Forwarders, Deliver(m, h)
      PROVE  TypeOK'
  <2> DEFINE new == [message[m] EXCEPT
                       !.pending = @ \ {h},
                       !.sent = IF Forwards(h) THEN @ \cup {Target(m)} ELSE @,
                       !.count = IF Forwards(h) THEN @ + 1 ELSE @]
  <2>1. message' = [message EXCEPT ![m] = new]
    BY <1>23 DEF Deliver, Forwards, Target
  <2>2. new \in MessageRecord
    <3>1. message[m] \in MessageRecord
      OBVIOUS
    <3>2. CASE Forwards(h)
      <4>1. new = [message[m] EXCEPT !.pending = @ \ {h},
                                     !.sent = @ \cup {message[m].to},
                                     !.count = @ + 1]
        BY <3>2 DEF Target
      <4>2. message[m].sent \cup {message[m].to} \in SUBSET (Clients \cup {Topic})
        BY <3>1 DEF MessageRecord
      <4>3. message[m].pending \ {h} \in SUBSET Forwarders
            /\ message[m].count + 1 \in Nat
        BY <3>1 DEF MessageRecord
      <4> HIDE DEF TypeOK, new
      <4> QED
        BY <3>1, <4>1, <4>2, <4>3 DEF MessageRecord
    <3>3. CASE ~Forwards(h)
      BY <3>1, <3>3 DEF MessageRecord
    <3> QED
      BY <3>2, <3>3
  <2>3. message' \in [Messages -> MessageRecord]
    BY <2>1, <2>2
  <2> HIDE DEF new
  <2> QED
    BY <1>23, <2>3 DEF Deliver, busVars, mappingVars, routerVars, historyVars
<1>24. ASSUME CreateChannel PROVE TypeOK'
  BY <1>24 DEF CreateChannel, mappingVars, routerVars, historyVars
<1>25. ASSUME DestroyChannel PROVE TypeOK'
  <2>1. abandoned' \in BOOLEAN /\ destroyed' \in 0 .. MaxDestroyed
    BY <1>25 DEF DestroyChannel, Abandon, LoopFree
  <2>2. orphaned' \subseteq Routes
    BY <1>25 DEF DestroyChannel
  <2> QED
    BY <1>25, <2>1, <2>2 DEF DestroyChannel, mappingVars, routerVars
<1>26. CASE UNCHANGED vars
  BY <1>26 DEF vars, busVars, mappingVars, routerVars, historyVars
<1> HIDE DEF TypeOK, Forwarders
<1> QED
  BY <1>1, <1>2, <1>3, <1>4, <1>5, <1>6, <1>7, <1>8, <1>9, <1>10, <1>11,
     <1>12, <1>13, <1>14, <1>15, <1>16, <1>17, <1>18, <1>19, <1>20, <1>21,
     <1>22, <1>23, <1>24, <1>25, <1>26
     DEF Next, Subscriber, Registrar

\* The fallbacks and the streams keep their owners.
LEMMA ShapeKept ==
  TypeOK /\ Shape /\ [Next]_vars => Shape'
<1> SUFFICES ASSUME TypeOK, Shape, [Next]_vars
             PROVE  Shape'
  OBVIOUS
<1> USE NamesDiffer DEF TypeOK, LoopRecord, MessageRecord, Forwarders, Shape, LoopShape,
        DetachedShape, RouteShape, StreamShape, FallbacksOwned, Entered, Idle
<1>1. ASSUME NEW c \in Clients, AddToMapping(c) PROVE Shape'
  BY <1>1 DEF AddToMapping, LoopFree, busVars, routerVars, historyVars
<1>2. ASSUME NEW c \in Clients, LookForRoute(c) PROVE Shape'
  BY <1>2 DEF LookForRoute, LoopFree, busVars, routerVars, historyVars
<1>3. ASSUME NEW c \in Clients, RemoveOneOfMany(c) PROVE Shape'
  BY <1>3 DEF RemoveOneOfMany, LoopFree, busVars, routerVars, historyVars
<1>4. ASSUME NEW c \in Clients, RemoveLast(c) PROVE Shape'
  BY <1>4 DEF RemoveLast, DestroyAutoCreated, LoopFree, Unsubscribed,
      routerVars
<1>5. ASSUME NEW c \in Clients, NEW m \in Messages, NEW private \in BOOLEAN, BridgeMessage(m, c, private)
      PROVE  Shape'
  BY <1>5 DEF BridgeMessage, LoopFree, busVars, mappingVars, routerVars,
      historyVars
<1>6. ASSUME NEW f \in Fallbacks, ListenForFallback(f) PROVE Shape'
  BY <1>6 DEF ListenForFallback, InUse, routerVars, historyVars
<1>7. ASSUME HandleFallback PROVE Shape'
  BY <1>7 DEF HandleFallback, routerVars, historyVars
<1>8. ASSUME AddMapping PROVE Shape'
  BY <1>8 DEF AddMapping, busVars, routerVars, historyVars
<1>9. ASSUME NEW r \in Routes, ListenRoute(r) PROVE Shape'
  BY <1>9 DEF ListenRoute, At, busVars, mappingVars, historyVars
<1>10. ASSUME NEW r \in Routes, RefuseRoute(r) PROVE Shape'
  BY <1>10 DEF RefuseRoute, At, Refused, mappingVars, historyVars
<1>11. ASSUME NEW r \in Routes, PublishRoute(r) PROVE Shape'
  BY <1>11 DEF PublishRoute, At, Refused, Lingering, busVars, mappingVars
<1>12. ASSUME NEW r \in Routes, DetachForwarder(r) PROVE Shape'
  BY <1>12 DEF DetachForwarder, At, TakeForwarder, LoopFree, busVars
<1>13. ASSUME NEW r \in Routes, CloseDetached(r) PROVE Shape'
  BY <1>13 DEF CloseDetached, At, Unsubscribed, mappingVars, historyVars
<1>14. ASSUME NEW r \in Routes, SubscribeRoute(r) PROVE Shape'
  BY <1>14 DEF SubscribeRoute, At, mappingVars, historyVars
<1>15. ASSUME NEW r \in Routes, FinishRegister(r) PROVE Shape'
  BY <1>15 DEF FinishRegister, At, mappingVars, historyVars
<1>16. ASSUME NEW r \in Routes, CloseRoute(r) PROVE Shape'
  BY <1>16 DEF CloseRoute, At, Abandon, LoopFree, busVars, mappingVars
<1>17. ASSUME NEW r \in Routes, CloseUnlinked(r) PROVE Shape'
  BY <1>17 DEF CloseUnlinked, At, CloseStream, mappingVars, historyVars
<1>18. ASSUME NEW r \in Routes, CloseTaken(r) PROVE Shape'
  BY <1>18 DEF CloseTaken, CloseStream, mappingVars, historyVars
<1>19. ASSUME CloseRouter PROVE Shape'
  BY <1>19 DEF CloseRouter, Registering, Abandon, LoopFree, busVars,
      mappingVars
<1>20. ASSUME StopServer PROVE Shape'
  BY <1>20 DEF StopServer, LoopFree, busVars, mappingVars, routerVars,
      historyVars
<1>21. ASSUME Start PROVE Shape'
  BY <1>21 DEF Start, busVars, mappingVars, routerVars, historyVars
<1>22. ASSUME NEW m \in Messages, SendResponse(m) PROVE Shape'
  BY <1>22 DEF SendResponse, busVars, mappingVars, routerVars, historyVars
<1>23. ASSUME NEW m \in Messages, NEW h \in Forwarders, Deliver(m, h)
      PROVE  Shape'
  BY <1>23 DEF Deliver, Forwards, Target, busVars, mappingVars, routerVars,
      historyVars
<1>24. ASSUME CreateChannel PROVE Shape'
  BY <1>24 DEF CreateChannel, mappingVars, routerVars, historyVars
<1>25. ASSUME DestroyChannel PROVE Shape'
  BY <1>25 DEF DestroyChannel, Abandon, LoopFree, mappingVars, routerVars
<1>26. CASE UNCHANGED vars
  BY <1>26 DEF vars, busVars, mappingVars, routerVars, historyVars
<1> HIDE DEF TypeOK, LoopRecord, MessageRecord, Forwarders, Shape, LoopShape,
         DetachedShape, RouteShape, StreamShape, FallbacksOwned, Entered, Idle
<1> QED
  BY <1>1, <1>2, <1>3, <1>4, <1>5, <1>6, <1>7, <1>8, <1>9, <1>10, <1>11,
     <1>12, <1>13, <1>14, <1>15, <1>16, <1>17, <1>18, <1>19, <1>20, <1>21,
     <1>22, <1>23, <1>24, <1>25, <1>26
     DEF Next, Subscriber, Registrar

LEMMA OrphansKept ==
  TypeOK /\ Shape /\ OrphansRecorded /\ [Next]_vars => OrphansRecorded'
<1> SUFFICES ASSUME TypeOK, Shape, OrphansRecorded, [Next]_vars
             PROVE  OrphansRecorded'
  OBVIOUS
<1> USE NamesDiffer DEF TypeOK, LoopRecord, MessageRecord, Forwarders, Shape, LoopShape,
        DetachedShape, RouteShape, StreamShape, FallbacksOwned, Entered, Idle,
        OrphansRecorded
<1>1. ASSUME NEW c \in Clients, AddToMapping(c) PROVE OrphansRecorded'
  BY <1>1 DEF AddToMapping, LoopFree, busVars, routerVars, historyVars
<1>2. ASSUME NEW c \in Clients, LookForRoute(c) PROVE OrphansRecorded'
  BY <1>2 DEF LookForRoute, LoopFree, busVars, routerVars, historyVars
<1>3. ASSUME NEW c \in Clients, RemoveOneOfMany(c) PROVE OrphansRecorded'
  BY <1>3 DEF RemoveOneOfMany, LoopFree, busVars, routerVars, historyVars
<1>4. ASSUME NEW c \in Clients, RemoveLast(c) PROVE OrphansRecorded'
  BY <1>4 DEF RemoveLast, DestroyAutoCreated, LoopFree, Unsubscribed,
      routerVars
<1>5. ASSUME NEW c \in Clients, NEW m \in Messages, NEW private \in BOOLEAN, BridgeMessage(m, c, private)
      PROVE  OrphansRecorded'
  BY <1>5 DEF BridgeMessage, LoopFree, busVars, mappingVars, routerVars,
      historyVars
<1>6. ASSUME NEW f \in Fallbacks, ListenForFallback(f) PROVE OrphansRecorded'
  BY <1>6 DEF ListenForFallback, InUse, routerVars, historyVars
<1>7. ASSUME HandleFallback PROVE OrphansRecorded'
  BY <1>7 DEF HandleFallback, routerVars, historyVars
<1>8. ASSUME AddMapping PROVE OrphansRecorded'
  BY <1>8 DEF AddMapping, busVars, routerVars, historyVars
<1>9. ASSUME NEW r \in Routes, ListenRoute(r) PROVE OrphansRecorded'
  BY <1>9 DEF ListenRoute, At, busVars, mappingVars, historyVars
<1>10. ASSUME NEW r \in Routes, RefuseRoute(r) PROVE OrphansRecorded'
  BY <1>10 DEF RefuseRoute, At, Refused, mappingVars, historyVars
<1>11. ASSUME NEW r \in Routes, PublishRoute(r) PROVE OrphansRecorded'
  BY <1>11 DEF PublishRoute, At, Refused, Lingering, busVars, mappingVars
<1>12. ASSUME NEW r \in Routes, DetachForwarder(r) PROVE OrphansRecorded'
  BY <1>12 DEF DetachForwarder, At, TakeForwarder, LoopFree, busVars
<1>13. ASSUME NEW r \in Routes, CloseDetached(r) PROVE OrphansRecorded'
  BY <1>13 DEF CloseDetached, At, Unsubscribed, mappingVars, historyVars
<1>14. ASSUME NEW r \in Routes, SubscribeRoute(r) PROVE OrphansRecorded'
  BY <1>14 DEF SubscribeRoute, At, mappingVars, historyVars
<1>15. ASSUME NEW r \in Routes, FinishRegister(r) PROVE OrphansRecorded'
  BY <1>15 DEF FinishRegister, At, mappingVars, historyVars
<1>16. ASSUME NEW r \in Routes, CloseRoute(r) PROVE OrphansRecorded'
  BY <1>16 DEF CloseRoute, At, Abandon, LoopFree, busVars, mappingVars
<1>17. ASSUME NEW r \in Routes, CloseUnlinked(r) PROVE OrphansRecorded'
  BY <1>17 DEF CloseUnlinked, At, CloseStream, mappingVars, historyVars
<1>18. ASSUME NEW r \in Routes, CloseTaken(r) PROVE OrphansRecorded'
  BY <1>18 DEF CloseTaken, CloseStream, mappingVars, historyVars
<1>19. ASSUME CloseRouter PROVE OrphansRecorded'
  BY <1>19 DEF CloseRouter, Registering, Abandon, LoopFree, busVars,
      mappingVars
<1>20. ASSUME StopServer PROVE OrphansRecorded'
  BY <1>20 DEF StopServer, LoopFree, busVars, mappingVars, routerVars,
      historyVars
<1>21. ASSUME Start PROVE OrphansRecorded'
  BY <1>21 DEF Start, busVars, mappingVars, routerVars, historyVars
<1>22. ASSUME NEW m \in Messages, SendResponse(m) PROVE OrphansRecorded'
  BY <1>22 DEF SendResponse, busVars, mappingVars, routerVars, historyVars
<1>23. ASSUME NEW m \in Messages, NEW h \in Forwarders, Deliver(m, h)
      PROVE  OrphansRecorded'
  BY <1>23 DEF Deliver, Forwards, Target, busVars, mappingVars, routerVars,
      historyVars
<1>24. ASSUME CreateChannel PROVE OrphansRecorded'
  BY <1>24 DEF CreateChannel, mappingVars, routerVars, historyVars
<1>25. ASSUME DestroyChannel PROVE OrphansRecorded'
  BY <1>25 DEF DestroyChannel, Abandon, LoopFree, mappingVars, routerVars
<1>26. CASE UNCHANGED vars
  BY <1>26 DEF vars, busVars, mappingVars, routerVars, historyVars
<1> HIDE DEF TypeOK, LoopRecord, MessageRecord, Forwarders, Shape, LoopShape,
         DetachedShape, RouteShape, StreamShape, FallbacksOwned, Entered, Idle,
         OrphansRecorded
<1> QED
  BY <1>1, <1>2, <1>3, <1>4, <1>5, <1>6, <1>7, <1>8, <1>9, <1>10, <1>11,
     <1>12, <1>13, <1>14, <1>15, <1>16, <1>17, <1>18, <1>19, <1>20, <1>21,
     <1>22, <1>23, <1>24, <1>25, <1>26
     DEF Next, Subscriber, Registrar

LEMMA ServedKept ==
  TypeOK /\ Shape /\ MappingServed /\ [Next]_vars => MappingServed'
<1> SUFFICES ASSUME TypeOK, Shape, MappingServed, [Next]_vars
             PROVE  MappingServed'
  OBVIOUS
<1> USE NamesDiffer DEF TypeOK, LoopRecord, MessageRecord, Forwarders, Shape, LoopShape,
        DetachedShape, RouteShape, StreamShape, FallbacksOwned, Entered, Idle,
        MappingServed
<1>1. ASSUME NEW c \in Clients, AddToMapping(c) PROVE MappingServed'
  BY <1>1 DEF AddToMapping, LoopFree, busVars, routerVars, historyVars
<1>2. ASSUME NEW c \in Clients, LookForRoute(c) PROVE MappingServed'
  BY <1>2 DEF LookForRoute, LoopFree, busVars, routerVars, historyVars
<1>3. ASSUME NEW c \in Clients, RemoveOneOfMany(c) PROVE MappingServed'
  BY <1>3 DEF RemoveOneOfMany, LoopFree, busVars, routerVars, historyVars
<1>4. ASSUME NEW c \in Clients, RemoveLast(c) PROVE MappingServed'
  BY <1>4 DEF RemoveLast, DestroyAutoCreated, LoopFree, Unsubscribed,
      routerVars
<1>5. ASSUME NEW c \in Clients, NEW m \in Messages, NEW private \in BOOLEAN, BridgeMessage(m, c, private)
      PROVE  MappingServed'
  BY <1>5 DEF BridgeMessage, LoopFree, busVars, mappingVars, routerVars,
      historyVars
<1>6. ASSUME NEW f \in Fallbacks, ListenForFallback(f) PROVE MappingServed'
  BY <1>6 DEF ListenForFallback, InUse, routerVars, historyVars
<1>7. ASSUME HandleFallback PROVE MappingServed'
  BY <1>7 DEF HandleFallback, routerVars, historyVars
<1>8. ASSUME AddMapping PROVE MappingServed'
  BY <1>8 DEF AddMapping, busVars, routerVars, historyVars
<1>9. ASSUME NEW r \in Routes, ListenRoute(r) PROVE MappingServed'
  BY <1>9 DEF ListenRoute, At, busVars, mappingVars, historyVars
<1>10. ASSUME NEW r \in Routes, RefuseRoute(r) PROVE MappingServed'
  BY <1>10 DEF RefuseRoute, At, Refused, mappingVars, historyVars
<1>11. ASSUME NEW r \in Routes, PublishRoute(r) PROVE MappingServed'
  BY <1>11 DEF PublishRoute, At, Refused, Lingering, busVars, mappingVars
<1>12. ASSUME NEW r \in Routes, DetachForwarder(r) PROVE MappingServed'
  BY <1>12 DEF DetachForwarder, At, TakeForwarder, LoopFree, busVars
<1>13. ASSUME NEW r \in Routes, CloseDetached(r) PROVE MappingServed'
  BY <1>13 DEF CloseDetached, At, Unsubscribed, mappingVars, historyVars
<1>14. ASSUME NEW r \in Routes, SubscribeRoute(r) PROVE MappingServed'
  BY <1>14 DEF SubscribeRoute, At, mappingVars, historyVars
<1>15. ASSUME NEW r \in Routes, FinishRegister(r) PROVE MappingServed'
  BY <1>15 DEF FinishRegister, At, mappingVars, historyVars
<1>16. ASSUME NEW r \in Routes, CloseRoute(r) PROVE MappingServed'
  <2>1. CASE route = r
    <3>1. ~abandoned' => subs = {} /\ loop = Idle
      BY <1>16, <2>1 DEF CloseRoute, Abandon, LoopFree
    <3> QED
      BY <1>16, <3>1 DEF CloseRoute, mappingVars
  <2>2. CASE route # r
    BY <1>16, <2>2 DEF CloseRoute, busVars, mappingVars
  <2> QED
    BY <2>1, <2>2
<1>17. ASSUME NEW r \in Routes, CloseUnlinked(r) PROVE MappingServed'
  BY <1>17 DEF CloseUnlinked, At, CloseStream, mappingVars, historyVars
<1>18. ASSUME NEW r \in Routes, CloseTaken(r) PROVE MappingServed'
  BY <1>18 DEF CloseTaken, CloseStream, mappingVars, historyVars
<1>19. ASSUME CloseRouter PROVE MappingServed'
  <2>1. CASE route # None
    <3>1. ~abandoned' => subs = {} /\ loop = Idle
      BY <1>19, <2>1 DEF CloseRouter, Abandon, LoopFree
    <3> QED
      BY <1>19, <3>1 DEF CloseRouter, mappingVars
  <2>2. CASE route = None
    BY <1>19, <2>2 DEF CloseRouter, busVars, mappingVars
  <2> QED
    BY <2>1, <2>2
<1>20. ASSUME StopServer PROVE MappingServed'
  BY <1>20 DEF StopServer, LoopFree, busVars, mappingVars, routerVars,
      historyVars
<1>21. ASSUME Start PROVE MappingServed'
  BY <1>21 DEF Start, busVars, mappingVars, routerVars, historyVars
<1>22. ASSUME NEW m \in Messages, SendResponse(m) PROVE MappingServed'
  BY <1>22 DEF SendResponse, busVars, mappingVars, routerVars, historyVars
<1>23. ASSUME NEW m \in Messages, NEW h \in Forwarders, Deliver(m, h)
      PROVE  MappingServed'
  BY <1>23 DEF Deliver, Forwards, Target, busVars, mappingVars, routerVars,
      historyVars
<1>24. ASSUME CreateChannel PROVE MappingServed'
  BY <1>24 DEF CreateChannel, mappingVars, routerVars, historyVars
<1>25. ASSUME DestroyChannel PROVE MappingServed'
  <2>1. ~abandoned' => subs = {} /\ loop = Idle
    BY <1>25 DEF DestroyChannel, Abandon, LoopFree
  <2> QED
    BY <1>25, <2>1 DEF DestroyChannel, mappingVars
<1>26. CASE UNCHANGED vars
  BY <1>26 DEF vars, busVars, mappingVars, routerVars, historyVars
<1> HIDE DEF TypeOK, LoopRecord, MessageRecord, Forwarders, Shape, LoopShape,
         DetachedShape, RouteShape, StreamShape, FallbacksOwned, Entered, Idle,
         MappingServed
<1> QED
  BY <1>1, <1>2, <1>3, <1>4, <1>5, <1>6, <1>7, <1>8, <1>9, <1>10, <1>11,
     <1>12, <1>13, <1>14, <1>15, <1>16, <1>17, <1>18, <1>19, <1>20, <1>21,
     <1>22, <1>23, <1>24, <1>25, <1>26
     DEF Next, Subscriber, Registrar

LEMMA RegistrationKept ==
  TypeOK /\ Shape /\ OneRegistration /\ [Next]_vars => OneRegistration'
<1> SUFFICES ASSUME TypeOK, Shape, OneRegistration, [Next]_vars
             PROVE  OneRegistration'
  OBVIOUS
<1> USE NamesDiffer DEF TypeOK, LoopRecord, MessageRecord, Forwarders, Shape, LoopShape,
        DetachedShape, RouteShape, StreamShape, FallbacksOwned, Entered, Idle,
        OneRegistration, Registering
<1>1. ASSUME NEW c \in Clients, AddToMapping(c) PROVE OneRegistration'
  BY <1>1 DEF AddToMapping, LoopFree, busVars, routerVars, historyVars
<1>2. ASSUME NEW c \in Clients, LookForRoute(c) PROVE OneRegistration'
  BY <1>2 DEF LookForRoute, LoopFree, busVars, routerVars, historyVars
<1>3. ASSUME NEW c \in Clients, RemoveOneOfMany(c) PROVE OneRegistration'
  BY <1>3 DEF RemoveOneOfMany, LoopFree, busVars, routerVars, historyVars
<1>4. ASSUME NEW c \in Clients, RemoveLast(c) PROVE OneRegistration'
  BY <1>4 DEF RemoveLast, DestroyAutoCreated, LoopFree, Unsubscribed,
      routerVars
<1>5. ASSUME NEW c \in Clients, NEW m \in Messages, NEW private \in BOOLEAN, BridgeMessage(m, c, private)
      PROVE  OneRegistration'
  BY <1>5 DEF BridgeMessage, LoopFree, busVars, mappingVars, routerVars,
      historyVars
<1>6. ASSUME NEW f \in Fallbacks, ListenForFallback(f) PROVE OneRegistration'
  BY <1>6 DEF ListenForFallback, InUse, routerVars, historyVars
<1>7. ASSUME HandleFallback PROVE OneRegistration'
  BY <1>7 DEF HandleFallback, routerVars, historyVars
<1>8. ASSUME AddMapping PROVE OneRegistration'
  BY <1>8 DEF AddMapping, busVars, routerVars, historyVars
<1>9. ASSUME NEW r \in Routes, ListenRoute(r) PROVE OneRegistration'
  BY <1>9 DEF ListenRoute, At, busVars, mappingVars, historyVars
<1>10. ASSUME NEW r \in Routes, RefuseRoute(r) PROVE OneRegistration'
  BY <1>10 DEF RefuseRoute, At, Refused, mappingVars, historyVars
<1>11. ASSUME NEW r \in Routes, PublishRoute(r) PROVE OneRegistration'
  <2>1. ~overlap' => ~overlap /\ Lingering(r) = {}
    BY <1>11 DEF PublishRoute
  <2>2. \A q \in Routes : q # r /\ Registering(q)' => Registering(q)
    BY <1>11 DEF PublishRoute, At
  <2>3. route = None /\ route' = r
    BY <1>11 DEF PublishRoute, Refused
  <2>4. UNCHANGED <<listening, message>>
    BY <1>11 DEF PublishRoute, busVars
  <2>5. Lingering(r) = {} => \A q \in Routes : q # r =>
          q \notin listening /\ \A m \in Messages : q \notin message[m].pending
    BY DEF Lingering
  <2> QED
    BY <2>1, <2>2, <2>3, <2>4, <2>5
<1>12. ASSUME NEW r \in Routes, DetachForwarder(r) PROVE OneRegistration'
  BY <1>12 DEF DetachForwarder, At, TakeForwarder, LoopFree, busVars
<1>13. ASSUME NEW r \in Routes, CloseDetached(r) PROVE OneRegistration'
  BY <1>13 DEF CloseDetached, At, Unsubscribed, mappingVars, historyVars
<1>14. ASSUME NEW r \in Routes, SubscribeRoute(r) PROVE OneRegistration'
  BY <1>14 DEF SubscribeRoute, At, mappingVars, historyVars
<1>15. ASSUME NEW r \in Routes, FinishRegister(r) PROVE OneRegistration'
  BY <1>15 DEF FinishRegister, At, mappingVars, historyVars
<1>16. ASSUME NEW r \in Routes, CloseRoute(r) PROVE OneRegistration'
  BY <1>16 DEF CloseRoute, At, Abandon, LoopFree, busVars, mappingVars
<1>17. ASSUME NEW r \in Routes, CloseUnlinked(r) PROVE OneRegistration'
  BY <1>17 DEF CloseUnlinked, At, CloseStream, mappingVars, historyVars
<1>18. ASSUME NEW r \in Routes, CloseTaken(r) PROVE OneRegistration'
  BY <1>18 DEF CloseTaken, CloseStream, mappingVars, historyVars
<1>19. ASSUME CloseRouter PROVE OneRegistration'
  BY <1>19 DEF CloseRouter, Abandon, LoopFree, busVars, mappingVars
<1>20. ASSUME StopServer PROVE OneRegistration'
  BY <1>20 DEF StopServer, LoopFree, busVars, mappingVars, routerVars,
      historyVars
<1>21. ASSUME Start PROVE OneRegistration'
  BY <1>21 DEF Start, busVars, mappingVars, routerVars, historyVars
<1>22. ASSUME NEW m \in Messages, SendResponse(m) PROVE OneRegistration'
  BY <1>22 DEF SendResponse, busVars, mappingVars, routerVars, historyVars
<1>23. ASSUME NEW m \in Messages, NEW h \in Forwarders, Deliver(m, h)
      PROVE  OneRegistration'
  BY <1>23 DEF Deliver, Forwards, Target, busVars, mappingVars, routerVars,
      historyVars
<1>24. ASSUME CreateChannel PROVE OneRegistration'
  BY <1>24 DEF CreateChannel, mappingVars, routerVars, historyVars
<1>25. ASSUME DestroyChannel PROVE OneRegistration'
  BY <1>25 DEF DestroyChannel, Abandon, LoopFree, mappingVars, routerVars
<1>26. CASE UNCHANGED vars
  BY <1>26 DEF vars, busVars, mappingVars, routerVars, historyVars
<1> HIDE DEF TypeOK, LoopRecord, MessageRecord, Forwarders, Shape, LoopShape,
         DetachedShape, RouteShape, StreamShape, FallbacksOwned, Entered, Idle,
         OneRegistration, Registering
<1> QED
  BY <1>1, <1>2, <1>3, <1>4, <1>5, <1>6, <1>7, <1>8, <1>9, <1>10, <1>11,
     <1>12, <1>13, <1>14, <1>15, <1>16, <1>17, <1>18, <1>19, <1>20, <1>21,
     <1>22, <1>23, <1>24, <1>25, <1>26
     DEF Next, Subscriber, Registrar

LEMMA AloneKept ==
  TypeOK /\ Shape /\ OneRegistration /\ RouteAlone /\ [Next]_vars => RouteAlone'
<1> SUFFICES ASSUME TypeOK, Shape, OneRegistration, RouteAlone, [Next]_vars
             PROVE  RouteAlone'
  OBVIOUS
<1> USE NamesDiffer DEF TypeOK, LoopRecord, MessageRecord, Forwarders, Shape, LoopShape,
        DetachedShape, RouteShape, StreamShape, FallbacksOwned, Entered, Idle,
        OneRegistration, RouteAlone, Registering
<1>1. ASSUME NEW c \in Clients, AddToMapping(c) PROVE RouteAlone'
  BY <1>1 DEF AddToMapping, LoopFree, busVars, routerVars, historyVars
<1>2. ASSUME NEW c \in Clients, LookForRoute(c) PROVE RouteAlone'
  BY <1>2 DEF LookForRoute, LoopFree, busVars, routerVars, historyVars
<1>3. ASSUME NEW c \in Clients, RemoveOneOfMany(c) PROVE RouteAlone'
  BY <1>3 DEF RemoveOneOfMany, LoopFree, busVars, routerVars, historyVars
<1>4. ASSUME NEW c \in Clients, RemoveLast(c) PROVE RouteAlone'
  BY <1>4 DEF RemoveLast, DestroyAutoCreated, LoopFree, Unsubscribed,
      routerVars
<1>5. ASSUME NEW c \in Clients, NEW m \in Messages, NEW private \in BOOLEAN, BridgeMessage(m, c, private)
      PROVE  RouteAlone'
  BY <1>5 DEF BridgeMessage, LoopFree, busVars, mappingVars, routerVars,
      historyVars
<1>6. ASSUME NEW f \in Fallbacks, ListenForFallback(f) PROVE RouteAlone'
  BY <1>6 DEF ListenForFallback, InUse, routerVars, historyVars
<1>7. ASSUME HandleFallback PROVE RouteAlone'
  BY <1>7 DEF HandleFallback, routerVars, historyVars
<1>8. ASSUME AddMapping PROVE RouteAlone'
  BY <1>8 DEF AddMapping, busVars, routerVars, historyVars
<1>9. ASSUME NEW r \in Routes, ListenRoute(r) PROVE RouteAlone'
  BY <1>9 DEF ListenRoute, At, busVars, mappingVars, historyVars
<1>10. ASSUME NEW r \in Routes, RefuseRoute(r) PROVE RouteAlone'
  BY <1>10 DEF RefuseRoute, At, Refused, mappingVars, historyVars
<1>11. ASSUME NEW r \in Routes, PublishRoute(r) PROVE RouteAlone'
  BY <1>11 DEF PublishRoute, At, Refused, Lingering, busVars, mappingVars
<1>12. ASSUME NEW r \in Routes, DetachForwarder(r) PROVE RouteAlone'
  BY <1>12 DEF DetachForwarder, At, TakeForwarder, LoopFree, busVars
<1>13. ASSUME NEW r \in Routes, CloseDetached(r) PROVE RouteAlone'
  BY <1>13 DEF CloseDetached, At, Unsubscribed, mappingVars, historyVars
<1>14. ASSUME NEW r \in Routes, SubscribeRoute(r) PROVE RouteAlone'
  BY <1>14 DEF SubscribeRoute, At, mappingVars, historyVars
<1>15. ASSUME NEW r \in Routes, FinishRegister(r) PROVE RouteAlone'
  BY <1>15 DEF FinishRegister, At, mappingVars, historyVars
<1>16. ASSUME NEW r \in Routes, CloseRoute(r) PROVE RouteAlone'
  BY <1>16 DEF CloseRoute, At, Abandon, LoopFree, busVars, mappingVars
<1>17. ASSUME NEW r \in Routes, CloseUnlinked(r) PROVE RouteAlone'
  BY <1>17 DEF CloseUnlinked, At, CloseStream, mappingVars, historyVars
<1>18. ASSUME NEW r \in Routes, CloseTaken(r) PROVE RouteAlone'
  BY <1>18 DEF CloseTaken, CloseStream, mappingVars, historyVars
<1>19. ASSUME CloseRouter PROVE RouteAlone'
  BY <1>19 DEF CloseRouter, Abandon, LoopFree, busVars, mappingVars
<1>20. ASSUME StopServer PROVE RouteAlone'
  BY <1>20 DEF StopServer, LoopFree, busVars, mappingVars, routerVars,
      historyVars
<1>21. ASSUME Start PROVE RouteAlone'
  BY <1>21 DEF Start, busVars, mappingVars, routerVars, historyVars
<1>22. ASSUME NEW m \in Messages, SendResponse(m) PROVE RouteAlone'
  BY <1>22 DEF SendResponse, busVars, mappingVars, routerVars, historyVars
<1>23. ASSUME NEW m \in Messages, NEW h \in Forwarders, Deliver(m, h)
      PROVE  RouteAlone'
  BY <1>23 DEF Deliver, Forwards, Target, busVars, mappingVars, routerVars,
      historyVars
<1>24. ASSUME CreateChannel PROVE RouteAlone'
  BY <1>24 DEF CreateChannel, mappingVars, routerVars, historyVars
<1>25. ASSUME DestroyChannel PROVE RouteAlone'
  BY <1>25 DEF DestroyChannel, Abandon, LoopFree, mappingVars, routerVars
<1>26. CASE UNCHANGED vars
  BY <1>26 DEF vars, busVars, mappingVars, routerVars, historyVars
<1> HIDE DEF TypeOK, LoopRecord, MessageRecord, Forwarders, Shape, LoopShape,
         DetachedShape, RouteShape, StreamShape, FallbacksOwned, Entered, Idle,
         OneRegistration, RouteAlone, Registering
<1> QED
  BY <1>1, <1>2, <1>3, <1>4, <1>5, <1>6, <1>7, <1>8, <1>9, <1>10, <1>11,
     <1>12, <1>13, <1>14, <1>15, <1>16, <1>17, <1>18, <1>19, <1>20, <1>21,
     <1>22, <1>23, <1>24, <1>25, <1>26
     DEF Next, Subscriber, Registrar

LEMMA ForwardKept ==
  TypeOK /\ Shape /\ OneRegistration /\ RouteAlone /\ OneWillForward /\ [Next]_vars => OneWillForward'
<1> SUFFICES ASSUME TypeOK, Shape, OneRegistration, RouteAlone,
                    OneWillForward, [Next]_vars
             PROVE  OneWillForward'
  OBVIOUS
<1> USE NamesDiffer DEF TypeOK, LoopRecord, MessageRecord, Forwarders, Shape, LoopShape,
        DetachedShape, RouteShape, StreamShape, FallbacksOwned, Entered, Idle,
        OneRegistration, RouteAlone, OneWillForward, Registering
<1>1. ASSUME NEW c \in Clients, AddToMapping(c) PROVE OneWillForward'
  BY <1>1 DEF AddToMapping, LoopFree, busVars, routerVars, historyVars
<1>2. ASSUME NEW c \in Clients, LookForRoute(c) PROVE OneWillForward'
  BY <1>2 DEF LookForRoute, LoopFree, busVars, routerVars, historyVars
<1>3. ASSUME NEW c \in Clients, RemoveOneOfMany(c) PROVE OneWillForward'
  BY <1>3 DEF RemoveOneOfMany, LoopFree, busVars, routerVars, historyVars
<1>4. ASSUME NEW c \in Clients, RemoveLast(c) PROVE OneWillForward'
  BY <1>4 DEF RemoveLast, DestroyAutoCreated, LoopFree, Unsubscribed,
      routerVars
<1>5. ASSUME NEW c \in Clients, NEW m \in Messages, NEW private \in BOOLEAN, BridgeMessage(m, c, private)
      PROVE  OneWillForward'
  BY <1>5 DEF BridgeMessage, LoopFree, busVars, mappingVars, routerVars,
      historyVars
<1>6. ASSUME NEW f \in Fallbacks, ListenForFallback(f) PROVE OneWillForward'
  BY <1>6 DEF ListenForFallback, InUse, routerVars, historyVars
<1>7. ASSUME HandleFallback PROVE OneWillForward'
  BY <1>7 DEF HandleFallback, routerVars, historyVars
<1>8. ASSUME AddMapping PROVE OneWillForward'
  BY <1>8 DEF AddMapping, busVars, routerVars, historyVars
<1>9. ASSUME NEW r \in Routes, ListenRoute(r) PROVE OneWillForward'
  BY <1>9 DEF ListenRoute, At, busVars, mappingVars, historyVars
<1>10. ASSUME NEW r \in Routes, RefuseRoute(r) PROVE OneWillForward'
  BY <1>10 DEF RefuseRoute, At, Refused, mappingVars, historyVars
<1>11. ASSUME NEW r \in Routes, PublishRoute(r) PROVE OneWillForward'
  BY <1>11 DEF PublishRoute, At, Refused, Lingering, busVars, mappingVars
<1>12. ASSUME NEW r \in Routes, DetachForwarder(r) PROVE OneWillForward'
  BY <1>12 DEF DetachForwarder, At, TakeForwarder, LoopFree, busVars
<1>13. ASSUME NEW r \in Routes, CloseDetached(r) PROVE OneWillForward'
  BY <1>13 DEF CloseDetached, At, Unsubscribed, mappingVars, historyVars
<1>14. ASSUME NEW r \in Routes, SubscribeRoute(r) PROVE OneWillForward'
  BY <1>14 DEF SubscribeRoute, At, mappingVars, historyVars
<1>15. ASSUME NEW r \in Routes, FinishRegister(r) PROVE OneWillForward'
  BY <1>15 DEF FinishRegister, At, mappingVars, historyVars
<1>16. ASSUME NEW r \in Routes, CloseRoute(r) PROVE OneWillForward'
  BY <1>16 DEF CloseRoute, At, Abandon, LoopFree, busVars, mappingVars
<1>17. ASSUME NEW r \in Routes, CloseUnlinked(r) PROVE OneWillForward'
  BY <1>17 DEF CloseUnlinked, At, CloseStream, mappingVars, historyVars
<1>18. ASSUME NEW r \in Routes, CloseTaken(r) PROVE OneWillForward'
  BY <1>18 DEF CloseTaken, CloseStream, mappingVars, historyVars
<1>19. ASSUME CloseRouter PROVE OneWillForward'
  BY <1>19 DEF CloseRouter, Abandon, LoopFree, busVars, mappingVars
<1>20. ASSUME StopServer PROVE OneWillForward'
  BY <1>20 DEF StopServer, LoopFree, busVars, mappingVars, routerVars,
      historyVars
<1>21. ASSUME Start PROVE OneWillForward'
  BY <1>21 DEF Start, busVars, mappingVars, routerVars, historyVars
<1>22. ASSUME NEW m \in Messages, SendResponse(m) PROVE OneWillForward'
  BY <1>22 DEF SendResponse, busVars, mappingVars, routerVars, historyVars
<1>23. ASSUME NEW m \in Messages, NEW h \in Forwarders, Deliver(m, h)
      PROVE  OneWillForward'
  <2>1. UNCHANGED <<route, overlap>>
    BY <1>23 DEF Deliver, routerVars, historyVars
  <2>2. \A n \in Messages \ {m} : message'[n] = message[n]
    BY <1>23 DEF Deliver
  <2>3. /\ h \in message[m].pending
        /\ message'[m].state = message[m].state /\ message'[m].to = message[m].to
        /\ message'[m].pending = message[m].pending \ {h}
    BY <1>23 DEF Deliver
  <2>4. IF h \in Fallbacks \/ route # None
        THEN /\ message'[m].sent = message[m].sent \cup {message[m].to}
             /\ message'[m].count = message[m].count + 1
        ELSE message'[m].sent = message[m].sent /\ message'[m].count = message[m].count
    BY <1>23 DEF Deliver, Forwards, Target
  <2> QED
    BY <2>1, <2>2, <2>3, <2>4
<1>24. ASSUME CreateChannel PROVE OneWillForward'
  BY <1>24 DEF CreateChannel, mappingVars, routerVars, historyVars
<1>25. ASSUME DestroyChannel PROVE OneWillForward'
  BY <1>25 DEF DestroyChannel, Abandon, LoopFree, mappingVars, routerVars
<1>26. CASE UNCHANGED vars
  BY <1>26 DEF vars, busVars, mappingVars, routerVars, historyVars
<1> HIDE DEF TypeOK, LoopRecord, MessageRecord, Forwarders, Shape, LoopShape,
         DetachedShape, RouteShape, StreamShape, FallbacksOwned, Entered, Idle,
         OneRegistration, RouteAlone, OneWillForward, Registering
<1> QED
  BY <1>1, <1>2, <1>3, <1>4, <1>5, <1>6, <1>7, <1>8, <1>9, <1>10, <1>11,
     <1>12, <1>13, <1>14, <1>15, <1>16, <1>17, <1>18, <1>19, <1>20, <1>21,
     <1>22, <1>23, <1>24, <1>25, <1>26
     DEF Next, Subscriber, Registrar

LEMMA Initially == Init => IInv
<1> SUFFICES ASSUME Init PROVE IInv
  OBVIOUS
<1>1. TypeOK
  BY TypesInitially
<1>2. Shape /\ OrphansRecorded /\ MappingServed
  BY DEF Init, Idle, Shape, LoopShape, DetachedShape, RouteShape, StreamShape,
         FallbacksOwned, Entered, OrphansRecorded, MappingServed, Unsent
<1>3. OneRegistration /\ RouteAlone /\ OneWillForward
  BY DEF Init, OneRegistration, Registering, RouteAlone, OneWillForward, Unsent
<1> QED
  BY <1>1, <1>2, <1>3 DEF IInv

THEOREM Invariant == Spec => []IInv
<1>1. IInv /\ [Next]_vars => IInv'
  BY TypesKept, ShapeKept, OrphansKept, ServedKept, RegistrationKept, AloneKept,
     ForwardKept DEF IInv
<1> QED
  BY <1>1, Initially, PTL DEF Spec

\* The mapping of the endpoint, the router, the registrations and the messages
\* have the form the code gives them: a closed router has no routes, a channel
\* without subscribers has no fallback.
THEOREM TypeCorrect == Spec => []TypeOK
<1>1. IInv => TypeOK
  BY DEF IInv
<1> QED
  BY <1>1, Invariant, PTL

\* No fallback listens that nobody will close (removeSubscription,
\* RegisterRoute), and nothing listens for a router that was closed, though a
\* registration was midway when Close took the routes (router.go, Close).
THEOREM NothingLeft == Spec => []NothingLeftListening
<1>1. IInv => NothingLeftListening
  <2> SUFFICES ASSUME IInv PROVE NothingLeftListening
    OBVIOUS
  <2>1. ASSUME routerClosed, closing = {}, NEW r \in Routes, ~Registering(r),
               pc[r] # "unlinked"
        PROVE  r \notin listening
    BY <2>1, NamesDiffer
    DEF IInv, TypeOK, Shape, RouteShape, StreamShape, Entered, Registering
  <2> QED
    BY <2>1 DEF IInv, Shape, FallbacksOwned, NothingLeftListening
<1> QED
  BY <1>1, Invariant, PTL

\* A client that subscribes while a service registers its route keeps a
\* forwarder, and a registered route the channel it listens to
\* (addSubscription and RegisterRoute, endpoint.go and router.go).
THEOREM SomebodyForwards == Spec => []ChannelIsForwarded
<1>1. IInv => ChannelIsForwarded
  <2> SUFFICES ASSUME IInv PROVE ChannelIsForwarded
    OBVIOUS
  <2> USE DEF IInv, TypeOK, Shape, RouteShape, OrphansRecorded, Entered
  <2>1. \A r \in Routes :
          pc[r] = "registered" /\ route = r => r \in listening \cup orphaned
    BY NamesDiffer
  <2>2. ASSUME subs # {}, \A r \in Routes : ~Registering(r), ~abandoned
        PROVE  \/ fallback \in listening
               \/ route # None /\ route \in listening \cup orphaned
    <3>1. fallback \in listening \/ route # None
      BY <2>2 DEF MappingServed
    <3>2. route # None => pc[route] = "registered"
      BY <2>2 DEF Registering
    <3>3. route # None => route \in Routes
      OBVIOUS
    <3> QED
      BY <2>1, <3>1, <3>2, <3>3
  <2> QED
    BY <2>1, <2>2 DEF ChannelIsForwarded
<1> QED
  BY <1>1, Invariant, PTL

\* A response reaches a subscriber once, whatever registrations, subscriptions
\* and closes are midway, and a private one only the client that asked for it.
THEOREM OneForwarder == Spec => []ForwardedOnce
<1>1. IInv => ForwardedOnce
  BY DEF IInv, OneWillForward, ForwardedOnce
<1> QED
  BY <1>1, Invariant, PTL
=============================================================================
