--------------------------- MODULE MessageHandler ---------------------------
(***************************************************************************)
(* The listeners of the bus (bus/message_handler.go, wrapMessageHandler in *)
(* bus/eventbus.go) on one channel name that may be destroyed and created  *)
(* again (bus/channel_manager.go).                                         *)
(*                                                                         *)
(* A listener captures the channel OBJECT when it is created and fires its *)
(* request on that object, but subscribes and unsubscribes by NAME, that   *)
(* is on whatever object the name has at that moment.  Handle and Close    *)
(* race: each is two steps, one on the channel and one under closeMu.      *)
(*                                                                         *)
(* A dispatch is the goroutine of one message (module BusChannel, whose    *)
(* theorem FireIsQuiescent justifies the guard of FireReturns: no dispatch *)
(* begun on the object after the watermark is alive).  The order in which  *)
(* a dispatch visits its listeners is left open.                           *)
(*                                                                         *)
(* The initial state, the steps and the specification have names of their  *)
(* own, as TransactionProofs extends this module beside Transaction.       *)
(***************************************************************************)
EXTENDS Naturals, FiniteSets

CONSTANTS
  Listeners,     \* the messageHandler objects
  Kind,          \* how each was created: [dir, dest, once, all]
  Messages,      \* what may be sent: records [dir, dest]
  AnyDest,       \* destination of a listener with ignoreId
  None,          \* no listener, no request
  Firing,        \* listeners created with a request to fire
  FireInCallback,\* may a callback fire a request on its own channel?
  MaxObjects,    \* bound: channel objects ever created for the name
  MaxSends       \* bound: messages ever dispatched

Dispatch == 1 .. MaxSends
Objects == 1 .. MaxObjects
Application == 0
Callers == Dispatch \cup {Application}
Once == {l \in Listeners : Kind[l].once}

\* Only the Request functions give a listener a request; it hears responses.
ASSUME FiringAssumption ==
  /\ Firing \subseteq Listeners
  /\ \A l \in Firing : Kind[l].dir = "response" /\ ~Kind[l].all
ASSUME FireInCallbackAssumption == FireInCallback \in BOOLEAN
ASSUME BoundsAssumption == MaxObjects \in Nat \ {0} /\ MaxSends \in Nat

VARIABLES
  created,       \* channel objects created so far; the last is the newest
  current,       \* object the name maps to, 0 if none
  subs,          \* listeners subscribed to each object
  object,        \* object a listener captured, 0 before it is created
  handling,      \* progress of HandleContext
  hasId,         \* listeners whose subscriptionId is set
  closed,        \* listeners with closed = true
  closers,       \* listeners that someone is about to unsubscribe
  expired,       \* listeners whose handler context is done
  once,          \* state of invokeOnce
  ran,           \* how often the callback of a listener was entered
  sent,          \* number of dispatches begun
  message,       \* message of a dispatch
  on,            \* object it was dispatched on
  todo,          \* listeners it has still to visit
  phase,         \* control point of the dispatch goroutine
  busy,          \* listener whose wrapper it is in
  fire           \* pending FireContext of a caller: [object, start] or None

channelVars == <<created, current, subs>>
listenerVars == <<object, handling, hasId, closed, closers, expired>>
callVars == <<once, ran>>
dispatchVars == <<sent, message, on, todo, phase, busy>>
handlerVars == <<channelVars, listenerVars, callVars, dispatchVars, fire>>

Alive(d) == phase[d] \notin {"unborn", "ended"}

HandlerInit ==
  /\ created = 1
  /\ current = 1
  /\ subs = [o \in Objects |-> {}]
  /\ object = [l \in Listeners |-> 0]
  /\ handling = [l \in Listeners |-> "no"]
  /\ hasId = {}
  /\ closed = {}
  /\ closers = {}
  /\ expired = {}
  /\ once = [l \in Listeners |-> "ready"]
  /\ ran = [l \in Listeners |-> 0]
  /\ sent = 0
  /\ message = [d \in Dispatch |-> None]
  /\ on = [d \in Dispatch |-> 0]
  /\ todo = [d \in Dispatch |-> {}]
  /\ phase = [d \in Dispatch |-> "unborn"]
  /\ busy = [d \in Dispatch |-> None]
  /\ fire = [c \in Callers |-> None]
-----------------------------------------------------------------------------
(***************************************************************************)
(* The channel manager.                                                    *)
(***************************************************************************)
CreateChannel ==
  /\ current = 0
  /\ created < MaxObjects
  /\ created' = created + 1
  /\ current' = created + 1
  /\ UNCHANGED <<subs, listenerVars, callVars, dispatchVars, fire>>

DestroyChannel ==
  /\ current # 0
  /\ current' = 0
  /\ UNCHANGED <<created, subs, listenerVars, callVars, dispatchVars, fire>>

\* UnsubscribeChannelHandler looks the channel up by name.
DropByName(l) == [o \in Objects |-> IF o = current THEN subs[o] \ {l} ELSE subs[o]]
-----------------------------------------------------------------------------
(***************************************************************************)
(* The life of a listener.                                                 *)
(***************************************************************************)
Listen(l) ==
  /\ object[l] = 0
  /\ current # 0
  /\ object' = [object EXCEPT ![l] = current]
  /\ UNCHANGED <<channelVars, handling, hasId, closed, closers, expired,
                 callVars, dispatchVars, fire>>

\* HandleContext, inside setupOnce: subscribe by name.  Without a channel the
\* error is ignored and there is no subscription id.
HandleSubscribe(l) ==
  /\ object[l] # 0
  /\ handling[l] = "no"
  /\ subs' = [o \in Objects |-> IF o = current THEN subs[o] \cup {l} ELSE subs[o]]
  /\ handling' = [handling EXCEPT ![l] = IF current = 0 THEN "done"
                                                        ELSE "subscribed"]
  /\ UNCHANGED <<created, current, object, hasId, closed, closers, expired,
                 callVars, dispatchVars, fire>>

\* HandleContext, under closeMu: store the id, and undo the subscription if the
\* listener was closed meanwhile.
IgnoreClosed(l) == {}
ClosedMeanwhile(l) == {l} \cap closed

HandleStore(l) ==
  /\ handling[l] = "subscribed"
  /\ handling' = [handling EXCEPT ![l] = "done"]
  /\ hasId' = hasId \cup {l}
  /\ closers' = closers \cup ClosedMeanwhile(l)
  /\ UNCHANGED <<channelVars, object, closed, expired, callVars, dispatchVars,
                 fire>>

\* Close, under closeMu: a listener without a stored id has nothing to undo.
IdUnchecked(l) == {l}
IfStored(l) == {l} \cap hasId

Close(l) ==
  /\ object[l] # 0
  /\ l \notin closed \cap closers
  /\ closed' = closed \cup {l}
  /\ closers' = closers \cup IfStored(l)
  /\ UNCHANGED <<channelVars, object, handling, hasId, expired, callVars,
                 dispatchVars, fire>>

\* The unsubscribe that ends a Close, or a Handle that found closed set.
Unsubscribe(l) ==
  /\ l \in closers
  /\ closers' = closers \ {l}
  /\ subs' = DropByName(l)
  /\ UNCHANGED <<created, current, object, handling, hasId, closed, expired,
                 callVars, dispatchVars, fire>>

\* The context given to HandleContext is canceled.
Expire(l) ==
  /\ handling[l] # "no"
  /\ l \notin expired
  /\ expired' = expired \cup {l}
  /\ UNCHANGED <<channelVars, object, handling, hasId, closed, closers,
                 callVars, dispatchVars, fire>>
-----------------------------------------------------------------------------
(***************************************************************************)
(* Dispatching.                                                            *)
(***************************************************************************)
\* A message for the listeners of object o; no goroutine without listeners.
DispatchOn(o, m) ==
  IF subs[o] = {}
  THEN UNCHANGED dispatchVars
  ELSE /\ sent < MaxSends
       /\ sent' = sent + 1
       /\ message' = [message EXCEPT ![sent + 1] = m]
       /\ on' = [on EXCEPT ![sent + 1] = o]
       /\ todo' = [todo EXCEPT ![sent + 1] = subs[o]]
       /\ phase' = [phase EXCEPT ![sent + 1] = "loop"]
       /\ busy' = busy

Send(m) ==
  /\ current # 0
  /\ DispatchOn(current, m)
  /\ UNCHANGED <<channelVars, listenerVars, callVars, fire>>

\* FireContext dispatches on the captured object, whatever the name maps to now.
\* (A request nobody listens to is left out: no dispatch of its own to wait for.)
MayFire(c) == c # Application => (FireInCallback /\ phase[c] = "callback")

Fire(c, l) ==
  /\ MayFire(c)
  /\ fire[c] = None
  /\ l \in Firing
  /\ object[l] # 0
  /\ subs[object[l]] # {}
  /\ DispatchOn(object[l], [dir |-> "request", dest |-> Kind[l].dest])
  /\ fire' = [fire EXCEPT ![c] = [object |-> object[l], start |-> sent]]
  /\ UNCHANGED <<channelVars, listenerVars, callVars>>

FireReturns(c) ==
  /\ fire[c] # None
  /\ \A d \in Dispatch :
       d > fire[c].start /\ on[d] = fire[c].object => ~Alive(d)
  /\ fire' = [fire EXCEPT ![c] = None]
  /\ UNCHANGED <<channelVars, listenerVars, callVars, dispatchVars>>
-----------------------------------------------------------------------------
(***************************************************************************)
(* The wrapper of a listener, run by the goroutine of a dispatch.          *)
(***************************************************************************)
\* Errors reach every listener; other messages must match the direction, and
\* the destination unless ignoreId is set; a firehose takes everything.
Hears(l, m) ==
  \/ m.dir = "error"
  \/ Kind[l].all
  \/ m.dir = Kind[l].dir /\ Kind[l].dest \in {AnyDest, m.dest}

Visiting(d, l) == phase[d] = "loop" /\ l \in todo[d]

\* Not for this listener, or its sync.Once is already done.
Skip(d, l) ==
  /\ Visiting(d, l)
  /\ \/ ~Hears(l, message[d])
     \/ l \in Once /\ once[l] = "done" /\ l \notin expired
     \/ l \in expired \ Once
  /\ todo' = [todo EXCEPT ![d] = @ \ {l}]
  /\ UNCHANGED <<channelVars, listenerVars, callVars, sent, message, on, phase,
                 busy, fire>>

\* A once-listener whose context is done closes itself instead of being called.
CloseExpired(d, l) ==
  /\ Visiting(d, l)
  /\ l \in expired \cap Once
  /\ Hears(l, message[d])
  /\ closed' = closed \cup {l}
  /\ closers' = closers \cup IfStored(l)
  /\ todo' = [todo EXCEPT ![d] = @ \ {l}]
  /\ UNCHANGED <<channelVars, object, handling, hasId, expired, callVars, sent,
                 message, on, phase, busy, fire>>

\* invokeOnce.Do lets one goroutine in and holds the others until it is done.
OnceIgnored(l) == TRUE
OnceReady(l) == l \in Once => once[l] = "ready"

EnterCallback(d, l) ==
  /\ Visiting(d, l)
  /\ l \notin expired
  /\ Hears(l, message[d])
  /\ OnceReady(l)
  /\ once' = [once EXCEPT ![l] = IF l \in Once THEN "running" ELSE @]
  /\ ran' = [ran EXCEPT ![l] = IF l \in Once THEN @ + 1 ELSE @]
  /\ phase' = [phase EXCEPT ![d] = "callback"]
  /\ busy' = [busy EXCEPT ![d] = l]
  /\ UNCHANGED <<channelVars, listenerVars, sent, message, on, todo, fire>>

\* The callback returns; for a once-listener the deferred Close comes next,
\* still inside invokeOnce.Do.
ReturnFromCallback(d) ==
  /\ phase[d] = "callback"
  /\ fire[d] = None
  /\ LET l == busy[d] IN
       IF l \in Once
       THEN /\ closed' = closed \cup {l}
            /\ phase' = [phase EXCEPT ![d] = IF l \in hasId THEN "unsubscribe"
                                                            ELSE "release"]
            /\ UNCHANGED <<todo, busy>>
       ELSE /\ phase' = [phase EXCEPT ![d] = "loop"]
            /\ todo' = [todo EXCEPT ![d] = @ \ {l}]
            /\ busy' = [busy EXCEPT ![d] = None]
            /\ UNCHANGED closed
  /\ UNCHANGED <<channelVars, object, handling, hasId, closers, expired,
                 callVars, sent, message, on, fire>>

UnsubscribeOnce(d) ==
  /\ phase[d] = "unsubscribe"
  /\ subs' = DropByName(busy[d])
  /\ phase' = [phase EXCEPT ![d] = "release"]
  /\ UNCHANGED <<created, current, listenerVars, callVars, sent, message, on,
                 todo, busy, fire>>

AfterDo == "done"

ReleaseOnce(d) ==
  /\ phase[d] = "release"
  /\ once' = [once EXCEPT ![busy[d]] = AfterDo]
  /\ phase' = [phase EXCEPT ![d] = "loop"]
  /\ todo' = [todo EXCEPT ![d] = @ \ {busy[d]}]
  /\ busy' = [busy EXCEPT ![d] = None]
  /\ UNCHANGED <<channelVars, listenerVars, ran, sent, message, on, fire>>

EndDispatch(d) ==
  /\ phase[d] = "loop"
  /\ todo[d] = {}
  /\ phase' = [phase EXCEPT ![d] = "ended"]
  /\ UNCHANGED <<channelVars, listenerVars, callVars, sent, message, on, todo,
                 busy, fire>>
-----------------------------------------------------------------------------
Goroutine(d) ==
  \/ \E l \in Listeners : Skip(d, l) \/ CloseExpired(d, l) \/ EnterCallback(d, l)
  \/ ReturnFromCallback(d) \/ UnsubscribeOnce(d) \/ ReleaseOnce(d)
  \/ EndDispatch(d)

HandlerNext ==
  \/ CreateChannel \/ DestroyChannel
  \/ \E l \in Listeners : \/ Listen(l) \/ HandleSubscribe(l) \/ HandleStore(l)
                          \/ Close(l) \/ Unsubscribe(l) \/ Expire(l)
  \/ \E m \in Messages : Send(m)
  \/ \E c \in Callers : (\E l \in Listeners : Fire(c, l)) \/ FireReturns(c)
  \/ \E d \in Dispatch : Goroutine(d)

HandlerSpec == HandlerInit /\ [][HandlerNext]_handlerVars

\* Started calls and goroutines go on; nobody has to start anything.
HandlerFairness ==
  /\ \A l \in Listeners : WF_handlerVars(HandleStore(l)) /\ WF_handlerVars(Unsubscribe(l))
  /\ \A c \in Callers : WF_handlerVars(FireReturns(c))
  /\ \A d \in Dispatch : WF_handlerVars(Goroutine(d))

HandlerFairSpec == HandlerSpec /\ HandlerFairness
-----------------------------------------------------------------------------
FireRecord == [object : Objects, start : Nat]

HandlerTypeOK ==
  /\ created \in Objects
  /\ current \in {0, created}
  /\ subs \in [Objects -> SUBSET Listeners]
  /\ object \in [Listeners -> 0 .. MaxObjects]
  /\ handling \in [Listeners -> {"no", "subscribed", "done"}]
  /\ closed \subseteq Listeners
  /\ closers \subseteq hasId
  /\ hasId \subseteq Listeners
  /\ expired \subseteq Listeners
  /\ once \in [Listeners -> {"ready", "running", "done"}]
  /\ ran \in [Listeners -> Nat]
  /\ sent \in 0 .. MaxSends
  /\ on \in [Dispatch -> 0 .. MaxObjects]
  /\ todo \in [Dispatch -> SUBSET Listeners]
  /\ phase \in [Dispatch -> {"unborn", "loop", "callback", "unsubscribe",
                             "release", "ended"}]
  /\ busy \in [Dispatch -> Listeners \cup {None}]
  /\ \A c \in Callers : fire[c] # None => fire[c] \in FireRecord

\* Close wins its race with Handle: once both have run to their end and nobody
\* is about to unsubscribe the listener, the channel no longer holds it.
Unsubscribing(l) ==
  l \in closers \/ \E d \in Dispatch : busy[d] = l /\ phase[d] = "unsubscribe"

ClosedIsUnsubscribed ==
  \A l \in closed :
    handling[l] # "subscribed" /\ ~Unsubscribing(l) /\ current # 0
      => l \notin subs[current]

\* A once-listener is called for one message only, though several dispatches
\* took a handler list that contains it (wrapMessageHandler, invokeOnce).
OnceCalledOnce == \A l \in Once : ran[l] <= 1

\* A FireContext issued in a callback returns though other publishers send on
\* the channel meanwhile ("concurrent publishers can keep sending
\* independently", message_handler.go).
FireInCallbackReturns ==
  \A d \in Dispatch : fire[d] # None ~> fire[d] = None
=============================================================================
