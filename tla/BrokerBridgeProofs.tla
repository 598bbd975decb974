------------------------- MODULE BrokerBridgeProofs -------------------------
(***************************************************************************)
(* Proofs about BrokerBridge, for all channels and threads, and any number *)
(* of calls, messages and faults.                                          *)
(***************************************************************************)
EXTENDS BrokerBridge, FiniteSetTheorems, TLAPS

\* What a call is about follows from its kind.
CallForm ==
  \A t \in Threads :
    /\ op[t].at = "idle" =>
         op[t].kind = "none" /\ op[t].channel = None /\ op[t].id = 0 /\ op[t].sub = 0
    /\ op[t].at # "idle" => op[t].kind # "none" /\ op[t].id # 0
    /\ op[t].kind = "request" =>
         op[t].channel = None /\ op[t].at \in {"lookup", "make", "await"}
    /\ op[t].kind = "galactic" =>
         /\ op[t].channel \in Channels
         /\ op[t].at \in {"check", "lookup", "make", "add", "unsubscribe"}
    /\ op[t].kind = "local" =>
         op[t].channel \in Channels /\ op[t].at \in {"close", "unsubscribe"}

\* Calls differ in their numbers, and contrary marks of one channel cross.
CallsApart ==
  \A t, u \in Threads : t # u /\ op[t].at # "idle" =>
    /\ op[t].id # op[u].id
    /\ op[t].channel = op[u].channel /\ op[t].kind # op[u].kind =>
         op[t].channel \in crossed \cup {None}

Unmade(l) == /\ listener[l].channel = None /\ listener[l].on = 0
             /\ listener[l].stopped /\ listener[l].at = "ended"
             /\ listener[l].holds = 0

\* A listener is made by a call as the last it does, and has a channel from then.
ListenersMade ==
  /\ \A l \in Ids : l > calls => Unmade(l)
  /\ \A t \in Threads : op[t].id # 0 => Unmade(op[t].id)
  /\ \A l \in Ids : ~listener[l].stopped \/ listener[l].at # "ended" =>
       listener[l].channel \in Channels

Calls == CallForm /\ CallsApart /\ ListenersMade

Listening(l, c) == listener[l].channel = c /\ ~listener[l].stopped

\* At most one listener of a channel is not stopped, and a channel that has one
\* or is about to is galactic, unless its marks cross or it is about to lose it.
MarksRule ==
  /\ \A k, l \in Ids : k # l /\ listener[k].channel = listener[l].channel
                         => listener[k].stopped \/ listener[l].stopped
  /\ \A l \in Ids : ~listener[l].stopped =>
       \/ listener[l].channel \in galactic \cup crossed
       \/ \E t \in Threads : op[t].at = "close" /\ op[t].channel = listener[l].channel
  /\ \A t \in Threads : op[t].kind = "galactic" =>
       op[t].channel \in galactic \cup crossed
  /\ \A t \in Threads : op[t].at = "close" => op[t].channel \notin galactic \ crossed

\* A subscription that was handed out once belongs to the call that made it, and
\* then to the listener of that call, and then to the call that unsubscribes it.
OwnSubscriptions ==
  /\ \A t \in Threads :
       op[t].at \in {"add", "await", "unsubscribe"} /\ op[t].sub \notin shared =>
         /\ op[t].sub \in open
         /\ op[t].kind # "local" => op[t].sub = op[t].id
         /\ op[t].kind = "local" =>
              listener[op[t].sub].stopped /\ listener[op[t].sub].channel # None
  /\ \A l \in Ids : ~listener[l].stopped /\ listener[l].on \notin shared =>
       listener[l].on = l /\ l \in open
  /\ \A t, u \in Threads : t # u /\ op[t].sub = op[u].sub =>
       \/ op[t].kind # "local" \/ op[t].at # "unsubscribe"
       \/ op[u].kind # "local" \/ op[u].at # "unsubscribe"
       \/ op[t].sub \in shared

\* What a listener has, or a call will give to one, is served.
Served(s) == \/ s \in shared \/ raced
             \/ s \in open \cap active /\ (transport = "ws" => s = mapped)

ServedRule ==
  /\ mapped # 0 => cached # 0
  /\ connection \notin {"leaving", "down"} =>
    /\ \A c \in galactic \ crossed :
         \/ \E l \in Ids : Listening(l, c)
         \/ \E t \in Threads : /\ op[t].kind = "galactic" /\ op[t].channel = c
                               /\ op[t].at \in {"check", "lookup", "make", "add"}
    /\ ~lost => /\ \A l \in Ids : ~listener[l].stopped => Served(listener[l].on)
                /\ \A t \in Threads : op[t].at = "add" => Served(op[t].sub)

\* As long as no two calls made a subscription each there is one for all ...
OneSubscription ==
  /\ open \subseteq {cached} /\ mapped \in {0, cached}
  /\ \A t \in Threads : op[t].at \in {"add", "await", "unsubscribe"} =>
       op[t].sub = cached /\ cached # 0
  /\ \A l \in Ids : listener[l].channel # None => listener[l].on = cached /\ cached # 0

\* ... and one queue of frames.
OneQueue ==
  \A q \in Ids \cup {Socket} :
    q # (IF transport = "ws" THEN Socket ELSE cached) => inbound[q] = <<>>

\* A second listener of a channel comes when the subscription is closed: the
\* first was stopped by a call that unsubscribes it.
LateListeners ==
  \A c \in Channels \ crossed : \A l \in Ids : listener[l].channel = c =>
    /\ listener[l].stopped => \/ cached \notin open
                              \/ \E t \in Threads : /\ op[t].channel = c
                                                    /\ op[t].kind = "local"
                                                    /\ op[t].at = "unsubscribe"
    /\ \A k \in Ids \ {l} : listener[k].channel = c =>
         cached \notin open /\ (listener[k].at # "sending" \/ listener[l].at # "sending")

\* What is offered was published before what is still on its way, ...
FramesInOrder ==
  /\ \A q \in Ids \cup {Socket} : \A i, j \in DOMAIN inbound[q] :
       i < j /\ inbound[q][i] # Fault /\ inbound[q][j] # Fault
         => inbound[q][i] < inbound[q][j]
  /\ \A s \in Ids : offered[s] \notin {0, Fault} =>
       \A q \in Ids \cup {Socket} : \A i \in DOMAIN inbound[q] :
         inbound[q][i] # Fault => offered[s] < inbound[q][i]

\* ... what was taken before both, ...
Before(n) ==
  n # Fault =>
    /\ \A s \in Ids : offered[s] \notin {0, Fault} => n < offered[s]
    /\ \A q \in Ids \cup {Socket} : \A i \in DOMAIN inbound[q] :
         inbound[q][i] # Fault => n < inbound[q][i]

TakenFirst ==
  /\ \A l \in Ids : Before(listener[l].holds)
  /\ \A c \in Channels : \A i \in DOMAIN received[c] : Before(received[c][i])

\* ... and what a channel received before what its listener holds.
SentInOrder ==
  \A c \in Channels \ crossed : \A l \in Ids :
    listener[l].channel = c /\ listener[l].at = "sending" =>
      \A i \in DOMAIN received[c] :
        Fault \notin {received[c][i], listener[l].holds} => received[c][i] < listener[l].holds

Pipeline ==
  ~raced => /\ OneSubscription /\ OneQueue /\ LateListeners
            /\ FramesInOrder /\ TakenFirst /\ SentInOrder

IInv == /\ TypeOK /\ Calls /\ MarksRule /\ OwnSubscriptions
        /\ ServedRule /\ Pipeline /\ OnceInOrder /\ PanicsOnlyIfSharedOrCut

-----------------------------------------------------------------------------
(***************************************************************************)
(* What the steps do to the calls and the listeners, field by field.       *)
(***************************************************************************)
OpBecomes(t, kind, c, id, at, sub) ==
  /\ op' \in [Threads -> CallRecord]
  /\ op'[t].kind = kind /\ op'[t].channel = c /\ op'[t].id = id
  /\ op'[t].at = at /\ op'[t].sub = sub
  /\ \A u \in Threads \ {t} : op'[u] = op[u]

OpEnds(t) == OpBecomes(t, "none", None, 0, "idle", 0)

ListenerBecomes(l, c, on, stopped, at, holds) ==
  /\ listener' \in [Ids -> ListenerRecord]
  /\ listener'[l].channel = c /\ listener'[l].on = on
  /\ listener'[l].stopped = stopped /\ listener'[l].at = at
  /\ listener'[l].holds = holds
  /\ \A k \in Ids \ {l} : listener'[k] = listener[k]

\* Assigning a record to op[t] changes the call of t and no other.
LEMMA OpUpdated ==
  ASSUME TypeOK, NEW t \in Threads, NEW r \in CallRecord,
         op' = [op EXCEPT ![t] = r]
  PROVE  OpBecomes(t, r.kind, r.channel, r.id, r.at, r.sub)
  BY DEF TypeOK, Typed, OpBecomes

\* Assigning a record to listener[l] changes that listener and no other.
LEMMA ListenerUpdated ==
  ASSUME TypeOK, NEW l \in Ids, NEW r \in ListenerRecord,
         listener' = [listener EXCEPT ![l] = r]
  PROVE  ListenerBecomes(l, r.channel, r.on, r.stopped, r.at, r.holds)
  BY DEF TypeOK, Typed, ListenerBecomes

\* A call that returns leaves its thread without one.
LEMMA Finishing ==
  ASSUME TypeOK, NEW t \in Threads, Finish(t)
  PROVE  OpEnds(t)
<1>1. NoCall \in CallRecord
  BY DEF NoCall, CallRecord
<1> QED
  BY <1>1, OpUpdated DEF Finish, OpEnds, NoCall

\* A call that subscribed goes on with a subscription.
LEMMA Stepping ==
  ASSUME TypeOK, NEW t \in Threads, NEW s \in Nat,
         NEW at \in {"idle", "check", "lookup", "make", "add", "await", "close", "unsubscribe"},
         op' = [op EXCEPT ![t].at = at, ![t].sub = s]
  PROVE  OpBecomes(t, op[t].kind, op[t].channel, op[t].id, at, s)
<1> DEFINE r == [op[t] EXCEPT !.at = at, !.sub = s]
<1>1. op[t] \in CallRecord
  BY DEF TypeOK, Typed
<1>2. r \in CallRecord /\ r.kind = op[t].kind /\ r.channel = op[t].channel
      /\ r.id = op[t].id /\ r.at = at /\ r.sub = s
  BY <1>1 DEF CallRecord
<1>3. op' = [op EXCEPT ![t] = r]
  BY DEF TypeOK, Typed
<1> HIDE DEF r
<1> QED
  BY <1>2, <1>3, OpUpdated

\* A call that goes on keeps what it is about.
LEMMA SteppingOnly ==
  ASSUME TypeOK, NEW t \in Threads,
         NEW at \in {"idle", "check", "lookup", "make", "add", "await", "close", "unsubscribe"},
         Step(t, at)
  PROVE  OpBecomes(t, op[t].kind, op[t].channel, op[t].id, at, op[t].sub)
<1> DEFINE r == [op[t] EXCEPT !.at = at]
<1>1. op[t] \in CallRecord
  BY DEF TypeOK, Typed
<1>2. r \in CallRecord /\ r.kind = op[t].kind /\ r.channel = op[t].channel
      /\ r.id = op[t].id /\ r.at = at /\ r.sub = op[t].sub
  BY <1>1 DEF CallRecord
<1>3. op' = [op EXCEPT ![t] = r]
  BY DEF TypeOK, Typed, Step
<1> HIDE DEF r
<1> QED
  BY <1>2, <1>3, OpUpdated

\* A call has the next number, and crosses the contrary marks of its channel.
Begins(t, kind, c) ==
  /\ ~crashed /\ op[t].at = "idle" /\ op[t].kind = "none" /\ op[t].channel = None
  /\ calls + 1 \in Ids /\ calls' = calls + 1 /\ calls' \in 0..MaxCalls
  /\ crossed \subseteq crossed' /\ crossed' \subseteq Channels
  /\ \A u \in Threads :
       op[u].channel = c /\ op[u].kind # kind /\ c \in Channels => c \in crossed'

LEMMA Beginning ==
  ASSUME TypeOK, NEW t \in Threads, NEW kind, NEW c, Begin(t, kind, c)
  PROVE  Begins(t, kind, c)
  BY BoundAssumption DEF TypeOK, Typed, Begin, NoCall, Ids, Begins

\* The effect of each action, field by field.
LEMMA MarkGalacticStep ==
  ASSUME TypeOK, NEW t \in Threads, NEW c \in Channels, MarkGalactic(t, c)
  PROVE  /\ Begins(t, "galactic", c)
         /\ galactic' = galactic \cup {c}
         /\ OpBecomes(t, "galactic", c, calls + 1, "check", 0)
         /\ UNCHANGED <<connVars, subVars, frameVars, listener, received, brokerVars,
                        refused, shared, raced, crashed>>
<1> DEFINE r == [kind |-> "galactic", channel |-> c, id |-> calls + 1,
                 at |-> "check", sub |-> 0]
<1>1. r \in CallRecord
  BY DEF TypeOK, Typed, CallRecord
<1>2. Begins(t, "galactic", c)
  BY Beginning DEF MarkGalactic
<1>3. op' = [op EXCEPT ![t] = r]
  BY <1>2 DEF MarkGalactic, MarkRecord, Begins
<1> QED
  BY <1>1, <1>2, <1>3, OpUpdated DEF MarkGalactic

LEMMA CheckSubscribedStep ==
  ASSUME TypeOK, NEW t \in Threads, CheckSubscribed(t)
  PROVE  /\ op[t].at = "check"
         /\ \/ OpEnds(t) /\ \E l \in Ids : Listening(l, op[t].channel)
            \/ OpBecomes(t, op[t].kind, op[t].channel, op[t].id, "lookup", op[t].sub)
         /\ UNCHANGED <<connVars, subVars, frameVars, channelVars, brokerVars,
                        historyVars, crashed, calls>>
<1>1. CASE IsSubscribed(op[t].channel)
  <2>1. \E l \in Ids : Listening(l, op[t].channel)
    BY <1>1 DEF IsSubscribed, BrokerSubs, Listening
  <2> QED
    BY <1>1, <2>1, Finishing DEF CheckSubscribed
<1>2. CASE ~IsSubscribed(op[t].channel)
  BY <1>2, SteppingOnly DEF CheckSubscribed
<1> QED
  BY <1>1, <1>2

LEMMA RequestResponseStep ==
  ASSUME TypeOK, NEW t \in Threads, RequestResponse(t)
  PROVE  /\ Begins(t, "request", None)
         /\ OpBecomes(t, "request", None, calls + 1, "lookup", 0)
         /\ UNCHANGED <<connVars, subVars, frameVars, channelVars, brokerVars,
                        refused, shared, raced, crashed>>
<1> DEFINE r == [kind |-> "request", channel |-> None, id |-> calls + 1,
                 at |-> "lookup", sub |-> 0]
<1>1. r \in CallRecord
  BY DEF TypeOK, Typed, CallRecord
<1>2. Begins(t, "request", None)
  BY Beginning DEF RequestResponse
<1>3. op' = [op EXCEPT ![t] = r]
  BY <1>2 DEF RequestResponse, MarkRecord, Begins
<1> QED
  BY <1>1, <1>2, <1>3, OpUpdated DEF RequestResponse

\* closeBrokerSubscriptions stops the listeners of the channel and no others.
Stopped(c) ==
  /\ listener' \in [Ids -> ListenerRecord]
  /\ \A l \in Ids : IF Listening(l, c)
                    THEN /\ listener'[l].channel = listener[l].channel
                         /\ listener'[l].on = listener[l].on
                         /\ listener'[l].stopped
                         /\ listener'[l].at = listener[l].at
                         /\ listener'[l].holds = listener[l].holds
                    ELSE listener'[l] = listener[l]

LEMMA Stopping ==
  ASSUME TypeOK, NEW c \in Channels, TakeListeners(c)
  PROVE  Stopped(c)
<1>1. listener \in [Ids -> ListenerRecord]
  BY DEF TypeOK, Typed
<1>2. ASSUME NEW l \in Ids
      PROVE  /\ [listener[l] EXCEPT !.stopped = TRUE] \in ListenerRecord
             /\ [listener[l] EXCEPT !.stopped = TRUE].channel = listener[l].channel
             /\ [listener[l] EXCEPT !.stopped = TRUE].on = listener[l].on
             /\ [listener[l] EXCEPT !.stopped = TRUE].stopped
             /\ [listener[l] EXCEPT !.stopped = TRUE].at = listener[l].at
             /\ [listener[l] EXCEPT !.stopped = TRUE].holds = listener[l].holds
  BY <1>1 DEF ListenerRecord
<1>3. ASSUME NEW l \in Ids
      PROVE  listener'[l] = IF l \in BrokerSubs(c)
                            THEN [listener[l] EXCEPT !.stopped = TRUE] ELSE listener[l]
  BY DEF TakeListeners
<1>4. listener' \in [Ids -> ListenerRecord]
  <2>1. \A l \in Ids : listener'[l] \in ListenerRecord
    BY <1>1, <1>2, <1>3
  <2> QED
    BY <2>1 DEF TakeListeners
<1> QED
  BY <1>2, <1>3, <1>4 DEF Stopped, BrokerSubs, Listening

LEMMA MarkLocalStep ==
  ASSUME TypeOK, NEW t \in Threads, NEW c \in Channels, MarkLocal(t, c)
  PROVE  /\ Begins(t, "local", c)
         /\ galactic' = galactic \ {c}
         /\ OpBecomes(t, "local", c, calls + 1, "close", 0)
         /\ UNCHANGED <<connVars, subVars, frameVars, listener, received, brokerVars,
                        refused, shared, raced, crashed>>
<1> DEFINE r == [kind |-> "local", channel |-> c, id |-> calls + 1,
                 at |-> "close", sub |-> 0]
<1>1. r \in CallRecord
  BY DEF TypeOK, Typed, CallRecord
<1>2. Begins(t, "local", c)
  BY Beginning DEF MarkLocal
<1>3. op' = [op EXCEPT ![t] = r]
  BY <1>2 DEF MarkLocal, MarkRecord, Begins
<1> QED
  BY <1>1, <1>2, <1>3, OpUpdated DEF MarkLocal

LEMMA CloseSubscriptionsStep ==
  ASSUME TypeOK, Calls, NEW t \in Threads, CloseSubscriptions(t)
  PROVE  /\ op[t].at = "close" /\ op[t].kind = "local" /\ op[t].channel \in Channels
         /\ Stopped(op[t].channel)
         /\ \/ OpEnds(t) /\ \A l \in Ids : ~Listening(l, op[t].channel)
            \/ \E l \in Ids :
                 /\ Listening(l, op[t].channel)
                 /\ OpBecomes(t, "local", op[t].channel, op[t].id, "unsubscribe",
                              listener[l].on)
         /\ UNCHANGED <<connVars, subVars, frameVars, galactic, received, brokerVars,
                        historyVars, crashed, calls>>
<1> DEFINE c == op[t].channel
<1>1. op[t].at = "close" /\ op[t].kind = "local" /\ c \in Channels
  <2>1. op[t].kind \in {"none", "galactic", "local", "request"}
    BY DEF TypeOK, Typed, CallRecord
  <2> QED
    BY <2>1 DEF CloseSubscriptions, Calls, CallForm
<1>2. Stopped(c)
  BY <1>1, Stopping DEF CloseSubscriptions
<1>3. CASE BrokerSubs(c) = {}
  BY <1>1, <1>2, <1>3, Finishing DEF CloseSubscriptions, BrokerSubs, Listening
<1>4. CASE BrokerSubs(c) # {}
  <2>1. PICK l \in BrokerSubs(c) :
          op' = [op EXCEPT ![t].at = "unsubscribe", ![t].sub = listener[l].on]
    BY <1>4 DEF CloseSubscriptions
  <2>2. l \in Ids /\ listener[l].on \in Nat /\ Listening(l, c)
    BY DEF TypeOK, Typed, BrokerSubs, ListenerRecord, Listening
  <2>3. OpBecomes(t, "local", c, op[t].id, "unsubscribe", listener[l].on)
    BY <1>1, <2>1, <2>2, Stepping
  <2> QED
    BY <1>1, <1>2, <2>2, <2>3 DEF CloseSubscriptions
<1> QED
  BY <1>3, <1>4

LEMMA LookupStep ==
  ASSUME TypeOK, NEW t \in Threads, Lookup(t)
  PROVE  /\ op[t].at = "lookup"
         /\ \/ /\ cached # 0 /\ shared' = shared \cup {cached}
               /\ OpBecomes(t, op[t].kind, op[t].channel, op[t].id, WhenSubscribed(t), cached)
            \/ /\ cached = 0 /\ shared' = shared
               /\ OpBecomes(t, op[t].kind, op[t].channel, op[t].id, "make", op[t].sub)
         /\ UNCHANGED <<connVars, subVars, frameVars, channelVars, brokerVars, refused, raced,
                        crossed, crashed, calls>>
<1>1. CASE cached # 0
  BY <1>1, Stepping DEF Lookup, WhenSubscribed, TypeOK, Typed
<1>2. CASE cached = 0
  BY <1>2, SteppingOnly DEF Lookup
<1> QED
  BY <1>1, <1>2

LEMMA MakeSubscriptionStep ==
  ASSUME TypeOK, Calls, NEW t \in Threads, MakeSubscription(t)
  PROVE  /\ op[t].at = "make" /\ op[t].id \in Ids /\ connection # "down"
         /\ OpBecomes(t, op[t].kind, op[t].channel, op[t].id, WhenSubscribed(t), op[t].id)
         /\ cached' = op[t].id
         /\ mapped' = (IF transport = "ws" THEN op[t].id ELSE mapped)
         /\ open' = open \cup {op[t].id}
         /\ active' = (IF lost THEN active ELSE active \cup {op[t].id})
         /\ raced' \in BOOLEAN /\ (raced' <=> raced \/ cached # 0)
         /\ UNCHANGED <<connVars, frameVars, channelVars, brokerVars, refused, shared, crossed,
                        crashed, calls>>
<1>1. op[t].at = "make" /\ op[t].id \in Ids
  <2>1. op[t].id \in Nat /\ op[t].id <= calls /\ calls \in 0..MaxCalls
    BY DEF TypeOK, Typed, CallsCounted, CallRecord
  <2> QED
    BY <2>1, BoundAssumption DEF MakeSubscription, Calls, CallForm, Ids
<1>2. op[t].id \in Nat
  BY DEF TypeOK, Typed, CallRecord
<1>3. OpBecomes(t, op[t].kind, op[t].channel, op[t].id, WhenSubscribed(t), op[t].id)
  BY <1>2, Stepping DEF MakeSubscription, WhenSubscribed
<1>4. raced' \in BOOLEAN /\ (raced' <=> raced \/ cached # 0)
  BY DEF MakeSubscription, TypeOK, Typed
<1> QED
  BY <1>1, <1>3, <1>4 DEF MakeSubscription

LEMMA FailSubscriptionStep ==
  ASSUME TypeOK, NEW t \in Threads, FailSubscription(t)
  PROVE  /\ op[t].at = "make"
         /\ OpEnds(t) \/ op' = op
         /\ OpEnds(t) => connection = "down"
         /\ crashed' \in BOOLEAN /\ refused' \in BOOLEAN
         /\ UNCHANGED <<connVars, subVars, frameVars, channelVars, brokerVars, shared, raced,
                        crossed, calls>>
<1>1. op[t] \in CallRecord /\ op[t].at = "make" /\ (OpEnds(t) => op' # op)
  BY DEF FailSubscription, TypeOK, Typed, OpEnds, OpBecomes
<1>2. \/ connection = "down" /\ Finish(t) /\ UNCHANGED <<refused, crashed>>
      \/ op' = op /\ refused' = TRUE /\ crashed' = TRUE
  BY DEF FailSubscription
<1>3. OpEnds(t) \/ op' = op
  BY <1>2, Finishing
<1>4. crashed' \in BOOLEAN /\ refused' \in BOOLEAN
  BY <1>2 DEF TypeOK, Typed
<1> QED
  BY <1>1, <1>2, <1>3, <1>4 DEF FailSubscription

\* addBrokerSubscriptionIfMissing gives the channel the subscription, or refuses it.
Adds(t) ==
  /\ \A l \in Ids : ~Listening(l, op[t].channel)
  /\ ListenerBecomes(op[t].id, op[t].channel, op[t].sub, FALSE, "listening", 0)
  /\ OpEnds(t)

Refuses(t) ==
  /\ UNCHANGED listener /\ \E l \in Ids : Listening(l, op[t].channel)
  /\ OpBecomes(t, op[t].kind, op[t].channel, op[t].id, "unsubscribe", op[t].sub)

LEMMA AddSubscriptionStep ==
  ASSUME TypeOK, Calls, NEW t \in Threads, AddSubscription(t)
  PROVE  /\ op[t].at = "add" /\ op[t].kind = "galactic"
         /\ op[t].channel \in Channels /\ op[t].id \in Ids
         /\ Adds(t) \/ Refuses(t)
         /\ UNCHANGED <<connVars, subVars, frameVars, galactic, received, brokerVars,
                        historyVars, crashed, calls>>
<1>0. /\ op[t].at = "add" /\ op[t].kind = "galactic"
      /\ op[t].channel \in Channels /\ op[t].id \in Ids
  <2>1. op[t] \in CallRecord /\ op[t].id <= calls /\ calls \in 0..MaxCalls
    BY DEF TypeOK, Typed, CallsCounted
  <2>2. op[t].kind \in {"none", "galactic", "request", "local"} /\ op[t].id \in Nat
    BY <2>1 DEF CallRecord
  <2> QED
    BY <2>1, <2>2, BoundAssumption DEF AddSubscription, Calls, CallForm, Ids
<1>1. CASE IsMissing(op[t].channel)
  <2> DEFINE r == [channel |-> op[t].channel, on |-> op[t].sub, stopped |-> FALSE,
                   at |-> "listening", holds |-> 0]
  <2>1. r \in ListenerRecord
    BY DEF TypeOK, Typed, CallRecord, ListenerRecord
  <2>2. listener' = [listener EXCEPT ![op[t].id] = r]
    BY <1>1 DEF AddSubscription
  <2>3. ListenerBecomes(op[t].id, op[t].channel, op[t].sub, FALSE, "listening", 0)
    BY <1>0, <2>1, <2>2, ListenerUpdated
  <2> QED
    BY <1>0, <1>1, <2>3, Finishing DEF AddSubscription, IsMissing, BrokerSubs,
       Listening, Adds
<1>2. CASE ~IsMissing(op[t].channel)
  BY <1>0, <1>2, SteppingOnly DEF AddSubscription, IsMissing, BrokerSubs, Listening, Refuses
<1> QED
  BY <1>1, <1>2

LEMMA UnsubscribeStep ==
  ASSUME TypeOK, NEW t \in Threads, Unsubscribe(t)
  PROVE  /\ op[t].at = "unsubscribe" /\ ~crashed
         /\ open' = open \ {op[t].sub} /\ active' = active \ {op[t].sub}
         /\ offered' \in [Ids -> Nat \cup {Fault}]
         /\ \A s \in Ids : offered'[s] = IF s = op[t].sub THEN 0 ELSE offered[s]
         /\ crashed' \in BOOLEAN /\ (crashed' <=> op[t].sub \notin open)
         /\ OpEnds(t)
         /\ UNCHANGED <<connVars, cached, mapped, inbound, stuck, channelVars, brokerVars,
                        historyVars, calls>>
<1>1. OpEnds(t)
  BY Finishing DEF Unsubscribe
<1>2. offered' \in [Ids -> Nat \cup {Fault}]
      /\ \A s \in Ids : offered'[s] = IF s = op[t].sub THEN 0 ELSE offered[s]
  BY DEF Unsubscribe, TypeOK, Typed
<1>3. crashed' \in BOOLEAN /\ (crashed' <=> op[t].sub \notin open)
  BY DEF Unsubscribe
<1> QED
  BY <1>1, <1>2, <1>3 DEF Unsubscribe

LEMMA EndRequestStep ==
  ASSUME TypeOK, NEW t \in Threads, EndRequest(t)
  PROVE  /\ op[t].at = "await"
         /\ offered' \in [Ids -> Nat \cup {Fault}]
         /\ \A s \in Ids : offered'[s] \in {0, offered[s]}
         /\ OpEnds(t)
         /\ UNCHANGED <<connVars, subVars, inbound, stuck, channelVars, brokerVars,
                        historyVars, crashed, calls>>
<1>1. OpEnds(t)
  BY Finishing DEF EndRequest
<1>2. offered' \in [Ids -> Nat \cup {Fault}] /\ \A s \in Ids : offered'[s] \in {0, offered[s]}
  BY DEF EndRequest, TypeOK, Typed
<1> QED
  BY <1>1, <1>2 DEF EndRequest

LEMMA TakeMessageStep ==
  ASSUME TypeOK, NEW l \in Ids, TakeMessage(l)
  PROVE  /\ listener[l].at = "listening"
         /\ listener[l].on \in Ids /\ offered[listener[l].on] # 0
         /\ ListenerBecomes(l, listener[l].channel, listener[l].on, listener[l].stopped,
                            "sending", offered[listener[l].on])
         /\ offered' \in [Ids -> Nat \cup {Fault}]
         /\ \A s \in Ids : offered'[s] = IF s = listener[l].on THEN 0 ELSE offered[s]
         /\ UNCHANGED <<connVars, subVars, inbound, stuck, galactic, received, brokerVars,
                        historyVars, crashed, op, calls>>
<1> DEFINE s == listener[l].on
           r == [listener[l] EXCEPT !.at = "sending", !.holds = offered[s]]
<1>1. listener[l] \in ListenerRecord
  BY DEF TypeOK, Typed
<1>2. s \in Ids
  BY <1>1, BoundAssumption
  DEF TakeMessage, TypeOK, Typed, CallsCounted, MessagesCounted, Ids, ListenerRecord
<1>3. offered[s] \in Nat \cup {Fault}
  BY <1>2 DEF TypeOK, Typed
<1>4. r \in ListenerRecord /\ r.channel = listener[l].channel /\ r.on = s
      /\ r.stopped = listener[l].stopped /\ r.at = "sending" /\ r.holds = offered[s]
  BY <1>1, <1>3 DEF ListenerRecord
<1>5. listener' = [listener EXCEPT ![l] = r]
  BY DEF TakeMessage, TypeOK, Typed
<1>6. offered' \in [Ids -> Nat \cup {Fault}]
      /\ \A i \in Ids : offered'[i] = IF i = s THEN 0 ELSE offered[i]
  BY <1>2 DEF TakeMessage, TypeOK, Typed
<1> HIDE DEF r
<1>7. ListenerBecomes(l, listener[l].channel, s, listener[l].stopped, "sending",
                      offered[s])
  BY <1>4, <1>5, ListenerUpdated
<1> QED
  BY <1>2, <1>6, <1>7 DEF TakeMessage

LEMMA SendToChannelStep ==
  ASSUME TypeOK, Calls, NEW l \in Ids, SendToChannel(l)
  PROVE  /\ listener[l].at = "sending" /\ listener[l].channel \in Channels
         /\ ListenerBecomes(l, listener[l].channel, listener[l].on, listener[l].stopped,
                            "listening", 0)
         /\ received' = [received EXCEPT ![listener[l].channel] =
                           Append(received[listener[l].channel], listener[l].holds)]
         /\ UNCHANGED <<connVars, subVars, frameVars, galactic, brokerVars, historyVars,
                        crashed, op, calls>>
<1> DEFINE r == [listener[l] EXCEPT !.at = "listening", !.holds = 0]
<1>1. listener[l] \in ListenerRecord
  BY DEF TypeOK, Typed
<1>2. r \in ListenerRecord /\ r.channel = listener[l].channel /\ r.on = listener[l].on
      /\ r.stopped = listener[l].stopped /\ r.at = "listening" /\ r.holds = 0
  BY <1>1 DEF ListenerRecord
<1>3. listener' = [listener EXCEPT ![l] = r]
  BY DEF SendToChannel, TypeOK, Typed
<1>4. listener[l].channel \in Channels
  BY DEF SendToChannel, Calls, ListenersMade
<1> HIDE DEF r
<1> QED
  BY <1>2, <1>3, <1>4, ListenerUpdated DEF SendToChannel

LEMMA EndListenerStep ==
  ASSUME TypeOK, NEW l \in Ids, EndListener(l)
  PROVE  /\ listener[l].at = "listening"
         /\ listener[l].stopped \/ listener[l].on \notin open
         /\ ListenerBecomes(l, listener[l].channel, listener[l].on, listener[l].stopped,
                            "ended", listener[l].holds)
         /\ UNCHANGED <<connVars, subVars, frameVars, galactic, received, brokerVars,
                        historyVars, crashed, op, calls>>
<1> DEFINE r == [listener[l] EXCEPT !.at = "ended"]
<1>1. listener[l] \in ListenerRecord
  BY DEF TypeOK, Typed
<1>2. r \in ListenerRecord /\ r.channel = listener[l].channel /\ r.on = listener[l].on
      /\ r.stopped = listener[l].stopped /\ r.at = "ended"
      /\ r.holds = listener[l].holds
  BY <1>1 DEF ListenerRecord
<1>3. listener' = [listener EXCEPT ![l] = r]
  BY DEF EndListener, TypeOK, Typed
<1> HIDE DEF r
<1> QED
  BY <1>2, <1>3, ListenerUpdated DEF EndListener

\* The connection, the broker and the handlers of frames leave the calls and the
\* listeners alone; a connection that ends stays ended, and so do its
\* subscriptions.
Passive ==
  /\ UNCHANGED <<transport, cached, mapped, open, galactic, listener, received, historyVars,
                 crashed, op, calls>>
  /\ connection \in {"leaving", "down"} => connection' \in {"leaving", "down"}
  /\ ~lost' => ~lost /\ (active' = active \/ connection' \in {"leaving", "down"})

Active == \/ \E t \in Threads : Call(t)
          \/ \E l \in Ids : TakeMessage(l) \/ SendToChannel(l) \/ EndListener(l)

LEMMA StepCases ==
  ASSUME [Next]_vars
  PROVE  Passive \/ Active
<1>1. ASSUME ConnectAnswered PROVE Passive
  BY <1>1 DEF Passive, ConnectAnswered, ConnectUnchanged, subVars, frameVars,
      channelVars, brokerVars, historyVars
<1>2. ASSUME ConnectRefused PROVE Passive
  BY <1>2 DEF Passive, ConnectRefused, ConnectUnchanged, subVars, frameVars,
      channelVars, brokerVars, historyVars
<1>3. ASSUME LoseConnection PROVE Passive
  BY <1>3 DEF Passive, LoseConnection, EndSubscriptions, frameVars, channelVars, brokerVars,
      historyVars
<1>4. ASSUME Disconnect PROVE Passive
  BY <1>4 DEF Passive, Disconnect, ConnectUnchanged, subVars, frameVars,
      channelVars, brokerVars, historyVars
<1>5. ASSUME Disconnected PROVE Passive
  BY <1>5 DEF Passive, Disconnected, EndSubscriptions, frameVars, channelVars, brokerVars,
      historyVars
<1>6. ASSUME Publish PROVE Passive
  BY <1>6 DEF Passive, Publish, connVars, subVars, channelVars, historyVars
<1>7. ASSUME SendError PROVE Passive
  BY <1>7 DEF Passive, SendError, EndSubscriptions, connVars, subVars, channelVars, historyVars
<1>8. ASSUME HandleFrame PROVE Passive
  BY <1>8 DEF Passive, HandleFrame, connVars, subVars, channelVars,
      brokerVars, historyVars
<1>9. ASSUME NEW l \in Ids, HandleTCPFrame(l) PROVE Passive
  BY <1>9 DEF Passive, HandleTCPFrame, connVars, subVars, channelVars,
      brokerVars, historyVars
<1>10. CASE UNCHANGED vars
  BY <1>10 DEF Passive, vars, connVars, subVars, frameVars, channelVars,
      brokerVars, historyVars
<1> QED
  BY <1>1, <1>2, <1>3, <1>4, <1>5, <1>6, <1>7, <1>8, <1>9, <1>10 DEF Next, Active

\* The calls keep their form.
LEMMA CallFormKept ==
  TypeOK /\ Calls /\ [Next]_vars => CallForm'
<1> SUFFICES ASSUME TypeOK, Calls, [Next]_vars
             PROVE  CallForm'
  OBVIOUS
<1> USE NamesDiffer DEF Ids, CallForm, OpBecomes, OpEnds
<1>0. /\ CallForm /\ CallsApart /\ ListenersMade /\ calls \in Nat
      /\ \A t \in Threads : /\ op[t].id \in Nat /\ op[t].id <= calls
                            /\ op[t].sub \in Nat /\ op[t].sub <= calls
                            /\ op[t].id # 0 => op[t].id \in Ids
  BY BoundAssumption DEF TypeOK, Typed, CallsCounted, CallRecord, Calls, Ids
<1> USE <1>0
<1>1. ASSUME NEW t \in Threads, NEW c \in Channels, MarkGalactic(t, c)
      PROVE  CallForm'
  BY <1>1, MarkGalacticStep DEF Begins, connVars, subVars,
      frameVars, brokerVars
<1>2. ASSUME NEW t \in Threads, NEW c \in Channels, MarkLocal(t, c)
      PROVE  CallForm'
  BY <1>2, MarkLocalStep DEF Begins, connVars, subVars,
      frameVars, brokerVars
<1>3. ASSUME NEW t \in Threads, RequestResponse(t) PROVE CallForm'
  BY <1>3, RequestResponseStep DEF Begins, connVars,
      subVars, frameVars, channelVars, brokerVars
<1>4. ASSUME NEW t \in Threads, Lookup(t) PROVE CallForm'
  BY <1>4, LookupStep DEF connVars, subVars, frameVars, channelVars,
      brokerVars, WhenSubscribed
<1>5. ASSUME NEW t \in Threads, MakeSubscription(t) PROVE CallForm'
  BY <1>5, MakeSubscriptionStep DEF connVars, subVars, frameVars, channelVars,
      brokerVars, WhenSubscribed
<1>6. ASSUME NEW t \in Threads, AddSubscription(t) PROVE CallForm'
  <2>1. /\ op[t].at = "add" /\ op[t].kind = "galactic" /\ op[t].channel \in Channels
        /\ op[t].id \in Ids /\ (Adds(t) \/ Refuses(t))
        /\ UNCHANGED <<connVars, subVars, frameVars, galactic, received, brokerVars,
                       historyVars, crashed, calls>>
    BY <1>6, AddSubscriptionStep
  <2>2. CASE Adds(t)
    BY <2>1, <2>2 DEF Adds, subVars, historyVars
  <2>3. CASE Refuses(t)
    BY <2>1, <2>3 DEF Refuses, subVars, historyVars
  <2> QED
    BY <2>1, <2>2, <2>3
<1>7. ASSUME NEW t \in Threads, Unsubscribe(t) PROVE CallForm'
  BY <1>7, UnsubscribeStep DEF connVars, channelVars, brokerVars, historyVars
<1>8. ASSUME NEW t \in Threads, EndRequest(t) PROVE CallForm'
  BY <1>8, EndRequestStep DEF connVars, subVars, channelVars, brokerVars,
      historyVars
<1>9. ASSUME NEW l \in Ids, TakeMessage(l) PROVE CallForm'
  BY <1>9, TakeMessageStep DEF connVars, subVars, brokerVars, historyVars
<1>10. ASSUME NEW l \in Ids, SendToChannel(l) PROVE CallForm'
  BY <1>10, SendToChannelStep DEF connVars, subVars, frameVars, brokerVars,
      historyVars
<1>11. ASSUME NEW l \in Ids, EndListener(l) PROVE CallForm'
  BY <1>11, EndListenerStep DEF connVars, subVars, frameVars, brokerVars,
      historyVars
<1>12. CASE Passive
  BY <1>12 DEF Passive, historyVars
<1>13. ASSUME NEW t \in Threads, CheckSubscribed(t) PROVE CallForm'
  BY <1>13, CheckSubscribedStep DEF connVars, subVars, frameVars, channelVars,
      brokerVars, historyVars
<1>14. ASSUME NEW t \in Threads, CloseSubscriptions(t) PROVE CallForm'
  BY <1>14, CloseSubscriptionsStep DEF connVars, subVars, frameVars, brokerVars,
      historyVars
<1>15. ASSUME NEW t \in Threads, FailSubscription(t) PROVE CallForm'
  BY <1>15, FailSubscriptionStep DEF connVars, subVars, frameVars, channelVars,
      brokerVars
<1> QED
  BY <1>1, <1>2, <1>3, <1>4, <1>5, <1>6, <1>7, <1>8, <1>9, <1>10, <1>11,
     <1>12, <1>13, <1>14, <1>15, StepCases DEF Active, Call

\* The calls stay apart: one that begins has a number of its own.
LEMMA CallsApartKept ==
  TypeOK /\ Calls /\ [Next]_vars => CallsApart'
<1> SUFFICES ASSUME TypeOK, Calls, [Next]_vars
             PROVE  CallsApart'
  OBVIOUS
<1> USE NamesDiffer DEF Ids, CallForm, CallsApart, OpBecomes, OpEnds
<1>0. /\ CallForm /\ CallsApart /\ ListenersMade /\ calls \in Nat
      /\ \A t \in Threads : /\ op[t].id \in Nat /\ op[t].id <= calls
                            /\ op[t].sub \in Nat /\ op[t].sub <= calls
                            /\ op[t].id # 0 => op[t].id \in Ids
  BY BoundAssumption DEF TypeOK, Typed, CallsCounted, CallRecord, Calls, Ids
<1> USE <1>0
<1>1. ASSUME NEW t \in Threads, NEW c \in Channels, MarkGalactic(t, c)
      PROVE  CallsApart'
  BY <1>1, MarkGalacticStep DEF Begins, connVars, subVars,
      frameVars, brokerVars
<1>2. ASSUME NEW t \in Threads, NEW c \in Channels, MarkLocal(t, c)
      PROVE  CallsApart'
  BY <1>2, MarkLocalStep DEF Begins, connVars, subVars,
      frameVars, brokerVars
<1>3. ASSUME NEW t \in Threads, RequestResponse(t) PROVE CallsApart'
  BY <1>3, RequestResponseStep DEF Begins, connVars,
      subVars, frameVars, channelVars, brokerVars
<1>4. ASSUME NEW t \in Threads, Lookup(t) PROVE CallsApart'
  BY <1>4, LookupStep DEF connVars, subVars, frameVars, channelVars,
      brokerVars, WhenSubscribed
<1>5. ASSUME NEW t \in Threads, MakeSubscription(t) PROVE CallsApart'
  BY <1>5, MakeSubscriptionStep DEF connVars, subVars, frameVars, channelVars,
      brokerVars, WhenSubscribed
<1>6. ASSUME NEW t \in Threads, AddSubscription(t) PROVE CallsApart'
  <2>1. /\ op[t].at = "add" /\ op[t].kind = "galactic" /\ op[t].channel \in Channels
        /\ op[t].id \in Ids /\ (Adds(t) \/ Refuses(t))
        /\ UNCHANGED <<connVars, subVars, frameVars, galactic, received, brokerVars,
                       historyVars, crashed, calls>>
    BY <1>6, AddSubscriptionStep
  <2>2. CASE Adds(t)
    BY <2>1, <2>2 DEF Adds, subVars, historyVars
  <2>3. CASE Refuses(t)
    BY <2>1, <2>3 DEF Refuses, subVars, historyVars
  <2> QED
    BY <2>1, <2>2, <2>3
<1>7. ASSUME NEW t \in Threads, Unsubscribe(t) PROVE CallsApart'
  BY <1>7, UnsubscribeStep DEF connVars, channelVars, brokerVars, historyVars
<1>8. ASSUME NEW t \in Threads, EndRequest(t) PROVE CallsApart'
  BY <1>8, EndRequestStep DEF connVars, subVars, channelVars, brokerVars,
      historyVars
<1>9. ASSUME NEW l \in Ids, TakeMessage(l) PROVE CallsApart'
  BY <1>9, TakeMessageStep DEF connVars, subVars, brokerVars, historyVars
<1>10. ASSUME NEW l \in Ids, SendToChannel(l) PROVE CallsApart'
  BY <1>10, SendToChannelStep DEF connVars, subVars, frameVars, brokerVars,
      historyVars
<1>11. ASSUME NEW l \in Ids, EndListener(l) PROVE CallsApart'
  BY <1>11, EndListenerStep DEF connVars, subVars, frameVars, brokerVars,
      historyVars
<1>12. CASE Passive
  BY <1>12 DEF Passive, historyVars
<1>13. ASSUME NEW t \in Threads, CheckSubscribed(t) PROVE CallsApart'
  BY <1>13, CheckSubscribedStep DEF connVars, subVars, frameVars, channelVars,
      brokerVars, historyVars
<1>14. ASSUME NEW t \in Threads, CloseSubscriptions(t) PROVE CallsApart'
  BY <1>14, CloseSubscriptionsStep DEF connVars, subVars, frameVars, brokerVars,
      historyVars
<1>15. ASSUME NEW t \in Threads, FailSubscription(t) PROVE CallsApart'
  BY <1>15, FailSubscriptionStep DEF connVars, subVars, frameVars, channelVars,
      brokerVars
<1> QED
  BY <1>1, <1>2, <1>3, <1>4, <1>5, <1>6, <1>7, <1>8, <1>9, <1>10, <1>11,
     <1>12, <1>13, <1>14, <1>15, StepCases DEF Active, Call

\* Only the call that ends as AddSubscription makes the listener of its number.
LEMMA ListenersMadeKept ==
  TypeOK /\ Calls /\ [Next]_vars => ListenersMade'
<1> SUFFICES ASSUME TypeOK, Calls, [Next]_vars
             PROVE  ListenersMade'
  OBVIOUS
<1> USE NamesDiffer DEF Ids, CallForm, CallsApart, ListenersMade, Unmade, OpBecomes, OpEnds,
        ListenerBecomes, Stopped
<1>0. /\ CallForm /\ CallsApart /\ ListenersMade /\ calls \in Nat
      /\ \A t \in Threads : /\ op[t].id \in Nat /\ op[t].id <= calls
                            /\ op[t].sub \in Nat /\ op[t].sub <= calls
                            /\ op[t].id # 0 => op[t].id \in Ids
  BY BoundAssumption DEF TypeOK, Typed, CallsCounted, CallRecord, Calls, Ids
<1> USE <1>0
<1>1. ASSUME NEW t \in Threads, NEW c \in Channels, MarkGalactic(t, c)
      PROVE  ListenersMade'
  BY <1>1, MarkGalacticStep DEF Begins, connVars, subVars,
      frameVars, brokerVars
<1>2. ASSUME NEW t \in Threads, NEW c \in Channels, MarkLocal(t, c)
      PROVE  ListenersMade'
  BY <1>2, MarkLocalStep DEF Begins, connVars, subVars,
      frameVars, brokerVars
<1>3. ASSUME NEW t \in Threads, RequestResponse(t) PROVE ListenersMade'
  BY <1>3, RequestResponseStep DEF Begins, connVars,
      subVars, frameVars, channelVars, brokerVars
<1>4. ASSUME NEW t \in Threads, Lookup(t) PROVE ListenersMade'
  BY <1>4, LookupStep DEF connVars, subVars, frameVars, channelVars,
      brokerVars, WhenSubscribed
<1>5. ASSUME NEW t \in Threads, MakeSubscription(t) PROVE ListenersMade'
  BY <1>5, MakeSubscriptionStep DEF connVars, subVars, frameVars, channelVars,
      brokerVars, WhenSubscribed
<1>6. ASSUME NEW t \in Threads, AddSubscription(t) PROVE ListenersMade'
  <2>1. /\ op[t].at = "add" /\ op[t].kind = "galactic" /\ op[t].channel \in Channels
        /\ op[t].id \in Ids /\ (Adds(t) \/ Refuses(t))
        /\ UNCHANGED <<connVars, subVars, frameVars, galactic, received, brokerVars,
                       historyVars, crashed, calls>>
    BY <1>6, AddSubscriptionStep
  <2>2. CASE Adds(t)
    BY <2>1, <2>2 DEF Adds, subVars, historyVars
  <2>3. CASE Refuses(t)
    BY <2>1, <2>3 DEF Refuses, subVars, historyVars
  <2> QED
    BY <2>1, <2>2, <2>3
<1>7. ASSUME NEW t \in Threads, Unsubscribe(t) PROVE ListenersMade'
  BY <1>7, UnsubscribeStep DEF connVars, channelVars, brokerVars, historyVars
<1>8. ASSUME NEW t \in Threads, EndRequest(t) PROVE ListenersMade'
  BY <1>8, EndRequestStep DEF connVars, subVars, channelVars, brokerVars,
      historyVars
<1>9. ASSUME NEW l \in Ids, TakeMessage(l) PROVE ListenersMade'
  BY <1>9, TakeMessageStep DEF connVars, subVars, brokerVars, historyVars
<1>10. ASSUME NEW l \in Ids, SendToChannel(l) PROVE ListenersMade'
  BY <1>10, SendToChannelStep DEF connVars, subVars, frameVars, brokerVars,
      historyVars
<1>11. ASSUME NEW l \in Ids, EndListener(l) PROVE ListenersMade'
  BY <1>11, EndListenerStep DEF connVars, subVars, frameVars, brokerVars,
      historyVars
<1>12. CASE Passive
  BY <1>12 DEF Passive, historyVars
<1>13. ASSUME NEW t \in Threads, CheckSubscribed(t) PROVE ListenersMade'
  BY <1>13, CheckSubscribedStep DEF connVars, subVars, frameVars, channelVars,
      brokerVars, historyVars
<1>14. ASSUME NEW t \in Threads, CloseSubscriptions(t) PROVE ListenersMade'
  BY <1>14, CloseSubscriptionsStep DEF connVars, subVars, frameVars, brokerVars,
      historyVars
<1>15. ASSUME NEW t \in Threads, FailSubscription(t) PROVE ListenersMade'
  BY <1>15, FailSubscriptionStep DEF connVars, subVars, frameVars, channelVars,
      brokerVars
<1> QED
  BY <1>1, <1>2, <1>3, <1>4, <1>5, <1>6, <1>7, <1>8, <1>9, <1>10, <1>11,
     <1>12, <1>13, <1>14, <1>15, StepCases DEF Active, Call

\* A listener is added to a channel without one, which is galactic.
LEMMA MarksKept ==
  TypeOK /\ Calls /\ MarksRule /\ [Next]_vars => MarksRule'
<1> SUFFICES ASSUME TypeOK, Calls, MarksRule, [Next]_vars
             PROVE  MarksRule'
  OBVIOUS
<1> USE NamesDiffer DEF CallForm, CallsApart, ListenersMade, Unmade, MarksRule, Listening,
        OpBecomes, OpEnds, ListenerBecomes, Stopped
<1>0. /\ CallForm /\ CallsApart /\ ListenersMade
      /\ listener \in [Ids -> ListenerRecord] /\ galactic \subseteq Channels
  BY DEF TypeOK, Typed, Calls
<1> USE <1>0
<1>1. ASSUME NEW t \in Threads, NEW c \in Channels, MarkGalactic(t, c)
      PROVE  MarksRule'
  BY <1>1, MarkGalacticStep DEF Begins, connVars, subVars,
      frameVars, brokerVars
<1>2. ASSUME NEW t \in Threads, NEW c \in Channels, MarkLocal(t, c)
      PROVE  MarksRule'
  BY <1>2, MarkLocalStep DEF Begins, connVars, subVars,
      frameVars, brokerVars
<1>3. ASSUME NEW t \in Threads, RequestResponse(t) PROVE MarksRule'
  BY <1>3, RequestResponseStep DEF Begins, connVars,
      subVars, frameVars, channelVars, brokerVars
<1>4. ASSUME NEW t \in Threads, Lookup(t) PROVE MarksRule'
  BY <1>4, LookupStep DEF connVars, subVars, frameVars, channelVars,
      brokerVars, WhenSubscribed
<1>5. ASSUME NEW t \in Threads, MakeSubscription(t) PROVE MarksRule'
  BY <1>5, MakeSubscriptionStep DEF connVars, subVars, frameVars, channelVars,
      brokerVars, WhenSubscribed
<1>6. ASSUME NEW t \in Threads, AddSubscription(t) PROVE MarksRule'
  <2>1. /\ op[t].at = "add" /\ op[t].kind = "galactic" /\ op[t].channel \in Channels
        /\ op[t].id \in Ids /\ (Adds(t) \/ Refuses(t))
        /\ UNCHANGED <<connVars, subVars, frameVars, galactic, received, brokerVars,
                       historyVars, crashed, calls>>
    BY <1>6, AddSubscriptionStep
  <2>2. CASE Adds(t)
    BY <2>1, <2>2 DEF Adds, subVars, historyVars
  <2>3. CASE Refuses(t)
    BY <2>1, <2>3 DEF Refuses, subVars, historyVars
  <2> QED
    BY <2>1, <2>2, <2>3
<1>7. ASSUME NEW t \in Threads, Unsubscribe(t) PROVE MarksRule'
  BY <1>7, UnsubscribeStep DEF connVars, channelVars, brokerVars, historyVars
<1>8. ASSUME NEW t \in Threads, EndRequest(t) PROVE MarksRule'
  BY <1>8, EndRequestStep DEF connVars, subVars, channelVars, brokerVars,
      historyVars
<1>9. ASSUME NEW l \in Ids, TakeMessage(l) PROVE MarksRule'
  BY <1>9, TakeMessageStep DEF connVars, subVars, brokerVars, historyVars
<1>10. ASSUME NEW l \in Ids, SendToChannel(l) PROVE MarksRule'
  BY <1>10, SendToChannelStep DEF connVars, subVars, frameVars, brokerVars,
      historyVars
<1>11. ASSUME NEW l \in Ids, EndListener(l) PROVE MarksRule'
  BY <1>11, EndListenerStep DEF connVars, subVars, frameVars, brokerVars,
      historyVars
<1>12. CASE Passive
  BY <1>12 DEF Passive, historyVars
<1>13. ASSUME NEW t \in Threads, CheckSubscribed(t) PROVE MarksRule'
  BY <1>13, CheckSubscribedStep DEF connVars, subVars, frameVars, channelVars,
      brokerVars, historyVars
<1>14. ASSUME NEW t \in Threads, CloseSubscriptions(t) PROVE MarksRule'
  BY <1>14, CloseSubscriptionsStep DEF connVars, subVars, frameVars, brokerVars,
      historyVars
<1>15. ASSUME NEW t \in Threads, FailSubscription(t) PROVE MarksRule'
  BY <1>15, FailSubscriptionStep DEF connVars, subVars, frameVars, channelVars,
      brokerVars
<1> QED
  BY <1>1, <1>2, <1>3, <1>4, <1>5, <1>6, <1>7, <1>8, <1>9, <1>10, <1>11,
     <1>12, <1>13, <1>14, <1>15, StepCases DEF Active, Call

\* A subscription that was handed out once keeps its one owner.
LEMMA OwnKept ==
  TypeOK /\ Calls /\ MarksRule /\ OwnSubscriptions /\ [Next]_vars => OwnSubscriptions'
<1> SUFFICES ASSUME TypeOK, Calls, MarksRule, OwnSubscriptions, [Next]_vars
             PROVE  OwnSubscriptions'
  OBVIOUS
<1> USE NamesDiffer DEF CallForm, CallsApart, ListenersMade, Unmade, MarksRule, Listening,
        OwnSubscriptions, OpBecomes, OpEnds, ListenerBecomes, Stopped
<1>0. /\ CallForm /\ CallsApart /\ ListenersMade /\ calls \in Nat /\ open \subseteq Ids
      /\ \A t \in Threads : /\ op[t].id \in Nat /\ op[t].id <= calls
                            /\ op[t].sub \in Nat /\ op[t].sub <= calls
                            /\ op[t].id # 0 => op[t].id \in Ids
  BY BoundAssumption DEF TypeOK, Typed, CallsCounted, CallRecord, Calls, Ids
<1> USE <1>0
<1>1. ASSUME NEW t \in Threads, NEW c \in Channels, MarkGalactic(t, c)
      PROVE  OwnSubscriptions'
  BY <1>1, MarkGalacticStep DEF Begins, connVars, subVars,
      frameVars, brokerVars
<1>2. ASSUME NEW t \in Threads, NEW c \in Channels, MarkLocal(t, c)
      PROVE  OwnSubscriptions'
  BY <1>2, MarkLocalStep DEF Begins, connVars, subVars,
      frameVars, brokerVars
<1>3. ASSUME NEW t \in Threads, RequestResponse(t) PROVE OwnSubscriptions'
  BY <1>3, RequestResponseStep DEF Begins, connVars,
      subVars, frameVars, channelVars, brokerVars
<1>4. ASSUME NEW t \in Threads, Lookup(t) PROVE OwnSubscriptions'
  BY <1>4, LookupStep DEF connVars, subVars, frameVars, channelVars,
      brokerVars, WhenSubscribed
<1>5. ASSUME NEW t \in Threads, MakeSubscription(t) PROVE OwnSubscriptions'
  BY <1>5, MakeSubscriptionStep DEF connVars, subVars, frameVars, channelVars,
      brokerVars, WhenSubscribed
<1>6. ASSUME NEW t \in Threads, AddSubscription(t) PROVE OwnSubscriptions'
  <2>1. /\ op[t].at = "add" /\ op[t].kind = "galactic" /\ op[t].channel \in Channels
        /\ op[t].id \in Ids /\ (Adds(t) \/ Refuses(t))
        /\ UNCHANGED <<connVars, subVars, frameVars, galactic, received, brokerVars,
                       historyVars, crashed, calls>>
    BY <1>6, AddSubscriptionStep
  <2>2. CASE Adds(t)
    BY <2>1, <2>2 DEF Adds, subVars, historyVars
  <2>3. CASE Refuses(t)
    BY <2>1, <2>3 DEF Refuses, subVars, historyVars
  <2> QED
    BY <2>1, <2>2, <2>3
<1>7. ASSUME NEW t \in Threads, Unsubscribe(t) PROVE OwnSubscriptions'
  BY <1>7, UnsubscribeStep DEF connVars, channelVars, brokerVars, historyVars
<1>8. ASSUME NEW t \in Threads, EndRequest(t) PROVE OwnSubscriptions'
  BY <1>8, EndRequestStep DEF connVars, subVars, channelVars, brokerVars,
      historyVars
<1>9. ASSUME NEW l \in Ids, TakeMessage(l) PROVE OwnSubscriptions'
  BY <1>9, TakeMessageStep DEF connVars, subVars, brokerVars, historyVars
<1>10. ASSUME NEW l \in Ids, SendToChannel(l) PROVE OwnSubscriptions'
  BY <1>10, SendToChannelStep DEF connVars, subVars, frameVars, brokerVars,
      historyVars
<1>11. ASSUME NEW l \in Ids, EndListener(l) PROVE OwnSubscriptions'
  BY <1>11, EndListenerStep DEF connVars, subVars, frameVars, brokerVars,
      historyVars
<1>12. CASE Passive
  BY <1>12 DEF Passive, historyVars
<1>13. ASSUME NEW t \in Threads, CheckSubscribed(t) PROVE OwnSubscriptions'
  BY <1>13, CheckSubscribedStep DEF connVars, subVars, frameVars, channelVars,
      brokerVars, historyVars
<1>14. ASSUME NEW t \in Threads, CloseSubscriptions(t) PROVE OwnSubscriptions'
  BY <1>14, CloseSubscriptionsStep DEF connVars, subVars, frameVars, brokerVars,
      historyVars
<1>15. ASSUME NEW t \in Threads, FailSubscription(t) PROVE OwnSubscriptions'
  BY <1>15, FailSubscriptionStep DEF connVars, subVars, frameVars, channelVars,
      brokerVars
<1> QED
  BY <1>1, <1>2, <1>3, <1>4, <1>5, <1>6, <1>7, <1>8, <1>9, <1>10, <1>11,
     <1>12, <1>13, <1>14, <1>15, StepCases DEF Active, Call

\* The calls and the listeners keep the types.
LEMMA TypedKept ==
  TypeOK /\ Calls /\ Active => Typed'
<1> SUFFICES ASSUME TypeOK, Calls, Active
             PROVE  Typed'
  OBVIOUS
<1> USE DEF Typed, OpBecomes, OpEnds, ListenerBecomes, Stopped
<1>0. /\ Typed
      /\ calls \in Nat /\ published \in Nat
      /\ \A t \in Threads : op[t].id \in Nat /\ op[t].sub \in Nat
      /\ \A l \in Ids : listener[l].on \in Nat /\ listener[l].holds \in Nat \cup {Fault}
  BY BoundAssumption DEF TypeOK, Typed, CallRecord, ListenerRecord
<1> USE <1>0
<1>1. ASSUME NEW t \in Threads, NEW c \in Channels, MarkGalactic(t, c)
      PROVE  Typed'
  BY <1>1, MarkGalacticStep DEF Begins, connVars, subVars,
      frameVars, brokerVars
<1>2. ASSUME NEW t \in Threads, NEW c \in Channels, MarkLocal(t, c)
      PROVE  Typed'
  BY <1>2, MarkLocalStep DEF Begins, connVars, subVars,
      frameVars, brokerVars
<1>3. ASSUME NEW t \in Threads, RequestResponse(t) PROVE Typed'
  BY <1>3, RequestResponseStep DEF Begins, connVars,
      subVars, frameVars, channelVars, brokerVars
<1>4. ASSUME NEW t \in Threads, Lookup(t) PROVE Typed'
  BY <1>4, LookupStep DEF connVars, subVars, frameVars, channelVars,
      brokerVars, WhenSubscribed
<1>5. ASSUME NEW t \in Threads, MakeSubscription(t) PROVE Typed'
  BY <1>5, MakeSubscriptionStep DEF connVars, subVars, frameVars, channelVars,
      brokerVars, WhenSubscribed
<1>6. ASSUME NEW t \in Threads, AddSubscription(t) PROVE Typed'
  <2>1. /\ op[t].at = "add" /\ op[t].kind = "galactic" /\ op[t].channel \in Channels
        /\ op[t].id \in Ids /\ (Adds(t) \/ Refuses(t))
        /\ UNCHANGED <<connVars, subVars, frameVars, galactic, received, brokerVars,
                       historyVars, crashed, calls>>
    BY <1>6, AddSubscriptionStep
  <2>2. CASE Adds(t)
    BY <2>1, <2>2 DEF Adds, connVars, subVars, frameVars, brokerVars, historyVars
  <2>3. CASE Refuses(t)
    BY <2>1, <2>3 DEF Refuses, connVars, subVars, frameVars, brokerVars, historyVars
  <2> QED
    BY <2>1, <2>2, <2>3
<1>7. ASSUME NEW t \in Threads, Unsubscribe(t) PROVE Typed'
  <2>1. /\ open' = open \ {op[t].sub} /\ offered' \in [Ids -> Nat \cup {Fault}]
        /\ \A s \in Ids : offered'[s] = IF s = op[t].sub THEN 0 ELSE offered[s]
    BY <1>7, UnsubscribeStep
  <2>2. \A s \in Ids : offered'[s] # 0 => s \in open'
    BY <2>1
  <2> QED
    BY <1>7, <2>2, UnsubscribeStep DEF connVars, channelVars, brokerVars, historyVars
<1>8. ASSUME NEW t \in Threads, EndRequest(t) PROVE Typed'
  BY <1>8, EndRequestStep DEF connVars, subVars, channelVars, brokerVars,
      historyVars
<1>9. ASSUME NEW l \in Ids, TakeMessage(l) PROVE Typed'
  BY <1>9, TakeMessageStep DEF connVars, subVars, brokerVars, historyVars
<1>10. ASSUME NEW l \in Ids, SendToChannel(l) PROVE Typed'
  <2>1. Append(received[listener[l].channel], listener[l].holds) \in Seq(Nat \cup {Fault})
    BY <1>10, SendToChannelStep
  <2>2. received' \in [Channels -> Seq(Nat \cup {Fault})]
    BY <1>10, <2>1, SendToChannelStep
  <2> QED
    BY <1>10, <2>2, SendToChannelStep
    DEF connVars, subVars, frameVars, brokerVars, historyVars
<1>11. ASSUME NEW l \in Ids, EndListener(l) PROVE Typed'
  BY <1>11, EndListenerStep DEF connVars, subVars, frameVars, brokerVars,
      historyVars
<1>13. ASSUME NEW t \in Threads, CheckSubscribed(t) PROVE Typed'
  BY <1>13, CheckSubscribedStep DEF connVars, subVars, frameVars, channelVars,
      brokerVars, historyVars
<1>14. ASSUME NEW t \in Threads, CloseSubscriptions(t) PROVE Typed'
  BY <1>14, CloseSubscriptionsStep DEF connVars, subVars, frameVars, brokerVars,
      historyVars
<1>15. ASSUME NEW t \in Threads, FailSubscription(t) PROVE Typed'
  BY <1>15, FailSubscriptionStep DEF connVars, subVars, frameVars, channelVars,
      brokerVars
<1> QED
  BY <1>1, <1>2, <1>3, <1>4, <1>5, <1>6, <1>7, <1>8, <1>9, <1>10, <1>11,
     <1>13, <1>14, <1>15 DEF Active, Call

\* The numbers of calls: a call has the next one.
LEMMA CallsCountedKept ==
  TypeOK /\ Calls /\ Active => CallsCounted'
<1> SUFFICES ASSUME TypeOK, Calls, Active
             PROVE  CallsCounted'
  OBVIOUS
<1> USE DEF CallsCounted, Ids, OpBecomes, OpEnds, ListenerBecomes, Stopped
<1>0. /\ CallsCounted /\ cached \in Nat /\ mapped \in Nat
      /\ calls \in Nat /\ published \in Nat
      /\ \A t \in Threads : op[t].id \in Nat /\ op[t].sub \in Nat
      /\ \A l \in Ids : listener[l].on \in Nat /\ listener[l].holds \in Nat \cup {Fault}
  BY BoundAssumption DEF TypeOK, Typed, CallRecord, ListenerRecord
<1> USE <1>0
<1>1. ASSUME NEW t \in Threads, NEW c \in Channels, MarkGalactic(t, c)
      PROVE  CallsCounted'
  BY <1>1, MarkGalacticStep DEF Begins, connVars, subVars,
      frameVars, brokerVars
<1>2. ASSUME NEW t \in Threads, NEW c \in Channels, MarkLocal(t, c)
      PROVE  CallsCounted'
  BY <1>2, MarkLocalStep DEF Begins, connVars, subVars, frameVars, brokerVars
<1>3. ASSUME NEW t \in Threads, RequestResponse(t) PROVE CallsCounted'
  BY <1>3, RequestResponseStep DEF Begins, connVars,
      subVars, frameVars, channelVars, brokerVars
<1>4. ASSUME NEW t \in Threads, Lookup(t) PROVE CallsCounted'
  BY <1>4, LookupStep DEF connVars, subVars, frameVars, channelVars,
      brokerVars, WhenSubscribed
<1>5. ASSUME NEW t \in Threads, MakeSubscription(t) PROVE CallsCounted'
  BY <1>5, MakeSubscriptionStep DEF connVars, subVars, frameVars, channelVars,
      brokerVars, WhenSubscribed
<1>6. ASSUME NEW t \in Threads, AddSubscription(t) PROVE CallsCounted'
  <2>1. /\ op[t].at = "add" /\ op[t].kind = "galactic" /\ op[t].channel \in Channels
        /\ op[t].id \in Ids /\ (Adds(t) \/ Refuses(t))
        /\ UNCHANGED <<connVars, subVars, frameVars, galactic, received, brokerVars,
                       historyVars, crashed, calls>>
    BY <1>6, AddSubscriptionStep
  <2>2. CASE Adds(t)
    BY <2>1, <2>2 DEF Adds, connVars, subVars, frameVars, brokerVars, historyVars
  <2>3. CASE Refuses(t)
    BY <2>1, <2>3 DEF Refuses, connVars, subVars, frameVars, brokerVars, historyVars
  <2> QED
    BY <2>1, <2>2, <2>3
<1>7. ASSUME NEW t \in Threads, Unsubscribe(t) PROVE CallsCounted'
  BY <1>7, UnsubscribeStep DEF connVars, channelVars, brokerVars, historyVars
<1>8. ASSUME NEW t \in Threads, EndRequest(t) PROVE CallsCounted'
  BY <1>8, EndRequestStep DEF connVars, subVars, channelVars, brokerVars,
      historyVars
<1>9. ASSUME NEW l \in Ids, TakeMessage(l) PROVE CallsCounted'
  BY <1>9, TakeMessageStep DEF connVars, subVars, brokerVars, historyVars
<1>10. ASSUME NEW l \in Ids, SendToChannel(l) PROVE CallsCounted'
  BY <1>10, SendToChannelStep DEF connVars, subVars, frameVars, brokerVars,
      historyVars
<1>11. ASSUME NEW l \in Ids, EndListener(l) PROVE CallsCounted'
  BY <1>11, EndListenerStep DEF connVars, subVars, frameVars, brokerVars,
      historyVars
<1>13. ASSUME NEW t \in Threads, CheckSubscribed(t) PROVE CallsCounted'
  BY <1>13, CheckSubscribedStep DEF connVars, subVars, frameVars, channelVars,
      brokerVars, historyVars
<1>14. ASSUME NEW t \in Threads, CloseSubscriptions(t) PROVE CallsCounted'
  <2>1. UNCHANGED <<calls, cached, mapped, open, shared>>
    BY <1>14, CloseSubscriptionsStep DEF subVars, historyVars
  <2>2. \A l \in Ids : listener'[l].on = listener[l].on
    BY <1>14, CloseSubscriptionsStep
  <2>3. \A u \in Threads : /\ op'[u].id \in {op[u].id, 0}
                           /\ \/ op'[u].sub \in {op[u].sub, 0}
                              \/ \E l \in Ids : op'[u].sub = listener[l].on
    BY <1>14, CloseSubscriptionsStep
  <2> QED
    BY <2>1, <2>2, <2>3
<1>15. ASSUME NEW t \in Threads, FailSubscription(t) PROVE CallsCounted'
  BY <1>15, FailSubscriptionStep DEF connVars, subVars, frameVars, channelVars,
      brokerVars
<1> QED
  BY <1>1, <1>2, <1>3, <1>4, <1>5, <1>6, <1>7, <1>8, <1>9, <1>10, <1>11,
     <1>13, <1>14, <1>15 DEF Active, Call

\* What Append does to a sequence.
LEMMA AppendingOne ==
  ASSUME NEW S, NEW q \in Seq(S), NEW x \in S
  PROVE  /\ Append(q, x) \in Seq(S)
         /\ \A i \in DOMAIN Append(q, x) :
              \/ i \in DOMAIN q /\ Append(q, x)[i] = q[i]
              \/ i \notin DOMAIN q /\ Append(q, x)[i] = x
  OBVIOUS

\* The numbers of messages: a listener takes one that was published.
LEMMA MessagesCountedKept ==
  TypeOK /\ Calls /\ Active => MessagesCounted'
<1> SUFFICES ASSUME TypeOK, Calls, Active
             PROVE  MessagesCounted'
  OBVIOUS
<1> USE NamesDiffer DEF MessagesCounted, Sent, OpBecomes, OpEnds, ListenerBecomes, Stopped
<1>0. /\ MessagesCounted /\ offered \in [Ids -> Nat \cup {Fault}]
      /\ received \in [Channels -> Seq(Nat \cup {Fault})]
      /\ calls \in Nat /\ published \in Nat
      /\ \A t \in Threads : op[t].id \in Nat /\ op[t].sub \in Nat
      /\ \A l \in Ids : listener[l].on \in Nat /\ listener[l].holds \in Nat \cup {Fault}
  BY BoundAssumption DEF TypeOK, Typed, CallRecord, ListenerRecord
<1> USE <1>0
<1>1. ASSUME NEW t \in Threads, NEW c \in Channels, MarkGalactic(t, c)
      PROVE  MessagesCounted'
  BY <1>1, MarkGalacticStep DEF Begins, connVars, subVars,
      frameVars, brokerVars
<1>2. ASSUME NEW t \in Threads, NEW c \in Channels, MarkLocal(t, c)
      PROVE  MessagesCounted'
  BY <1>2, MarkLocalStep DEF Begins, connVars, subVars, frameVars, brokerVars
<1>3. ASSUME NEW t \in Threads, RequestResponse(t) PROVE MessagesCounted'
  BY <1>3, RequestResponseStep DEF Begins, connVars,
      subVars, frameVars, channelVars, brokerVars
<1>4. ASSUME NEW t \in Threads, Lookup(t) PROVE MessagesCounted'
  BY <1>4, LookupStep DEF connVars, subVars, frameVars, channelVars,
      brokerVars, WhenSubscribed
<1>5. ASSUME NEW t \in Threads, MakeSubscription(t) PROVE MessagesCounted'
  BY <1>5, MakeSubscriptionStep DEF connVars, subVars, frameVars, channelVars,
      brokerVars, WhenSubscribed
<1>6. ASSUME NEW t \in Threads, AddSubscription(t) PROVE MessagesCounted'
  <2>1. /\ op[t].at = "add" /\ op[t].kind = "galactic" /\ op[t].channel \in Channels
        /\ op[t].id \in Ids /\ (Adds(t) \/ Refuses(t))
        /\ UNCHANGED <<connVars, subVars, frameVars, galactic, received, brokerVars,
                       historyVars, crashed, calls>>
    BY <1>6, AddSubscriptionStep
  <2>2. CASE Adds(t)
    <3>1. \A k \in Ids : k = op[t].id \/ listener'[k] = listener[k]
      BY <2>2 DEF Adds
    <3>2. listener'[op[t].id].holds = 0 /\ listener'[op[t].id].at = "listening"
      BY <2>2 DEF Adds
    <3>3. UNCHANGED <<offered, inbound, received, published>>
      BY <2>1 DEF frameVars, brokerVars
    <3> QED
      BY <3>1, <3>2, <3>3
  <2>3. CASE Refuses(t)
    BY <2>1, <2>3 DEF Refuses, connVars, subVars, frameVars, brokerVars, historyVars
  <2> QED
    BY <2>1, <2>2, <2>3
<1>7. ASSUME NEW t \in Threads, Unsubscribe(t) PROVE MessagesCounted'
  BY <1>7, UnsubscribeStep DEF connVars, channelVars, brokerVars, historyVars
<1>8. ASSUME NEW t \in Threads, EndRequest(t) PROVE MessagesCounted'
  <2>1. UNCHANGED <<listener, inbound, received, published>>
    BY <1>8, EndRequestStep DEF channelVars, brokerVars
  <2>2. \A s \in Ids : offered'[s] \in {0, offered[s]}
    BY <1>8, EndRequestStep
  <2>3. \A s \in Ids : offered'[s] \in Sent \cup {0}
    BY <2>2
  <2> QED
    BY <2>1, <2>3
<1>9. ASSUME NEW l \in Ids, TakeMessage(l) PROVE MessagesCounted'
  <2> DEFINE s == listener[l].on
  <2>1. /\ s \in Ids /\ offered[s] # 0 /\ UNCHANGED <<published, inbound, received>>
        /\ ListenerBecomes(l, listener[l].channel, s, listener[l].stopped, "sending",
                           offered[s])
        /\ \A i \in Ids : offered'[i] = IF i = s THEN 0 ELSE offered[i]
    BY <1>9, TakeMessageStep DEF brokerVars
  <2>2. \A i \in Ids : offered'[i] \in Sent \cup {0}
    BY <2>1
  <2>3. \A k \in Ids : /\ listener'[k].holds \in Sent \cup {0}
                       /\ listener'[k].at = "sending" => listener'[k].holds # 0
    BY <2>1
  <2> QED
    BY <2>1, <2>2, <2>3
<1>10. ASSUME NEW l \in Ids, SendToChannel(l) PROVE MessagesCounted'
  <2> DEFINE d == listener[l].channel
  <2>1. /\ d \in Channels /\ listener[l].at = "sending"
        /\ UNCHANGED <<published, inbound, offered>>
        /\ ListenerBecomes(l, d, listener[l].on, listener[l].stopped, "listening", 0)
        /\ received' = [received EXCEPT ![d] = Append(received[d], listener[l].holds)]
    BY <1>10, SendToChannelStep DEF frameVars, brokerVars
  <2>2. listener[l].holds \in Sent
    BY <2>1
  <2>3. /\ received[d] \in Seq(Nat \cup {Fault})
        /\ \A i \in DOMAIN received[d] : received[d][i] \in Sent
    BY <2>1
  <2>4. \A i \in DOMAIN Append(received[d], listener[l].holds) :
          Append(received[d], listener[l].holds)[i] \in Sent
    BY <2>2, <2>3, AppendingOne
  <2>5. \A k \in Ids : /\ listener'[k].holds \in Sent \cup {0}
                       /\ listener'[k].at = "sending" => listener'[k].holds # 0
    BY <2>1
  <2>6. \A c \in Channels : \A i \in DOMAIN received'[c] : received'[c][i] \in Sent
    BY <2>1, <2>4
  <2> QED
    BY <2>1, <2>5, <2>6
<1>11. ASSUME NEW l \in Ids, EndListener(l) PROVE MessagesCounted'
  BY <1>11, EndListenerStep DEF connVars, subVars, frameVars, brokerVars,
      historyVars
<1>13. ASSUME NEW t \in Threads, CheckSubscribed(t) PROVE MessagesCounted'
  BY <1>13, CheckSubscribedStep DEF connVars, subVars, frameVars, channelVars,
      brokerVars, historyVars
<1>14. ASSUME NEW t \in Threads, CloseSubscriptions(t) PROVE MessagesCounted'
  <2>1. \A k \in Ids : /\ listener'[k].holds = listener[k].holds
                       /\ listener'[k].at = listener[k].at
    BY <1>14, CloseSubscriptionsStep
  <2>2. UNCHANGED <<offered, inbound, received, published>>
    BY <1>14, CloseSubscriptionsStep DEF frameVars, brokerVars
  <2> QED
    BY <2>1, <2>2
<1>15. ASSUME NEW t \in Threads, FailSubscription(t) PROVE MessagesCounted'
  BY <1>15, FailSubscriptionStep DEF connVars, subVars, frameVars, channelVars,
      brokerVars
<1> QED
  BY <1>1, <1>2, <1>3, <1>4, <1>5, <1>6, <1>7, <1>8, <1>9, <1>10, <1>11,
     <1>13, <1>14, <1>15 DEF Active, Call

\* What copies of one frame do to the end of a queue.
LEMMA Appending ==
  ASSUME NEW S, NEW q \in Seq(S), NEW n \in Nat, NEW x \in S
  PROVE  /\ q \o [i \in 1..n |-> x] \in Seq(S)
         /\ Len(q \o [i \in 1..n |-> x]) = Len(q) + n
         /\ \A i \in DOMAIN (q \o [k \in 1..n |-> x]) :
              \/ i \in DOMAIN q /\ (q \o [k \in 1..n |-> x])[i] = q[i]
              \/ i \notin DOMAIN q /\ (q \o [k \in 1..n |-> x])[i] = x
<1>1. [i \in 1..n |-> x] \in Seq(S) /\ Len([i \in 1..n |-> x]) = n
  OBVIOUS
<1> DEFINE r == [i \in 1..n |-> x]
<1>2. \A i \in 1..n : r[i] = x
  OBVIOUS
<1> HIDE DEF r
<1>3. r \in Seq(S) /\ Len(r) = n
  BY <1>1 DEF r
<1> SUFFICES /\ q \o r \in Seq(S) /\ Len(q \o r) = Len(q) + n
             /\ \A i \in DOMAIN (q \o r) : \/ i \in DOMAIN q /\ (q \o r)[i] = q[i]
                                           \/ i \notin DOMAIN q /\ (q \o r)[i] = x
  BY DEF r
<1> QED
  BY <1>2, <1>3

\* The broker serves a finite number of subscriptions.
LEMMA ActiveIsFinite ==
  ASSUME TypeOK
  PROVE  Cardinality(active) \in Nat
<1>1. active \subseteq 1..calls /\ calls \in Nat
  BY BoundAssumption DEF TypeOK, Typed, CallsCounted
<1>2. IsFiniteSet(1..calls)
  BY <1>1, FS_Interval
<1> QED
  BY <1>1, <1>2, FS_Subset, FS_CardinalityType

\* What Publish puts at the end of a queue of frames: copies of one message.
LEMMA PublishStep ==
  ASSUME TypeOK, Publish
  PROVE  /\ published' = published + 1 /\ published' \in 0..MaxFrames
         /\ inbound' \in [Ids \cup {Socket} -> Seq(Nat \cup {Fault})]
         /\ \A q \in Ids \cup {Socket} : \A i \in DOMAIN inbound'[q] :
              \/ i \in DOMAIN inbound[q] /\ inbound'[q][i] = inbound[q][i]
              \/ i \notin DOMAIN inbound[q] /\ inbound'[q][i] = published + 1
<1> DEFINE S == Nat \cup {Fault}
<1>1. /\ inbound \in [Ids \cup {Socket} -> Seq(S)]
      /\ published \in 0..MaxFrames /\ published + 1 \in S
  BY BoundAssumption DEF TypeOK, Typed
<1>2. published' = published + 1 /\ published' \in 0..MaxFrames
  BY <1>1, BoundAssumption DEF Publish
<1>3. ASSUME NEW q \in Ids \cup {Socket}
      PROVE  /\ inbound'[q] \in Seq(S)
             /\ \A i \in DOMAIN inbound'[q] :
                  \/ i \in DOMAIN inbound[q] /\ inbound'[q][i] = inbound[q][i]
                  \/ i \notin DOMAIN inbound[q] /\ inbound'[q][i] = published + 1
  <2>1. PICK n \in Nat : inbound'[q] = inbound[q] \/ inbound'[q] = inbound[q] \o Copies(n)
    <3>1. inbound'[q] = inbound[q] \/ inbound'[q] = inbound[q] \o Copies(1)
            \/ inbound'[q] = inbound[q] \o Copies(Cardinality(active))
      BY <1>1 DEF Publish
    <3> QED
      BY <3>1, ActiveIsFinite
  <2>2. CASE inbound'[q] = inbound[q]
    BY <1>1, <2>2
  <2>3. CASE inbound'[q] = inbound[q] \o Copies(n)
    BY <1>1, <2>3, Appending DEF Copies
  <2> QED
    BY <2>1, <2>2, <2>3
<1>4. inbound' = [q \in Ids \cup {Socket} |-> inbound'[q]]
  BY <1>1 DEF Publish
<1> QED
  BY <1>2, <1>3, <1>4

\* A frame is taken from the head of its queue, and its message offered or dropped.
FrameTaken(q) ==
  /\ q \in Ids \cup {Socket} /\ inbound[q] # <<>>
  /\ inbound' \in [Ids \cup {Socket} -> Seq(Nat \cup {Fault})]
  /\ inbound'[q] = Tail(inbound[q])
  /\ \A r \in Ids \cup {Socket} : r # q => inbound'[r] = inbound[r]
  /\ offered' \in [Ids -> Nat \cup {Fault}]
  /\ \A s \in Ids : \/ offered'[s] = offered[s]
                    \/ /\ offered'[s] = Head(inbound[q])
                       /\ s \in open /\ s = (IF q = Socket THEN mapped ELSE q)

\* What taking a frame does to its queue.
LEMMA TakingFrames ==
  ASSUME TypeOK, NEW q \in Ids \cup {Socket}, inbound[q] # <<>>,
         inbound' = [inbound EXCEPT ![q] = Tail(@)]
  PROVE  /\ inbound' \in [Ids \cup {Socket} -> Seq(Nat \cup {Fault})]
         /\ inbound'[q] = Tail(inbound[q])
         /\ \A r \in Ids \cup {Socket} : r # q => inbound'[r] = inbound[r]
         /\ Head(inbound[q]) \in Sent
         /\ published \in Nat /\ offered \in [Ids -> Nat \cup {Fault}]
<1>1. inbound \in [Ids \cup {Socket} -> Seq(Nat \cup {Fault})] /\ inbound[q] # <<>>
  BY DEF TypeOK, Typed
<1>2. Tail(inbound[q]) \in Seq(Nat \cup {Fault}) /\ 1 \in DOMAIN inbound[q]
      /\ Head(inbound[q]) = inbound[q][1]
  BY <1>1
<1>3. Head(inbound[q]) \in Sent
  BY <1>2 DEF TypeOK, MessagesCounted
<1> QED
  BY <1>1, <1>2, <1>3, BoundAssumption DEF TypeOK, Typed

LEMMA HandleFrameStep ==
  ASSUME TypeOK, HandleFrame
  PROVE  FrameTaken(Socket) /\ HandlerIdle /\ stuck' \in BOOLEAN
<1>1. inbound[Socket] # <<>> /\ inbound' = [inbound EXCEPT ![Socket] = Tail(@)]
  BY DEF HandleFrame
<1> DEFINE f == Head(inbound[Socket])
<1>2. f \in 1..published \cup {Fault} /\ published \in Nat
      /\ offered \in [Ids -> Nat \cup {Fault}]
  BY <1>1, TakingFrames DEF Sent
<1>3. open \subseteq Ids /\ stuck \in BOOLEAN
  BY BoundAssumption DEF TypeOK, Typed, CallsCounted, Ids
<1> HIDE DEF f
<1>4. /\ offered' \in [Ids -> Nat \cup {Fault}] /\ stuck' \in BOOLEAN
      /\ \A s \in Ids : \/ offered'[s] = offered[s]
                        \/ offered'[s] = f /\ s \in open /\ s = mapped
  <2>1. CASE f = Fault
    BY <1>2, <2>1 DEF HandleFrame, f
  <2>2. CASE f # Fault
    BY <1>2, <1>3, <2>2 DEF HandleFrame, f
  <2> QED
    BY <2>1, <2>2
<1> QED
  BY <1>1, <1>4, TakingFrames DEF FrameTaken, HandleFrame, f

LEMMA HandleTCPFrameStep ==
  ASSUME TypeOK, NEW s \in Ids, HandleTCPFrame(s)
  PROVE  FrameTaken(s) /\ offered[s] = 0
<1>1. inbound[s] # <<>> /\ inbound' = [inbound EXCEPT ![s] = Tail(@)] /\ s # Socket
  BY BoundAssumption, NamesDiffer DEF HandleTCPFrame, Ids
<1> DEFINE f == Head(inbound[s])
<1>2. f \in 1..published \cup {Fault} /\ published \in Nat
      /\ offered \in [Ids -> Nat \cup {Fault}]
  BY <1>1, TakingFrames DEF Sent
<1> HIDE DEF f
<1>3. /\ offered' \in [Ids -> Nat \cup {Fault}]
      /\ \A r \in Ids : \/ offered'[r] = offered[r]
                        \/ offered'[r] = f /\ r \in open /\ r = s
  BY <1>2 DEF HandleTCPFrame, f
<1>4. /\ inbound' \in [Ids \cup {Socket} -> Seq(Nat \cup {Fault})]
      /\ inbound'[s] = Tail(inbound[s])
      /\ \A r \in Ids \cup {Socket} : r # s => inbound'[r] = inbound[r]
  BY <1>1, TakingFrames
<1>5. offered[s] = 0
  BY DEF HandleTCPFrame
<1> QED
  BY <1>1, <1>3, <1>4, <1>5 DEF FrameTaken, f

\* A fault is the last frame of a WebSocket, or of the subscriptions that it ends.
Faulting ==
  /\ inbound' \in [Ids \cup {Socket} -> Seq(Nat \cup {Fault})]
  /\ \A q \in Ids \cup {Socket} :
       \/ inbound'[q] = inbound[q]
       \/ /\ (q = Socket /\ transport = "ws") \/ (transport = "tcp" /\ q \in active)
          /\ \A i \in DOMAIN inbound'[q] :
               \/ i \in DOMAIN inbound[q] /\ inbound'[q][i] = inbound[q][i]
               \/ inbound'[q][i] = Fault
  /\ active' \subseteq active
  /\ UNCHANGED <<transport, cached, mapped, open, offered, stuck, channelVars, published,
                 historyVars, crashed, op, calls>>

LEMMA FaultingStep ==
  ASSUME TypeOK, LoseConnection \/ Disconnected \/ SendError
  PROVE  Faulting
<1> DEFINE S == Nat \cup {Fault}
<1>1. inbound \in [Ids \cup {Socket} -> Seq(S)] /\ Fault \in S
  BY DEF TypeOK, Typed
<1>2. ASSUME NEW q \in Ids \cup {Socket}
      PROVE  /\ Append(inbound[q], Fault) \in Seq(S)
             /\ \A i \in DOMAIN Append(inbound[q], Fault) :
                  \/ i \in DOMAIN inbound[q]
                       /\ Append(inbound[q], Fault)[i] = inbound[q][i]
                  \/ Append(inbound[q], Fault)[i] = Fault
  <2>1. inbound[q] \in Seq(S)
    BY <1>1
  <2> QED
    BY <1>1, <2>1, AppendingOne
<1>3. \/ EndSubscriptions
      \/ transport = "ws" /\ inbound' = [inbound EXCEPT ![Socket] = Append(@, Fault)]
           /\ UNCHANGED active
  BY DEF LoseConnection, Disconnected, SendError
<1>4. UNCHANGED <<transport, cached, mapped, open, offered, stuck, channelVars, published,
                  historyVars, crashed, op, calls>>
  BY DEF LoseConnection, Disconnected, SendError, brokerVars
<1>5. CASE EndSubscriptions
  <2>1. /\ active' = {}
        /\ inbound' = [q \in Ids \cup {Socket} |->
             IF transport = "tcp" /\ q \in active
             THEN Append(inbound[q], Fault) ELSE inbound[q]]
    BY <1>1, <1>5 DEF EndSubscriptions
  <2> QED
    BY <1>1, <1>2, <1>4, <2>1 DEF Faulting
<1>6. CASE /\ transport = "ws" /\ UNCHANGED active
           /\ inbound' = [inbound EXCEPT ![Socket] = Append(@, Fault)]
  <2>1. inbound' = [q \in Ids \cup {Socket} |->
          IF q = Socket THEN Append(inbound[q], Fault) ELSE inbound[q]]
    BY <1>1, <1>6
  <2> QED
    BY <1>1, <1>2, <1>4, <1>6, <2>1 DEF Faulting
<1> QED
  BY <1>3, <1>5, <1>6

\* A fault keeps the types and the numbers.
LEMMA FaultTyped ==
  ASSUME TypeOK, Faulting, lost' \in BOOLEAN, faults' \in 0..MaxFaults,
         connection' \in {"dialing", "failed", "hung", "up", "leaving", "down"}
  PROVE  Typed' /\ MessagesCounted'
<1>1. Typed /\ MessagesCounted
  BY DEF TypeOK
<1>2. Typed'
  BY <1>1 DEF Typed, Faulting, channelVars, historyVars
<1>3. \A q \in Ids \cup {Socket} : \A i \in DOMAIN inbound'[q] : inbound'[q][i] \in Sent
  BY <1>1 DEF MessagesCounted, Faulting, Sent
<1> QED
  BY <1>1, <1>2, <1>3 DEF MessagesCounted, Faulting, channelVars, Sent

\* A frame that is handled keeps the types and the numbers.
LEMMA FrameTyped ==
  ASSUME TypeOK, NEW q, FrameTaken(q), stuck' \in BOOLEAN,
         UNCHANGED <<transport, connection, lost, cached, mapped, open, active, galactic,
                     listener, received, published, faults, refused, raced, crossed, crashed,
                     op, calls>>
  PROVE  Typed' /\ MessagesCounted'
<1>0. Typed /\ MessagesCounted /\ q \in Ids \cup {Socket} /\ published \in Nat
  BY DEF TypeOK, Typed, FrameTaken
<1> DEFINE f == Head(inbound[q])
<1>1. /\ inbound[q] \in Seq(Nat \cup {Fault}) /\ inbound[q] # <<>>
      /\ inbound'[q] = Tail(inbound[q])
  BY <1>0 DEF Typed, FrameTaken
<1>2. /\ f = inbound[q][1] /\ 1 \in DOMAIN inbound[q]
      /\ \A i \in DOMAIN inbound'[q] : /\ i + 1 \in DOMAIN inbound[q]
                                       /\ inbound'[q][i] = inbound[q][i + 1]
  BY <1>1
<1>3. f \in Sent
  BY <1>0, <1>2 DEF MessagesCounted
<1> HIDE DEF f
<1>4. \A s \in Ids : /\ offered'[s] \in Sent \cup {0}
                     /\ offered'[s] # 0 => s \in open
  BY <1>0, <1>3 DEF FrameTaken, MessagesCounted, Typed, f
<1>5. \A r \in Ids \cup {Socket} : \A i \in DOMAIN inbound'[r] : inbound'[r][i] \in Sent
  <2>1. \A r \in Ids \cup {Socket} : r # q => inbound'[r] = inbound[r]
    BY <1>0 DEF FrameTaken, Typed
  <2>2. \A r \in Ids \cup {Socket} : \A i \in DOMAIN inbound[r] : inbound[r][i] \in Sent
    BY <1>0 DEF MessagesCounted
  <2> QED
    BY <1>0, <1>2, <2>1, <2>2
<1>6. Typed'
  BY <1>0, <1>4 DEF Typed, FrameTaken
<1>7. MessagesCounted'
  BY <1>0, <1>4, <1>5 DEF MessagesCounted, Sent
<1> QED
  BY <1>6, <1>7

\* Every step keeps the types and the numbers.
LEMMA TypeKept ==
  TypeOK /\ Calls /\ [Next]_vars => TypeOK'
<1> SUFFICES ASSUME TypeOK, Calls, [Next]_vars
             PROVE  TypeOK'
  OBVIOUS
<1>0. Typed /\ CallsCounted /\ MessagesCounted
  BY DEF TypeOK
<1> USE <1>0
<1>1. CallsCounted'
  BY CallsCountedKept, StepCases DEF Passive, CallsCounted, historyVars
<1>2. ASSUME ConnectAnswered PROVE Typed' /\ MessagesCounted'
  BY <1>2 DEF Typed, MessagesCounted, Sent, ConnectAnswered, ConnectUnchanged, connVars,
     subVars, frameVars, channelVars,
     brokerVars, historyVars
<1>3. ASSUME ConnectRefused PROVE Typed' /\ MessagesCounted'
  BY <1>3 DEF Typed, MessagesCounted, Sent, ConnectRefused, ConnectUnchanged, connVars,
     subVars, frameVars, channelVars,
     brokerVars, historyVars
<1>4. ASSUME LoseConnection PROVE Typed' /\ MessagesCounted'
  BY <1>4, FaultingStep, FaultTyped DEF LoseConnection, Typed, brokerVars
<1>5. ASSUME Disconnect PROVE Typed' /\ MessagesCounted'
  BY <1>5 DEF Typed, MessagesCounted, Sent, Disconnect, ConnectUnchanged, connVars, subVars,
     frameVars, channelVars,
     brokerVars, historyVars
<1>6. ASSUME Disconnected PROVE Typed' /\ MessagesCounted'
  BY <1>6, FaultingStep, FaultTyped DEF Disconnected, Typed, brokerVars
<1>7. ASSUME Publish PROVE Typed' /\ MessagesCounted'
  <2>1. Typed'
    BY <1>7, PublishStep DEF Typed, Publish, connVars, subVars, channelVars, historyVars
  <2>2. UNCHANGED <<listener, offered, received>>
    BY <1>7 DEF Publish, channelVars
  <2>3. published \in Nat
    BY DEF Typed
  <2>4. Sent \subseteq Sent' /\ published + 1 \in Sent'
    BY <1>7, <2>3, PublishStep DEF Sent
  <2>5. \A q \in Ids \cup {Socket} : \A i \in DOMAIN inbound'[q] : inbound'[q][i] \in Sent'
    BY <1>7, <2>4, PublishStep DEF MessagesCounted
  <2> QED
    BY <2>2, <2>1, <2>4, <2>5 DEF MessagesCounted
<1>8. ASSUME SendError PROVE Typed' /\ MessagesCounted'
  <2>1. faults' \in 0..MaxFaults /\ lost' \in BOOLEAN
    <3>1. faults \in 0..MaxFaults /\ lost \in BOOLEAN
      BY DEF Typed
    <3>2. faults < MaxFaults /\ faults' = faults + 1 /\ (lost' = lost \/ lost' = TRUE)
      BY <1>8 DEF SendError
    <3>3. faults' \in 0..MaxFaults
      BY <3>1, <3>2, BoundAssumption
    <3> QED
      BY <3>1, <3>2, <3>3
  <2> QED
    BY <1>8, <2>1, FaultingStep, FaultTyped DEF SendError, Typed
<1>9. ASSUME HandleFrame PROVE Typed' /\ MessagesCounted'
  <2>1. FrameTaken(Socket) /\ stuck' \in BOOLEAN
    BY <1>9, HandleFrameStep DEF Typed
  <2>2. UNCHANGED <<connVars, subVars, channelVars, brokerVars, historyVars, crashed, op,
                    calls>>
    BY <1>9 DEF HandleFrame
  <2> QED
    BY <2>1, <2>2, FrameTyped DEF connVars, subVars, channelVars, brokerVars, historyVars
<1>10. ASSUME NEW s \in Ids, HandleTCPFrame(s) PROVE Typed' /\ MessagesCounted'
  <2>1. FrameTaken(s) /\ stuck' \in BOOLEAN
    BY <1>10, HandleTCPFrameStep DEF Typed, HandleTCPFrame
  <2>2. UNCHANGED <<connVars, subVars, channelVars, brokerVars, historyVars, crashed, op,
                    calls>>
    BY <1>10 DEF HandleTCPFrame
  <2> QED
    BY <2>1, <2>2, FrameTyped DEF connVars, subVars, channelVars, brokerVars, historyVars
<1>11. ASSUME Active PROVE Typed' /\ MessagesCounted'
  BY <1>11, TypedKept, MessagesCountedKept
<1>12. ASSUME UNCHANGED vars PROVE Typed' /\ MessagesCounted'
  BY <1>12 DEF Typed, MessagesCounted, Sent, vars, connVars, subVars, frameVars, channelVars,
     brokerVars,
      historyVars
<1>13. Typed' /\ MessagesCounted'
  BY <1>2, <1>3, <1>4, <1>5, <1>6, <1>7, <1>8, <1>9, <1>10, <1>11, <1>12
  DEF Next, Active
<1> QED
  BY <1>1, <1>13 DEF TypeOK

\* A subscription that only one call owns is open when it is unsubscribed.
LEMMA PanicsKept ==
  TypeOK /\ Calls /\ OwnSubscriptions /\ PanicsOnlyIfSharedOrCut /\ [Next]_vars
    => PanicsOnlyIfSharedOrCut'
<1> SUFFICES ASSUME TypeOK, Calls, OwnSubscriptions, PanicsOnlyIfSharedOrCut,
                    [Next]_vars
             PROVE  PanicsOnlyIfSharedOrCut'
  OBVIOUS
<1> USE DEF PanicsOnlyIfSharedOrCut, OwnSubscriptions
<1>0. crashed => UNCHANGED vars
  BY DEF Next, Call, ConnectAnswered, ConnectRefused, LoseConnection, Disconnect,
     Disconnected, Begin, MarkGalactic, MarkLocal, RequestResponse, CheckSubscribed, Lookup,
     MakeSubscription, FailSubscription, AddSubscription, CloseSubscriptions, Unsubscribe,
     EndRequest, Publish, SendError, HandleFrame, HandleTCPFrame, TakeMessage,
     SendToChannel, EndListener
<1> SUFFICES ASSUME ~crashed PROVE PanicsOnlyIfSharedOrCut'
  BY <1>0 DEF vars, connVars, historyVars
<1>1. ASSUME NEW t \in Threads, NEW c \in Channels, MarkGalactic(t, c)
      PROVE  PanicsOnlyIfSharedOrCut'
  BY <1>1, MarkGalacticStep DEF Begins, connVars, subVars,
      frameVars, brokerVars
<1>2. ASSUME NEW t \in Threads, NEW c \in Channels, MarkLocal(t, c)
      PROVE  PanicsOnlyIfSharedOrCut'
  BY <1>2, MarkLocalStep DEF Begins, connVars, subVars,
      frameVars, brokerVars
<1>3. ASSUME NEW t \in Threads, RequestResponse(t) PROVE PanicsOnlyIfSharedOrCut'
  BY <1>3, RequestResponseStep DEF Begins, connVars,
      subVars, frameVars, channelVars, brokerVars
<1>4. ASSUME NEW t \in Threads, Lookup(t) PROVE PanicsOnlyIfSharedOrCut'
  BY <1>4, LookupStep DEF connVars, subVars, frameVars, channelVars,
      brokerVars, WhenSubscribed
<1>5. ASSUME NEW t \in Threads, MakeSubscription(t) PROVE PanicsOnlyIfSharedOrCut'
  BY <1>5, MakeSubscriptionStep DEF connVars, subVars, frameVars, channelVars,
      brokerVars, WhenSubscribed
<1>6. ASSUME NEW t \in Threads, AddSubscription(t) PROVE PanicsOnlyIfSharedOrCut'
  BY <1>6, AddSubscriptionStep DEF historyVars
<1>7. ASSUME NEW t \in Threads, Unsubscribe(t) PROVE PanicsOnlyIfSharedOrCut'
  BY <1>7, UnsubscribeStep DEF connVars, channelVars, brokerVars, historyVars
<1>8. ASSUME NEW t \in Threads, EndRequest(t) PROVE PanicsOnlyIfSharedOrCut'
  BY <1>8, EndRequestStep DEF connVars, subVars, channelVars, brokerVars,
      historyVars
<1>9. ASSUME NEW l \in Ids, TakeMessage(l) PROVE PanicsOnlyIfSharedOrCut'
  BY <1>9, TakeMessageStep DEF connVars, subVars, brokerVars, historyVars
<1>10. ASSUME NEW l \in Ids, SendToChannel(l) PROVE PanicsOnlyIfSharedOrCut'
  BY <1>10, SendToChannelStep DEF connVars, subVars, frameVars, brokerVars,
      historyVars
<1>11. ASSUME NEW l \in Ids, EndListener(l) PROVE PanicsOnlyIfSharedOrCut'
  BY <1>11, EndListenerStep DEF connVars, subVars, frameVars, brokerVars,
      historyVars
<1>12. CASE Passive
  BY <1>12 DEF Passive, historyVars
<1>13. ASSUME NEW t \in Threads, CheckSubscribed(t) PROVE PanicsOnlyIfSharedOrCut'
  BY <1>13, CheckSubscribedStep DEF connVars, subVars, frameVars, channelVars,
      brokerVars, historyVars
<1>14. ASSUME NEW t \in Threads, CloseSubscriptions(t) PROVE PanicsOnlyIfSharedOrCut'
  BY <1>14, CloseSubscriptionsStep DEF connVars, subVars, frameVars, brokerVars,
      historyVars
<1>15. ASSUME NEW t \in Threads, FailSubscription(t) PROVE PanicsOnlyIfSharedOrCut'
  BY <1>15 DEF FailSubscription, connVars
<1> QED
  BY <1>1, <1>2, <1>3, <1>4, <1>5, <1>6, <1>7, <1>8, <1>9, <1>10, <1>11,
     <1>12, <1>13, <1>14, <1>15, StepCases DEF Active, Call

\* A subscription that somebody listens to, or will, stays served.
LEMMA ServedKept ==
  TypeOK /\ Calls /\ MarksRule /\ OwnSubscriptions /\ ServedRule /\ [Next]_vars
    => ServedRule'
<1> SUFFICES ASSUME TypeOK, Calls, MarksRule, OwnSubscriptions, ServedRule, [Next]_vars
             PROVE  ServedRule'
  OBVIOUS
<1> USE NamesDiffer DEF CallForm, CallsApart, ListenersMade, Unmade, Listening,
   OwnSubscriptions,
        ServedRule, Served, OpBecomes, OpEnds, ListenerBecomes, Stopped
<1>0. /\ CallForm /\ CallsApart /\ ListenersMade /\ galactic \subseteq Channels
      /\ open \subseteq Ids /\ calls \in Nat
      /\ \A t \in Threads : op[t].id \in Nat /\ (op[t].id # 0 => op[t].id \in Ids)
  BY BoundAssumption DEF TypeOK, Typed, CallsCounted, CallRecord, Calls, Ids
<1> USE <1>0
<1>1. ASSUME NEW t \in Threads, NEW c \in Channels, MarkGalactic(t, c)
      PROVE  ServedRule'
  BY <1>1, MarkGalacticStep DEF Begins, connVars, subVars,
      frameVars, brokerVars
<1>2. ASSUME NEW t \in Threads, NEW c \in Channels, MarkLocal(t, c)
      PROVE  ServedRule'
  BY <1>2, MarkLocalStep DEF Begins, connVars, subVars,
      frameVars, brokerVars
<1>3. ASSUME NEW t \in Threads, RequestResponse(t) PROVE ServedRule'
  BY <1>3, RequestResponseStep DEF Begins, connVars,
      subVars, frameVars, channelVars, brokerVars
<1>4. ASSUME NEW t \in Threads, Lookup(t) PROVE ServedRule'
  BY <1>4, LookupStep DEF connVars, subVars, frameVars, channelVars,
      brokerVars, WhenSubscribed
<1>5. ASSUME NEW t \in Threads, MakeSubscription(t) PROVE ServedRule'
  <2>0. /\ op[t].at = "make" /\ op[t].id \in Ids /\ connection # "down"
        /\ UNCHANGED <<connection, lost, transport, listener, galactic, shared, crossed>>
    BY <1>5, MakeSubscriptionStep DEF connVars, channelVars
  <2>1. /\ cached' = op[t].id /\ open' = open \cup {op[t].id}
        /\ mapped' = (IF transport = "ws" THEN op[t].id ELSE mapped)
        /\ active' = (IF lost THEN active ELSE active \cup {op[t].id})
        /\ raced' <=> raced \/ cached # 0
    BY <1>5, MakeSubscriptionStep
  <2>2. OpBecomes(t, op[t].kind, op[t].channel, op[t].id, WhenSubscribed(t), op[t].id)
    BY <1>5, MakeSubscriptionStep
  <2>3. ASSUME NEW i, Served(i), ~lost PROVE Served(i)'
    <3>1. CASE raced \/ i \in shared
      BY <2>0, <2>1, <3>1
    <3>2. CASE i \in open \cap active /\ transport # "ws"
      BY <2>0, <2>1, <3>2
    <3>3. CASE i \in open \cap active /\ transport = "ws" /\ i = mapped
      <4>1. cached # 0
        BY <3>3, BoundAssumption DEF Ids
      <4> QED
        BY <2>1, <4>1
    <3> QED
      BY <2>3, <3>1, <3>2, <3>3
  <2>4. ASSUME NEW i, i = op[t].id, ~lost PROVE Served(i)'
    BY <2>0, <2>1, <2>4
  <2>5. \A u \in Threads : op'[u].at = "add" =>
          (op[u].at = "add" /\ op'[u].sub = op[u].sub) \/ op'[u].sub = op[t].id
    BY <2>2
  <2>6. \A u \in Threads :
          op[u].kind = "galactic" /\ op[u].at \in {"check", "lookup", "make", "add"} =>
          /\ op'[u].kind = "galactic" /\ op'[u].channel = op[u].channel
          /\ op'[u].at \in {"check", "lookup", "make", "add"}
    BY <2>0, <2>2 DEF WhenSubscribed
  <2>7. mapped' # 0 => cached' # 0
    BY <2>0, <2>1, BoundAssumption DEF Ids
  <2>8. ASSUME NEW l \in Ids, ~lost, ~listener'[l].stopped,
               connection \notin {"leaving", "down"}
        PROVE  Served(listener[l].on)'
    <3> DEFINE i == listener[l].on
    <3>1. Served(i) /\ i' = i
      BY <2>0, <2>8
    <3> QED
      BY <2>0, <2>3, <2>8, <3>1
  <2>9. ASSUME NEW u \in Threads, ~lost, op'[u].at = "add",
               connection \notin {"leaving", "down"}
        PROVE  Served(op[u].sub)'
    <3>1. CASE op'[u].sub = op[t].id
      BY <2>4, <2>9, <3>1
    <3>2. CASE op[u].at = "add" /\ op'[u].sub = op[u].sub
      BY <2>3, <2>9, <3>2
    <3> QED
      BY <2>5, <2>9, <3>1, <3>2
  <2> HIDE DEF Served
  <2> QED
    BY <2>0, <2>6, <2>7, <2>8, <2>9
<1>6. ASSUME NEW t \in Threads, AddSubscription(t) PROVE ServedRule'
  <2>1. /\ op[t].at = "add" /\ op[t].kind = "galactic" /\ op[t].channel \in Channels
        /\ op[t].id \in Ids /\ (Adds(t) \/ Refuses(t))
        /\ UNCHANGED <<connVars, subVars, frameVars, galactic, received, brokerVars,
                       historyVars, crashed, calls>>
    BY <1>6, AddSubscriptionStep
  <2>2. CASE Adds(t)
    BY <2>1, <2>2 DEF Adds, connVars, subVars, frameVars, brokerVars, historyVars
  <2>3. CASE Refuses(t)
    BY <2>1, <2>3 DEF Refuses, connVars, subVars, frameVars, brokerVars, historyVars
  <2> QED
    BY <2>1, <2>2, <2>3
<1>7. ASSUME NEW t \in Threads, Unsubscribe(t) PROVE ServedRule'
  BY <1>7, UnsubscribeStep DEF connVars, channelVars, brokerVars, historyVars
<1>8. ASSUME NEW t \in Threads, EndRequest(t) PROVE ServedRule'
  BY <1>8, EndRequestStep DEF connVars, subVars, channelVars, brokerVars,
      historyVars
<1>9. ASSUME NEW l \in Ids, TakeMessage(l) PROVE ServedRule'
  BY <1>9, TakeMessageStep DEF connVars, subVars, brokerVars, historyVars
<1>10. ASSUME NEW l \in Ids, SendToChannel(l) PROVE ServedRule'
  BY <1>10, SendToChannelStep DEF connVars, subVars, frameVars, brokerVars,
      historyVars
<1>11. ASSUME NEW l \in Ids, EndListener(l) PROVE ServedRule'
  BY <1>11, EndListenerStep DEF connVars, subVars, frameVars, brokerVars,
      historyVars
<1>12. CASE Passive
  BY <1>12 DEF Passive, historyVars
<1>13. ASSUME NEW t \in Threads, CheckSubscribed(t) PROVE ServedRule'
  BY <1>13, CheckSubscribedStep DEF connVars, subVars, frameVars, channelVars,
      brokerVars, historyVars
<1>14. ASSUME NEW t \in Threads, CloseSubscriptions(t) PROVE ServedRule'
  BY <1>14, CloseSubscriptionsStep DEF MarksRule, connVars, subVars, frameVars, brokerVars,
      historyVars
<1>15. ASSUME NEW t \in Threads, FailSubscription(t) PROVE ServedRule'
  BY <1>15, FailSubscriptionStep DEF connVars, subVars, frameVars, channelVars,
      brokerVars
<1> QED
  BY <1>1, <1>2, <1>3, <1>4, <1>5, <1>6, <1>7, <1>8, <1>9, <1>10, <1>11,
     <1>12, <1>13, <1>14, <1>15, StepCases DEF Active, Call

\* As long as no calls race there is one subscription.
LEMMA OneSubscriptionKept ==
  TypeOK /\ Calls /\ ~raced' /\ OneSubscription /\ [Next]_vars => OneSubscription'
<1> SUFFICES ASSUME TypeOK, Calls, ~raced', OneSubscription, [Next]_vars
             PROVE  OneSubscription'
  OBVIOUS
<1> USE NamesDiffer DEF CallForm, ListenersMade, Unmade, Listening, OneSubscription,
   OpBecomes,
        OpEnds, ListenerBecomes, Stopped
<1>0. CallForm /\ ListenersMade /\ open \subseteq Ids /\ 0 \notin Ids
  <2>1. open \subseteq Ids /\ 0 \notin Ids
    BY BoundAssumption DEF TypeOK, Typed, CallsCounted, Ids
  <2> QED
    BY <2>1 DEF TypeOK, Calls
<1> USE <1>0
<1>1. ASSUME NEW t \in Threads, NEW c \in Channels, MarkGalactic(t, c)
      PROVE  OneSubscription'
  BY <1>1, MarkGalacticStep DEF Begins, connVars, subVars,
      frameVars, brokerVars
<1>2. ASSUME NEW t \in Threads, NEW c \in Channels, MarkLocal(t, c)
      PROVE  OneSubscription'
  BY <1>2, MarkLocalStep DEF Begins, connVars, subVars,
      frameVars, brokerVars
<1>3. ASSUME NEW t \in Threads, RequestResponse(t) PROVE OneSubscription'
  BY <1>3, RequestResponseStep DEF Begins, connVars,
      subVars, frameVars, channelVars, brokerVars
<1>4. ASSUME NEW t \in Threads, Lookup(t) PROVE OneSubscription'
  BY <1>4, LookupStep DEF connVars, subVars, frameVars, channelVars,
      brokerVars, WhenSubscribed
<1>5. ASSUME NEW t \in Threads, MakeSubscription(t) PROVE OneSubscription'
  BY <1>5, MakeSubscriptionStep DEF connVars, subVars, frameVars, channelVars,
      brokerVars, WhenSubscribed
<1>6. ASSUME NEW t \in Threads, AddSubscription(t) PROVE OneSubscription'
  <2>1. /\ op[t].at = "add" /\ op[t].kind = "galactic" /\ op[t].channel \in Channels
        /\ op[t].id \in Ids /\ (Adds(t) \/ Refuses(t))
        /\ UNCHANGED <<connVars, subVars, frameVars, galactic, received, brokerVars,
                       historyVars, crashed, calls>>
    BY <1>6, AddSubscriptionStep
  <2>2. CASE Adds(t)
    BY <2>1, <2>2 DEF Adds, connVars, subVars, frameVars, brokerVars, historyVars
  <2>3. CASE Refuses(t)
    BY <2>1, <2>3 DEF Refuses, connVars, subVars, frameVars, brokerVars, historyVars
  <2> QED
    BY <2>1, <2>2, <2>3
<1>7. ASSUME NEW t \in Threads, Unsubscribe(t) PROVE OneSubscription'
  BY <1>7, UnsubscribeStep DEF connVars, channelVars, brokerVars, historyVars
<1>8. ASSUME NEW t \in Threads, EndRequest(t) PROVE OneSubscription'
  BY <1>8, EndRequestStep DEF connVars, subVars, channelVars, brokerVars,
      historyVars
<1>9. ASSUME NEW l \in Ids, TakeMessage(l) PROVE OneSubscription'
  BY <1>9, TakeMessageStep DEF connVars, subVars, brokerVars, historyVars
<1>10. ASSUME NEW l \in Ids, SendToChannel(l) PROVE OneSubscription'
  BY <1>10, SendToChannelStep DEF connVars, subVars, frameVars, brokerVars,
      historyVars
<1>11. ASSUME NEW l \in Ids, EndListener(l) PROVE OneSubscription'
  BY <1>11, EndListenerStep DEF connVars, subVars, frameVars, brokerVars,
      historyVars
<1>12. CASE Passive
  BY <1>12 DEF Passive, historyVars
<1>13. ASSUME NEW t \in Threads, CheckSubscribed(t) PROVE OneSubscription'
  BY <1>13, CheckSubscribedStep DEF connVars, subVars, frameVars, channelVars,
      brokerVars, historyVars
<1>14. ASSUME NEW t \in Threads, CloseSubscriptions(t) PROVE OneSubscription'
  BY <1>14, CloseSubscriptionsStep DEF connVars, subVars, frameVars, brokerVars,
      historyVars
<1>15. ASSUME NEW t \in Threads, FailSubscription(t) PROVE OneSubscription'
  BY <1>15, FailSubscriptionStep DEF connVars, subVars, frameVars, channelVars,
      brokerVars
<1> QED
  BY <1>1, <1>2, <1>3, <1>4, <1>5, <1>6, <1>7, <1>8, <1>9, <1>10, <1>11,
     <1>12, <1>13, <1>14, <1>15, StepCases DEF Active, Call

\* A channel gets a second listener only when the subscription is closed.
LEMMA LateListenersKept ==
  TypeOK /\ Calls /\ ~raced' /\ OneSubscription /\ LateListeners /\ [Next]_vars
    => LateListeners'
<1> SUFFICES ASSUME TypeOK, Calls, ~raced', OneSubscription, LateListeners,
                    [Next]_vars
             PROVE  LateListeners'
  OBVIOUS
<1>0. /\ CallForm /\ CallsApart /\ ListenersMade /\ open \subseteq Ids /\ 0 \notin Ids
      /\ \A s \in Ids : offered[s] # 0 => s \in open
  <2>1. open \subseteq Ids /\ 0 \notin Ids
    BY BoundAssumption DEF TypeOK, Typed, CallsCounted, Ids
  <2> QED
    BY <2>1 DEF TypeOK, Typed, Calls
<1> USE <1>0, NamesDiffer DEF CallForm, CallsApart, ListenersMade, Unmade, Listening,
   OneSubscription,
        LateListeners, OpBecomes, OpEnds, ListenerBecomes, Stopped
<1>1. ASSUME NEW t \in Threads, NEW c \in Channels, MarkGalactic(t, c)
      PROVE  LateListeners'
  BY <1>1, MarkGalacticStep DEF Begins, connVars, subVars,
      frameVars, brokerVars
<1>2. ASSUME NEW t \in Threads, NEW c \in Channels, MarkLocal(t, c)
      PROVE  LateListeners'
  BY <1>2, MarkLocalStep DEF Begins, connVars, subVars,
      frameVars, brokerVars
<1>3. ASSUME NEW t \in Threads, RequestResponse(t) PROVE LateListeners'
  BY <1>3, RequestResponseStep DEF Begins, connVars,
      subVars, frameVars, channelVars, brokerVars
<1>4. ASSUME NEW t \in Threads, Lookup(t) PROVE LateListeners'
  BY <1>4, LookupStep DEF connVars, subVars, frameVars, channelVars,
      brokerVars, WhenSubscribed
<1>5. ASSUME NEW t \in Threads, MakeSubscription(t) PROVE LateListeners'
  BY <1>5, MakeSubscriptionStep DEF connVars, subVars, frameVars, channelVars,
      brokerVars, WhenSubscribed
<1>6. ASSUME NEW t \in Threads, AddSubscription(t) PROVE LateListeners'
  <2>1. /\ op[t].at = "add" /\ op[t].kind = "galactic" /\ op[t].channel \in Channels
        /\ op[t].id \in Ids /\ (Adds(t) \/ Refuses(t))
        /\ UNCHANGED <<connVars, subVars, frameVars, galactic, received, brokerVars,
                       historyVars, crashed, calls>>
    BY <1>6, AddSubscriptionStep
  <2>2. CASE Adds(t)
    BY <2>1, <2>2 DEF Adds, connVars, subVars, frameVars, brokerVars, historyVars
  <2>3. CASE Refuses(t)
    BY <2>1, <2>3 DEF Refuses, connVars, subVars, frameVars, brokerVars, historyVars
  <2> QED
    BY <2>1, <2>2, <2>3
<1>7. ASSUME NEW t \in Threads, Unsubscribe(t) PROVE LateListeners'
  BY <1>7, UnsubscribeStep DEF connVars, channelVars, brokerVars, historyVars
<1>8. ASSUME NEW t \in Threads, EndRequest(t) PROVE LateListeners'
  BY <1>8, EndRequestStep DEF connVars, subVars, channelVars, brokerVars,
      historyVars
<1>9. ASSUME NEW l \in Ids, TakeMessage(l) PROVE LateListeners'
  BY <1>9, TakeMessageStep DEF connVars, subVars, brokerVars, historyVars
<1>10. ASSUME NEW l \in Ids, SendToChannel(l) PROVE LateListeners'
  BY <1>10, SendToChannelStep DEF connVars, subVars, frameVars, brokerVars,
      historyVars
<1>11. ASSUME NEW l \in Ids, EndListener(l) PROVE LateListeners'
  BY <1>11, EndListenerStep DEF connVars, subVars, frameVars, brokerVars,
      historyVars
<1>12. CASE Passive
  BY <1>12 DEF Passive, historyVars
<1>13. ASSUME NEW t \in Threads, CheckSubscribed(t) PROVE LateListeners'
  BY <1>13, CheckSubscribedStep DEF connVars, subVars, frameVars, channelVars,
      brokerVars, historyVars
<1>14. ASSUME NEW t \in Threads, CloseSubscriptions(t) PROVE LateListeners'
  BY <1>14, CloseSubscriptionsStep DEF connVars, subVars, frameVars, brokerVars,
      historyVars
<1>15. ASSUME NEW t \in Threads, FailSubscription(t) PROVE LateListeners'
  BY <1>15, FailSubscriptionStep DEF connVars, subVars, frameVars, channelVars,
      brokerVars
<1> QED
  BY <1>1, <1>2, <1>3, <1>4, <1>5, <1>6, <1>7, <1>8, <1>9, <1>10, <1>11,
     <1>12, <1>13, <1>14, <1>15, StepCases DEF Active, Call

-----------------------------------------------------------------------------
(***************************************************************************)
(* The order of the messages, as long as there is one subscription.        *)
(***************************************************************************)
InOrder == OneQueue /\ FramesInOrder /\ TakenFirst /\ SentInOrder /\ OnceInOrder

\* A step that at most drops messages.
Dropping ==
  /\ UNCHANGED <<transport, inbound, received>>
  /\ cached # 0 => cached' = cached
  /\ crossed \subseteq crossed'
  /\ \A s \in Ids : offered'[s] \in {0, offered[s]}
  /\ \A l \in Ids :
       /\ listener'[l].holds \in {0, listener[l].holds}
       /\ listener'[l].at = "sending" =>
            /\ listener[l].at = "sending" /\ listener'[l].channel = listener[l].channel
            /\ listener'[l].holds = listener[l].holds

\* The steps that pass messages on, and those that at most drop them.
LEMMA StepKinds ==
  ASSUME TypeOK, Calls, [Next]_vars, ~raced'
  PROVE  \/ Dropping \/ Faulting \/ Publish \/ HandleFrame
         \/ \E i \in Ids : HandleTCPFrame(i) \/ TakeMessage(i) \/ SendToChannel(i)
<1> USE DEF Dropping, OpBecomes, OpEnds, ListenerBecomes, Stopped
<1>1. ASSUME ConnectAnswered PROVE Dropping
  BY <1>1 DEF ConnectAnswered, ConnectUnchanged, subVars, frameVars,
      channelVars, brokerVars, historyVars
<1>2. ASSUME ConnectRefused PROVE Dropping
  BY <1>2 DEF ConnectRefused, ConnectUnchanged, subVars, frameVars,
      channelVars, brokerVars, historyVars
<1>3. ASSUME LoseConnection \/ Disconnected \/ SendError PROVE Faulting
  BY <1>3, FaultingStep
<1>4. ASSUME Disconnect PROVE Dropping
  BY <1>4 DEF Disconnect, ConnectUnchanged, subVars, frameVars, channelVars,
      brokerVars, historyVars
<1>5. ASSUME NEW t \in Threads, CheckSubscribed(t) PROVE Dropping
  BY <1>5, CheckSubscribedStep DEF connVars, subVars, frameVars, channelVars,
      brokerVars, historyVars
<1>6. ASSUME NEW t \in Threads, NEW c \in Channels, MarkGalactic(t, c)
      PROVE  Dropping
  BY <1>6, MarkGalacticStep DEF Begins, connVars, subVars,
      frameVars, brokerVars
<1>7. ASSUME NEW t \in Threads, NEW c \in Channels, MarkLocal(t, c)
      PROVE  Dropping
  BY <1>7, MarkLocalStep DEF Begins, connVars, subVars,
      frameVars, brokerVars
<1>8. ASSUME NEW t \in Threads, RequestResponse(t) PROVE Dropping
  BY <1>8, RequestResponseStep DEF Begins, connVars,
      subVars, frameVars, channelVars, brokerVars
<1>9. ASSUME NEW t \in Threads, Lookup(t) PROVE Dropping
  BY <1>9, LookupStep DEF connVars, subVars, frameVars, channelVars,
      brokerVars
<1>10. ASSUME NEW t \in Threads, MakeSubscription(t) PROVE Dropping
  BY <1>10, MakeSubscriptionStep DEF connVars, subVars, frameVars,
      channelVars, brokerVars
<1>11. ASSUME NEW t \in Threads, AddSubscription(t) PROVE Dropping
  <2>1. /\ op[t].at = "add" /\ op[t].kind = "galactic" /\ op[t].channel \in Channels
        /\ op[t].id \in Ids /\ (Adds(t) \/ Refuses(t))
        /\ UNCHANGED <<connVars, subVars, frameVars, galactic, received, brokerVars,
                       historyVars, crashed, calls>>
    BY <1>11, AddSubscriptionStep
  <2>2. CASE Adds(t)
    BY <2>1, <2>2 DEF Adds, connVars, subVars, frameVars, brokerVars, historyVars
  <2>3. CASE Refuses(t)
    BY <2>1, <2>3 DEF Refuses, connVars, subVars, frameVars, brokerVars, historyVars
  <2> QED
    BY <2>1, <2>2, <2>3
<1>12. ASSUME NEW t \in Threads, Unsubscribe(t) PROVE Dropping
  BY <1>12, UnsubscribeStep DEF connVars, channelVars, brokerVars, historyVars
<1>13. ASSUME NEW t \in Threads, EndRequest(t) PROVE Dropping
  BY <1>13, EndRequestStep DEF connVars, subVars, channelVars, brokerVars,
      historyVars
<1>14. ASSUME NEW l \in Ids, EndListener(l) PROVE Dropping
  BY <1>14, EndListenerStep DEF connVars, subVars, frameVars, brokerVars,
      historyVars
<1>15. CASE UNCHANGED vars
  BY <1>15 DEF vars, connVars, subVars, frameVars, channelVars, brokerVars,
      historyVars
<1>16. ASSUME NEW t \in Threads, CloseSubscriptions(t) PROVE Dropping
  BY <1>16, CloseSubscriptionsStep DEF connVars, subVars, frameVars, brokerVars,
      historyVars
<1>17. ASSUME NEW t \in Threads, FailSubscription(t) PROVE Dropping
  BY <1>17, FailSubscriptionStep DEF connVars, subVars, frameVars, channelVars,
      brokerVars
<1> HIDE DEF Dropping
<1> QED
  BY <1>1, <1>2, <1>3, <1>4, <1>5, <1>6, <1>7, <1>8, <1>9, <1>10, <1>11,
     <1>12, <1>13, <1>14, <1>15, <1>16, <1>17 DEF Next, Call

\* What the types say of the numbers of messages.
LEMMA NumbersKnown ==
  ASSUME TypeOK
  PROVE  /\ published \in Nat /\ 0 \notin Ids \cup {Socket} /\ open \subseteq Ids
         /\ 0 # Fault /\ published + 1 # Fault
         /\ \A l \in Ids : listener[l].holds \in 0..published \cup {Fault}
         /\ \A s \in Ids : offered[s] \in 0..published \cup {Fault}
         /\ \A q \in Ids \cup {Socket} :
              /\ inbound[q] \in Seq(Nat \cup {Fault})
              /\ \A i \in DOMAIN inbound[q] :
                   inbound[q][i] # Fault => inbound[q][i] \in 1..published
         /\ \A c \in Channels :
              /\ received[c] \in Seq(Nat \cup {Fault})
              /\ \A i \in DOMAIN received[c] :
                   received[c][i] # Fault => received[c][i] \in 1..published
<1>1. 0 \notin Ids \cup {Socket}
  BY BoundAssumption, NamesDiffer DEF Ids
<1>2. open \subseteq Ids
  BY BoundAssumption DEF TypeOK, Typed, CallsCounted, Ids
<1>3. published \in Nat /\ 0 # Fault /\ published + 1 # Fault
  BY BoundAssumption, NamesDiffer DEF TypeOK, Typed
<1>4. Sent \cup {0} = 0..published \cup {Fault}
  BY <1>3 DEF Sent
<1> QED
  BY <1>1, <1>2, <1>3, <1>4 DEF TypeOK, Typed, MessagesCounted, Sent

\* A message that is dropped leaves the others in their order.
LEMMA DroppingKeepsOrder ==
  ASSUME TypeOK, ~raced, ~raced', OneSubscription, InOrder, Dropping
  PROVE  InOrder'
<1>0. /\ \A q \in Ids \cup {Socket} : \A i \in DOMAIN inbound[q] :
           inbound[q][i] # Fault => inbound[q][i] \in Nat /\ 0 < inbound[q][i]
      /\ \A s \in Ids : offered[s] \in Nat \cup {Fault}
  BY NumbersKnown
<1>1. OneQueue'
  <2>1. 0 \notin Ids \cup {Socket}
    BY NamesDiffer, BoundAssumption DEF Ids
  <2>2. CASE cached # 0
    BY <2>2 DEF InOrder, OneQueue, Dropping
  <2>3. CASE cached = 0
    BY <2>1, <2>3 DEF InOrder, OneQueue, Dropping
  <2> QED
    BY <2>2, <2>3
<1>2. FramesInOrder'
  BY DEF InOrder, FramesInOrder, Dropping
<1>3. ASSUME NEW n, Before(n) PROVE Before(n)'
  BY <1>3 DEF Dropping, Before
<1>4. Before(0)'
  <2>1. \A s \in Ids : offered'[s] \in Nat \cup {Fault}
    BY <1>0 DEF Dropping
  <2> QED
    BY <1>0, <2>1 DEF Dropping, Before
<1>5. TakenFirst'
  <2>1. ASSUME NEW l \in Ids PROVE Before(listener[l].holds)'
    <3>1. CASE listener'[l].holds = listener[l].holds
      BY <3>1 DEF InOrder, TakenFirst, Before, Dropping
    <3>2. CASE listener'[l].holds = 0
      BY <1>4, <3>2 DEF Before
    <3> QED
      BY <3>1, <3>2 DEF Dropping
  <2>2. ASSUME NEW c \in Channels, NEW i \in DOMAIN received[c]
        PROVE  Before(received[c][i])'
    BY DEF InOrder, TakenFirst, Before, Dropping
  <2> QED
    BY <2>1, <2>2 DEF TakenFirst, Dropping
<1>6. SentInOrder'
  BY DEF InOrder, SentInOrder, Dropping
<1>7. OnceInOrder'
  BY DEF InOrder, OnceInOrder, Dropping
<1> QED
  BY <1>1, <1>2, <1>5, <1>6, <1>7 DEF InOrder

\* One subscription is sent one copy.
LEMMA OneCopy ==
  ASSUME TypeOK, OneSubscription, Publish
  PROVE  \A q \in Ids \cup {Socket} :
           \/ inbound'[q] = inbound[q]
           \/ /\ q = (IF transport = "ws" THEN Socket ELSE cached)
              /\ inbound'[q] \in Seq(Nat \cup {Fault})
              /\ Len(inbound'[q]) = Len(inbound[q]) + 1
              /\ inbound'[q][Len(inbound[q]) + 1] = published + 1
              /\ \A i \in DOMAIN inbound[q] : inbound'[q][i] = inbound[q][i]
<1>1. active = {cached}
  <2>1. active \subseteq open /\ open \subseteq {cached}
    BY DEF OneSubscription, TypeOK, Typed
  <2>2. active # {}
    BY DEF Publish
  <2> QED
    BY <2>1, <2>2
<1>2. Cardinality(active) = 1
  BY <1>1, FS_Singleton
<1>3. ASSUME NEW s \in Seq(Nat \cup {Fault})
      PROVE  /\ s \o Copies(1) \in Seq(Nat \cup {Fault})
             /\ Len(s \o Copies(1)) = Len(s) + 1
             /\ (s \o Copies(1))[Len(s) + 1] = published + 1
             /\ \A i \in DOMAIN s : (s \o Copies(1))[i] = s[i]
  <2>1. published + 1 \in Nat \cup {Fault} /\ Copies(1) = [i \in 1..1 |-> published + 1]
    BY NumbersKnown DEF Copies
  <2>2. /\ s \o Copies(1) \in Seq(Nat \cup {Fault}) /\ Len(s \o Copies(1)) = Len(s) + 1
        /\ \A i \in DOMAIN (s \o Copies(1)) :
             \/ i \in DOMAIN s /\ (s \o Copies(1))[i] = s[i]
             \/ i \notin DOMAIN s /\ (s \o Copies(1))[i] = published + 1
    BY <2>1, Appending DEF Copies
  <2> QED
    BY <2>2
<1>4. ASSUME NEW q \in Ids \cup {Socket}
      PROVE  \/ inbound'[q] = inbound[q]
             \/ /\ q = (IF transport = "ws" THEN Socket ELSE cached)
                /\ inbound'[q] = inbound[q] \o Copies(1)
  BY <1>1, <1>2 DEF Publish, TypeOK, Typed
<1>5. ASSUME NEW q \in Ids \cup {Socket}, inbound'[q] # inbound[q]
      PROVE  /\ q = (IF transport = "ws" THEN Socket ELSE cached)
             /\ inbound'[q] \in Seq(Nat \cup {Fault})
             /\ Len(inbound'[q]) = Len(inbound[q]) + 1
             /\ inbound'[q][Len(inbound[q]) + 1] = published + 1
             /\ \A i \in DOMAIN inbound[q] : inbound'[q][i] = inbound[q][i]
  <2>1. inbound[q] \in Seq(Nat \cup {Fault})
    BY NumbersKnown
  <2>2. inbound'[q] = inbound[q] \o Copies(1)
    BY <1>4, <1>5
  <2> QED
    BY <1>3, <1>4, <1>5, <2>1, <2>2
<1> QED
  BY <1>5

\* A message is published after all that are on their way.
LEMMA PublishKeepsOrder ==
  ASSUME TypeOK, ~raced, OneSubscription, InOrder, Publish
  PROVE  InOrder'
<1> DEFINE L(q) == Len(inbound[q]) + 1
<1>1. /\ UNCHANGED <<transport, cached, listener, offered, received, raced, crossed>>
  BY DEF Publish, connVars, subVars, channelVars, historyVars
<1>2. ASSUME NEW q \in Ids \cup {Socket}, NEW i \in DOMAIN inbound'[q]
      PROVE  \/ i \in DOMAIN inbound[q] /\ inbound'[q][i] = inbound[q][i]
             \/ i = L(q) /\ inbound'[q][i] = published + 1
  BY OneCopy, NumbersKnown
<1>3. OneQueue'
  BY <1>1, OneCopy DEF InOrder, OneQueue
<1>4. FramesInOrder'
  <2>1. ASSUME NEW q \in Ids \cup {Socket}, NEW i \in DOMAIN inbound'[q],
               NEW j \in DOMAIN inbound'[q], i < j,
               inbound'[q][i] # Fault, inbound'[q][j] # Fault
        PROVE  inbound'[q][i] < inbound'[q][j]
    <3>1. i \in DOMAIN inbound[q] /\ inbound'[q][i] = inbound[q][i]
      BY <1>2, <2>1, OneCopy, NumbersKnown
    <3>2. CASE j \in DOMAIN inbound[q] /\ inbound'[q][j] = inbound[q][j]
      BY <2>1, <3>1, <3>2 DEF InOrder, FramesInOrder
    <3>3. CASE inbound'[q][j] = published + 1
      BY <2>1, <3>1, <3>3, NumbersKnown
    <3> QED
      BY <1>2, <3>2, <3>3
  <2>2. ASSUME NEW s \in Ids, offered[s] \notin {0, Fault}, NEW q \in Ids \cup {Socket},
               NEW i \in DOMAIN inbound'[q], inbound'[q][i] # Fault
        PROVE  offered[s] < inbound'[q][i]
    BY <1>2, <2>2, NumbersKnown DEF InOrder, FramesInOrder
  <2> QED
    BY <1>1, <2>1, <2>2 DEF FramesInOrder
<1>5. ASSUME NEW n \in 0..published, Before(n)
      PROVE  /\ \A s \in Ids : offered[s] \notin {0, Fault} => n < offered[s]
             /\ \A q \in Ids \cup {Socket} : \A i \in DOMAIN inbound'[q] :
                  inbound'[q][i] # Fault => n < inbound'[q][i]
  <2>0. n # Fault
    BY NumbersKnown, NamesDiffer
  <2>1. ASSUME NEW q \in Ids \cup {Socket}, NEW i \in DOMAIN inbound'[q],
               inbound'[q][i] # Fault
        PROVE  n < inbound'[q][i]
    BY <1>2, <1>5, <2>1, <2>0, NumbersKnown DEF Before
  <2> QED
    BY <1>5, <2>0, <2>1 DEF Before
<1>6. TakenFirst'
  <2>1. ASSUME NEW l \in Ids PROVE Before(listener[l].holds)'
    BY <1>1, <1>5, NumbersKnown DEF InOrder, TakenFirst, Before
  <2>2. ASSUME NEW c \in Channels, NEW i \in DOMAIN received[c]
        PROVE  Before(received[c][i])'
    <3>1. received[c][i] \in 0..published \cup {Fault} /\ Before(received[c][i])
      BY NumbersKnown DEF InOrder, TakenFirst
    <3> QED
      BY <1>1, <1>5, <3>1 DEF Before
  <2> QED
    BY <1>1, <2>1, <2>2 DEF TakenFirst
<1>7. SentInOrder' /\ OnceInOrder'
  BY <1>1 DEF InOrder, SentInOrder, OnceInOrder
<1> QED
  BY <1>3, <1>4, <1>6, <1>7 DEF InOrder

\* A fault comes between the messages, or after them.
LEMMA FaultingKeepsOrder ==
  ASSUME TypeOK, OneSubscription, InOrder, Faulting
  PROVE  InOrder'
<1>1. /\ UNCHANGED <<transport, cached, listener, offered, received, raced, crossed>>
      /\ active \subseteq {cached}
  BY DEF Faulting, channelVars, historyVars, OneSubscription, TypeOK, Typed
<1>2. \A q \in Ids \cup {Socket} : \A i \in DOMAIN inbound'[q] :
        inbound'[q][i] # Fault =>
          i \in DOMAIN inbound[q] /\ inbound'[q][i] = inbound[q][i]
  BY DEF Faulting
<1>3. OneQueue'
  BY <1>1 DEF InOrder, OneQueue, Faulting
<1>4. FramesInOrder'
  BY <1>1, <1>2 DEF InOrder, FramesInOrder
<1>5. TakenFirst'
  BY <1>1, <1>2 DEF InOrder, TakenFirst, Before
<1>6. SentInOrder' /\ OnceInOrder'
  BY <1>1 DEF InOrder, SentInOrder, OnceInOrder
<1> QED
  BY <1>3, <1>4, <1>5, <1>6 DEF InOrder

\* A frame that is handled was the first of the only queue.
LEMMA FrameKeepsOrder ==
  ASSUME TypeOK, ~raced, OneSubscription, InOrder, NEW q, FrameTaken(q),
         UNCHANGED <<transport, cached, listener, received, raced, crossed>>
  PROVE  InOrder'
<1> DEFINE f == Head(inbound[q])
<1>0. q \in Ids \cup {Socket} /\ inbound[q] # <<>>
  BY DEF FrameTaken
<1>1. /\ f = inbound[q][1] /\ 1 \in DOMAIN inbound[q]
      /\ \A i \in DOMAIN inbound'[q] : /\ i + 1 \in DOMAIN inbound[q]
                                       /\ inbound'[q][i] = inbound[q][i + 1]
                                       /\ i \in Nat /\ 1 < i + 1
  <2>1. inbound[q] \in Seq(Nat \cup {Fault}) /\ inbound'[q] = Tail(inbound[q])
    BY <1>0, NumbersKnown DEF FrameTaken
  <2> QED
    BY <1>0, <2>1
<1> HIDE DEF f
<1>2. \A r \in Ids \cup {Socket} : r # q => inbound[r] = <<>> /\ inbound'[r] = <<>>
  BY <1>0 DEF InOrder, OneQueue, FrameTaken
<1>3. \A s \in Ids : offered'[s] \in {offered[s], f}
  BY DEF FrameTaken, f
<1>4. OneQueue'
  BY <1>0, <1>2 DEF InOrder, OneQueue
<1>5. FramesInOrder'
  <2>1. ASSUME NEW r \in Ids \cup {Socket}, NEW i \in DOMAIN inbound'[r],
               NEW j \in DOMAIN inbound'[r], i < j,
               inbound'[r][i] # Fault, inbound'[r][j] # Fault
        PROVE  inbound'[r][i] < inbound'[r][j]
    <3>1. r = q
      BY <1>2, <2>1
    <3>2. i + 1 < j + 1
      BY <1>1, <2>1, <3>1
    <3> QED
      BY <1>0, <1>1, <2>1, <3>1, <3>2 DEF InOrder, FramesInOrder
  <2>2. ASSUME NEW s \in Ids, offered'[s] \notin {0, Fault}, NEW r \in Ids \cup {Socket},
               NEW i \in DOMAIN inbound'[r], inbound'[r][i] # Fault
        PROVE  offered'[s] < inbound'[r][i]
    <3>1. r = q
      BY <1>2, <2>2
    <3>2. CASE offered'[s] = offered[s]
      BY <1>0, <1>1, <2>2, <3>1, <3>2 DEF InOrder, FramesInOrder
    <3>3. CASE offered'[s] = f /\ f # Fault
      BY <1>0, <1>1, <2>2, <3>1, <3>3 DEF InOrder, FramesInOrder
    <3> QED
      BY <1>3, <2>2, <3>2, <3>3
  <2> QED
    BY <2>1, <2>2 DEF FramesInOrder
<1>6. ASSUME NEW n, n # Fault, Before(n)
      PROVE  /\ \A s \in Ids : offered'[s] \notin {0, Fault} => n < offered'[s]
             /\ \A r \in Ids \cup {Socket} : \A i \in DOMAIN inbound'[r] :
                  inbound'[r][i] # Fault => n < inbound'[r][i]
  <2>1. ASSUME NEW s \in Ids, offered'[s] \notin {0, Fault} PROVE n < offered'[s]
    BY <1>0, <1>1, <1>3, <1>6, <2>1 DEF Before
  <2>2. ASSUME NEW r \in Ids \cup {Socket}, NEW i \in DOMAIN inbound'[r],
               inbound'[r][i] # Fault
        PROVE  n < inbound'[r][i]
    BY <1>0, <1>1, <1>2, <1>6, <2>2 DEF Before
  <2> QED
    BY <2>1, <2>2
<1>7. TakenFirst'
  <2>1. ASSUME NEW l \in Ids PROVE Before(listener[l].holds)'
    BY <1>6 DEF InOrder, TakenFirst, Before
  <2>2. ASSUME NEW c \in Channels, NEW i \in DOMAIN received[c]
        PROVE  Before(received[c][i])'
    BY <1>6 DEF InOrder, TakenFirst, Before
  <2> QED
    BY <2>1, <2>2 DEF TakenFirst
<1>8. SentInOrder' /\ OnceInOrder'
  BY DEF InOrder, SentInOrder, OnceInOrder
<1> QED
  BY <1>4, <1>5, <1>7, <1>8 DEF InOrder

\* A message that is taken was the one that was offered.
LEMMA TakingKeepsOrder ==
  ASSUME TypeOK, Calls, ~raced, OneSubscription, InOrder,
         NEW l \in Ids, TakeMessage(l)
  PROVE  InOrder'
<1> DEFINE s == listener[l].on
           m == offered[s]
<1>1. /\ s \in Ids /\ m # 0 /\ listener[l].at = "listening"
      /\ ListenerBecomes(l, listener[l].channel, s, listener[l].stopped, "sending", m)
      /\ \A i \in Ids : offered'[i] = IF i = s THEN 0 ELSE offered[i]
      /\ UNCHANGED <<transport, cached, inbound, received, raced, crossed>>
  BY TakeMessageStep DEF connVars, subVars, historyVars
<1>2. \A i \in Ids : offered'[i] = 0
  BY <1>1 DEF OneSubscription, TypeOK, Typed
<1>3. OneQueue' /\ FramesInOrder'
  BY <1>1, <1>2 DEF InOrder, OneQueue, FramesInOrder
<1>4. ASSUME NEW n, Before(n) \/ n = m PROVE Before(n)'
  BY <1>1, <1>2, <1>4 DEF InOrder, FramesInOrder, Before
<1>5. TakenFirst'
  <2>1. ASSUME NEW k \in Ids PROVE Before(listener[k].holds)'
    <3> DEFINE n == listener'[k].holds
    <3>1. Before(n) \/ n = m
      BY <1>1 DEF ListenerBecomes, InOrder, TakenFirst
    <3> QED
      BY <1>1, <1>2, <3>1 DEF InOrder, FramesInOrder, Before
  <2>2. ASSUME NEW c \in Channels, NEW i \in DOMAIN received[c]
        PROVE  Before(received[c][i])'
    BY <1>1, <1>2 DEF InOrder, TakenFirst, Before
  <2> QED
    BY <1>1, <2>1, <2>2 DEF TakenFirst
<1>6. SentInOrder'
  <2>1. ASSUME NEW c \in Channels \ crossed, NEW k \in Ids, NEW i \in DOMAIN received[c],
               listener'[k].channel = c, listener'[k].at = "sending",
               received[c][i] # Fault, listener'[k].holds # Fault
        PROVE  received[c][i] < listener'[k].holds
    <3>1. CASE k = l
      BY <1>1, <2>1, <3>1 DEF ListenerBecomes, InOrder, TakenFirst, Before
    <3>2. CASE k # l
      BY <1>1, <2>1, <3>2 DEF ListenerBecomes, InOrder, SentInOrder
    <3> QED
      BY <3>1, <3>2
  <2> QED
    BY <1>1, <2>1 DEF SentInOrder
<1>7. OnceInOrder'
  BY <1>1 DEF InOrder, OnceInOrder
<1> QED
  BY <1>3, <1>5, <1>6, <1>7 DEF InOrder

\* Only one listener of a channel has a message in hand.
LEMMA SendingKeepsOrder ==
  ASSUME TypeOK, Calls, ~raced, LateListeners, InOrder, NEW l \in Ids, SendToChannel(l)
  PROVE  InOrder'
<1> DEFINE d == listener[l].channel
           m == listener[l].holds
<1>1. /\ listener[l].at = "sending" /\ d \in Channels
      /\ ListenerBecomes(l, d, listener[l].on, listener[l].stopped, "listening", 0)
      /\ received' = [received EXCEPT ![d] = Append(received[d], m)]
      /\ UNCHANGED <<transport, cached, inbound, offered, raced, crossed>>
  BY SendToChannelStep DEF connVars, subVars, frameVars, historyVars
<1>2. m \in Nat \cup {Fault} /\ Before(m) /\ Before(0)
  <2>1. m \in Nat \cup {Fault} /\ Before(m)
    BY NumbersKnown DEF InOrder, TakenFirst
  <2> QED
    BY <2>1, NumbersKnown DEF Before
<1>3. ASSUME NEW c \in Channels, NEW i \in DOMAIN received'[c]
      PROVE  \/ i \in DOMAIN received[c] /\ received'[c][i] = received[c][i]
             \/ c = d /\ i = Len(received[d]) + 1 /\ received'[c][i] = m
  <2>1. received \in [Channels -> Seq(Nat \cup {Fault})]
    BY DEF TypeOK, Typed
  <2>2. CASE c = d
    BY <1>1, <1>2, <1>3, <2>1, <2>2
  <2>3. CASE c # d
    BY <1>1, <1>3, <2>1, <2>3
  <2> QED
    BY <2>2, <2>3
<1>4. OneQueue' /\ FramesInOrder'
  BY <1>1 DEF InOrder, OneQueue, FramesInOrder
<1>5. TakenFirst'
  <2>1. ASSUME NEW k \in Ids PROVE Before(listener[k].holds)'
    <3>1. Before(listener'[k].holds)
      BY <1>1, <1>2 DEF ListenerBecomes, InOrder, TakenFirst
    <3> QED
      BY <1>1, <3>1 DEF Before
  <2>2. ASSUME NEW c \in Channels, NEW i \in DOMAIN received'[c]
        PROVE  Before(received[c][i])'
    <3>1. Before(received'[c][i])
      BY <1>2, <1>3, <2>2 DEF InOrder, TakenFirst
    <3> QED
      BY <1>1, <3>1 DEF Before
  <2> QED
    BY <2>1, <2>2 DEF TakenFirst
<1>6. SentInOrder'
  <2>1. ASSUME NEW c \in Channels \ crossed, NEW k \in Ids, NEW i \in DOMAIN received'[c],
               listener'[k].channel = c, listener'[k].at = "sending",
               received'[c][i] # Fault, listener'[k].holds # Fault
        PROVE  received'[c][i] < listener'[k].holds
    <3>1. k # l /\ listener'[k] = listener[k]
      BY <1>1, <2>1 DEF ListenerBecomes
    <3>2. c # d
      BY <1>1, <2>1, <3>1 DEF LateListeners
    <3> QED
      BY <1>3, <2>1, <3>1, <3>2 DEF InOrder, SentInOrder
  <2> QED
    BY <1>1, <2>1 DEF SentInOrder
<1>7. OnceInOrder'
  <2>1. ASSUME NEW c \in Channels \ crossed, NEW i \in DOMAIN received'[c],
               NEW j \in DOMAIN received'[c], i < j,
               received'[c][i] # Fault, received'[c][j] # Fault
        PROVE  received'[c][i] < received'[c][j]
    <3>1. received[c] \in Seq(Nat \cup {Fault}) /\ received[d] \in Seq(Nat \cup {Fault})
      BY <1>1, NumbersKnown
    <3>2. CASE i \in DOMAIN received[c] /\ j \in DOMAIN received[c]
      <4>1. received'[c][i] = received[c][i] /\ received'[c][j] = received[c][j]
        BY <1>3, <3>1, <3>2
      <4> QED
        BY <2>1, <3>2, <4>1 DEF InOrder, OnceInOrder
    <3>3. CASE j \notin DOMAIN received[c]
      <4>1. c = d /\ received'[c][j] = m /\ i \in DOMAIN received[c]
            /\ received'[c][i] = received[c][i]
        BY <1>3, <2>1, <3>1, <3>3
      <4> QED
        BY <1>1, <2>1, <4>1 DEF InOrder, SentInOrder
    <3>4. CASE i \notin DOMAIN received[c] /\ j \in DOMAIN received[c]
      BY <1>3, <2>1, <3>1, <3>4
    <3> QED
      BY <3>2, <3>3, <3>4
  <2> QED
    BY <1>1, <2>1 DEF OnceInOrder
<1> QED
  BY <1>4, <1>5, <1>6, <1>7 DEF InOrder

\* Messages keep their order as long as no calls race.
LEMMA PipelineKept ==
  TypeOK /\ Calls /\ Pipeline /\ OnceInOrder /\ [Next]_vars => Pipeline' /\ OnceInOrder'
<1> SUFFICES ASSUME TypeOK, Calls, Pipeline, OnceInOrder, [Next]_vars, ~raced'
             PROVE  (OneSubscription /\ LateListeners /\ InOrder)'
  BY DEF Pipeline, InOrder, OnceInOrder
<1>1. ~raced
  <2>1. raced => raced'
    <3>1. CASE Passive
      BY <3>1 DEF Passive, historyVars
    <3>2. CASE Active
      <4>1. ASSUME NEW t \in Threads, MakeSubscription(t) PROVE raced => raced'
        BY <4>1 DEF MakeSubscription
      <4>2. ASSUME NEW t \in Threads, Call(t) PROVE raced => raced'
        BY <4>1, <4>2 DEF Call, MarkGalactic, MarkLocal, RequestResponse, Lookup,
           CheckSubscribed, FailSubscription, AddSubscription, CloseSubscriptions,
           Unsubscribe, EndRequest, historyVars
      <4>3. ASSUME NEW l \in Ids, TakeMessage(l) \/ SendToChannel(l) \/ EndListener(l)
            PROVE  raced => raced'
        BY <4>3 DEF TakeMessage, SendToChannel, EndListener, historyVars
      <4> QED
        BY <3>2, <4>2, <4>3 DEF Active
    <3> QED
      BY <3>1, <3>2, StepCases
  <2> QED
    BY <2>1
<1>2. OneSubscription /\ LateListeners /\ InOrder
  BY <1>1 DEF Pipeline, InOrder
<1>3. OneSubscription' /\ LateListeners'
  BY <1>2, OneSubscriptionKept, LateListenersKept
<1>4. InOrder'
  <2>1. CASE Dropping
    BY <1>1, <1>2, <2>1, DroppingKeepsOrder
  <2>2. CASE Publish
    BY <1>1, <1>2, <2>2, PublishKeepsOrder
  <2>3. CASE Faulting
    BY <1>2, <2>3, FaultingKeepsOrder
  <2>4. CASE HandleFrame
    <3>1. /\ FrameTaken(Socket)
          /\ UNCHANGED <<transport, cached, listener, received, raced, crossed>>
      BY <2>4, HandleFrameStep
      DEF HandleFrame, connVars, subVars, channelVars, historyVars
    <3> QED
      BY <1>1, <1>2, <3>1, FrameKeepsOrder
  <2>5. ASSUME NEW i \in Ids, HandleTCPFrame(i) PROVE InOrder'
    <3>1. /\ FrameTaken(i)
          /\ UNCHANGED <<transport, cached, listener, received, raced, crossed>>
      BY <2>5, HandleTCPFrameStep
      DEF HandleTCPFrame, connVars, subVars, channelVars, historyVars
    <3> QED
      BY <1>1, <1>2, <3>1, FrameKeepsOrder
  <2>6. ASSUME NEW i \in Ids, TakeMessage(i) PROVE InOrder'
    BY <1>1, <1>2, <2>6, TakingKeepsOrder
  <2>7. ASSUME NEW i \in Ids, SendToChannel(i) PROVE InOrder'
    BY <1>1, <1>2, <2>7, SendingKeepsOrder
  <2> QED
    BY <2>1, <2>2, <2>3, <2>4, <2>5, <2>6, <2>7, StepKinds
<1> QED
  BY <1>3, <1>4

-----------------------------------------------------------------------------
\* The invariant holds at first ...
LEMMA Initially == Init => IInv
<1> SUFFICES ASSUME Init
             PROVE  IInv
  OBVIOUS
<1> USE BoundAssumption DEF Init
<1>1. /\ \A t \in Threads : /\ op[t].kind = "none" /\ op[t].channel = None
                            /\ op[t].id = 0 /\ op[t].at = "idle" /\ op[t].sub = 0
      /\ \A l \in Ids : Unmade(l)
      /\ op \in [Threads -> CallRecord] /\ listener \in [Ids -> ListenerRecord]
  BY DEF NoCall, NoListener, Unmade, CallRecord, ListenerRecord
<1>2. Typed
  <2>1. inbound \in [Ids \cup {Socket} -> Seq(Nat \cup {Fault})]
    OBVIOUS
  <2>2. received \in [Channels -> Seq(Nat \cup {Fault})] /\ offered \in [Ids -> Nat \cup {Fault}]
        /\ \A s \in Ids : offered[s] = 0
    OBVIOUS
  <2>3. /\ cached \in Nat /\ mapped \in Nat /\ calls \in 0..MaxCalls
        /\ published \in 0..MaxFrames /\ faults \in 0..MaxFaults
    OBVIOUS
  <2> QED
    BY <1>1, <2>1, <2>2, <2>3 DEF Typed
<1>3. CallsCounted /\ MessagesCounted
  BY <1>1 DEF CallsCounted, MessagesCounted, Sent, Unmade
<1>4. Calls
  BY <1>1 DEF Calls, CallForm, CallsApart, ListenersMade, Unmade
<1>5. MarksRule /\ OwnSubscriptions /\ ServedRule
  BY <1>1 DEF MarksRule, OwnSubscriptions, ServedRule, Unmade
<1>6. OneSubscription /\ OneQueue /\ LateListeners /\ SentInOrder
  BY <1>1, NamesDiffer DEF OneSubscription, OneQueue, LateListeners, SentInOrder, Unmade
<1>7. FramesInOrder /\ TakenFirst /\ OnceInOrder /\ PanicsOnlyIfSharedOrCut
  BY <1>1 DEF FramesInOrder, TakenFirst, Before, OnceInOrder, PanicsOnlyIfSharedOrCut, Unmade
<1> QED
  BY <1>2, <1>3, <1>4, <1>5, <1>6, <1>7 DEF IInv, TypeOK, Pipeline

\* ... and after every step.
LEMMA Preserved == IInv /\ [Next]_vars => IInv'
<1> SUFFICES ASSUME IInv, [Next]_vars
             PROVE  IInv'
  OBVIOUS
<1>1. Calls'
  BY CallFormKept, CallsApartKept, ListenersMadeKept DEF IInv, Calls
<1> QED
  BY <1>1, TypeKept, MarksKept, OwnKept, ServedKept, PipelineKept, PanicsKept DEF IInv

\* The invariant that all the others of BrokerBridge follow from: what the calls
\* of bus/channel_manager.go and bridge/ keep of subscriptions, listeners and
\* messages, whatever their interleaving.
THEOREM Invariant == Spec => []IInv
<1> QED
  BY Initially, Preserved, PTL DEF Spec

\* The variables keep their types, and nothing has the number of a call or of a
\* message that has not been made (NewBridgeWsConn to closeBrokerSubscriptions).
THEOREM TypeCorrect == Spec => []TypeOK
<1>1. IInv => TypeOK
  BY DEF IInv
<1> QED
  BY <1>1, Invariant, PTL

\* A channel has at most one broker subscription, however MarkChannelAsGalactic
\* and MarkChannelAsLocal race, and none when it was last marked local and the call
\* has returned, unless contrary marks of it crossed
\* (addBrokerSubscriptionIfMissing, closeBrokerSubscriptions).
THEOREM OneListener == Spec => []ListenersFollowMarks
<1>1. IInv => ListenersFollowMarks
  <2> SUFFICES ASSUME IInv, NEW c \in Channels
               PROVE  /\ Cardinality(BrokerSubs(c)) <= 1
                      /\ c \notin galactic \cup crossed /\ Quiet(c) => BrokerSubs(c) = {}
    BY DEF ListenersFollowMarks
  <2>1. c \notin galactic \cup crossed /\ Quiet(c) => BrokerSubs(c) = {}
    BY DEF IInv, MarksRule, BrokerSubs, Quiet
  <2>2. CASE BrokerSubs(c) = {}
    BY <2>1, <2>2, FS_EmptySet
  <2>3. CASE BrokerSubs(c) # {}
    <3>1. PICK l : l \in BrokerSubs(c)
      BY <2>3
    <3>2. BrokerSubs(c) = {l}
      BY <3>1 DEF IInv, MarksRule, BrokerSubs
    <3>3. Cardinality(BrokerSubs(c)) = 1
      BY <3>2, FS_Singleton
    <3> QED
      BY <2>1, <3>3
  <2> QED
    BY <2>2, <2>3
<1> QED
  BY <1>1, Invariant, PTL

\* A galactic channel whose mark has returned listens to a subscription that the
\* broker serves and the client gives the messages to, as long as the connection
\* is up, no contrary mark of the channel crossed, and the connection did not hand
\* the subscription out again (Subscribe, handleGalacticChannelEvent,
\* MarkChannelAsLocal).
THEOREM ChannelServed == Spec => []GalacticIsServed
<1>1. IInv => GalacticIsServed
  BY DEF IInv, ServedRule, Served, GalacticIsServed, Quiet, BrokerSubs, Listening
<1> QED
  BY <1>1, Invariant, PTL

\* The program panics only if the connection handed a subscription out again, whose
\* channel is closed twice then (Subscribe, Unsubscribe), or over TCP, when the
\* connection is lost or closing (subscribeTCP).
THEOREM OneClose == Spec => []PanicsOnlyIfSharedOrCut
<1>1. IInv => PanicsOnlyIfSharedOrCut
  BY DEF IInv
<1> QED
  BY <1>1, Invariant, PTL

\* A channel receives the messages of the broker in their order and none twice,
\* though its listener is replaced, unless calls made a subscription each or marks
\* of the channel crossed (handleIncomingSTOMPFrames, listenToBrokerSubscription).
THEOREM InOrderOnce == Spec => []OnceInOrder
<1>1. IInv => OnceInOrder
  BY DEF IInv
<1> QED
  BY <1>1, Invariant, PTL
=============================================================================
