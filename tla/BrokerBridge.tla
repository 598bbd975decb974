---------------------------- MODULE BrokerBridge ----------------------------
(***************************************************************************)
(* Galactic channels: bus channels that receive the messages of a broker's *)
(* destination (bus/channel_manager.go, bus/channel.go) over a connection  *)
(* of the bridge (bridge/), for one connection and one destination.        *)
(*                                                                         *)
(* MarkChannelAsGalactic and MarkChannelAsLocal run in goroutines of the   *)
(* application, RequestResponse beside them.  A connection keeps one       *)
(* subscription per destination and hands it out again.  Its messages come *)
(* through one Go channel without buffer: the goroutine that reads frames  *)
(* (one per WebSocket, one per subscription over TCP) waits until somebody *)
(* takes the message.                                                      *)
(***************************************************************************)
EXTENDS Naturals, Sequences, FiniteSets

CONSTANTS
  Channels, Threads, None,
  Socket,          \* the queue of frames of a WebSocket
  Fault,           \* an ERROR frame
  MaxCalls,        \* bound: calls of the application
  MaxFrames,       \* bound: messages published on the destination
  MaxFaults        \* bound: ERROR frames

ASSUME BoundAssumption == MaxCalls \in Nat /\ MaxFrames \in Nat /\ MaxFaults \in Nat
ASSUME NamesDiffer == None \notin Channels /\ Socket \notin 0..MaxCalls /\ Fault \notin Nat

VARIABLES
  transport,       \* ws or tcp, for good
  connection,      \* dialing, failed, hung, up, leaving, down
  lost,            \* the broker has closed it, which nobody notices
  cached,          \* connection.subscriptions[destination]
  mapped,          \* BridgeClient.Subscriptions[destination]
  open,            \* subscriptions whose channel is open
  active,          \* subscriptions the broker serves
  inbound,         \* frames on their way
  offered,         \* the message sent to the channel of a subscription, 0 if none
  stuck,           \* the frame handler sends to an error channel that is nil
  galactic,        \* channels marked
  listener,        \* connectionSub and its goroutine, by the call that made it
  received,        \* messages sent on to the bus channels
  crashed,         \* a closed channel was closed: the program has ended
  op,              \* the call a thread is in
  calls,           \* number of calls so far
  published,       \* number of messages the broker has published
  faults,          \* number of ERROR frames
  refused,         \* history: over TCP, a subscription the library refused was used
  shared,          \* history: subscriptions handed out more than once
  raced,           \* history: a subscription was made although there was one
  crossed          \* history: channels marked galactic and local at a time

connVars == <<transport, connection, lost>>
subVars == <<cached, mapped, open, active>>
frameVars == <<inbound, offered, stuck>>
channelVars == <<galactic, listener, received>>
brokerVars == <<published, faults>>
historyVars == <<refused, shared, raced, crossed>>
vars == <<connVars, subVars, frameVars, channelVars, brokerVars, historyVars, crashed, op, calls>>

\* A subscription and a listener have the number of the call that makes them.
Ids == 1..MaxCalls
NoCall == [kind |-> "none", channel |-> None, id |-> 0, at |-> "idle", sub |-> 0]
NoListener == [channel |-> None, on |-> 0, stopped |-> TRUE, at |-> "ended", holds |-> 0]

Init ==
  /\ transport \in {"ws", "tcp"} /\ connection = "dialing" /\ lost = FALSE
  /\ cached = 0 /\ mapped = 0 /\ open = {} /\ active = {}
  /\ inbound = [q \in Ids \cup {Socket} |-> <<>>]
  /\ offered = [s \in Ids |-> 0] /\ stuck = FALSE
  /\ galactic = {}
  /\ listener = [l \in Ids |-> NoListener]
  /\ received = [c \in Channels |-> <<>>]
  /\ crashed = FALSE
  /\ op = [t \in Threads |-> NoCall] /\ calls = 0
  /\ published = 0 /\ faults = 0
  /\ refused = FALSE /\ shared = {} /\ raced = FALSE /\ crossed = {}

CallRecord ==
  [kind : {"none", "galactic", "local", "request"}, channel : Channels \cup {None}, id : Nat,
   at : {"idle", "check", "lookup", "make", "add", "await", "close", "unsubscribe"}, sub : Nat]
ListenerRecord ==
  [channel : Channels \cup {None}, on : Nat, stopped : BOOLEAN,
   at : {"listening", "sending", "ended"}, holds : Nat \cup {Fault}]

\* Nothing has the number of a call that has not been made ...
CallsCounted ==
  /\ cached <= calls /\ mapped <= calls /\ open \cup shared \subseteq 1..calls
  /\ \A t \in Threads : op[t].id <= calls /\ op[t].sub <= calls
  /\ \A l \in Ids : listener[l].on <= calls

\* ... or of a message that has not been published; over TCP an ERROR frame is a
\* message like the others, without content.
Sent == 1..published \cup {Fault}

MessagesCounted ==
  /\ \A l \in Ids : /\ listener[l].holds \in Sent \cup {0}
                    /\ listener[l].at = "sending" => listener[l].holds # 0
  /\ \A s \in Ids : offered[s] \in Sent \cup {0}
  /\ \A q \in Ids \cup {Socket} : \A i \in DOMAIN inbound[q] : inbound[q][i] \in Sent
  /\ \A c \in Channels : \A i \in DOMAIN received[c] : received[c][i] \in Sent

Typed ==
  /\ transport \in {"ws", "tcp"} /\ lost \in BOOLEAN
  /\ connection \in {"dialing", "failed", "hung", "up", "leaving", "down"}
  /\ cached \in Nat /\ mapped \in Nat /\ active \subseteq open
  /\ inbound \in [Ids \cup {Socket} -> Seq(Nat \cup {Fault})]
  /\ offered \in [Ids -> Nat \cup {Fault}] /\ \A s \in Ids : offered[s] # 0 => s \in open
  /\ stuck \in BOOLEAN /\ crashed \in BOOLEAN
  /\ galactic \subseteq Channels
  /\ listener \in [Ids -> ListenerRecord]
  /\ received \in [Channels -> Seq(Nat \cup {Fault})]
  /\ op \in [Threads -> CallRecord]
  /\ calls \in 0..MaxCalls /\ published \in 0..MaxFrames /\ faults \in 0..MaxFaults
  /\ refused \in BOOLEAN /\ raced \in BOOLEAN /\ crossed \subseteq Channels

TypeOK == Typed /\ CallsCounted /\ MessagesCounted
-----------------------------------------------------------------------------
(***************************************************************************)
(* The connection.                                                         *)
(***************************************************************************)
ConnectUnchanged == UNCHANGED <<transport, subVars, frameVars, channelVars, brokerVars,
                                historyVars, crashed, op, calls>>

ConnectAnswered ==
  /\ ~crashed
  /\ connection = "dialing" /\ connection' = "up"
  /\ UNCHANGED lost /\ ConnectUnchanged

\* Nobody to dial is an error; whoever refuses a WebSocket client (an ERROR
\* frame, or a closed socket) leaves it waiting for ConnectedChan.
ConnectRefused ==
  /\ ~crashed
  /\ connection = "dialing"
  /\ connection' \in {"failed"} \cup (IF transport = "ws" THEN {"hung"} ELSE {})
  /\ UNCHANGED lost /\ ConnectUnchanged

\* A STOMP client over TCP ends every subscription with an error message.
EndSubscriptions ==
  /\ active' = {}
  /\ inbound' = [q \in DOMAIN inbound |->
       IF transport = "tcp" /\ q \in active THEN Append(inbound[q], Fault) ELSE inbound[q]]

\* listenSocket ends; the connection stays as it is.
LoseConnection ==
  /\ ~crashed
  /\ connection = "up" /\ ~lost
  /\ lost' = TRUE /\ EndSubscriptions
  /\ UNCHANGED <<transport, connection, cached, mapped, open, offered, stuck, channelVars,
                 brokerVars, historyVars, crashed, op, calls>>

Disconnect ==
  /\ ~crashed
  /\ connection = "up" /\ connection' = "leaving"
  /\ UNCHANGED lost /\ ConnectUnchanged

\* The frame handler of the WebSocket client is neither offering a message
\* nor stuck.
HandlerIdle == ~stuck /\ \A s \in Ids : offered[s] = 0

\* disconnectedChan has no buffer: Disconnect waits for the frame handler.
Disconnected ==
  /\ ~crashed
  /\ connection = "leaving"
  /\ transport = "ws" => HandlerIdle
  /\ connection' = "down" /\ EndSubscriptions
  /\ UNCHANGED <<transport, lost, cached, mapped, open, offered, stuck, channelVars, brokerVars,
                 historyVars, crashed, op, calls>>
-----------------------------------------------------------------------------
(***************************************************************************)
(* The calls of the application.                                           *)
(***************************************************************************)
BrokerSubs(c) == {l \in Ids : listener[l].channel = c /\ ~listener[l].stopped}

\* A call begins; a mark of a channel crosses the contrary marks under way.
Begin(t, kind, c) ==
  /\ ~crashed
  /\ op[t] = NoCall
  /\ connection \in {"up", "leaving", "down"}
  /\ calls < MaxCalls /\ calls' = calls + 1
  /\ crossed' = crossed \cup {d \in Channels \cap {c} :
                              \E u \in Threads : op[u].channel = d /\ op[u].kind # kind}

Step(t, at) == op' = [op EXCEPT ![t].at = at]
Finish(t) == op' = [op EXCEPT ![t] = NoCall]

\* Asks the connection, not the channel.
IsSubscribedByAny(c) == transport = "ws" /\ \E d \in Channels : BrokerSubs(d) # {}

\* isBrokerSubscribedToDestination: a TCP subscription knows no destination.
IsSubscribed(c) == transport = "ws" /\ BrokerSubs(c) # {}

MarkRecord(kind, c, at) ==
  [kind |-> kind, channel |-> c, id |-> calls', at |-> at, sub |-> 0]

\* SetGalactic; what comes of it is looked at afterwards.
MarkGalactic(t, c) ==
  /\ Begin(t, "galactic", c)
  /\ galactic' = galactic \cup {c}
  /\ op' = [op EXCEPT ![t] = MarkRecord("galactic", c, "check")]
  /\ UNCHANGED <<connVars, subVars, frameVars, listener, received, brokerVars, refused, shared,
                 raced, crashed>>

CheckSubscribed(t) ==
  /\ ~crashed
  /\ op[t].at = "check"
  /\ IF IsSubscribed(op[t].channel) THEN Finish(t) ELSE Step(t, "lookup")
  /\ UNCHANGED <<connVars, subVars, frameVars, channelVars, brokerVars, historyVars, crashed,
                 calls>>

RequestResponse(t) ==
  /\ Begin(t, "request", None)
  /\ op' = [op EXCEPT ![t] = MarkRecord("request", None, "lookup")]
  /\ UNCHANGED <<connVars, subVars, frameVars, channelVars, brokerVars, refused, shared, raced,
                 crashed>>

\* The listeners are told to stop, but stay in the list.
StopListeners(c) ==
  listener' = [l \in Ids |-> IF l \in BrokerSubs(c)
                             THEN [listener[l] EXCEPT !.at = "ended"] ELSE listener[l]]

\* closeBrokerSubscriptions of the channel.
TakeListeners(c) ==
  listener' = [l \in Ids |-> IF l \in BrokerSubs(c)
                             THEN [listener[l] EXCEPT !.stopped = TRUE] ELSE listener[l]]

\* SetLocal; the subscriptions are closed afterwards, whatever the channel is then.
MarkLocal(t, c) ==
  /\ Begin(t, "local", c)
  /\ galactic' = galactic \ {c}
  /\ op' = [op EXCEPT ![t] = MarkRecord("local", c, "close")]
  /\ UNCHANGED <<connVars, subVars, frameVars, listener, received, brokerVars, refused, shared,
                 raced, crashed>>

\* There is never more than one (OneListener), so one is unsubscribed.
CloseSubscriptions(t) ==
  LET c == op[t].channel IN
  /\ ~crashed
  /\ op[t].at = "close"
  /\ TakeListeners(c)
  /\ IF BrokerSubs(c) = {} THEN Finish(t)
     ELSE \E l \in BrokerSubs(c) :
            op' = [op EXCEPT ![t].at = "unsubscribe", ![t].sub = listener[l].on]
  /\ UNCHANGED <<connVars, subVars, frameVars, galactic, received, brokerVars, historyVars,
                 crashed, calls>>

WhenSubscribed(t) == IF op[t].kind = "request" THEN "await" ELSE "add"

\* Subscribe: the subscription there is, whatever has become of it ...
Lookup(t) ==
  /\ ~crashed
  /\ op[t].at = "lookup"
  /\ IF cached # 0
     THEN /\ op' = [op EXCEPT ![t].at = WhenSubscribed(t), ![t].sub = cached]
          /\ shared' = shared \cup {cached}
     ELSE Step(t, "make") /\ UNCHANGED shared
  /\ UNCHANGED <<connVars, subVars, frameVars, channelVars, brokerVars, refused, raced, crossed,
                 crashed, calls>>

\* The connection does not keep what it has made.
MakeUncached(t) ==
  /\ ~crashed
  /\ op[t].at = "make"
  /\ connection # "down"
  /\ op' = [op EXCEPT ![t].at = WhenSubscribed(t), ![t].sub = op[t].id]
  /\ mapped' = IF transport = "ws" THEN op[t].id ELSE mapped
  /\ open' = open \cup {op[t].id}
  /\ active' = IF lost THEN active ELSE active \cup {op[t].id}
  /\ UNCHANGED <<connVars, cached, frameVars, channelVars, brokerVars, historyVars, crashed, calls>>

\* ... or a new one: nobody looks again.
MakeSubscription(t) ==
  /\ ~crashed
  /\ op[t].at = "make"
  /\ connection # "down"
  /\ op' = [op EXCEPT ![t].at = WhenSubscribed(t), ![t].sub = op[t].id]
  /\ cached' = op[t].id
  /\ mapped' = IF transport = "ws" THEN op[t].id ELSE mapped
  /\ open' = open \cup {op[t].id}
  /\ active' = IF lost THEN active ELSE active \cup {op[t].id}
  /\ raced' = (raced \/ cached # 0)
  /\ UNCHANGED <<connVars, frameVars, channelVars, brokerVars, refused, shared, crossed, crashed,
                 calls>>

\* An error when the connection has been cleaned up.  One that is closing or
\* lost may still be there: over TCP the error of the library is dropped, and
\* the subscription that it did not make is used.
FailSubscription(t) ==
  /\ ~crashed
  /\ op[t].at = "make"
  /\ \/ connection = "down" /\ Finish(t) /\ UNCHANGED <<refused, crashed>>
     \/ /\ transport = "tcp" /\ (connection = "leaving" \/ (connection = "up" /\ lost))
        /\ refused' = TRUE /\ crashed' = TRUE
        /\ UNCHANGED op
  /\ UNCHANGED <<connVars, subVars, frameVars, channelVars, brokerVars, shared, raced, crossed,
                 calls>>

AddAlways(c) == TRUE
IsMissing(c) == BrokerSubs(c) = {}

\* addBrokerSubscriptionIfMissing; a subscription too many is unsubscribed.
AddSubscription(t) ==
  LET c == op[t].channel IN
  /\ ~crashed
  /\ op[t].at = "add"
  /\ IF IsMissing(c)
     THEN /\ listener' = [listener EXCEPT ![op[t].id] =
               [channel |-> c, on |-> op[t].sub, stopped |-> FALSE,
                at |-> "listening", holds |-> 0]]
          /\ Finish(t)
     ELSE Step(t, "unsubscribe") /\ UNCHANGED listener
  /\ UNCHANGED <<connVars, subVars, frameVars, galactic, received, brokerVars, historyVars,
                 crashed, calls>>

\* The subscription is not locked.
UnsubscribeUnlocked(t) ==
  /\ ~crashed
  /\ op[t].at = "unsubscribe"
  /\ open' = open \ {op[t].sub} /\ active' = active \ {op[t].sub}
  /\ crashed' = (op[t].sub \notin open)
  /\ Finish(t)
  /\ UNCHANGED <<connVars, cached, mapped, frameVars, channelVars, brokerVars, historyVars, calls>>

\* A WebSocket subscription is locked while a message is offered on its
\* channel.  Over TCP the goroutine that offers one ends.
Unsubscribe(t) ==
  LET s == op[t].sub IN
  /\ ~crashed
  /\ op[t].at = "unsubscribe"
  /\ transport = "ws" => offered[s] = 0
  /\ open' = open \ {s} /\ active' = active \ {s}
  /\ offered' = [offered EXCEPT ![s] = 0]
  /\ crashed' = (s \notin open)
  /\ Finish(t)
  /\ UNCHANGED <<connVars, cached, mapped, inbound, stuck, channelVars, brokerVars, historyVars,
                 calls>>

\* RequestResponse takes a message, sees the channel closed, or gives up; it
\* does not unsubscribe.
EndRequest(t) ==
  LET s == op[t].sub IN
  /\ ~crashed
  /\ op[t].at = "await"
  /\ offered' \in {offered, [offered EXCEPT ![s] = 0]}
  /\ Finish(t)
  /\ UNCHANGED <<connVars, subVars, inbound, stuck, channelVars, brokerVars, historyVars,
                 crashed, calls>>
-----------------------------------------------------------------------------
(***************************************************************************)
(* The broker, the frames, and the listeners of the channels.              *)
(***************************************************************************)
Copies(n) == [i \in 1..n |-> published + 1]

\* The broker sends a message to every subscription.  A WebSocket client
\* sorts the frames by their destination, not by their subscription.
Publish ==
  /\ ~crashed
  /\ published < MaxFrames /\ published' = published + 1
  /\ active # {}
  /\ inbound' = [q \in DOMAIN inbound |->
       IF transport = "ws"
       THEN IF q = Socket THEN inbound[q] \o Copies(Cardinality(active)) ELSE inbound[q]
       ELSE IF q \in active THEN inbound[q] \o Copies(1) ELSE inbound[q]]
  /\ UNCHANGED <<connVars, subVars, offered, stuck, channelVars, faults, historyVars, crashed,
                 op, calls>>

\* An ERROR frame is one frame of a WebSocket; over TCP it ends the connection.
SendError ==
  /\ ~crashed
  /\ connection = "up" /\ ~lost
  /\ faults < MaxFaults /\ faults' = faults + 1
  /\ \/ /\ transport = "ws"
        /\ inbound' = [inbound EXCEPT ![Socket] = Append(@, Fault)]
        /\ UNCHANGED <<lost, active>>
     \/ transport = "tcp" /\ lost' = TRUE /\ EndSubscriptions
  /\ UNCHANGED <<transport, connection, cached, mapped, open, offered, stuck, channelVars,
                 published, historyVars, crashed, op, calls>>

\* handleIncomingSTOMPFrames: one frame after the other.  An error goes to
\* the error channel of the subscription, which nobody ever made.
HandleFrame ==
  /\ ~crashed
  /\ connection \in {"up", "leaving"} /\ HandlerIdle
  /\ inbound[Socket] # <<>>
  /\ inbound' = [inbound EXCEPT ![Socket] = Tail(@)]
  /\ LET f == Head(inbound[Socket]) IN
     IF f = Fault THEN stuck' = (mapped # 0) /\ UNCHANGED offered
     ELSE /\ offered' = IF mapped \in open THEN [offered EXCEPT ![mapped] = f] ELSE offered
          /\ UNCHANGED stuck
  /\ UNCHANGED <<connVars, subVars, channelVars, brokerVars, historyVars, crashed, op, calls>>

\* listenTCPFrames; a message for a closed channel is its last.  An error comes
\* as a message, whose Err nobody reads: an empty message is sent on.
HandleTCPFrame(s) ==
  /\ ~crashed
  /\ offered[s] = 0 /\ inbound[s] # <<>>
  /\ inbound' = [inbound EXCEPT ![s] = Tail(@)]
  /\ offered' = IF s \in open THEN [offered EXCEPT ![s] = Head(inbound[s])] ELSE offered
  /\ UNCHANGED <<connVars, subVars, stuck, channelVars, brokerVars, historyVars, crashed, op,
                 calls>>

\* listenToBrokerSubscription.
TakeMessage(l) ==
  LET s == listener[l].on IN
  /\ ~crashed
  /\ listener[l].at = "listening"
  /\ s # 0 /\ offered[s] # 0
  /\ listener' = [listener EXCEPT ![l].at = "sending", ![l].holds = offered[s]]
  /\ offered' = [offered EXCEPT ![s] = 0]
  /\ UNCHANGED <<connVars, subVars, inbound, stuck, galactic, received, brokerVars, historyVars,
                 crashed, op, calls>>

SendToChannel(l) ==
  /\ ~crashed
  /\ listener[l].at = "sending"
  /\ received' = [received EXCEPT ![listener[l].channel] = Append(@, listener[l].holds)]
  /\ listener' = [listener EXCEPT ![l].at = "listening", ![l].holds = 0]
  /\ UNCHANGED <<connVars, subVars, frameVars, galactic, brokerVars, historyVars, crashed, op,
                 calls>>

EndListener(l) ==
  /\ ~crashed
  /\ listener[l].at = "listening"
  /\ listener[l].stopped \/ listener[l].on \notin open
  /\ listener' = [listener EXCEPT ![l].at = "ended"]
  /\ UNCHANGED <<connVars, subVars, frameVars, galactic, received, brokerVars, historyVars,
                 crashed, op, calls>>
-----------------------------------------------------------------------------
Call(t) ==
  \/ \E c \in Channels : MarkGalactic(t, c) \/ MarkLocal(t, c)
  \/ RequestResponse(t)
  \/ CheckSubscribed(t) \/ Lookup(t) \/ MakeSubscription(t) \/ FailSubscription(t)
  \/ AddSubscription(t) \/ CloseSubscriptions(t) \/ Unsubscribe(t) \/ EndRequest(t)

Next ==
  \/ ConnectAnswered \/ ConnectRefused \/ LoseConnection \/ Disconnect \/ Disconnected
  \/ \E t \in Threads : Call(t)
  \/ Publish \/ SendError \/ HandleFrame
  \/ \E i \in Ids : HandleTCPFrame(i) \/ TakeMessage(i) \/ SendToChannel(i) \/ EndListener(i)

Spec == Init /\ [][Next]_vars
-----------------------------------------------------------------------------
(***************************************************************************)
(* Properties.                                                             *)
(***************************************************************************)
Quiet(c) == \A t \in Threads : op[t].channel # c

(* A channel has at most one broker subscription, however its marks race,  *)
(* and none when it was last marked local and the call has returned        *)
(* (MarkChannelAsGalactic, MarkChannelAsLocal,                             *)
(* addBrokerSubscriptionIfMissing): only contrary marks of one channel     *)
(* that cross can leave a local channel with a listener.                   *)
ListenersFollowMarks ==
  \A c \in Channels :
    /\ Cardinality(BrokerSubs(c)) <= 1
    /\ c \notin galactic \cup crossed /\ Quiet(c) => BrokerSubs(c) = {}

(* A galactic channel listens to a subscription that the broker serves and *)
(* that the client gives the messages to, once the call has returned       *)
(* (handleGalacticChannelEvent, Subscribe), however many goroutines mark   *)
(* it galactic at a time.  Not if a contrary mark crossed: it closes the   *)
(* subscriptions of a channel that has been galactic since.  Not if the    *)
(* connection has handed the subscription out again: another channel, or a *)
(* second mark over TCP, unsubscribes it, or it was closed before          *)
(* (subscription.go keeps it in the connection); and not if two calls made *)
(* one each, of which the client serves the last.                          *)
GalacticIsServed ==
  connection = "up" /\ ~lost =>
    \A c \in galactic \ crossed :
      Quiet(c) => \E l \in BrokerSubs(c) :
                    \/ listener[l].on \in shared \/ raced
                    \/ /\ listener[l].on \in open \cap active
                       /\ transport = "ws" => listener[l].on = mapped

(* A channel receives the messages of the broker in the order in which     *)
(* they were published and none twice, though its listener is replaced     *)
(* when it is marked again (handleIncomingSTOMPFrames, listenTCPFrames,    *)
(* listenToBrokerSubscription).  Two subscriptions made by racing calls    *)
(* duplicate every message, and a mark that crosses a contrary one finds   *)
(* the old listener with a message in hand.                                *)
OnceInOrder ==
  ~raced => \A c \in Channels \ crossed : \A i, j \in DOMAIN received[c] :
              i < j /\ Fault \notin {received[c][i], received[c][j]}
                => received[c][i] < received[c][j]

(* The program panics only if the connection has handed a subscription out *)
(* again, so that its channel is closed twice (closeBrokerSubscriptions,   *)
(* handleGalacticChannelEvent, Unsubscribe), or over TCP, when it has lost *)
(* the broker or is leaving it (subscribeTCP).                             *)
PanicsOnlyIfSharedOrCut ==
  crashed => \/ shared # {}
             \/ refused /\ transport = "tcp" /\ (lost \/ connection = "leaving")
=============================================================================
