---------------------------- MODULE StompServer -----------------------------
(***************************************************************************)
(* The STOMP server (stompserver/server.go) and its connections            *)
(* (stompserver/stomp_connection.go).                                      *)
(*                                                                         *)
(* One goroutine, the loop, owns the maps of connections and subscriptions *)
(* and takes from two bounded queues.  The acceptor makes connections and  *)
(* announces them; every connection has a goroutine that serves the frames *)
(* of its client, writes the frames the loop gave it and reports events to *)
(* the loop.  Either side may wait for room in the queue of the other.     *)
(*                                                                         *)
(* The frames a client has sent are left open: a connection that looks for *)
(* one finds any frame, or the end of the stream.  Heart-beats, headers    *)
(* and receipts are left out: their writes fail or hang as those of the    *)
(* frames do.  No socket has a write deadline: a write to a client that    *)
(* does not read hangs until somebody closes the connection.               *)
(***************************************************************************)
EXTENDS Naturals, Sequences

CONSTANTS
  Conns,           \* the connections that may be made
  Subscriptions,   \* [id, destination]: what clients subscribe to
  None,            \* no connection, no subscription
  EventQueue,      \* capacity of connectionEvents (64 in the code)
  ApiQueue,        \* capacity of apiEvents (32 in the code)
  OutQueue,        \* capacity of outFrames (32 in the code)
  Kicks,           \* may the application call CloseConnectionsByIP?
  CloseEndsAccept, \* does Accept of a closed listener fail? (TCP: yes)
  MaxFrames,       \* bound: frames a client sends
  MaxCalls         \* bound: API calls other than Stop

ASSUME QueueAssumption ==
  EventQueue \in Nat \ {0} /\ ApiQueue \in Nat \ {0} /\ OutQueue \in Nat \ {0}
ASSUME BoundAssumption == MaxFrames \in Nat /\ MaxCalls \in Nat
ASSUME KicksAssumption == Kicks \in BOOLEAN
ASSUME ListenerAssumption == CloseEndsAccept \in BOOLEAN

\* What connections and the acceptor report to the loop.
Events ==
  [type : {"ConnectionStarting", "ConnectionEstablished", "ConnectionClosed",
           "SubscribeToTopic", "UnsubscribeFromTopic", "IncomingMessage"},
   conn : Conns, sub : Subscriptions \cup {None}]

\* No event is none.
ASSUME NoneAssumption == None \notin Events

VARIABLES
  running,         \* stompServer.running
  loop,            \* what the loop is doing
  work,            \* what is left of the API event it is working on
  acceptor,        \* what the acceptor is doing
  newcomer,        \* the connection it is announcing
  apiEvents, connectionEvents,
  connectionsMap,  \* connections the loop knows
  subscriptionsMap,\* <<connection, subscription>> pairs the loop knows
  goroutine,       \* what the goroutine of a connection is doing
  emitting,        \* the event it is waiting to report
  state,           \* stompConn.state
  closed,          \* connections whose Close has run
  subscriptions,   \* stompConn.subscriptions
  outFrames,       \* how many frames the loop has left for a connection
  latecomers,      \* goroutines that wait to report ConnectionClosed
  closeLater,      \* goroutines that wait to queue closeServer
  frames, calls,   \* frames and API calls so far
  lost,            \* history: connections with an event that timed out
  cutOff,          \* history: connections another goroutine closed
  cleaned          \* history: connections whose ConnectionClosed was handled

serverVars == <<running, loop, work, apiEvents, calls, closeLater>>
mapVars == <<connectionsMap, subscriptionsMap, cleaned>>
acceptorVars == <<acceptor, newcomer>>
connVars == <<goroutine, emitting, state, subscriptions, outFrames, frames>>
closeVars == <<closed, latecomers>>
history == <<lost, cutOff>>
vars == <<serverVars, mapVars, acceptorVars, connVars, closeVars, history,
          connectionEvents>>

Init ==
  /\ running = TRUE
  /\ loop = "select"
  /\ work = {}
  /\ acceptor = "accept"
  /\ newcomer = None
  /\ apiEvents = <<>>
  /\ connectionEvents = <<>>
  /\ connectionsMap = {}
  /\ subscriptionsMap = {}
  /\ goroutine = [c \in Conns |-> "none"]
  /\ emitting = [c \in Conns |-> None]
  /\ state = [c \in Conns |-> "connecting"]
  /\ closed = {}
  /\ subscriptions = [c \in Conns |-> {}]
  /\ outFrames = [c \in Conns |-> 0]
  /\ latecomers = {}
  /\ closeLater = FALSE
  /\ frames = [c \in Conns |-> 0]
  /\ calls = 0
  /\ lost = {}
  /\ cutOff = {}
  /\ cleaned = {}

\* The channel done of the server is closed when the loop ends.
Done == loop = "ended"

Event(type, c, sub) == [type |-> type, conn |-> c, sub |-> sub]
OneTooMany == Len(connectionEvents) <= EventQueue
Room == Len(connectionEvents) < EventQueue
Report(e) == connectionEvents' = Append(connectionEvents, e)
-----------------------------------------------------------------------------
(***************************************************************************)
(* Closing a connection, by whoever comes first: Close is a sync.Once.     *)
(***************************************************************************)
\* sendConnectionClosed never waits: without room it leaves a goroutine behind.
\* Once the server is done nobody takes events, queued or not.
Close(c) ==
  IF c \in closed
  THEN UNCHANGED <<closeVars, connectionEvents>>
  ELSE /\ closed' = closed \cup {c}
       /\ IF Room
          THEN Report(Event("ConnectionClosed", c, None)) /\ UNCHANGED latecomers
          ELSE /\ latecomers' = IF Done THEN latecomers ELSE latecomers \cup {c}
               /\ UNCHANGED connectionEvents

StateClosed(c) == [state EXCEPT ![c] = IF c \in closed THEN @ ELSE "closed"]

\* The goroutine that was left behind gives up after connectionEventSendTimeout.
ReportClosed(c) ==
  /\ c \in latecomers
  /\ Room
  /\ Report(Event("ConnectionClosed", c, None))
  /\ latecomers' = latecomers \ {c}
  /\ UNCHANGED <<serverVars, mapVars, acceptorVars, connVars, closed, history>>

ClosedTimesOut(c) ==
  /\ c \in latecomers
  /\ ~Room
  /\ latecomers' = latecomers \ {c}
  /\ lost' = IF Done THEN lost ELSE lost \cup {c}
  /\ UNCHANGED <<serverVars, mapVars, acceptorVars, connVars, closed, cutOff,
                 connectionEvents>>
-----------------------------------------------------------------------------
(***************************************************************************)
(* The acceptor (waitForConnections).                                      *)
(***************************************************************************)
\* newStompConn starts the goroutines before the connection is announced.  An
\* upgrade that was under way reaches the WebSocket listener after its Close.
Accept(c) ==
  /\ acceptor = "accept"
  /\ Done => ~CloseEndsAccept
  /\ goroutine[c] = "none"
  /\ goroutine' = [goroutine EXCEPT ![c] = "select"]
  /\ acceptor' = "check"
  /\ newcomer' = c
  /\ UNCHANGED <<serverVars, mapVars, emitting, state, subscriptions, outFrames,
                 frames, closeVars, history, connectionEvents>>

\* sendConnectionEvent: look at running, then wait for room or for done.
CheckRunning ==
  /\ acceptor = "check"
  /\ running
  /\ acceptor' = "announce"
  /\ UNCHANGED <<serverVars, mapVars, newcomer, connVars, closeVars, history,
                 connectionEvents>>

Announce ==
  /\ acceptor = "announce"
  /\ Room
  /\ Report(Event("ConnectionStarting", newcomer, None))
  /\ acceptor' = IF running THEN "accept" ELSE "gone"
  /\ newcomer' = None
  /\ UNCHANGED <<serverVars, mapVars, connVars, closeVars, history>>

Refuse ==
  /\ \/ acceptor = "check" /\ ~running
     \/ acceptor = "announce" /\ Done
  /\ Close(newcomer)
  /\ state' = StateClosed(newcomer)
  /\ cutOff' = cutOff \cup ({newcomer} \ closed)
  /\ acceptor' = "gone"
  /\ newcomer' = None
  /\ UNCHANGED <<serverVars, mapVars, goroutine, emitting, subscriptions,
                 outFrames, frames, lost>>

\* Accept of the closed TCP listener fails; the one of the WebSocket listener
\* goes on waiting for the next upgrade, on a channel nobody closes.
AcceptorEnds ==
  /\ acceptor = "accept"
  /\ Done /\ CloseEndsAccept
  /\ acceptor' = "gone"
  /\ UNCHANGED <<serverVars, mapVars, newcomer, connVars, closeVars, history,
                 connectionEvents>>
-----------------------------------------------------------------------------
(***************************************************************************)
(* The API of the server.                                                  *)
(***************************************************************************)
Call(event) ==
  /\ running
  /\ calls < MaxCalls
  /\ Len(apiEvents) < ApiQueue
  /\ calls' = calls + 1
  /\ apiEvents' = Append(apiEvents, event)
  /\ UNCHANGED <<running, loop, work, closeLater, mapVars, acceptorVars, connVars,
                 closeVars, history, connectionEvents>>

Addressees == {Conns} \cup {{c} : c \in Conns}
Destinations == {s.destination : s \in Subscriptions}

\* SendMessage, and SendMessageToClient to one connection.
SendMessage(d, receivers) ==
  Call([type |-> "sendMessage", destination |-> d, conns |-> receivers])

CloseConnectionsByIP(addressed) ==
  /\ Kicks
  /\ Call([type |-> "closeConnectionByIP", destination |-> None,
           conns |-> addressed])

\* Stop queues closeServer, in a goroutine when there is no room.
DropsWhenFull == FALSE
WaitsWhenFull == Len(apiEvents) = ApiQueue
CloseServer == [type |-> "closeServer", destination |-> None, conns |-> {}]

Stop ==
  /\ running
  /\ running' = FALSE
  /\ closeLater' = WaitsWhenFull
  /\ apiEvents' = IF Len(apiEvents) < ApiQueue THEN Append(apiEvents, CloseServer)
                                              ELSE apiEvents
  /\ UNCHANGED <<loop, work, calls, mapVars, acceptorVars, connVars, closeVars,
                 history, connectionEvents>>

QueueCloseServer ==
  /\ closeLater
  /\ Len(apiEvents) < ApiQueue
  /\ apiEvents' = Append(apiEvents, CloseServer)
  /\ closeLater' = FALSE
  /\ UNCHANGED <<running, loop, work, calls, mapVars, acceptorVars, connVars,
                 closeVars, history, connectionEvents>>
-----------------------------------------------------------------------------
(***************************************************************************)
(* The loop (run).                                                         *)
(***************************************************************************)
\* closeServer closes the connections the loop knows, and ends it.  The events
\* of these closings find nobody to take them.
TakeCloseServer ==
  /\ loop = "select"
  /\ apiEvents # <<>> /\ Head(apiEvents).type = "closeServer"
  /\ loop' = "ended"
  /\ apiEvents' = Tail(apiEvents)
  /\ closed' = closed \cup connectionsMap
  /\ state' = [c \in Conns |-> IF c \in connectionsMap \ closed THEN "closed"
                                                               ELSE state[c]]
  /\ connectionsMap' = {}
  /\ UNCHANGED <<running, work, calls, closeLater, subscriptionsMap, cleaned,
                 acceptorVars, goroutine, emitting, subscriptions, outFrames,
                 frames, latecomers, history, connectionEvents>>

\* sendFrame and sendFrameToClient: the subscriptions to the destination.
TakeSend ==
  /\ loop = "select"
  /\ apiEvents # <<>> /\ Head(apiEvents).type = "sendMessage"
  /\ LET e == Head(apiEvents)
     IN  work' = {p \in subscriptionsMap : p[2].destination = e.destination
                                             /\ p[1] \in e.conns}
  /\ apiEvents' = Tail(apiEvents)
  /\ loop' = "sending"
  /\ UNCHANGED <<running, calls, closeLater, mapVars, acceptorVars, connVars,
                 closeVars, history, connectionEvents>>

\* SendFrameToSubscription waits for room, or for the connection to be closed.
Deliver(p) ==
  /\ loop = "sending"
  /\ p \in work
  /\ \/ /\ outFrames[p[1]] < OutQueue
        /\ outFrames' = [outFrames EXCEPT ![p[1]] = @ + 1]
     \/ p[1] \in closed /\ UNCHANGED outFrames
  /\ work' = work \ {p}
  /\ UNCHANGED <<running, loop, apiEvents, calls, closeLater, mapVars,
                 acceptorVars, goroutine, emitting, state, subscriptions, frames,
                 closeVars, history, connectionEvents>>

TakeKick ==
  /\ loop = "select"
  /\ apiEvents # <<>> /\ Head(apiEvents).type = "closeConnectionByIP"
  /\ work' = {<<c, None>> : c \in connectionsMap \cap Head(apiEvents).conns}
  /\ apiEvents' = Tail(apiEvents)
  /\ loop' = "kicking"
  /\ UNCHANGED <<running, calls, closeLater, mapVars, acceptorVars, connVars,
                 closeVars, history, connectionEvents>>

\* SendError writes from the loop: until it has, the loop stands here.
Kick(p) ==
  /\ loop = "kicking"
  /\ p \in work
  /\ Close(p[1])
  /\ state' = StateClosed(p[1])
  /\ cutOff' = cutOff \cup ({p[1]} \ closed)
  /\ work' = work \ {p}
  /\ UNCHANGED <<running, loop, apiEvents, calls, closeLater, mapVars,
                 acceptorVars, goroutine, emitting, subscriptions, outFrames,
                 frames, lost>>

Resume ==
  /\ loop \in {"sending", "kicking"}
  /\ work = {}
  /\ loop' = "select"
  /\ UNCHANGED <<running, work, apiEvents, calls, closeLater, mapVars,
                 acceptorVars, connVars, closeVars, history, connectionEvents>>

\* What handleConnectionEvent makes of the subscriptions it knows; subscribe
\* and unsubscribe callbacks are called for the difference.
KeepOnUnsubscribe(known, e) ==
  CASE e.type = "SubscribeToTopic" -> known \cup {<<e.conn, e.sub>>}
    [] e.type = "ConnectionClosed" -> {p \in known : p[1] # e.conn}
    [] OTHER                       -> known
Track(known, e) ==
  CASE e.type = "SubscribeToTopic"     -> known \cup {<<e.conn, e.sub>>}
    [] e.type = "UnsubscribeFromTopic" -> known \ {<<e.conn, e.sub>>}
    [] e.type = "ConnectionClosed"     -> {p \in known : p[1] # e.conn}
    [] OTHER                           -> known

HandleConnectionEvent ==
  /\ loop = "select"
  /\ connectionEvents # <<>>
  /\ LET e == Head(connectionEvents)
     IN  /\ subscriptionsMap' = Track(subscriptionsMap, e)
         /\ connectionsMap' = CASE e.type = "ConnectionStarting" ->
                                     connectionsMap \cup {e.conn}
                                [] e.type = "ConnectionClosed" ->
                                     connectionsMap \ {e.conn}
                                [] OTHER -> connectionsMap
         /\ cleaned' = IF e.type = "ConnectionClosed" THEN cleaned \cup {e.conn}
                                                     ELSE cleaned
  /\ connectionEvents' = Tail(connectionEvents)
  /\ UNCHANGED <<serverVars, acceptorVars, connVars, closeVars, history>>
-----------------------------------------------------------------------------
(***************************************************************************)
(* The goroutine of a connection (stompConn.run).                          *)
(***************************************************************************)
\* It looks at the state before every select.
Serves(c) == goroutine[c] = "select" /\ state[c] # "closed"

Receives(c) ==
  /\ Serves(c)
  /\ frames[c] < MaxFrames
  /\ frames' = [frames EXCEPT ![c] = @ + 1]

Emit(c, type, sub) ==
  /\ emitting' = [emitting EXCEPT ![c] = Event(type, c, sub)]
  /\ goroutine' = [goroutine EXCEPT ![c] = "emitting"]

\* CONNECT: the answer is written; the state changes after that, whatever it
\* has become meanwhile.
Connect(c) ==
  /\ Receives(c)
  /\ state[c] = "connecting"
  /\ c \notin closed
  /\ goroutine' = [goroutine EXCEPT ![c] = "connecting"]
  /\ UNCHANGED <<serverVars, mapVars, acceptorVars, emitting, state,
                 subscriptions, outFrames, closeVars, history, connectionEvents>>

Connected(c) ==
  /\ goroutine[c] = "connecting"
  /\ state' = [state EXCEPT ![c] = "connected"]
  /\ Emit(c, "ConnectionEstablished", None)
  /\ UNCHANGED <<serverVars, mapVars, acceptorVars, subscriptions, outFrames,
                 frames, closeVars, history, connectionEvents>>

\* SUBSCRIBE: an id that is taken changes nothing.
IdIsFree(c, sub) == \A s \in subscriptions[c] : s.id # sub.id

Subscribe(c, sub) ==
  /\ Receives(c)
  /\ state[c] = "connected"
  /\ IdIsFree(c, sub)
  /\ subscriptions' = [subscriptions EXCEPT ![c] = @ \cup {sub}]
  /\ Emit(c, "SubscribeToTopic", sub)
  /\ UNCHANGED <<serverVars, mapVars, acceptorVars, state, outFrames, closeVars,
                 history, connectionEvents>>

Unsubscribe(c, sub) ==
  /\ Receives(c)
  /\ state[c] = "connected"
  /\ sub \in subscriptions[c]
  /\ subscriptions' = [subscriptions EXCEPT ![c] = @ \ {sub}]
  /\ Emit(c, "UnsubscribeFromTopic", sub)
  /\ UNCHANGED <<serverVars, mapVars, acceptorVars, state, outFrames, closeVars,
                 history, connectionEvents>>

\* SEND to an application destination.
Send(c) ==
  /\ Receives(c)
  /\ state[c] = "connected"
  /\ Emit(c, "IncomingMessage", None)
  /\ UNCHANGED <<serverVars, mapVars, acceptorVars, state, subscriptions,
                 outFrames, closeVars, history, connectionEvents>>

\* DISCONNECT, a frame that is an error, the end of the stream, or a state that
\* was set to closed: the goroutine ends and closes the connection.
Leave(c) ==
  /\ goroutine[c] = "select"
  /\ Close(c)
  /\ state' = StateClosed(c)
  /\ goroutine' = [goroutine EXCEPT ![c] = "ended"]
  /\ UNCHANGED <<serverVars, mapVars, acceptorVars, emitting, subscriptions,
                 outFrames, frames, history>>

\* sendEvent: room, the end of the server, or the timeout.
Emitted(c) ==
  /\ emitting' = [emitting EXCEPT ![c] = None]
  /\ goroutine' = [goroutine EXCEPT ![c] = "select"]
  /\ UNCHANGED <<serverVars, mapVars, acceptorVars, state, subscriptions,
                 outFrames, frames, closeVars, cutOff>>

SendEvent(c) ==
  /\ goroutine[c] = "emitting"
  /\ Room
  /\ Report(emitting[c])
  /\ Emitted(c)
  /\ UNCHANGED lost

WaitsForever == FALSE
TimesOut == ~Room

SendEventGivesUp(c) ==
  /\ goroutine[c] = "emitting"
  /\ TimesOut \/ Done
  /\ lost' = IF Done THEN lost ELSE lost \cup {c}
  /\ Emitted(c)
  /\ UNCHANGED connectionEvents

\* A frame the loop left is written; a write that fails ends the goroutine.
TakeFrame(c) ==
  /\ Serves(c)
  /\ outFrames[c] > 0
  /\ outFrames' = [outFrames EXCEPT ![c] = @ - 1]
  /\ goroutine' = [goroutine EXCEPT ![c] = "writing"]
  /\ UNCHANGED <<serverVars, mapVars, acceptorVars, emitting, state,
                 subscriptions, frames, closeVars, history, connectionEvents>>

Written(c) ==
  /\ goroutine[c] = "writing"
  /\ goroutine' = [goroutine EXCEPT ![c] = "select"]
  /\ UNCHANGED <<serverVars, mapVars, acceptorVars, emitting, state,
                 subscriptions, outFrames, frames, closeVars, history,
                 connectionEvents>>
-----------------------------------------------------------------------------
Acceptor == CheckRunning \/ Announce \/ Refuse \/ AcceptorEnds

Loop ==
  \/ TakeCloseServer \/ TakeSend \/ TakeKick \/ Resume \/ HandleConnectionEvent
  \/ \E p \in work : Deliver(p)

\* What the goroutine of a connection does without its client, and the writes
\* that end with the help of the client: its own and those of the loop.
Goes(c) == SendEvent(c) \/ SendEventGivesUp(c) \/ TakeFrame(c)
Writes(c) == Connected(c) \/ Written(c)
Kicked == \E p \in work : Kick(p)

Next ==
  \/ Acceptor \/ Loop \/ Kicked \/ Stop \/ QueueCloseServer
  \/ \E to \in Addressees :
       CloseConnectionsByIP(to) \/ \E d \in Destinations : SendMessage(d, to)
  \/ \E c \in Conns :
       \/ Accept(c) \/ Goes(c) \/ Writes(c) \/ Leave(c) \/ ReportClosed(c) \/ ClosedTimesOut(c)
       \/ Connect(c) \/ Send(c)
       \/ \E s \in Subscriptions : Subscribe(c, s) \/ Unsubscribe(c, s)

Spec == Init /\ [][Next]_vars

\* Goroutines go on: timers fire, a goroutine that finds its state closed ends,
\* and a write to a closed connection ends.  Clients and the application do
\* nothing they need not: other writes may hang.
Fairness ==
  /\ WF_vars(Acceptor) /\ WF_vars(Loop) /\ WF_vars(QueueCloseServer)
  /\ WF_vars(\E p \in work : p[1] \in closed /\ Kick(p))
  /\ \A c \in Conns : /\ WF_vars(Goes(c))
                      /\ WF_vars(c \in closed /\ Writes(c))
                      /\ WF_vars(state[c] = "closed" /\ Leave(c))
                      /\ WF_vars(ReportClosed(c) \/ ClosedTimesOut(c))

FairSpec == Spec /\ Fairness
-----------------------------------------------------------------------------
TypeOK ==
  /\ running \in BOOLEAN /\ closeLater \in BOOLEAN
  /\ loop \in {"select", "sending", "kicking", "ended"}
  /\ work \subseteq Conns \X (Subscriptions \cup {None})
  /\ acceptor \in {"accept", "check", "announce", "gone"}
  /\ newcomer \in Conns \cup {None}
  /\ Len(apiEvents) <= ApiQueue /\ Len(connectionEvents) <= EventQueue
  /\ \A i \in DOMAIN connectionEvents : connectionEvents[i] \in Events
  /\ connectionsMap \cup closed \cup latecomers \cup lost \cup cutOff \cup cleaned
       \subseteq Conns
  /\ subscriptionsMap \subseteq Conns \X Subscriptions
  /\ goroutine \in [Conns -> {"none", "select", "connecting", "emitting",
                              "writing", "ended"}]
  /\ emitting \in [Conns -> Events \cup {None}]
  /\ state \in [Conns -> {"connecting", "connected", "closed"}]
  /\ subscriptions \in [Conns -> SUBSET Subscriptions]
  /\ outFrames \in [Conns -> 0 .. OutQueue]
  /\ frames \in [Conns -> 0 .. MaxFrames]
  /\ calls \in 0 .. MaxCalls

\* The loop knows a pair of a connection and a subscription when the last event
\* to decide on it is a SubscribeToTopic: of the first k events of the queue, or
\* of all the events on their way.
Decides(e, p) ==
  /\ e.conn = p[1]
  /\ \/ e.type = "ConnectionClosed"
     \/ e.type \in {"SubscribeToTopic", "UnsubscribeFromTopic"} /\ e.sub = p[2]

Knows(known, queue, k, p) ==
  \/ p \in known /\ \A i \in 1 .. k : ~Decides(queue[i], p)
  \/ \E i \in 1 .. k : /\ queue[i].type = "SubscribeToTopic" /\ Decides(queue[i], p)
                     /\ \A j \in i + 1 .. k : ~Decides(queue[j], p)

WillKnow(c, sub) ==
  IF emitting[c] # None /\ Decides(emitting[c], <<c, sub>>)
  THEN emitting[c].type = "SubscribeToTopic"
  ELSE Knows(subscriptionsMap, connectionEvents, Len(connectionEvents), <<c, sub>>)

\* The two maps of subscriptions, the one of the server and the one of a
\* connection, differ by the events on their way and by nothing else, as long
\* as no event of the connection has timed out; the server never knows two
\* subscriptions of a connection by one id, which is all a MESSAGE frame names;
\* and a connection that its own goroutine closed leaves no subscription
\* behind: its ConnectionClosed comes after its last SubscribeToTopic.  (When
\* another goroutine closes it, a SUBSCRIBE that is being handled comes later.)
MapsAgree ==
  /\ ~Done => \A c \in Conns \ (closed \cup lost), sub \in Subscriptions :
                WillKnow(c, sub) <=> sub \in subscriptions[c]
  /\ \A p, q \in subscriptionsMap :
       p[1] = q[1] /\ p[1] \notin lost /\ p[2].id = q[2].id => p = q
  /\ \A p \in subscriptionsMap : p[1] \notin cleaned \ cutOff

\* What the server cannot do without: that the clients it writes to read.
ClientsRead ==
  WF_vars(Kicked) /\ \A c \in Conns : WF_vars(Writes(c))

\* The loop waits for room at a connection that waits for room at the loop: the
\* timeout of sendEvent gets both out of it, as long as clients read.  (One that
\* does not, and stays, holds up the loop and with it every client.)
LoopGoesOn ==
  ClientsRead => (loop \in {"sending", "kicking"} ~> loop = "select")

\* As long as clients read, Stop ends the loop, even when apiEvents was full,
\* and the acceptor, when Accept of a closed listener fails.
StopEnds ==
  ClientsRead => (~running ~> Done /\ (CloseEndsAccept => acceptor = "gone"))

\* closeServer is to "close all open connections" (server.go:414).
StopClosesAll ==
  \A c \in Conns : Done /\ goroutine[c] # "none" ~> c \in closed
=============================================================================
