-------------------------- MODULE StompServerProofs -------------------------
(***************************************************************************)
(* Proofs about StompServer, for all connections, subscriptions, capacities*)
(* of the queues and bounds.                                               *)
(***************************************************************************)
EXTENDS StompServer, TLAPS

Places == {"select", "connecting", "emitting", "writing", "ended", "none"}
Reports == {"ConnectionEstablished", "SubscribeToTopic", "UnsubscribeFromTopic",
            "IncomingMessage"}
OfTopic == {"SubscribeToTopic", "UnsubscribeFromTopic"}
ApiEvents ==
  [type : {"sendMessage", "closeConnectionByIP", "closeServer"},
   destination : Destinations \cup {None}, conns : SUBSET Conns]

\* An event about a topic names a subscription.
WellFormed(e) == e \in Events /\ (e.type \in OfTopic => e.sub \in Subscriptions)

ServerTypes ==
  /\ running \in BOOLEAN /\ closeLater \in BOOLEAN
  /\ loop \in {"select", "sending", "kicking", "ended"}
  /\ work \subseteq Conns \X (Subscriptions \cup {None})
  /\ apiEvents \in Seq(ApiEvents) /\ Len(apiEvents) <= ApiQueue
  /\ calls \in 0 .. MaxCalls
MapTypes ==
  /\ connectionsMap \subseteq Conns
  /\ subscriptionsMap \subseteq Conns \X Subscriptions
AcceptorTypes ==
  /\ acceptor \in {"accept", "check", "announce", "gone"}
  /\ newcomer \in Conns \cup {None}
  /\ acceptor \in {"check", "announce"} => newcomer \in Conns
ConnTypes ==
  /\ goroutine \in [Conns -> Places]
  /\ state \in [Conns -> {"connecting", "connected", "closed"}]
  /\ subscriptions \in [Conns -> SUBSET Subscriptions]
  /\ outFrames \in [Conns -> 0 .. OutQueue]
  /\ frames \in [Conns -> 0 .. MaxFrames]
\* A goroutine has an event to report exactly while it waits to report it.
EmittingTypes ==
  /\ emitting \in [Conns -> Events \cup {None}]
  /\ \A c \in Conns :
       IF goroutine[c] = "emitting"
       THEN /\ WellFormed(emitting[c])
            /\ emitting[c].conn = c /\ emitting[c].type \in Reports
       ELSE emitting[c] = None
QueueTypes ==
  /\ connectionEvents \in Seq(Events) /\ Len(connectionEvents) <= EventQueue
  /\ \A i \in 1 .. Len(connectionEvents) : WellFormed(connectionEvents[i])
\* A connection is closed before its ConnectionClosed is reported or handled.
CloseTypes ==
  /\ closed \subseteq Conns /\ cutOff \subseteq Conns
  /\ lost \subseteq Conns /\ cleaned \subseteq closed
  /\ latecomers \subseteq closed
  /\ \A i \in 1 .. Len(connectionEvents) :
       connectionEvents[i].type = "ConnectionClosed"
         => connectionEvents[i].conn \in closed

Types ==
  /\ ServerTypes /\ MapTypes /\ AcceptorTypes /\ ConnTypes /\ EmittingTypes
  /\ QueueTypes /\ CloseTypes

\* A connection that its own goroutine closed reports nothing after its
\* ConnectionClosed: what it subscribed is before that in the queue.
ClosedLast ==
  ~Done => \A c \in closed \ cutOff :
    /\ goroutine[c] = "ended"
    /\ \A j \in 1 .. Len(connectionEvents) :
         connectionEvents[j].conn = c /\ connectionEvents[j].type = "SubscribeToTopic"
           => /\ c \notin cleaned
              /\ \A i \in 1 .. j - 1 : connectionEvents[i].type = "ConnectionClosed"
                                         => connectionEvents[i].conn # c

NothingLeft == \A p \in subscriptionsMap : p[1] \notin cleaned \ cutOff

\* What the loop will know of a connection is subscribed there; of a connection
\* that is open it will know all of that.
Agree ==
  ~Done => \A c \in Conns \ lost, sub \in Subscriptions :
    /\ WillKnow(c, sub) => sub \in subscriptions[c]
    /\ c \notin closed => (sub \in subscriptions[c] => WillKnow(c, sub))

Apart ==
  \A p, q \in subscriptionsMap :
    p[1] = q[1] /\ p[1] \notin lost /\ p[2].id = q[2].id => p = q

\* When the loop comes to a SubscribeToTopic, no other subscription has its id.
FreeAt(e, k) ==
  e.type = "SubscribeToTopic" =>
    \A s \in Subscriptions :
      s.id = e.sub.id /\ s # e.sub
        => ~Knows(subscriptionsMap, connectionEvents, k, <<e.conn, s>>)
ComesFree ==
  ~Done =>
    /\ \A i \in 1 .. Len(connectionEvents) :
         connectionEvents[i].conn \notin lost => FreeAt(connectionEvents[i], i - 1)
    /\ \A c \in Conns \ lost :
         emitting[c] # None => FreeAt(emitting[c], Len(connectionEvents))

IInv == Types /\ ClosedLast /\ NothingLeft /\ Agree /\ Apart /\ ComesFree

LEMMA TypesInitially == Init => Types
<1> SUFFICES ASSUME Init PROVE Types
  OBVIOUS
<1>1. ASSUME NEW S PROVE <<>> \in Seq(S) /\ Len(<<>>) = 0
  OBVIOUS
<1>2. ServerTypes
  <2>1. apiEvents \in Seq(ApiEvents) /\ Len(apiEvents) <= ApiQueue
    BY <1>1, QueueAssumption DEF Init
  <2>2. work \subseteq Conns \X (Subscriptions \cup {None}) /\ calls \in 0 .. MaxCalls
    BY BoundAssumption DEF Init
  <2> QED
    BY <2>1, <2>2 DEF Init, ServerTypes
<1>3. MapTypes /\ AcceptorTypes /\ CloseTypes
  BY DEF Init, MapTypes, AcceptorTypes, CloseTypes
<1>4. QueueTypes
  <2>1. connectionEvents \in Seq(Events) /\ Len(connectionEvents) = 0
    BY <1>1 DEF Init
  <2> QED
    BY <2>1, QueueAssumption DEF QueueTypes
<1>5. ConnTypes /\ EmittingTypes
  BY QueueAssumption, BoundAssumption DEF Init, ConnTypes, EmittingTypes, Places
<1> QED
  BY <1>2, <1>3, <1>4, <1>5 DEF Types

-----------------------------------------------------------------------------
(***************************************************************************)
(* The types of the parts, step by step.                                   *)
(***************************************************************************)
\* What is reported is at the end of the queue, and the rest stays in place.
LEMMA Reported ==
  ASSUME QueueTypes, NEW e, WellFormed(e), Room, Report(e)
  PROVE  /\ QueueTypes'
         /\ Len(connectionEvents') = Len(connectionEvents) + 1
         /\ connectionEvents'[Len(connectionEvents) + 1] = e
         /\ \A i \in 1 .. Len(connectionEvents) :
              connectionEvents'[i] = connectionEvents[i]
<1>1. e \in Events
  BY DEF WellFormed
<1>2. connectionEvents' = Append(connectionEvents, e)
  BY DEF Report
<1>3. connectionEvents \in Seq(Events)
  BY DEF QueueTypes
<1>4. /\ connectionEvents' \in Seq(Events)
      /\ Len(connectionEvents') = Len(connectionEvents) + 1
      /\ connectionEvents'[Len(connectionEvents) + 1] = e
      /\ \A i \in 1 .. Len(connectionEvents) :
              connectionEvents'[i] = connectionEvents[i]
  BY <1>1, <1>2, <1>3
<1>5. Len(connectionEvents) + 1 <= EventQueue
  BY <1>3, QueueAssumption DEF Room
<1>6. ASSUME NEW i \in 1 .. Len(connectionEvents')
      PROVE  WellFormed(connectionEvents'[i])
  <2>1. CASE i = Len(connectionEvents) + 1
    BY <1>4, <2>1
  <2>2. CASE i # Len(connectionEvents) + 1
    <3>1. i \in 1 .. Len(connectionEvents)
      BY <1>3, <1>4, <2>2
    <3> QED
      BY <1>4, <3>1 DEF QueueTypes
  <2> QED
    BY <2>1, <2>2
<1> QED
  BY <1>4, <1>5, <1>6 DEF QueueTypes, WellFormed

\* What is left when the loop takes the first event.
LEMMA Taken ==
  ASSUME QueueTypes, connectionEvents # <<>>,
         connectionEvents' = Tail(connectionEvents)
  PROVE  /\ QueueTypes'
         /\ Head(connectionEvents) = connectionEvents[1]
         /\ WellFormed(connectionEvents[1])
         /\ Len(connectionEvents') = Len(connectionEvents) - 1
         /\ Len(connectionEvents) \in Nat \ {0}
         /\ \A i \in 1 .. Len(connectionEvents') :
              connectionEvents'[i] = connectionEvents[i + 1]
<1>1. connectionEvents \in Seq(Events)
  BY DEF QueueTypes
<1>2. /\ connectionEvents' \in Seq(Events)
      /\ Len(connectionEvents') = Len(connectionEvents) - 1
      /\ Len(connectionEvents) \in Nat \ {0}
      /\ Head(connectionEvents) = connectionEvents[1]
      /\ \A i \in 1 .. Len(connectionEvents') :
              connectionEvents'[i] = connectionEvents[i + 1]
  BY <1>1
<1>3. ASSUME NEW i \in 1 .. Len(connectionEvents')
      PROVE  WellFormed(connectionEvents'[i])
  <2>1. i + 1 \in 1 .. Len(connectionEvents)
    BY <1>2
  <2> QED
    BY <1>2, <2>1 DEF QueueTypes
<1>4. WellFormed(connectionEvents[1])
  BY <1>2 DEF QueueTypes
<1> QED
  BY <1>2, <1>3, <1>4, QueueAssumption DEF QueueTypes, WellFormed

LEMMA Closes ==
  ASSUME QueueTypes, CloseTypes, NEW c \in Conns, Close(c)
  PROVE  /\ QueueTypes'
         /\ closed' = closed \cup {c}
         /\ latecomers' \subseteq closed'
         /\ \A i \in 1 .. Len(connectionEvents') :
              connectionEvents'[i].type = "ConnectionClosed"
                => connectionEvents'[i].conn \in closed'
         /\ \/ UNCHANGED connectionEvents
            \/ Room /\ Report(Event("ConnectionClosed", c, None))
<1>1. CASE c \in closed
  BY <1>1 DEF Close, closeVars, QueueTypes, CloseTypes, WellFormed
<1>2. CASE c \notin closed /\ ~Room
  BY <1>2 DEF Close, QueueTypes, CloseTypes, WellFormed
<1>3. CASE c \notin closed /\ Room
  <2> DEFINE e == Event("ConnectionClosed", c, None)
  <2>1. WellFormed(e) /\ e.conn = c
    BY DEF WellFormed, Event, Events, OfTopic
  <2>2. Report(e) /\ closed' = closed \cup {c} /\ latecomers' = latecomers
    BY <1>3 DEF Close
  <2> HIDE DEF e
  <2>3. /\ QueueTypes'
        /\ Len(connectionEvents') = Len(connectionEvents) + 1
        /\ connectionEvents'[Len(connectionEvents) + 1] = e
        /\ \A i \in 1 .. Len(connectionEvents) :
              connectionEvents'[i] = connectionEvents[i]
    BY <1>3, <2>1, <2>2, Reported
  <2>4. Len(connectionEvents) \in Nat
    BY DEF QueueTypes
  <2>5. ASSUME NEW i \in 1 .. Len(connectionEvents'),
               connectionEvents'[i].type = "ConnectionClosed"
        PROVE  connectionEvents'[i].conn \in closed'
    <3>1. CASE i = Len(connectionEvents) + 1
      BY <2>1, <2>2, <2>3, <3>1
    <3>2. CASE i \in 1 .. Len(connectionEvents)
      BY <2>2, <2>3, <2>5, <3>2 DEF CloseTypes
    <3> QED
      BY <2>3, <2>4, <3>1, <3>2
  <2> QED
    BY <1>3, <2>2, <2>3, <2>5 DEF CloseTypes, e
<1> QED
  BY <1>1, <1>2, <1>3

LEMMA ServerUnchanged == ServerTypes /\ UNCHANGED serverVars => ServerTypes'
  BY DEF ServerTypes, serverVars
LEMMA MapsUnchanged == MapTypes /\ UNCHANGED mapVars => MapTypes'
  BY DEF MapTypes, mapVars
LEMMA AcceptorUnchanged ==
  AcceptorTypes /\ UNCHANGED acceptorVars => AcceptorTypes'
  BY DEF AcceptorTypes, acceptorVars
LEMMA ConnsUnchanged ==
  ConnTypes /\ EmittingTypes /\ UNCHANGED connVars => ConnTypes' /\ EmittingTypes'
  BY DEF ConnTypes, EmittingTypes, connVars
LEMMA EmittingUnchanged ==
  EmittingTypes /\ UNCHANGED <<goroutine, emitting>> => EmittingTypes'
  BY DEF EmittingTypes
LEMMA QueueUnchanged == QueueTypes /\ UNCHANGED connectionEvents => QueueTypes'
  BY DEF QueueTypes, WellFormed
LEMMA CloseUnchanged ==
  CloseTypes /\ UNCHANGED <<closed, latecomers, history, cleaned, connectionEvents>>
    => CloseTypes'
  BY DEF CloseTypes, history

\* What the loop and the acceptor do to the parts.
LEMMA TypesAcceptor ==
  Types /\ (Acceptor \/ \E c \in Conns : Accept(c)) => Types'
<1> SUFFICES ASSUME Types, Acceptor \/ \E c \in Conns : Accept(c) PROVE Types'
  OBVIOUS
<1> USE ServerUnchanged, MapsUnchanged, AcceptorUnchanged, ConnsUnchanged,
        EmittingUnchanged, QueueUnchanged, CloseUnchanged
<1> USE DEF Types, acceptorVars, connVars, closeVars, history, mapVars
<1>1. ASSUME NEW c \in Conns, Accept(c) PROVE Types'
  <2>1. AcceptorTypes' /\ ConnTypes' /\ EmittingTypes'
    BY <1>1 DEF Accept, AcceptorTypes, ConnTypes, EmittingTypes, Places, WellFormed
  <2> QED
    BY <1>1, <2>1 DEF Accept
<1>2. ASSUME CheckRunning PROVE Types'
  <2>1. AcceptorTypes'
    BY <1>2 DEF CheckRunning, AcceptorTypes
  <2> QED
    BY <1>2, <2>1 DEF CheckRunning
<1>3. ASSUME Announce PROVE Types'
  <2> DEFINE e == Event("ConnectionStarting", newcomer, None)
  <2>1. WellFormed(e) /\ e.type = "ConnectionStarting"
    BY <1>3 DEF Announce, AcceptorTypes, Event, WellFormed, Events, OfTopic
  <2>2. Room /\ Report(e)
    BY <1>3 DEF Announce
  <2> HIDE DEF e
  <2>3. /\ QueueTypes'
        /\ Len(connectionEvents') = Len(connectionEvents) + 1
        /\ connectionEvents'[Len(connectionEvents) + 1] = e
        /\ \A i \in 1 .. Len(connectionEvents) :
              connectionEvents'[i] = connectionEvents[i]
    BY <2>1, <2>2, Reported
  <2>4. Len(connectionEvents) \in Nat
    BY DEF QueueTypes
  <2>5. CloseTypes'
    <3>1. ASSUME NEW i \in 1 .. Len(connectionEvents'),
                 connectionEvents'[i].type = "ConnectionClosed"
          PROVE  connectionEvents'[i].conn \in closed
      <4>1. i \in 1 .. Len(connectionEvents)
        BY <2>1, <2>3, <2>4, <3>1
      <4> QED
        BY <2>3, <3>1, <4>1 DEF CloseTypes
    <3> QED
      BY <1>3, <3>1 DEF Announce, CloseTypes
  <2>6. AcceptorTypes'
    BY <1>3 DEF Announce, AcceptorTypes
  <2> QED
    BY <1>3, <2>3, <2>5, <2>6 DEF Announce
<1>4. ASSUME Refuse PROVE Types'
  <2>1. newcomer \in Conns /\ Close(newcomer)
    BY <1>4 DEF Refuse, AcceptorTypes
  <2>2. QueueTypes' /\ closed' = closed \cup {newcomer} /\ latecomers' \subseteq closed'
        /\ \A i \in 1 .. Len(connectionEvents') :
              connectionEvents'[i].type = "ConnectionClosed"
                => connectionEvents'[i].conn \in closed'
    BY <2>1, Closes
  <2>3. CloseTypes'
    BY <1>4, <2>1, <2>2 DEF Refuse, CloseTypes
  <2>4. AcceptorTypes' /\ ConnTypes'
    BY <1>4 DEF Refuse, AcceptorTypes, ConnTypes, StateClosed
  <2> QED
    BY <1>4, <2>2, <2>3, <2>4 DEF Refuse
<1>5. ASSUME AcceptorEnds PROVE Types'
  <2>1. AcceptorTypes'
    BY <1>5 DEF AcceptorEnds, AcceptorTypes
  <2> QED
    BY <1>5, <2>1 DEF AcceptorEnds
<1> QED
  BY <1>1, <1>2, <1>3, <1>4, <1>5 DEF Acceptor

LEMMA ApiEventsTaken ==
  ASSUME ServerTypes, apiEvents # <<>>
  PROVE  /\ Head(apiEvents) \in ApiEvents
         /\ Tail(apiEvents) \in Seq(ApiEvents) /\ Len(Tail(apiEvents)) <= ApiQueue
<1> DEFINE A == ApiEvents
<1>1. apiEvents \in Seq(A) /\ Len(apiEvents) <= ApiQueue
  BY DEF ServerTypes
<1> HIDE DEF A
<1>2. Head(apiEvents) \in A /\ Tail(apiEvents) \in Seq(A)
      /\ Len(Tail(apiEvents)) = Len(apiEvents) - 1 /\ Len(apiEvents) \in Nat
  BY <1>1
<1> QED
  BY <1>1, <1>2, QueueAssumption DEF A

LEMMA ApiEventAdded ==
  ASSUME ServerTypes, NEW e \in ApiEvents, Len(apiEvents) < ApiQueue
  PROVE  /\ Append(apiEvents, e) \in Seq(ApiEvents)
         /\ Len(Append(apiEvents, e)) <= ApiQueue
<1> DEFINE A == ApiEvents
<1>1. apiEvents \in Seq(A) /\ e \in A
  BY DEF ServerTypes
<1> HIDE DEF A
<1>2. Append(apiEvents, e) \in Seq(A)
      /\ Len(Append(apiEvents, e)) = Len(apiEvents) + 1 /\ Len(apiEvents) \in Nat
  BY <1>1
<1> QED
  BY <1>2, QueueAssumption DEF A

LEMMA TypesApi ==
  Types /\ (\/ Stop \/ QueueCloseServer
            \/ \E to \in Addressees :
                 CloseConnectionsByIP(to) \/ \E d \in Destinations : SendMessage(d, to))
    => Types'
<1> SUFFICES ASSUME Types,
                    \/ Stop \/ QueueCloseServer
                    \/ \E to \in Addressees :
                         \/ CloseConnectionsByIP(to)
                         \/ \E d \in Destinations : SendMessage(d, to)
             PROVE  Types'
  OBVIOUS
<1> USE ServerUnchanged, MapsUnchanged, AcceptorUnchanged, ConnsUnchanged,
        EmittingUnchanged, QueueUnchanged, CloseUnchanged
<1> USE DEF Types, acceptorVars, connVars, closeVars, history, mapVars
<1>1. CloseServer \in ApiEvents
  BY DEF CloseServer, ApiEvents
<1>2. ASSUME Stop PROVE Types'
  <2>1. apiEvents' \in Seq(ApiEvents) /\ Len(apiEvents') <= ApiQueue
    BY <1>1, <1>2, ApiEventAdded DEF Stop, ServerTypes
  <2>2. ServerTypes'
    BY <1>2, <2>1 DEF Stop, ServerTypes, WaitsWhenFull
  <2> QED
    BY <1>2, <2>2 DEF Stop
<1>3. ASSUME QueueCloseServer PROVE Types'
  <2>1. apiEvents' \in Seq(ApiEvents) /\ Len(apiEvents') <= ApiQueue
    BY <1>1, <1>3, ApiEventAdded DEF QueueCloseServer
  <2>2. ServerTypes'
    BY <1>3, <2>1 DEF QueueCloseServer, ServerTypes
  <2> QED
    BY <1>3, <2>2 DEF QueueCloseServer
<1>4. ASSUME NEW e \in ApiEvents, Call(e) PROVE Types'
  <2>1. apiEvents' \in Seq(ApiEvents) /\ Len(apiEvents') <= ApiQueue
    BY <1>4, ApiEventAdded DEF Call
  <2>2. ServerTypes'
    BY <1>4, <2>1, BoundAssumption DEF Call, ServerTypes
  <2> QED
    BY <1>4, <2>2 DEF Call
<1>5. \A to \in Addressees : to \subseteq Conns
  BY DEF Addressees
<1>6. ASSUME NEW to \in Addressees, CloseConnectionsByIP(to) PROVE Types'
  <2>1. [type |-> "closeConnectionByIP", destination |-> None, conns |-> to] \in ApiEvents
    BY <1>5 DEF ApiEvents
  <2> QED
    BY <1>4, <1>6, <2>1 DEF CloseConnectionsByIP
<1>7. ASSUME NEW to \in Addressees, NEW d \in Destinations, SendMessage(d, to)
      PROVE  Types'
  <2>1. [type |-> "sendMessage", destination |-> d, conns |-> to] \in ApiEvents
    BY <1>5 DEF ApiEvents
  <2> QED
    BY <1>4, <1>7, <2>1 DEF SendMessage
<1> QED
  BY <1>2, <1>3, <1>6, <1>7

LEMMA TypesLoop == Types /\ (Loop \/ Kicked) => Types'
<1> SUFFICES ASSUME Types, Loop \/ Kicked PROVE Types'
  OBVIOUS
<1> USE ServerUnchanged, MapsUnchanged, AcceptorUnchanged, ConnsUnchanged,
        EmittingUnchanged, QueueUnchanged, CloseUnchanged
<1> USE DEF Types, acceptorVars, connVars, closeVars, history, mapVars
<1>1. ASSUME TakeCloseServer PROVE Types'
  <2>1. ServerTypes'
    BY <1>1, ApiEventsTaken DEF TakeCloseServer, ServerTypes
  <2>2. MapTypes' /\ ConnTypes'
    BY <1>1 DEF TakeCloseServer, MapTypes, ConnTypes
  <2>3. CloseTypes'
    BY <1>1 DEF TakeCloseServer, CloseTypes, MapTypes
  <2> QED
    BY <1>1, <2>1, <2>2, <2>3 DEF TakeCloseServer
<1>2. ASSUME TakeSend PROVE Types'
  <2>1. work' \subseteq subscriptionsMap
    BY <1>2 DEF TakeSend
  <2>2. work' \subseteq Conns \X (Subscriptions \cup {None})
    BY <2>1 DEF MapTypes
  <2>3. ServerTypes'
    BY <1>2, <2>2, ApiEventsTaken DEF TakeSend, ServerTypes
  <2> QED
    BY <1>2, <2>3 DEF TakeSend
<1>3. ASSUME TakeKick PROVE Types'
  <2>1. work' \subseteq Conns \X (Subscriptions \cup {None})
    BY <1>3 DEF TakeKick, MapTypes
  <2>2. ServerTypes'
    BY <1>3, <2>1, ApiEventsTaken DEF TakeKick, ServerTypes
  <2> QED
    BY <1>3, <2>2 DEF TakeKick
<1>4. ASSUME Resume PROVE Types'
  <2>1. ServerTypes'
    BY <1>4 DEF Resume, ServerTypes
  <2> QED
    BY <1>4, <2>1 DEF Resume
<1>5. ASSUME HandleConnectionEvent PROVE Types'
  <2> DEFINE e == Head(connectionEvents)
  <2>1. /\ connectionEvents # <<>>
        /\ connectionEvents' = Tail(connectionEvents)
        /\ subscriptionsMap' = Track(subscriptionsMap, e)
        /\ connectionsMap' \subseteq connectionsMap \cup {e.conn}
        /\ cleaned' = IF e.type = "ConnectionClosed" THEN cleaned \cup {e.conn}
                                                     ELSE cleaned
    BY <1>5 DEF HandleConnectionEvent
  <2>2. /\ QueueTypes'
        /\ e = connectionEvents[1] /\ WellFormed(e)
        /\ Len(connectionEvents') = Len(connectionEvents) - 1
        /\ Len(connectionEvents) \in Nat \ {0}
        /\ \A i \in 1 .. Len(connectionEvents') :
              connectionEvents'[i] = connectionEvents[i + 1]
    BY <2>1, Taken
  <2> HIDE DEF e
  <2>3. e.conn \in Conns
    BY <2>2 DEF WellFormed, Events
  <2>4. MapTypes'
    <3>1. subscriptionsMap' \subseteq Conns \X Subscriptions
      <4>1. CASE e.type = "SubscribeToTopic"
        <5>1. subscriptionsMap' = subscriptionsMap \cup {<<e.conn, e.sub>>}
          BY <2>1, <4>1 DEF Track
        <5> QED
          BY <2>2, <2>3, <4>1, <5>1 DEF MapTypes, WellFormed, OfTopic
      <4>2. CASE e.type # "SubscribeToTopic"
        <5>1. subscriptionsMap' \subseteq subscriptionsMap
          BY <2>1, <4>2 DEF Track
        <5> QED
          BY <5>1 DEF MapTypes
      <4> QED
        BY <4>1, <4>2
    <3> QED
      BY <2>1, <2>3, <3>1 DEF MapTypes
  <2>5. CloseTypes'
    <3>1. UNCHANGED <<closed, latecomers, cutOff, lost>>
      BY <1>5 DEF HandleConnectionEvent
    <3>2. cleaned' \subseteq closed
      <4>1. 1 \in 1 .. Len(connectionEvents)
        BY <2>2
      <4> QED
        BY <2>1, <2>2, <4>1 DEF CloseTypes
    <3>3. ASSUME NEW i \in 1 .. Len(connectionEvents'),
                 connectionEvents'[i].type = "ConnectionClosed"
          PROVE  connectionEvents'[i].conn \in closed
      <4>1. i + 1 \in 1 .. Len(connectionEvents)
            /\ connectionEvents'[i] = connectionEvents[i + 1]
        BY <2>2
      <4> QED
        BY <3>3, <4>1 DEF CloseTypes
    <3> QED
      BY <3>1, <3>2, <3>3 DEF CloseTypes
  <2> QED
    BY <1>5, <2>2, <2>4, <2>5 DEF HandleConnectionEvent
<1>6. ASSUME NEW p \in work, Deliver(p) PROVE Types'
  <2>1. p[1] \in Conns /\ p \in Conns \X (Subscriptions \cup {None})
    BY DEF ServerTypes
  <2>2. ServerTypes'
    BY <1>6 DEF Deliver, ServerTypes
  <2>3. ConnTypes'
    BY <1>6, <2>1, QueueAssumption DEF Deliver, ConnTypes
  <2> QED
    BY <1>6, <2>2, <2>3 DEF Deliver
<1>7. ASSUME NEW p \in work, Kick(p) PROVE Types'
  <2>1. p[1] \in Conns /\ Close(p[1])
    BY <1>7 DEF ServerTypes, Kick
  <2>2. QueueTypes' /\ closed' = closed \cup {p[1]} /\ latecomers' \subseteq closed'
        /\ \A i \in 1 .. Len(connectionEvents') :
              connectionEvents'[i].type = "ConnectionClosed"
                => connectionEvents'[i].conn \in closed'
    BY <2>1, Closes
  <2>3. CloseTypes'
    BY <1>7, <2>1, <2>2 DEF Kick, CloseTypes
  <2>4. ServerTypes' /\ ConnTypes'
    BY <1>7 DEF Kick, ServerTypes, ConnTypes, StateClosed
  <2> QED
    BY <1>7, <2>2, <2>3, <2>4 DEF Kick
<1> QED
  BY <1>1, <1>2, <1>3, <1>4, <1>5, <1>6, <1>7 DEF Loop, Kicked

\* What a goroutine begins to report.
LEMMA Emits ==
  ASSUME EmittingTypes, ConnTypes, NEW c \in Conns, NEW type \in Reports,
         NEW sub \in Subscriptions \cup {None},
         type \in OfTopic => sub \in Subscriptions,
         Emit(c, type, sub)
  PROVE  EmittingTypes' /\ goroutine' \in [Conns -> Places]
<1> DEFINE e == Event(type, c, sub)
<1>1. WellFormed(e) /\ e.conn = c /\ e.type = type
  BY DEF WellFormed, Event, Events, Reports
<1>2. e \in Events
  BY <1>1 DEF WellFormed
<1>3. emitting' = [emitting EXCEPT ![c] = e]
      /\ goroutine' = [goroutine EXCEPT ![c] = "emitting"]
  BY DEF Emit
<1> HIDE DEF e
<1> QED
  BY <1>1, <1>2, <1>3 DEF EmittingTypes, ConnTypes, Places, WellFormed

\* A goroutine that has reported its event, or has not begun to.
LEMMA EmitsNot ==
  ASSUME EmittingTypes, ConnTypes, NEW c \in Conns, NEW place \in Places \ {"emitting"},
         goroutine' = [goroutine EXCEPT ![c] = place],
         \/ goroutine[c] # "emitting" /\ UNCHANGED emitting
         \/ emitting' = [emitting EXCEPT ![c] = None]
  PROVE  EmittingTypes' /\ goroutine' \in [Conns -> Places]
  BY DEF EmittingTypes, ConnTypes, Places, WellFormed

LEMMA TypesConn ==
  ASSUME Types, NEW c \in Conns,
         \/ Goes(c) \/ Writes(c) \/ Leave(c) \/ ReportClosed(c) \/ ClosedTimesOut(c)
         \/ Connect(c) \/ Send(c)
         \/ \E s \in Subscriptions : Subscribe(c, s) \/ Unsubscribe(c, s)
  PROVE  Types'
<1> USE ServerUnchanged, MapsUnchanged, AcceptorUnchanged, ConnsUnchanged,
        EmittingUnchanged, QueueUnchanged, CloseUnchanged
<1> USE DEF Types, acceptorVars, connVars, closeVars, history, mapVars
<1>1. ASSUME Connected(c) PROVE Types'
  <2>1. EmittingTypes' /\ goroutine' \in [Conns -> Places]
    BY <1>1, Emits DEF Connected, Reports, OfTopic
  <2>2. ConnTypes'
    BY <1>1, <2>1 DEF Connected, ConnTypes
  <2> QED
    BY <1>1, <2>1, <2>2 DEF Connected
<1>2. ASSUME SendEvent(c) PROVE Types'
  <2> DEFINE e == emitting[c]
  <2>1. WellFormed(e) /\ e.type # "ConnectionClosed" /\ Room /\ Report(e)
    BY <1>2 DEF SendEvent, EmittingTypes, Reports
  <2> HIDE DEF e
  <2>2. /\ QueueTypes'
        /\ Len(connectionEvents') = Len(connectionEvents) + 1
        /\ connectionEvents'[Len(connectionEvents) + 1] = e
        /\ \A i \in 1 .. Len(connectionEvents) :
              connectionEvents'[i] = connectionEvents[i]
    BY <2>1, Reported
  <2>3. Len(connectionEvents) \in Nat
    BY DEF QueueTypes
  <2>4. CloseTypes'
    <3>1. ASSUME NEW i \in 1 .. Len(connectionEvents'),
                 connectionEvents'[i].type = "ConnectionClosed"
          PROVE  connectionEvents'[i].conn \in closed
      <4>1. i \in 1 .. Len(connectionEvents)
        BY <2>1, <2>2, <2>3, <3>1
      <4> QED
        BY <2>2, <3>1, <4>1 DEF CloseTypes
    <3> QED
      BY <1>2, <3>1 DEF SendEvent, Emitted, CloseTypes
  <2>5. EmittingTypes' /\ goroutine' \in [Conns -> Places]
    BY <1>2, EmitsNot DEF SendEvent, Emitted, Places
  <2>6. ConnTypes'
    BY <1>2, <2>5 DEF SendEvent, Emitted, ConnTypes
  <2> QED
    BY <1>2, <2>2, <2>4, <2>5, <2>6 DEF SendEvent, Emitted
<1>3. ASSUME SendEventGivesUp(c) PROVE Types'
  <2>1. EmittingTypes' /\ goroutine' \in [Conns -> Places]
    BY <1>3, EmitsNot DEF SendEventGivesUp, Emitted, Places
  <2>2. ConnTypes'
    BY <1>3, <2>1 DEF SendEventGivesUp, Emitted, ConnTypes
  <2>3. CloseTypes'
    BY <1>3 DEF SendEventGivesUp, Emitted, CloseTypes
  <2> QED
    BY <1>3, <2>1, <2>2, <2>3 DEF SendEventGivesUp, Emitted
<1>4. ASSUME TakeFrame(c) PROVE Types'
  <2>1. EmittingTypes' /\ goroutine' \in [Conns -> Places]
    BY <1>4, EmitsNot DEF TakeFrame, Serves, Places
  <2>2. ConnTypes'
    BY <1>4, <2>1, QueueAssumption DEF TakeFrame, ConnTypes
  <2> QED
    BY <1>4, <2>1, <2>2 DEF TakeFrame
<1>5. ASSUME Written(c) PROVE Types'
  <2>1. EmittingTypes' /\ goroutine' \in [Conns -> Places]
    BY <1>5, EmitsNot DEF Written, Places
  <2>2. ConnTypes'
    BY <1>5, <2>1 DEF Written, ConnTypes
  <2> QED
    BY <1>5, <2>1, <2>2 DEF Written
<1>6. ASSUME Leave(c) PROVE Types'
  <2>1. Close(c)
    BY <1>6 DEF Leave
  <2>2. QueueTypes' /\ closed' = closed \cup {c} /\ latecomers' \subseteq closed'
        /\ \A i \in 1 .. Len(connectionEvents') :
              connectionEvents'[i].type = "ConnectionClosed"
                => connectionEvents'[i].conn \in closed'
    BY <2>1, Closes
  <2>3. CloseTypes'
    BY <1>6, <2>2 DEF Leave, CloseTypes
  <2>4. EmittingTypes' /\ goroutine' \in [Conns -> Places]
    BY <1>6, EmitsNot DEF Leave, Places
  <2>5. ConnTypes'
    BY <1>6, <2>4 DEF Leave, ConnTypes, StateClosed
  <2> QED
    BY <1>6, <2>2, <2>3, <2>4, <2>5 DEF Leave
<1>7. ASSUME ReportClosed(c) PROVE Types'
  <2> DEFINE e == Event("ConnectionClosed", c, None)
  <2>1. WellFormed(e) /\ e.conn = c
    BY DEF WellFormed, Event, Events, OfTopic
  <2>2. Room /\ Report(e) /\ c \in closed
    BY <1>7 DEF ReportClosed, CloseTypes
  <2> HIDE DEF e
  <2>3. /\ QueueTypes'
        /\ Len(connectionEvents') = Len(connectionEvents) + 1
        /\ connectionEvents'[Len(connectionEvents) + 1] = e
        /\ \A i \in 1 .. Len(connectionEvents) :
              connectionEvents'[i] = connectionEvents[i]
    BY <2>1, <2>2, Reported
  <2>4. Len(connectionEvents) \in Nat
    BY DEF QueueTypes
  <2>5. CloseTypes'
    <3>1. ASSUME NEW i \in 1 .. Len(connectionEvents'),
                 connectionEvents'[i].type = "ConnectionClosed"
          PROVE  connectionEvents'[i].conn \in closed
      <4>1. CASE i = Len(connectionEvents) + 1
        BY <2>1, <2>2, <2>3, <4>1
      <4>2. CASE i \in 1 .. Len(connectionEvents)
        BY <2>3, <3>1, <4>2 DEF CloseTypes
      <4> QED
        BY <2>3, <2>4, <4>1, <4>2
    <3> QED
      BY <1>7, <3>1 DEF ReportClosed, CloseTypes
  <2> QED
    BY <1>7, <2>3, <2>5 DEF ReportClosed
<1>8. ASSUME ClosedTimesOut(c) PROVE Types'
  <2>1. CloseTypes'
    BY <1>8 DEF ClosedTimesOut, CloseTypes
  <2> QED
    BY <1>8, <2>1 DEF ClosedTimesOut
<1>9. ASSUME Receives(c) PROVE frames' \in [Conns -> 0 .. MaxFrames]
  BY <1>9, BoundAssumption DEF Receives, ConnTypes
<1>10. ASSUME Connect(c) PROVE Types'
  <2>1. EmittingTypes' /\ goroutine' \in [Conns -> Places]
    BY <1>10, EmitsNot DEF Connect, Receives, Serves, Places
  <2>2. ConnTypes'
    BY <1>9, <1>10, <2>1 DEF Connect, ConnTypes
  <2> QED
    BY <1>10, <2>1, <2>2 DEF Connect
<1>11. ASSUME Send(c) PROVE Types'
  <2>1. EmittingTypes' /\ goroutine' \in [Conns -> Places]
    BY <1>11, Emits DEF Send, Reports, OfTopic
  <2>2. ConnTypes'
    BY <1>9, <1>11, <2>1 DEF Send, ConnTypes
  <2> QED
    BY <1>11, <2>1, <2>2 DEF Send
<1>12. ASSUME NEW s \in Subscriptions, Subscribe(c, s) PROVE Types'
  <2>1. EmittingTypes' /\ goroutine' \in [Conns -> Places]
    BY <1>12, Emits DEF Subscribe, Reports
  <2>2. ConnTypes'
    BY <1>9, <1>12, <2>1 DEF Subscribe, ConnTypes
  <2> QED
    BY <1>12, <2>1, <2>2 DEF Subscribe
<1>13. ASSUME NEW s \in Subscriptions, Unsubscribe(c, s) PROVE Types'
  <2>1. EmittingTypes' /\ goroutine' \in [Conns -> Places]
    BY <1>13, Emits DEF Unsubscribe, Reports
  <2>2. ConnTypes'
    BY <1>9, <1>13, <2>1 DEF Unsubscribe, ConnTypes
  <2> QED
    BY <1>13, <2>1, <2>2 DEF Unsubscribe
<1> QED
  BY <1>1, <1>2, <1>3, <1>4, <1>5, <1>6, <1>7, <1>8, <1>10, <1>11, <1>12, <1>13
  DEF Goes, Writes

LEMMA TypesStep == Types /\ [Next]_vars => Types'
<1>1. CASE UNCHANGED vars
  BY <1>1, ServerUnchanged, MapsUnchanged, AcceptorUnchanged, ConnsUnchanged,
     QueueUnchanged, CloseUnchanged
  DEF vars, Types, closeVars, history, mapVars
<1>2. CASE Next
  BY <1>2, TypesAcceptor, TypesApi, TypesLoop, TypesConn DEF Next
<1> QED
  BY <1>1, <1>2

-----------------------------------------------------------------------------
(***************************************************************************)
(* What the steps mean to the queue, the maps and the connections.  The    *)
(* invariants below follow from these few cases.                           *)
(***************************************************************************)
\* The connections another goroutine has not closed end before they are closed.
Grows ==
  /\ Done => Done'
  /\ closed \subseteq closed' /\ cutOff \subseteq cutOff' /\ lost \subseteq lost'
  /\ \A c \in closed' \ cutOff' : c \in closed \ cutOff \/ goroutine'[c] = "ended"
  /\ \A c \in Conns : goroutine[c] = "ended" => goroutine'[c] = "ended"

Same == UNCHANGED <<connectionEvents, subscriptionsMap, cleaned>>
Quiet == Same /\ UNCHANGED <<emitting, subscriptions>>
Takes ==
  /\ ~Done
  /\ connectionEvents # <<>>
  /\ connectionEvents' = Tail(connectionEvents)
  /\ subscriptionsMap' = Track(subscriptionsMap, connectionEvents[1])
  /\ cleaned' = IF connectionEvents[1].type = "ConnectionClosed"
                THEN cleaned \cup {connectionEvents[1].conn} ELSE cleaned
  /\ UNCHANGED <<emitting, subscriptions>>
PutsOther ==
  /\ \E c \in Conns :
       \/ Report(Event("ConnectionStarting", c, None))
       \/ Report(Event("ConnectionClosed", c, None)) /\ c \in closed'
  /\ UNCHANGED <<emitting, subscriptions, subscriptionsMap, cleaned>>
PutsOwn ==
  /\ \E c \in Conns : /\ goroutine[c] = "emitting" /\ goroutine'[c] # "ended"
                      /\ Report(emitting[c])
                      /\ emitting' = [emitting EXCEPT ![c] = None]
  /\ UNCHANGED <<subscriptions, subscriptionsMap, cleaned>>
Drops ==
  /\ \E c \in lost' : emitting' = [emitting EXCEPT ![c] = None]
  /\ Same /\ UNCHANGED subscriptions
Begins ==
  /\ Same
  /\ \E c \in Conns :
       /\ goroutine[c] \notin {"emitting", "ended"}
       /\ \/ \E type \in Reports \ OfTopic, sub \in Subscriptions \cup {None} :
               /\ emitting' = [emitting EXCEPT ![c] = Event(type, c, sub)]
               /\ UNCHANGED subscriptions
          \/ \E sub \in Subscriptions :
               /\ IdIsFree(c, sub)
               /\ emitting' = [emitting EXCEPT ![c] = Event("SubscribeToTopic", c, sub)]
               /\ subscriptions' = [subscriptions EXCEPT ![c] = @ \cup {sub}]
          \/ \E sub \in subscriptions[c] :
               /\ emitting' = [emitting EXCEPT
                                 ![c] = Event("UnsubscribeFromTopic", c, sub)]
               /\ subscriptions' = [subscriptions EXCEPT ![c] = @ \ {sub}]

Moves == Quiet \/ Takes \/ PutsOther \/ PutsOwn \/ Drops \/ Begins

\* Once the loop has ended nothing changes the maps.
Ends ==
  /\ Done'
  /\ UNCHANGED <<subscriptionsMap, cleaned>>
  /\ cutOff \subseteq cutOff' /\ lost \subseteq lost'

\* Close reports at most one event, and the goroutine of the connection has
\* ended or the connection is cut off.
LEMMA ClosingMoves ==
  ASSUME Types, NEW c \in Conns, Close(c), UNCHANGED <<mapVars, emitting, subscriptions>>
  PROVE  /\ closed' = closed \cup {c}
         /\ Moves
<1>1. QueueTypes /\ CloseTypes
  BY DEF Types
<1>2. /\ closed' = closed \cup {c}
      /\ \/ UNCHANGED connectionEvents
         \/ Report(Event("ConnectionClosed", c, None))
  BY <1>1, Closes
<1>3. UNCHANGED <<subscriptionsMap, cleaned>>
  BY DEF mapVars
<1> QED
  BY <1>2, <1>3 DEF Moves, Quiet, Same, PutsOther

\* The goroutines of the connections go on, and none is closed.
LEMMA NoneCloses ==
  ASSUME Types, Done => Done', UNCHANGED closed, cutOff \subseteq cutOff',
         lost \subseteq lost',
         \A c \in Conns : goroutine[c] = "ended" => goroutine'[c] = "ended"
  PROVE  Grows
  BY DEF Grows

LEMMA EffectsAcceptor ==
  Types /\ (Acceptor \/ \E c \in Conns : Accept(c)) => Grows /\ Moves
<1> SUFFICES ASSUME Types, Acceptor \/ \E c \in Conns : Accept(c)
             PROVE  Grows /\ Moves
  OBVIOUS
<1> USE DEF Done, serverVars, mapVars, acceptorVars, connVars, closeVars, history
<1>1. ASSUME NEW c \in Conns, Accept(c) PROVE Grows /\ Moves
  <2>1. \A k \in Conns : goroutine[k] = "ended" => goroutine'[k] = "ended"
    BY <1>1 DEF Accept, Types, ConnTypes
  <2> QED
    BY <1>1, <2>1, NoneCloses DEF Accept, Moves, Quiet, Same
<1>2. ASSUME CheckRunning \/ AcceptorEnds PROVE Grows /\ Moves
  BY <1>2, NoneCloses DEF CheckRunning, AcceptorEnds, Moves, Quiet, Same
<1>3. ASSUME Announce PROVE Grows /\ Moves
  <2>1. newcomer \in Conns
    BY <1>3 DEF Announce, Types, AcceptorTypes
  <2> QED
    BY <1>3, <2>1, NoneCloses DEF Announce, Moves, PutsOther
<1>4. ASSUME Refuse PROVE Grows /\ Moves
  <2>1. newcomer \in Conns /\ Close(newcomer)
        /\ UNCHANGED <<mapVars, emitting, subscriptions>>
    BY <1>4 DEF Refuse, Types, AcceptorTypes
  <2>2. closed' = closed \cup {newcomer} /\ Moves
    BY <2>1, ClosingMoves
  <2> QED
    BY <1>4, <2>2 DEF Refuse, Grows
<1> QED
  BY <1>1, <1>2, <1>3, <1>4 DEF Acceptor

LEMMA EffectsApi ==
  (\/ Stop \/ QueueCloseServer
   \/ \E to \in Addressees :
        CloseConnectionsByIP(to) \/ \E d \in Destinations : SendMessage(d, to))
    => Grows /\ Moves
  BY DEF Stop, QueueCloseServer, CloseConnectionsByIP, SendMessage, Call, Grows,
     Moves, Quiet, Same, Done, mapVars, connVars, closeVars, history

LEMMA EffectsLoop == Types /\ (Loop \/ Kicked) => Ends \/ (Grows /\ Moves)
<1> SUFFICES ASSUME Types, Loop \/ Kicked PROVE Ends \/ (Grows /\ Moves)
  OBVIOUS
<1> USE DEF Done, serverVars, mapVars, acceptorVars, connVars, closeVars, history
<1>1. ASSUME TakeCloseServer PROVE Ends
  BY <1>1 DEF TakeCloseServer, Ends
<1>2. ASSUME TakeSend \/ TakeKick \/ Resume PROVE Grows /\ Moves
  BY <1>2, NoneCloses DEF TakeSend, TakeKick, Resume, Moves, Quiet, Same
<1>3. ASSUME HandleConnectionEvent PROVE Grows /\ Moves
  <2>1. Head(connectionEvents) = connectionEvents[1]
    BY <1>3 DEF HandleConnectionEvent, Types, QueueTypes
  <2>2. Takes
    BY <1>3, <2>1 DEF HandleConnectionEvent, Takes
  <2> QED
    BY <1>3, <2>2, NoneCloses DEF HandleConnectionEvent, Moves
<1>4. ASSUME NEW p \in work, Deliver(p) PROVE Grows /\ Moves
  BY <1>4, NoneCloses DEF Deliver, Moves, Quiet, Same
<1>5. ASSUME NEW p \in work, Kick(p) PROVE Grows /\ Moves
  <2>1. p[1] \in Conns /\ Close(p[1]) /\ UNCHANGED <<mapVars, emitting, subscriptions>>
    BY <1>5 DEF Kick, Types, ServerTypes
  <2>2. closed' = closed \cup {p[1]} /\ Moves
    BY <2>1, ClosingMoves
  <2> QED
    BY <1>5, <2>2 DEF Kick, Grows
<1> QED
  BY <1>1, <1>2, <1>3, <1>4, <1>5 DEF Loop, Kicked

LEMMA EffectsConn ==
  ASSUME Types, NEW c \in Conns,
         \/ Goes(c) \/ Writes(c) \/ Leave(c) \/ ReportClosed(c) \/ ClosedTimesOut(c)
         \/ Connect(c) \/ Send(c)
         \/ \E s \in Subscriptions : Subscribe(c, s) \/ Unsubscribe(c, s)
  PROVE  Ends \/ (Grows /\ Moves)
<1> USE DEF Done, serverVars, mapVars, acceptorVars, connVars, closeVars, history
<1>0. goroutine \in [Conns -> Places]
  BY DEF Types, ConnTypes
<1>1. ASSUME NEW place, goroutine' = [goroutine EXCEPT ![c] = place],
             goroutine[c] # "ended"
      PROVE  \A k \in Conns : goroutine[k] = "ended" => goroutine'[k] = "ended"
  BY <1>0, <1>1
<1>2. ASSUME Connected(c) PROVE Grows /\ Moves
  <2>1. Grows
    BY <1>1, <1>2, NoneCloses DEF Connected, Emit
  <2>2. Begins
    BY <1>2 DEF Connected, Emit, Begins, Same, Reports, OfTopic
  <2> QED
    BY <2>1, <2>2 DEF Moves
<1>3. ASSUME SendEvent(c) PROVE Grows /\ Moves
  <2>1. Grows
    BY <1>1, <1>3, NoneCloses DEF SendEvent, Emitted
  <2>2. PutsOwn
    BY <1>0, <1>3 DEF SendEvent, Emitted, PutsOwn
  <2> QED
    BY <2>1, <2>2 DEF Moves
<1>4. ASSUME SendEventGivesUp(c) PROVE Ends \/ (Grows /\ Moves)
  <2>1. CASE Done
    BY <1>4, <2>1 DEF SendEventGivesUp, Emitted, Ends
  <2>2. CASE ~Done
    <3>1. Grows
      BY <1>1, <1>4, <2>2, NoneCloses DEF SendEventGivesUp, Emitted
    <3>2. Drops
      BY <1>4, <2>2 DEF SendEventGivesUp, Emitted, Drops, Same
    <3> QED
      BY <3>1, <3>2 DEF Moves
  <2> QED
    BY <2>1, <2>2
<1>5. ASSUME TakeFrame(c) \/ Written(c) \/ Connect(c) PROVE Grows /\ Moves
  <2>1. Grows
    BY <1>1, <1>5, NoneCloses DEF TakeFrame, Written, Connect, Receives, Serves
  <2>2. Quiet
    BY <1>5 DEF TakeFrame, Written, Connect, Quiet, Same
  <2> QED
    BY <2>1, <2>2 DEF Moves
<1>6. ASSUME Leave(c) PROVE Grows /\ Moves
  <2>1. Close(c) /\ UNCHANGED <<mapVars, emitting, subscriptions>>
    BY <1>6 DEF Leave
  <2>2. closed' = closed \cup {c} /\ Moves
    BY <2>1, ClosingMoves
  <2>3. goroutine' = [goroutine EXCEPT ![c] = "ended"]
    BY <1>6 DEF Leave
  <2> QED
    BY <1>0, <1>6, <2>2, <2>3 DEF Leave, Grows
<1>7. ASSUME ReportClosed(c) PROVE Grows /\ Moves
  <2>1. PutsOther
    BY <1>7 DEF ReportClosed, PutsOther, Types, CloseTypes
  <2> QED
    BY <1>7, <2>1, NoneCloses DEF ReportClosed, Moves
<1>8. ASSUME ClosedTimesOut(c) PROVE Grows /\ Moves
  <2>1. Quiet
    BY <1>8 DEF ClosedTimesOut, Quiet, Same
  <2> QED
    BY <1>8, <2>1, NoneCloses DEF ClosedTimesOut, Moves
<1>9. ASSUME Send(c) PROVE Grows /\ Moves
  <2>1. Grows
    BY <1>1, <1>9, NoneCloses DEF Send, Emit, Receives, Serves
  <2>2. Begins
    BY <1>9 DEF Send, Emit, Receives, Serves, Begins, Same, Reports, OfTopic
  <2> QED
    BY <2>1, <2>2 DEF Moves
<1>10. ASSUME NEW s \in Subscriptions, Subscribe(c, s) PROVE Grows /\ Moves
  <2>1. Grows
    BY <1>1, <1>10, NoneCloses DEF Subscribe, Emit, Receives, Serves
  <2>2. Begins
    BY <1>10 DEF Subscribe, Emit, Receives, Serves, Begins, Same
  <2> QED
    BY <2>1, <2>2 DEF Moves
<1>11. ASSUME NEW s \in Subscriptions, Unsubscribe(c, s) PROVE Grows /\ Moves
  <2>1. Grows
    BY <1>1, <1>11, NoneCloses DEF Unsubscribe, Emit, Receives, Serves
  <2>2. Begins
    BY <1>11 DEF Unsubscribe, Emit, Receives, Serves, Begins, Same
  <2> QED
    BY <2>1, <2>2 DEF Moves
<1> QED
  BY <1>2, <1>3, <1>4, <1>5, <1>6, <1>7, <1>8, <1>9, <1>10, <1>11 DEF Goes, Writes

LEMMA Effects == Types /\ [Next]_vars => Ends \/ (Grows /\ Moves)
<1>1. CASE Types /\ UNCHANGED vars
  BY <1>1 DEF vars, Grows, Moves, Quiet, Same, Done, serverVars, mapVars, connVars,
     closeVars, history
<1>2. CASE Types /\ Next
  BY <1>2, EffectsAcceptor, EffectsApi, EffectsLoop, EffectsConn DEF Next
<1> QED
  BY <1>1, <1>2

\* The event that is added to the queue, and whose it is.
LEMMA Appended ==
  ASSUME Types, PutsOther \/ PutsOwn
  PROVE  \E e \in Events :
           /\ Report(e)
           /\ WellFormed(e)
           /\ Len(connectionEvents) \in Nat
           /\ Len(connectionEvents') = Len(connectionEvents) + 1
           /\ connectionEvents'[Len(connectionEvents) + 1] = e
           /\ \A i \in 1 .. Len(connectionEvents) :
                connectionEvents'[i] = connectionEvents[i]
           /\ \/ /\ PutsOwn
                 /\ goroutine[e.conn] = "emitting" /\ goroutine'[e.conn] # "ended"
                 /\ emitting[e.conn] = e /\ e.type \in Reports
                 /\ emitting' = [emitting EXCEPT ![e.conn] = None]
              \/ /\ PutsOther
                 /\ e.type \in {"ConnectionStarting", "ConnectionClosed"}
                 /\ e.type = "ConnectionClosed" => e.conn \in closed'
                 /\ UNCHANGED emitting
<1>1. connectionEvents \in Seq(Events)
  BY DEF Types, QueueTypes
<1>2. ASSUME NEW e \in Events, Report(e)
      PROVE  /\ Len(connectionEvents) \in Nat
             /\ Len(connectionEvents') = Len(connectionEvents) + 1
             /\ connectionEvents'[Len(connectionEvents) + 1] = e
             /\ \A i \in 1 .. Len(connectionEvents) :
                  connectionEvents'[i] = connectionEvents[i]
  <2>1. connectionEvents' = Append(connectionEvents, e)
    BY <1>2 DEF Report
  <2> QED
    BY <1>1, <2>1
<1>3. CASE PutsOwn
  <2>1. PICK c \in Conns : /\ goroutine[c] = "emitting" /\ goroutine'[c] # "ended"
                           /\ Report(emitting[c])
                           /\ emitting' = [emitting EXCEPT ![c] = None]
    BY <1>3 DEF PutsOwn
  <2>2. WellFormed(emitting[c]) /\ emitting[c].conn = c /\ emitting[c].type \in Reports
    BY <2>1 DEF Types, EmittingTypes
  <2>3. emitting[c] \in Events
    BY <2>2 DEF WellFormed
  <2> QED
    BY <1>2, <1>3, <2>1, <2>2, <2>3
<1>4. CASE PutsOther
  <2>1. PICK c \in Conns, type \in {"ConnectionStarting", "ConnectionClosed"} :
          Report(Event(type, c, None)) /\ (type = "ConnectionClosed" => c \in closed')
    BY <1>4 DEF PutsOther
  <2> DEFINE e == Event(type, c, None)
  <2>2. WellFormed(e) /\ e.conn = c /\ e.type = type /\ Report(e)
    BY <2>1 DEF WellFormed, Event, Events, OfTopic
  <2> HIDE DEF e
  <2>3. e \in Events
    BY <2>2 DEF WellFormed
  <2>4. UNCHANGED emitting
    BY <1>4 DEF PutsOther
  <2> QED
    BY <1>2, <1>4, <2>1, <2>2, <2>3, <2>4
<1> QED
  BY <1>3, <1>4

LEMMA QueueTaken ==
  ASSUME Types, Takes
  PROVE  /\ WellFormed(connectionEvents[1]) /\ connectionEvents[1] \in Events
         /\ Len(connectionEvents) \in Nat \ {0}
         /\ Len(connectionEvents') = Len(connectionEvents) - 1
         /\ \A i \in 1 .. Len(connectionEvents') :
              connectionEvents'[i] = connectionEvents[i + 1]
  BY Taken DEF Types, Takes, WellFormed

-----------------------------------------------------------------------------
(***************************************************************************)
(* The end of a connection.                                                *)
(***************************************************************************)
LEMMA ClosedLastStep ==
  Types /\ Types' /\ ClosedLast /\ Grows /\ Moves => ClosedLast'
<1> SUFFICES ASSUME Types, Types', ClosedLast, Grows, Moves PROVE ClosedLast'
  OBVIOUS
<1>1. ASSUME ~Done', NEW c \in Conns, c \in closed' \ cutOff'
      PROVE  goroutine'[c] = "ended" /\ c \notin cutOff /\ ~Done
  BY <1>1 DEF Grows, ClosedLast
<1>2. ASSUME ~Done', NEW c \in Conns, c \in closed' \ cutOff',
             NEW j \in 1 .. Len(connectionEvents), connectionEvents[j].conn = c,
             connectionEvents[j].type = "SubscribeToTopic"
      PROVE  /\ c \notin cleaned
             /\ \A i \in 1 .. j - 1 : connectionEvents[i].type = "ConnectionClosed"
                                        => connectionEvents[i].conn # c
  <2>1. CASE c \in closed
    BY <1>1, <1>2, <2>1 DEF ClosedLast
  <2>2. CASE c \notin closed
    <3>1. Len(connectionEvents) \in Nat /\ \A i \in 1 .. j - 1 : i \in 1 .. Len(connectionEvents)
      BY DEF Types, QueueTypes
    <3> QED
      BY <2>2, <3>1 DEF Types, CloseTypes
  <2> QED
    BY <2>1, <2>2
<1>3. ASSUME ~Done', NEW c \in Conns, c \in closed' \ cutOff',
             NEW j \in 1 .. Len(connectionEvents'), connectionEvents'[j].conn = c,
             connectionEvents'[j].type = "SubscribeToTopic"
      PROVE  /\ c \notin cleaned'
             /\ \A i \in 1 .. j - 1 : connectionEvents'[i].type = "ConnectionClosed"
                                        => connectionEvents'[i].conn # c
  <2>1. CASE UNCHANGED <<connectionEvents, cleaned>>
    BY <1>2, <1>3, <2>1
  <2>2. CASE Takes
    <3>1. /\ Len(connectionEvents) \in Nat \ {0}
          /\ Len(connectionEvents') = Len(connectionEvents) - 1
          /\ \A i \in 1 .. Len(connectionEvents') :
               connectionEvents'[i] = connectionEvents[i + 1]
      BY <2>2, QueueTaken
    <3>2. j + 1 \in 1 .. Len(connectionEvents) /\ connectionEvents[j + 1] = connectionEvents'[j]
      BY <3>1
    <3>3. /\ c \notin cleaned
          /\ \A i \in 1 .. j : connectionEvents[i].type = "ConnectionClosed"
                                 => connectionEvents[i].conn # c
      BY <1>2, <1>3, <3>2
    <3>4. c \notin cleaned'
      BY <2>2, <3>1, <3>3 DEF Takes
    <3>5. ASSUME NEW i \in 1 .. j - 1
          PROVE  i + 1 \in 1 .. j /\ connectionEvents'[i] = connectionEvents[i + 1]
      BY <3>1
    <3> QED
      BY <3>3, <3>4, <3>5
  <2>3. CASE PutsOther \/ PutsOwn
    <3>1. PICK e \in Events :
           /\ Len(connectionEvents) \in Nat
           /\ Len(connectionEvents') = Len(connectionEvents) + 1
           /\ connectionEvents'[Len(connectionEvents) + 1] = e
           /\ \A i \in 1 .. Len(connectionEvents) :
                connectionEvents'[i] = connectionEvents[i]
           /\ \/ goroutine'[e.conn] # "ended"
              \/ e.type \in {"ConnectionStarting", "ConnectionClosed"}
      BY <2>3, Appended
    <3>2. cleaned' = cleaned
      BY <2>3 DEF PutsOther, PutsOwn
    <3>3. j \in 1 .. Len(connectionEvents)
      BY <1>1, <1>3, <3>1
    <3>4. \A i \in 1 .. j : connectionEvents'[i] = connectionEvents[i]
      BY <3>1, <3>3
    <3> QED
      BY <1>2, <1>3, <3>2, <3>3, <3>4
  <2> QED
    BY <2>1, <2>2, <2>3 DEF Moves, Quiet, Drops, Begins, Same
<1>4. closed' \subseteq Conns
  BY DEF Types, CloseTypes
<1> QED
  BY <1>1, <1>3, <1>4 DEF ClosedLast

\* The pairs the loop knows after an event.
LEMMA Tracks ==
  ASSUME Types, Takes, NEW p \in subscriptionsMap'
  PROVE  /\ connectionEvents[1].type = "ConnectionClosed"
              => p[1] # connectionEvents[1].conn
         /\ connectionEvents[1].type = "UnsubscribeFromTopic"
              => p # <<connectionEvents[1].conn, connectionEvents[1].sub>>
         /\ \/ p \in subscriptionsMap
            \/ /\ connectionEvents[1].type = "SubscribeToTopic"
               /\ p = <<connectionEvents[1].conn, connectionEvents[1].sub>>
  BY DEF Takes, Track

LEMMA NothingLeftStep ==
  Types /\ ClosedLast /\ NothingLeft /\ (Ends \/ (Grows /\ Moves))
    => NothingLeft'
<1> SUFFICES ASSUME Types, ClosedLast, NothingLeft, Ends \/ (Grows /\ Moves)
             PROVE  NothingLeft'
  OBVIOUS
<1>1. cutOff \subseteq cutOff'
  BY DEF Ends, Grows
<1>2. CASE UNCHANGED <<subscriptionsMap, cleaned>>
  BY <1>1, <1>2 DEF NothingLeft
<1>3. CASE Takes
  <2> DEFINE e == connectionEvents[1]
  <2>1. ~Done /\ 1 \in 1 .. Len(connectionEvents)
    BY <1>3, QueueTaken DEF Takes
  <2>2. ASSUME NEW p \in subscriptionsMap', p[1] \in cleaned', p[1] \notin cutOff
        PROVE  FALSE
    <3>1. p[1] \in cleaned
      BY <1>3, <2>2, Tracks DEF Takes
    <3>2. e.type = "SubscribeToTopic" /\ p[1] = e.conn
      BY <1>3, <2>2, <3>1, Tracks DEF NothingLeft
    <3> QED
      BY <2>1, <2>2, <3>1, <3>2 DEF ClosedLast, Types, CloseTypes
  <2> QED
    BY <1>1, <2>2 DEF NothingLeft
<1> QED
  BY <1>2, <1>3 DEF Ends, Moves, Quiet, PutsOther, PutsOwn, Drops, Begins, Same

-----------------------------------------------------------------------------
(***************************************************************************)
(* What the loop will know when the queue moves.                           *)
(***************************************************************************)
LEMMA KnowsSame ==
  ASSUME NEW known, NEW queue, NEW other, NEW k \in Nat, NEW p,
         \A i \in 1 .. k : other[i] = queue[i]
  PROVE  Knows(known, other, k, p) <=> Knows(known, queue, k, p)
<1>1. \A i \in 1 .. k : i + 1 .. k \subseteq 1 .. k
  OBVIOUS
<1>2. \A i \in 1 .. k : Decides(other[i], p) <=> Decides(queue[i], p)
  OBVIOUS
<1> QED
  BY <1>1, <1>2 DEF Knows

LEMMA KnowsNext ==
  ASSUME NEW known, NEW queue, NEW k \in Nat, NEW p
  PROVE  Knows(known, queue, k + 1, p)
           <=> IF Decides(queue[k + 1], p)
               THEN queue[k + 1].type = "SubscribeToTopic"
               ELSE Knows(known, queue, k, p)
<1>1. 1 .. k + 1 = (1 .. k) \cup {k + 1}
  OBVIOUS
<1>2. \A i \in 1 .. k : i + 1 .. k + 1 = (i + 1 .. k) \cup {k + 1}
  OBVIOUS
<1>3. k + 1 + 1 .. k + 1 = {}
  OBVIOUS
<1> QED
  BY <1>1, <1>2, <1>3 DEF Knows

LEMMA KnowsRest ==
  ASSUME NEW known, NEW known1, NEW queue, NEW rest, NEW k \in Nat \ {0}, NEW p,
         \A i \in 1 .. k - 1 : rest[i] = queue[i + 1],
         p \in known1 <=> IF Decides(queue[1], p)
                          THEN queue[1].type = "SubscribeToTopic"
                          ELSE p \in known
  PROVE  Knows(known, queue, k, p) <=> Knows(known1, rest, k - 1, p)
<1> DEFINE D(i) == Decides(queue[i], p)
           S(i) == queue[i].type = "SubscribeToTopic"
<1>1. \A i \in 1 .. k - 1 : (Decides(rest[i], p) <=> D(i + 1))
                            /\ (rest[i].type = "SubscribeToTopic" <=> S(i + 1))
  OBVIOUS
<1>2. Knows(known, queue, k, p)
        <=> \/ p \in known /\ \A i \in 1 .. k : ~D(i)
            \/ \E i \in 1 .. k : S(i) /\ D(i) /\ \A j \in i + 1 .. k : ~D(j)
  BY DEF Knows
<1>3. Knows(known1, rest, k - 1, p)
        <=> \/ p \in known1 /\ \A i \in 1 .. k - 1 : ~D(i + 1)
            \/ \E i \in 1 .. k - 1 : /\ S(i + 1) /\ D(i + 1)
                                     /\ \A j \in i + 1 .. k - 1 : ~D(j + 1)
  <2>1. \A i \in 1 .. k - 1 : i + 1 .. k - 1 \subseteq 1 .. k - 1
    OBVIOUS
  <2> HIDE DEF D, S
  <2> QED
    BY <1>1, <2>1 DEF Knows
<1>4. p \in known1 <=> IF D(1) THEN S(1) ELSE p \in known
  OBVIOUS
<1> HIDE DEF D, S
<1>5. (\A i \in 1 .. k - 1 : ~D(i + 1)) <=> (\A i \in 2 .. k : ~D(i))
  <2>1. ASSUME \A i \in 1 .. k - 1 : ~D(i + 1), NEW i \in 2 .. k PROVE ~D(i)
    <3>1. i - 1 \in 1 .. k - 1 /\ (i - 1) + 1 = i
      OBVIOUS
    <3> QED
      BY <2>1, <3>1
  <2>2. ASSUME \A i \in 2 .. k : ~D(i), NEW i \in 1 .. k - 1 PROVE ~D(i + 1)
    <3>1. i + 1 \in 2 .. k
      OBVIOUS
    <3> QED
      BY <2>2, <3>1
  <2> QED
    BY <2>1, <2>2
<1>6. ASSUME NEW i \in 1 .. k - 1
      PROVE  (\A j \in i + 1 .. k - 1 : ~D(j + 1)) <=> (\A j \in i + 2 .. k : ~D(j))
  <2>1. ASSUME \A j \in i + 1 .. k - 1 : ~D(j + 1), NEW j \in i + 2 .. k PROVE ~D(j)
    <3>1. j - 1 \in i + 1 .. k - 1 /\ (j - 1) + 1 = j
      OBVIOUS
    <3> QED
      BY <2>1, <3>1
  <2>2. ASSUME \A j \in i + 2 .. k : ~D(j), NEW j \in i + 1 .. k - 1 PROVE ~D(j + 1)
    <3>1. j + 1 \in i + 2 .. k
      OBVIOUS
    <3> QED
      BY <2>2, <3>1
  <2> QED
    BY <2>1, <2>2
<1>7. (\E i \in 1 .. k - 1 : S(i + 1) /\ D(i + 1) /\ \A j \in i + 1 .. k - 1 : ~D(j + 1))
        <=> (\E i \in 2 .. k : S(i) /\ D(i) /\ \A j \in i + 1 .. k : ~D(j))
  <2>1. ASSUME NEW i \in 1 .. k - 1, S(i + 1), D(i + 1), \A j \in i + 2 .. k : ~D(j)
        PROVE  \E h \in 2 .. k : S(h) /\ D(h) /\ \A j \in h + 1 .. k : ~D(j)
    <3>1. i + 1 \in 2 .. k /\ (i + 1) + 1 = i + 2
      OBVIOUS
    <3> QED
      BY <2>1, <3>1
  <2>2. ASSUME NEW i \in 2 .. k, S(i), D(i), \A j \in i + 1 .. k : ~D(j)
        PROVE  \E h \in 1 .. k - 1 : S(h + 1) /\ D(h + 1) /\ \A j \in h + 2 .. k : ~D(j)
    <3>1. i - 1 \in 1 .. k - 1 /\ (i - 1) + 1 = i /\ (i - 1) + 2 = i + 1
      OBVIOUS
    <3> QED
      BY <2>2, <3>1
  <2> QED
    BY <1>6, <2>1, <2>2
<1>8. 1 .. k = {1} \cup 2 .. k /\ 1 + 1 = 2
  OBVIOUS
<1>9. Knows(known, queue, k, p)
        <=> \/ (IF D(1) THEN S(1) ELSE p \in known) /\ \A i \in 2 .. k : ~D(i)
            \/ \E i \in 2 .. k : S(i) /\ D(i) /\ \A j \in i + 1 .. k : ~D(j)
  BY <1>2, <1>8
<1> QED
  BY <1>3, <1>4, <1>5, <1>7, <1>9

\* Taking the first event changes what the loop knows, not what it will know.
LEMMA KnowsTaken ==
  ASSUME Types, Takes, NEW c \in Conns, NEW s \in Subscriptions,
         NEW k \in 1 .. Len(connectionEvents)
  PROVE  Knows(subscriptionsMap, connectionEvents, k, <<c, s>>)
           <=> Knows(subscriptionsMap', connectionEvents', k - 1, <<c, s>>)
<1>1. /\ Len(connectionEvents) \in Nat \ {0}
      /\ Len(connectionEvents') = Len(connectionEvents) - 1
      /\ \A i \in 1 .. Len(connectionEvents') :
           connectionEvents'[i] = connectionEvents[i + 1]
      /\ WellFormed(connectionEvents[1])
  BY QueueTaken
<1>2. k \in Nat \ {0} /\ \A i \in 1 .. k - 1 : connectionEvents'[i] = connectionEvents[i + 1]
  BY <1>1
<1> DEFINE e == connectionEvents[1]
<1>3. <<c, s>> \in subscriptionsMap'
        <=> IF Decides(e, <<c, s>>)
            THEN e.type = "SubscribeToTopic" ELSE <<c, s>> \in subscriptionsMap
  <2>1. subscriptionsMap' = Track(subscriptionsMap, e)
    BY DEF Takes
  <2> HIDE DEF e
  <2> QED
    BY <2>1 DEF Track, Decides
<1> HIDE DEF e
<1> QED
  BY <1>2, <1>3, KnowsRest DEF e

-----------------------------------------------------------------------------
(***************************************************************************)
(* The two maps of subscriptions.                                          *)
(***************************************************************************)
\* What the loop will know of a connection when its queue is empty.
InQueue(c, s) ==
  Knows(subscriptionsMap, connectionEvents, Len(connectionEvents), <<c, s>>)

\* A goroutine that has nothing to report.
LEMMA NothingToReport ==
  ASSUME Types, NEW c \in Conns, NEW s, goroutine[c] # "emitting"
  PROVE  emitting[c] = None /\ (WillKnow(c, s) <=> InQueue(c, s))
  BY DEF Types, EmittingTypes, WillKnow, InQueue

LEMMA InQueueSame ==
  ASSUME Types, Same, NEW c, NEW s
  PROVE  InQueue(c, s)' <=> InQueue(c, s)
  BY DEF Same, InQueue

LEMMA InQueueTaken ==
  ASSUME Types, Takes, NEW c \in Conns, NEW s \in Subscriptions
  PROVE  InQueue(c, s)' <=> InQueue(c, s)
<1>1. /\ Len(connectionEvents) \in 1 .. Len(connectionEvents)
      /\ Len(connectionEvents') = Len(connectionEvents) - 1
  BY QueueTaken
<1> QED
  BY <1>1, KnowsTaken DEF InQueue

\* What is added to the queue decides, or leaves it as it was.
LEMMA InQueuePut ==
  ASSUME Types, PutsOther \/ PutsOwn, NEW e, NEW c, NEW s,
         Len(connectionEvents) \in Nat,
         Len(connectionEvents') = Len(connectionEvents) + 1,
         connectionEvents'[Len(connectionEvents) + 1] = e,
         \A i \in 1 .. Len(connectionEvents) :
           connectionEvents'[i] = connectionEvents[i]
  PROVE  InQueue(c, s)' <=> IF Decides(e, <<c, s>>)
                            THEN e.type = "SubscribeToTopic" ELSE InQueue(c, s)
<1>1. subscriptionsMap' = subscriptionsMap
  BY DEF PutsOther, PutsOwn
<1>2. InQueue(c, s)' <=>
        Knows(subscriptionsMap, connectionEvents', Len(connectionEvents) + 1, <<c, s>>)
  BY <1>1 DEF InQueue
<1>3. Knows(subscriptionsMap, connectionEvents', Len(connectionEvents), <<c, s>>)
        <=> InQueue(c, s)
  BY KnowsSame DEF InQueue
<1> QED
  BY <1>2, <1>3, KnowsNext

\* Without a new subscribe or unsubscribe the loop will know what it would have
\* known, or less when the connection is closed.
LEMMA WillKnowMoves ==
  ASSUME Types, Quiet \/ Takes \/ PutsOther \/ PutsOwn \/ Drops,
         NEW c \in Conns, c \notin lost', NEW s \in Subscriptions
  PROVE  /\ WillKnow(c, s)' => WillKnow(c, s)
         /\ c \notin closed' => (WillKnow(c, s) => WillKnow(c, s)')
         /\ subscriptions' = subscriptions
<1> DEFINE p == <<c, s>>
<1>0. emitting \in [Conns -> Events \cup {None}]
  BY DEF Types, EmittingTypes
<1>1. CASE Quiet
  <2>1. UNCHANGED emitting /\ (InQueue(c, s)' <=> InQueue(c, s))
    BY <1>1, InQueueSame DEF Quiet
  <2> QED
    BY <1>1, <2>1 DEF WillKnow, InQueue, Quiet
<1>2. CASE Takes
  <2>1. UNCHANGED emitting /\ (InQueue(c, s)' <=> InQueue(c, s))
    BY <1>2, InQueueTaken DEF Takes
  <2> QED
    BY <1>2, <2>1 DEF WillKnow, InQueue, Takes
<1>3. CASE Drops
  <2>1. emitting'[c] = emitting[c] /\ (InQueue(c, s)' <=> InQueue(c, s))
    BY <1>0, <1>3, InQueueSame DEF Drops
  <2> QED
    BY <1>3, <2>1 DEF WillKnow, InQueue, Drops
<1>4. CASE PutsOther
  <2>1. PICK e \in Events :
           /\ Len(connectionEvents) \in Nat
           /\ Len(connectionEvents') = Len(connectionEvents) + 1
           /\ connectionEvents'[Len(connectionEvents) + 1] = e
           /\ \A i \in 1 .. Len(connectionEvents) :
                connectionEvents'[i] = connectionEvents[i]
           /\ \/ PutsOwn /\ emitting[e.conn] = e /\ e.type \in Reports
                   /\ goroutine[e.conn] = "emitting"
                   /\ emitting' = [emitting EXCEPT ![e.conn] = None]
              \/ /\ e.type \in {"ConnectionStarting", "ConnectionClosed"}
                 /\ e.type = "ConnectionClosed" => e.conn \in closed'
                 /\ UNCHANGED emitting
    BY <1>4, Appended
  <2>2. e.conn \in Conns
    BY <2>1 DEF Events
  <2>3. UNCHANGED <<emitting, subscriptions>>
    BY <1>4 DEF PutsOther
  <2>4. /\ e.type \in {"ConnectionStarting", "ConnectionClosed"}
        /\ e.type = "ConnectionClosed" => e.conn \in closed'
    <3>1. ASSUME emitting[e.conn] = e, emitting' = [emitting EXCEPT ![e.conn] = None]
          PROVE  FALSE
      <4>1. emitting'[e.conn] = None
        BY <1>0, <2>2, <3>1
      <4> QED
        BY <2>1, <2>3, <3>1, <4>1, NoneAssumption
    <3> QED
      BY <2>1, <3>1
  <2>5. InQueue(c, s)' <=> IF Decides(e, p) THEN e.type = "SubscribeToTopic"
                                            ELSE InQueue(c, s)
    BY <1>4, <2>1, InQueuePut
  <2>6. /\ InQueue(c, s)' => InQueue(c, s)
        /\ c \notin closed' => (InQueue(c, s) => InQueue(c, s)')
    BY <2>4, <2>5 DEF Decides
  <2> QED
    BY <2>3, <2>6 DEF WillKnow, InQueue
<1>5. CASE PutsOwn
  <2>1. PICK d \in Conns : /\ goroutine[d] = "emitting"
                           /\ Report(emitting[d])
                           /\ emitting' = [emitting EXCEPT ![d] = None]
    BY <1>5 DEF PutsOwn
  <2> DEFINE e == emitting[d]
  <2>2. e \in Events /\ e.conn = d
    BY <2>1 DEF Types, EmittingTypes, WellFormed
  <2>3. /\ Len(connectionEvents) \in Nat
        /\ Len(connectionEvents') = Len(connectionEvents) + 1
        /\ connectionEvents'[Len(connectionEvents) + 1] = e
        /\ \A i \in 1 .. Len(connectionEvents) :
             connectionEvents'[i] = connectionEvents[i]
    <3>1. connectionEvents \in Seq(Events) /\ connectionEvents' = Append(connectionEvents, e)
      BY <2>1 DEF Types, QueueTypes, Report
    <3> HIDE DEF e
    <3> QED
      BY <2>2, <3>1
  <2>4. InQueue(c, s)' <=> IF Decides(e, p) THEN e.type = "SubscribeToTopic"
                                            ELSE InQueue(c, s)
    BY <1>5, <2>3, InQueuePut
  <2>5. CASE c = d
    <3>1. emitting[c] # None /\ emitting'[c] = None
      BY <1>0, <2>1, <2>2, <2>5, NoneAssumption
    <3> QED
      BY <1>5, <2>4, <2>5, <3>1 DEF WillKnow, InQueue, PutsOwn
  <2>6. CASE c # d
    <3>1. emitting'[c] = emitting[c] /\ ~Decides(e, p)
      BY <1>0, <2>1, <2>2, <2>6 DEF Decides
    <3> QED
      BY <1>5, <2>4, <3>1 DEF WillKnow, InQueue, PutsOwn
  <2> QED
    BY <2>5, <2>6
<1> QED
  BY <1>1, <1>2, <1>3, <1>4, <1>5

\* A subscribe or an unsubscribe changes the map of the connection and what is
\* on its way alike.
LEMMA WillKnowBegins ==
  ASSUME Types, Begins, NEW c \in Conns, NEW s \in Subscriptions,
         WillKnow(c, s) => s \in subscriptions[c]
  PROVE  /\ WillKnow(c, s)' => s \in subscriptions'[c]
         /\ (s \in subscriptions[c] => WillKnow(c, s))
              => (s \in subscriptions'[c] => WillKnow(c, s)')
<1>0. /\ emitting \in [Conns -> Events \cup {None}]
      /\ subscriptions \in [Conns -> SUBSET Subscriptions]
  BY DEF Types, EmittingTypes, ConnTypes
<1>1. PICK d \in Conns :
        /\ goroutine[d] \notin {"emitting", "ended"}
        /\ \/ \E type \in Reports \ OfTopic, sub \in Subscriptions \cup {None} :
                /\ emitting' = [emitting EXCEPT ![d] = Event(type, d, sub)]
                /\ UNCHANGED subscriptions
           \/ \E sub \in Subscriptions :
                /\ emitting' = [emitting EXCEPT ![d] = Event("SubscribeToTopic", d, sub)]
                /\ subscriptions' = [subscriptions EXCEPT ![d] = @ \cup {sub}]
           \/ \E sub \in subscriptions[d] :
                /\ emitting' = [emitting EXCEPT
                                  ![d] = Event("UnsubscribeFromTopic", d, sub)]
                /\ subscriptions' = [subscriptions EXCEPT ![d] = @ \ {sub}]
  BY DEF Begins
<1>2. InQueue(c, s)' <=> InQueue(c, s)
  BY InQueueSame DEF Begins
<1>3. CASE c # d
  <2>1. emitting'[c] = emitting[c] /\ subscriptions'[c] = subscriptions[c]
    BY <1>0, <1>1, <1>3
  <2> QED
    BY <1>2, <2>1 DEF WillKnow, InQueue
<1>4. CASE c = d
  <2>1. emitting[c] = None /\ (WillKnow(c, s) <=> InQueue(c, s))
    BY <1>1, <1>4, NothingToReport
  <2>2. \A e \in Events : e # None
    BY NoneAssumption
  <2>3. ASSUME NEW type \in Reports \ OfTopic, NEW sub \in Subscriptions \cup {None},
               emitting' = [emitting EXCEPT ![d] = Event(type, d, sub)],
               UNCHANGED subscriptions
        PROVE  WillKnow(c, s)' <=> InQueue(c, s)
    <3>1. emitting'[c] = Event(type, c, sub) /\ ~Decides(emitting'[c], <<c, s>>)
      BY <1>0, <1>4, <2>3 DEF Decides, Event, Reports, OfTopic
    <3> QED
      BY <1>2, <3>1 DEF WillKnow, InQueue
  <2>4. ASSUME NEW type \in OfTopic, NEW sub \in Subscriptions,
               emitting' = [emitting EXCEPT ![d] = Event(type, d, sub)]
        PROVE  WillKnow(c, s)' <=> IF s = sub THEN type = "SubscribeToTopic"
                                              ELSE InQueue(c, s)
    <3>1. emitting'[c] = Event(type, c, sub) /\ emitting'[c] \in Events
      BY <1>0, <1>4, <2>4 DEF Event, Events, OfTopic
    <3>2. Decides(emitting'[c], <<c, s>>) <=> s = sub
      BY <2>4, <3>1 DEF Decides, Event, OfTopic
    <3>3. emitting'[c] # None /\ (emitting'[c].type = "SubscribeToTopic"
                                    <=> type = "SubscribeToTopic")
      BY <2>2, <3>1 DEF Event
    <3> QED
      BY <1>2, <3>2, <3>3 DEF WillKnow, InQueue
  <2>5. CASE \E type \in Reports \ OfTopic, sub \in Subscriptions \cup {None} :
                /\ emitting' = [emitting EXCEPT ![d] = Event(type, d, sub)]
                /\ UNCHANGED subscriptions
    BY <2>1, <2>3, <2>5
  <2>6. CASE \E sub \in Subscriptions :
                /\ emitting' = [emitting EXCEPT ![d] = Event("SubscribeToTopic", d, sub)]
                /\ subscriptions' = [subscriptions EXCEPT ![d] = @ \cup {sub}]
    <3>1. PICK sub \in Subscriptions :
                /\ emitting' = [emitting EXCEPT ![d] = Event("SubscribeToTopic", d, sub)]
                /\ subscriptions' = [subscriptions EXCEPT ![d] = @ \cup {sub}]
      BY <2>6
    <3>2. WillKnow(c, s)' <=> (s = sub \/ InQueue(c, s))
      BY <2>4, <3>1 DEF OfTopic
    <3>3. subscriptions'[c] = subscriptions[c] \cup {sub}
      BY <1>0, <1>4, <3>1
    <3> QED
      BY <2>1, <3>2, <3>3
  <2>7. CASE \E sub \in subscriptions[d] :
                /\ emitting' = [emitting EXCEPT
                                  ![d] = Event("UnsubscribeFromTopic", d, sub)]
                /\ subscriptions' = [subscriptions EXCEPT ![d] = @ \ {sub}]
    <3>1. PICK sub \in subscriptions[d] :
                /\ emitting' = [emitting EXCEPT
                                  ![d] = Event("UnsubscribeFromTopic", d, sub)]
                /\ subscriptions' = [subscriptions EXCEPT ![d] = @ \ {sub}]
      BY <2>7
    <3>2. sub \in Subscriptions
      BY <1>0
    <3>3. WillKnow(c, s)' <=> (s # sub /\ InQueue(c, s))
      BY <2>4, <3>1, <3>2 DEF OfTopic
    <3>4. subscriptions'[c] = subscriptions[c] \ {sub}
      BY <1>0, <1>4, <3>1
    <3> QED
      BY <2>1, <3>3, <3>4
  <2> QED
    BY <1>1, <2>5, <2>6, <2>7
<1> QED
  BY <1>3, <1>4

LEMMA AgreeStep ==
  Types /\ Agree /\ Grows /\ Moves => Agree'
<1> SUFFICES ASSUME Types, Agree, Grows, Moves, ~Done',
                    NEW c \in Conns \ lost', NEW s \in Subscriptions
             PROVE  /\ WillKnow(c, s)' => s \in subscriptions'[c]
                    /\ c \notin closed' => (s \in subscriptions'[c] => WillKnow(c, s)')
  BY DEF Agree
<1>1. /\ WillKnow(c, s) => s \in subscriptions[c]
      /\ c \notin closed' => (s \in subscriptions[c] => WillKnow(c, s))
  BY DEF Grows, Agree
<1>2. CASE Begins
  BY <1>1, <1>2, WillKnowBegins
<1>3. CASE Quiet \/ Takes \/ PutsOther \/ PutsOwn \/ Drops
  BY <1>1, <1>3, WillKnowMoves
<1> QED
  BY <1>2, <1>3 DEF Moves

\* A subscription in the queue, or on its way to it, comes when its id is free.
LEMMA ComesFreeStep ==
  Types /\ Types' /\ Agree /\ ComesFree /\ Grows /\ Moves => ComesFree'
<1> SUFFICES ASSUME Types, Types', Agree, ComesFree, Grows, Moves, ~Done'
             PROVE  ComesFree'
  BY DEF ComesFree
<1>0. ~Done /\ lost \subseteq lost'
  BY DEF Grows
<1>a. \A i \in 1 .. Len(connectionEvents) :
        /\ WellFormed(connectionEvents[i]) /\ connectionEvents[i] \in Events
        /\ connectionEvents[i].conn \in Conns
  BY DEF Types, QueueTypes, WellFormed, Events
<1>b. Len(connectionEvents) \in Nat
  BY DEF Types, QueueTypes
<1>c. /\ emitting \in [Conns -> Events \cup {None}]
      /\ \A k \in Conns : emitting[k] # None => emitting[k].conn = k
  BY DEF Types, EmittingTypes
<1>1. ASSUME NEW i \in 1 .. Len(connectionEvents'),
             connectionEvents'[i].conn \notin lost',
             connectionEvents'[i].type = "SubscribeToTopic",
             NEW s \in Subscriptions,
             s.id = connectionEvents'[i].sub.id, s # connectionEvents'[i].sub
      PROVE  ~Knows(subscriptionsMap', connectionEvents', i - 1,
                    <<connectionEvents'[i].conn, s>>)
  <2>1. CASE Same
    BY <1>0, <1>1, <2>1 DEF Same, ComesFree, FreeAt
  <2>2. CASE Takes
    <3>1. /\ Len(connectionEvents) \in Nat \ {0}
          /\ Len(connectionEvents') = Len(connectionEvents) - 1
          /\ connectionEvents'[i] = connectionEvents[i + 1]
      BY <2>2, QueueTaken
    <3>2. i + 1 \in 1 .. Len(connectionEvents) /\ i \in 1 .. Len(connectionEvents)
          /\ (i + 1) - 1 = i
      BY <3>1
    <3>3. ~Knows(subscriptionsMap, connectionEvents, i, <<connectionEvents[i + 1].conn, s>>)
      BY <1>0, <1>1, <3>1, <3>2 DEF ComesFree, FreeAt
    <3>4. connectionEvents[i + 1].conn \in Conns
      BY <1>a, <3>2
    <3> QED
      BY <2>2, <3>1, <3>2, <3>3, <3>4, KnowsTaken
  <2>3. CASE PutsOther \/ PutsOwn
    <3>1. PICK e \in Events :
           /\ Len(connectionEvents') = Len(connectionEvents) + 1
           /\ connectionEvents'[Len(connectionEvents) + 1] = e
           /\ \A j \in 1 .. Len(connectionEvents) :
                connectionEvents'[j] = connectionEvents[j]
           /\ \/ emitting[e.conn] = e
              \/ e.type \in {"ConnectionStarting", "ConnectionClosed"}
      BY <2>3, Appended
    <3>2. subscriptionsMap' = subscriptionsMap
      BY <2>3 DEF PutsOther, PutsOwn
    <3>3. ASSUME NEW k \in 0 .. Len(connectionEvents), NEW p
          PROVE  Knows(subscriptionsMap', connectionEvents', k, p)
                   <=> Knows(subscriptionsMap, connectionEvents, k, p)
      <4>1. k \in Nat /\ \A j \in 1 .. k : connectionEvents'[j] = connectionEvents[j]
        BY <1>b, <3>1
      <4> QED
        BY <3>2, <4>1, KnowsSame
    <3>4. CASE i \in 1 .. Len(connectionEvents)
      <4>1. ~Knows(subscriptionsMap, connectionEvents, i - 1,
                   <<connectionEvents[i].conn, s>>)
        BY <1>0, <1>1, <3>1, <3>4 DEF ComesFree, FreeAt
      <4> QED
        BY <1>b, <3>1, <3>3, <3>4, <4>1
    <3>5. CASE i = Len(connectionEvents) + 1
      <4>1. emitting[e.conn] = e /\ e.conn \in Conns \ lost /\ e # None
        BY <1>0, <1>1, <3>1, <3>5, NoneAssumption DEF Events
      <4>2. ~Knows(subscriptionsMap, connectionEvents, Len(connectionEvents), <<e.conn, s>>)
        BY <1>0, <1>1, <3>1, <3>5, <4>1 DEF ComesFree, FreeAt
      <4>3. i - 1 = Len(connectionEvents)
        BY <1>b, <3>5
      <4> QED
        BY <1>b, <3>1, <3>3, <3>5, <4>2, <4>3
    <3> QED
      BY <1>b, <3>1, <3>4, <3>5
  <2> QED
    BY <2>1, <2>2, <2>3 DEF Moves, Quiet, Drops, Begins
<1>2. ASSUME NEW c \in Conns \ lost', emitting'[c] # None,
             emitting'[c].type = "SubscribeToTopic",
             NEW s \in Subscriptions,
             s.id = emitting'[c].sub.id, s # emitting'[c].sub
      PROVE  ~InQueue(c, s)'
  <2>0. emitting'[c] = emitting[c] => ~InQueue(c, s)
    BY <1>0, <1>2, <1>c DEF ComesFree, FreeAt, InQueue
  <2>1. CASE Quiet
    BY <2>0, <2>1, InQueueSame DEF Quiet
  <2>2. CASE Takes
    BY <2>0, <2>2, InQueueTaken DEF Takes
  <2>3. CASE Drops
    BY <1>2, <1>c, <2>0, <2>3, InQueueSame DEF Drops
  <2>4. CASE PutsOther \/ PutsOwn
    <3>1. PICK e \in Events :
           /\ Len(connectionEvents) \in Nat
           /\ Len(connectionEvents') = Len(connectionEvents) + 1
           /\ connectionEvents'[Len(connectionEvents) + 1] = e
           /\ \A j \in 1 .. Len(connectionEvents) :
                connectionEvents'[j] = connectionEvents[j]
           /\ \/ emitting[e.conn] = e /\ emitting' = [emitting EXCEPT ![e.conn] = None]
              \/ /\ e.type \in {"ConnectionStarting", "ConnectionClosed"}
                 /\ UNCHANGED emitting
      BY <2>4, Appended
    <3>2. InQueue(c, s)' <=> IF Decides(e, <<c, s>>)
                             THEN e.type = "SubscribeToTopic" ELSE InQueue(c, s)
      BY <2>4, <3>1, InQueuePut
    <3>3. CASE emitting[e.conn] = e /\ emitting' = [emitting EXCEPT ![e.conn] = None]
      <4>1. e.conn # c /\ emitting'[c] = emitting[c]
        BY <1>2, <1>c, <3>3
      <4> QED
        BY <2>0, <3>2, <4>1 DEF Decides
    <3>4. CASE e.type \in {"ConnectionStarting", "ConnectionClosed"} /\ UNCHANGED emitting
      BY <2>0, <3>2, <3>4
    <3> QED
      BY <3>1, <3>3, <3>4
  <2>5. CASE Begins
    <3>1. PICK d \in Conns :
            /\ goroutine[d] \notin {"emitting", "ended"}
            /\ \/ \E type \in Reports \ OfTopic, sub \in Subscriptions \cup {None} :
                    emitting' = [emitting EXCEPT ![d] = Event(type, d, sub)]
               \/ \E sub \in Subscriptions :
                    /\ IdIsFree(d, sub)
                    /\ emitting' = [emitting EXCEPT ![d] = Event("SubscribeToTopic", d, sub)]
               \/ \E sub \in subscriptions[d] :
                    emitting' = [emitting EXCEPT ![d] = Event("UnsubscribeFromTopic", d, sub)]
      BY <2>5 DEF Begins
    <3>2. InQueue(c, s)' <=> InQueue(c, s)
      BY <2>5, InQueueSame DEF Begins
    <3>3. CASE c # d
      <4>1. emitting'[c] = emitting[c]
        BY <1>c, <3>1, <3>3
      <4> QED
        BY <2>0, <3>2, <4>1
    <3>4. CASE c = d
      <4>1. PICK sub \in Subscriptions :
              /\ IdIsFree(c, sub)
              /\ emitting' = [emitting EXCEPT ![c] = Event("SubscribeToTopic", c, sub)]
        BY <1>2, <1>c, <3>1, <3>4 DEF Event, Reports, OfTopic
      <4>2. emitting'[c].sub = sub
        BY <1>c, <4>1 DEF Event
      <4>3. s \notin subscriptions[c]
        BY <1>2, <4>1, <4>2 DEF IdIsFree
      <4>4. WillKnow(c, s) <=> InQueue(c, s)
        BY <3>1, <3>4, NothingToReport
      <4> QED
        BY <1>0, <1>2, <3>2, <4>3, <4>4 DEF Agree
    <3> QED
      BY <3>3, <3>4
  <2> QED
    BY <2>1, <2>2, <2>3, <2>4, <2>5 DEF Moves
<1>3. ASSUME NEW c \in Conns PROVE emitting'[c] # None => emitting'[c].conn = c
  BY <1>3 DEF Types, EmittingTypes
<1>4. ASSUME NEW c \in Conns \ lost', emitting'[c] # None
      PROVE  FreeAt(emitting[c], Len(connectionEvents))'
  BY <1>2, <1>3, <1>4 DEF FreeAt, InQueue
<1>5. ASSUME NEW i \in 1 .. Len(connectionEvents'),
             connectionEvents'[i].conn \notin lost'
      PROVE  FreeAt(connectionEvents[i], i - 1)'
  BY <1>1, <1>5 DEF FreeAt
<1> QED
  BY <1>4, <1>5 DEF ComesFree

LEMMA ApartStep ==
  Types /\ ComesFree /\ Apart /\ (Ends \/ (Grows /\ Moves)) => Apart'
<1> SUFFICES ASSUME Types, ComesFree, Apart, Ends \/ (Grows /\ Moves)
             PROVE  Apart'
  OBVIOUS
<1>1. lost \subseteq lost'
  BY DEF Ends, Grows
<1>2. CASE UNCHANGED subscriptionsMap
  BY <1>1, <1>2 DEF Apart
<1>3. CASE Takes
  <2> DEFINE e == connectionEvents[1]
  <2>1. /\ ~Done /\ 1 \in 1 .. Len(connectionEvents) /\ 1 - 1 = 0
        /\ WellFormed(e)
        /\ subscriptionsMap \subseteq Conns \X Subscriptions
    BY <1>3, QueueTaken DEF Takes, Types, MapTypes
  <2>2. ASSUME e.type = "SubscribeToTopic", e.conn \notin lost,
               NEW q \in subscriptionsMap, q[1] = e.conn, q[2].id = e.sub.id
        PROVE  q = <<e.conn, e.sub>>
    <3>1. q = <<q[1], q[2]>> /\ q[2] \in Subscriptions
      BY <2>1
    <3>2. Knows(subscriptionsMap, connectionEvents, 0, q)
      BY DEF Knows
    <3>3. q[2] # e.sub => ~Knows(subscriptionsMap, connectionEvents, 0, <<e.conn, q[2]>>)
      BY <2>1, <2>2, <3>1 DEF ComesFree, FreeAt
    <3> QED
      BY <2>2, <3>1, <3>2, <3>3
  <2> HIDE DEF e
  <2>3. \A p \in subscriptionsMap' :
          p \in subscriptionsMap \/ (e.type = "SubscribeToTopic" /\ p = <<e.conn, e.sub>>)
    BY <1>3, Tracks DEF e
  <2>4. ASSUME NEW p \in subscriptionsMap', NEW q \in subscriptionsMap',
               p[1] = q[1], p[1] \notin lost, p[2].id = q[2].id
        PROVE  p = q
    <3>1. CASE p \in subscriptionsMap /\ q \in subscriptionsMap
      BY <2>4, <3>1 DEF Apart
    <3>2. CASE e.type = "SubscribeToTopic" /\ p = <<e.conn, e.sub>> /\ q \in subscriptionsMap
      BY <2>2, <2>4, <3>2
    <3>3. CASE e.type = "SubscribeToTopic" /\ q = <<e.conn, e.sub>> /\ p \in subscriptionsMap
      BY <2>2, <2>4, <3>3
    <3> QED
      BY <2>3, <3>1, <3>2, <3>3
  <2> QED
    BY <1>1, <2>4 DEF Apart
<1> QED
  BY <1>2, <1>3 DEF Ends, Moves, Quiet, PutsOther, PutsOwn, Drops, Begins, Same

THEOREM Invariant == Spec => []IInv
<1>1. Init => IInv
  <2>1. Init => Types
    BY TypesInitially
  <2>2. Init => ClosedLast /\ NothingLeft /\ Apart
    BY DEF Init, ClosedLast, NothingLeft, Apart
  <2>3. ASSUME Init PROVE Agree /\ ComesFree
    <3>1. Len(connectionEvents) = 0 /\ subscriptionsMap = {}
      BY <2>3 DEF Init
    <3>2. \A c \in Conns : emitting[c] = None /\ subscriptions[c] = {}
      BY <2>3 DEF Init
    <3>3. \A p : ~Knows(subscriptionsMap, connectionEvents, Len(connectionEvents), p)
      BY <3>1 DEF Knows
    <3>4. Agree
      BY <3>2, <3>3 DEF Agree, WillKnow
    <3>5. ComesFree
      BY <3>1, <3>2 DEF ComesFree
    <3> QED
      BY <3>4, <3>5
  <2> QED
    BY <2>1, <2>2, <2>3 DEF IInv
<1>2. IInv /\ [Next]_vars => IInv'
  <2> SUFFICES ASSUME IInv, [Next]_vars PROVE IInv'
    OBVIOUS
  <2>1. Types' /\ (Ends \/ (Grows /\ Moves))
    BY TypesStep, Effects DEF IInv
  <2>2. NothingLeft' /\ Apart'
    BY <2>1, NothingLeftStep, ApartStep DEF IInv
  <2>3. CASE Ends
    <3>1. ClosedLast' /\ Agree' /\ ComesFree'
      BY <2>3 DEF Ends, ClosedLast, Agree, ComesFree
    <3> QED
      BY <2>1, <2>2, <3>1 DEF IInv
  <2>4. CASE Grows /\ Moves
    <3>1. ClosedLast' /\ Agree' /\ ComesFree'
      BY <2>1, <2>4, ClosedLastStep, AgreeStep, ComesFreeStep DEF IInv
    <3> QED
      BY <2>1, <2>2, <3>1 DEF IInv
  <2> QED
    BY <2>1, <2>3, <2>4
<1> QED
  BY <1>1, <1>2, PTL DEF Spec

LEMMA TypesHold == IInv => TypeOK
<1> SUFFICES ASSUME Types PROVE TypeOK
  BY DEF IInv
<1>1. \A i \in DOMAIN connectionEvents : connectionEvents[i] \in Events
  BY DEF Types, QueueTypes
<1>2. connectionsMap \cup closed \cup latecomers \cup lost \cup cutOff \cup cleaned
        \subseteq Conns
  BY DEF Types, MapTypes, CloseTypes
<1> QED
  BY <1>1, <1>2
  DEF TypeOK, Types, ServerTypes, MapTypes, AcceptorTypes, ConnTypes, EmittingTypes,
      QueueTypes, Places

LEMMA MapsHold == IInv => MapsAgree
  BY DEF IInv, Agree, Apart, NothingLeft, MapsAgree

\* The queues of the server and of the connections keep their capacities
\* (newStompConn and newStompServer make the channels), and every event in them
\* is one of a connection that was made.
THEOREM TypeCorrect == Spec => []TypeOK
  BY Invariant, TypesHold, PTL

\* handleConnectionEvent makes the map of the server what Subscribe and
\* Unsubscribe made the one of the connection, but for the events on their way
\* and those that timed out; no two subscriptions of a connection share an id
\* there; and what a connection that ended itself had subscribed is gone.
THEOREM TwoMaps == Spec => []MapsAgree
  BY Invariant, MapsHold, PTL
=============================================================================
