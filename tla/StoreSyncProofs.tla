-------------------------- MODULE StoreSyncProofs ---------------------------
(***************************************************************************)
(* Proofs about StoreSync, for all clients, items, objects and bounds.     *)
(***************************************************************************)
EXTENDS StoreSync, TLAPS

Held == Values \cup {None}
Objects == [items : [Ids -> Held], version : Nat, ready : BOOLEAN, now : Nat]
Changed == [on : Nat, id : Ids, value : Held, version : Nat]
Listeners == [on : Nat, channels : SUBSET Clients]
Requests == [client : Clients, object : 1 .. Budget, frame : Frames, found : Nat]
Waiting == [client : Clients, on : Nat, n : Nat]
Updates == [kind : {"update"}, on : Nat, version : Nat, id : Ids, value : Held]
Contents == [kind : {"content"}, on : Nat, version : Nat, items : [Ids -> Held], n : Nat]
Responses == [to : Clients, body : Updates \cup Contents]
Replicas == [open : BOOLEAN, items : [Ids -> Held], version : Nat, ready : BOOLEAN,
             filling : BOOLEAN, filled : BOOLEAN, cut : BOOLEAN]
Reported == [stamp : Nat, value : Held]

StoreTypes ==
  /\ stores \in Seq(Objects) /\ Len(stores) <= MaxObjects
  /\ current \in {0, Len(stores)}
  /\ commits \in 0 .. MaxChanges
  /\ \A o \in DOMAIN stores :
       stores[o].version \in 1 .. commits + 1 /\ stores[o].now \in o .. Len(stores)
  /\ changes \subseteq Changed
SyncTypes ==
  /\ syncClients \in [Clients -> 0 .. Budget]
  /\ openStores \subseteq Clients \X (1 .. Budget)
  /\ listener \in Listeners \cup {None}
  /\ listener # None => listener.channels # {} /\ listener.on \in DOMAIN stores
  /\ handling \subseteq Requests
  /\ \A q \in handling : q.frame.command = "update" => q.frame.id \in Ids
  /\ \A q \in handling : q.found \in 0 .. Len(stores)
  /\ waiting \subseteq Waiting /\ \A w \in waiting : w.on \in DOMAIN stores
  /\ responses \subseteq Responses
ClientTypes ==
  /\ wire \in [Clients -> Seq(Frames)]
  /\ \A c \in Clients : \A x \in Range(wire[c]) : x.command = "update" => x.id \in Ids
  /\ frames \in [Clients -> 0 .. Budget]
  /\ handled \in [Clients -> Nat] /\ newest \in [Clients -> Nat]
  /\ subscribed \subseteq Clients /\ overtaken \subseteq Clients /\ refused \subseteq Clients
  /\ reordered \subseteq Clients /\ interrupted \subseteq Clients
  /\ replica \in [Clients -> Replicas]
  /\ seen \in [Clients -> [Ids -> Reported]]
Types == StoreTypes /\ SyncTypes /\ ClientTypes

\* Frames of a client are numbered; what the server has of them comes before
\* those on the wire.
Ordered(list) == \A j, k \in DOMAIN list : j < k => list[j].n < list[k].n
OnWire(c) == Range(wire[c])
Past(c, n) == n <= frames[c] /\ \A x \in OnWire(c) : n < x.n
Numbered ==
  /\ \A c \in Clients :
       /\ Ordered(wire[c])
       /\ \A x \in OnWire(c) : x.n <= frames[c]
       /\ Past(c, handled[c]) /\ Past(c, syncClients[c])
  /\ \A p \in openStores : Past(p[1], p[2])
  /\ \A q \in handling : Past(q.client, q.frame.n) /\ Past(q.client, q.object)

\* A request whose channel is gone comes after what its client sent later.
StaleRequests ==
  \A q \in handling : q.object # syncClients[q.client] => q.frame.n < handled[q.client]

\* An open frame later than number n that the sync service has still to handle.
OpenOnWire(c, n) == \E y \in OnWire(c) : y.command = "open" /\ n < y.n
OpenHandling(c, n) ==
  \E p \in handling : p.client = c /\ p.frame.command = "open" /\ n < p.frame.n
Later(c, n) == OpenOnWire(c, n) \/ OpenHandling(c, n)
Pending(c) == Later(c, 0)

\* A client that has had the channel since it opened the store.
Fresh(c) == c \in subscribed /\ replica[c].open /\ ~replica[c].cut

\* The frames on the wire make up for each other: an unsubscribe is followed by
\* a subscribe if the client has the channel, and whatever takes an open away
\* by another one.
ChannelFollows ==
  \A c \in subscribed :
    /\ syncClients[c] # 0 \/ \E y \in OnWire(c) : y.command = "subscribe"
    /\ \A x \in OnWire(c) : x.command = "unsubscribe" =>
         \E y \in OnWire(c) : y.command = "subscribe" /\ x.n < y.n
CutOff == \A c \in Clients : replica[c].open /\ c \notin subscribed => replica[c].cut
OpenFollows ==
  \A c \in Clients : Fresh(c) =>
    \A x \in OnWire(c) : x.command \in {"subscribe", "unsubscribe", "close"} =>
      OpenOnWire(c, x.n)
CloseOvertaken ==
  \A c \in Clients \ overtaken : Fresh(c) =>
    \A q \in handling : q.client = c /\ q.frame.command = "close" =>
      q.frame.n < handled[c] \/ Later(c, q.frame.n)
OpenServed ==
  \A c \in Clients \ (overtaken \cup refused) : Fresh(c) =>
    Pending(c) \/ <<c, syncClients[c]>> \in openStores
Frame == /\ Numbered /\ StaleRequests /\ ListenerServesOpenClients /\ ChannelFollows /\ CutOff
         /\ OpenFollows /\ CloseOvertaken /\ OpenServed

\* A report on item i: what a response or a change says, or what was seen.
Mentions(r, i) == r.kind = "content" \/ r.id = i
ValueOf(r, i) == IF r.kind = "content" THEN r.items[i] ELSE r.value
Report(on, version, value) == [stamp |-> Stamp(on, version), value |-> value]
Says(c, i, x) ==
  \/ x = seen[c][i]
  \/ \E m \in responses : m.to = c /\ Mentions(m.body, i)
                            /\ x = Report(m.body.on, m.body.version, ValueOf(m.body, i))
  \/ \E ch \in changes : ch.id = i /\ x = Report(ch.on, ch.version, ch.value)

\* What is said of the last version of a store is so, unless it was populated since
\* it was said, and its first version is in contents alone.
Genuine(i, on, version, value) ==
  /\ on \in DOMAIN stores /\ version \in 1 .. stores[on].version
  /\ version = stores[on].version => value = stores[on].items[i] \/ on \in silent
  /\ version = 1 => on \in told
AllGenuine ==
  /\ \A m \in responses, i \in Ids :
       Mentions(m.body, i) => Genuine(i, m.body.on, m.body.version, ValueOf(m.body, i))
  /\ \A ch \in changes : Genuine(ch.id, ch.on, ch.version, ch.value)
  /\ \A c \in Clients, i \in Ids :
       \/ seen[c][i] = [stamp |-> 0, value |-> None]
       \/ \E on, version \in Nat :
            /\ seen[c][i] = Report(on, version, seen[c][i].value)
            /\ Genuine(i, on, version, seen[c][i].value)

\* The newest report on an item is of the store the manager has, and so.
Leader(c, i, x) ==
  /\ Says(c, i, x)
  /\ \A y \in Reported : Says(c, i, y) => y.stamp < x.stamp \/ y = x
Leads(c, i) ==
  \E x \in Reported :
    Leader(c, i, x) /\ x.value = stores[current].items[i] /\ x.stamp >= Stamp(current, 1)
ContentFor(c) == \E m \in responses : m.to = c /\ m.body.kind = "content"
Awaits(c) == \E w \in waiting : w.client = c /\ w.on = current
Entitled(c) ==
  /\ Fresh(c) /\ c \notin overtaken /\ c \notin refused /\ ~Pending(c)
  /\ current # 0 /\ current \notin silent /\ listener # None /\ listener.on = current
Filled(c) ==
  /\ stores[current].ready
  /\ \A i \in Ids : Leads(c, i)
  /\ replica[c].filled \/ ContentFor(c)
DataFollows == \A c \in Clients : Entitled(c) => Awaits(c) \/ Filled(c)

\* Content makes a replica ready, and one that takes responses in order keeps
\* what it has seen.
ReplicasFilled ==
  /\ \A c \in Clients : replica[c].filled => replica[c].filling \/ replica[c].ready
  /\ \A c \in Clients \ interrupted :
       replica[c].filling \/ replica[c].ready => replica[c].filled
  /\ \A c \in Clients \ reordered : replica[c].open =>
       \A i \in Ids : seen[c][i].value = replica[c].items[i] /\ seen[c][i].stamp <= newest[c]

IInv == Types /\ Frame /\ AllGenuine /\ DataFollows /\ ReplicasFilled
-----------------------------------------------------------------------------
(***************************************************************************)
(* Frames on their way, versions, and the steps apart.                     *)
(***************************************************************************)
LEMMA AppendFrame ==
  ASSUME NEW list \in Seq(Frames), NEW f \in Frames
  PROVE  /\ Append(list, f) \in Seq(Frames)
         /\ Range(Append(list, f)) = Range(list) \cup {f}
         /\ Ordered(list) /\ (\A x \in Range(list) : x.n < f.n) => Ordered(Append(list, f))
<1>1. /\ DOMAIN list = 1 .. Len(list) /\ Len(list) \in Nat
      /\ DOMAIN Append(list, f) = 1 .. Len(list) + 1
      /\ Append(list, f)[Len(list) + 1] = f
      /\ \A i \in 1 .. Len(list) : Append(list, f)[i] = list[i]
  OBVIOUS
<1>2. \A i \in DOMAIN Append(list, f) : i \in DOMAIN list \/ i = Len(list) + 1
  BY <1>1
<1>3. Range(Append(list, f)) = Range(list) \cup {f}
  BY <1>1, <1>2 DEF Range
<1>4. ASSUME Ordered(list), \A x \in Range(list) : x.n < f.n
      PROVE  Ordered(Append(list, f))
  <2> SUFFICES ASSUME NEW j \in DOMAIN Append(list, f), NEW k \in DOMAIN Append(list, f), j < k
               PROVE  Append(list, f)[j].n < Append(list, f)[k].n
    BY DEF Ordered
  <2>1. j \in DOMAIN list
    BY <1>1
  <2>2. list[j] \in Range(list)
    BY <2>1 DEF Range
  <2>3. CASE k \in DOMAIN list
    BY <1>1, <1>4, <2>1, <2>3 DEF Ordered
  <2>4. CASE k = Len(list) + 1
    BY <1>1, <1>4, <2>1, <2>2, <2>4
  <2> QED
    BY <1>2, <2>3, <2>4
<1> QED
  BY <1>3, <1>4

LEMMA TailFrames ==
  ASSUME NEW list \in Seq(Frames), list # <<>>
  PROVE  /\ Head(list) \in Frames /\ Tail(list) \in Seq(Frames)
         /\ Range(list) = Range(Tail(list)) \cup {Head(list)}
         /\ Ordered(list) =>
              Ordered(Tail(list)) /\ \A x \in Range(Tail(list)) : Head(list).n < x.n
<1>1. /\ DOMAIN list = 1 .. Len(list) /\ Len(list) \in Nat /\ Len(list) > 0
      /\ Head(list) = list[1] /\ Head(list) \in Frames /\ Tail(list) \in Seq(Frames)
      /\ DOMAIN Tail(list) = 1 .. Len(list) - 1
      /\ \A i \in 1 .. Len(list) - 1 : Tail(list)[i] = list[i + 1]
  OBVIOUS
<1>2. \A i \in DOMAIN list : i = 1 \/ (i - 1 \in DOMAIN Tail(list) /\ list[i] = Tail(list)[i - 1])
  BY <1>1
<1>3. \A i \in DOMAIN Tail(list) :
        i + 1 \in DOMAIN list /\ 1 < i + 1 /\ Tail(list)[i] = list[i + 1]
  BY <1>1
<1>4. 1 \in DOMAIN list
  BY <1>1
<1>5. Range(list) = Range(Tail(list)) \cup {Head(list)}
  <2>1. ASSUME NEW i \in DOMAIN list PROVE list[i] \in Range(Tail(list)) \cup {Head(list)}
    <3>1. CASE i = 1
      BY <1>1, <3>1
    <3>2. CASE i - 1 \in DOMAIN Tail(list) /\ list[i] = Tail(list)[i - 1]
      BY <3>2 DEF Range
    <3> QED
      BY <1>2, <3>1, <3>2
  <2>2. \A x \in Range(Tail(list)) : x \in Range(list)
    BY <1>3 DEF Range
  <2>3. Head(list) \in Range(list)
    BY <1>1, <1>4 DEF Range
  <2>4. \A x \in Range(list) : x \in Range(Tail(list)) \cup {Head(list)}
    BY <2>1 DEF Range
  <2> QED
    BY <2>2, <2>3, <2>4
<1>6. ASSUME Ordered(list) PROVE Ordered(Tail(list))
  <2> SUFFICES ASSUME NEW j \in DOMAIN Tail(list), NEW k \in DOMAIN Tail(list), j < k
               PROVE  Tail(list)[j].n < Tail(list)[k].n
    BY DEF Ordered
  <2>1. j + 1 < k + 1
    BY <1>1
  <2> QED
    BY <1>3, <1>6, <2>1 DEF Ordered
<1>7. ASSUME Ordered(list), NEW x \in Range(Tail(list)) PROVE Head(list).n < x.n
  <2>1. PICK i \in DOMAIN Tail(list) : Tail(list)[i] = x
    BY <1>7 DEF Range
  <2> QED
    BY <1>1, <1>3, <1>4, <1>7, <2>1 DEF Ordered
<1> QED
  BY <1>1, <1>5, <1>6, <1>7

\* Later objects, and later versions of an object, have larger stamps.
LEMMA StampOrder ==
  ASSUME NEW o1 \in Nat, NEW o2 \in Nat,
         NEW v1 \in 1 .. MaxChanges + 1, NEW v2 \in 1 .. MaxChanges + 1
  PROVE  /\ Stamp(o1, v1) \in Nat
         /\ o1 < o2 => Stamp(o1, v1) < Stamp(o2, v2)
         /\ v1 < v2 => Stamp(o1, v1) < Stamp(o1, v2)
         /\ v1 <= v2 => Stamp(o1, v1) <= Stamp(o1, v2)
<1> DEFINE M == MaxChanges + 2
<1>1. M \in Nat /\ v1 \in 1 .. M - 1 /\ v2 \in 1 .. M - 1
  BY BoundAssumption
<1>2. Stamp(o1, v1) = o1 * M + v1 /\ Stamp(o1, v2) = o1 * M + v2
        /\ Stamp(o2, v2) = o2 * M + v2
  BY DEF Stamp
<1> HIDE DEF M
<1>3. o1 * M \in Nat /\ o2 * M \in Nat
  BY <1>1
<1>4. ASSUME o1 < o2 PROVE o1 * M + M <= o2 * M
  <2>1. PICK k \in Nat : o2 = o1 + 1 + k
    <3>1. o2 - o1 - 1 \in Nat /\ o2 = o1 + 1 + (o2 - o1 - 1)
      BY <1>4
    <3> QED
      BY <3>1
  <2>2. o2 * M = o1 * M + M + k * M /\ k * M \in Nat
    BY <1>1, <2>1
  <2> QED
    BY <1>1, <1>3, <2>2
<1>5. ASSUME o1 < o2 PROVE Stamp(o1, v1) < Stamp(o2, v2)
  BY <1>1, <1>2, <1>3, <1>4, <1>5
<1> QED
  BY <1>1, <1>2, <1>3, <1>5

LEMMA Steps ==
  ASSUME [Next]_vars
  PROVE  \/ Initialize \/ CreateStore \/ DestroyStore \/ Reset
         \/ \E ch \in changes : Notify(ch)
         \/ \E i \in Ids, v \in Held : PutOrRemove(i, v)
         \/ \E m \in [Ids -> Values] : Populate(m)
         \/ \E q \in handling :
              LookUp(q) \/ FindNone(q) \/ OpenStore(q) \/ CloseStore(q) \/ UpdateStore(q)
         \/ \E w \in waiting : SendContent(w)
         \/ \E m \in responses : TakeResponse(m)
         \/ \E c \in Clients :
              \/ Receive(c) \/ SubscribeChannel(c) \/ UnsubscribeChannel(c)
              \/ OpenGalacticStore(c) \/ ResetGalactic(c) \/ OnDestroy(c)
              \/ InitializeGalactic(c)
              \/ \E i \in Ids, v \in Held : SendUpdateStore(c, i, v)
         \/ UNCHANGED vars
<1>1. ASSUME NEW c \in Clients, NEW i \in Ids,
             RemoveGalactic(c, i) \/ \E v \in Values : PutGalactic(c, i, v)
      PROVE  \E v \in Held : SendUpdateStore(c, i, v)
  BY <1>1, Zenon DEF RemoveGalactic, PutGalactic, Held
<1>2. CASE Next
  BY <1>1, <1>2, Zenon DEF Next, Held
<1>3. CASE UNCHANGED vars
  BY <1>3
<1> QED
  BY <1>2, <1>3
-----------------------------------------------------------------------------
(***************************************************************************)
(* What a change, a frame received and a frame sent do, and types.         *)
(***************************************************************************)
LEMMA Committed ==
  ASSUME StoreTypes, NEW on \in DOMAIN stores, NEW i \in Ids, NEW v \in Held,
         Commit(on, i, v)
  PROVE  /\ stores' \in Seq(Objects) /\ Len(stores') = Len(stores)
         /\ DOMAIN stores' = DOMAIN stores
         /\ \A o \in DOMAIN stores : o # on => stores'[o] = stores[o]
         /\ stores'[on].items = [stores[on].items EXCEPT ![i] = v]
         /\ stores'[on].version = stores[on].version + 1
         /\ stores'[on].ready = stores[on].ready /\ stores'[on].now = stores[on].now
         /\ stores[on].items \in [Ids -> Held]
         /\ commits' = commits + 1 /\ commits' \in 0 .. MaxChanges
         /\ NextVersion(on) \in 1 .. commits' + 1
<1>2. stores[on] \in Objects /\ stores[on].version \in 1 .. commits + 1
  BY DEF StoreTypes
<1>3. commits' = commits + 1 /\ commits' \in 0 .. MaxChanges
  BY BoundAssumption DEF StoreTypes, Commit
<1> DEFINE new == [items |-> [stores[on].items EXCEPT ![i] = v],
                   version |-> NextVersion(on), ready |-> stores[on].ready,
                   now |-> stores[on].now]
<1>4. NextVersion(on) = stores[on].version + 1
        /\ NextVersion(on) \in 1 .. commits' + 1 /\ NextVersion(on) \in Nat
  BY <1>2, <1>3 DEF NextVersion, StoreTypes
<1>5. /\ stores[on].items \in [Ids -> Held] /\ stores[on].ready \in BOOLEAN
      /\ stores[on].now \in Nat
  BY <1>2 DEF Objects
<1>6. new \in Objects
  BY <1>4, <1>5 DEF Objects
<1>7. stores' = [stores EXCEPT ![on] = new]
  <2>1. stores' = [stores EXCEPT ![on].items[i] = v, ![on].version = NextVersion(on)]
    BY DEF Commit
  <2>2. ASSUME NEW r \in Objects, NEW m, NEW n
        PROVE  [[r EXCEPT !.items = m] EXCEPT !.version = n]
                 = [items |-> m, version |-> n, ready |-> r.ready, now |-> r.now]
    <3>1. r = [items |-> r.items, version |-> r.version, ready |-> r.ready, now |-> r.now]
      BY DEF Objects
    <3>2. [r EXCEPT !.items = m]
            = [items |-> m, version |-> r.version, ready |-> r.ready, now |-> r.now]
      BY <3>1
    <3>3. ASSUME NEW x,
                 x = [items |-> m, version |-> r.version, ready |-> r.ready, now |-> r.now]
          PROVE  [x EXCEPT !.version = n]
                   = [items |-> m, version |-> n, ready |-> r.ready, now |-> r.now]
      BY <3>3
    <3> QED
      BY <3>2, <3>3
  <2>3. [[stores[on] EXCEPT !.items = [stores[on].items EXCEPT ![i] = v]]
           EXCEPT !.version = NextVersion(on)] = new
    BY <1>2, <2>2
  <2> HIDE DEF new
  <2> QED
    BY <2>1, <2>3
<1> HIDE DEF new
<1>8. /\ stores' \in Seq(Objects) /\ Len(stores') = Len(stores)
      /\ DOMAIN stores' = DOMAIN stores /\ stores'[on] = new
      /\ \A o \in DOMAIN stores : o # on => stores'[o] = stores[o]
  BY <1>6, <1>7 DEF StoreTypes
<1>9. /\ stores'[on].items = [stores[on].items EXCEPT ![i] = v]
      /\ stores'[on].version = stores[on].version + 1
      /\ stores'[on].ready = stores[on].ready /\ stores'[on].now = stores[on].now
  BY <1>4, <1>8 DEF new
<1> QED
  BY <1>3, <1>4, <1>5, <1>8, <1>9

LEMMA CommittedTypes ==
  ASSUME StoreTypes, NEW on \in DOMAIN stores, NEW i \in Ids, NEW v \in Held,
         Commit(on, i, v), UNCHANGED current
  PROVE  StoreTypes'
<1>1. /\ stores' \in Seq(Objects) /\ Len(stores') = Len(stores)
      /\ DOMAIN stores' = DOMAIN stores
      /\ NextVersion(on) \in 1 .. commits' + 1
      /\ stores'[on].version = NextVersion(on) /\ stores'[on].now = stores[on].now
      /\ \A o \in DOMAIN stores : o # on => stores'[o] = stores[o]
      /\ commits' = commits + 1 /\ commits' \in 0 .. MaxChanges /\ commits \in 0 .. MaxChanges
  BY Committed DEF StoreTypes, NextVersion
<1>2. on \in Nat /\ NextVersion(on) \in Nat
  <2>1. stores \in Seq(Objects)
    BY DEF StoreTypes
  <2>2. DOMAIN stores = 1 .. Len(stores) /\ Len(stores) \in Nat
    BY <2>1
  <2> QED
    BY <1>1, <2>2
<1>3. changes' \subseteq Changed
  BY <1>2 DEF StoreTypes, Commit, Changed
<1>4. ASSUME NEW o \in DOMAIN stores'
      PROVE  stores'[o].version \in 1 .. commits' + 1 /\ stores'[o].now \in o .. Len(stores')
  <2>1. /\ o \in DOMAIN stores /\ stores[o].version \in 1 .. commits + 1
        /\ stores[o].now \in o .. Len(stores)
    BY <1>1 DEF StoreTypes
  <2>2. CASE o = on
    BY <1>1, <2>1, <2>2
  <2>3. CASE o # on
    BY <1>1, <2>1, <2>3
  <2> QED
    BY <2>2, <2>3
<1> QED
  BY <1>1, <1>3, <1>4 DEF StoreTypes

\* What the store is now that a request, a callback or a listener has.
LEMMA NowRule ==
  ASSUME StoreTypes
  PROVE  /\ \A o \in DOMAIN stores :
              stores[o].now \in DOMAIN stores /\ stores[o].now \in Nat /\ o <= stores[o].now
         /\ current # 0 =>
              current \in DOMAIN stores /\ current = Len(stores) /\ stores[current].now = current
<1>1. /\ DOMAIN stores = 1 .. Len(stores) /\ Len(stores) \in Nat
      /\ \A o \in DOMAIN stores : stores[o].now \in o .. Len(stores)
  BY DEF StoreTypes
<1>2. current # 0 => current \in DOMAIN stores /\ current = Len(stores)
  <2>1. current \in {0, Len(stores)}
    BY DEF StoreTypes
  <2> QED
    BY <1>1, <2>1
<1> QED
  BY <1>1, <1>2

LEMMA Received ==
  ASSUME ClientTypes, NEW c \in Clients, Receive(c)
  PROVE  /\ Head(wire[c]) \in Frames /\ Head(wire[c]) \in OnWire(c)
         /\ wire' \in [Clients -> Seq(Frames)]
         /\ OnWire(c) = OnWire(c)' \cup {Head(wire[c])}
         /\ Ordered(wire[c]) =>
              Ordered(wire'[c]) /\ \A x \in OnWire(c)' : Head(wire[c]).n < x.n
         /\ \A d \in Clients : d # c => wire'[d] = wire[d] /\ OnWire(d)' = OnWire(d)
<1>1. wire[c] \in Seq(Frames) /\ wire[c] # <<>>
  BY DEF ClientTypes, Receive
<1>2. /\ wire' = [wire EXCEPT ![c] = Tail(wire[c])]
      /\ wire \in [Clients -> Seq(Frames)]
  BY DEF ClientTypes, Receive
<1>3. wire'[c] = Tail(wire[c]) /\ \A d \in Clients : d # c => wire'[d] = wire[d]
  BY <1>2
<1>4. Tail(wire[c]) \in Seq(Frames)
  BY <1>1, TailFrames
<1>5. wire' \in [Clients -> Seq(Frames)]
  BY <1>2, <1>4
<1> QED
  BY <1>1, <1>3, <1>5, TailFrames DEF OnWire

\* Client c sends frame f.
Sends(c, f) ==
  /\ f \in Frames /\ f.n = frames[c] + 1
  /\ wire' \in [Clients -> Seq(Frames)] /\ frames' \in [Clients -> 0 .. Budget]
  /\ OnWire(c)' = OnWire(c) \cup {f} /\ frames'[c] = frames[c] + 1
  /\ Ordered(wire[c]) /\ (\A x \in OnWire(c) : x.n < f.n) => Ordered(wire'[c])
  /\ \A d \in Clients : d # c =>
       wire'[d] = wire[d] /\ frames'[d] = frames[d] /\ OnWire(d)' = OnWire(d)

LEMMA Sent ==
  ASSUME ClientTypes, NEW c \in Clients, NEW i \in Ids \cup {None}, NEW v \in Held,
         NEW command \in {"subscribe", "unsubscribe", "open", "close", "update"},
         SendFrame(c, command, i, v)
  PROVE  \E f : f.command = command /\ f.id = i /\ Sends(c, f)
<1> DEFINE f == [n |-> frames[c] + 1, command |-> command, id |-> i, value |-> v]
<1>1. /\ wire \in [Clients -> Seq(Frames)] /\ frames \in [Clients -> 0 .. Budget]
      /\ wire' = [wire EXCEPT ![c] = Append(wire[c], f)]
      /\ frames' = [frames EXCEPT ![c] = frames[c] + 1] /\ frames[c] < Budget
  BY DEF ClientTypes, SendFrame
<1>2. frames[c] + 1 \in 1 .. Budget /\ frames[c] + 1 \in 0 .. Budget
  BY <1>1, BoundAssumption
<1>3. f \in Frames /\ f.n = frames[c] + 1 /\ f.command = command /\ f.id = i
  BY <1>2 DEF Frames, Held
<1> HIDE DEF f
<1>4. wire[c] \in Seq(Frames)
  BY <1>1
<1>5. /\ Append(wire[c], f) \in Seq(Frames)
      /\ Range(Append(wire[c], f)) = Range(wire[c]) \cup {f}
      /\ Ordered(wire[c]) /\ (\A x \in Range(wire[c]) : x.n < f.n) =>
           Ordered(Append(wire[c], f))
  BY <1>3, <1>4, AppendFrame
<1>6. wire'[c] = Append(wire[c], f) /\ frames'[c] = frames[c] + 1
  BY <1>1
<1>7. \A d \in Clients : d # c => wire'[d] = wire[d] /\ frames'[d] = frames[d]
  BY <1>1
<1>8. wire' \in [Clients -> Seq(Frames)] /\ frames' \in [Clients -> 0 .. Budget]
  BY <1>1, <1>2, <1>5
<1>9. /\ OnWire(c)' = OnWire(c) \cup {f}
      /\ Ordered(wire[c]) /\ (\A x \in OnWire(c) : x.n < f.n) => Ordered(wire'[c])
  BY <1>5, <1>6 DEF OnWire
<1>10. \A d \in Clients : d # c => OnWire(d)' = OnWire(d)
  BY <1>7 DEF OnWire
<1>11. Sends(c, f)
  BY <1>3, <1>6, <1>7, <1>8, <1>9, <1>10 DEF Sends
<1> QED
  BY <1>3, <1>11

LEMMA TypesInitially == Init => Types
<1> SUFFICES ASSUME Init PROVE Types
  OBVIOUS
<1>1. /\ Empty \in [Ids -> Held] /\ Unseen \in [Ids -> Reported] /\ <<>> \in Seq(Objects)
      /\ <<>> \in Seq(Frames)
  BY DEF Empty, Unseen, Held, Reported
<1>2. NoReplica \in Replicas
  BY <1>1 DEF NoReplica, Replicas
<1>3. StoreTypes
  BY <1>1, BoundAssumption DEF Init, StoreTypes
<1>4. SyncTypes
  BY BoundAssumption DEF Init, SyncTypes
<1>5. /\ wire \in [Clients -> Seq(Frames)] /\ frames \in [Clients -> 0 .. Budget]
      /\ handled \in [Clients -> Nat] /\ newest \in [Clients -> Nat]
      /\ replica \in [Clients -> Replicas] /\ seen \in [Clients -> [Ids -> Reported]]
  BY <1>1, <1>2, BoundAssumption DEF Init
<1>6. \A c \in Clients : wire[c] = <<>> /\ Range(wire[c]) = {}
  BY DEF Init, Range
<1>7. ClientTypes
  BY <1>5, <1>6 DEF Init, ClientTypes
<1> QED
  BY <1>3, <1>4, <1>7 DEF Types

LEMMA PopulatedObject ==
  ASSUME NEW r \in Objects, NEW m, NEW b
  PROVE  [[r EXCEPT !.ready = b] EXCEPT !.items = m]
           = [items |-> m, version |-> r.version, ready |-> b, now |-> r.now]
<1>1. r = [items |-> r.items, version |-> r.version, ready |-> r.ready, now |-> r.now]
  BY DEF Objects
<1>2. [r EXCEPT !.ready = b]
        = [items |-> r.items, version |-> r.version, ready |-> b, now |-> r.now]
  BY <1>1
<1>3. ASSUME NEW x,
             x = [items |-> r.items, version |-> r.version, ready |-> b, now |-> r.now]
      PROVE  [x EXCEPT !.items = m]
               = [items |-> m, version |-> r.version, ready |-> b, now |-> r.now]
  BY <1>3
<1> QED
  BY <1>2, <1>3

\* The steps of the store and its manager.
LEMMA TypesStore ==
  ASSUME Types, 
         \/ Initialize \/ CreateStore \/ DestroyStore \/ Reset
         \/ \E ch \in changes : Notify(ch)
         \/ \E i \in Ids, v \in Held : PutOrRemove(i, v)
         \/ \E m \in [Ids -> Values] : Populate(m)
  PROVE  Types'
<1>1. ASSUME DOMAIN stores \subseteq DOMAIN stores', StoreTypes',
             UNCHANGED <<syncClients, openStores, listener, requestVars>>,
             responses' \subseteq Responses
      PROVE  SyncTypes'
  <2>1. /\ DOMAIN stores = 1 .. Len(stores) /\ Len(stores) \in Nat
        /\ DOMAIN stores' = 1 .. Len(stores') /\ Len(stores') \in Nat
    BY <1>1 DEF Types, StoreTypes
  <2>2. Len(stores) <= Len(stores')
    BY <1>1, <2>1
  <2>3. \A q \in handling' : q.found \in 0 .. Len(stores')
    BY <1>1, <2>1, <2>2 DEF Types, SyncTypes, requestVars
  <2> QED
    BY <1>1, <2>3 DEF Types, SyncTypes, requestVars
<1>2. ASSUME UNCHANGED <<clientVars, takenVars, handledVars>> PROVE ClientTypes'
  BY <1>2 DEF Types, ClientTypes, clientVars, takenVars, handledVars
<1>3. ASSUME current # 0, NEW new \in Objects, stores' = [stores EXCEPT ![current] = new],
             new.version = stores[current].version, new.now = stores[current].now,
             UNCHANGED <<commits, current, changes>>
      PROVE  StoreTypes' /\ DOMAIN stores' = DOMAIN stores
  <2>1. current \in DOMAIN stores /\ stores \in Seq(Objects)
    BY <1>3 DEF Types, StoreTypes
  <2>2. /\ stores' \in Seq(Objects) /\ Len(stores') = Len(stores)
        /\ DOMAIN stores' = DOMAIN stores /\ stores'[current] = new
        /\ \A o \in DOMAIN stores : o # current => stores'[o] = stores[o]
    BY <1>3, <2>1
  <2>3. \A o \in DOMAIN stores' :
          stores'[o].version = stores[o].version /\ stores'[o].now = stores[o].now
    BY <1>3, <2>2
  <2> QED
    BY <1>3, <2>2, <2>3 DEF Types, StoreTypes
<1>4. responses \subseteq Responses
  BY DEF Types, SyncTypes
<1>5. CASE Initialize
  <2>1. stores[current] \in Objects /\ current # 0
    BY <1>5 DEF Types, StoreTypes, Initialize
  <2>2. [stores[current] EXCEPT !.ready = TRUE] \in Objects
          /\ [stores[current] EXCEPT !.ready = TRUE].version = stores[current].version
          /\ [stores[current] EXCEPT !.ready = TRUE].now = stores[current].now
    BY <2>1 DEF Objects
  <2>3. stores' = [stores EXCEPT ![current] = [stores[current] EXCEPT !.ready = TRUE]]
    BY <1>5 DEF Initialize
  <2>4. StoreTypes' /\ DOMAIN stores' = DOMAIN stores
    BY <1>3, <1>5, <2>1, <2>2, <2>3 DEF Initialize
  <2> QED
    BY <1>1, <1>2, <1>4, <1>5, <2>4 DEF Types, Initialize
<1> DEFINE next == Len(stores) + 1
<1>11. next \in Nat /\ next > 0 /\ NewStore(next) \in Objects
         /\ NewStore(next).version = 1 /\ NewStore(next).now = next
  BY DEF NewStore, Objects, Empty, Held, Types, StoreTypes
<1>12. ASSUME NEW old \in Seq(Objects), Len(old) = Len(stores), Len(stores) < MaxObjects,
              \A o \in DOMAIN stores :
                old[o].version = stores[o].version
                  /\ (old[o].now = stores[o].now \/ old[o].now = next),
              stores' = Append(old, NewStore(next)), current' = next,
              UNCHANGED <<commits, changes>>
       PROVE  StoreTypes' /\ DOMAIN stores \subseteq DOMAIN stores'
  <2> HIDE DEF next
  <2>1. DOMAIN stores = 1 .. Len(stores) /\ Len(stores) \in Nat /\ next = Len(stores) + 1
    BY DEF Types, StoreTypes, next
  <2>2. /\ stores' \in Seq(Objects) /\ Len(stores') = next
        /\ DOMAIN stores' = DOMAIN stores \cup {next}
        /\ stores'[next] = NewStore(next)
        /\ \A o \in DOMAIN stores : stores'[o] = old[o]
    BY <1>11, <1>12, <2>1
  <2>3. Len(stores') <= MaxObjects
    BY <1>12, <2>1, <2>2, BoundAssumption
  <2>4. \A o \in DOMAIN stores' :
          stores'[o].version \in 1 .. commits + 1 /\ stores'[o].now \in o .. next
    <3>1. ASSUME NEW o \in DOMAIN stores
          PROVE  stores'[o].version \in 1 .. commits + 1 /\ stores'[o].now \in o .. next
      <4>1. stores[o].version \in 1 .. commits + 1 /\ stores[o].now \in o .. Len(stores)
        BY DEF Types, StoreTypes
      <4> QED
        BY <1>12, <2>1, <2>2, <4>1
    <3>2. 1 \in 1 .. commits + 1
      BY DEF Types, StoreTypes
    <3> QED
      BY <1>11, <2>1, <2>2, <3>1, <3>2
  <2>5. StoreTypes'
    BY <1>12, <2>2, <2>3, <2>4 DEF Types, StoreTypes
  <2> QED
    BY <2>2, <2>5
<1>6. CASE CreateStore
  <2>1. /\ Len(stores) < MaxObjects /\ stores' = Append(stores, NewStore(next))
        /\ current' = next /\ UNCHANGED <<commits, changes>>
        /\ UNCHANGED <<syncClients, openStores, listener, requestVars, clientVars,
                       takenVars, handledVars, responses>>
    BY <1>6 DEF CreateStore
  <2>2. stores \in Seq(Objects)
    BY DEF Types, StoreTypes
  <2>3. StoreTypes' /\ DOMAIN stores \subseteq DOMAIN stores'
    BY <1>12, <2>1, <2>2
  <2> QED
    BY <1>1, <1>2, <1>4, <2>1, <2>3 DEF Types
<1>13. CASE Reset
  <2> DEFINE old == [s \in DOMAIN stores |->
                       IF stores[s].now = current THEN [stores[s] EXCEPT !.now = next]
                                                  ELSE stores[s]]
  <2>1. /\ Len(stores) < MaxObjects /\ stores' = Append(old, NewStore(next))
        /\ current' = next /\ UNCHANGED <<commits, changes>>
        /\ UNCHANGED <<syncClients, openStores, listener, requestVars, clientVars,
                       takenVars, handledVars, responses>>
    BY <1>13 DEF Reset
  <2>2. ASSUME NEW o \in DOMAIN stores
        PROVE  /\ old[o] \in Objects /\ old[o].version = stores[o].version
               /\ old[o].now = stores[o].now \/ old[o].now = next
    <3>1. stores[o] \in Objects
      BY DEF Types, StoreTypes
    <3>2. /\ [stores[o] EXCEPT !.now = next] \in Objects
          /\ [stores[o] EXCEPT !.now = next].version = stores[o].version
          /\ [stores[o] EXCEPT !.now = next].now = next
      BY <1>11, <3>1 DEF Objects
    <3> HIDE DEF next
    <3> QED
      BY <3>1, <3>2
  <2>3. old \in Seq(Objects) /\ Len(old) = Len(stores)
    <3>1. DOMAIN stores = 1 .. Len(stores) /\ Len(stores) \in Nat
      BY DEF Types, StoreTypes
    <3>2. DOMAIN old = 1 .. Len(stores) /\ old \in [1 .. Len(stores) -> Objects]
      BY <2>2, <3>1
    <3> HIDE DEF old
    <3> QED
      BY <3>1, <3>2
  <2> HIDE DEF old
  <2>4. StoreTypes' /\ DOMAIN stores \subseteq DOMAIN stores'
    BY <1>12, <2>1, <2>2, <2>3
  <2> QED
    BY <1>1, <1>2, <1>4, <2>1, <2>4 DEF Types
<1> HIDE DEF next
<1>7. CASE DestroyStore
  <2>1. StoreTypes'
    BY <1>7 DEF Types, StoreTypes, DestroyStore
  <2> QED
    BY <1>1, <1>2, <1>4, <1>7, <2>1 DEF Types, DestroyStore
<1>8. ASSUME NEW ch \in changes, Notify(ch) PROVE Types'
  <2>1. /\ ch \in Changed /\ changes' \subseteq changes
        /\ UNCHANGED <<stores, commits, current, syncClients, openStores, listener,
                       requestVars, clientVars, takenVars, handledVars>>
    BY <1>8 DEF Types, StoreTypes, Notify
  <2>2. StoreTypes'
    BY <2>1 DEF Types, StoreTypes
  <2>3. responses' \subseteq Responses
    <3>1. CASE listener # None /\ listener.on = stores[ch.on].now
      <4> DEFINE r == [kind |-> "update", on |-> ch.on, version |-> ch.version,
                       id |-> ch.id, value |-> ch.value]
      <4>1. r \in Updates
        BY <2>1 DEF Changed, Updates
      <4>2. listener \in Listeners
        BY <3>1 DEF Types, SyncTypes
      <4>3. listener.channels \subseteq Clients
        BY <4>2 DEF Listeners
      <4>4. responses' = responses \cup {[to |-> c, body |-> r] :
                           c \in {d \in listener.channels : syncClients[d] # 0}}
        BY <1>8, <3>1 DEF Notify, Respond
      <4> HIDE DEF r
      <4> QED
        BY <1>4, <4>1, <4>3, <4>4 DEF Responses
    <3>2. CASE ~(listener # None /\ listener.on = stores[ch.on].now)
      BY <1>4, <1>8, <3>2 DEF Notify
    <3> QED
      BY <3>1, <3>2
  <2> QED
    BY <1>1, <1>2, <2>1, <2>2, <2>3 DEF Types
<1>9. ASSUME NEW i \in Ids, NEW v \in Held, PutOrRemove(i, v) PROVE Types'
  <2>1. Commit(current, i, v) /\ StoreTypes /\ current \in DOMAIN stores
          /\ UNCHANGED <<current, syncClients, openStores, listener, requestVars,
                         clientVars, takenVars, handledVars, responses>>
    BY <1>9, NowRule DEF PutOrRemove, Types
  <2>2. StoreTypes' /\ DOMAIN stores' = DOMAIN stores
    BY <2>1, Committed, CommittedTypes
  <2> QED
    BY <1>1, <1>2, <1>4, <2>1, <2>2 DEF Types
<1>10. ASSUME NEW m \in [Ids -> Values], Populate(m) PROVE Types'
  <2> DEFINE r == stores[current]
  <2> DEFINE new == [items |-> m, version |-> r.version, ready |-> TRUE, now |-> r.now]
  <2>1. r \in Objects /\ current # 0 /\ m \in [Ids -> Held]
    BY <1>10, NowRule DEF Populate, Held, Types, StoreTypes
  <2>2. new \in Objects /\ new.version = r.version /\ new.now = r.now
    BY <2>1 DEF Objects
  <2>3. stores' = [stores EXCEPT ![current] = new]
    <3>1. [[r EXCEPT !.ready = TRUE] EXCEPT !.items = m] = new
      BY <2>1, PopulatedObject
    <3>2. stores' = [stores EXCEPT ![current].ready = TRUE, ![current].items = m]
      BY <1>10 DEF Populate
    <3>3. stores \in Seq(Objects) /\ current \in DOMAIN stores
      BY <2>1, NowRule DEF Types, StoreTypes
    <3> HIDE DEF new
    <3> QED
      BY <3>1, <3>2, <3>3
  <2> HIDE DEF new
  <2>4. StoreTypes' /\ DOMAIN stores' = DOMAIN stores
    BY <1>3, <1>10, <2>1, <2>2, <2>3 DEF Populate
  <2> QED
    BY <1>1, <1>2, <1>4, <1>10, <2>4 DEF Types, Populate
<1> QED
  BY <1>5, <1>6, <1>7, <1>8, <1>9, <1>10, <1>13

\* A request that finds no store, and one that finds it.
Refuses(q) == FindNone(q) /\ q.frame.command = "open"
Drops(q) == FindNone(q) /\ q.frame.command = "update"
Found(q) == [client |-> q.client, object |-> q.object, frame |-> q.frame, found |-> current]

LEMMA FoundNone ==
  ASSUME NEW q, FindNone(q)
  PROVE  Refuses(q) \/ Drops(q)
BY DEF FindNone, Handles, Refuses, Drops

LEMMA Dropped ==
  ASSUME NEW q \in handling, Drops(q)
  PROVE  /\ handling' = handling \ {q} /\ q.frame.command = "update"
         /\ UNCHANGED <<serverVars, waiting, clientVars, takenVars, handledVars, responses>>
BY DEF Drops, FindNone, Handles, serverVars, handledVars

LEMMA LookedUp ==
  ASSUME Types, NEW q \in handling, LookUp(q)
  PROVE  /\ handling' = (handling \ {q}) \cup {Found(q)} /\ Found(q) \in Requests
         /\ current \in DOMAIN stores /\ q.frame.command \in {"open", "update"}
         /\ UNCHANGED <<serverVars, waiting, clientVars, takenVars, handledVars, responses>>
<1>1. q \in Requests /\ StoreTypes /\ current # 0
  BY DEF Types, SyncTypes, LookUp
<1>2. current \in DOMAIN stores /\ stores[current].now \in Nat /\ stores[current].now = current
  BY <1>1, NowRule
<1>3. q = [client |-> q.client, object |-> q.object, frame |-> q.frame, found |-> q.found]
        /\ q.client \in Clients /\ q.object \in 1 .. Budget /\ q.frame \in Frames
  BY <1>1 DEF Requests
<1>4. [q EXCEPT !.found = current] = Found(q)
  BY <1>3 DEF Found
<1>5. Found(q) \in Requests
  BY <1>2, <1>3 DEF Found, Requests
<1> QED
  BY <1>2, <1>4, <1>5 DEF LookUp

\* Which request a step handles, and what it leaves as it is.
LEMMA Handled ==
  ASSUME Types, NEW q \in handling, OpenStore(q) \/ CloseStore(q) \/ Refuses(q)
  PROVE  /\ q \in Requests /\ q.client \in Clients /\ q.frame \in Frames
         /\ q.object \in 1 .. Budget /\ q.frame.n \in 1 .. Budget
         /\ handling' = handling \ {q}
         /\ IF q.frame.n < handled[q.client]
            THEN overtaken' = overtaken \cup {q.client} /\ handled' = handled
            ELSE /\ handled' = [handled EXCEPT ![q.client] = q.frame.n]
                 /\ overtaken' = overtaken
         /\ UNCHANGED <<stores, commits, current, changes, toldVars, syncClients, clientVars,
                        takenVars, responses>>
<1>1. q \in Requests
  BY DEF Types, SyncTypes
<1>2. q.client \in Clients /\ q.frame \in Frames /\ q.object \in 1 .. Budget
  BY <1>1 DEF Requests
<1>3. q.frame.n \in 1 .. Budget
  BY <1>2 DEF Frames
<1>4. Handles(q, {"open"}) \/ Handles(q, {"close"}) \/ Handles(q, {"open", "update"})
  BY DEF OpenStore, CloseStore, Refuses, FindNone
<1>5. q.frame.command # "update"
  BY DEF OpenStore, CloseStore, Refuses, Handles
<1> QED
  BY <1>1, <1>2, <1>3, <1>4, <1>5 DEF Handles

\* A client that joins the listener or leaves it.
LEMMA Joined ==
  ASSUME NEW on \in Nat, NEW l \in Listeners \cup {None}, NEW c \in Clients
  PROVE  /\ AddChannel(l, on, c) \in Listeners /\ AddChannel(l, on, c) # None
         /\ AddChannel(l, on, c).on = IF l = None THEN on ELSE l.on
         /\ AddChannel(l, on, c).channels = IF l = None THEN {c} ELSE l.channels \cup {c}
<1>2. CASE l = None
  BY <1>2, NoneAssumption DEF AddChannel, Listeners
<1>3. CASE l # None
  BY <1>3, NoneAssumption DEF AddChannel, Listeners
<1> QED
  BY <1>2, <1>3

\* What the store of a request is, and the listener it joins.
LEMMA Opened ==
  ASSUME Types, NEW q \in handling, OpenStore(q)
  PROVE  \E on, now \in DOMAIN stores :
           /\ now = stores[q.found].now /\ on <= now
           /\ openStores' = openStores \cup {<<q.client, q.object>>}
           /\ listener' = AddChannel(listener, on, q.client)
           /\ listener' \in Listeners /\ listener' # None
           /\ listener'.on = IF listener = None THEN on ELSE listener.on
           /\ listener'.channels = IF listener = None THEN {q.client}
                                   ELSE listener.channels \cup {q.client}
           /\ waiting' = waiting \cup {[client |-> q.client, on |-> now, n |-> q.frame.n]}
           /\ refused' = IF now = current THEN refused \ {q.client}
                                          ELSE refused \cup {q.client}
<1>1. StoreTypes /\ q.found \in 0 .. Len(stores) /\ q.found # 0 /\ q.client \in Clients
        /\ listener \in Listeners \cup {None}
  BY DEF Types, SyncTypes, Requests, OpenStore
<1>2. DOMAIN stores = 1 .. Len(stores) /\ Len(stores) \in Nat
  BY <1>1 DEF StoreTypes
<1>3. q.found \in DOMAIN stores
  BY <1>1, <1>2
<1>4. stores[q.found].now \in DOMAIN stores
  BY <1>1, <1>3, NowRule
<1>5. PICK on \in DOMAIN stores :
        on <= stores[q.found].now /\ listener' = AddChannel(listener, on, q.client)
  BY DEF OpenStore
<1>6. on \in Nat
  BY <1>2
<1> DEFINE joined == AddChannel(listener, on, q.client)
<1>9. /\ joined \in Listeners /\ joined # None
      /\ joined.on = IF listener = None THEN on ELSE listener.on
      /\ joined.channels = IF listener = None THEN {q.client}
                          ELSE listener.channels \cup {q.client}
  BY <1>1, <1>6, Joined
<1>10. listener' = joined
  BY <1>5
<1> HIDE DEF joined
<1>7. /\ listener' \in Listeners /\ listener' # None
      /\ listener'.on = IF listener = None THEN on ELSE listener.on
      /\ listener'.channels = IF listener = None THEN {q.client}
                              ELSE listener.channels \cup {q.client}
  BY <1>9, <1>10
<1> DEFINE now == stores[q.found].now
<1>8. /\ openStores' = openStores \cup {<<q.client, q.object>>}
      /\ waiting' = waiting \cup {[client |-> q.client, on |-> now, n |-> q.frame.n]}
      /\ refused' = IF now = current THEN refused \ {q.client} ELSE refused \cup {q.client}
  BY DEF OpenStore
<1> QED
  BY <1>4, <1>5, <1>7, <1>8

LEMMA Left ==
  ASSUME NEW l \in Listeners \cup {None}, NEW c \in Clients
  PROVE  /\ WithoutChannel(l, c) \in Listeners \cup {None}
         /\ WithoutChannel(l, c) # None =>
              /\ l # None /\ WithoutChannel(l, c).on = l.on
              /\ WithoutChannel(l, c).channels = l.channels \ {c}
              /\ WithoutChannel(l, c).channels # {}
         /\ WithoutChannel(l, c) = None /\ l # None => l.channels \subseteq {c}
<1>1. CASE l = None \/ l.channels \subseteq {c}
  BY <1>1 DEF WithoutChannel
<1>2. CASE ~(l = None \/ l.channels \subseteq {c})
  <2>1. l \in Listeners
    BY <1>2
  <2>2. WithoutChannel(l, c) = [l EXCEPT !.channels = l.channels \ {c}]
    BY <1>2 DEF WithoutChannel
  <2>3. /\ WithoutChannel(l, c) \in Listeners /\ WithoutChannel(l, c).on = l.on
        /\ WithoutChannel(l, c).channels = l.channels \ {c}
    BY <2>1, <2>2 DEF Listeners
  <2>4. l.channels \ {c} # {}
    BY <1>2
  <2> QED
    BY <1>2, <2>1, <2>3, <2>4, NoneAssumption DEF Listeners
<1> QED
  BY <1>1, <1>2

LEMMA TypesRequests ==
  ASSUME Types,
         \/ \E q \in handling :
              LookUp(q) \/ FindNone(q) \/ OpenStore(q) \/ CloseStore(q) \/ UpdateStore(q)
         \/ \E w \in waiting : SendContent(w)
  PROVE  Types'
<1>1. ASSUME NEW q \in handling, OpenStore(q) \/ CloseStore(q) \/ Refuses(q)
      PROVE  StoreTypes' /\ ClientTypes'
  <2>1. UNCHANGED <<stores, commits, current, changes, syncClients, clientVars, takenVars, responses>>
    BY <1>1, Handled
  <2>2. StoreTypes'
    BY <2>1 DEF Types, StoreTypes
  <2>3. /\ overtaken' \subseteq overtaken \cup {q.client} /\ q.client \in Clients
        /\ handled' \in [Clients -> Nat]
    <3>1. /\ q.client \in Clients /\ q.frame.n \in Nat /\ handled \in [Clients -> Nat]
          /\ \/ overtaken' = overtaken \cup {q.client} /\ handled' = handled
             \/ overtaken' = overtaken /\ handled' = [handled EXCEPT ![q.client] = q.frame.n]
      BY <1>1, Handled DEF Types, ClientTypes
    <3> QED
      BY <3>1
  <2>4. refused' \subseteq refused \cup {q.client}
    <3>1. CASE OpenStore(q)
      BY <3>1, Opened
    <3>2. CASE CloseStore(q) \/ Refuses(q)
      BY <3>2 DEF CloseStore, Refuses, FindNone
    <3> QED
      BY <1>1, <3>1, <3>2
  <2>5. ClientTypes'
    BY <2>1, <2>3, <2>4 DEF Types, ClientTypes, clientVars, takenVars
  <2> QED
    BY <2>2, <2>5
<1>2. ASSUME NEW q \in handling, OpenStore(q) PROVE SyncTypes'
  <2>1. /\ q \in Requests /\ q.client \in Clients /\ q.object \in 1 .. Budget
        /\ q.frame.n \in 1 .. Budget /\ handling' = handling \ {q}
        /\ UNCHANGED <<stores, current, syncClients, responses>>
    BY <1>2, Handled
  <2>2. PICK on, now \in DOMAIN stores :
          /\ openStores' = openStores \cup {<<q.client, q.object>>}
          /\ listener' \in Listeners /\ q.client \in listener'.channels
          /\ listener'.on = IF listener = None THEN on ELSE listener.on
          /\ waiting' = waiting \cup {[client |-> q.client, on |-> now, n |-> q.frame.n]}
    <3>1. ASSUME NEW l \in Listeners \cup {None}
          PROVE  q.client \in IF l = None THEN {q.client} ELSE l.channels \cup {q.client}
      OBVIOUS
    <3> QED
      BY <1>2, <3>1, Opened DEF Types, SyncTypes
  <2>3. DOMAIN stores = 1 .. Len(stores) /\ Len(stores) \in Nat
    BY DEF Types, StoreTypes
  <2>4. [client |-> q.client, on |-> now, n |-> q.frame.n] \in Waiting
    BY <2>1, <2>3 DEF Waiting
  <2>5. listener'.on \in DOMAIN stores
    BY <2>2 DEF Types, SyncTypes
  <2>6. \A w \in waiting' : w.on \in DOMAIN stores
    BY <2>2 DEF Types, SyncTypes
  <2> QED
    BY <2>1, <2>2, <2>4, <2>5, <2>6 DEF Types, SyncTypes
<1>6. ASSUME NEW q \in handling, Refuses(q) PROVE SyncTypes'
  <2>1. /\ handling' = handling \ {q}
        /\ UNCHANGED <<stores, syncClients, responses>>
    BY <1>6, Handled
  <2>2. UNCHANGED <<openStores, listener, waiting>>
    BY <1>6 DEF Refuses, FindNone
  <2> QED
    BY <2>1, <2>2 DEF Types, SyncTypes
<1>7. ASSUME NEW q \in handling, Drops(q) PROVE Types'
  <2>1. /\ handling' = handling \ {q}
        /\ UNCHANGED <<serverVars, waiting, clientVars, takenVars, handledVars, responses>>
    BY <1>7, Dropped
  <2>2. SyncTypes'
    BY <2>1 DEF Types, SyncTypes, serverVars
  <2>3. StoreTypes'
    BY <2>1 DEF Types, StoreTypes, serverVars
  <2>4. ClientTypes'
    BY <2>1 DEF Types, ClientTypes, clientVars, takenVars, handledVars
  <2> QED
    BY <2>2, <2>3, <2>4 DEF Types
<1>8. ASSUME NEW q \in handling, LookUp(q) PROVE Types'
  <2>1. /\ handling' = (handling \ {q}) \cup {Found(q)} /\ Found(q) \in Requests
        /\ current \in DOMAIN stores
        /\ UNCHANGED <<serverVars, waiting, clientVars, takenVars, handledVars, responses>>
    BY <1>8, LookedUp
  <2>2. Found(q).frame = q.frame /\ Found(q).found = current
    BY DEF Found
  <2>3. current \in 0 .. Len(stores)
    BY <2>1 DEF Types, StoreTypes
  <2>4. SyncTypes'
    BY <2>1, <2>2, <2>3 DEF Types, SyncTypes, serverVars
  <2>5. StoreTypes'
    BY <2>1 DEF Types, StoreTypes, serverVars
  <2>6. ClientTypes'
    BY <2>1 DEF Types, ClientTypes, clientVars, takenVars, handledVars
  <2> QED
    BY <2>4, <2>5, <2>6 DEF Types
<1>3. ASSUME NEW q \in handling, CloseStore(q) PROVE SyncTypes'
  <2>1. /\ q.client \in Clients /\ handling' = handling \ {q}
        /\ UNCHANGED <<stores, current, syncClients, responses>>
    BY <1>3, Handled
  <2>2. /\ openStores' \subseteq openStores /\ UNCHANGED waiting
        /\ listener' = WithoutChannel(listener, q.client)
    BY <1>3 DEF CloseStore
  <2>3. /\ listener' \in Listeners \cup {None}
        /\ listener' # None => listener'.channels # {} /\ listener'.on \in DOMAIN stores
    BY <2>1, <2>2, Left DEF Types, SyncTypes
  <2> QED
    BY <2>1, <2>2, <2>3 DEF Types, SyncTypes
<1>4. ASSUME NEW q \in handling, UpdateStore(q) PROVE Types'
  <2>1. /\ handling' = handling \ {q}
        /\ UNCHANGED <<current, syncClients, openStores, listener, waiting,
                       clientVars, takenVars, handledVars, responses>>
    BY <1>4 DEF UpdateStore
  <2>2. q.frame \in Frames /\ q.frame.command = "update"
    BY <1>4 DEF Types, SyncTypes, Requests, UpdateStore
  <2>3. q.frame.id \in Ids /\ q.frame.value \in Held
    BY <2>2 DEF Types, SyncTypes, Frames, Held
  <2> DEFINE on == stores[q.found].now
  <2>7. on \in DOMAIN stores
    <3>1. q.found \in 0 .. Len(stores) /\ q.found # 0 /\ StoreTypes
      BY <1>4 DEF Types, SyncTypes, UpdateStore
    <3>2. DOMAIN stores = 1 .. Len(stores) /\ Len(stores) \in Nat
      BY <3>1 DEF StoreTypes
    <3> QED
      BY <3>1, <3>2, NowRule
  <2>4. StoreTypes' /\ DOMAIN stores' = DOMAIN stores /\ Len(stores') = Len(stores)
    <3>1. Commit(on, q.frame.id, q.frame.value) \/ UNCHANGED <<stores, commits, changes>>
      BY <1>4 DEF UpdateStore
    <3> HIDE DEF on
    <3>2. CASE Commit(on, q.frame.id, q.frame.value)
      BY <2>1, <2>3, <2>7, <3>2, Committed, CommittedTypes DEF Types
    <3>3. CASE UNCHANGED <<stores, commits, changes>>
      BY <2>1, <3>3 DEF Types, StoreTypes
    <3> QED
      BY <3>1, <3>2, <3>3
  <2>5. SyncTypes'
    BY <2>1, <2>4 DEF Types, SyncTypes
  <2>6. ClientTypes'
    BY <2>1 DEF Types, ClientTypes, clientVars, takenVars, handledVars
  <2> QED
    BY <2>4, <2>5, <2>6 DEF Types
<1>5. ASSUME NEW w \in waiting, SendContent(w) PROVE Types'
  <2> DEFINE now == stores[w.on].now
             r == [kind |-> "content", on |-> now, version |-> stores[now].version,
                   items |-> stores[now].items, n |-> w.n]
  <2>1. /\ waiting' \subseteq waiting
        /\ responses' = responses \cup {[to |-> c, body |-> r] :
                                          c \in {d \in {w.client} : syncClients[d] # 0}}
        /\ UNCHANGED <<stores, commits, current, changes, syncClients, openStores, listener,
                       handling, clientVars, takenVars, handledVars>>
    BY <1>5 DEF SendContent, Respond
  <2>2. w.client \in Clients /\ w.n \in Nat /\ w.on \in DOMAIN stores /\ StoreTypes
    BY DEF Types, SyncTypes, Waiting
  <2>9. now \in DOMAIN stores /\ now \in Nat
    BY <2>2, NowRule
  <2> HIDE DEF now
  <2>3. stores[now] \in Objects
    BY <2>2, <2>9 DEF StoreTypes
  <2>4. r \in Contents
    BY <2>2, <2>3, <2>9 DEF Contents, Objects
  <2> HIDE DEF r
  <2>5. responses' \subseteq Responses
    BY <2>1, <2>2, <2>4 DEF Types, SyncTypes, Responses
  <2>6. SyncTypes'
    BY <2>1, <2>5 DEF Types, SyncTypes
  <2>7. StoreTypes'
    BY <2>1 DEF Types, StoreTypes
  <2>8. ClientTypes'
    BY <2>1 DEF Types, ClientTypes, clientVars, takenVars, handledVars
  <2> QED
    BY <2>6, <2>7, <2>8 DEF Types
<1> QED
  BY <1>1, <1>2, <1>3, <1>4, <1>5, <1>6, <1>7, <1>8, FoundNone DEF Types

\* What a client takes from a response.
Takes(c) == c \in subscribed /\ replica[c].open
Taking(c, r) ==
  LET old == replica[c]
  IN  [open |-> old.open, version |-> r.version, ready |-> old.ready, cut |-> old.cut,
       items |-> IF r.kind = "content" THEN r.items ELSE [old.items EXCEPT ![r.id] = r.value],
       filling |-> old.filling \/ r.kind = "content",
       filled |-> old.filled \/ r.kind = "content"]
SeenAfter(c, r, i) ==
  IF Mentions(r, i) /\ Stamp(r.on, r.version) >= seen[c][i].stamp
  THEN Report(r.on, r.version, ValueOf(r, i)) ELSE seen[c][i]

LEMMA Response ==
  ASSUME NEW r \in Updates \cup Contents
  PROVE  /\ r.on \in Nat /\ r.version \in Nat /\ Stamp(r.on, r.version) \in Nat
         /\ r.kind \in {"update", "content"}
         /\ r.kind = "content" => r.items \in [Ids -> Held]
         /\ r.kind # "content" => r.id \in Ids /\ r.value \in Held
         /\ \A i \in Ids : Mentions(r, i) => ValueOf(r, i) \in Held
<1>1. r.on \in Nat /\ r.version \in Nat /\ r.kind \in {"update", "content"}
  BY DEF Updates, Contents
<1>2. /\ r.kind = "content" => r.items \in [Ids -> Held]
      /\ r.kind # "content" => r.id \in Ids /\ r.value \in Held
  BY DEF Updates, Contents
<1>3. \A i \in Ids : Mentions(r, i) => ValueOf(r, i) \in Held
  BY <1>2 DEF Mentions, ValueOf
<1>4. Stamp(r.on, r.version) \in Nat
  <2>1. r.on * (MaxChanges + 2) \in Nat
    BY <1>1, BoundAssumption
  <2> QED
    BY <1>1, <2>1 DEF Stamp
<1> QED
  BY <1>1, <1>2, <1>3, <1>4

LEMMA Took ==
  ASSUME Types, NEW m \in responses, TakeResponse(m)
  PROVE  /\ m.to \in Clients /\ m.body \in Updates \cup Contents
         /\ responses' = responses \ {m}
         /\ Takes(m.to) =>
              /\ replica' = [replica EXCEPT ![m.to] = Taking(m.to, m.body)]
              /\ newest' = [newest EXCEPT ![m.to] =
                   IF Stamp(m.body.on, m.body.version) > newest[m.to]
                   THEN Stamp(m.body.on, m.body.version) ELSE newest[m.to]]
              /\ seen' = [seen EXCEPT ![m.to] = [i \in Ids |-> SeenAfter(m.to, m.body, i)]]
              /\ reordered' = IF Stamp(m.body.on, m.body.version) < newest[m.to]
                              THEN reordered \cup {m.to} ELSE reordered
         /\ ~Takes(m.to) => UNCHANGED <<replica, newest, reordered, seen>>
         /\ UNCHANGED <<serverVars, requestVars, handledVars, subscribed, wire, frames,
                        interrupted>>
<1> DEFINE c == m.to
           r == m.body
<1>1. c \in Clients /\ r \in Updates \cup Contents
  BY DEF Types, SyncTypes, Responses
<1>2. CASE Takes(c)
  <2> DEFINE its == IF r.kind = "content" THEN r.items
                    ELSE [replica[c].items EXCEPT ![r.id] = r.value]
             loading == replica[c].filling \/ r.kind = "content"
             has == replica[c].filled \/ r.kind = "content"
  <2>1. replica' = [replica EXCEPT ![c].version = r.version, ![c].items = its,
                                   ![c].filling = loading, ![c].filled = has]
    BY <1>2 DEF TakeResponse, Takes, Initializes
  <2>2. replica \in [Clients -> Replicas]
    BY DEF Types, ClientTypes
  <2>3. ASSUME NEW old \in Replicas, NEW v, NEW t, NEW l, NEW h
        PROVE  [[[[old EXCEPT !.version = v] EXCEPT !.items = t] EXCEPT !.filling = l]
                  EXCEPT !.filled = h]
                 = [open |-> old.open, version |-> v, ready |-> old.ready, cut |-> old.cut,
                    items |-> t, filling |-> l, filled |-> h]
    <3>1. old = [open |-> old.open, version |-> old.version, ready |-> old.ready,
                 cut |-> old.cut, items |-> old.items, filling |-> old.filling,
                 filled |-> old.filled]
      BY DEF Replicas
    <3>2. [old EXCEPT !.version = v]
            = [open |-> old.open, version |-> v, ready |-> old.ready,
               cut |-> old.cut, items |-> old.items, filling |-> old.filling,
               filled |-> old.filled]
      BY <3>1
    <3>3. ASSUME NEW x, x = [open |-> old.open, version |-> v, ready |-> old.ready,
                             cut |-> old.cut, items |-> old.items, filling |-> old.filling,
                             filled |-> old.filled]
          PROVE  [x EXCEPT !.items = t]
                   = [open |-> old.open, version |-> v, ready |-> old.ready,
                      cut |-> old.cut, items |-> t, filling |-> old.filling,
                      filled |-> old.filled]
      BY <3>3
    <3>4. ASSUME NEW x, x = [open |-> old.open, version |-> v, ready |-> old.ready,
                             cut |-> old.cut, items |-> t, filling |-> old.filling,
                             filled |-> old.filled]
          PROVE  [x EXCEPT !.filling = l]
                   = [open |-> old.open, version |-> v, ready |-> old.ready,
                      cut |-> old.cut, items |-> t, filling |-> l, filled |-> old.filled]
      BY <3>4
    <3>5. ASSUME NEW x, x = [open |-> old.open, version |-> v, ready |-> old.ready,
                             cut |-> old.cut, items |-> t, filling |-> l,
                             filled |-> old.filled]
          PROVE  [x EXCEPT !.filled = h]
                   = [open |-> old.open, version |-> v, ready |-> old.ready,
                      cut |-> old.cut, items |-> t, filling |-> l, filled |-> h]
      BY <3>5
    <3> QED
      BY <3>2, <3>3, <3>4, <3>5
  <2>4. Taking(c, r) = [open |-> replica[c].open, version |-> r.version,
                        ready |-> replica[c].ready, cut |-> replica[c].cut,
                        items |-> its, filling |-> loading, filled |-> has]
    BY DEF Taking
  <2> HIDE DEF its, loading, has
  <2>5. replica' = [replica EXCEPT ![c] = Taking(c, r)]
    <3>1. replica[c] \in Replicas
      BY <1>1, <2>2
    <3>2. PICK l, h : l = loading /\ h = has
      OBVIOUS
    <3>3. [[[[replica[c] EXCEPT !.version = r.version] EXCEPT !.items = its]
              EXCEPT !.filling = l] EXCEPT !.filled = h]
            = [open |-> replica[c].open, version |-> r.version, ready |-> replica[c].ready,
               cut |-> replica[c].cut, items |-> its, filling |-> l, filled |-> h]
      BY <2>3, <3>1
    <3>4. replica' = [replica EXCEPT ![c].version = r.version, ![c].items = its,
                                     ![c].filling = l, ![c].filled = h]
      BY <2>1, <3>2
    <3>5. replica' = [replica EXCEPT ![c] =
             [[[[replica[c] EXCEPT !.version = r.version] EXCEPT !.items = its]
                 EXCEPT !.filling = l] EXCEPT !.filled = h]]
      BY <1>1, <2>2, <3>4
    <3>6. Taking(c, r) = [open |-> replica[c].open, version |-> r.version,
                          ready |-> replica[c].ready, cut |-> replica[c].cut,
                          items |-> its, filling |-> l, filled |-> h]
      BY <2>4, <3>2
    <3> QED
      BY <3>3, <3>5, <3>6
  <2>6. Taken(c, r)
    BY <1>2 DEF TakeResponse, Takes
  <2>7. seen' = [seen EXCEPT ![c] = [i \in Ids |-> SeenAfter(c, r, i)]]
    <3>1. \A i \in Ids : (r.kind = "content" \/ i = r.id) <=> Mentions(r, i)
      BY DEF Mentions
    <3>2. seen \in [Clients -> [Ids -> Reported]]
      BY DEF Types, ClientTypes
    <3>3. seen' = [seen EXCEPT ![c] = [i \in Ids |->
             IF (r.kind = "content" \/ i = r.id) /\ Stamp(r.on, r.version) >= seen[c][i].stamp
             THEN [stamp |-> Stamp(r.on, r.version),
                   value |-> IF r.kind = "content" THEN r.items[i] ELSE r.value]
             ELSE seen[c][i]]]
      BY <2>6 DEF Taken
    <3> QED
      BY <3>1, <3>2, <3>3 DEF SeenAfter, Report, ValueOf, Mentions
  <2>8. /\ newest' = [newest EXCEPT ![c] = IF Stamp(r.on, r.version) > newest[c]
                                           THEN Stamp(r.on, r.version) ELSE newest[c]]
        /\ reordered' = IF Stamp(r.on, r.version) < newest[c]
                        THEN reordered \cup {c} ELSE reordered
    BY <2>6 DEF Taken
  <2> QED
    BY <1>1, <1>2, <2>5, <2>7, <2>8 DEF TakeResponse
<1>3. CASE ~Takes(c)
  BY <1>1, <1>3 DEF TakeResponse, Takes
<1> QED
  BY <1>2, <1>3

LEMMA TypesTaken ==
  ASSUME Types, NEW m \in responses, TakeResponse(m)
  PROVE  Types'
<1> DEFINE c == m.to
           r == m.body
<1>1. /\ c \in Clients /\ r \in Updates \cup Contents /\ responses' \subseteq responses
      /\ UNCHANGED <<serverVars, requestVars, handledVars, subscribed, wire, frames,
                     interrupted>>
  BY Took
<1>2. StoreTypes' /\ SyncTypes'
  BY <1>1 DEF Types, StoreTypes, SyncTypes, serverVars, requestVars
<1>3. /\ replica \in [Clients -> Replicas] /\ newest \in [Clients -> Nat]
      /\ seen \in [Clients -> [Ids -> Reported]] /\ reordered \subseteq Clients
  BY DEF Types, ClientTypes
<1>4. /\ replica' \in [Clients -> Replicas] /\ newest' \in [Clients -> Nat]
      /\ seen' \in [Clients -> [Ids -> Reported]] /\ reordered' \subseteq Clients
  <2>1. CASE Takes(c)
    <3>1. replica[c] \in Replicas
      BY <1>1, <1>3
    <3>2. Taking(c, r) \in Replicas
      <4>1. [replica[c].items EXCEPT ![r.id] = r.value] \in [Ids -> Held] \/ r.kind = "content"
        BY <1>1, <3>1, Response DEF Replicas
      <4>2. r.kind = "content" => r.items \in [Ids -> Held]
        BY <1>1, Response
      <4>3. (IF r.kind = "content" THEN r.items ELSE [replica[c].items EXCEPT ![r.id] = r.value])
              \in [Ids -> Held]
        BY <4>1, <4>2
      <4>4. /\ replica[c].open \in BOOLEAN /\ replica[c].ready \in BOOLEAN
            /\ replica[c].cut \in BOOLEAN /\ r.version \in Nat
        BY <1>1, <3>1, Response DEF Replicas
      <4> QED
        BY <4>3, <4>4 DEF Taking, Replicas
    <3>3. \A i \in Ids : SeenAfter(c, r, i) \in Reported
      BY <1>1, <1>3, Response DEF SeenAfter, Report, Reported
    <3>4. Stamp(r.on, r.version) \in Nat
      BY <1>1, Response
    <3>5. /\ replica' = [replica EXCEPT ![c] = Taking(c, r)]
          /\ newest' = [newest EXCEPT ![c] = IF Stamp(r.on, r.version) > newest[c]
                                             THEN Stamp(r.on, r.version) ELSE newest[c]]
          /\ seen' = [seen EXCEPT ![c] = [i \in Ids |-> SeenAfter(c, r, i)]]
          /\ reordered' \subseteq reordered \cup {c}
      BY <2>1, Took
    <3>6. [i \in Ids |-> SeenAfter(c, r, i)] \in [Ids -> Reported]
      BY <3>3
    <3> QED
      BY <1>1, <1>3, <3>2, <3>4, <3>5, <3>6
  <2>2. CASE ~Takes(c)
    BY <1>3, <2>2, Took
  <2> QED
    BY <2>1, <2>2
<1>5. ClientTypes'
  BY <1>1, <1>4 DEF Types, ClientTypes, handledVars
<1> QED
  BY <1>2, <1>5 DEF Types

LEMMA TypesReceived ==
  ASSUME Types, NEW c \in Clients, Receive(c)
  PROVE  Types'
<1> DEFINE f == Head(wire[c])
<1>1. /\ f \in Frames /\ f \in OnWire(c) /\ wire' \in [Clients -> Seq(Frames)]
      /\ OnWire(c) = OnWire(c)' \cup {f}
      /\ \A d \in Clients : d # c => OnWire(d)' = OnWire(d)
  BY Received DEF Types
<1>2. f.n \in 1 .. Budget /\ f.n \in Nat
  BY <1>1 DEF Frames
<1>3. /\ UNCHANGED <<stores, commits, current, changes, toldVars, waiting, subscribed, replica,
                     frames, takenVars, overtaken, refused, responses>>
      /\ \/ OpenChannel(c, f.n) /\ handled' = [handled EXCEPT ![c] = f.n]
         \/ CloseChannel(c) /\ handled' = [handled EXCEPT ![c] = f.n]
         \/ StartRequest(c, f) /\ handled' = handled
  BY DEF Receive
<1> HIDE DEF f
<1>4. StoreTypes'
  BY <1>3 DEF Types, StoreTypes
<1>5. ClientTypes'
  <2>1. handled' \in [Clients -> Nat]
    BY <1>2, <1>3 DEF Types, ClientTypes
  <2>2. \A d \in Clients : \A x \in Range(wire'[d]) : x.command = "update" => x.id \in Ids
    BY <1>1 DEF Types, ClientTypes, OnWire
  <2> QED
    BY <1>1, <1>3, <2>1, <2>2 DEF Types, ClientTypes, takenVars
<1>6. SyncTypes'
  <2>1. syncClients \in [Clients -> 0 .. Budget] /\ 0 \in 0 .. Budget /\ f.n \in 0 .. Budget
    BY <1>2, BoundAssumption DEF Types, SyncTypes
  <2>2. CASE OpenChannel(c, f.n)
    <3>1. /\ syncClients' = [syncClients EXCEPT ![c] = IF syncClients[c] = 0 THEN f.n
                                                       ELSE syncClients[c]]
          /\ UNCHANGED <<openStores, listener, handling>>
      BY <2>2 DEF OpenChannel
    <3>2. syncClients' \in [Clients -> 0 .. Budget]
      BY <2>1, <3>1
    <3> QED
      BY <1>3, <3>1, <3>2 DEF Types, SyncTypes
  <2>3. CASE CloseChannel(c)
    <3>1. /\ syncClients' = [syncClients EXCEPT ![c] = 0] /\ UNCHANGED handling
          /\ \/ listener' = WithoutChannel(listener, c) /\ openStores' \subseteq openStores
             \/ UNCHANGED <<openStores, listener>>
      BY <2>3 DEF CloseChannel, CloseClientSyncChannel
    <3>2. syncClients' \in [Clients -> 0 .. Budget]
      BY <2>1, <3>1
    <3>3. /\ listener' \in Listeners \cup {None}
          /\ listener' # None => listener'.channels # {} /\ listener'.on \in DOMAIN stores
          /\ openStores' \subseteq openStores
      BY <3>1, Left DEF Types, SyncTypes
    <3> QED
      BY <1>3, <3>1, <3>2, <3>3 DEF Types, SyncTypes
  <2>4. CASE StartRequest(c, f) /\ handled' = handled
    <3> DEFINE q == [client |-> c, object |-> syncClients[c], frame |-> f,
                    found |-> 0]
    <3>1. /\ UNCHANGED <<syncClients, openStores, listener>>
          /\ handling' = IF syncClients[c] = 0 THEN handling ELSE handling \cup {q}
      BY <2>4 DEF StartRequest
    <3>2. syncClients[c] # 0 => q \in Requests
      BY <1>1, <2>1 DEF Requests
    <3>3. f.command = "update" => f.id \in Ids
      BY <1>1 DEF Types, ClientTypes, OnWire
    <3>4. q.frame = f /\ q.found = 0
      OBVIOUS
    <3> HIDE DEF q
    <3>5. \A p \in handling' : p.frame.command = "update" => p.frame.id \in Ids
      BY <3>1, <3>3, <3>4 DEF Types, SyncTypes
    <3>7. 0 \in 0 .. Len(stores)
      BY DEF Types, StoreTypes
    <3>8. \A p \in handling' : p.found \in 0 .. Len(stores)
      BY <3>1, <3>4, <3>7 DEF Types, SyncTypes
    <3>6. handling' \subseteq Requests
      BY <3>1, <3>2 DEF Types, SyncTypes
    <3> QED
      BY <1>3, <3>1, <3>5, <3>6, <3>8 DEF Types, SyncTypes
  <2> QED
    BY <1>3, <2>2, <2>3, <2>4
<1> QED
  BY <1>4, <1>5, <1>6 DEF Types

\* What client c does when it sends frame f.
Joins(c, f) ==
  /\ f.command = "subscribe" /\ c \notin subscribed /\ subscribed' = subscribed \cup {c}
  /\ UNCHANGED <<replica, interrupted, newest, seen>>
Leaves(c, f) ==
  /\ f.command = "unsubscribe" /\ subscribed' = subscribed \ {c}
  /\ \E new \in Replicas :
       /\ replica' = [replica EXCEPT ![c] = new]
       /\ new = [open |-> replica[c].open, items |-> replica[c].items,
                 version |-> replica[c].version, ready |-> replica[c].ready,
                 filling |-> replica[c].filling, filled |-> replica[c].filled, cut |-> TRUE]
  /\ UNCHANGED <<interrupted, newest, seen>>
Opens(c, f) ==
  /\ f.command = "open" /\ subscribed' = subscribed
  /\ \E new \in Replicas :
       /\ replica' = [replica EXCEPT ![c] = new]
       /\ new.open /\ new.items = Empty /\ ~new.ready /\ ~new.filled
       /\ c \notin subscribed => new.cut
       /\ new.filling => c \in interrupted'
  /\ interrupted \subseteq interrupted' /\ interrupted' \subseteq interrupted \cup {c}
  /\ newest' = [newest EXCEPT ![c] = 0] /\ seen' = [seen EXCEPT ![c] = Unseen]
Closes(c, f) ==
  /\ f.command = "close" /\ subscribed' = subscribed
  /\ replica' = [replica EXCEPT ![c] = NoReplica]
  /\ UNCHANGED <<interrupted, newest, seen>>
Asks(c, f) ==
  /\ f.command = "update" /\ f.id \in Ids
  /\ UNCHANGED <<subscribed, replica, interrupted, newest, seen>>
Move(c, f) ==
  /\ Sends(c, f)
  /\ Joins(c, f) \/ Leaves(c, f) \/ Opens(c, f) \/ Closes(c, f) \/ Asks(c, f)
  /\ UNCHANGED <<serverVars, requestVars, handledVars, reordered, responses>>

LEMMA Moved ==
  ASSUME Types, NEW c \in Clients,
         \/ SubscribeChannel(c) \/ UnsubscribeChannel(c)
         \/ OpenGalacticStore(c) \/ ResetGalactic(c) \/ OnDestroy(c)
         \/ \E i \in Ids, v \in Held : SendUpdateStore(c, i, v)
  PROVE  \E f : Move(c, f)
<1>1. None \in Ids \cup {None} /\ None \in Held /\ ClientTypes
  BY DEF Held, Types
<1>2. ASSUME NEW command, NEW i, NEW v, SendFrame(c, command, i, v)
      PROVE  UNCHANGED <<serverVars, requestVars, handledVars, reordered, responses>>
  BY <1>2 DEF SendFrame
<1>3. replica[c] \in Replicas /\ replica \in [Clients -> Replicas]
  BY DEF Types, ClientTypes
<1>4. Empty \in [Ids -> Held]
  BY DEF Empty, Held
<1>5. CASE SubscribeChannel(c)
  <2>1. SendFrame(c, "subscribe", None, None)
    BY <1>5 DEF SubscribeChannel
  <2>2. PICK f : f.command = "subscribe" /\ Sends(c, f)
    BY <1>1, <2>1, Sent
  <2>3. Joins(c, f)
    BY <1>5, <2>2 DEF SubscribeChannel, Joins
  <2> QED
    BY <1>2, <2>1, <2>2, <2>3 DEF Move
<1>6. CASE UnsubscribeChannel(c)
  <2>1. SendFrame(c, "unsubscribe", None, None)
    BY <1>6 DEF UnsubscribeChannel
  <2>2. PICK f : f.command = "unsubscribe" /\ Sends(c, f)
    BY <1>1, <2>1, Sent
  <2> DEFINE new == [open |-> replica[c].open, items |-> replica[c].items,
                     version |-> replica[c].version, ready |-> replica[c].ready,
                     filling |-> replica[c].filling, filled |-> replica[c].filled, cut |-> TRUE]
  <2>3. replica' = [replica EXCEPT ![c].cut = TRUE]
    BY <1>6 DEF UnsubscribeChannel
  <2>4. ASSUME NEW old \in Replicas, NEW b
        PROVE  [old EXCEPT !.cut = b]
                 = [open |-> old.open, items |-> old.items, version |-> old.version,
                    ready |-> old.ready, filling |-> old.filling, filled |-> old.filled,
                    cut |-> b]
    <3>1. old = [open |-> old.open, items |-> old.items, version |-> old.version,
                 ready |-> old.ready, filling |-> old.filling, filled |-> old.filled,
                 cut |-> old.cut]
      BY DEF Replicas
    <3> QED
      BY <3>1
  <2>5. [replica[c] EXCEPT !.cut = TRUE] = new
    BY <1>3, <2>4
  <2>6. new \in Replicas
    BY <1>3 DEF Replicas
  <2> HIDE DEF new
  <2>7. replica' = [replica EXCEPT ![c] = new]
    BY <1>3, <2>3, <2>5
  <2>8. Leaves(c, f)
    BY <1>6, <2>2, <2>6, <2>7 DEF UnsubscribeChannel, Leaves, new
  <2> QED
    BY <1>2, <2>1, <2>2, <2>8 DEF Move
<1>7. CASE OpenGalacticStore(c)
  <2>1. SendFrame(c, "open", None, None)
    BY <1>7 DEF OpenGalacticStore, Begins
  <2>2. PICK f : f.command = "open" /\ Sends(c, f)
    BY <1>1, <2>1, Sent
  <2>3. /\ NewReplica \in Replicas /\ NewReplica.open /\ NewReplica.items = Empty
        /\ ~NewReplica.ready /\ ~NewReplica.filled /\ ~NewReplica.filling
    BY <1>4 DEF NewReplica, NoReplica, Replicas
  <2>4. /\ replica' = [replica EXCEPT ![c] = NewReplica]
        /\ c \in subscribed /\ UNCHANGED <<interrupted, subscribed>>
        /\ newest' = [newest EXCEPT ![c] = 0] /\ seen' = [seen EXCEPT ![c] = Unseen]
    BY <1>7 DEF OpenGalacticStore, Begins
  <2>5. Opens(c, f)
    BY <2>2, <2>3, <2>4 DEF Opens
  <2> QED
    BY <1>2, <2>1, <2>2, <2>5 DEF Move
<1>8. CASE ResetGalactic(c)
  <2>1. SendFrame(c, "open", None, None)
    BY <1>8 DEF ResetGalactic, Begins
  <2>2. PICK f : f.command = "open" /\ Sends(c, f)
    BY <1>1, <2>1, Sent
  <2> DEFINE new == [NewReplica EXCEPT !.filling = replica[c].filling,
                                       !.cut = c \notin subscribed]
  <2>3. replica[c].filling \in BOOLEAN
    BY <1>3 DEF Replicas
  <2>4. /\ new \in Replicas /\ new.open /\ new.items = Empty
        /\ ~new.ready /\ ~new.filled /\ new.filling = replica[c].filling
        /\ c \notin subscribed => new.cut
    BY <1>4, <2>3 DEF NewReplica, NoReplica, Replicas
  <2>5. /\ replica' = [replica EXCEPT ![c] = new]
        /\ subscribed' = subscribed
        /\ interrupted' = IF replica[c].filling THEN interrupted \cup {c} ELSE interrupted
        /\ newest' = [newest EXCEPT ![c] = 0] /\ seen' = [seen EXCEPT ![c] = Unseen]
    BY <1>8 DEF ResetGalactic, Begins
  <2> HIDE DEF new
  <2>6. /\ new.filling => c \in interrupted'
        /\ interrupted \subseteq interrupted' /\ interrupted' \subseteq interrupted \cup {c}
    BY <2>3, <2>4, <2>5
  <2>7. Opens(c, f)
    BY <2>2, <2>4, <2>5, <2>6 DEF Opens
  <2> QED
    BY <1>2, <2>1, <2>2, <2>7 DEF Move
<1>9. CASE OnDestroy(c)
  <2>1. SendFrame(c, "close", None, None)
    BY <1>9 DEF OnDestroy
  <2>2. PICK f : f.command = "close" /\ Sends(c, f)
    BY <1>1, <2>1, Sent
  <2>3. Closes(c, f)
    BY <1>9, <2>2 DEF OnDestroy, Closes
  <2> QED
    BY <1>2, <2>1, <2>2, <2>3 DEF Move
<1>10. ASSUME NEW i \in Ids, NEW v \in Held, SendUpdateStore(c, i, v) PROVE \E f : Move(c, f)
  <2>1. SendFrame(c, "update", i, v)
    BY <1>10 DEF SendUpdateStore
  <2>2. PICK f : f.command = "update" /\ f.id = i /\ Sends(c, f)
    BY <1>1, <2>1, Sent
  <2>3. Asks(c, f)
    BY <1>10, <2>2 DEF SendUpdateStore, Asks
  <2> QED
    BY <1>2, <2>1, <2>2, <2>3 DEF Move
<1> QED
  BY <1>5, <1>6, <1>7, <1>8, <1>9, <1>10

LEMMA TypesMoved ==
  ASSUME Types, NEW c \in Clients, NEW f, Move(c, f)
  PROVE  Types'
<1>1. /\ Sends(c, f)
      /\ Joins(c, f) \/ Leaves(c, f) \/ Opens(c, f) \/ Closes(c, f) \/ Asks(c, f)
      /\ UNCHANGED <<serverVars, requestVars, handledVars, reordered, responses>>
  BY DEF Move
<1>2. StoreTypes' /\ SyncTypes'
  BY <1>1 DEF Types, StoreTypes, SyncTypes, serverVars, requestVars
<1>3. \A d \in Clients : \A x \in Range(wire'[d]) : x.command = "update" => x.id \in Ids
  <2>1. f.command = "update" => f.id \in Ids
    BY <1>1 DEF Joins, Leaves, Opens, Closes, Asks
  <2> QED
    BY <1>1, <2>1 DEF Types, ClientTypes, Sends, OnWire
<1>4. /\ replica \in [Clients -> Replicas] /\ seen \in [Clients -> [Ids -> Reported]]
      /\ newest \in [Clients -> Nat] /\ subscribed \subseteq Clients
      /\ interrupted \subseteq Clients
  BY DEF Types, ClientTypes
<1>5. Unseen \in [Ids -> Reported] /\ Empty \in [Ids -> Held]
  BY DEF Unseen, Reported, Held, Empty
<1>6. NoReplica \in Replicas
  BY <1>5 DEF NoReplica, Replicas
<1>7. /\ replica' \in [Clients -> Replicas] /\ seen' \in [Clients -> [Ids -> Reported]]
      /\ newest' \in [Clients -> Nat] /\ subscribed' \subseteq Clients
      /\ interrupted' \subseteq Clients
  <2>1. CASE Joins(c, f)
    BY <1>4, <2>1 DEF Joins
  <2>2. CASE Leaves(c, f)
    BY <1>4, <2>2 DEF Leaves
  <2>3. CASE Opens(c, f)
    BY <1>4, <1>5, <2>3 DEF Opens
  <2>4. CASE Closes(c, f)
    BY <1>4, <1>6, <2>4 DEF Closes
  <2>5. CASE Asks(c, f)
    BY <1>4, <2>5 DEF Asks
  <2> QED
    BY <1>1, <2>1, <2>2, <2>3, <2>4, <2>5
<1>8. ClientTypes'
  BY <1>1, <1>3, <1>7 DEF Types, ClientTypes, Sends, handledVars
<1> QED
  BY <1>2, <1>8 DEF Types

\* What InitializeGalactic leaves of the replica it initialises.
LEMMA Initialized ==
  ASSUME Types, NEW c \in Clients, InitializeGalactic(c)
  PROVE  \E new \in Replicas :
           /\ replica' = [replica EXCEPT ![c] = new]
           /\ new = [open |-> replica[c].open, items |-> replica[c].items,
                     version |-> replica[c].version, ready |-> TRUE, filling |-> FALSE,
                     filled |-> replica[c].filled, cut |-> replica[c].cut]
<1> DEFINE new == [open |-> replica[c].open, items |-> replica[c].items,
                   version |-> replica[c].version, ready |-> TRUE, filling |-> FALSE,
                   filled |-> replica[c].filled, cut |-> replica[c].cut]
<1>1. replica[c] \in Replicas /\ replica \in [Clients -> Replicas]
  BY DEF Types, ClientTypes
<1>2. ASSUME NEW old \in Replicas, NEW l, NEW b
      PROVE  [[old EXCEPT !.filling = l] EXCEPT !.ready = b]
               = [open |-> old.open, items |-> old.items, version |-> old.version, ready |-> b,
                  filling |-> l, filled |-> old.filled, cut |-> old.cut]
  <2>1. old = [open |-> old.open, items |-> old.items, version |-> old.version,
               ready |-> old.ready, filling |-> old.filling, filled |-> old.filled,
               cut |-> old.cut]
    BY DEF Replicas
  <2>2. [old EXCEPT !.filling = l]
          = [open |-> old.open, items |-> old.items, version |-> old.version,
             ready |-> old.ready, filling |-> l, filled |-> old.filled, cut |-> old.cut]
    BY <2>1
  <2>3. ASSUME NEW x, x = [open |-> old.open, items |-> old.items, version |-> old.version,
                           ready |-> old.ready, filling |-> l, filled |-> old.filled,
                           cut |-> old.cut]
        PROVE  [x EXCEPT !.ready = b]
                 = [open |-> old.open, items |-> old.items, version |-> old.version,
                    ready |-> b, filling |-> l, filled |-> old.filled, cut |-> old.cut]
    BY <2>3
  <2> QED
    BY <2>2, <2>3
<1>3. PICK l, b : l = FALSE /\ b = TRUE
  OBVIOUS
<1>4. replica' = [replica EXCEPT ![c].filling = l, ![c].ready = b]
  BY <1>3 DEF InitializeGalactic
<1>5. [[replica[c] EXCEPT !.filling = l] EXCEPT !.ready = b]
        = [open |-> replica[c].open, items |-> replica[c].items,
           version |-> replica[c].version, ready |-> b, filling |-> l,
           filled |-> replica[c].filled, cut |-> replica[c].cut]
  BY <1>1, <1>2
<1>6. replica' = [replica EXCEPT ![c] = [[replica[c] EXCEPT !.filling = l] EXCEPT !.ready = b]]
  BY <1>1, <1>4
<1>7. replica' = [replica EXCEPT ![c] = new]
  BY <1>3, <1>5, <1>6
<1>8. new \in Replicas
  BY <1>1 DEF Replicas
<1> QED
  BY <1>7, <1>8

LEMMA TypesInitialized ==
  ASSUME Types, NEW c \in Clients, InitializeGalactic(c)
  PROVE  Types'
<1>1. UNCHANGED <<serverVars, requestVars, handledVars, subscribed, wire, frames,
                  takenVars, responses>>
  BY DEF InitializeGalactic
<1>2. StoreTypes' /\ SyncTypes'
  BY <1>1 DEF Types, StoreTypes, SyncTypes, serverVars, requestVars
<1>3. replica' \in [Clients -> Replicas]
  BY Initialized DEF Types, ClientTypes
<1>4. ClientTypes'
  BY <1>1, <1>3 DEF Types, ClientTypes, handledVars, takenVars
<1> QED
  BY <1>2, <1>4 DEF Types

LEMMA TypesStep == Types /\ [Next]_vars => Types'
<1> SUFFICES ASSUME Types, [Next]_vars PROVE Types'
  OBVIOUS
<1>1. CASE UNCHANGED vars
  BY <1>1 DEF Types, StoreTypes, SyncTypes, ClientTypes, vars, serverVars, requestVars,
              clientVars, takenVars, handledVars
<1>2. ASSUME NEW c \in Clients,
             \/ SubscribeChannel(c) \/ UnsubscribeChannel(c)
             \/ OpenGalacticStore(c) \/ ResetGalactic(c) \/ OnDestroy(c)
             \/ \E i \in Ids, v \in Held : SendUpdateStore(c, i, v)
      PROVE  Types'
  BY <1>2, Moved, TypesMoved
<1> QED
  BY <1>1, <1>2, Steps, TypesStore, TypesRequests, TypesTaken, TypesReceived, TypesInitialized
-----------------------------------------------------------------------------
(***************************************************************************)
(* Frames and requests: the listener.                                      *)
(***************************************************************************)
\* The server takes frame f of client c.
Arrives(c, f) ==
  /\ f \in Frames /\ f.n \in 1 .. Budget /\ f \in OnWire(c)
  /\ OnWire(c) = OnWire(c)' \cup {f}
  /\ Ordered(wire'[c]) /\ \A x \in OnWire(c)' : f.n < x.n
  /\ \A d \in Clients : d # c => wire'[d] = wire[d] /\ OnWire(d)' = OnWire(d)
  /\ UNCHANGED <<stores, commits, current, changes, toldVars, waiting, subscribed, replica,
                 frames, takenVars, overtaken, refused, responses>>
ComesUp(c, f) ==
  /\ f.command = "subscribe" /\ OpenChannel(c, f.n)
  /\ handled' = [handled EXCEPT ![c] = f.n]
GoesDown(c, f) ==
  /\ f.command = "unsubscribe" /\ CloseChannel(c)
  /\ handled' = [handled EXCEPT ![c] = f.n]
Asked(c, f) ==
  /\ f.command \notin {"subscribe", "unsubscribe"} /\ StartRequest(c, f) /\ handled' = handled

LEMMA Arrived ==
  ASSUME Types, Numbered, NEW c \in Clients, Receive(c)
  PROVE  \E f : Arrives(c, f) /\ (ComesUp(c, f) \/ GoesDown(c, f) \/ Asked(c, f))
<1> DEFINE f == Head(wire[c])
<1>1. /\ f \in Frames /\ f \in OnWire(c) /\ OnWire(c) = OnWire(c)' \cup {f}
      /\ Ordered(wire'[c]) /\ \A x \in OnWire(c)' : f.n < x.n
      /\ \A d \in Clients : d # c => wire'[d] = wire[d] /\ OnWire(d)' = OnWire(d)
  BY Received DEF Types, Numbered
<1>2. f.n \in 1 .. Budget
  BY <1>1 DEF Frames
<1>3. /\ UNCHANGED <<stores, commits, current, changes, toldVars, waiting, subscribed, replica,
                     frames, takenVars, overtaken, refused, responses>>
      /\ ComesUp(c, f) \/ GoesDown(c, f) \/ Asked(c, f)
  BY DEF Receive, ComesUp, GoesDown, Asked
<1> HIDE DEF f
<1>4. Arrives(c, f)
  BY <1>1, <1>2, <1>3 DEF Arrives
<1> QED
  BY <1>3, <1>4

\* What happens to the requests and to the channel.
LEMMA ArrivedRequests ==
  ASSUME Types, NEW c \in Clients, NEW f, Arrives(c, f),
         ComesUp(c, f) \/ GoesDown(c, f) \/ Asked(c, f)
  PROVE  /\ \A d \in Clients : d # c => syncClients'[d] = syncClients[d] /\ handled'[d] = handled[d]
         /\ handling \subseteq handling'
         /\ \A q \in handling' : q \in handling \/
              /\ Asked(c, f) /\ syncClients[c] # 0
              /\ q.client = c /\ q.object = syncClients[c] /\ q.frame = f
         /\ Asked(c, f) /\ syncClients[c] # 0 =>
              \E q \in handling' : q.client = c /\ q.frame = f
         /\ ComesUp(c, f) \/ GoesDown(c, f) => handled'[c] = f.n /\ handling' = handling
         /\ Asked(c, f) => syncClients' = syncClients /\ handled' = handled
         /\ Asked(c, f) \/ ComesUp(c, f) => openStores' = openStores /\ listener' = listener
         /\ ComesUp(c, f) => syncClients'[c] = IF syncClients[c] = 0 THEN f.n ELSE syncClients[c]
         /\ GoesDown(c, f) => syncClients'[c] = 0
<1>1. /\ syncClients \in [Clients -> 0 .. Budget] /\ handled \in [Clients -> Nat]
  BY DEF Types, SyncTypes, ClientTypes
<1>2. CASE ComesUp(c, f)
  <2>1. /\ syncClients' = [syncClients EXCEPT ![c] = IF syncClients[c] = 0 THEN f.n
                                                     ELSE syncClients[c]]
        /\ handled' = [handled EXCEPT ![c] = f.n]
        /\ UNCHANGED <<openStores, listener, handling>>
        /\ ~GoesDown(c, f) /\ ~Asked(c, f)
    BY <1>2 DEF ComesUp, OpenChannel, GoesDown, Asked
  <2> QED
    BY <1>1, <1>2, <2>1
<1>3. CASE GoesDown(c, f)
  <2>1. /\ syncClients' = [syncClients EXCEPT ![c] = 0]
        /\ handled' = [handled EXCEPT ![c] = f.n]
        /\ UNCHANGED handling
        /\ ~ComesUp(c, f) /\ ~Asked(c, f)
    BY <1>3 DEF ComesUp, CloseChannel, GoesDown, Asked
  <2> QED
    BY <1>1, <1>3, <2>1
<1>4. CASE Asked(c, f)
  <2> DEFINE q == [client |-> c, object |-> syncClients[c], frame |-> f, found |-> 0]
  <2>1. /\ UNCHANGED <<syncClients, openStores, listener, handled>>
        /\ handling' = IF syncClients[c] = 0 THEN handling ELSE handling \cup {q}
        /\ ~ComesUp(c, f) /\ ~GoesDown(c, f)
    BY <1>4 DEF Asked, StartRequest, ComesUp, GoesDown
  <2>2. q.client = c /\ q.object = syncClients[c] /\ q.frame = f
    OBVIOUS
  <2> HIDE DEF q
  <2> QED
    BY <1>1, <1>4, <2>1, <2>2
<1> QED
  BY <1>2, <1>3, <1>4

\* Past, after the step.
After(c, n) == n <= frames'[c] /\ \A x \in OnWire(c)' : n < x.n

LEMMA ArrivedNumbered ==
  ASSUME Types, Numbered, StaleRequests, NEW c \in Clients, NEW f, Arrives(c, f),
         ComesUp(c, f) \/ GoesDown(c, f) \/ Asked(c, f)
  PROVE  Numbered' /\ StaleRequests'
<1>1. /\ f.n \in 1 .. Budget /\ f \in OnWire(c) /\ OnWire(c) = OnWire(c)' \cup {f}
      /\ Ordered(wire'[c]) /\ \A x \in OnWire(c)' : f.n < x.n
      /\ \A d \in Clients : d # c => wire'[d] = wire[d] /\ OnWire(d)' = OnWire(d)
      /\ frames' = frames
  BY DEF Arrives
<1>2. f.n <= frames[c]
  BY <1>1 DEF Numbered
<1>3. \A d \in Clients : \A n : Past(d, n) => After(d, n)
  BY <1>1 DEF Past, After
<1>4. After(c, f.n)
  BY <1>1, <1>2 DEF After
<1>5. /\ \A d \in Clients : d # c => syncClients'[d] = syncClients[d] /\ handled'[d] = handled[d]
      /\ handled'[c] \in {handled[c], f.n}
      /\ syncClients'[c] \in {syncClients[c], f.n, 0}
      /\ openStores' \subseteq openStores
  <2>1. GoesDown(c, f) => openStores' \subseteq openStores
    BY DEF GoesDown, CloseChannel, CloseClientSyncChannel
  <2> QED
    BY <2>1, ArrivedRequests
<1>6. After(c, 0)
  <2>1. frames[c] \in Nat
    BY BoundAssumption DEF Types, ClientTypes
  <2>2. OnWire(c) \subseteq Frames
    BY DEF Types, ClientTypes, OnWire, Range
  <2>3. \A x \in OnWire(c)' : x.n \in Nat
    BY <1>1, <2>2 DEF Frames
  <2> QED
    BY <1>1, <2>1, <2>3 DEF After
<1>7. \A d \in Clients : After(d, handled'[d]) /\ After(d, syncClients'[d])
  <2>1. \A d \in Clients : After(d, handled[d]) /\ After(d, syncClients[d])
    BY <1>3 DEF Numbered
  <2> QED
    BY <1>4, <1>5, <1>6, <2>1
<1>8. \A q \in handling' : After(q.client, q.frame.n) /\ After(q.client, q.object)
  <2>1. \A q \in handling : After(q.client, q.frame.n) /\ After(q.client, q.object)
    BY <1>3 DEF Numbered, Types, SyncTypes, Requests
  <2>2. After(c, syncClients[c])
    BY <1>3 DEF Numbered
  <2> QED
    BY <1>4, <2>1, <2>2, ArrivedRequests
<1>9. \A p \in openStores' : After(p[1], p[2])
  BY <1>3, <1>5 DEF Numbered, Types, SyncTypes
<1>10. \A d \in Clients : Ordered(wire'[d]) /\ \A x \in OnWire(d)' : x.n <= frames'[d]
  BY <1>1 DEF Numbered
<1>11. Numbered'
  BY <1>7, <1>8, <1>9, <1>10 DEF Numbered, Past, After
<1>12. StaleRequests'
  <2> SUFFICES ASSUME NEW q \in handling', q.object # syncClients'[q.client]
               PROVE  q.frame.n < handled'[q.client]
    BY DEF StaleRequests
  <2>1. CASE q \notin handling
    BY <2>1, ArrivedRequests
  <2>2. CASE q \in handling
    <3>1. Past(q.client, q.frame.n) /\ q.client \in Clients
      BY <2>2 DEF Numbered, Types, SyncTypes, Requests
    <3>2. CASE q.client = c
      <4>1. q.frame.n < f.n
        BY <1>1, <3>1, <3>2 DEF Past
      <4>2. CASE Asked(c, f)
        BY <2>2, <4>2, ArrivedRequests DEF StaleRequests
      <4> QED
        BY <3>2, <4>1, <4>2, ArrivedRequests
    <3>3. CASE q.client # c
      BY <1>5, <2>2, <3>1, <3>3 DEF StaleRequests
    <3> QED
      BY <3>2, <3>3
  <2> QED
    BY <2>1, <2>2
<1> QED
  BY <1>11, <1>12

\* A frame that takes an open away is followed by another.
LEMMA Reopened ==
  ASSUME Types, Numbered, ChannelFollows, OpenFollows, NEW c \in Clients, NEW f, Arrives(c, f),
         Fresh(c),
         \/ f.command \in {"subscribe", "unsubscribe", "close"}
         \/ f.command = "open" /\ syncClients[c] = 0
  PROVE  OpenOnWire(c, f.n)'
<1>1. /\ f.n \in 1 .. Budget /\ f \in OnWire(c) /\ OnWire(c) = OnWire(c)' \cup {f}
      /\ \A x \in OnWire(c)' : f.n < x.n
  BY DEF Arrives
<1>2. \E x \in OnWire(c) : x.command \in {"subscribe", "unsubscribe", "close"}
  <2>1. CASE f.command = "open" /\ syncClients[c] = 0
    BY <2>1 DEF ChannelFollows, Fresh
  <2> QED
    BY <1>1, <2>1
<1>3. PICK x \in OnWire(c) : x.command \in {"subscribe", "unsubscribe", "close"}
  BY <1>2
<1>4. OpenOnWire(c, x.n)
  BY <1>3 DEF OpenFollows
<1>5. PICK y \in OnWire(c) : y.command = "open" /\ x.n < y.n
  BY <1>4 DEF OpenOnWire
<1>6. x = f \/ f.n < x.n
  BY <1>1
<1>7. y # f
  <2>1. OnWire(c) \subseteq Frames
    BY DEF Types, ClientTypes, OnWire, Range
  <2>2. x.n \in Nat /\ y.n \in Nat /\ f.n \in Nat
    BY <1>1, <2>1 DEF Frames
  <2> QED
    BY <1>5, <1>6, <2>2
<1>8. y \in OnWire(c)' /\ f.n < y.n
  BY <1>1, <1>7
<1> QED
  BY <1>5, <1>8 DEF OpenOnWire

LEMMA ArrivedLater ==
  ASSUME Types, NEW c \in Clients, NEW f, Arrives(c, f),
         ComesUp(c, f) \/ GoesDown(c, f) \/ Asked(c, f),
         NEW d \in Clients, NEW n, Later(d, n),
         d # c \/ f.command # "open" \/ syncClients[c] # 0
  PROVE  Later(d, n)'
<1>1. /\ OnWire(c) = OnWire(c)' \cup {f} /\ handling \subseteq handling'
      /\ \A e \in Clients : e # c => OnWire(e)' = OnWire(e)
  BY ArrivedRequests DEF Arrives
<1>2. CASE OpenHandling(d, n)
  BY <1>1, <1>2 DEF Later, OpenHandling
<1>3. CASE OpenOnWire(d, n)
  <2>1. PICK y \in OnWire(d) : y.command = "open" /\ n < y.n
    BY <1>3 DEF OpenOnWire
  <2>2. CASE y \in OnWire(d)'
    BY <2>1, <2>2 DEF Later, OpenOnWire
  <2>3. CASE y \notin OnWire(d)'
    <3>1. d = c /\ y = f
      BY <1>1, <2>3
    <3>2. Asked(c, f) /\ syncClients[c] # 0
      BY <2>1, <3>1 DEF ComesUp, GoesDown
    <3>3. PICK q \in handling' : q.client = c /\ q.frame = f
      BY <3>2, ArrivedRequests
    <3> QED
      BY <2>1, <3>1, <3>3 DEF Later, OpenHandling
  <2> QED
    BY <2>2, <2>3
<1> QED
  BY <1>2, <1>3 DEF Later

LEMMA ArrivedFrame ==
  ASSUME Types, Frame, NEW c \in Clients, NEW f, Arrives(c, f),
         ComesUp(c, f) \/ GoesDown(c, f) \/ Asked(c, f)
  PROVE  Frame'
<1>1. /\ f.n \in 1 .. Budget /\ f \in OnWire(c) /\ OnWire(c) = OnWire(c)' \cup {f}
      /\ \A x \in OnWire(c)' : f.n < x.n
      /\ \A d \in Clients : d # c => OnWire(d)' = OnWire(d)
      /\ UNCHANGED <<subscribed, replica, overtaken, refused>>
  BY DEF Arrives
<1>2. Numbered' /\ StaleRequests'
  BY ArrivedNumbered DEF Frame
<1>3. \A d \in Clients : Fresh(d)' <=> Fresh(d)
  BY <1>1 DEF Fresh
<1>4. /\ \A d \in Clients : d # c => syncClients'[d] = syncClients[d] /\ handled'[d] = handled[d]
      /\ Asked(c, f) => syncClients' = syncClients /\ handled' = handled
      /\ Asked(c, f) \/ ComesUp(c, f) => openStores' = openStores /\ listener' = listener
      /\ ComesUp(c, f) => syncClients'[c] = IF syncClients[c] = 0 THEN f.n ELSE syncClients[c]
      /\ GoesDown(c, f) => syncClients'[c] = 0
      /\ ComesUp(c, f) \/ GoesDown(c, f) => handled'[c] = f.n /\ handling' = handling
  BY ArrivedRequests
<1>5. openStores \subseteq Clients \X (1 .. Budget) /\ syncClients \in [Clients -> 0 .. Budget]
  BY DEF Types, SyncTypes
<1>6. <<c, f.n>> \notin openStores /\ <<c, 0>> \notin openStores
  <2>1. ASSUME <<c, f.n>> \in openStores PROVE FALSE
    <3>1. Past(c, f.n)
      BY <2>1 DEF Frame, Numbered
    <3> QED
      BY <1>1, <3>1 DEF Past
  <2> QED
    BY <1>5, <2>1
<1>7. ListenerServesOpenClients'
  <2> SUFFICES ASSUME NEW d \in Clients, d \notin overtaken'
               PROVE  (listener' # None /\ d \in listener'.channels)
                        <=> <<d, syncClients'[d]>> \in openStores'
    BY DEF ListenerServesOpenClients
  <2>1. (listener # None /\ d \in listener.channels) <=> <<d, syncClients[d]>> \in openStores
    BY <1>1 DEF Frame, ListenerServesOpenClients
  <2>2. CASE Asked(c, f)
    BY <1>4, <2>1, <2>2
  <2>3. CASE ComesUp(c, f)
    BY <1>4, <1>6, <2>1, <2>3
  <2>4. CASE GoesDown(c, f)
    <3>1. CASE <<c, syncClients[c]>> \in openStores
      <4>1. /\ listener' = WithoutChannel(listener, c)
            /\ openStores' = openStores \ {<<c, syncClients[c]>>}
        BY <2>4, <3>1 DEF GoesDown, CloseChannel, CloseClientSyncChannel
      <4>2. /\ listener' # None =>
                 /\ listener # None /\ listener'.channels = listener.channels \ {c}
            /\ listener' = None /\ listener # None => listener.channels \subseteq {c}
        BY <4>1, Left DEF Types, SyncTypes
      <4>3. CASE d = c
        BY <1>4, <1>6, <2>4, <4>1, <4>2, <4>3
      <4>4. CASE d # c
        BY <1>4, <2>1, <4>1, <4>2, <4>4
      <4> QED
        BY <4>3, <4>4
    <3>2. CASE <<c, syncClients[c]>> \notin openStores
      <4>1. listener' = listener /\ openStores' = openStores
        BY <2>4, <3>2 DEF GoesDown, CloseChannel, CloseClientSyncChannel
      <4> QED
        BY <1>4, <1>6, <2>1, <2>4, <3>2, <4>1
    <3> QED
      BY <3>1, <3>2
  <2> QED
    BY <2>2, <2>3, <2>4
<1>8. ChannelFollows'
  <2> SUFFICES ASSUME NEW d \in subscribed
               PROVE  /\ syncClients'[d] # 0 \/ \E y \in OnWire(d)' : y.command = "subscribe"
                      /\ \A x \in OnWire(d)' : x.command = "unsubscribe" =>
                           \E y \in OnWire(d)' : y.command = "subscribe" /\ x.n < y.n
    BY <1>1 DEF ChannelFollows
  <2>1. /\ syncClients[d] # 0 \/ \E y \in OnWire(d) : y.command = "subscribe"
        /\ \A x \in OnWire(d) : x.command = "unsubscribe" =>
             \E y \in OnWire(d) : y.command = "subscribe" /\ x.n < y.n
    BY DEF Frame, ChannelFollows
  <2>2. d \in Clients
    BY DEF Types, ClientTypes
  <2>3. CASE d # c
    BY <1>1, <1>4, <2>1, <2>2, <2>3
  <2>4. CASE d = c
    <3>1. \A x \in OnWire(c)' : x.command = "unsubscribe" =>
            \E y \in OnWire(c)' : y.command = "subscribe" /\ x.n < y.n
      <4> SUFFICES ASSUME NEW x \in OnWire(c)', x.command = "unsubscribe"
                   PROVE  \E y \in OnWire(c)' : y.command = "subscribe" /\ x.n < y.n
        OBVIOUS
      <4>1. PICK y \in OnWire(c) : y.command = "subscribe" /\ x.n < y.n
        BY <1>1, <2>1, <2>4
      <4>2. y # f
        <5>1. OnWire(c) \subseteq Frames
          BY DEF Types, ClientTypes, OnWire, Range
        <5>2. x.n \in Nat /\ y.n \in Nat /\ f.n \in Nat /\ f.n < x.n
          BY <1>1, <5>1 DEF Frames
        <5> QED
          BY <4>1, <5>2
      <4> QED
        BY <1>1, <4>1, <4>2
    <3>2. syncClients'[c] # 0 \/ \E y \in OnWire(c)' : y.command = "subscribe"
      <4>1. CASE ComesUp(c, f)
        BY <1>1, <1>4, <4>1
      <4>2. CASE GoesDown(c, f)
        <5>1. f.command = "unsubscribe"
          BY <4>2 DEF GoesDown
        <5>2. PICK y \in OnWire(c) : y.command = "subscribe"
          BY <1>1, <2>1, <2>4, <5>1
        <5> QED
          BY <1>1, <5>1, <5>2
      <4>3. CASE Asked(c, f)
        <5>1. f.command # "subscribe"
          BY <4>3 DEF Asked
        <5> QED
          BY <1>1, <1>4, <2>1, <2>4, <4>3, <5>1
      <4> QED
        BY <4>1, <4>2, <4>3
    <3> QED
      BY <2>4, <3>1, <3>2
  <2> QED
    BY <2>3, <2>4
<1>9. CutOff'
  BY <1>1 DEF Frame, CutOff
<1>10. OpenFollows'
  <2> SUFFICES ASSUME NEW d \in Clients, Fresh(d), NEW x \in OnWire(d)',
                      x.command \in {"subscribe", "unsubscribe", "close"}
               PROVE  OpenOnWire(d, x.n)'
    BY <1>3 DEF OpenFollows
  <2>1. x \in OnWire(d)
    BY <1>1
  <2>2. PICK y \in OnWire(d) : y.command = "open" /\ x.n < y.n
    BY <2>1 DEF Frame, OpenFollows, OpenOnWire
  <2>3. y \in OnWire(d)'
    <3>1. CASE d # c
      BY <1>1, <3>1
    <3>2. CASE d = c
      <4>1. OnWire(c) \subseteq Frames
        BY DEF Types, ClientTypes, OnWire, Range
      <4>2. x.n \in Nat /\ y.n \in Nat /\ f.n \in Nat /\ f.n < x.n
        BY <1>1, <2>1, <3>2, <4>1 DEF Frames
      <4>3. y # f
        BY <2>2, <4>2
      <4> QED
        BY <1>1, <3>2, <4>3
    <3> QED
      BY <3>1, <3>2
  <2> QED
    BY <2>2, <2>3 DEF OpenOnWire
<1>11. CloseOvertaken'
  <2> SUFFICES ASSUME NEW d \in Clients, d \notin overtaken, Fresh(d),
                      NEW q \in handling', q.client = d, q.frame.command = "close"
               PROVE  q.frame.n < handled'[d] \/ Later(d, q.frame.n)'
    BY <1>1, <1>3 DEF CloseOvertaken
  <2>1. CASE q \notin handling
    <3>1. d = c /\ q.frame = f
      BY <2>1, ArrivedRequests
    <3>2. OpenOnWire(c, f.n)'
      BY <3>1, Reopened DEF Frame
    <3> QED
      BY <3>1, <3>2 DEF Later
  <2>2. CASE q \in handling
    <3>1. q.frame.n < handled[d] \/ Later(d, q.frame.n)
      BY <2>2 DEF Frame, CloseOvertaken
    <3>2. CASE d # c
      BY <1>4, <3>1, <3>2, ArrivedLater
    <3>3. CASE d = c
      <4>1. Past(c, q.frame.n)
        BY <2>2, <3>3 DEF Frame, Numbered
      <4>2. q.frame.n < f.n
        BY <1>1, <4>1 DEF Past
      <4>3. CASE ~Asked(c, f)
        BY <1>4, <3>3, <4>2, <4>3
      <4>4. CASE Asked(c, f) /\ (f.command # "open" \/ syncClients[c] # 0)
        BY <1>4, <3>1, <3>3, <4>4, ArrivedLater
      <4>5. CASE f.command = "open" /\ syncClients[c] = 0
        <5>1. OpenOnWire(c, f.n)'
          BY <3>3, <4>5, Reopened DEF Frame
        <5>2. PICK y \in OnWire(c)' : y.command = "open" /\ f.n < y.n
          BY <5>1 DEF OpenOnWire
        <5>3. OnWire(c) \subseteq Frames
          BY DEF Types, ClientTypes, OnWire, Range
        <5>4. q.frame.n \in Nat
          BY <2>2 DEF Types, SyncTypes, Requests, Frames
        <5>5. y.n \in Nat /\ f.n \in Nat
          BY <1>1, <5>3 DEF Frames
        <5>6. q.frame.n < y.n
          BY <4>2, <5>2, <5>4, <5>5
        <5> QED
          BY <3>3, <5>2, <5>6 DEF Later, OpenOnWire
      <4> QED
        BY <4>3, <4>4, <4>5
    <3> QED
      BY <3>2, <3>3
  <2> QED
    BY <2>1, <2>2
<1>12. OpenServed'
  <2> SUFFICES ASSUME NEW d \in Clients, d \notin overtaken, d \notin refused, Fresh(d)
               PROVE  Pending(d)' \/ <<d, syncClients'[d]>> \in openStores'
    BY <1>1, <1>3 DEF OpenServed
  <2>1. Pending(d) \/ <<d, syncClients[d]>> \in openStores
    BY DEF Frame, OpenServed
  <2>2. CASE /\ d = c
             /\ \/ f.command \in {"subscribe", "unsubscribe", "close"}
                \/ f.command = "open" /\ syncClients[c] = 0
    <3>1. OpenOnWire(c, f.n)'
      BY <2>2, Reopened DEF Frame
    <3>2. PICK y \in OnWire(c)' : y.command = "open" /\ f.n < y.n
      BY <3>1 DEF OpenOnWire
    <3>3. OnWire(c) \subseteq Frames
      BY DEF Types, ClientTypes, OnWire, Range
    <3>4. y.n \in Nat /\ f.n \in Nat
      BY <1>1, <3>2, <3>3 DEF Frames
    <3>5. 0 < y.n
      BY <3>2, <3>4
    <3> QED
      BY <2>2, <3>2, <3>5 DEF Pending, Later, OpenOnWire
  <2>3. CASE /\ d = c
             /\ ~ \/ f.command \in {"subscribe", "unsubscribe", "close"}
                  \/ f.command = "open" /\ syncClients[c] = 0
    <3>1. Asked(c, f)
      BY <2>3 DEF ComesUp, GoesDown
    <3>2. Pending(d) => Pending(d)'
      BY <2>3, ArrivedLater DEF Pending
    <3> QED
      BY <1>4, <2>1, <3>1, <3>2
  <2>4. CASE d # c
    <3>1. Pending(d) => Pending(d)'
      BY <2>4, ArrivedLater DEF Pending
    <3>2. <<d, syncClients[d]>> \in openStores => <<d, syncClients'[d]>> \in openStores'
      <4>1. \A p \in openStores : p \in openStores' \/ p = <<c, syncClients[c]>>
        <5>1. GoesDown(c, f) => \A p \in openStores : p \in openStores' \/ p = <<c, syncClients[c]>>
          BY DEF GoesDown, CloseChannel, CloseClientSyncChannel
        <5> QED
          BY <1>4, <5>1
      <4> QED
        BY <1>4, <2>4, <4>1
    <3> QED
      BY <2>1, <3>1, <3>2
  <2> QED
    BY <2>2, <2>3, <2>4
<1> QED
  BY <1>2, <1>7, <1>8, <1>9, <1>10, <1>11, <1>12 DEF Frame

\* The same request, whether the store was looked up or not.
SameRequest(p, q) == q.client = p.client /\ q.object = p.object /\ q.frame = p.frame

\* The frames the server has yet to take and those it handles, after the steps
\* that only take an update away or look a store up.
LEMMA FrameCarried ==
  ASSUME Frame,
         \A q \in handling' : \E p \in handling : SameRequest(p, q),
         \A p \in handling : p.frame.command # "update" => \E q \in handling' : SameRequest(p, q),
         UNCHANGED <<syncClients, openStores, listener, wire, frames, handled, overtaken,
                     refused, subscribed>>,
         \A c \in Clients : /\ replica'[c].open = replica[c].open
                            /\ replica'[c].cut = replica[c].cut
  PROVE  Frame'
<1>1. /\ \A c : OnWire(c)' = OnWire(c)
      /\ \A c \in Clients : Fresh(c)' <=> Fresh(c)
  BY DEF OnWire, Fresh
<1>2. \A c, n : Later(c, n)' <=> Later(c, n)
  <2>1. \A c, n : OpenHandling(c, n)' <=> OpenHandling(c, n)
    BY DEF OpenHandling, SameRequest
  <2>2. \A c, n : OpenOnWire(c, n)' <=> OpenOnWire(c, n)
    BY <1>1 DEF OpenOnWire
  <2> QED
    BY <2>1, <2>2 DEF Later
<1>3. Numbered' /\ StaleRequests'
  <2>1. Numbered'
    BY <1>1 DEF Frame, Numbered, Past, SameRequest
  <2>2. StaleRequests'
    BY DEF Frame, StaleRequests, SameRequest
  <2> QED
    BY <2>1, <2>2
<1>4. ListenerServesOpenClients' /\ CutOff'
  BY DEF Frame, ListenerServesOpenClients, CutOff
<1>5. ChannelFollows'
  BY <1>1 DEF Frame, ChannelFollows
<1>6. OpenFollows'
  BY <1>1 DEF Frame, OpenFollows, OpenOnWire
<1>7. CloseOvertaken'
  BY <1>1, <1>2 DEF Frame, CloseOvertaken, SameRequest
<1>8. OpenServed'
  BY <1>1, <1>2 DEF Frame, OpenServed, Pending
<1> QED
  BY <1>3, <1>4, <1>5, <1>6, <1>7, <1>8 DEF Frame

LEMMA HandledFrame ==
  ASSUME Types, Frame, NEW q \in handling, OpenStore(q) \/ CloseStore(q) \/ Refuses(q)
  PROVE  Frame'
<1> DEFINE c == q.client
           n == q.frame.n
<1>1. /\ c \in Clients /\ q.object \in 1 .. Budget /\ n \in 1 .. Budget /\ n \in Nat
      /\ handling' = handling \ {q}
      /\ UNCHANGED <<stores, commits, current, changes, syncClients, clientVars, takenVars,
                     responses>>
  BY Handled
<1>2. UNCHANGED <<syncClients, wire, frames, subscribed, replica>>
  BY <1>1 DEF clientVars
<1>3. \/ n < handled[c] /\ overtaken' = overtaken \cup {c} /\ handled' = handled
      \/ ~(n < handled[c]) /\ handled' = [handled EXCEPT ![c] = n] /\ overtaken' = overtaken
  BY Handled
<1>4. handled \in [Clients -> Nat]
  BY DEF Types, ClientTypes
<1> HIDE DEF c, n
<1>5. /\ \A d \in Clients : d # c => handled'[d] = handled[d]
      /\ handled'[c] \in {handled[c], n} /\ handled[c] <= handled'[c]
      /\ \A d \in Clients : handled[d] <= handled'[d]
  BY <1>1, <1>3, <1>4
<1>6. /\ \A d : OnWire(d)' = OnWire(d)
      /\ \A d \in Clients : Fresh(d)' <=> Fresh(d)
      /\ \A d, k : Past(d, k)' <=> Past(d, k)
  BY <1>2 DEF OnWire, Fresh, Past
<1>7. overtaken \subseteq overtaken'
  BY <1>3
<1>8. c \notin overtaken' =>
        /\ n >= handled[c] /\ handled'[c] = n /\ q.object = syncClients[c]
  <2>1. c \notin overtaken' => ~(n < handled[c]) /\ handled'[c] = n
    BY <1>1, <1>3, <1>4
  <2>2. q.object # syncClients[c] => n < handled[c]
    BY DEF Frame, StaleRequests, c, n
  <2> QED
    BY <1>1, <1>4, <2>1, <2>2
<1>9. /\ Refuses(q) => UNCHANGED <<openStores, listener>> /\ c \in refused'
      /\ OpenStore(q) =>
           /\ openStores' = openStores \cup {<<c, q.object>>}
           /\ listener' # None
           /\ listener'.channels = IF listener = None THEN {c} ELSE listener.channels \cup {c}
      /\ CloseStore(q) =>
           /\ openStores' = openStores \ {<<c, q.object>>}
           /\ listener' # None =>
                listener # None /\ listener'.channels = listener.channels \ {c}
           /\ listener' = None /\ listener # None => listener.channels \subseteq {c}
  <2>1. Refuses(q) => UNCHANGED <<openStores, listener>> /\ c \in refused'
    BY DEF Refuses, FindNone, c
  <2>2. ASSUME OpenStore(q)
        PROVE  /\ openStores' = openStores \cup {<<c, q.object>>}
               /\ listener' # None
               /\ listener'.channels = IF listener = None THEN {c} ELSE listener.channels \cup {c}
    BY <2>2, Opened DEF c
  <2>3. ASSUME CloseStore(q)
        PROVE  /\ openStores' = openStores \ {<<c, q.object>>}
               /\ listener' # None =>
                    listener # None /\ listener'.channels = listener.channels \ {c}
               /\ listener' = None /\ listener # None => listener.channels \subseteq {c}
    <3>1. /\ openStores' = openStores \ {<<c, q.object>>}
          /\ listener' = WithoutChannel(listener, c)
      BY <2>3 DEF CloseStore, c
    <3> QED
      BY <1>1, <3>1, Left DEF Types, SyncTypes
  <2> QED
    BY <2>1, <2>2, <2>3
<1>10. Numbered' /\ StaleRequests'
  <2>1. Past(c, n) /\ Past(c, q.object)
    BY DEF Frame, Numbered, c, n
  <2>2. Past(c, handled'[c])
    BY <1>1, <1>5, <2>1 DEF Frame, Numbered
  <2>3. \A d \in Clients : Past(d, handled'[d])
    BY <1>5, <2>2 DEF Frame, Numbered
  <2>4. \A p \in openStores' : Past(p[1], p[2])
    <3>1. \A p \in openStores' : p \in openStores \/ p = <<c, q.object>>
      BY <1>9
    <3> QED
      BY <2>1, <3>1 DEF Frame, Numbered
  <2>5. \A d \in Clients :
          /\ Ordered(wire'[d]) /\ \A x \in OnWire(d)' : x.n <= frames'[d]
          /\ Past(d, syncClients'[d])
    BY <1>2, <1>6 DEF Frame, Numbered
  <2>6. \A p \in handling' : Past(p.client, p.frame.n) /\ Past(p.client, p.object)
    BY <1>1 DEF Frame, Numbered
  <2>7. \A d \in Clients : \A k : Past(d, k) => k <= frames'[d] /\ \A x \in OnWire(d)' : k < x.n
    BY <1>2, <1>6 DEF Past
  <2>8. Numbered'
    <3>1. \A d \in Clients : Past(d, handled[d])' /\ Past(d, syncClients[d])'
      BY <2>3, <2>5, <2>7 DEF Past
    <3>2. \A p \in openStores' : Past(p[1], p[2])'
      BY <1>6, <2>4
    <3>3. \A p \in handling' : Past(p.client, p.frame.n)' /\ Past(p.client, p.object)'
      BY <1>6, <2>6
    <3> QED
      BY <2>5, <3>1, <3>2, <3>3 DEF Numbered
  <2>9. StaleRequests'
    <3> SUFFICES ASSUME NEW p \in handling', p.object # syncClients'[p.client]
                 PROVE  p.frame.n < handled'[p.client]
      BY DEF StaleRequests
    <3>1. p \in handling /\ p.frame.n < handled[p.client]
      BY <1>1, <1>2 DEF Frame, StaleRequests
    <3>2. p.client \in Clients /\ p.frame.n \in Nat
      BY <3>1 DEF Types, SyncTypes, Requests, Frames
    <3>3. handled[p.client] <= handled'[p.client] /\ handled'[p.client] \in Nat
      BY <1>1, <1>3, <1>4, <1>5, <3>2
    <3> QED
      BY <1>4, <3>1, <3>2, <3>3
  <2> QED
    BY <2>8, <2>9
<1>11. ListenerServesOpenClients'
  <2> SUFFICES ASSUME NEW d \in Clients, d \notin overtaken'
               PROVE  (listener' # None /\ d \in listener'.channels)
                        <=> <<d, syncClients[d]>> \in openStores'
    BY <1>2 DEF ListenerServesOpenClients
  <2>1. (listener # None /\ d \in listener.channels) <=> <<d, syncClients[d]>> \in openStores
    BY <1>7 DEF Frame, ListenerServesOpenClients
  <2>2. d = c => q.object = syncClients[d]
    BY <1>8
  <2>3. CASE Refuses(q)
    BY <1>9, <2>1, <2>3
  <2>4. CASE OpenStore(q)
    BY <1>9, <2>1, <2>2, <2>4
  <2>5. CASE CloseStore(q)
    <3>1. CASE d = c
      BY <1>9, <2>2, <2>5, <3>1
    <3>2. CASE d # c
      BY <1>9, <2>1, <2>5, <3>2
    <3> QED
      BY <3>1, <3>2
  <2> QED
    BY <2>3, <2>4, <2>5
<1>12. ChannelFollows' /\ CutOff' /\ OpenFollows'
  BY <1>2, <1>6 DEF Frame, ChannelFollows, CutOff, OpenFollows, OpenOnWire
<1>13. \A d \in Clients : \A k : Later(d, k) =>
         Later(d, k)' \/ (d = c /\ ~CloseStore(q) /\ k < n)
  <2> SUFFICES ASSUME NEW d \in Clients, NEW k, OpenHandling(d, k), ~OpenHandling(d, k)'
               PROVE  d = c /\ ~CloseStore(q) /\ k < n
    BY <1>6 DEF Later, OpenOnWire
  <2>1. PICK p \in handling : p.client = d /\ p.frame.command = "open" /\ k < p.frame.n
    BY DEF OpenHandling
  <2>2. p = q
    BY <1>1, <2>1 DEF OpenHandling
  <2>3. ~CloseStore(q)
    BY <2>1, <2>2 DEF CloseStore, Handles
  <2> QED
    BY <2>1, <2>2, <2>3 DEF c, n
<1>14. CloseOvertaken'
  <2> SUFFICES ASSUME NEW d \in Clients, d \notin overtaken', Fresh(d),
                      NEW p \in handling', p.client = d, p.frame.command = "close"
               PROVE  p.frame.n < handled'[d] \/ Later(d, p.frame.n)'
    BY <1>6 DEF CloseOvertaken
  <2>1. p.frame.n < handled[d] \/ Later(d, p.frame.n)
    BY <1>1, <1>7 DEF Frame, CloseOvertaken
  <2>2. p.frame.n \in Nat
    BY <1>1 DEF Types, SyncTypes, Requests, Frames
  <2>3. handled[d] \in Nat /\ handled'[d] \in Nat /\ handled[d] <= handled'[d]
    BY <1>1, <1>3, <1>4, <1>5
  <2>4. CASE p.frame.n < handled[d]
    BY <2>2, <2>3, <2>4
  <2>5. CASE Later(d, p.frame.n)
    BY <1>8, <1>13, <2>5
  <2> QED
    BY <2>1, <2>4, <2>5
<1>15. OpenServed'
  <2> SUFFICES ASSUME NEW d \in Clients, d \notin overtaken', d \notin refused', Fresh(d)
               PROVE  Pending(d)' \/ <<d, syncClients[d]>> \in openStores'
    BY <1>2, <1>6 DEF OpenServed
  <2>1. CASE d = c /\ OpenStore(q)
    BY <1>8, <1>9, <2>1
  <2>2. CASE d = c /\ CloseStore(q)
    <3>1. n >= handled[c] /\ q.frame.command = "close"
      BY <1>8, <2>2 DEF CloseStore, Handles
    <3>2. Later(c, n)
      BY <1>1, <1>4, <1>7, <2>2, <3>1 DEF Frame, CloseOvertaken, c, n
    <3>5. Later(c, n)'
      BY <1>1, <1>13, <2>2, <3>2
    <3>6. \A y \in OnWire(c)' : y.n \in Nat
      <4>1. OnWire(c) \subseteq Frames
        BY <1>1 DEF Types, ClientTypes, OnWire, Range
      <4> QED
        BY <1>6, <4>1 DEF Frames
    <3>7. \A p \in handling' : p.frame.n \in Nat
      BY <1>1 DEF Types, SyncTypes, Requests, Frames
    <3>8. Later(c, 0)'
      BY <1>1, <3>5, <3>6, <3>7 DEF Later, OpenOnWire, OpenHandling
    <3> QED
      BY <2>2, <3>8 DEF Pending
  <2>3. CASE d # c
    <3>1. d \notin refused
      <4>1. OpenStore(q) => refused \subseteq refused' \cup {c}
        BY Opened DEF c
      <4>2. CloseStore(q) \/ Refuses(q) => refused \subseteq refused'
        BY DEF CloseStore, Refuses, FindNone
      <4> QED
        BY <2>3, <4>1, <4>2
    <3>2. Pending(d) \/ <<d, syncClients[d]>> \in openStores
      BY <1>7, <3>1 DEF Frame, OpenServed
    <3>3. Pending(d) => Pending(d)'
      BY <1>13, <2>3 DEF Pending
    <3>4. <<d, syncClients[d]>> \in openStores => <<d, syncClients[d]>> \in openStores'
      BY <1>9, <2>3
    <3> QED
      BY <3>2, <3>3, <3>4
  <2>4. ~(d = c /\ Refuses(q))
    BY <1>9
  <2> QED
    BY <2>1, <2>2, <2>3, <2>4
<1> QED
  BY <1>10, <1>11, <1>12, <1>14, <1>15 DEF Frame

LEMMA MovedFrame ==
  ASSUME Types, Frame, NEW c \in Clients, NEW f, Move(c, f)
  PROVE  Frame'
<1>1. /\ Sends(c, f)
      /\ UNCHANGED <<syncClients, openStores, listener, handling, handled, overtaken, refused>>
  BY DEF Move, serverVars, requestVars, handledVars
<1>2. /\ f.n = frames[c] + 1 /\ OnWire(c)' = OnWire(c) \cup {f} /\ frames'[c] = frames[c] + 1
      /\ Ordered(wire[c]) /\ (\A x \in OnWire(c) : x.n < f.n) => Ordered(wire'[c])
      /\ \A d \in Clients : d # c =>
           wire'[d] = wire[d] /\ frames'[d] = frames[d] /\ OnWire(d)' = OnWire(d)
  BY <1>1 DEF Sends
<1>3. frames[c] \in Nat /\ \A d \in Clients : OnWire(d) \subseteq Frames
  BY BoundAssumption DEF Types, ClientTypes, OnWire, Range
<1>4. \A d \in Clients : \A x \in OnWire(d) : x.n \in Nat
  BY <1>3 DEF Frames
<1>5. \A x \in OnWire(c) : x.n < f.n
  BY <1>2, <1>3, <1>4 DEF Frame, Numbered
<1>6. ASSUME NEW d \in Clients, NEW k \in Nat, Past(d, k) PROVE Past(d, k)'
  BY <1>2, <1>3, <1>6 DEF Past
<1>7. /\ \A d \in Clients : handled[d] \in Nat /\ syncClients[d] \in Nat
      /\ \A p \in openStores : p[1] \in Clients /\ p[2] \in Nat
      /\ \A q \in handling : q.client \in Clients /\ q.frame.n \in Nat /\ q.object \in Nat
  BY DEF Types, SyncTypes, ClientTypes, Requests, Frames
<1>8. Numbered'
  <2>1. \A d \in Clients : Past(d, handled[d])' /\ Past(d, syncClients[d])'
    <3>1. \A d \in Clients : Past(d, handled[d]) /\ Past(d, syncClients[d])
      BY DEF Frame, Numbered
    <3> SUFFICES ASSUME NEW d \in Clients PROVE Past(d, handled[d])' /\ Past(d, syncClients[d])'
      OBVIOUS
    <3>2. PICK k, s : k = handled[d] /\ s = syncClients[d]
      OBVIOUS
    <3>3. Past(d, k)' /\ Past(d, s)'
      BY <1>6, <1>7, <3>1, <3>2
    <3> QED
      BY <1>1, <3>2, <3>3
  <2>2. \A p \in openStores' : Past(p[1], p[2])'
    BY <1>1, <1>6, <1>7 DEF Frame, Numbered
  <2>3. \A q \in handling' : Past(q.client, q.frame.n)' /\ Past(q.client, q.object)'
    BY <1>1, <1>6, <1>7 DEF Frame, Numbered
  <2>4. \A d \in Clients : Ordered(wire'[d])
    BY <1>2, <1>5 DEF Frame, Numbered
  <2>5. \A d \in Clients : \A x \in OnWire(d)' : x.n <= frames'[d]
    BY <1>2, <1>3, <1>4 DEF Frame, Numbered
  <2> QED
    BY <2>1, <2>2, <2>3, <2>4, <2>5 DEF Numbered
<1>9. StaleRequests' /\ ListenerServesOpenClients'
  BY <1>1 DEF Frame, StaleRequests, ListenerServesOpenClients
<1>10. \A d \in Clients : \A k : Later(d, k) => Later(d, k)'
  BY <1>1, <1>2 DEF Later, OpenOnWire, OpenHandling
<1>11. replica \in [Clients -> Replicas] /\ subscribed \subseteq Clients
  BY DEF Types, ClientTypes
<1>12. \A d \in Clients : d # c =>
         replica'[d] = replica[d] /\ (d \in subscribed' <=> d \in subscribed)
  <2>1. CASE Joins(c, f)
    BY <2>1 DEF Joins
  <2>2. CASE Leaves(c, f)
    BY <1>11, <2>2 DEF Leaves
  <2>3. CASE Opens(c, f)
    BY <1>11, <2>3 DEF Opens
  <2>4. CASE Closes(c, f)
    BY <1>11, <2>4 DEF Closes
  <2>5. CASE Asks(c, f)
    BY <2>5 DEF Asks
  <2> QED
    BY <2>1, <2>2, <2>3, <2>4, <2>5 DEF Move
<1>13. CutOff'
  <2> SUFFICES ASSUME NEW d \in Clients, replica'[d].open, d \notin subscribed'
               PROVE  replica'[d].cut
    BY DEF CutOff
  <2>1. CASE d # c
    BY <1>12, <2>1 DEF Frame, CutOff
  <2>2. CASE d = c
    <3>1. CASE Joins(c, f)
      BY <2>2, <3>1 DEF Joins
    <3>2. CASE Leaves(c, f)
      <4>1. PICK new \in Replicas :
              /\ replica' = [replica EXCEPT ![c] = new] 
              /\ new = [open |-> replica[c].open, items |-> replica[c].items,
                        version |-> replica[c].version, ready |-> replica[c].ready,
                        filling |-> replica[c].filling, filled |-> replica[c].filled,
                        cut |-> TRUE]
        BY <3>2 DEF Leaves
      <4>2. new.cut
        BY <4>1
      <4> QED
        BY <1>11, <2>2, <4>1, <4>2
    <3>3. CASE Opens(c, f)
      BY <1>11, <2>2, <3>3 DEF Opens
    <3>4. CASE Closes(c, f)
      <4>1. ~NoReplica.open
        BY DEF NoReplica
      <4>2. replica'[c] = NoReplica
        BY <1>11, <3>4 DEF Closes
      <4> QED
        BY <2>2, <4>1, <4>2
    <3>5. CASE Asks(c, f)
      BY <2>2, <3>5 DEF Asks, Frame, CutOff
    <3> QED
      BY <3>1, <3>2, <3>3, <3>4, <3>5 DEF Move
  <2> QED
    BY <2>1, <2>2
<1>14. Fresh(c)' => Opens(c, f) \/ (Asks(c, f) /\ Fresh(c))
  <2> SUFFICES ASSUME Fresh(c)' PROVE Opens(c, f) \/ (Asks(c, f) /\ Fresh(c))
    OBVIOUS
  <2>1. ~Joins(c, f)
    BY DEF Joins, Fresh, Frame, CutOff
  <2>2. ~Leaves(c, f)
    BY DEF Leaves, Fresh
  <2>3. ~Closes(c, f)
    <3>1. ~NoReplica.open
      BY DEF NoReplica
    <3>2. Closes(c, f) => replica'[c] = NoReplica
      BY <1>11 DEF Closes
    <3> QED
      BY <3>1, <3>2 DEF Fresh
  <2>4. Asks(c, f) => Fresh(c)
    BY DEF Asks, Fresh
  <2>5. Joins(c, f) \/ Leaves(c, f) \/ Opens(c, f) \/ Closes(c, f) \/ Asks(c, f)
    BY DEF Move
  <2> QED
    BY <2>1, <2>2, <2>3, <2>4, <2>5
<1>15. \A d \in Clients : d # c => (Fresh(d)' <=> Fresh(d))
  BY <1>12 DEF Fresh
<1>16. ChannelFollows'
  <2> SUFFICES ASSUME NEW d \in subscribed'
               PROVE  /\ syncClients[d] # 0 \/ \E y \in OnWire(d)' : y.command = "subscribe"
                      /\ \A x \in OnWire(d)' : x.command = "unsubscribe" =>
                           \E y \in OnWire(d)' : y.command = "subscribe" /\ x.n < y.n
    BY <1>1 DEF ChannelFollows
  <2>1. CASE d # c
    <3>1. d \in subscribed /\ d \in Clients
      <4>1. subscribed' \subseteq subscribed \cup {c}
        BY DEF Move, Joins, Leaves, Opens, Closes, Asks
      <4> QED
        BY <1>11, <2>1, <4>1
    <3> QED
      BY <1>2, <2>1, <3>1 DEF Frame, ChannelFollows
  <2>2. CASE d = c /\ Joins(c, f)
    <3>1. f.command = "subscribe"
      BY <2>2 DEF Joins
    <3> QED
      BY <1>2, <1>5, <2>2, <3>1
  <2>3. CASE d = c /\ ~Joins(c, f)
    <3>1. d \in subscribed /\ f.command # "unsubscribe"
      BY <2>3 DEF Move, Leaves, Opens, Closes, Asks
    <3> QED
      BY <1>2, <2>3, <3>1 DEF Frame, ChannelFollows
  <2> QED
    BY <2>1, <2>2, <2>3
<1>17. \A x \in OnWire(c) : Opens(c, f) => OpenOnWire(c, x.n)'
  BY <1>2, <1>5 DEF Opens, OpenOnWire
<1>18. OpenFollows'
  <2> SUFFICES ASSUME NEW d \in Clients, Fresh(d)', NEW x \in OnWire(d)',
                      x.command \in {"subscribe", "unsubscribe", "close"}
               PROVE  OpenOnWire(d, x.n)'
    BY DEF OpenFollows
  <2>1. CASE d # c
    BY <1>2, <1>15, <2>1 DEF Frame, OpenFollows, OpenOnWire
  <2>2. CASE d = c /\ Opens(c, f)
    <3>1. f.command = "open"
      BY <2>2 DEF Opens
    <3>2. x \in OnWire(c)
      BY <1>2, <2>2, <3>1
    <3> QED
      BY <1>17, <2>2, <3>2
  <2>3. CASE d = c /\ Asks(c, f) /\ Fresh(c)
    <3>1. f.command = "update"
      BY <2>3 DEF Asks
    <3>2. x \in OnWire(c)
      BY <1>2, <2>3, <3>1
    <3> QED
      BY <1>2, <2>3, <3>2 DEF Frame, OpenFollows, OpenOnWire
  <2> QED
    BY <1>14, <2>1, <2>2, <2>3
<1>19. CloseOvertaken'
  <2> SUFFICES ASSUME NEW d \in Clients, d \notin overtaken, Fresh(d)',
                      NEW q \in handling, q.client = d, q.frame.command = "close"
               PROVE  q.frame.n < handled[d] \/ Later(d, q.frame.n)'
    BY <1>1 DEF CloseOvertaken
  <2>1. CASE d = c /\ Opens(c, f)
    <3>1. f.command = "open"
      BY <2>1 DEF Opens
    <3>2. q.frame.n < f.n
      BY <1>2, <1>3, <1>7, <2>1 DEF Frame, Numbered, Past
    <3> QED
      BY <1>2, <2>1, <3>1, <3>2 DEF Later, OpenOnWire
  <2>2. CASE Fresh(d)
    BY <1>10, <2>2 DEF Frame, CloseOvertaken
  <2> QED
    BY <1>14, <1>15, <2>1, <2>2
<1>20. OpenServed'
  <2> SUFFICES ASSUME NEW d \in Clients, d \notin overtaken, d \notin refused, Fresh(d)'
               PROVE  Pending(d)' \/ <<d, syncClients[d]>> \in openStores
    BY <1>1 DEF OpenServed
  <2>1. CASE d = c /\ Opens(c, f)
    <3>1. f.command = "open" /\ 0 < f.n
      BY <1>2, <1>3, <2>1 DEF Opens
    <3> QED
      BY <1>2, <2>1, <3>1 DEF Pending, Later, OpenOnWire
  <2>2. CASE Fresh(d)
    BY <1>10, <2>2 DEF Frame, OpenServed, Pending
  <2> QED
    BY <1>14, <1>15, <2>1, <2>2
<1> QED
  BY <1>8, <1>9, <1>13, <1>16, <1>18, <1>19, <1>20 DEF Frame

LEMMA FrameInitially == Init => Frame
<1> SUFFICES ASSUME Init PROVE Frame
  OBVIOUS
<1>1. \A c \in Clients : wire[c] = <<>> /\ OnWire(c) = {} /\ ~Fresh(c)
  BY DEF Init, OnWire, Range, Fresh
<1>2. \A c \in Clients : Ordered(wire[c])
  BY <1>1 DEF Ordered
<1>3. \A c \in Clients : frames[c] = 0 /\ handled[c] = 0 /\ syncClients[c] = 0
  BY DEF Init
<1>4. Numbered
  BY <1>1, <1>2, <1>3 DEF Init, Numbered, Past
<1>5. StaleRequests /\ ListenerServesOpenClients /\ ChannelFollows
  BY DEF Init, StaleRequests, ListenerServesOpenClients, ChannelFollows
<1>6. CutOff
  BY DEF Init, CutOff, NoReplica
<1>7. OpenFollows /\ CloseOvertaken /\ OpenServed
  BY <1>1 DEF OpenFollows, CloseOvertaken, OpenServed
<1> QED
  BY <1>4, <1>5, <1>6, <1>7 DEF Frame

LEMMA FrameStep == Types /\ Frame /\ [Next]_vars => Frame'
<1> SUFFICES ASSUME Types, Frame, [Next]_vars PROVE Frame'
  OBVIOUS
<1>1. ASSUME UNCHANGED <<syncClients, openStores, listener, handling, clientVars, handledVars>>
      PROVE  Frame'
  <2>1. UNCHANGED <<syncClients, openStores, listener, wire, frames, handled, overtaken, refused,
                    subscribed, replica, handling>>
    BY <1>1 DEF clientVars, handledVars
  <2> QED
    BY <2>1, FrameCarried DEF SameRequest
<1>2. CASE UNCHANGED vars
  BY <1>1, <1>2 DEF vars, serverVars, requestVars
<1>3. CASE \/ Initialize \/ CreateStore \/ DestroyStore \/ Reset
           \/ \E ch \in changes : Notify(ch)
           \/ \E i \in Ids, v \in Held : PutOrRemove(i, v)
           \/ \E m \in [Ids -> Values] : Populate(m)
  BY <1>1, <1>3 DEF Initialize, CreateStore, DestroyStore, Reset, Notify, PutOrRemove,
                    Populate, requestVars
<1>4. ASSUME NEW q \in handling, UpdateStore(q) PROVE Frame'
  <2>1. /\ handling' = handling \ {q} /\ q.frame.command = "update"
        /\ UNCHANGED <<syncClients, openStores, listener, clientVars, handledVars>>
    BY <1>4 DEF UpdateStore
  <2>2. UNCHANGED <<syncClients, openStores, listener, wire, frames, handled, overtaken, refused,
                    subscribed, replica>>
    BY <2>1 DEF clientVars, handledVars
  <2>3. /\ \A p \in handling' : p \in handling
        /\ \A p \in handling : p.frame.command # "update" => p \in handling'
    BY <2>1
  <2> QED
    BY <2>2, <2>3, FrameCarried DEF SameRequest
<1>10. ASSUME NEW q \in handling, Drops(q) PROVE Frame'
  <2>1. /\ handling' = handling \ {q} /\ q.frame.command = "update"
        /\ UNCHANGED <<serverVars, clientVars, handledVars>>
    BY <1>10, Dropped
  <2>2. UNCHANGED <<syncClients, openStores, listener, wire, frames, handled, overtaken, refused,
                    subscribed, replica>>
    BY <2>1 DEF serverVars, clientVars, handledVars
  <2>3. /\ \A p \in handling' : p \in handling
        /\ \A p \in handling : p.frame.command # "update" => p \in handling'
    BY <2>1
  <2> QED
    BY <2>2, <2>3, FrameCarried DEF SameRequest
<1>11. ASSUME NEW q \in handling, LookUp(q) PROVE Frame'
  <2>1. /\ handling' = (handling \ {q}) \cup {Found(q)}
        /\ UNCHANGED <<serverVars, clientVars, handledVars>>
    BY <1>11, LookedUp
  <2>2. UNCHANGED <<syncClients, openStores, listener, wire, frames, handled, overtaken, refused,
                    subscribed, replica>>
    BY <2>1 DEF serverVars, clientVars, handledVars
  <2>3. SameRequest(q, Found(q)) /\ \A p : SameRequest(p, p)
    BY DEF SameRequest, Found
  <2>4. /\ \A p \in handling' : \E o \in handling : SameRequest(o, p)
        /\ \A o \in handling : \E p \in handling' : SameRequest(o, p)
    BY <2>1, <2>3
  <2> QED
    BY <2>2, <2>4, FrameCarried
<1>5. ASSUME NEW w \in waiting, SendContent(w) PROVE Frame'
  BY <1>1, <1>5 DEF SendContent, serverVars
<1>6. ASSUME NEW m \in responses, TakeResponse(m) PROVE Frame'
  <2>1. UNCHANGED <<syncClients, openStores, listener, wire, frames, handled, overtaken, refused,
                    subscribed, handling>>
    BY <1>6, Took DEF serverVars, requestVars, handledVars
  <2>2. \A c \in Clients : /\ replica'[c].open = replica[c].open
                           /\ replica'[c].cut = replica[c].cut
    <3>1. CASE Takes(m.to)
      <4>1. replica' = [replica EXCEPT ![m.to] = Taking(m.to, m.body)]
        BY <1>6, <3>1, Took
      <4>2. /\ Taking(m.to, m.body).open = replica[m.to].open
            /\ Taking(m.to, m.body).cut = replica[m.to].cut
        BY DEF Taking
      <4> QED
        BY <4>1, <4>2 DEF Types, ClientTypes
    <3>2. CASE ~Takes(m.to)
      BY <1>6, <3>2, Took
    <3> QED
      BY <3>1, <3>2
  <2> QED
    BY <2>1, <2>2, FrameCarried DEF SameRequest
<1>7. ASSUME NEW c \in Clients, InitializeGalactic(c) PROVE Frame'
  <2>1. UNCHANGED <<syncClients, openStores, listener, wire, frames, handled, overtaken, refused,
                    subscribed, handling>>
    BY <1>7 DEF InitializeGalactic, serverVars, requestVars, handledVars
  <2>2. PICK new \in Replicas :
           /\ replica' = [replica EXCEPT ![c] = new]
           /\ new = [open |-> replica[c].open, items |-> replica[c].items,
                     version |-> replica[c].version, ready |-> TRUE, filling |-> FALSE,
                     filled |-> replica[c].filled, cut |-> replica[c].cut]
    BY <1>7, Initialized
  <2>3. new.open = replica[c].open /\ new.cut = replica[c].cut
    BY <2>2
  <2>4. \A d \in Clients : /\ replica'[d].open = replica[d].open
                           /\ replica'[d].cut = replica[d].cut
    BY <2>2, <2>3 DEF Types, ClientTypes
  <2> QED
    BY <2>1, <2>4, FrameCarried DEF SameRequest
<1>8. ASSUME NEW c \in Clients, Receive(c) PROVE Frame'
  <2>1. PICK f : Arrives(c, f) /\ (ComesUp(c, f) \/ GoesDown(c, f) \/ Asked(c, f))
    BY <1>8, Arrived DEF Frame
  <2> QED
    BY <2>1, ArrivedFrame
<1>9. ASSUME NEW c \in Clients,
             \/ SubscribeChannel(c) \/ UnsubscribeChannel(c)
             \/ OpenGalacticStore(c) \/ ResetGalactic(c) \/ OnDestroy(c)
             \/ \E i \in Ids, v \in Held : SendUpdateStore(c, i, v)
      PROVE  Frame'
  BY <1>9, Moved, MovedFrame
<1> QED
  BY <1>2, <1>3, <1>4, <1>5, <1>6, <1>7, <1>8, <1>9, <1>10, <1>11, Steps,
     FoundNone, HandledFrame
-----------------------------------------------------------------------------
(***************************************************************************)
(* What responses and changes say of the stores.                           *)
(***************************************************************************)
\* Genuine, after the step.
StaysGenuine(i, on, version, value) ==
  /\ on \in DOMAIN stores' /\ version \in 1 .. stores'[on].version
  /\ version = stores'[on].version => value = stores'[on].items[i] \/ on \in silent'
  /\ version = 1 => on \in told'

LEMMA Versions ==
  ASSUME StoreTypes, NEW on \in DOMAIN stores
  PROVE  /\ on \in Nat /\ on <= Len(stores) /\ stores[on] \in Objects
         /\ stores[on].version \in 1 .. MaxChanges + 1 /\ stores[on].version \in Nat
         /\ stores[on].items \in [Ids -> Held]
<1>1. on \in 1 .. Len(stores) /\ Len(stores) \in Nat
  BY DEF StoreTypes
<1>2. stores[on] \in Objects /\ stores[on].version \in 1 .. commits + 1
  BY DEF StoreTypes
<1>3. stores[on].version \in 1 .. MaxChanges + 1
  BY <1>2, BoundAssumption DEF StoreTypes
<1> QED
  BY <1>1, <1>2, <1>3 DEF Objects

\* Which store an update and a change at the server are made to.
LEMMA Commits ==
  ASSUME Types
  PROVE  /\ \A q \in handling : UpdateStore(q) =>
              \/ \E s \in DOMAIN stores, i \in Ids, v \in Held : Commit(s, i, v)
              \/ UNCHANGED <<stores, commits, changes>>
         /\ \A i \in Ids, v \in Held : PutOrRemove(i, v) =>
              current \in DOMAIN stores /\ Commit(current, i, v)
<1>1. ASSUME NEW q \in handling, UpdateStore(q)
      PROVE  \/ \E s \in DOMAIN stores, i \in Ids, v \in Held : Commit(s, i, v)
             \/ UNCHANGED <<stores, commits, changes>>
  <2>1. q.frame \in Frames /\ q.frame.id \in Ids
    BY <1>1 DEF Types, SyncTypes, Requests, UpdateStore
  <2>2. q.frame.value \in Held
    BY <2>1 DEF Frames, Held
  <2>3. q.found \in 0 .. Len(stores) /\ q.found # 0 /\ StoreTypes
    BY <1>1 DEF Types, SyncTypes, UpdateStore
  <2>4. DOMAIN stores = 1 .. Len(stores) /\ Len(stores) \in Nat
    BY <2>3 DEF StoreTypes
  <2>5. stores[q.found].now \in DOMAIN stores
    BY <2>3, <2>4, NowRule
  <2>6. \/ Commit(stores[q.found].now, q.frame.id, q.frame.value)
        \/ UNCHANGED <<stores, commits, changes>>
    BY <1>1 DEF UpdateStore
  <2> QED
    BY <2>1, <2>2, <2>5, <2>6
<1> QED
  BY <1>1, NowRule DEF PutOrRemove, Types

\* What was told, and populated after that, remains so.
LEMMA ToldGrows ==
  ASSUME Types, [Next]_vars
  PROVE  told \subseteq told' /\ silent \subseteq silent'
<1>1. CASE \/ Initialize \/ CreateStore \/ DestroyStore \/ Reset \/ UNCHANGED vars
           \/ \E ch \in changes : Notify(ch)
           \/ \E i \in Ids, v \in Held : PutOrRemove(i, v)
  BY <1>1 DEF Initialize, CreateStore, DestroyStore, Reset, Notify, PutOrRemove, vars,
              serverVars, toldVars
<1>2. ASSUME NEW m \in [Ids -> Values], Populate(m) PROVE told \subseteq told' /\ silent \subseteq silent'
  BY <1>2 DEF Populate
<1>3. ASSUME NEW q \in handling, LookUp(q) \/ FindNone(q) \/ UpdateStore(q)
      PROVE  UNCHANGED toldVars
  BY <1>3 DEF LookUp, FindNone, Handles, UpdateStore, serverVars
<1>4. ASSUME NEW q \in handling, OpenStore(q) \/ CloseStore(q) PROVE UNCHANGED toldVars
  BY <1>4, Handled
<1>5. ASSUME NEW w \in waiting, SendContent(w) PROVE told \subseteq told' /\ silent \subseteq silent'
  BY <1>5 DEF SendContent
<1>6. ASSUME NEW m \in responses, TakeResponse(m) PROVE UNCHANGED toldVars
  BY <1>6, Took DEF serverVars
<1>7. ASSUME NEW c \in Clients, Receive(c) \/ InitializeGalactic(c) PROVE UNCHANGED toldVars
  BY <1>7 DEF Receive, InitializeGalactic, serverVars
<1>8. ASSUME NEW c \in Clients,
             \/ SubscribeChannel(c) \/ UnsubscribeChannel(c)
             \/ OpenGalacticStore(c) \/ ResetGalactic(c) \/ OnDestroy(c)
             \/ \E i \in Ids, v \in Held : SendUpdateStore(c, i, v)
      PROVE  UNCHANGED toldVars
  BY <1>8, Moved DEF Move, serverVars
<1>9. UNCHANGED toldVars => told \subseteq told' /\ silent \subseteq silent'
  BY DEF toldVars
<1> QED
  BY <1>1, <1>2, <1>3, <1>4, <1>5, <1>6, <1>7, <1>8, <1>9, Steps

\* A change of a store.
LEMMA CommitGenuine ==
  ASSUME StoreTypes, NEW s \in DOMAIN stores, NEW j \in Ids, NEW v \in Held, Commit(s, j, v),
         told \subseteq told', silent \subseteq silent'
  PROVE  /\ \A i \in Ids : \A on, version, value :
              Genuine(i, on, version, value) => StaysGenuine(i, on, version, value)
         /\ \A ch \in changes' : ch \in changes \/
              /\ ch = [on |-> s, id |-> j, value |-> v, version |-> stores[s].version + 1]
              /\ StaysGenuine(ch.id, ch.on, ch.version, ch.value)
<1>1. /\ DOMAIN stores' = DOMAIN stores
      /\ \A o \in DOMAIN stores : o # s => stores'[o] = stores[o]
      /\ stores'[s].items = [stores[s].items EXCEPT ![j] = v]
      /\ stores'[s].version = stores[s].version + 1
      /\ stores[s].items \in [Ids -> Held]
  BY Committed
<1>2. stores[s].version \in Nat /\ stores[s].version >= 1
  BY <1>1, Versions
<1>3. ASSUME NEW i \in Ids, NEW on, NEW version, NEW value, Genuine(i, on, version, value)
      PROVE  StaysGenuine(i, on, version, value)
  <2>1. CASE on = s
    <3>1. version \in 1 .. stores[s].version /\ (version = 1 => s \in told)
      BY <1>3, <2>1 DEF Genuine
    <3>2. version # stores[s].version + 1 /\ version \in 1 .. stores[s].version + 1
      BY <1>2, <3>1
    <3> QED
      BY <1>1, <2>1, <3>1, <3>2 DEF StaysGenuine
  <2>2. CASE on # s
    BY <1>1, <1>3, <2>2 DEF Genuine, StaysGenuine
  <2> QED
    BY <2>1, <2>2
<1>4. changes' = changes \cup {[on |-> s, id |-> j, value |-> v,
                                version |-> stores[s].version + 1]}
  BY DEF Commit, NextVersion
<1>5. stores[s].version + 1 # 1
        /\ stores[s].version + 1 \in 1 .. stores[s].version + 1
  BY <1>2
<1>6. StaysGenuine(j, s, stores[s].version + 1, v)
  BY <1>1, <1>5 DEF StaysGenuine
<1> QED
  BY <1>3, <1>4, <1>6

\* A new incarnation leaves what the others hold.
LEMMA Appended ==
  ASSUME Types, CreateStore \/ Reset
  PROVE  /\ current' = Len(stores) + 1 /\ current' \in DOMAIN stores' /\ current' \notin DOMAIN stores
         /\ \A o \in DOMAIN stores :
              /\ o \in DOMAIN stores' /\ stores'[o].items = stores[o].items
              /\ stores'[o].version = stores[o].version
              /\ stores'[o].ready = stores[o].ready
<1> DEFINE next == Len(stores) + 1
           old == IF CreateStore THEN stores
                  ELSE [s \in DOMAIN stores |->
                         IF stores[s].now = current THEN [stores[s] EXCEPT !.now = next]
                                                    ELSE stores[s]]
<1>1. current' = next /\ stores' = Append(old, NewStore(next))
  BY DEF CreateStore, Reset
<1>2. /\ DOMAIN stores = 1 .. Len(stores) /\ Len(stores) \in Nat
      /\ \A o \in DOMAIN stores : stores[o] \in Objects
  BY DEF Types, StoreTypes
<1>3. ASSUME NEW o \in DOMAIN stores
      PROVE  /\ old[o] \in Objects /\ old[o].items = stores[o].items
             /\ old[o].version = stores[o].version /\ old[o].ready = stores[o].ready
  <2>1. stores[o] \in Objects /\ next \in Nat
    BY <1>2
  <2>2. /\ [stores[o] EXCEPT !.now = next] \in Objects
        /\ [stores[o] EXCEPT !.now = next].items = stores[o].items
        /\ [stores[o] EXCEPT !.now = next].version = stores[o].version
        /\ [stores[o] EXCEPT !.now = next].ready = stores[o].ready
    BY <2>1 DEF Objects
  <2>3. old[o] \in {stores[o], [stores[o] EXCEPT !.now = next]}
    OBVIOUS
  <2> HIDE DEF old, next
  <2> QED
    BY <2>1, <2>2, <2>3
<1>4. old \in Seq(Objects) /\ Len(old) = Len(stores)
  <2>1. stores \in Seq(Objects)
    BY DEF Types, StoreTypes
  <2>2. CASE CreateStore
    BY <2>1, <2>2
  <2>3. CASE ~CreateStore
    <3>1. DOMAIN old = 1 .. Len(stores) /\ old \in [1 .. Len(stores) -> Objects]
      BY <1>2, <1>3, <2>3
    <3> HIDE DEF old
    <3> QED
      BY <1>2, <3>1
  <2> QED
    BY <2>2, <2>3
<1>5. NewStore(next) \in Objects
  BY <1>2 DEF NewStore, Objects, Empty, Held
<1> HIDE DEF old
<1>6. /\ DOMAIN stores' = 1 .. next /\ \A o \in DOMAIN stores : stores'[o] = old[o]
  BY <1>1, <1>2, <1>4, <1>5
<1>7. next \in DOMAIN stores' /\ next \notin DOMAIN stores
        /\ \A o \in DOMAIN stores : o \in DOMAIN stores'
  BY <1>2, <1>6
<1> QED
  BY <1>1, <1>3, <1>6, <1>7

LEMMA GenuineStores ==
  ASSUME Types, [Next]_vars
  PROVE  \A i \in Ids : \A on, version, value :
           Genuine(i, on, version, value) => StaysGenuine(i, on, version, value)
<1> DEFINE Goal == \A i \in Ids : \A on, version, value :
                     Genuine(i, on, version, value) => StaysGenuine(i, on, version, value)
<1>13. told \subseteq told' /\ silent \subseteq silent'
  BY ToldGrows
<1>1. ASSUME stores' = stores PROVE Goal
  BY <1>1, <1>13 DEF Genuine, StaysGenuine
<1>2. ASSUME NEW s \in DOMAIN stores, NEW i \in Ids, NEW v \in Held, Commit(s, i, v) PROVE Goal
  BY <1>2, <1>13, CommitGenuine DEF Types
<1>3. ASSUME Initialize PROVE Goal
  <2>1. current \in DOMAIN stores /\ stores[current] \in Objects /\ stores \in Seq(Objects)
    BY <1>3 DEF Types, StoreTypes, Initialize
  <2>2. stores' = [stores EXCEPT ![current] = [stores[current] EXCEPT !.ready = TRUE]]
    BY <1>3 DEF Initialize
  <2> DEFINE new == [stores[current] EXCEPT !.ready = TRUE]
  <2>3. new.items = stores[current].items /\ new.version = stores[current].version
    BY <2>1 DEF Objects
  <2>4. /\ DOMAIN stores' = DOMAIN stores /\ stores'[current] = new
        /\ \A o \in DOMAIN stores : o # current => stores'[o] = stores[o]
    BY <2>1, <2>2
  <2> HIDE DEF new
  <2> QED
    BY <1>13, <2>3, <2>4 DEF Genuine, StaysGenuine
<1>4. ASSUME CreateStore \/ Reset PROVE Goal
  BY <1>4, <1>13, Appended DEF Genuine, StaysGenuine
<1>5. ASSUME NEW m \in [Ids -> Values], Populate(m) PROVE Goal
  <2>1. current \in DOMAIN stores /\ stores \in Seq(Objects) /\ stores[current] \in Objects
    BY <1>5 DEF Types, StoreTypes, Populate
  <2>2. /\ DOMAIN stores' = DOMAIN stores
        /\ \A o \in DOMAIN stores : o # current => stores'[o] = stores[o]
    BY <1>5, <2>1 DEF Populate
  <2>5. stores'[current].version = stores[current].version
    <3>1. stores' = [stores EXCEPT ![current] =
                       [[stores[current] EXCEPT !.ready = TRUE] EXCEPT !.items = m]]
      BY <1>5, <2>1 DEF Populate
    <3>2. PICK b : b = TRUE
      OBVIOUS
    <3>3. [[stores[current] EXCEPT !.ready = b] EXCEPT !.items = m]
            = [items |-> m, version |-> stores[current].version, ready |-> b,
               now |-> stores[current].now]
      BY <2>1, PopulatedObject
    <3>4. stores'[current] = [[stores[current] EXCEPT !.ready = b] EXCEPT !.items = m]
      BY <2>1, <3>1, <3>2
    <3> QED
      BY <3>3, <3>4
  <2>3. current \in told \/ stores[current].version > 1 => current \in silent'
    BY <1>5 DEF Populate
  <2> SUFFICES ASSUME NEW i \in Ids, NEW on, NEW version, NEW value,
                      Genuine(i, on, version, value)
               PROVE  StaysGenuine(i, on, version, value)
    OBVIOUS
  <2>4. CASE on # current
    BY <1>13, <2>2, <2>4 DEF Genuine, StaysGenuine
  <2>6. CASE on = current
    <3>1. version \in 1 .. stores[current].version /\ (version = 1 => current \in told)
      BY <2>6 DEF Genuine
    <3>2. stores[current].version \in Nat
      BY <2>1 DEF Objects
    <3>3. version = stores[current].version => current \in silent'
      BY <2>3, <3>1, <3>2
    <3> QED
      BY <1>13, <2>2, <2>5, <2>6, <3>1, <3>3, <2>1 DEF StaysGenuine
  <2> QED
    BY <2>4, <2>6
<1>6. ASSUME NEW q \in handling, UpdateStore(q) PROVE Goal
  BY <1>1, <1>2, <1>6, Commits
<1>7. ASSUME NEW c \in Clients,
             \/ SubscribeChannel(c) \/ UnsubscribeChannel(c)
             \/ OpenGalacticStore(c) \/ ResetGalactic(c) \/ OnDestroy(c)
             \/ \E i \in Ids, v \in Held : SendUpdateStore(c, i, v)
      PROVE  stores' = stores
  BY <1>7, Moved DEF Move, serverVars
<1>8. ASSUME NEW i \in Ids, NEW v \in Held, PutOrRemove(i, v) PROVE Goal
  BY <1>2, <1>8, Commits
<1>9. ASSUME \/ DestroyStore
             \/ \E ch \in changes : Notify(ch)
             \/ \E q \in handling : LookUp(q) \/ FindNone(q) \/ OpenStore(q) \/ CloseStore(q)
             \/ \E w \in waiting : SendContent(w)
             \/ \E m \in responses : TakeResponse(m)
             \/ \E c \in Clients : Receive(c) \/ InitializeGalactic(c)
             \/ UNCHANGED vars
      PROVE  stores' = stores
  <2>1. ASSUME NEW q \in handling, OpenStore(q) \/ CloseStore(q) PROVE stores' = stores
    BY <2>1, Handled
  <2>7. ASSUME NEW q \in handling, LookUp(q) \/ FindNone(q) PROVE stores' = stores
    BY <2>7 DEF LookUp, FindNone, Handles, serverVars
  <2>2. ASSUME NEW m \in responses, TakeResponse(m) PROVE stores' = stores
    BY <2>2, Took DEF serverVars
  <2>3. ASSUME NEW ch \in changes, Notify(ch) PROVE stores' = stores
    BY <2>3 DEF Notify
  <2>4. ASSUME NEW w \in waiting, SendContent(w) PROVE stores' = stores
    BY <2>4 DEF SendContent, serverVars
  <2>5. ASSUME NEW c \in Clients, Receive(c) \/ InitializeGalactic(c) PROVE stores' = stores
    BY <2>5 DEF Receive, InitializeGalactic, serverVars
  <2>6. DestroyStore \/ UNCHANGED vars => stores' = stores
    BY DEF DestroyStore, vars, serverVars
  <2> QED
    BY <1>9, <2>1, <2>2, <2>3, <2>4, <2>5, <2>6, <2>7
<1> HIDE DEF Goal
<1>11. \/ Initialize \/ CreateStore \/ Reset \/ stores' = stores
       \/ \E m \in [Ids -> Values] : Populate(m)
       \/ \E q \in handling : UpdateStore(q)
       \/ \E i \in Ids, v \in Held : PutOrRemove(i, v)
  BY <1>7, <1>9, Steps, Zenon
<1>12. Goal
  BY <1>1, <1>3, <1>4, <1>5, <1>6, <1>8, <1>11, Zenon
<1> QED
  BY <1>12 DEF Goal

\* The response a change becomes, and the one a callback of openStore sends.
News(ch) == [kind |-> "update", on |-> ch.on, version |-> ch.version,
             id |-> ch.id, value |-> ch.value]
NowOf(w) == stores[w.on].now
ContentOf(w) == [kind |-> "content", on |-> NowOf(w), version |-> stores[NowOf(w)].version,
                 items |-> stores[NowOf(w)].items, n |-> w.n]

LEMMA Notified ==
  ASSUME Types, NEW ch \in changes, Notify(ch)
  PROVE  /\ ch \in Changed /\ ch.id \in Ids
         /\ responses \subseteq responses' /\ changes' = changes \ {ch}
         /\ \A m \in responses' : m \in responses \/ m.body = News(ch)
         /\ listener # None /\ listener.on = stores[ch.on].now =>
              \A c \in listener.channels : syncClients[c] # 0 =>
                \E m \in responses' : m.to = c /\ m.body = News(ch)
<1>1. ch \in Changed /\ changes' = changes \ {ch}
  BY DEF Types, StoreTypes, Notify
<1>2. ch.id \in Ids
  BY <1>1 DEF Changed
<1>3. CASE listener # None /\ listener.on = stores[ch.on].now
  <2>1. responses' = responses \cup {[to |-> c, body |-> News(ch)] :
                       c \in {d \in listener.channels : syncClients[d] # 0}}
    BY <1>3 DEF Notify, Respond, News
  <2>2. \A m \in responses' : m \in responses \/ m.body = News(ch)
    BY <2>1
  <2>3. ASSUME NEW c \in listener.channels, syncClients[c] # 0
        PROVE  \E m \in responses' : m.to = c /\ m.body = News(ch)
    <3> DEFINE m == [to |-> c, body |-> News(ch)]
    <3>1. m \in responses'
      BY <2>1, <2>3
    <3>2. m.to = c /\ m.body = News(ch)
      OBVIOUS
    <3> QED
      BY <3>1, <3>2
  <2> QED
    BY <1>1, <1>2, <2>1, <2>2, <2>3
<1>4. CASE ~(listener # None /\ listener.on = stores[ch.on].now)
  BY <1>1, <1>2, <1>4 DEF Notify
<1> QED
  BY <1>3, <1>4

LEMMA ContentSent ==
  ASSUME Types, NEW w \in waiting, SendContent(w)
  PROVE  /\ w.client \in Clients /\ w.on \in DOMAIN stores /\ stores[w.on].ready
         /\ NowOf(w) \in DOMAIN stores /\ NowOf(w) \in told'
         /\ responses \subseteq responses' /\ waiting' = waiting \ {w}
         /\ \A m \in responses' : m \in responses \/ (m.to = w.client /\ m.body = ContentOf(w))
         /\ syncClients[w.client] # 0 =>
              \E m \in responses' : m.to = w.client /\ m.body = ContentOf(w)
<1>1. w.client \in Clients /\ w.on \in DOMAIN stores
  BY DEF Types, SyncTypes, Waiting
<1>2. responses' = responses \cup {[to |-> c, body |-> ContentOf(w)] :
                     c \in {d \in {w.client} : syncClients[d] # 0}}
  BY DEF SendContent, Respond, ContentOf, NowOf
<1>3. waiting' = waiting \ {w} /\ stores[w.on].ready /\ NowOf(w) \in told'
  BY DEF SendContent, NowOf
<1>6. NowOf(w) \in DOMAIN stores
  BY <1>1, NowRule DEF NowOf, Types
<1>4. \A m \in responses' : m \in responses \/ (m.to = w.client /\ m.body = ContentOf(w))
  BY <1>2
<1>5. ASSUME syncClients[w.client] # 0
      PROVE  \E m \in responses' : m.to = w.client /\ m.body = ContentOf(w)
  <2> DEFINE m == [to |-> w.client, body |-> ContentOf(w)]
  <2>1. m \in responses'
    BY <1>2, <1>5
  <2>2. m.to = w.client /\ m.body = ContentOf(w)
    OBVIOUS
  <2> QED
    BY <2>1, <2>2
<1> QED
  BY <1>1, <1>2, <1>3, <1>4, <1>5, <1>6

\* Who says something new.
LEMMA Sources ==
  ASSUME Types, [Next]_vars
  PROVE  /\ \/ \E ch \in changes : Notify(ch)
            \/ \E w \in waiting : SendContent(w)
            \/ responses' \subseteq responses
         /\ \/ \E s \in DOMAIN stores, i \in Ids, v \in Held : Commit(s, i, v)
            \/ changes' \subseteq changes
         /\ \/ \E m \in responses : TakeResponse(m)
            \/ \E c \in Clients : \E f : Opens(c, f)
            \/ seen' = seen
<1> DEFINE Kept == responses' \subseteq responses /\ changes' \subseteq changes /\ seen' = seen
<1>1. ASSUME Initialize \/ CreateStore \/ DestroyStore \/ Reset \/ UNCHANGED vars PROVE Kept
  BY <1>1 DEF Initialize, CreateStore, DestroyStore, Reset, vars, serverVars, takenVars
<1>2. ASSUME NEW m \in [Ids -> Values], Populate(m) PROVE Kept
  BY <1>2 DEF Populate, takenVars
<1>3. ASSUME NEW c \in Clients, Receive(c) \/ InitializeGalactic(c) PROVE Kept
  BY <1>3 DEF Receive, InitializeGalactic, takenVars, serverVars
<1>4. ASSUME NEW q \in handling, OpenStore(q) \/ CloseStore(q) PROVE Kept
  BY <1>4, Handled DEF takenVars
<1>11. ASSUME NEW q \in handling, LookUp(q) \/ FindNone(q) PROVE Kept
  BY <1>11 DEF LookUp, FindNone, Handles, serverVars, takenVars
<1>5. ASSUME NEW ch \in changes, Notify(ch) PROVE changes' \subseteq changes /\ seen' = seen
  BY <1>5 DEF Notify, takenVars
<1>6. ASSUME NEW w \in waiting, SendContent(w) PROVE changes' \subseteq changes /\ seen' = seen
  BY <1>6 DEF SendContent, serverVars, takenVars
<1>7. ASSUME NEW m \in responses, TakeResponse(m)
      PROVE  responses' \subseteq responses /\ changes' \subseteq changes
  BY <1>7, Took DEF serverVars
<1>8. ASSUME NEW i \in Ids, NEW v \in Held, PutOrRemove(i, v)
      PROVE  /\ \E s \in DOMAIN stores, k \in Ids, x \in Held : Commit(s, k, x)
             /\ responses' \subseteq responses /\ seen' = seen
  BY <1>8, Commits DEF PutOrRemove, takenVars
<1>9. ASSUME NEW q \in handling, UpdateStore(q)
      PROVE  /\ \/ \E s \in DOMAIN stores, i \in Ids, v \in Held : Commit(s, i, v)
                \/ changes' \subseteq changes
             /\ responses' \subseteq responses /\ seen' = seen
  BY <1>9, Commits DEF UpdateStore, takenVars
<1>10. ASSUME NEW c \in Clients,
             \/ SubscribeChannel(c) \/ UnsubscribeChannel(c)
             \/ OpenGalacticStore(c) \/ ResetGalactic(c) \/ OnDestroy(c)
             \/ \E i \in Ids, v \in Held : SendUpdateStore(c, i, v)
      PROVE  /\ responses' \subseteq responses /\ changes' \subseteq changes
             /\ (\E f : Opens(c, f)) \/ seen' = seen
  <2>1. PICK f : Move(c, f)
    BY <1>10, Moved
  <2>2. seen' = seen \/ Opens(c, f)
    BY <2>1 DEF Move, Joins, Leaves, Closes, Asks
  <2> QED
    BY <2>1, <2>2 DEF Move, serverVars
<1> QED
  BY <1>1, <1>2, <1>3, <1>4, <1>5, <1>6, <1>7, <1>8, <1>9, <1>10, <1>11,
     Steps

LEMMA GenuineInitially == Init => AllGenuine
BY DEF Init, AllGenuine, Unseen

LEMMA GenuineStep == Types /\ AllGenuine /\ [Next]_vars => AllGenuine'
<1> SUFFICES ASSUME Types, AllGenuine, [Next]_vars PROVE AllGenuine'
  OBVIOUS
<1>1. \A i \in Ids : \A on, version, value :
        Genuine(i, on, version, value) => StaysGenuine(i, on, version, value)
  BY GenuineStores
<1>2. /\ \A m \in responses : m.body \in Updates \cup Contents
      /\ \A ch \in changes : ch.id \in Ids
      /\ \A w \in waiting : w.on \in DOMAIN stores
      /\ StoreTypes
  BY DEF Types, SyncTypes, StoreTypes, Responses, Changed
<1>3. \A m \in responses', i \in Ids : Mentions(m.body, i) =>
        StaysGenuine(i, m.body.on, m.body.version, ValueOf(m.body, i))
  <2> SUFFICES ASSUME NEW m \in responses', NEW i \in Ids, Mentions(m.body, i)
               PROVE  StaysGenuine(i, m.body.on, m.body.version, ValueOf(m.body, i))
    OBVIOUS
  <2>1. CASE m \in responses
    BY <1>1, <2>1 DEF AllGenuine
  <2>2. ASSUME NEW ch \in changes, Notify(ch), m \notin responses
        PROVE  StaysGenuine(i, m.body.on, m.body.version, ValueOf(m.body, i))
    <3>1. m.body = News(ch)
      BY <2>2, Notified
    <3>2. /\ m.body.on = ch.on /\ m.body.version = ch.version /\ i = ch.id
          /\ ValueOf(m.body, i) = ch.value
      BY <3>1 DEF News, Mentions, ValueOf
    <3>3. Genuine(ch.id, ch.on, ch.version, ch.value)
      BY DEF AllGenuine
    <3> QED
      BY <1>1, <3>2, <3>3
  <2>3. ASSUME NEW w \in waiting, SendContent(w), m \notin responses
        PROVE  StaysGenuine(i, m.body.on, m.body.version, ValueOf(m.body, i))
    <3> DEFINE now == NowOf(w)
    <3>1. m.body = ContentOf(w) /\ now \in DOMAIN stores /\ now \in told'
      BY <2>3, ContentSent
    <3>2. /\ m.body.on = now /\ m.body.version = stores[now].version
          /\ ValueOf(m.body, i) = stores[now].items[i]
      BY <3>1 DEF ContentOf, ValueOf
    <3>4. stores' = stores
      BY <2>3 DEF SendContent
    <3> HIDE DEF now
    <3>3. stores[now].version \in 1 .. stores[now].version
      BY <1>2, <3>1, Versions
    <3> QED
      BY <3>1, <3>2, <3>3, <3>4 DEF StaysGenuine
  <2> QED
    BY <2>1, <2>2, <2>3, Sources
<1>4. \A ch \in changes' : StaysGenuine(ch.id, ch.on, ch.version, ch.value)
  <2>1. \A ch \in changes : StaysGenuine(ch.id, ch.on, ch.version, ch.value)
    BY <1>1, <1>2 DEF AllGenuine
  <2>2. ASSUME NEW s \in DOMAIN stores, NEW i \in Ids, NEW v \in Held, Commit(s, i, v)
        PROVE  \A ch \in changes' : ch \in changes \/
                 StaysGenuine(ch.id, ch.on, ch.version, ch.value)
    BY <1>2, <2>2, CommitGenuine, ToldGrows
  <2> QED
    BY <2>1, <2>2, Sources
<1>5. ASSUME NEW c \in Clients, NEW i \in Ids
      PROVE  \/ seen'[c][i] = [stamp |-> 0, value |-> None]
             \/ \E on, version \in Nat :
                  /\ seen'[c][i] = Report(on, version, seen'[c][i].value)
                  /\ StaysGenuine(i, on, version, seen'[c][i].value)
  <2>1. seen'[c][i] = seen[c][i] =>
             \/ seen'[c][i] = [stamp |-> 0, value |-> None]
             \/ \E on, version \in Nat :
                  /\ seen'[c][i] = Report(on, version, seen'[c][i].value)
                  /\ StaysGenuine(i, on, version, seen'[c][i].value)
    <3>1. \/ seen[c][i] = [stamp |-> 0, value |-> None]
          \/ \E on, version \in Nat :
               /\ seen[c][i] = Report(on, version, seen[c][i].value)
               /\ Genuine(i, on, version, seen[c][i].value)
      BY DEF AllGenuine
    <3> QED
      BY <1>1, <3>1
  <2>2. seen \in [Clients -> [Ids -> Reported]]
    BY DEF Types, ClientTypes
  <2>3. ASSUME NEW m \in responses, TakeResponse(m), seen'[c][i] # seen[c][i]
        PROVE  \E on, version \in Nat :
                 /\ seen'[c][i] = Report(on, version, seen'[c][i].value)
                 /\ StaysGenuine(i, on, version, seen'[c][i].value)
    <3>1. Takes(m.to)
      BY <2>3, Took
    <3>2. seen' = [seen EXCEPT ![m.to] = [k \in Ids |-> SeenAfter(m.to, m.body, k)]]
      BY <2>3, <3>1, Took
    <3>3. m.to = c /\ seen'[c][i] = SeenAfter(c, m.body, i)
      BY <2>2, <2>3, <3>2
    <3>4. /\ Mentions(m.body, i)
          /\ seen'[c][i] = Report(m.body.on, m.body.version, ValueOf(m.body, i))
      BY <2>3, <3>3 DEF SeenAfter
    <3>5. seen'[c][i].value = ValueOf(m.body, i)
      BY <3>4 DEF Report
    <3>6. m.body.on \in Nat /\ m.body.version \in Nat
      BY <1>2, Response
    <3>7. StaysGenuine(i, m.body.on, m.body.version, ValueOf(m.body, i))
      BY <1>1, <3>4 DEF AllGenuine
    <3> QED
      BY <3>4, <3>5, <3>6, <3>7
  <2>4. ASSUME NEW d \in Clients, NEW f, Opens(d, f), seen'[c][i] # seen[c][i]
        PROVE  seen'[c][i] = [stamp |-> 0, value |-> None]
    BY <2>2, <2>4 DEF Opens, Unseen
  <2> QED
    BY <2>1, <2>3, <2>4, Sources
<1> QED
  BY <1>3, <1>4, <1>5 DEF AllGenuine, Genuine, StaysGenuine
-----------------------------------------------------------------------------
(***************************************************************************)
(* What a client has taken.                                                *)
(***************************************************************************)
FilledRule(c) ==
  /\ replica[c].filled => replica[c].filling \/ replica[c].ready
  /\ c \notin interrupted => (replica[c].filling \/ replica[c].ready => replica[c].filled)
  /\ c \notin reordered => (replica[c].open =>
       \A i \in Ids : seen[c][i].value = replica[c].items[i] /\ seen[c][i].stamp <= newest[c])

LEMMA FilledRules == ReplicasFilled <=> \A c \in Clients : FilledRule(c)
BY DEF ReplicasFilled, FilledRule

\* Who changes what a client has.
LEMMA ClientSources ==
  ASSUME Types, [Next]_vars
  PROVE  \/ \E m \in responses : TakeResponse(m)
         \/ \E c \in Clients : InitializeGalactic(c) \/ \E f : Move(c, f)
         \/ UNCHANGED <<replica, interrupted, reordered, seen, newest, subscribed>>
<1> DEFINE Kept == UNCHANGED <<replica, interrupted, reordered, seen, newest, subscribed>>
<1>1. CASE \/ Initialize \/ CreateStore \/ DestroyStore \/ Reset \/ UNCHANGED vars
           \/ \E ch \in changes : Notify(ch)
           \/ \E i \in Ids, v \in Held : PutOrRemove(i, v)
           \/ \E m \in [Ids -> Values] : Populate(m)
  <2>1. UNCHANGED <<clientVars, takenVars>>
    BY <1>1 DEF Initialize, CreateStore, DestroyStore, Reset, Notify, PutOrRemove, Populate, vars
  <2> QED
    BY <2>1 DEF clientVars, takenVars
<1>2. ASSUME NEW q \in handling, OpenStore(q) \/ CloseStore(q) \/ UpdateStore(q) PROVE Kept
  <2>1. UNCHANGED <<clientVars, takenVars>>
    BY <1>2, Handled DEF UpdateStore
  <2> QED
    BY <2>1 DEF clientVars, takenVars
<1>5. ASSUME NEW q \in handling, LookUp(q) \/ FindNone(q) PROVE Kept
  BY <1>5 DEF LookUp, FindNone, Handles, clientVars, takenVars
<1>3. ASSUME NEW w \in waiting, SendContent(w) PROVE Kept
  BY <1>3 DEF SendContent, clientVars, takenVars
<1>4. ASSUME NEW c \in Clients, Receive(c) PROVE Kept
  BY <1>4 DEF Receive, takenVars
<1> QED
  BY <1>1, <1>2, <1>3, <1>4, <1>5, Steps, Moved

LEMMA FilledInitially == Init => ReplicasFilled
<1>1. ASSUME Init, NEW c \in Clients PROVE FilledRule(c)
  <2>1. ~NoReplica.filled /\ ~NoReplica.filling /\ ~NoReplica.ready /\ ~NoReplica.open
    BY DEF NoReplica
  <2>2. replica[c] = NoReplica
    BY <1>1 DEF Init
  <2> QED
    BY <2>1, <2>2 DEF FilledRule
<1> QED
  BY <1>1, FilledRules

LEMMA FilledStep == Types /\ ReplicasFilled /\ [Next]_vars => ReplicasFilled'
<1> SUFFICES ASSUME Types, ReplicasFilled, [Next]_vars, NEW c \in Clients PROVE FilledRule(c)'
  BY DEF ReplicasFilled, FilledRule
<1>1. FilledRule(c)
  BY FilledRules
<1>2. /\ replica \in [Clients -> Replicas] /\ seen \in [Clients -> [Ids -> Reported]]
      /\ newest \in [Clients -> Nat]
  BY DEF Types, ClientTypes
<1>3. replica[c] \in Replicas /\ replica[c].items \in [Ids -> Held]
  BY <1>2 DEF Replicas
<1>4. CASE UNCHANGED <<replica, interrupted, reordered, seen, newest, subscribed>>
  BY <1>1, <1>4 DEF FilledRule
<1>5. ASSUME NEW m \in responses, TakeResponse(m) PROVE FilledRule(c)'
  <2>1. /\ m.body \in Updates \cup Contents /\ interrupted' = interrupted
    BY <1>5, Took
  <2>2. CASE m.to = c /\ Takes(c)
    <3> DEFINE r == m.body
               s == Stamp(r.on, r.version)
    <3>1. s \in Nat /\ r.kind \in {"update", "content"}
      BY <2>1, Response
    <3>2. /\ replica' = [replica EXCEPT ![c] = Taking(c, r)]
          /\ newest' = [newest EXCEPT ![c] = IF s > newest[c] THEN s ELSE newest[c]]
          /\ seen' = [seen EXCEPT ![c] = [i \in Ids |-> SeenAfter(c, r, i)]]
          /\ reordered' = IF s < newest[c] THEN reordered \cup {c} ELSE reordered
      BY <1>5, <2>2, Took
    <3>3. /\ replica'[c] = Taking(c, r)
          /\ newest'[c] = IF s > newest[c] THEN s ELSE newest[c]
          /\ \A i \in Ids : seen'[c][i] = SeenAfter(c, r, i)
      BY <1>2, <3>2
    <3>4. /\ Taking(c, r).filled <=> (replica[c].filled \/ r.kind = "content")
          /\ Taking(c, r).filling <=> (replica[c].filling \/ r.kind = "content")
          /\ Taking(c, r).ready = replica[c].ready
          /\ Taking(c, r).open = replica[c].open
      BY DEF Taking
    <3>5. \A i \in Ids : Taking(c, r).items[i] =
            IF Mentions(r, i) THEN ValueOf(r, i) ELSE replica[c].items[i]
      <4>1. Taking(c, r).items = IF r.kind = "content" THEN r.items
                                 ELSE [replica[c].items EXCEPT ![r.id] = r.value]
        BY DEF Taking
      <4> QED
        BY <1>3, <4>1 DEF Mentions, ValueOf
    <3>6. \A i \in Ids : seen[c][i].stamp \in Nat
      BY <1>2 DEF Reported
    <3>7. newest[c] \in Nat
      BY <1>2
    <3> HIDE DEF r, s
    <3>8. ASSUME c \notin reordered', NEW i \in Ids, replica[c].open
          PROVE  /\ seen'[c][i].value = replica'[c].items[i]
                 /\ seen'[c][i].stamp <= newest'[c]
      <4>1. c \notin reordered /\ s >= newest[c]
        BY <3>1, <3>2, <3>7, <3>8
      <4>2. seen[c][i].value = replica[c].items[i] /\ seen[c][i].stamp <= newest[c]
        BY <1>1, <3>8, <4>1 DEF FilledRule
      <4>3. newest'[c] = s
        BY <3>1, <3>3, <3>7, <4>1
      <4>4. CASE Mentions(r, i)
        <5>1. s >= seen[c][i].stamp
          BY <3>1, <3>6, <3>7, <4>1, <4>2
        <5>2. seen'[c][i] = Report(r.on, r.version, ValueOf(r, i))
          BY <3>3, <4>4, <5>1 DEF SeenAfter, s
        <5> QED
          BY <3>1, <3>3, <3>5, <4>3, <4>4, <5>2 DEF Report, s
      <4>5. CASE ~Mentions(r, i)
        <5>1. seen'[c][i] = seen[c][i]
          BY <3>3, <4>5 DEF SeenAfter
        <5>2. seen[c][i].stamp <= s
          BY <3>1, <3>6, <3>7, <4>1, <4>2
        <5> QED
          BY <3>3, <3>5, <4>2, <4>3, <4>5, <5>1, <5>2
      <4> QED
        BY <4>4, <4>5
    <3>9. /\ replica'[c].filled => replica'[c].filling \/ replica'[c].ready
          /\ c \notin interrupted =>
               (replica'[c].filling \/ replica'[c].ready => replica'[c].filled)
          /\ replica'[c].open = replica[c].open
      BY <1>1, <3>3, <3>4 DEF FilledRule
    <3> QED
      BY <2>1, <3>8, <3>9 DEF FilledRule
  <2>3. CASE ~(m.to = c /\ Takes(c))
    <3>1. /\ replica'[c] = replica[c] /\ seen'[c] = seen[c] /\ newest'[c] = newest[c]
          /\ reordered \subseteq reordered' /\ (c \in reordered' => c \in reordered)
      <4>1. CASE Takes(m.to)
        <5>1. m.to # c
          BY <2>3, <4>1
        <5> DEFINE s == Stamp(m.body.on, m.body.version)
        <5>2. /\ replica' = [replica EXCEPT ![m.to] = Taking(m.to, m.body)]
              /\ newest' = [newest EXCEPT ![m.to] = IF s > newest[m.to] THEN s ELSE newest[m.to]]
              /\ seen' = [seen EXCEPT ![m.to] = [i \in Ids |-> SeenAfter(m.to, m.body, i)]]
              /\ reordered' = IF s < newest[m.to] THEN reordered \cup {m.to} ELSE reordered
          BY <1>5, <4>1, Took
        <5> HIDE DEF s
        <5> QED
          BY <1>2, <5>1, <5>2
      <4>2. CASE ~Takes(m.to)
        BY <1>5, <4>2, Took
      <4> QED
        BY <4>1, <4>2
    <3> QED
      BY <1>1, <2>1, <3>1 DEF FilledRule
  <2> QED
    BY <2>2, <2>3
<1>6. ASSUME NEW d \in Clients, InitializeGalactic(d) PROVE FilledRule(c)'
  <2>1. UNCHANGED <<interrupted, reordered, seen, newest>> /\ replica[d].filling
    BY <1>6 DEF InitializeGalactic, takenVars
  <2>2. PICK new \in Replicas :
           /\ replica' = [replica EXCEPT ![d] = new]
           /\ new = [open |-> replica[d].open, items |-> replica[d].items,
                     version |-> replica[d].version, ready |-> TRUE, filling |-> FALSE,
                     filled |-> replica[d].filled, cut |-> replica[d].cut]
    BY <1>6, Initialized
  <2>3. /\ new.open = replica[d].open /\ new.items = replica[d].items /\ new.ready
        /\ new.filled = replica[d].filled
    BY <2>2
  <2>4. CASE d = c
    <3>1. replica'[c] = new
      BY <1>2, <2>2, <2>4
    <3> QED
      BY <1>1, <2>1, <2>3, <2>4, <3>1 DEF FilledRule
  <2>5. CASE d # c
    <3>1. replica'[c] = replica[c]
      BY <1>2, <2>2, <2>5
    <3> QED
      BY <1>1, <2>1, <3>1 DEF FilledRule
  <2> QED
    BY <2>4, <2>5
<1>7. ASSUME NEW d \in Clients, NEW f, Move(d, f) PROVE FilledRule(c)'
  <2>1. reordered' = reordered
    BY <1>7 DEF Move
  <2>2. CASE Joins(d, f) \/ Asks(d, f)
    BY <1>1, <2>1, <2>2 DEF Joins, Asks, FilledRule
  <2>3. CASE Leaves(d, f)
    <3>1. PICK new \in Replicas :
            /\ replica' = [replica EXCEPT ![d] = new]
            /\ new = [open |-> replica[d].open, items |-> replica[d].items,
                      version |-> replica[d].version, ready |-> replica[d].ready,
                      filling |-> replica[d].filling, filled |-> replica[d].filled,
                      cut |-> TRUE]
      BY <2>3 DEF Leaves
    <3>2. UNCHANGED <<interrupted, newest, seen>>
      BY <2>3 DEF Leaves
    <3>3. /\ new.open = replica[d].open /\ new.items = replica[d].items
          /\ new.filled = replica[d].filled /\ new.filling = replica[d].filling
          /\ new.ready = replica[d].ready
      BY <3>1
    <3>4. replica'[c] = IF d = c THEN new ELSE replica[c]
      BY <1>2, <3>1
    <3> QED
      BY <1>1, <2>1, <3>2, <3>3, <3>4 DEF FilledRule
  <2>4. CASE Opens(d, f)
    <3>1. PICK new \in Replicas :
            /\ replica' = [replica EXCEPT ![d] = new]
            /\ new.items = Empty /\ ~new.ready /\ ~new.filled
            /\ new.filling => d \in interrupted'
      BY <2>4 DEF Opens
    <3>2. /\ interrupted \subseteq interrupted'
          /\ newest' = [newest EXCEPT ![d] = 0] /\ seen' = [seen EXCEPT ![d] = Unseen]
      BY <2>4 DEF Opens
    <3>3. CASE d = c
      <4>1. replica'[c] = new /\ newest'[c] = 0 /\ seen'[c] = Unseen
        BY <1>2, <3>1, <3>2, <3>3
      <4>2. \A i \in Ids : Unseen[i].value = Empty[i] /\ Unseen[i].stamp <= 0
        BY DEF Unseen, Empty
      <4> QED
        BY <3>1, <3>3, <4>1, <4>2 DEF FilledRule
    <3>4. CASE d # c
      <4>1. replica'[c] = replica[c] /\ newest'[c] = newest[c] /\ seen'[c] = seen[c]
        BY <1>2, <3>1, <3>2, <3>4
      <4> QED
        BY <1>1, <2>1, <3>2, <4>1 DEF FilledRule
    <3> QED
      BY <3>3, <3>4
  <2>5. CASE Closes(d, f)
    <3>1. /\ replica' = [replica EXCEPT ![d] = NoReplica] /\ UNCHANGED <<interrupted, newest, seen>>
      BY <2>5 DEF Closes
    <3>2. ~NoReplica.filled /\ ~NoReplica.filling /\ ~NoReplica.ready /\ ~NoReplica.open
      BY DEF NoReplica
    <3>3. replica'[c] = IF d = c THEN NoReplica ELSE replica[c]
      BY <1>2, <3>1
    <3> QED
      BY <1>1, <2>1, <3>1, <3>2, <3>3 DEF FilledRule
  <2> QED
    BY <1>7, <2>2, <2>3, <2>4, <2>5 DEF Move
<1> QED
  BY <1>4, <1>5, <1>6, <1>7, ClientSources
-----------------------------------------------------------------------------
(***************************************************************************)
(* The newest report on an item.                                           *)
(***************************************************************************)
\* Whatever is said is of an earlier version, or it is so.
LEMMA SaidGenuine ==
  ASSUME Types, AllGenuine, NEW c \in Clients, NEW i \in Ids, NEW x \in Reported, Says(c, i, x)
  PROVE  \/ x = [stamp |-> 0, value |-> None]
         \/ \E on, version \in Nat :
              x = Report(on, version, x.value) /\ Genuine(i, on, version, x.value)
<1>1. CASE x = seen[c][i]
  BY <1>1 DEF AllGenuine
<1>2. ASSUME NEW m \in responses, Mentions(m.body, i),
             x = Report(m.body.on, m.body.version, ValueOf(m.body, i))
      PROVE  \E on, version \in Nat :
               x = Report(on, version, x.value) /\ Genuine(i, on, version, x.value)
  <2>1. m.body \in Updates \cup Contents
    BY DEF Types, SyncTypes, Responses
  <2>2. m.body.on \in Nat /\ m.body.version \in Nat
    BY <2>1, Response
  <2>3. x.value = ValueOf(m.body, i)
    BY <1>2 DEF Report
  <2> QED
    BY <1>2, <2>2, <2>3 DEF AllGenuine
<1>3. ASSUME NEW ch \in changes, ch.id = i, x = Report(ch.on, ch.version, ch.value)
      PROVE  \E on, version \in Nat :
               x = Report(on, version, x.value) /\ Genuine(i, on, version, x.value)
  <2>1. ch.on \in Nat /\ ch.version \in Nat
    BY DEF Types, StoreTypes, Changed
  <2>2. x.value = ch.value
    BY <1>3 DEF Report
  <2> QED
    BY <1>3, <2>1, <2>2 DEF AllGenuine
<1> QED
  BY <1>1, <1>2, <1>3 DEF Says

\* What the store says of itself.
Newest(i) == Report(current, stores[current].version, stores[current].items[i])
NewestLeads ==
  \A c \in Clients, i \in Ids :
    current # 0 /\ current \notin silent /\ Says(c, i, Newest(i)) => Leads(c, i)

LEMMA NewestRule == Types /\ AllGenuine => NewestLeads
<1> SUFFICES ASSUME Types, AllGenuine, NEW c \in Clients, NEW i \in Ids, current # 0,
                    current \notin silent, Says(c, i, Newest(i))
             PROVE  Leads(c, i)
  BY DEF NewestLeads
<1>1. current \in DOMAIN stores /\ current = Len(stores) /\ current \in Nat /\ StoreTypes
  BY DEF Types, StoreTypes
<1> DEFINE v == stores[current].version
<1>2. v \in 1 .. MaxChanges + 1 /\ stores[current].items[i] \in Held
  BY <1>1, Versions
<1>3. Stamp(current, v) \in Nat /\ Stamp(current, 1) <= Stamp(current, v)
        /\ 1 \in 1 .. MaxChanges + 1
  <2>1. 1 \in 1 .. MaxChanges + 1 /\ 1 <= v
    BY <1>2, BoundAssumption
  <2> QED
    BY <1>1, <1>2, <2>1, StampOrder
<1>4. Newest(i) \in Reported /\ Newest(i).stamp = Stamp(current, v)
        /\ Newest(i).value = stores[current].items[i]
  BY <1>2, <1>3 DEF Newest, Report, Reported
<1>5. 0 < Stamp(current, v)
  <2>1. current * (MaxChanges + 2) \in Nat
    BY <1>1, BoundAssumption
  <2> QED
    BY <1>2, <2>1 DEF Stamp
<1> HIDE DEF v
<1>6. ASSUME NEW y \in Reported, Says(c, i, y)
      PROVE  y.stamp < Stamp(current, v) \/ y = Newest(i)
  <2>1. CASE y = [stamp |-> 0, value |-> None]
    BY <1>5, <2>1
  <2>2. ASSUME NEW on \in Nat, NEW version \in Nat, y = Report(on, version, y.value),
               Genuine(i, on, version, y.value)
        PROVE  y.stamp < Stamp(current, v) \/ y = Newest(i)
    <3>1. on \in DOMAIN stores /\ version \in 1 .. stores[on].version
      BY <2>2 DEF Genuine
    <3>2. on <= current /\ version \in 1 .. MaxChanges + 1
      <4>1. on <= Len(stores) /\ stores[on].version \in 1 .. MaxChanges + 1
        BY <1>1, <3>1, Versions
      <4> QED
        BY <1>1, <3>1, <4>1, BoundAssumption
    <3>3. y.stamp = Stamp(on, version)
      BY <2>2 DEF Report
    <3>4. CASE on < current
      BY <1>1, <1>2, <3>2, <3>3, <3>4, StampOrder DEF v
    <3>5. CASE on = current
      <4>1. CASE version < v
        BY <1>1, <1>2, <3>2, <3>3, <3>5, <4>1, StampOrder DEF v
      <4>2. CASE version = v
        BY <2>2, <3>5, <4>2 DEF Genuine, Newest, v
      <4>3. version <= v
        BY <1>2, <3>1, <3>5 DEF v
      <4>4. v \in Nat
        BY <1>2, BoundAssumption DEF v
      <4> QED
        BY <2>2, <4>1, <4>2, <4>3, <4>4
    <3> QED
      BY <1>1, <2>2, <3>2, <3>4, <3>5
  <2> QED
    BY <1>6, <2>1, <2>2, SaidGenuine
<1>7. Leader(c, i, Newest(i))
  BY <1>4, <1>6 DEF Leader
<1> QED
  BY <1>3, <1>4, <1>7 DEF Leads

\* The leader leads on if it is still said and what comes up is of an older store.
LEMMA LeadsKept ==
  ASSUME NEW c \in Clients, NEW i \in Ids, Leads(c, i), current' = current,
         stores'[current].items[i] = stores[current].items[i],
         Stamp(current, 1) \in Nat,
         \A x \in Reported : Leader(c, i, x) /\ x.stamp >= Stamp(current, 1) => Says(c, i, x)',
         \A y \in Reported : Says(c, i, y)' => Says(c, i, y) \/ y.stamp < Stamp(current, 1)
  PROVE  Leads(c, i)'
<1>1. PICK x \in Reported :
        Leader(c, i, x) /\ x.value = stores[current].items[i] /\ x.stamp >= Stamp(current, 1)
  BY DEF Leads
<1>2. \A y \in Reported : y.stamp \in Nat
  BY DEF Reported
<1>3. ASSUME NEW y \in Reported, Says(c, i, y)' PROVE y.stamp < x.stamp \/ y = x
  BY <1>1, <1>2, <1>3 DEF Leader
<1>4. Leader(c, i, x)'
  BY <1>1, <1>3 DEF Leader
<1>5. Stamp(current, 1)' = Stamp(current, 1)
  BY DEF Stamp
<1> QED
  BY <1>1, <1>4, <1>5 DEF Leads

\* A client that nothing keeps from the store has its channel at the listener.
LEMMA AtListener ==
  ASSUME Types, Frame, NEW c \in Clients, Fresh(c), c \notin overtaken, c \notin refused,
         ~Pending(c)
  PROVE  listener # None /\ c \in listener.channels /\ syncClients[c] # 0
<1>1. <<c, syncClients[c]>> \in openStores
  BY DEF Frame, OpenServed
<1>2. listener # None /\ c \in listener.channels
  BY <1>1 DEF Frame, ListenerServesOpenClients
<1>3. syncClients[c] \in 1 .. Budget
  BY <1>1 DEF Types, SyncTypes
<1> QED
  BY <1>2, <1>3
-----------------------------------------------------------------------------
(***************************************************************************)
(* What a client that has the store open has of it, or is about to get.    *)
(***************************************************************************)
\* Stamps of older stores.
LEMMA OlderStamp ==
  ASSUME Types, current # 0, NEW on \in DOMAIN stores, NEW version \in 1 .. stores[on].version
  PROVE  Stamp(current, 1) \in Nat /\ (on # current => Stamp(on, version) < Stamp(current, 1))
<1>1. current \in DOMAIN stores /\ current = Len(stores) /\ current \in Nat /\ StoreTypes
  BY DEF Types, StoreTypes
<1>3. on \in Nat /\ on <= current /\ version \in 1 .. MaxChanges + 1 /\ 1 \in 1 .. MaxChanges + 1
  <2>1. on \in Nat /\ on <= Len(stores) /\ stores[on].version \in 1 .. MaxChanges + 1
    BY <1>1, Versions
  <2> QED
    BY <1>1, <2>1, BoundAssumption
<1>4. on # current => on < current
  BY <1>1, <1>3
<1> QED
  BY <1>1, <1>3, <1>4, StampOrder

AllOlder ==
  \A on \in DOMAIN stores : \A version \in 1 .. stores[on].version :
    Types /\ current # 0
      => Stamp(current, 1) \in Nat /\ (on # current => Stamp(on, version) < Stamp(current, 1))

LEMMA OldersStamped == AllOlder
BY OlderStamp DEF AllOlder

LEMMA CurrentStamp ==
  ASSUME Types PROVE Stamp(current, 1) \in Nat
<1>1. current \in Nat
  BY DEF Types, StoreTypes
<1>2. current * (MaxChanges + 2) \in Nat
  BY <1>1, BoundAssumption
<1> QED
  BY <1>2 DEF Stamp

\* Nothing new is said to client c, or of the stores.
LEMMA DataCarried ==
  ASSUME DataFollows, NEW c \in Clients, Entitled(c),
         UNCHANGED <<stores, current, changes, responses>>, waiting \subseteq waiting',
         seen'[c] = seen[c], replica'[c].filled = replica[c].filled
  PROVE  Awaits(c)' \/ Filled(c)'
<1>1. Awaits(c) => Awaits(c)'
  BY DEF Awaits
<1>2. \A i \in Ids : \A x : Says(c, i, x)' <=> Says(c, i, x)
  BY DEF Says
<1>3. \A i \in Ids : Leads(c, i) => Leads(c, i)'
  BY <1>2 DEF Leads, Leader, Stamp
<1>4. Filled(c) => Filled(c)'
  BY <1>3 DEF Filled, ContentFor
<1> QED
  BY <1>1, <1>4 DEF DataFollows

\* The steps of the store and its manager leave who is entitled as it is.
LEMMA EntitledSame ==
  ASSUME NEW c \in Clients, Entitled(c)', UNCHANGED <<current, listener, clientVars, handledVars>>,
         silent \subseteq silent',
         \A q \in handling : q.frame.command # "update" => \E p \in handling' : SameRequest(q, p)
  PROVE  Entitled(c)
<1>1. UNCHANGED <<current, listener, wire, subscribed, replica, overtaken, refused>>
  BY DEF clientVars, handledVars
<1>2. Pending(c) => Pending(c)'
  <2>1. OpenHandling(c, 0) => OpenHandling(c, 0)'
    BY DEF OpenHandling, SameRequest
  <2> QED
    BY <1>1, <2>1 DEF Pending, Later, OpenOnWire, OnWire
<1> QED
  BY <1>1, <1>2 DEF Entitled, Fresh

\* A change of the store the manager has: the newest report of its item, and of no
\* other.  A change of another one is older.
LEMMA DataCommit ==
  ASSUME Types, AllGenuine, Types', AllGenuine', DataFollows, NEW c \in Clients, Entitled(c),
         NEW s \in DOMAIN stores, NEW j \in Ids, NEW v \in Held, Commit(s, j, v),
         UNCHANGED <<current, silent, waiting, responses, seen, replica>>
  PROVE  Awaits(c)' \/ Filled(c)'
<1>1. /\ \A o \in DOMAIN stores : o # s => stores'[o] = stores[o]
      /\ stores'[s].items = [stores[s].items EXCEPT ![j] = v]
      /\ stores'[s].version = stores[s].version + 1
      /\ stores'[s].ready = stores[s].ready
      /\ stores[s].items \in [Ids -> Held]
      /\ DOMAIN stores' = DOMAIN stores
  BY Committed DEF Types
<1>2. changes' = changes \cup {[on |-> s, id |-> j, value |-> v,
                                version |-> stores[s].version + 1]}
  BY DEF Commit, NextVersion
<1>8. current \in DOMAIN stores /\ current # 0 /\ current \notin silent'
  BY NowRule DEF Entitled, Types
<1>3. NewestLeads'
  <2>1. (Types /\ AllGenuine => NewestLeads)'
    BY NewestRule, PTL
  <2> QED
    BY <2>1
<1>4. s = current => Leads(c, j)'
  <2> SUFFICES ASSUME s = current PROVE Leads(c, j)'
    OBVIOUS
  <2>1. Newest(j)' = Report(current, stores[current].version + 1, v)
    <3>1. Newest(j)' = Report(current', stores'[current'].version, stores'[current'].items[j])
      BY DEF Newest, Report, Stamp
    <3> QED
      BY <1>1, <3>1
  <2>2. Says(c, j, Newest(j))'
    <3> DEFINE ch == [on |-> s, id |-> j, value |-> v, version |-> stores[s].version + 1]
    <3>1. ch \in changes' /\ ch.id = j
            /\ Newest(j)' = Report(ch.on, ch.version, ch.value)
      BY <1>2, <2>1
    <3>2. Report(ch.on, ch.version, ch.value)
            = [stamp |-> ch.on * (MaxChanges + 2) + ch.version, value |-> ch.value]
      BY DEF Report, Stamp
    <3> HIDE DEF ch
    <3> QED
      BY <3>1, <3>2 DEF Says
  <2> QED
    BY <1>3, <1>8, <2>2 DEF NewestLeads
<1>5. ASSUME NEW i \in Ids, i # j \/ s # current, Leads(c, i) PROVE Leads(c, i)'
  <2>1. \A x : Says(c, i, x) => Says(c, i, x)'
    BY <1>2 DEF Says, Report, Stamp, Mentions, ValueOf
  <2>2. stores'[current].items[i] = stores[current].items[i]
    BY <1>1, <1>5, <1>8
  <2>3. ASSUME NEW y \in Reported, Says(c, i, y)'
        PROVE  Says(c, i, y) \/ y.stamp < Stamp(current, 1)
    <3> DEFINE ch == [on |-> s, id |-> j, value |-> v, version |-> stores[s].version + 1]
    <3>1. ch.on = s /\ ch.id = j /\ ch.value = v /\ ch.version = stores[s].version + 1
      OBVIOUS
    <3>6. changes' = changes \cup {ch}
      BY <1>2
    <3> HIDE DEF ch
    <3>2. Says(c, i, y) \/ (i = j /\ y = Report(s, stores[s].version + 1, v))
      BY <2>3, <3>1, <3>6 DEF Says, Report, Stamp, Mentions, ValueOf
    <3>3. CASE s # current
      <4>1. stores'[s].version \in 1 .. stores'[s].version
        BY <1>1, Versions DEF Types
      <4>2. (Stamp(current, 1) \in Nat /\
                (s # current => Stamp(s, stores[s].version) < Stamp(current, 1)))'
        <5>1. AllOlder'
          BY OldersStamped, PTL
        <5> QED
          BY <1>1, <1>8, <4>1, <5>1 DEF AllOlder
      <4>3. y = Report(s, stores[s].version + 1, v) => y.stamp < Stamp(current, 1)
        BY <1>1, <3>3, <4>2 DEF Report, Stamp
      <4> QED
        BY <3>2, <4>3
    <3> QED
      BY <1>5, <3>2, <3>3
  <2> QED
    BY <1>5, <2>1, <2>2, <2>3, CurrentStamp, LeadsKept DEF Leader
<1>9. stores'[current].ready = stores[current].ready
  BY <1>1, <1>8
<1>10. Filled(c) => \A i \in Ids : Leads(c, i)'
  BY <1>4, <1>5 DEF Filled
<1>6. Filled(c) => Filled(c)'
  BY <1>9, <1>10 DEF Filled, ContentFor
<1>7. Awaits(c) => Awaits(c)'
  BY DEF Awaits
<1> QED
  BY <1>6, <1>7 DEF DataFollows

\* A change that becomes a response.
LEMMA DataNotify ==
  ASSUME Types, Frame, AllGenuine, DataFollows, NEW c \in Clients, Entitled(c),
         NEW ch \in changes, Notify(ch)
  PROVE  Awaits(c)' \/ Filled(c)'
<1>1. UNCHANGED <<stores, current, waiting, seen, replica>>
  BY DEF Notify, requestVars, clientVars, takenVars
<1>2. /\ responses \subseteq responses' /\ changes' = changes \ {ch}
      /\ \A m \in responses' : m \in responses \/ m.body = News(ch)
      /\ listener # None /\ listener.on = stores[ch.on].now =>
           \A d \in listener.channels : syncClients[d] # 0 =>
             \E m \in responses' : m.to = d /\ m.body = News(ch)
  BY Notified
<1>3. /\ News(ch).on = ch.on /\ News(ch).version = ch.version
      /\ \A i : Mentions(News(ch), i) => i = ch.id /\ ValueOf(News(ch), i) = ch.value
      /\ \A i : i = ch.id => Mentions(News(ch), i) /\ ValueOf(News(ch), i) = ch.value
  BY DEF News, Mentions, ValueOf
<1>4. ASSUME NEW i \in Ids, Leads(c, i) PROVE Leads(c, i)'
  <2>1. ASSUME NEW y \in Reported, Says(c, i, y)' PROVE Says(c, i, y)
    <3>1. CASE y = seen[c][i]
      BY <3>1 DEF Says
    <3>2. ASSUME NEW m \in responses', m.to = c, Mentions(m.body, i),
                 y = Report(m.body.on, m.body.version, ValueOf(m.body, i))
          PROVE  Says(c, i, y)
      <4>1. CASE m \in responses
        BY <3>2, <4>1 DEF Says
      <4>2. CASE m.body = News(ch)
        <5>1. ch.id = i /\ y = Report(ch.on, ch.version, ch.value)
          BY <1>3, <3>2, <4>2
        <5> QED
          BY <5>1 DEF Says
      <4> QED
        BY <1>2, <4>1, <4>2
    <3>3. ASSUME NEW h \in changes', h.id = i, y = Report(h.on, h.version, h.value)
          PROVE  Says(c, i, y)
      BY <1>2, <3>3 DEF Says
    <3>4. \/ y = seen[c][i]
          \/ \E m \in responses' : m.to = c /\ Mentions(m.body, i)
                                     /\ y = Report(m.body.on, m.body.version, ValueOf(m.body, i))
          \/ \E h \in changes' : h.id = i /\ y = Report(h.on, h.version, h.value)
      BY <1>1, <2>1 DEF Says, Report, Stamp, Mentions, ValueOf
    <3> QED
      BY <3>1, <3>2, <3>3, <3>4
  <2>2. ASSUME NEW x \in Reported, Leader(c, i, x), x.stamp >= Stamp(current, 1)
        PROVE  Says(c, i, x)'
    <3>1. CASE x = seen[c][i]
      BY <1>1, <3>1 DEF Says
    <3>2. CASE \E m \in responses : m.to = c /\ Mentions(m.body, i)
                                      /\ x = Report(m.body.on, m.body.version, ValueOf(m.body, i))
      BY <1>2, <3>2 DEF Says, Report, Stamp, Mentions, ValueOf
    <3>3. ASSUME NEW h \in changes, h.id = i, x = Report(h.on, h.version, h.value)
          PROVE  Says(c, i, x)'
      <4>1. CASE h # ch
        <5>1. h \in changes'
          BY <1>2, <4>1
        <5> QED
          BY <3>3, <5>1 DEF Says, Report, Stamp
      <4>2. CASE h = ch
        <5>1. Genuine(ch.id, ch.on, ch.version, ch.value)
          BY DEF AllGenuine
        <5>2. ch.on = current
          <6>1. current # 0
            BY DEF Entitled
          <6>4. ch.on \in DOMAIN stores /\ ch.version \in 1 .. stores[ch.on].version
            BY <5>1 DEF Genuine
          <6>2. /\ Stamp(current, 1) \in Nat
                /\ ch.on # current => Stamp(ch.on, ch.version) < Stamp(current, 1)
            BY <6>1, <6>4, OlderStamp
          <6>3. x.stamp = Stamp(ch.on, ch.version) /\ x.stamp \in Nat
            BY <3>3, <4>2 DEF Report, Reported
          <6> QED
            BY <2>2, <6>2, <6>3
        <5>3. c \in listener.channels /\ syncClients[c] # 0
          BY AtListener DEF Entitled
        <5>4. PICK m \in responses' : m.to = c /\ m.body = News(ch)
          <6>1. stores[current].now = current
            BY NowRule DEF Entitled, Types
          <6> QED
            BY <1>2, <5>2, <5>3, <6>1 DEF Entitled
        <5>5. /\ Mentions(m.body, i)
              /\ x = Report(m.body.on, m.body.version, ValueOf(m.body, i))
          BY <1>3, <3>3, <4>2, <5>4
        <5> QED
          BY <5>4, <5>5 DEF Says, Report, Stamp, Mentions, ValueOf
      <4> QED
        BY <4>1, <4>2
    <3> QED
      BY <2>2, <3>1, <3>2, <3>3 DEF Leader, Says
  <2> QED
    BY <1>1, <1>4, <2>1, <2>2, CurrentStamp, LeadsKept
<1>5. Filled(c) => Filled(c)'
  BY <1>1, <1>2, <1>4 DEF Filled, ContentFor
<1>6. Awaits(c) => Awaits(c)'
  BY <1>1 DEF Awaits
<1> QED
  BY <1>5, <1>6 DEF DataFollows

\* Content that is sent: the store as it is, or an older one.
LEMMA DataSent ==
  ASSUME Types, Frame, AllGenuine, Types', AllGenuine', DataFollows,
         NEW c \in Clients, Entitled(c), NEW w \in waiting, SendContent(w)
  PROVE  Awaits(c)' \/ Filled(c)'
<1>1. UNCHANGED <<stores, current, changes, silent, seen, replica>>
  BY DEF SendContent, serverVars, clientVars, takenVars
<1>2. /\ w.client \in Clients /\ w.on \in DOMAIN stores /\ stores[w.on].ready
      /\ NowOf(w) \in DOMAIN stores
      /\ responses \subseteq responses' /\ waiting' = waiting \ {w}
      /\ \A m \in responses' : m \in responses \/ (m.to = w.client /\ m.body = ContentOf(w))
      /\ syncClients[w.client] # 0 =>
           \E m \in responses' : m.to = w.client /\ m.body = ContentOf(w)
  BY ContentSent
<1>3. /\ ContentOf(w).kind = "content" /\ ContentOf(w).on = NowOf(w)
      /\ ContentOf(w).version = stores[NowOf(w)].version
      /\ \A i : Mentions(ContentOf(w), i)
                 /\ ValueOf(ContentOf(w), i) = stores[NowOf(w)].items[i]
  BY DEF ContentOf, Mentions, ValueOf
<1>4. current # 0 /\ current \notin silent' /\ syncClients[c] # 0
  BY <1>1, AtListener DEF Entitled
<1>9. w.on = current => NowOf(w) = current
  BY <1>4, NowRule DEF NowOf, Types
<1>5. ASSUME NEW i \in Ids, NEW x, Says(c, i, x) PROVE Says(c, i, x)'
  <2>1. CASE x = seen[c][i]
    BY <1>1, <2>1 DEF Says
  <2>2. CASE \E m \in responses : m.to = c /\ Mentions(m.body, i)
                                    /\ x = Report(m.body.on, m.body.version, ValueOf(m.body, i))
    BY <1>2, <2>2 DEF Says, Report, Stamp, Mentions, ValueOf
  <2>3. CASE \E h \in changes : h.id = i /\ x = Report(h.on, h.version, h.value)
    BY <1>1, <2>3 DEF Says, Report, Stamp
  <2> QED
    BY <1>5, <2>1, <2>2, <2>3 DEF Says
<1>8. ASSUME w.client = c, NowOf(w) = current
      PROVE  ContentFor(c)' /\ \A i \in Ids : Leads(c, i)'
  <2>1. PICK m \in responses' : m.to = c /\ m.body = ContentOf(w)
    BY <1>2, <1>4, <1>8
  <2>2. NewestLeads'
    <3>1. (Types /\ AllGenuine => NewestLeads)'
      BY NewestRule, PTL
    <3> QED
      BY <3>1
  <2>3. ASSUME NEW i \in Ids PROVE Leads(c, i)'
    <3>1. /\ Mentions(m.body, i)
          /\ Report(m.body.on, m.body.version, ValueOf(m.body, i))
               = Report(current, stores[current].version, stores[current].items[i])
      BY <1>3, <1>8, <2>1
    <3>2. Newest(i)' = Report(current, stores[current].version, stores[current].items[i])
      BY <1>1 DEF Newest, Report, Stamp
    <3>3. Newest(i)' = Report(m.body.on, m.body.version, ValueOf(m.body, i))
      BY <3>1, <3>2
    <3>4. Says(c, i, Newest(i))'
      BY <2>1, <3>1, <3>3 DEF Says, Report, Stamp, Mentions, ValueOf
    <3> QED
      BY <1>1, <1>4, <2>2, <3>4 DEF NewestLeads
  <2>4. ContentFor(c)'
    BY <1>3, <2>1 DEF ContentFor
  <2> QED
    BY <2>3, <2>4
<1>6. CASE w.client = c /\ w.on = current
  <2>1. ContentFor(c)' /\ \A i \in Ids : Leads(c, i)'
    BY <1>6, <1>8, <1>9
  <2>2. Filled(c)'
    BY <1>1, <1>2, <1>6, <2>1 DEF Filled
  <2> QED
    BY <2>2
<1>7. CASE ~(w.client = c /\ w.on = current)
  <2>1. Awaits(c) => Awaits(c)'
    BY <1>1, <1>2, <1>7 DEF Awaits
  <2>2. ASSUME ~(w.client = c /\ NowOf(w) = current),
               NEW i \in Ids, NEW y \in Reported, Says(c, i, y)'
        PROVE  Says(c, i, y) \/ y.stamp < Stamp(current, 1)
    <3>1. ASSUME NEW m \in responses', m.to = c, Mentions(m.body, i),
                 y = Report(m.body.on, m.body.version, ValueOf(m.body, i))
          PROVE  Says(c, i, y) \/ y.stamp < Stamp(current, 1)
      <4>1. CASE m \in responses
        BY <3>1, <4>1 DEF Says
      <4>2. CASE m.to = w.client /\ m.body = ContentOf(w)
        <5>1. NowOf(w) # current
          BY <2>2, <3>1, <4>2
        <5>2. stores[NowOf(w)].version \in 1 .. stores[NowOf(w)].version
          BY <1>2, Versions DEF Types
        <5>4. Stamp(NowOf(w), stores[NowOf(w)].version) < Stamp(current, 1)
          BY <1>2, <1>4, <5>1, <5>2, OlderStamp
        <5>5. y.stamp = Stamp(NowOf(w), stores[NowOf(w)].version)
          BY <1>3, <3>1, <4>2 DEF Report
        <5> QED
          BY <5>4, <5>5
      <4> QED
        BY <1>2, <4>1, <4>2
    <3>2. \/ y = seen[c][i]
          \/ \E m \in responses' : m.to = c /\ Mentions(m.body, i)
                                     /\ y = Report(m.body.on, m.body.version, ValueOf(m.body, i))
          \/ \E h \in changes : h.id = i /\ y = Report(h.on, h.version, h.value)
      BY <1>1, <2>2 DEF Says, Report, Stamp, Mentions, ValueOf
    <3> QED
      BY <3>1, <3>2 DEF Says
  <2>3. \A i \in Ids : Leads(c, i) => Leads(c, i)'
    <3>1. CASE w.client = c /\ NowOf(w) = current
      BY <1>8, <3>1
    <3>2. CASE ~(w.client = c /\ NowOf(w) = current)
      BY <1>1, <1>5, <2>2, <3>2, CurrentStamp, LeadsKept DEF Leader
    <3> QED
      BY <3>1, <3>2
  <2>4. Filled(c) => Filled(c)'
    BY <1>1, <1>2, <2>3 DEF Filled, ContentFor
  <2> QED
    BY <2>1, <2>4 DEF DataFollows
<1> QED
  BY <1>6, <1>7

\* A response that is taken, by client c or another.
LEMMA DataTaken ==
  ASSUME Types, DataFollows, NEW c \in Clients, Entitled(c),
         NEW m \in responses, TakeResponse(m)
  PROVE  Awaits(c)' \/ Filled(c)'
<1>1. /\ UNCHANGED <<stores, current, changes, waiting>> /\ responses' = responses \ {m}
      /\ m.body \in Updates \cup Contents
  BY Took DEF serverVars, requestVars
<1>2. Awaits(c) => Awaits(c)'
  BY <1>1 DEF Awaits
<1>3. /\ replica \in [Clients -> Replicas] /\ seen \in [Clients -> [Ids -> Reported]]
  BY DEF Types, ClientTypes
<1>4. CASE m.to # c
  <2>1. seen'[c] = seen[c] /\ replica'[c] = replica[c]
    <3>1. CASE Takes(m.to)
      <4>1. /\ replica' = [replica EXCEPT ![m.to] = Taking(m.to, m.body)]
            /\ seen' = [seen EXCEPT ![m.to] = [i \in Ids |-> SeenAfter(m.to, m.body, i)]]
        BY <3>1, Took
      <4> QED
        BY <1>3, <1>4, <4>1
    <3>2. CASE ~Takes(m.to)
      BY <3>2, Took
    <3> QED
      BY <3>1, <3>2
  <2>2. \A i \in Ids : \A x : Says(c, i, x)' <=> Says(c, i, x)
    BY <1>1, <1>4, <2>1 DEF Says
  <2>3. \A i \in Ids : Leads(c, i) => Leads(c, i)'
    BY <1>1, <2>2 DEF Leads, Leader, Stamp
  <2>4. ContentFor(c) => ContentFor(c)'
    BY <1>1, <1>4 DEF ContentFor
  <2>5. Filled(c) => Filled(c)'
    BY <1>1, <2>1, <2>3, <2>4 DEF Filled
  <2> QED
    BY <1>2, <2>5 DEF DataFollows
<1>5. CASE m.to = c
  <2> DEFINE r == m.body
  <2>1. Takes(c)
    BY DEF Entitled, Fresh, Takes
  <2>2. /\ replica' = [replica EXCEPT ![c] = Taking(c, r)]
        /\ seen' = [seen EXCEPT ![c] = [i \in Ids |-> SeenAfter(c, r, i)]]
    BY <1>5, <2>1, Took
  <2>3. replica'[c] = Taking(c, r) /\ \A i \in Ids : seen'[c][i] = SeenAfter(c, r, i)
    BY <1>3, <2>2
  <2>4. Taking(c, r).filled <=> (replica[c].filled \/ r.kind = "content")
    BY DEF Taking
  <2>5. replica[c].filled \/ ContentFor(c) => replica'[c].filled \/ ContentFor(c)'
    BY <1>1, <2>3, <2>4 DEF ContentFor
  <2>6. ASSUME NEW i \in Ids, NEW y \in Reported, Says(c, i, y)' PROVE Says(c, i, y)
    <3>1. CASE y = seen'[c][i]
      <4>1. CASE y = seen[c][i]
        BY <4>1 DEF Says
      <4>2. CASE y # seen[c][i]
        <5>1. Mentions(r, i) /\ y = Report(r.on, r.version, ValueOf(r, i))
          BY <2>3, <3>1, <4>2 DEF SeenAfter
        <5> QED
          BY <1>5, <5>1 DEF Says
      <4> QED
        BY <4>1, <4>2
    <3>2. \/ y = seen'[c][i]
          \/ \E n \in responses : n.to = c /\ Mentions(n.body, i)
                                    /\ y = Report(n.body.on, n.body.version, ValueOf(n.body, i))
          \/ \E h \in changes : h.id = i /\ y = Report(h.on, h.version, h.value)
      BY <1>1, <2>6 DEF Says, Report, Stamp, Mentions, ValueOf
    <3> QED
      BY <3>1, <3>2 DEF Says
  <2>7. ASSUME NEW i \in Ids, NEW x \in Reported, Leader(c, i, x) PROVE Says(c, i, x)'
    <3>1. CASE x = seen'[c][i]
      BY <3>1 DEF Says
    <3>2. CASE x = seen[c][i] /\ x # seen'[c][i]
      <4>1. /\ Mentions(r, i) /\ Stamp(r.on, r.version) >= seen[c][i].stamp
            /\ seen'[c][i] = Report(r.on, r.version, ValueOf(r, i))
        BY <2>3, <3>2 DEF SeenAfter
      <4>2. Says(c, i, seen'[c][i])
        BY <1>5, <4>1 DEF Says
      <4>3. seen'[c][i] \in Reported
        <5>1. Stamp(r.on, r.version) \in Nat /\ ValueOf(r, i) \in Held
          BY <1>1, <4>1, Response
        <5> QED
          BY <4>1, <5>1 DEF Report, Reported
      <4>4. seen'[c][i].stamp < x.stamp
        BY <2>7, <3>2, <4>2, <4>3 DEF Leader
      <4>5. seen'[c][i].stamp = Stamp(r.on, r.version)
        BY <4>1 DEF Report
      <4>6. x.stamp \in Nat /\ seen'[c][i].stamp \in Nat
        BY <4>3 DEF Reported
      <4> QED
        BY <3>2, <4>1, <4>4, <4>5, <4>6
    <3>3. ASSUME NEW n \in responses, n.to = c, Mentions(n.body, i),
                 x = Report(n.body.on, n.body.version, ValueOf(n.body, i)), x # seen'[c][i]
          PROVE  Says(c, i, x)'
      <4>1. CASE n # m
        <5>1. n \in responses'
          BY <1>1, <4>1
        <5> QED
          BY <3>3, <5>1 DEF Says, Report, Stamp, Mentions, ValueOf
      <4>2. CASE n = m
        <5>1. x = Report(r.on, r.version, ValueOf(r, i)) /\ Mentions(r, i)
          BY <3>3, <4>2
        <5>2. seen'[c][i] = seen[c][i] /\ ~(Stamp(r.on, r.version) >= seen[c][i].stamp)
          BY <2>3, <3>3, <5>1 DEF SeenAfter
        <5>3. Says(c, i, seen[c][i]) /\ seen[c][i] \in Reported
          BY <1>3 DEF Says
        <5>4. seen[c][i].stamp < x.stamp
          BY <2>7, <3>3, <5>2, <5>3 DEF Leader
        <5>5. x.stamp = Stamp(r.on, r.version)
          BY <5>1 DEF Report
        <5>6. x.stamp \in Nat /\ seen[c][i].stamp \in Nat
          BY <5>3 DEF Reported
        <5> QED
          BY <5>2, <5>4, <5>5, <5>6
      <4> QED
        BY <4>1, <4>2
    <3>4. CASE \E h \in changes : h.id = i /\ x = Report(h.on, h.version, h.value)
      BY <1>1, <3>4 DEF Says, Report, Stamp
    <3> QED
      BY <2>7, <3>1, <3>2, <3>3, <3>4 DEF Leader, Says
  <2>8. \A i \in Ids : Leads(c, i) => Leads(c, i)'
    BY <1>1, <2>6, <2>7, CurrentStamp, LeadsKept
  <2>9. Filled(c) => Filled(c)'
    BY <1>1, <2>5, <2>8 DEF Filled
  <2> QED
    BY <1>2, <2>9 DEF DataFollows
<1> QED
  BY <1>4, <1>5

\* A frame entitles nobody, nor does a request but for the one that is to be sent
\* the content.
LEMMA EntitledArrived ==
  ASSUME Types, Frame, NEW c \in Clients, NEW f, Arrives(c, f),
         ComesUp(c, f) \/ GoesDown(c, f) \/ Asked(c, f),
         NEW d \in Clients, Entitled(d)'
  PROVE  Entitled(d)
<1>1. /\ f.n \in 1 .. Budget /\ OnWire(c) = OnWire(c)' \cup {f}
      /\ UNCHANGED <<current, silent, subscribed, replica, overtaken, refused>>
  BY DEF Arrives, toldVars
<1>2. Fresh(d) /\ ~Pending(d)'
  BY <1>1 DEF Entitled, Fresh
<1>3. listener # None /\ listener.on = current
  <2>1. listener' # None /\ listener'.on = current
    BY <1>1 DEF Entitled
  <2>2. CASE GoesDown(c, f)
    <3>1. listener' = listener \/ listener' = WithoutChannel(listener, c)
      BY <2>2 DEF GoesDown, CloseChannel, CloseClientSyncChannel
    <3>2. listener \in Listeners \cup {None}
      BY DEF Types, SyncTypes
    <3> QED
      BY <2>1, <3>1, <3>2, Left
  <2>3. CASE Asked(c, f) \/ ComesUp(c, f)
    BY <2>1, <2>3, ArrivedRequests
  <2> QED
    BY <2>2, <2>3
<1>4. ~Pending(d)
  <2>1. CASE /\ d = c
             /\ \/ f.command \in {"subscribe", "unsubscribe", "close"}
                \/ f.command = "open" /\ syncClients[c] = 0
    <3>1. OpenOnWire(c, f.n)'
      BY <1>2, <2>1, Reopened DEF Frame
    <3>2. PICK y \in OnWire(c)' : y.command = "open" /\ f.n < y.n
      BY <3>1 DEF OpenOnWire
    <3>3. OnWire(c) \subseteq Frames
      BY DEF Types, ClientTypes, OnWire, Range
    <3>4. y.n \in Nat /\ f.n \in Nat
      BY <1>1, <3>2, <3>3 DEF Frames
    <3>5. 0 < y.n
      BY <3>2, <3>4
    <3>6. Pending(c)'
      BY <3>2, <3>5 DEF Pending, Later, OpenOnWire
    <3> QED
      BY <1>2, <2>1, <3>6
  <2>2. CASE ~ /\ d = c
               /\ \/ f.command \in {"subscribe", "unsubscribe", "close"}
                  \/ f.command = "open" /\ syncClients[c] = 0
    <3>1. Pending(d) => Pending(d)'
      BY <2>2, ArrivedLater DEF Pending
    <3> QED
      BY <1>2, <3>1
  <2> QED
    BY <2>1, <2>2
<1> QED
  BY <1>1, <1>2, <1>3, <1>4 DEF Entitled

LEMMA EntitledHandled ==
  ASSUME Types, Frame, NEW q \in handling, OpenStore(q) \/ CloseStore(q) \/ Refuses(q),
         NEW d \in Clients, Entitled(d)'
  PROVE  Entitled(d) \/ Awaits(d)'
<1>1. /\ q.client \in Clients /\ handling' = handling \ {q}
      /\ overtaken \subseteq overtaken'
      /\ UNCHANGED <<stores, commits, current, changes, toldVars, syncClients, clientVars,
                     takenVars, responses>>
  BY Handled
<1>2. UNCHANGED <<wire, subscribed, replica, current, silent>>
  BY <1>1 DEF clientVars, toldVars
<1>3. Fresh(d) /\ ~Pending(d)' /\ d \notin overtaken /\ d \notin refused' /\ current # 0
        /\ current \notin silent
        /\ listener' # None /\ listener'.on = current
  BY <1>1, <1>2 DEF Entitled, Fresh
<1>4. CASE OpenStore(q) /\ q.client = d
  <2>1. [client |-> d, on |-> current, n |-> q.frame.n] \in waiting'
    <3>1. PICK now \in DOMAIN stores :
            /\ waiting' = waiting \cup {[client |-> q.client, on |-> now, n |-> q.frame.n]}
            /\ refused' = IF now = current THEN refused \ {q.client}
                                           ELSE refused \cup {q.client}
      BY <1>4, Opened
    <3>2. now = current
      BY <1>3, <1>4, <3>1
    <3> QED
      BY <1>4, <3>1, <3>2
  <2> DEFINE w == [client |-> d, on |-> current, n |-> q.frame.n]
  <2>2. w \in waiting' /\ w.client = d /\ w.on = current'
    BY <1>2, <2>1
  <2> HIDE DEF w
  <2>3. Awaits(d)'
    BY <2>2 DEF Awaits
  <2> QED
    BY <2>3
<1>5. CASE ~(OpenStore(q) /\ q.client = d)
  <2>5. ~(Refuses(q) /\ q.client = d)
    BY <1>3 DEF Refuses, FindNone
  <2>1. d \notin refused
    <3>1. OpenStore(q) => refused \subseteq refused' \cup {q.client}
      BY Opened
    <3>2. CloseStore(q) \/ Refuses(q) => refused \subseteq refused'
      BY DEF CloseStore, Refuses, FindNone
    <3> QED
      BY <1>3, <1>5, <3>1, <3>2
  <2>2. ~Pending(d)
    <3>1. CloseStore(q) => q.frame.command = "close"
      BY DEF CloseStore, Handles
    <3>2. \A p \in handling : p.client = d /\ p.frame.command = "open" => p \in handling'
      BY <1>1, <1>5, <2>5, <3>1
    <3>3. Pending(d) => Pending(d)'
      BY <1>2, <3>2 DEF Pending, Later, OpenOnWire, OpenHandling, OnWire
    <3> QED
      BY <1>3, <3>3
  <2>3. listener # None
    BY <1>3, <2>1, <2>2, AtListener
  <2>4. listener.on = current
    <3>1. listener \in Listeners \cup {None} /\ StoreTypes
      BY DEF Types, SyncTypes
    <3>2. CASE OpenStore(q)
      BY <1>3, <2>3, <3>2, Opened
    <3>3. CASE CloseStore(q)
      <4>1. listener' = WithoutChannel(listener, q.client)
        BY <3>3 DEF CloseStore
      <4> QED
        BY <1>1, <1>3, <3>1, <4>1, Left
    <3>4. CASE Refuses(q)
      BY <1>3, <3>4 DEF Refuses, FindNone
    <3> QED
      BY <3>2, <3>3, <3>4
  <2> QED
    BY <1>3, <2>1, <2>2, <2>3, <2>4 DEF Entitled
<1> QED
  BY <1>4, <1>5

LEMMA EntitledMoved ==
  ASSUME Types, Frame, NEW c \in Clients, NEW f, Move(c, f), NEW d \in Clients, Entitled(d)'
  PROVE  Entitled(d) /\ seen'[d] = seen[d] /\ replica'[d].filled = replica[d].filled
<1>1. /\ Sends(c, f) /\ UNCHANGED <<current, silent, listener, handling, overtaken, refused>>
  BY DEF Move, serverVars, toldVars, requestVars, handledVars
<1>2. /\ OnWire(c)' = OnWire(c) \cup {f}
      /\ \A e \in Clients : e # c => OnWire(e)' = OnWire(e)
  BY <1>1 DEF Sends
<1>3. Pending(d) => Pending(d)'
  BY <1>1, <1>2 DEF Pending, Later, OpenOnWire, OpenHandling
<1>4. /\ replica \in [Clients -> Replicas] /\ subscribed \subseteq Clients
      /\ seen \in [Clients -> [Ids -> Reported]]
  BY DEF Types, ClientTypes
<1>5. CASE d # c
  <2>1. /\ replica'[d] = replica[d] /\ seen'[d] = seen[d]
        /\ d \in subscribed' <=> d \in subscribed
    <3>1. CASE Joins(c, f)
      BY <1>5, <3>1 DEF Joins
    <3>2. CASE Leaves(c, f)
      BY <1>4, <1>5, <3>2 DEF Leaves
    <3>3. CASE Opens(c, f)
      BY <1>4, <1>5, <3>3 DEF Opens
    <3>4. CASE Closes(c, f)
      BY <1>4, <1>5, <3>4 DEF Closes
    <3>5. CASE Asks(c, f)
      BY <3>5 DEF Asks
    <3> QED
      BY <3>1, <3>2, <3>3, <3>4, <3>5 DEF Move
  <2> QED
    BY <1>1, <1>3, <2>1 DEF Entitled, Fresh
<1>6. CASE d = c
  <2>1. ~Opens(c, f)
    <3>1. ASSUME Opens(c, f) PROVE FALSE
      <4>1. f.command = "open" /\ f.n = frames[c] + 1 /\ frames[c] \in Nat
        BY <1>1, <3>1, BoundAssumption DEF Opens, Sends, Types, ClientTypes
      <4>2. 0 < f.n
        BY <4>1
      <4>3. Pending(c)'
        BY <1>2, <4>1, <4>2 DEF Pending, Later, OpenOnWire
      <4> QED
        BY <1>6, <4>3 DEF Entitled
    <3> QED
      BY <3>1
  <2>2. Fresh(c)'
    BY <1>6 DEF Entitled
  <2>3. ~Joins(c, f)
    BY <2>2 DEF Joins, Fresh, Frame, CutOff
  <2>4. ~Leaves(c, f)
    BY <2>2 DEF Leaves, Fresh
  <2>5. ~Closes(c, f)
    <3>1. ~NoReplica.open
      BY DEF NoReplica
    <3>2. Closes(c, f) => replica'[c] = NoReplica
      BY <1>4 DEF Closes
    <3> QED
      BY <2>2, <3>1, <3>2 DEF Fresh
  <2>6. Asks(c, f)
    BY <2>1, <2>3, <2>4, <2>5 DEF Move
  <2>7. UNCHANGED <<subscribed, replica, seen>>
    BY <2>6 DEF Asks
  <2> QED
    BY <1>1, <1>3, <2>7 DEF Entitled, Fresh
<1> QED
  BY <1>5, <1>6

LEMMA DataInitially == Init => DataFollows
BY DEF Init, DataFollows, Entitled

LEMMA DataStep ==
  Types /\ Frame /\ AllGenuine /\ DataFollows /\ [Next]_vars => DataFollows'
<1> SUFFICES ASSUME Types, Frame, AllGenuine, DataFollows, [Next]_vars,
                    NEW c \in Clients, Entitled(c)'
             PROVE  Awaits(c)' \/ Filled(c)'
  BY DEF DataFollows
<1>1. Types' /\ AllGenuine'
  BY TypesStep, GenuineStep
<1> DEFINE Goal == Awaits(c)' \/ Filled(c)'
<1>18. silent \subseteq silent'
  BY ToldGrows
<1>19. ASSUME UNCHANGED <<current, listener, clientVars, handledVars, handling>>
       PROVE  Entitled(c)
  <2>1. \A q \in handling : \E p \in handling' : SameRequest(q, p)
    BY <1>19 DEF SameRequest
  <2> QED
    BY <1>18, <1>19, <2>1, EntitledSame
<1>2. ASSUME UNCHANGED vars PROVE Goal
  <2>1. UNCHANGED <<current, listener, clientVars, handledVars, handling>>
    BY <1>2 DEF vars, serverVars, requestVars
  <2>2. Entitled(c)
    BY <1>19, <2>1
  <2> QED
    BY <1>2, <2>2, DataCarried DEF vars, serverVars, requestVars, clientVars, takenVars
<1>3. ASSUME Initialize PROVE Goal
  <2>1. UNCHANGED <<current, changes, listener, clientVars, handledVars, handling, waiting,
                    responses, seen, replica>>
    BY <1>3 DEF Initialize, requestVars, clientVars, takenVars
  <2>2. Entitled(c)
    BY <1>19, <2>1
  <2>3. current \in DOMAIN stores /\ stores[current] \in Objects /\ stores \in Seq(Objects)
    BY <1>3 DEF Types, StoreTypes, Initialize
  <2>4. stores' = [stores EXCEPT ![current] = [stores[current] EXCEPT !.ready = TRUE]]
    BY <1>3 DEF Initialize
  <2>5. /\ [stores[current] EXCEPT !.ready = TRUE].items = stores[current].items
        /\ [stores[current] EXCEPT !.ready = TRUE].ready
    BY <2>3 DEF Objects
  <2>6. stores'[current].items = stores[current].items /\ stores'[current].ready
    BY <2>3, <2>4, <2>5
  <2>7. \A i \in Ids : \A x : Says(c, i, x)' <=> Says(c, i, x)
    BY <2>1 DEF Says
  <2>8. \A i \in Ids : Leads(c, i) => Leads(c, i)'
    BY <2>1, <2>6, <2>7 DEF Leads, Leader, Stamp
  <2>9. Filled(c) => Filled(c)'
    BY <2>1, <2>6, <2>8 DEF Filled, ContentFor
  <2>10. Awaits(c) => Awaits(c)'
    BY <2>1 DEF Awaits
  <2> QED
    BY <2>2, <2>9, <2>10 DEF DataFollows
<1>4. ASSUME CreateStore \/ Reset PROVE FALSE
  <2>1. current' \notin DOMAIN stores /\ listener' = listener
    BY <1>4, Appended DEF CreateStore, Reset
  <2>2. listener # None /\ listener.on \notin DOMAIN stores
    BY <2>1 DEF Entitled
  <2> QED
    BY <2>2 DEF Types, SyncTypes
<1>5. ASSUME DestroyStore PROVE FALSE
  BY <1>5 DEF DestroyStore, Entitled
<1>6. ASSUME NEW ch \in changes, Notify(ch) PROVE Goal
  <2>1. UNCHANGED <<current, listener, clientVars, handledVars, handling>>
    BY <1>6 DEF Notify, requestVars
  <2>2. Entitled(c)
    BY <1>19, <2>1
  <2> QED
    BY <1>6, <2>2, DataNotify
<1>7. ASSUME NEW i \in Ids, NEW v \in Held, PutOrRemove(i, v) PROVE Goal
  <2>1. UNCHANGED <<current, silent, listener, clientVars, handledVars, handling, waiting,
                    responses, seen, replica>>
    BY <1>7 DEF PutOrRemove, requestVars, clientVars, takenVars, toldVars
  <2>2. Entitled(c)
    BY <1>19, <2>1
  <2>3. current \in DOMAIN stores /\ Commit(current, i, v)
    BY <1>7, Commits
  <2> QED
    BY <1>1, <2>1, <2>2, <2>3, DataCommit
<1>8. ASSUME NEW m \in [Ids -> Values], Populate(m) PROVE Goal
  <2>1. UNCHANGED <<current, changes, listener, clientVars, handledVars, handling, waiting,
                    responses, replica>>
    BY <1>8 DEF Populate, requestVars, clientVars
  <2>2. Entitled(c)
    BY <1>19, <2>1
  <2>3. current # 0 /\ current \in DOMAIN stores /\ StoreTypes
    BY <2>2, NowRule DEF Entitled, Types
  <2>4. current \notin told /\ ~(stores[current].version > 1)
    BY <1>8, <2>1 DEF Populate, Entitled
  <2>5. stores[current].version = 1
    BY <2>3, <2>4, Versions
  <2>6. ASSUME NEW i \in Ids, Leads(c, i) PROVE FALSE
    <3>1. PICK x \in Reported : Says(c, i, x) /\ x.stamp >= Stamp(current, 1)
      BY <2>6 DEF Leads, Leader
    <3>2. Stamp(current, 1) \in Nat /\ Stamp(current, 1) > 0
      <4>1. current * (MaxChanges + 2) \in Nat
        BY <2>3, Versions, BoundAssumption
      <4> QED
        BY <4>1 DEF Stamp
    <3>3. x # [stamp |-> 0, value |-> None]
      BY <3>1, <3>2
    <3>4. PICK on, version \in Nat :
            x = Report(on, version, x.value) /\ Genuine(i, on, version, x.value)
      BY <3>1, <3>3, SaidGenuine
    <3>5. x.stamp = Stamp(on, version)
      BY <3>4 DEF Report
    <3>6. on \in DOMAIN stores /\ version \in 1 .. stores[on].version
      BY <3>4 DEF Genuine
    <3>7. on = current
      <4>1. on # current => Stamp(on, version) < Stamp(current, 1)
        BY <2>3, <3>6, OlderStamp
      <4>2. x.stamp \in Nat
        BY DEF Reported
      <4> QED
        BY <3>1, <3>2, <3>5, <4>1, <4>2
    <3>8. version = 1
      BY <2>5, <3>6, <3>7
    <3> QED
      BY <2>4, <3>4, <3>7, <3>8 DEF Genuine
  <2>7. CASE Awaits(c)
    BY <2>1, <2>7 DEF Awaits
  <2>8. CASE Filled(c)
    <3>1. Ids = {}
      BY <2>6, <2>8 DEF Filled
    <3>2. stores'[current].ready
      <4>1. stores[current] \in Objects /\ stores \in Seq(Objects)
        BY <2>3 DEF StoreTypes
      <4>2. PICK b : b = TRUE
        OBVIOUS
      <4>3. stores'[current] = [[stores[current] EXCEPT !.ready = b] EXCEPT !.items = m]
        BY <1>8, <2>3, <4>1, <4>2 DEF Populate
      <4>4. [[stores[current] EXCEPT !.ready = b] EXCEPT !.items = m]
              = [items |-> m, version |-> stores[current].version, ready |-> b,
                 now |-> stores[current].now]
        BY <4>1, PopulatedObject
      <4> QED
        BY <4>2, <4>3, <4>4
    <3> QED
      BY <2>1, <2>8, <3>1, <3>2 DEF Filled, ContentFor
  <2> QED
    BY <2>2, <2>7, <2>8 DEF DataFollows
<1>9. ASSUME NEW q \in handling, UpdateStore(q) PROVE Goal
  <2>1. /\ UNCHANGED <<current, silent, listener, clientVars, handledVars, waiting, responses,
                       seen, replica>>
        /\ handling' = handling \ {q} /\ q.frame.command = "update"
    BY <1>9 DEF UpdateStore, clientVars, takenVars, toldVars
  <2>2. Entitled(c)
    <3>1. \A o \in handling : o.frame.command # "update" => \E p \in handling' : SameRequest(o, p)
      BY <2>1 DEF SameRequest
    <3> QED
      BY <1>18, <2>1, <3>1, EntitledSame
  <2>5. ASSUME NEW s \in DOMAIN stores, NEW i \in Ids, NEW v \in Held, Commit(s, i, v) PROVE Goal
    BY <1>1, <2>1, <2>2, <2>5, DataCommit
  <2>6. CASE UNCHANGED <<stores, commits, changes>>
    BY <2>1, <2>2, <2>6, DataCarried
  <2> QED
    BY <1>9, <2>5, <2>6, Commits
<1>20. ASSUME NEW q \in handling, LookUp(q) \/ Drops(q) PROVE Goal
  <2>1. /\ UNCHANGED <<serverVars, waiting, clientVars, takenVars, handledVars, responses>>
        /\ \A o \in handling : o.frame.command # "update" => \E p \in handling' : SameRequest(o, p)
    <3>1. CASE LookUp(q)
      <4>1. handling' = (handling \ {q}) \cup {Found(q)} /\ SameRequest(q, Found(q))
        BY <3>1, LookedUp DEF SameRequest, Found
      <4>2. UNCHANGED <<serverVars, waiting, clientVars, takenVars, handledVars, responses>>
        BY <3>1, LookedUp
      <4> QED
        BY <4>1, <4>2 DEF SameRequest
    <3>2. CASE Drops(q)
      <4>1. /\ handling' = handling \ {q} /\ q.frame.command = "update"
            /\ UNCHANGED <<serverVars, waiting, clientVars, takenVars, handledVars, responses>>
        BY <3>2, Dropped
      <4> QED
        BY <4>1 DEF SameRequest
    <3> QED
      BY <1>20, <3>1, <3>2
  <2>2. Entitled(c)
    BY <1>18, <2>1, EntitledSame DEF serverVars
  <2> QED
    BY <2>1, <2>2, DataCarried DEF serverVars, clientVars, takenVars
<1>10. ASSUME NEW w \in waiting, SendContent(w) PROVE Goal
  <2>1. UNCHANGED <<current, listener, clientVars, handledVars, handling>>
    BY <1>10 DEF SendContent, serverVars
  <2>2. Entitled(c)
    BY <1>19, <2>1
  <2> QED
    BY <1>1, <1>10, <2>2, DataSent
<1>11. ASSUME NEW m \in responses, TakeResponse(m) PROVE Goal
  <2>1. UNCHANGED <<current, silent, listener, wire, subscribed, handling, overtaken, refused>>
    BY <1>11, Took DEF serverVars, toldVars, requestVars, handledVars
  <2>2. /\ replica'[c].open = replica[c].open /\ replica'[c].cut = replica[c].cut
    <3>1. CASE Takes(m.to)
      <4>1. replica' = [replica EXCEPT ![m.to] = Taking(m.to, m.body)]
        BY <1>11, <3>1, Took
      <4>2. /\ Taking(m.to, m.body).open = replica[m.to].open
            /\ Taking(m.to, m.body).cut = replica[m.to].cut
        BY DEF Taking
      <4> QED
        BY <4>1, <4>2 DEF Types, ClientTypes
    <3>2. CASE ~Takes(m.to)
      BY <1>11, <3>2, Took
    <3> QED
      BY <3>1, <3>2
  <2>3. Pending(c) => Pending(c)'
    BY <2>1 DEF Pending, Later, OpenOnWire, OpenHandling, OnWire
  <2>4. Entitled(c)
    BY <2>1, <2>2, <2>3 DEF Entitled, Fresh
  <2> QED
    BY <1>11, <2>4, DataTaken
<1>12. ASSUME NEW q \in handling, OpenStore(q) \/ CloseStore(q) \/ Refuses(q) PROVE Goal
  <2>1. UNCHANGED <<stores, current, changes, responses, clientVars, takenVars>>
    BY <1>12, Handled
  <2>2. seen'[c] = seen[c] /\ replica'[c].filled = replica[c].filled
    BY <2>1 DEF clientVars, takenVars
  <2>3. waiting \subseteq waiting'
    BY <1>12 DEF OpenStore, CloseStore, Refuses, FindNone
  <2>4. Entitled(c) \/ Awaits(c)'
    BY <1>12, EntitledHandled
  <2> QED
    BY <2>1, <2>2, <2>3, <2>4, DataCarried
<1>13. ASSUME NEW d \in Clients, Receive(d) PROVE Goal
  <2>1. PICK f : Arrives(d, f) /\ (ComesUp(d, f) \/ GoesDown(d, f) \/ Asked(d, f))
    BY <1>13, Arrived DEF Frame
  <2>2. Entitled(c)
    BY <2>1, EntitledArrived
  <2>3. UNCHANGED <<stores, current, changes, responses, waiting, seen, replica>>
    BY <2>1 DEF Arrives, takenVars
  <2> QED
    BY <2>2, <2>3, DataCarried
<1>14. ASSUME NEW d \in Clients, NEW f, Move(d, f) PROVE Goal
  <2>1. Entitled(c) /\ seen'[c] = seen[c] /\ replica'[c].filled = replica[c].filled
    BY <1>14, EntitledMoved
  <2>2. UNCHANGED <<stores, current, changes, responses, waiting>>
    BY <1>14 DEF Move, serverVars, requestVars
  <2> QED
    BY <2>1, <2>2, DataCarried
<1>15. ASSUME NEW d \in Clients, InitializeGalactic(d) PROVE Goal
  <2>1. UNCHANGED <<stores, current, changes, silent, responses, waiting, seen, listener,
                    wire, subscribed, handling, overtaken, refused>>
    BY <1>15 DEF InitializeGalactic, serverVars, toldVars, requestVars, takenVars, handledVars
  <2>2. PICK new \in Replicas :
           /\ replica' = [replica EXCEPT ![d] = new]
           /\ new = [open |-> replica[d].open, items |-> replica[d].items,
                     version |-> replica[d].version, ready |-> TRUE, filling |-> FALSE,
                     filled |-> replica[d].filled, cut |-> replica[d].cut]
    BY <1>15, Initialized
  <2>3. new.open = replica[d].open /\ new.cut = replica[d].cut /\ new.filled = replica[d].filled
    BY <2>2
  <2>4. /\ replica'[c].open = replica[c].open /\ replica'[c].cut = replica[c].cut
        /\ replica'[c].filled = replica[c].filled
    BY <2>2, <2>3 DEF Types, ClientTypes
  <2>5. Pending(c) => Pending(c)'
    BY <2>1 DEF Pending, Later, OpenOnWire, OpenHandling, OnWire
  <2>6. Entitled(c)
    BY <2>1, <2>4, <2>5 DEF Entitled, Fresh
  <2> QED
    BY <2>1, <2>4, <2>6, DataCarried
<1> HIDE DEF Goal
<1>16. ASSUME NEW d \in Clients,
             \/ SubscribeChannel(d) \/ UnsubscribeChannel(d)
             \/ OpenGalacticStore(d) \/ ResetGalactic(d) \/ OnDestroy(d)
             \/ \E i \in Ids, v \in Held : SendUpdateStore(d, i, v)
      PROVE  Goal
  BY <1>14, <1>16, Moved
<1>17. Goal
  BY <1>2, <1>3, <1>4, <1>5, <1>6, <1>7, <1>8, <1>9, <1>10, <1>11, <1>12, <1>13, <1>15, <1>16,
     <1>20, Steps, FoundNone
<1> QED
  BY <1>17 DEF Goal
-----------------------------------------------------------------------------
(***************************************************************************)
(* The theorems.                                                           *)
(***************************************************************************)
\* Whatever the loop of the STOMP server, the goroutines of the bus, the manager
\* of the stores and the clients do, in whatever order: the frames of a client
\* are handled as IInv says, and the newest report on every item of the store is
\* so for each client entitled to its content.
THEOREM Invariant == Spec => []IInv
<1>1. Init => IInv
  BY TypesInitially, FrameInitially, GenuineInitially, DataInitially, FilledInitially DEF IInv
<1>2. IInv /\ [Next]_vars => IInv'
  BY TypesStep, FrameStep, GenuineStep, DataStep, FilledStep DEF IInv
<1> QED
  BY <1>1, <1>2, PTL DEF Spec

\* TypeOK says less than the types of the proof.
LEMMA TypesSuffice == Types => TypeOK
<1> SUFFICES ASSUME Types PROVE TypeOK
  OBVIOUS
<1>1. StoreTypes /\ SyncTypes /\ ClientTypes
  BY DEF Types
<1>2. Len(stores) \in 0 .. MaxObjects /\ current \in 0 .. Len(stores)
  <2>1. Len(stores) \in Nat
    BY <1>1 DEF StoreTypes
  <2> QED
    BY <1>1, <2>1, BoundAssumption DEF StoreTypes
<1>3. \A s \in DOMAIN stores :
        stores[s].version \in 1 .. MaxChanges + 1 /\ stores[s].now \in s .. Len(stores)
  BY <1>1, Versions DEF StoreTypes
<1>4. /\ \A c \in Clients : syncClients[c] \in 0 .. Budget
      /\ \A p \in openStores : p[1] \in Clients /\ p[2] \in 1 .. Budget
      /\ \A q \in handling : q.frame \in Frames /\ q.found \in 0 .. Len(stores)
      /\ \A w \in waiting : w.on \in DOMAIN stores
  BY <1>1 DEF SyncTypes, Requests
<1>5. listener = None \/ listener.channels \in (SUBSET Clients) \ {{}}
  <2>1. ASSUME listener # None
        PROVE  listener.channels \in SUBSET Clients /\ listener.channels # {}
    BY <1>1, <2>1 DEF SyncTypes, Listeners
  <2> QED
    BY <2>1
<1>6. \A c \in Clients : \A k \in DOMAIN wire[c] : wire[c][k] \in Frames
  <2>1. \A c \in Clients : wire[c] \in Seq(Frames)
    BY <1>1 DEF ClientTypes
  <2> QED
    BY <2>1
<1>7. \A c \in Clients : replica[c].items \in [Ids -> Values \cup {None}]
  BY <1>1 DEF ClientTypes, Replicas, Held
<1> QED
  BY <1>1, <1>2, <1>3, <1>4, <1>5, <1>6, <1>7 DEF TypeOK, StoreTypes

\* The sync service has only channels of clients and numbers of theirs, a listener
\* of a store has channels, and what waits for a store waits for one there is.
THEOREM TypeCorrect == Spec => []TypeOK
BY Invariant, TypesSuffice, PTL DEF IInv

\* openStore, closeStore and closeClientSyncChannel leave the listener of the store
\* with the channels of the clients that have it open and nobody else's, at
\* every moment and not only at rest.
THEOREM ListenerServed == Spec => []ListenerServesOpenClients
BY Invariant, PTL DEF IInv, Frame

\* At rest nothing speaks of the store but what a client has taken.
LEMMA AtRest ==
  ASSUME IInv, Quiet, NEW c \in Served
  PROVE  /\ c \in Clients /\ replica[c].open /\ replica[c].ready
         /\ \A i \in Ids : seen[c][i].value = stores[current].items[i]
<1>1. /\ c \in Clients /\ Fresh(c) /\ c \notin overtaken /\ c \notin refused
      /\ current # 0 /\ stores[current].ready /\ current \notin silent
      /\ (listener = None \/ listener.on = current)
  BY DEF Served, Fresh, IInv, Types, ClientTypes
<1>2. ~Pending(c)
  <2>1. wire[c] = <<>> /\ handling = {}
    BY <1>1 DEF Quiet
  <2>2. OnWire(c) = {}
    BY <2>1 DEF OnWire, Range
  <2> QED
    BY <2>1, <2>2 DEF Pending, Later, OpenOnWire, OpenHandling
<1>3. listener # None
  BY <1>1, <1>2 DEF IInv, Frame, OpenServed, ListenerServesOpenClients
<1>4. ~Awaits(c)
  BY <1>1 DEF Awaits, Quiet
<1>5. Filled(c)
  BY <1>1, <1>2, <1>3, <1>4 DEF Entitled, IInv, DataFollows
<1>6. replica[c].ready
  BY <1>1, <1>5 DEF Filled, ContentFor, Quiet, IInv, ReplicasFilled
<1>7. ASSUME NEW i \in Ids PROVE seen[c][i].value = stores[current].items[i]
  <2>1. PICK x \in Reported : Says(c, i, x) /\ x.value = stores[current].items[i]
    BY <1>5 DEF Filled, Leads, Leader
  <2>2. x = seen[c][i]
    BY <2>1 DEF Says, Quiet
  <2> QED
    BY <2>1, <2>2
<1> QED
  BY <1>1, <1>6, <1>7 DEF Fresh

\* In whatever order the goroutines deliver the responses of the sync service: the
\* one with the highest storeVersion that mentions an item tells what the store
\* holds of it, once all is quiet; changes, Resets and new stores come at any moment
\* of openStore.  Of a store that was populated after it was told of as empty, of
\* one destroyed or reset in the middle of openStore or after it, nothing is said.
THEOREM NewestIsCurrent == Spec => []NewestResponseIsCurrent
<1>1. IInv => NewestResponseIsCurrent
  BY AtRest DEF NewestResponseIsCurrent
<1> QED
  BY <1>1, Invariant, PTL

\* What was seen of the items is what the replica holds.
LEMMA ReplicaAtRest == IInv => ReplicaConverges
<1> SUFFICES ASSUME IInv PROVE ReplicaConverges
  OBVIOUS
<1>1. ASSUME Quiet, NEW c \in Served \ reordered
      PROVE  replica[c].ready /\ replica[c].items = stores[current].items
  <2>1. /\ c \in Clients /\ replica[c].open /\ replica[c].ready
        /\ \A i \in Ids : seen[c][i].value = stores[current].items[i]
    BY <1>1, AtRest
  <2>2. \A i \in Ids : seen[c][i].value = replica[c].items[i]
    BY <1>1, <2>1 DEF IInv, ReplicasFilled
  <2>3. replica[c].items \in [Ids -> Held]
    BY <2>1 DEF IInv, Types, ClientTypes, Replicas
  <2>4. stores[current].items \in [Ids -> Held]
    <3>1. current \in DOMAIN stores /\ stores \in Seq(Objects)
      <4>1. current # 0
        BY <1>1 DEF Served
      <4> QED
        BY <4>1 DEF IInv, Types, StoreTypes
    <3>2. stores[current] \in Objects
      BY <3>1
    <3> QED
      BY <3>2 DEF Objects
  <2> QED
    BY <2>1, <2>2, <2>3, <2>4
<1>2. \A c \in Clients \ interrupted : replica[c].ready => replica[c].filled
  BY DEF IInv, ReplicasFilled
<1> QED
  BY <1>1, <1>2 DEF ReplicaConverges

\* A galactic store that takes the responses in the order they were made is ready
\* and has the items of the store at rest: between the content that openStore sends
\* and the updates of the listener no Put and no Remove is lost.  Populate is, when
\* the empty store was told of already, and so is what comes after a Reset of the
\* store or its end, until the client opens it again: these are not in Served.  And
\* no galactic store is ready without content, unless it was reset while content
\* was being taken.
THEOREM Converges == Spec => []ReplicaConverges
BY Invariant, ReplicaAtRest, PTL
=============================================================================
