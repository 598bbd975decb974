----------------------------- MODULE StoreSync ------------------------------
(***************************************************************************)
(* A store and its replicas: the store manager (store/store_manager.go),   *)
(* the sync service (store/store_sync_service.go) and the galactic half of *)
(* store/store.go, for one store id.                                       *)
(*                                                                         *)
(* A client's frames reach the server in order, and the loop of the STOMP  *)
(* server takes one after the other.  From there on nothing is ordered:    *)
(* the bus starts a goroutine for every message, the requests of a client  *)
(* at the server (handling) and the responses to it (responses).  The      *)
(* streams of the store and who else is told of a change are the subject   *)
(* of Store; here a change is notified in one step, some time after it was *)
(* committed.  Reset of the store at the server makes a new incarnation of *)
(* it: without items, streams and versions, and with a readyC of its own.  *)
(* Who has a store object keeps it through a Reset, and through its        *)
(* destruction, when the manager makes another one.                        *)
(***************************************************************************)
EXTENDS Naturals, Sequences, FiniteSets, Functions

CONSTANTS
  Clients,         \* each with a sync channel of its own
  Ids, Values,
  None,            \* no item; no listener
  Budget,          \* bound: frames a client sends
  MaxFrames,       \* bound: frames all clients send
  MaxWire,         \* bound: frames of a client on their way
  MaxChanges,      \* bound: changes committed to the store
  MaxObjects       \* bound: stores created under the id, and Resets of them

ASSUME BoundAssumption ==
  /\ Budget \in Nat /\ MaxFrames \in Nat /\ MaxWire \in Nat
  /\ MaxChanges \in Nat /\ MaxObjects \in Nat \ {0}

\* No listener is not one.
ASSUME NoneAssumption == None \notin [on : Nat, channels : SUBSET Clients]

VARIABLES
  stores,          \* incarnations of the stores made under the id so far; now:
                   \* what Resets have made of the store since
  current,         \* that of the store the manager has, 0 if none
  told,            \* history: incarnations whose content was read for a client
  silent,          \* history: those populated although something was told of
                   \* them already
  changes,         \* committed, the stream is not told yet
  syncClients,     \* the syncClientChannel of a client, a number; 0 if none
  openStores,      \* which of these have the store open: <<client, number>>
  listener,        \* syncStoreListeners[id]: the incarnation whose stream it
                   \* has, its channels
  wire,            \* frames of a client on their way
  handling,        \* requests the bus has started a goroutine for; found: the
                   \* store it was given by the manager, 0 before it has asked
  waiting,         \* WhenReady callbacks of openStore, and whose readyC they have
  responses,       \* on their way to the clients
  subscribed,      \* clients subscribed to their sync channel
  replica,         \* the galactic store of a client; filling: content was taken,
                   \* Initialize is next; history: filled (content was taken
                   \* since the last Reset), cut (the channel was left meanwhile)
  commits,         \* history: number of changes
  frames,          \* history: number of frames a client has sent
  handled,         \* history: newest frame of a client that was handled
  overtaken,       \* history: clients whose requests were handled out of order
  reordered,       \* history: clients that took responses out of order
  refused,         \* history: clients that opened a store there was not, or
                   \* that was destroyed while they did
  interrupted,     \* history: clients that reset a replica being filled
  newest,          \* history: stamp of the newest response taken
  seen             \* history: newest value of an item among those

toldVars == <<told, silent>>
serverVars == <<stores, commits, current, changes, toldVars, syncClients, openStores,
                listener>>
requestVars == <<handling, waiting>>
clientVars == <<subscribed, replica, wire, frames>>
takenVars == <<reordered, interrupted, newest, seen>>
handledVars == <<handled, overtaken, refused>>
vars == <<serverVars, requestVars, clientVars, takenVars, handledVars, responses>>

Empty == [i \in Ids |-> None]
NewStore(s) == [items |-> Empty, version |-> 1, ready |-> FALSE, now |-> s]
NoReplica == [open |-> FALSE, items |-> Empty, version |-> 1, ready |-> FALSE,
              filling |-> FALSE, filled |-> FALSE, cut |-> FALSE]
NewReplica == [NoReplica EXCEPT !.open = TRUE]
Unseen == [i \in Ids |-> [stamp |-> 0, value |-> None]]

Init ==
  /\ stores = <<>> /\ current = 0 /\ commits = 0 /\ told = {} /\ silent = {}
  /\ changes = {} /\ responses = {} /\ handling = {} /\ waiting = {}
  /\ syncClients = [c \in Clients |-> 0]
  /\ openStores = {}
  /\ listener = None
  /\ wire = [c \in Clients |-> <<>>]
  /\ subscribed = {}
  /\ replica = [c \in Clients |-> NoReplica]
  /\ frames = syncClients
  /\ handled = syncClients
  /\ overtaken = {} /\ reordered = {} /\ refused = {} /\ interrupted = {}
  /\ newest = [c \in Clients |-> 0]
  /\ seen = [c \in Clients |-> Unseen]

\* Versions of one incarnation, incarnations one after the other.
Stamp(on, version) == on * (MaxChanges + 2) + version

\* A response is sent to the clients whose channel exists, once for each.
Respond(to, r) ==
  responses' = responses \cup {[to |-> c, body |-> r] :
                                 c \in {d \in to : syncClients[d] # 0}}
-----------------------------------------------------------------------------
(***************************************************************************)
(* The store at the server and its manager.                                *)
(***************************************************************************)
SameVersion(on) == stores[on].version
NextVersion(on) == stores[on].version + 1

\* Removing what is not there changes nothing.
Changes(on, i, v) == v # None \/ stores[on].items[i] # None

\* putInternalContext, removeInternalContext.
Commit(on, i, v) ==
  /\ Changes(on, i, v)
  /\ commits < MaxChanges /\ commits' = commits + 1
  /\ stores' = [stores EXCEPT ![on].items[i] = v, ![on].version = NextVersion(on)]
  /\ changes' = changes \cup {[on |-> on, id |-> i, value |-> v,
                               version |-> NextVersion(on)]}

PutOrRemove(i, v) ==
  /\ current # 0 /\ Commit(current, i, v)
  /\ UNCHANGED <<current, toldVars, syncClients, openStores, listener, requestVars,
                 clientVars, takenVars, handledVars, responses>>

Initialize ==
  /\ current # 0 /\ ~stores[current].ready
  /\ stores' = [stores EXCEPT ![current].ready = TRUE]
  /\ UNCHANGED <<commits, current, changes, toldVars, syncClients, openStores, listener,
                 requestVars, clientVars, takenVars, handledVars, responses>>

\* A store that has no items, initialised or not, changed or not: no version is
\* counted and nobody is notified.
Populate(m) ==
  /\ current # 0 /\ stores[current].items = Empty
  /\ stores' = [stores EXCEPT ![current].ready = TRUE, ![current].items = m]
  /\ silent' = IF current \in told \/ stores[current].version > 1
               THEN silent \cup {current} ELSE silent
  /\ UNCHANGED <<commits, current, changes, told, syncClients, openStores, listener,
                 requestVars, clientVars, takenVars, handledVars, responses>>

\* Replaces the streams of the store too: the listener of the sync service is not
\* told of it, and not called again.
Reset ==
  /\ current # 0 /\ Len(stores) < MaxObjects
  /\ LET next == Len(stores) + 1
     IN  /\ stores' = Append([s \in DOMAIN stores |->
                        IF stores[s].now = current
                        THEN [stores[s] EXCEPT !.now = next] ELSE stores[s]],
                      NewStore(next))
         /\ current' = next
  /\ UNCHANGED <<commits, changes, toldVars, syncClients, openStores, listener,
                 requestVars, clientVars, takenVars, handledVars, responses>>

\* The listener of the sync service, called with a change of its store.  The
\* streams are those the store has now, when it was reset since the change too.
Notify(ch) ==
  /\ ch \in changes
  /\ changes' = changes \ {ch}
  /\ IF listener # None /\ listener.on = stores[ch.on].now
     THEN Respond(listener.channels, [kind |-> "update", on |-> ch.on,
            version |-> ch.version, id |-> ch.id, value |-> ch.value])
     ELSE UNCHANGED responses
  /\ UNCHANGED <<stores, commits, current, toldVars, syncClients, openStores, listener,
                 requestVars, clientVars, takenVars, handledVars>>

CreateStore ==
  /\ current = 0 /\ Len(stores) < MaxObjects
  /\ stores' = Append(stores, NewStore(Len(stores) + 1))
  /\ current' = Len(stores) + 1
  /\ UNCHANGED <<commits, changes, toldVars, syncClients, openStores, listener, requestVars,
                 clientVars, takenVars, handledVars, responses>>

DestroyStore ==
  /\ current # 0
  /\ current' = 0
  /\ UNCHANGED <<stores, commits, changes, toldVars, syncClients, openStores, listener,
                 requestVars, clientVars, takenVars, handledVars, responses>>
-----------------------------------------------------------------------------
(***************************************************************************)
(* The sync service.                                                       *)
(***************************************************************************)
AddFirst(l, on, c) == IF l = None THEN [on |-> on, channels |-> {c}] ELSE l
AddChannel(l, on, c) ==
  IF l = None THEN [on |-> on, channels |-> {c}]
  ELSE [l EXCEPT !.channels = @ \cup {c}]

\* A listener whose last channel is removed is unsubscribed and forgotten.
KeepEmpty(l, c) ==
  IF l = None THEN None ELSE [l EXCEPT !.channels = @ \ {c}]
WithoutChannel(l, c) ==
  IF l = None \/ l.channels \subseteq {c} THEN None
  ELSE [l EXCEPT !.channels = @ \ {c}]

OpenChannel(c, n) ==
  /\ syncClients' = [syncClients EXCEPT ![c] = IF @ = 0 THEN n ELSE @]
  /\ UNCHANGED <<openStores, listener, handling>>

\* closeClientSyncChannel, when the last subscription of the client went and the
\* fabric endpoint destroyed the channel.
LeaveListener(c) == UNCHANGED <<openStores, listener>>
CloseClientSyncChannel(c) ==
  IF <<c, syncClients[c]>> \in openStores
  THEN /\ listener' = WithoutChannel(listener, c)
       /\ openStores' = openStores \ {<<c, syncClients[c]>>}
  ELSE UNCHANGED <<openStores, listener>>

CloseChannel(c) ==
  /\ CloseClientSyncChannel(c)
  /\ syncClients' = [syncClients EXCEPT ![c] = 0]
  /\ UNCHANGED handling

\* A request is handled for the syncClientChannel whose listener is on the
\* channel now; without a channel it is lost.
StartRequest(c, f) ==
  /\ handling' = IF syncClients[c] = 0 THEN handling
                 ELSE handling \cup {[client |-> c, object |-> syncClients[c],
                                      frame |-> f, found |-> 0]}
  /\ UNCHANGED <<syncClients, openStores, listener>>

Receive(c) ==
  /\ wire[c] # <<>>
  /\ wire' = [wire EXCEPT ![c] = Tail(@)]
  /\ LET f == Head(wire[c])
     IN  CASE f.command = "subscribe" ->
                /\ OpenChannel(c, f.n)
                /\ handled' = [handled EXCEPT ![c] = f.n]
           [] f.command = "unsubscribe" ->
                /\ CloseChannel(c)
                /\ handled' = [handled EXCEPT ![c] = f.n]
           [] OTHER -> StartRequest(c, f) /\ UNCHANGED handled
  /\ UNCHANGED <<stores, commits, current, changes, toldVars, waiting, subscribed,
                 replica, frames, takenVars, overtaken, refused, responses>>

\* A request of q is over.  One that opens or closes the store may come after
\* what its client sent later.
Handles(q, commands) ==
  /\ q \in handling /\ q.frame.command \in commands
  /\ handling' = handling \ {q}
  /\ IF q.frame.command = "update" THEN UNCHANGED <<handled, overtaken>>
     ELSE IF q.frame.n < handled[q.client]
          THEN /\ overtaken' = overtaken \cup {q.client}
               /\ UNCHANGED handled
          ELSE /\ handled' = [handled EXCEPT ![q.client] = q.frame.n]
               /\ UNCHANGED overtaken
  /\ UNCHANGED <<stores, commits, current, changes, toldVars, syncClients, clientVars,
                 takenVars, responses>>

\* openStore and updateStore ask the manager before they take the lock of the
\* service, or that of the store; without a store the request is over.
LookUp(q) ==
  /\ q.found = 0 /\ current # 0
  /\ q \in handling /\ q.frame.command \in {"open", "update"}
  /\ handling' = (handling \ {q}) \cup {[q EXCEPT !.found = current]}
  /\ UNCHANGED <<serverVars, waiting, clientVars, takenVars, handledVars, responses>>

FindNone(q) ==
  /\ q.found = 0 /\ current = 0
  /\ Handles(q, {"open", "update"})
  /\ refused' = IF q.frame.command = "open" THEN refused \cup {q.client} ELSE refused
  /\ UNCHANGED <<openStores, listener, waiting>>

\* Under the lock of the service, with the store that was found.  Only its lock
\* keeps it from being reset, and after a new listener has subscribed (on) it may
\* be before WhenReady is called.
OpenStore(q) ==
  /\ q.found # 0 /\ Handles(q, {"open"})
  /\ LET now == stores[q.found].now
     IN  /\ \E on \in {s \in DOMAIN stores : q.found <= s /\ s <= now} :
              listener' = AddChannel(listener, on, q.client)
         /\ waiting' = waiting \cup {[client |-> q.client, on |-> now,
                                      n |-> q.frame.n]}
         /\ refused' = IF now = current THEN refused \ {q.client}
                                         ELSE refused \cup {q.client}
  /\ openStores' = openStores \cup {<<q.client, q.object>>}

CloseStore(q) ==
  /\ Handles(q, {"close"})
  /\ openStores' = openStores \ {<<q.client, q.object>>}
  /\ listener' = WithoutChannel(listener, q.client)
  /\ UNCHANGED <<waiting, refused>>

\* Nothing is compared with the version the client has sent.
UpdateStore(q) ==
  /\ q \in handling /\ q.frame.command = "update" /\ q.found # 0
  /\ handling' = handling \ {q}
  /\ LET on == stores[q.found].now
     IN  IF Changes(on, q.frame.id, q.frame.value)
         THEN Commit(on, q.frame.id, q.frame.value)
         ELSE UNCHANGED <<stores, commits, changes>>
  /\ UNCHANGED <<current, toldVars, syncClients, openStores, listener, waiting,
                 clientVars, takenVars, handledVars, responses>>

\* The callback openStore has left with WhenReady: it waits for the incarnation of
\* then, and reads what the store holds now.
SendContent(w) ==
  /\ w \in waiting /\ stores[w.on].ready
  /\ waiting' = waiting \ {w}
  /\ LET now == stores[w.on].now
     IN  /\ Respond({w.client}, [kind |-> "content", on |-> now,
              version |-> stores[now].version, items |-> stores[now].items,
              n |-> w.n])
         /\ told' = told \cup {now}
  /\ UNCHANGED <<stores, commits, current, changes, silent, syncClients, openStores,
                 listener, handling, clientVars, takenVars, handledVars>>
-----------------------------------------------------------------------------
(***************************************************************************)
(* A client: its subscription, and its galactic store.                     *)
(***************************************************************************)
SendFrame(c, command, i, v) ==
  /\ frames[c] < Budget /\ Len(wire[c]) < MaxWire
  /\ SumFunction(frames) < MaxFrames
  /\ frames' = [frames EXCEPT ![c] = @ + 1]
  /\ wire' = [wire EXCEPT ![c] = Append(@, [n |-> frames[c] + 1,
                command |-> command, id |-> i, value |-> v])]
  /\ UNCHANGED <<serverVars, requestVars, handledVars, reordered, responses>>

SubscribeChannel(c) ==
  /\ c \notin subscribed
  /\ subscribed' = subscribed \cup {c}
  /\ SendFrame(c, "subscribe", None, None)
  /\ UNCHANGED <<replica, interrupted, newest, seen>>

UnsubscribeChannel(c) ==
  /\ c \in subscribed
  /\ subscribed' = subscribed \ {c}
  /\ replica' = [replica EXCEPT ![c].cut = TRUE]
  /\ SendFrame(c, "unsubscribe", None, None)
  /\ UNCHANGED <<interrupted, newest, seen>>

\* A store that is new or reset sends openStore.
Begins(c) ==
  /\ SendFrame(c, "open", None, None)
  /\ newest' = [newest EXCEPT ![c] = 0]
  /\ seen' = [seen EXCEPT ![c] = Unseen]
  /\ UNCHANGED subscribed

OpenGalacticStore(c) ==
  /\ c \in subscribed /\ ~replica[c].open
  /\ replica' = [replica EXCEPT ![c] = NewReplica]
  /\ Begins(c)
  /\ UNCHANGED interrupted

ResetGalactic(c) ==
  /\ replica[c].open
  /\ replica' = [replica EXCEPT ![c] = 
       [NewReplica EXCEPT !.filling = replica[c].filling,
                          !.cut = c \notin subscribed]]
  /\ interrupted' = IF replica[c].filling THEN interrupted \cup {c}
                                          ELSE interrupted
  /\ Begins(c)

OnDestroy(c) ==
  /\ replica[c].open
  /\ replica' = [replica EXCEPT ![c] = NoReplica]
  /\ SendFrame(c, "close", None, None)
  /\ UNCHANGED <<subscribed, interrupted, newest, seen>>

\* putGalactic and removeGalactic change nothing here; the update that comes
\* back does.
SendUpdateStore(c, i, v) ==
  /\ replica[c].open
  /\ SendFrame(c, "update", i, v)
  /\ UNCHANGED <<subscribed, replica, interrupted, newest, seen>>

PutGalactic(c, i, v) == SendUpdateStore(c, i, v)
RemoveGalactic(c, i) ==
  replica[c].items[i] # None /\ SendUpdateStore(c, i, None)

Taken(c, r) ==
  LET s == Stamp(r.on, r.version)
      V(i) == IF r.kind = "content" THEN r.items[i] ELSE r.value
  IN  /\ newest' = [newest EXCEPT ![c] = IF s > @ THEN s ELSE @]
      /\ reordered' = IF s < newest[c] THEN reordered \cup {c} ELSE reordered
      /\ seen' = [seen EXCEPT ![c] = [i \in Ids |->
           IF (r.kind = "content" \/ i = r.id) /\ s >= @[i].stamp
           THEN [stamp |-> s, value |-> V(i)] ELSE @[i]]]

Initializes(r) == r.kind = "content"

\* Content replaces all items, an update one; either is taken as it comes.  The
\* store is initialised after the lock of the items was released.
TakeResponse(m) ==
  LET c == m.to
      r == m.body
  IN  /\ m \in responses
      /\ responses' = responses \ {m}
      /\ IF c \in subscribed /\ replica[c].open
         THEN /\ replica' = [replica EXCEPT
                   ![c].version = r.version,
                   ![c].items = IF r.kind = "content" THEN r.items
                                ELSE [@ EXCEPT ![r.id] = r.value],
                   ![c].filling = @ \/ Initializes(r),
                   ![c].filled = @ \/ r.kind = "content"]
              /\ Taken(c, r)
         ELSE UNCHANGED <<replica, newest, reordered, seen>>
      /\ UNCHANGED <<serverVars, requestVars, handledVars, subscribed, wire,
                     frames, interrupted>>

InitializeGalactic(c) ==
  /\ replica[c].filling
  /\ replica' = [replica EXCEPT ![c].filling = FALSE, ![c].ready = TRUE]
  /\ UNCHANGED <<serverVars, requestVars, handledVars, subscribed, wire, frames,
                 takenVars, responses>>
-----------------------------------------------------------------------------
Next ==
  \/ Initialize \/ CreateStore \/ DestroyStore \/ Reset
  \/ \E ch \in changes : Notify(ch)
  \/ \E q \in handling :
       LookUp(q) \/ FindNone(q) \/ OpenStore(q) \/ CloseStore(q) \/ UpdateStore(q)
  \/ \E w \in waiting : SendContent(w)
  \/ \E m \in responses : TakeResponse(m)
  \/ \E i \in Ids, v \in Values \cup {None} : PutOrRemove(i, v)
  \/ \E m \in [Ids -> Values] : Populate(m)
  \/ \E c \in Clients :
       \/ Receive(c) \/ SubscribeChannel(c) \/ UnsubscribeChannel(c)
       \/ OpenGalacticStore(c) \/ ResetGalactic(c) \/ OnDestroy(c)
       \/ InitializeGalactic(c)
       \/ \E i \in Ids :
            RemoveGalactic(c, i) \/ \E v \in Values : PutGalactic(c, i, v)

Spec == Init /\ [][Next]_vars
-----------------------------------------------------------------------------
Frames == [n : 1 .. Budget, id : Ids \cup {None}, value : Values \cup {None},
           command : {"subscribe", "unsubscribe", "open", "close", "update"}]

TypeOK ==
  /\ Len(stores) \in 0 .. MaxObjects /\ current \in 0 .. Len(stores)
  /\ commits \in 0 .. MaxChanges
  /\ \A s \in DOMAIN stores :
       stores[s].version \in 1 .. MaxChanges + 1 /\ stores[s].now \in s .. Len(stores)
  /\ \A c \in Clients : syncClients[c] \in 0 .. Budget
  /\ \A p \in openStores : p[1] \in Clients /\ p[2] \in 1 .. Budget
  /\ listener = None \/ listener.channels \in (SUBSET Clients) \ {{}}
  /\ \A c \in Clients : \A k \in DOMAIN wire[c] : wire[c][k] \in Frames
  /\ \A q \in handling : q.frame \in Frames /\ q.found \in 0 .. Len(stores)
  /\ \A w \in waiting : w.on \in DOMAIN stores
  /\ \A c \in Clients : replica[c].items \in [Ids -> Values \cup {None}]

\* The listener of the store has the channels of the clients that have it open
\* and nobody else's, and is gone without any, whatever comes and goes at a time.
\* (Not those of a client whose openStore or closeStore was handled after what it
\* sent later: the goroutines of the bus keep no order, and the service none.)
ListenerServesOpenClients ==
  \A c \in Clients \ overtaken :
    (listener # None /\ c \in listener.channels)
      <=> <<c, syncClients[c]>> \in openStores

\* Nothing is on its way any more.
Quiet ==
  /\ handling = {} /\ changes = {} /\ responses = {}
  /\ \A c \in Clients : wire[c] = <<>> /\ ~replica[c].filling
  /\ \A w \in waiting : ~stores[w.on].ready

\* Clients entitled to the content of the store: it was there while they opened it,
\* is initialised, the listener was not left on an older one or on what the store
\* was before a Reset, and they have not left the channel since (nobody opens the
\* store again when it comes back).  Nobody is entitled to what Populate put into a
\* store that was empty when it was told of: it makes no version and no update.
Served ==
  {c \in subscribed \ (overtaken \cup refused) :
     /\ replica[c].open /\ ~replica[c].cut
     /\ current # 0 /\ stores[current].ready /\ current \notin silent
     /\ listener = None \/ listener.on = current}

\* An open replica that has taken responses in the order they were made is ready
\* and has the content of the store when all is quiet: no Put and no Remove falls
\* between the content openStore sends and the updates of the listener.  And who waits
\* for a replica to be ready finds that content in it, not only updates, unless
\* it is reset while content is being taken: that initialises it without.
ReplicaConverges ==
  /\ Quiet => \A c \in Served \ reordered :
                replica[c].ready /\ replica[c].items = stores[current].items
  /\ \A c \in Clients \ interrupted : replica[c].ready => replica[c].filled

\* In whatever order they come: for every item, the response with the highest
\* storeVersion that mentions it tells its value.  (What the galactic store keeps
\* is the one that came last.)
NewestResponseIsCurrent ==
  Quiet => \A c \in Served : \A i \in Ids :
             seen[c][i].value = stores[current].items[i]
=============================================================================
