------------------------------- MODULE Store --------------------------------
(***************************************************************************)
(* A local store (store/store.go) with its streams (store/store_stream.go, *)
(* store/mutation_store_stream.go).                                        *)
(*                                                                         *)
(* A change is committed under itemsMu, and the goroutine that made it     *)
(* then notifies, without a lock, the streams that were registered after   *)
(* the commit.  Stores and mutations notify their streams alike.  A        *)
(* handler holds no lock: what it does to the store is what another        *)
(* goroutine may do at that point.                                         *)
(*                                                                         *)
(* A stream stands for its owner too: it subscribes, reads all items once  *)
(* the store is ready, as the store sync service does, and keeps the value *)
(* of every item that has the highest StoreVersion.                        *)
(***************************************************************************)
EXTENDS Naturals, Sequences, Functions

CONSTANTS
  Goroutines,
  Ids,             \* ids of items, types of mutation requests
  Values,
  Streams,
  Kind,            \* what a stream subscribes to: "change" or "mutation"
  Filter,          \* the ids a stream matches
  Waiters,         \* callers of WhenReady
  None,            \* no item, no notice, no stream
  MaxCalls,        \* bound: changes, mutation requests, (un)subscriptions
  MaxResets        \* bound: calls of Reset

ASSUME KindAssumption == Kind \in [Streams -> {"change", "mutation"}]
ASSUME FilterAssumption == Filter \in [Streams -> SUBSET Ids]
ASSUME BoundAssumption == MaxCalls \in Nat /\ MaxResets \in Nat

VARIABLES
  items,           \* value of an item, None without
  storeVersion,
  registered,      \* storeStreams and mutationStreams
  handler,         \* whether the handler of a stream is set
  readyC,          \* the channel of this incarnation, a number
  ready,           \* the channels that are closed
  initializer,     \* the sync.Once of this incarnation
  waiting,         \* the channel a caller of WhenReady waits for, 0 if none
  pc, notice, todo, target,    \* per goroutine
  calls,           \* history: how many so far
  owed,            \* history: streams entitled to the notice of a goroutine
  reached,         \* history: streams that have had it
  doubled,         \* history: streams that had a notice twice
  subscribed,      \* history: streams whose Subscribe has returned
  overlapped,      \* history: streams subscribed and unsubscribed at a time
  silent,          \* history: streams unsubscribed since before that notice
  view, synced,    \* what owners know; those that have read all items
  initialised,     \* history: Initialize or Populate has been called
  mixed            \* history: a Reset came while a change was being notified

dataVars == <<items, storeVersion>>
readyVars == <<readyC, ready, initializer, waiting, initialised>>
streamVars == <<registered, handler, subscribed, overlapped>>
callVars == <<pc, notice, todo, target, calls>>
history == <<owed, reached, silent, doubled>>
ownerVars == <<view, synced, mixed>>
vars == <<dataVars, readyVars, streamVars, callVars, history, ownerVars>>

VersionFromZero == 0
FirstVersion == 1
Empty == [i \in Ids |-> None]
Unseen == [i \in Ids |-> [version |-> 0, value |-> None]]

Init ==
  /\ items = Empty
  /\ storeVersion = 1
  /\ registered = [k \in {"change", "mutation"} |-> <<>>]
  /\ handler = [s \in Streams |-> "none"]
  /\ readyC = 1
  /\ ready = {}
  /\ initializer = "fresh"
  /\ waiting = [w \in Waiters |-> 0]
  /\ pc = [g \in Goroutines |-> "idle"]
  /\ notice = [g \in Goroutines |-> None]
  /\ todo = [g \in Goroutines |-> <<>>]
  /\ target = [g \in Goroutines |-> None]
  /\ calls = 0
  /\ owed = [g \in Goroutines |-> {}]
  /\ reached = [g \in Goroutines |-> {}]
  /\ doubled = {}
  /\ subscribed = {}
  /\ overlapped = {}
  /\ silent = [g \in Goroutines |-> {}]
  /\ view = [s \in Streams |-> Unseen]
  /\ synced = {}
  /\ initialised = FALSE
  /\ mixed = FALSE

Matches(s, n) == Kind[s] = n.kind /\ n.id \in Filter[s]
HasHandler(s) == handler[s] = "set"
Entitled(n) ==
  {s \in subscribed \ overlapped : Matches(s, n)}
Goes(g, from, to) == pc[g] = from /\ pc' = [pc EXCEPT ![g] = to]
Counts == calls < MaxCalls /\ calls' = calls + 1
Notifying(g) == pc[g] \in {"notify", "deliver", "call"}
-----------------------------------------------------------------------------
(***************************************************************************)
(* Changes and mutation requests.                                          *)
(***************************************************************************)
Notify(g, n) ==
  /\ Counts
  /\ Goes(g, "idle", "notify")
  /\ notice' = [notice EXCEPT ![g] = n]
  /\ owed' = [owed EXCEPT ![g] = Entitled(n)]
  /\ silent' = [silent EXCEPT ![g] = {s \in Streams : handler[s] = "none"}]
  /\ UNCHANGED <<todo, target, reached, doubled, readyVars, streamVars,
                 ownerVars>>

Notice(kind, i, v, version) ==
  [kind |-> kind, id |-> i, value |-> v, version |-> version]

PutsOnly(value) == IF value = None THEN storeVersion ELSE storeVersion + 1
NextVersion(value) == storeVersion + 1

\* putInternalContext, removeInternalContext: version and item under the lock.
Change(g, i, v) ==
  /\ storeVersion' = NextVersion(v)
  /\ items' = [items EXCEPT ![i] = v]
  /\ Notify(g, Notice("change", i, v, NextVersion(v)))

Put(g, i, v) == Change(g, i, v)
Remove(g, i) == items[i] # None /\ Change(g, i, None)

Mutate(g, i) ==
  /\ Notify(g, Notice("mutation", i, None, 0))
  /\ UNCHANGED dataVars

\* onStoreChange and MutateContext copy the list of streams ...
CopyStreams(g) ==
  /\ Goes(g, "notify", "deliver")
  /\ todo' = [todo EXCEPT ![g] = registered[notice[g].kind]]
  /\ UNCHANGED <<notice, target, calls, dataVars, readyVars, streamVars,
                 history, ownerVars>>

\* ... and take one after the other: its handler is read under its lock ...
ReadHandler(g) ==
  /\ pc[g] = "deliver" /\ todo[g] # <<>>
  /\ todo' = [todo EXCEPT ![g] = Tail(@)]
  /\ LET s == Head(todo[g])
     IN  IF Matches(s, notice[g]) /\ HasHandler(s)
         THEN /\ pc' = [pc EXCEPT ![g] = "call"]
              /\ target' = [target EXCEPT ![g] = s]
         ELSE UNCHANGED <<pc, target>>
  /\ UNCHANGED <<notice, calls, dataVars, readyVars, streamVars, history,
                 ownerVars>>

\* ... and called without it.
Call(g) ==
  LET s == target[g]
      n == notice[g]
  IN  /\ Goes(g, "call", "deliver")
      /\ target' = [target EXCEPT ![g] = None]
      /\ reached' = [reached EXCEPT ![g] = @ \cup {s}]
      /\ doubled' = doubled \cup ({s} \cap reached[g])
      /\ owed' = [owed EXCEPT ![g] = @ \ {s}]
      /\ view' = IF n.kind = "change" /\ n.version > view[s][n.id].version
                 THEN [view EXCEPT ![s][n.id] = [version |-> n.version,
                                                 value |-> n.value]]
                 ELSE view
      /\ UNCHANGED <<notice, todo, calls, dataVars, readyVars, streamVars,
                     silent, synced, mixed>>

Forget(g) ==
  /\ reached' = [reached EXCEPT ![g] = {}]
  /\ silent' = [silent EXCEPT ![g] = {}]

Finish(g) ==
  /\ todo[g] = <<>>
  /\ Goes(g, "deliver", "idle")
  /\ notice' = [notice EXCEPT ![g] = None]
  /\ Forget(g)
  /\ UNCHANGED <<todo, target, calls, dataVars, readyVars, streamVars, owed,
                 doubled, ownerVars>>

\* The context of a mutation request is looked at before every handler; a change
\* is notified without the cancellation of its context.
Cancellable(n) == n.kind = "mutation"

GiveUp(g) ==
  /\ Notifying(g)
  /\ Cancellable(notice[g])
  /\ pc' = [pc EXCEPT ![g] = "idle"]
  /\ notice' = [notice EXCEPT ![g] = None]
  /\ todo' = [todo EXCEPT ![g] = <<>>]
  /\ target' = [target EXCEPT ![g] = None]
  /\ owed' = [owed EXCEPT ![g] = IF notice[g].kind = "mutation" THEN {} ELSE @]
  /\ Forget(g)
  /\ UNCHANGED <<calls, dataVars, readyVars, streamVars, doubled, ownerVars>>
-----------------------------------------------------------------------------
(***************************************************************************)
(* Streams: the handler under the lock of the stream, the list under the   *)
(* lock of the store.                                                      *)
(***************************************************************************)
Busy(s) == \E g \in Goroutines : pc[g] \in {"add", "drop"} /\ target[g] = s
Overlap(s) == overlapped' = overlapped \cup (IF Busy(s) THEN {s} ELSE {})

SubscribesAgain(s) == TRUE
Unsubscribed(s) == handler[s] = "none"

Subscribe(g, s) ==
  /\ Unsubscribed(s)
  /\ Counts
  /\ Goes(g, "idle", "add")
  /\ handler' = [handler EXCEPT ![s] = "set"]
  /\ target' = [target EXCEPT ![g] = s]
  /\ silent' = [h \in Goroutines |-> silent[h] \ {s}]
  /\ Overlap(s)
  /\ UNCHANGED <<registered, subscribed, notice, todo, dataVars, readyVars,
                 owed, reached, doubled, ownerVars>>

Register(g) ==
  /\ Goes(g, "add", "idle")
  /\ registered' = [registered EXCEPT ![Kind[target[g]]] = Append(@, target[g])]
  /\ target' = [target EXCEPT ![g] = None]
  /\ subscribed' = subscribed \cup {s \in {target[g]} : handler[s] = "set"}
  /\ UNCHANGED <<handler, overlapped, notice, todo, calls, dataVars,
                 readyVars, history, ownerVars>>

Unsubscribe(g, s) ==
  /\ handler[s] = "set"
  /\ Counts
  /\ Goes(g, "idle", "drop")
  /\ handler' = [handler EXCEPT ![s] = "none"]
  /\ target' = [target EXCEPT ![g] = s]
  /\ owed' = [h \in Goroutines |-> owed[h] \ {s}]
  /\ view' = [view EXCEPT ![s] = Unseen]
  /\ synced' = synced \ {s}
  /\ subscribed' = subscribed \ {s}
  /\ Overlap(s)
  /\ UNCHANGED <<registered, notice, todo, dataVars, readyVars, reached,
                 silent, doubled, mixed>>

\* onStreamUnsubscribe: the last stream takes the place of the first that is s.
ShortenOnly(list, s) ==
  IF s \in Range(list) THEN SubSeq(list, 1, Len(list) - 1) ELSE list
Without(list, s) ==
  LET Place == {i \in DOMAIN list :
                  list[i] = s /\ \A j \in 1 .. i - 1 : list[j] # s}
  IN  IF Place = {} THEN list
      ELSE [i \in 1 .. Len(list) - 1 |-> IF i \in Place THEN list[Len(list)]
                                                        ELSE list[i]]

Deregister(g) ==
  /\ Goes(g, "drop", "idle")
  /\ registered' =
       [registered EXCEPT ![Kind[target[g]]] = Without(@, target[g])]
  /\ target' = [target EXCEPT ![g] = None]
  /\ UNCHANGED <<handler, subscribed, overlapped, notice, todo, calls, dataVars,
                 readyVars, history, ownerVars>>

\* The owner of a stream is told that the store is ready and reads all items
\* with the version (AllValuesAndVersion).
ReadAll(s) ==
  /\ Kind[s] = "change" /\ s \notin synced
  /\ readyC \in ready
  /\ s \in subscribed
  /\ synced' = synced \cup {s}
  /\ view' = [view EXCEPT ![s] =
       [i \in Ids |-> IF @[i].version > storeVersion THEN @[i]
                      ELSE [version |-> storeVersion, value |-> items[i]]]]
  /\ UNCHANGED <<dataVars, readyVars, streamVars, callVars, history, mixed>>
-----------------------------------------------------------------------------
(***************************************************************************)
(* The life of the store.                                                  *)
(***************************************************************************)
Initializes ==
  /\ initializer' = "done"
  /\ ready' = IF initializer = "fresh" THEN ready \cup {readyC} ELSE ready
  /\ initialised' = TRUE

Initialize ==
  /\ Initializes
  /\ UNCHANGED <<dataVars, readyC, waiting, streamVars, callVars, history,
                 ownerVars>>

\* Populate tells no stream: its owner has to read again.
Populate(m) ==
  /\ items = Empty
  /\ items' = m
  /\ Initializes
  /\ synced' = {}
  /\ UNCHANGED <<storeVersion, readyC, waiting, streamVars, callVars, history,
                 view, mixed>>

KeepsInitializer == initializer
NewInitializer == "fresh"

\* Streams stay subscribed but are no longer registered.
Reset ==
  /\ readyC <= MaxResets
  /\ items' = Empty
  /\ storeVersion' = FirstVersion
  /\ registered' = [k \in {"change", "mutation"} |-> <<>>]
  /\ subscribed' = {}
  /\ readyC' = readyC + 1
  /\ initializer' = NewInitializer
  /\ initialised' = FALSE
  /\ owed' = [g \in Goroutines |-> {}]
  /\ view' = [s \in Streams |-> Unseen]
  /\ synced' = {}
  /\ mixed' = (mixed \/ \E g \in Goroutines :
                          Notifying(g) /\ notice[g].kind = "change")
  /\ UNCHANGED <<ready, waiting, handler, overlapped, callVars, reached,
                 silent, doubled>>

WhenReady(w) ==
  /\ waiting[w] = 0
  /\ waiting' = [waiting EXCEPT ![w] = readyC]
  /\ UNCHANGED <<dataVars, readyC, ready, initializer, initialised, streamVars,
                 callVars, history, ownerVars>>

Told(w) ==
  /\ waiting[w] \in ready
  /\ waiting' = [waiting EXCEPT ![w] = 0]
  /\ UNCHANGED <<dataVars, readyC, ready, initializer, initialised, streamVars,
                 callVars, history, ownerVars>>
-----------------------------------------------------------------------------
Next ==
  \/ Initialize \/ Reset
  \/ \E m \in [Ids -> Values \cup {None}] : Populate(m)
  \/ \E w \in Waiters : WhenReady(w) \/ Told(w)
  \/ \E s \in Streams : ReadAll(s)
  \/ \E g \in Goroutines :
       \/ CopyStreams(g) \/ ReadHandler(g) \/ Call(g) \/ Finish(g) \/ GiveUp(g)
       \/ Register(g) \/ Deregister(g)
       \/ \E s \in Streams : Subscribe(g, s) \/ Unsubscribe(g, s)
       \/ \E i \in Ids :
            Remove(g, i) \/ Mutate(g, i) \/ \E v \in Values : Put(g, i, v)

Spec == Init /\ [][Next]_vars
-----------------------------------------------------------------------------
Notices == [kind : {"change", "mutation"}, id : Ids, value : Values \cup {None},
            version : 0 .. MaxCalls + 1]

TypeOK ==
  /\ items \in [Ids -> Values \cup {None}]
  /\ storeVersion \in 1 .. MaxCalls + 1
  /\ \A k \in DOMAIN registered : Range(registered[k]) \subseteq Streams
  /\ handler \in [Streams -> {"none", "set"}]
  /\ readyC \in 1 .. MaxResets + 1 /\ ready \subseteq 1 .. readyC
  /\ initializer \in {"fresh", "done"}
  /\ waiting \in [Waiters -> 0 .. readyC]
  /\ pc \in [Goroutines -> {"idle", "notify", "deliver", "call", "add", "drop"}]
  /\ notice \in [Goroutines -> Notices \cup {None}]
  /\ \A g \in Goroutines : Range(todo[g]) \subseteq Streams
  /\ target \in [Goroutines -> Streams \cup {None}]
  /\ calls \in 0 .. MaxCalls

\* A stream that is subscribed when a change is committed, and stays so, has had
\* it when Put or Remove returns, whoever else comes and goes meanwhile and
\* whatever becomes of the caller's context; no notice reaches it twice, as
\* long as its owner does not subscribe and unsubscribe it at the same time;
\* and what was committed after it was unsubscribed does not reach it, though
\* an earlier notice may be on its way.
NotifiedOnce ==
  /\ \A g \in Goroutines : pc[g] = "idle" => owed[g] = {}
  /\ doubled \subseteq overlapped
  /\ \A g \in Goroutines : pc[g] = "call" => target[g] \notin silent[g]

\* Notices may come in any order, but StoreVersion orders them: an owner who
\* keeps the newest has the content of the store whenever nobody notifies.  (Not
\* after a Reset that came while a change was being notified: versions start
\* again, and the old change may be taken for a new one.)
VersionsOrderChanges ==
  ~mixed /\ (\A g \in Goroutines : ~Notifying(g)) =>
    \A s \in synced \ overlapped : \A i \in Filter[s] :
      view[s][i].value = items[i]

\* Whoever has called WhenReady since the last Reset is told once the store is
\* initialised, also when it had been initialised before the Reset.
TellsWaiters ==
  initialised => \A w \in Waiters : waiting[w] = readyC => waiting[w] \in ready
=============================================================================
