---------------------------- MODULE StoreProofs -----------------------------
(***************************************************************************)
(* Proofs about Store, for all goroutines, items, streams and callers.     *)
(***************************************************************************)
EXTENDS Store, TLAPS

Kinds == {"change", "mutation"}
Seen == [version : Nat, value : Values \cup {None}]

Types ==
  /\ items \in [Ids -> Values \cup {None}]
  /\ calls \in 0 .. MaxCalls
  /\ storeVersion \in 1 .. calls + 1
  /\ registered \in [Kinds -> Seq(Streams)]
  /\ handler \in [Streams -> {"none", "set"}]
  /\ pc \in [Goroutines -> {"idle", "notify", "deliver", "call", "add", "drop"}]
  /\ notice \in [Goroutines -> Notices \cup {None}]
  /\ todo \in [Goroutines -> Seq(Streams)]
  /\ target \in [Goroutines -> Streams \cup {None}]
  /\ owed \in [Goroutines -> SUBSET Streams]
  /\ reached \in [Goroutines -> SUBSET Streams]
  /\ silent \in [Goroutines -> SUBSET Streams]
  /\ subscribed \subseteq Streams
  /\ overlapped \subseteq Streams
  /\ view \in [Streams -> [Ids -> Seen]]
  /\ mixed \in BOOLEAN

\* What a goroutine has in its hands at each point.
CallForm ==
  \A g \in Goroutines :
    /\ Notifying(g) => notice[g] \in Notices
    /\ pc[g] \in {"call", "add", "drop"} => target[g] \in Streams

\* A channel is closed once the sync.Once of its incarnation has run.
Readiness ==
  /\ readyC \in 1 .. MaxResets + 1 /\ ready \subseteq 1 .. readyC
  /\ initializer \in {"fresh", "done"} /\ initialised \in BOOLEAN
  /\ waiting \in [Waiters -> 0 .. readyC]
  /\ initialised => initializer = "done"
  /\ initializer = "done" => readyC \in ready

Once(list, s) == \A i, j \in DOMAIN list : list[i] = s /\ list[j] = s => i = j

\* A stream whose owner does one thing at a time: it is on its list once, and
\* who has put it there has the handler, unless it is being taken off.
Moves(g, s) == pc[g] \in {"add", "drop"} /\ target[g] = s
OwnerRule(s) ==
  /\ \A g, h \in Goroutines : Moves(g, s) /\ Moves(h, s) => g = h
  /\ \A g \in Goroutines : Moves(g, s) =>
       /\ pc[g] = "add" => handler[s] = "set" /\ s \notin subscribed
       /\ pc[g] = "drop" => handler[s] = "none"
  /\ Once(registered[Kind[s]], s)
  /\ s \in subscribed => s \in Range(registered[Kind[s]])
  /\ s \in Range(registered[Kind[s]]) =>
       \/ \E g \in Goroutines : Moves(g, s) /\ pc[g] = "drop"
       \/ handler[s] = "set" /\ \A g \in Goroutines : ~Moves(g, s)
OneOwner == \A s \in Streams \ overlapped : OwnerRule(s)

\* The lists apart, and who has subscribed.
ListsForm ==
  /\ \A k \in Kinds : \A s \in Range(registered[k]) : Kind[s] = k
  /\ \A s \in subscribed : handler[s] = "set"

\* Whoever is owed a notice is still to be called.
OwedAhead ==
  \A g \in Goroutines :
    /\ ~Notifying(g) => owed[g] = {}
    /\ \A s \in owed[g] :
         /\ handler[s] = "set" /\ Matches(s, notice[g])
         /\ \A h \in Goroutines : pc[h] = "drop" => target[h] # s
         /\ pc[g] = "notify" => s \in Range(registered[notice[g].kind])
         /\ pc[g] = "deliver" => s \in Range(todo[g])
         /\ pc[g] = "call" => s \in Range(todo[g]) \cup {target[g]}

\* Whoever had it is not called again.
ReachedBehind ==
  /\ doubled \subseteq overlapped
  /\ \A g \in Goroutines :
       /\ pc[g] \in {"idle", "notify", "add", "drop"} => reached[g] = {}
       /\ \A s \in Streams \ overlapped :
            /\ pc[g] \in {"deliver", "call"} => Once(todo[g], s)
            /\ pc[g] \in {"deliver", "call"} /\ s \in reached[g] => s \notin Range(todo[g])
            /\ pc[g] = "call" /\ target[g] = s =>
                 s \notin Range(todo[g]) /\ s \notin reached[g]

\* Silent streams have no handler, and none of them is called.
SilentOnes ==
  \A g \in Goroutines :
    /\ \A s \in silent[g] : handler[s] = "none"
    /\ pc[g] = "call" => target[g] \notin silent[g]

\* Changes under way have versions of their own, none above that of the store.
Changing(g) == Notifying(g) /\ notice[g].kind = "change"
Versions ==
  ~mixed =>
    /\ \A g \in Goroutines : Changing(g) => notice[g].version <= storeVersion
    /\ \A g, h \in Goroutines :
         Changing(g) /\ Changing(h) /\ notice[g].version = notice[h].version => g = h
    /\ \A s \in Streams, i \in Ids : view[s][i].version <= storeVersion

\* Notices of i under way that are newer than version v.
ChangesItem(g, i) == Changing(g) /\ notice[g].id = i
UpToDate(s, i) ==
  /\ view[s][i].value = items[i]
  /\ \A g \in Goroutines : ChangesItem(g, i) => notice[g].version <= view[s][i].version
Brings(g, s, i) ==
  /\ ChangesItem(g, i) /\ s \in owed[g]
  /\ notice[g].value = items[i]
  /\ notice[g].version > view[s][i].version
  /\ \A h \in Goroutines : ChangesItem(h, i) => notice[h].version <= notice[g].version

\* An owner has the newest value, or somebody has yet to bring it.
ViewsFollow ==
  /\ synced \subseteq subscribed
  /\ \A s \in synced : Kind[s] = "change"
  /\ ~mixed => \A s \in synced \ overlapped : \A i \in Filter[s] :
       UpToDate(s, i) \/ \E g \in Goroutines : Brings(g, s, i)

IInv == /\ Types /\ CallForm /\ Readiness /\ ListsForm /\ OneOwner /\ OwedAhead
        /\ ReachedBehind /\ SilentOnes /\ Versions /\ ViewsFollow

-----------------------------------------------------------------------------
(***************************************************************************)
(* The lists of streams.                                                   *)
(***************************************************************************)
LEMMA AppendList ==
  ASSUME NEW S, NEW list \in Seq(S), NEW s \in S
  PROVE  /\ Range(Append(list, s)) = Range(list) \cup {s}
         /\ \A t : t # s /\ Once(list, t) => Once(Append(list, s), t)
         /\ s \notin Range(list) => Once(Append(list, s), s)
<1>1. /\ DOMAIN list = 1 .. Len(list) /\ Len(list) \in Nat
      /\ DOMAIN Append(list, s) = 1 .. Len(list) + 1
      /\ Append(list, s)[Len(list) + 1] = s
      /\ \A i \in 1 .. Len(list) : Append(list, s)[i] = list[i]
  OBVIOUS
<1>2. \A i \in DOMAIN Append(list, s) : i \in DOMAIN list \/ i = Len(list) + 1
  BY <1>1
<1>3. Range(Append(list, s)) = Range(list) \cup {s}
  BY <1>1, <1>2 DEF Range
<1>4. ASSUME NEW t, t # s, Once(list, t) PROVE Once(Append(list, s), t)
  BY <1>1, <1>2, <1>4 DEF Once
<1>5. ASSUME s \notin Range(list) PROVE Once(Append(list, s), s)
  BY <1>1, <1>2, <1>5 DEF Once, Range
<1> QED
  BY <1>3, <1>4, <1>5

LEMMA TailList ==
  ASSUME NEW S, NEW list \in Seq(S), list # <<>>
  PROVE  /\ Head(list) \in S /\ Tail(list) \in Seq(S)
         /\ Range(list) = Range(Tail(list)) \cup {Head(list)}
         /\ \A t : Once(list, t) => Once(Tail(list), t)
         /\ Once(list, Head(list)) => Head(list) \notin Range(Tail(list))
<1>1. /\ DOMAIN list = 1 .. Len(list) /\ Len(list) \in Nat /\ Len(list) > 0
      /\ Head(list) = list[1] /\ Head(list) \in S /\ Tail(list) \in Seq(S)
      /\ DOMAIN Tail(list) = 1 .. Len(list) - 1
      /\ \A i \in 1 .. Len(list) - 1 : Tail(list)[i] = list[i + 1]
  OBVIOUS
<1>2. \A i \in DOMAIN list : i = 1 \/ (i - 1 \in DOMAIN Tail(list) /\ list[i] = Tail(list)[i - 1])
  BY <1>1
<1>3. \A i \in DOMAIN Tail(list) : i + 1 \in DOMAIN list /\ i + 1 # 1 /\ 1 \in DOMAIN list
  BY <1>1
<1>4. Range(list) = Range(Tail(list)) \cup {Head(list)}
  <2>1. 1 \in DOMAIN list
    BY <1>1
  <2>2. \A x \in Range(list) : x \in Range(Tail(list)) \cup {Head(list)}
    BY <1>1, <1>2 DEF Range
  <2>3. \A x \in Range(Tail(list)) : x \in Range(list)
    BY <1>1, <1>3 DEF Range
  <2>4. Head(list) \in Range(list)
    BY <1>1, <2>1 DEF Range
  <2> QED
    BY <2>2, <2>3, <2>4
<1>5. ASSUME NEW t, Once(list, t) PROVE Once(Tail(list), t)
  BY <1>1, <1>3, <1>5 DEF Once
<1>6. ASSUME Once(list, Head(list)) PROVE Head(list) \notin Range(Tail(list))
  BY <1>1, <1>3, <1>6 DEF Once, Range
<1> QED
  BY <1>1, <1>4, <1>5, <1>6

\* onStreamUnsubscribe takes one entry of s out and moves the last into its place.
LEMMA WithoutList ==
  ASSUME NEW S, NEW list \in Seq(S), NEW s \in S
  PROVE  /\ Without(list, s) \in Seq(S)
         /\ Range(Without(list, s)) \subseteq Range(list)
         /\ \A t : t # s /\ t \in Range(list) => t \in Range(Without(list, s))
         /\ \A t : Once(list, t) => Once(Without(list, s), t)
         /\ Once(list, s) => s \notin Range(Without(list, s))
<1> DEFINE Place == {i \in DOMAIN list :
                       list[i] = s /\ \A j \in 1 .. i - 1 : list[j] # s}
<1>1. DOMAIN list = 1 .. Len(list) /\ Len(list) \in Nat
  OBVIOUS
<1>2. CASE Place = {}
  <2>1. Without(list, s) = list
    BY <1>2 DEF Without
  <2>2. ASSUME Once(list, s), s \in Range(list) PROVE FALSE
    <3>1. PICK i \in DOMAIN list : list[i] = s
      BY <2>2 DEF Range
    <3>2. \A j \in 1 .. i - 1 : list[j] # s
      BY <1>1, <2>2, <3>1 DEF Once
    <3> QED
      BY <1>2, <3>1, <3>2
  <2> QED
    BY <2>1, <2>2
<1>3. CASE Place # {}
  <2>1. PICK p : p \in Place
    BY <1>3
  <2>2. p \in 1 .. Len(list) /\ list[p] = s
    BY <1>1, <2>1
  <2>3. \A q \in Place : q = p
    <3> SUFFICES ASSUME NEW q \in Place, q # p PROVE FALSE
      OBVIOUS
    <3>1. p \in 1 .. q - 1 \/ q \in 1 .. p - 1
      BY <1>1, <2>1
    <3> QED
      BY <2>1, <3>1
  <2> DEFINE new == [i \in 1 .. Len(list) - 1 |-> IF i = p THEN list[Len(list)] ELSE list[i]]
  <2>4. Without(list, s) = new
    BY <1>3, <2>1, <2>3 DEF Without
  <2>5. /\ DOMAIN new = 1 .. Len(list) - 1
        /\ \A i \in 1 .. Len(list) - 1 : new[i] = IF i = p THEN list[Len(list)] ELSE list[i]
    OBVIOUS
  <2>6. Len(list) \in DOMAIN list /\ Len(list) - 1 \in Nat /\ DOMAIN new \subseteq DOMAIN list
    BY <1>1, <2>2
  <2>7. new \in Seq(S)
    <3>1. \A i \in DOMAIN list : list[i] \in S
      OBVIOUS
    <3>2. new \in [1 .. Len(list) - 1 -> S]
      BY <2>6, <3>1
    <3> QED
      BY <2>6, <3>2
  <2> HIDE DEF new
  <2>8. Range(new) \subseteq Range(list)
    BY <1>1, <2>5, <2>6 DEF Range
  <2>9. \A q \in 1 .. Len(list) : q # Len(list) => q \in 1 .. Len(list) - 1
    BY <2>6
  <2>10. ASSUME NEW t, t # s, t \in Range(list) PROVE t \in Range(new)
    <3>1. PICK i \in DOMAIN list : list[i] = t
      BY <2>10 DEF Range
    <3>2. i # p
      BY <2>2, <2>10, <3>1
    <3>3. CASE i = Len(list)
      <4>1. p # Len(list)
        BY <3>2, <3>3
      <4>2. p \in 1 .. Len(list) - 1
        BY <2>2, <2>9, <4>1
      <4> QED
        BY <2>5, <3>1, <3>3, <4>2 DEF Range
    <3>4. CASE i # Len(list)
      <4>1. i \in DOMAIN new
        BY <1>1, <2>5, <3>4
      <4> QED
        BY <2>5, <3>1, <3>2, <4>1 DEF Range
    <3> QED
      BY <3>3, <3>4
  <2>11. ASSUME NEW t, Once(list, t) PROVE Once(new, t)
    <3> SUFFICES ASSUME NEW i \in DOMAIN new, NEW j \in DOMAIN new,
                        new[i] = t, new[j] = t
                 PROVE  i = j
      BY DEF Once
    <3>1. i # Len(list) /\ j # Len(list)
      BY <1>1, <2>5
    <3> QED
      BY <2>5, <2>6, <2>11, <3>1 DEF Once
  <2>12. ASSUME Once(list, s), s \in Range(new) PROVE FALSE
    <3>1. PICK i \in DOMAIN new : new[i] = s
      BY <2>12 DEF Range
    <3>2. i # Len(list) /\ p \in DOMAIN list
      BY <1>1, <2>2, <2>5
    <3> QED
      BY <2>2, <2>5, <2>6, <2>12, <3>1, <3>2 DEF Once
  <2> QED
    BY <2>4, <2>7, <2>8, <2>10, <2>11, <2>12
<1> QED
  BY <1>2, <1>3
-----------------------------------------------------------------------------
(***************************************************************************)
(* Types.                                                                  *)
(***************************************************************************)
\* What a goroutine does.
Act(g) ==
  \/ CopyStreams(g) \/ ReadHandler(g) \/ Call(g) \/ Finish(g) \/ GiveUp(g)
  \/ Register(g) \/ Deregister(g)
  \/ \E s \in Streams : Subscribe(g, s) \/ Unsubscribe(g, s)
  \/ \E i \in Ids, v \in Values \cup {None} : Change(g, i, v) \/ Mutate(g, i)

LEMMA Steps ==
  ASSUME [Next]_vars
  PROVE  \/ Initialize \/ Reset
         \/ \E m \in [Ids -> Values \cup {None}] : Populate(m)
         \/ \E w \in Waiters : WhenReady(w) \/ Told(w)
         \/ \E s \in Streams : ReadAll(s)
         \/ \E g \in Goroutines : Act(g)
         \/ UNCHANGED vars
<1>1. ASSUME NEW g \in Goroutines, NEW i \in Ids, Remove(g, i)
      PROVE  Act(g)
  <2>1. None \in Values \cup {None}
    OBVIOUS
  <2> QED
    BY <1>1, <2>1 DEF Remove, Act
<1>2. ASSUME NEW g \in Goroutines, NEW i \in Ids, Mutate(g, i)
      PROVE  Act(g)
  BY <1>2 DEF Act
<1>3. ASSUME NEW g \in Goroutines, NEW i \in Ids, NEW v \in Values, Put(g, i, v)
      PROVE  Act(g)
  BY <1>3 DEF Put, Act
<1>4. ASSUME NEW g \in Goroutines,
             \/ CopyStreams(g) \/ ReadHandler(g) \/ Call(g) \/ Finish(g) \/ GiveUp(g)
             \/ Register(g) \/ Deregister(g)
             \/ \E s \in Streams : Subscribe(g, s) \/ Unsubscribe(g, s)
      PROVE  Act(g)
  BY <1>4 DEF Act
<1>5. CASE Next
  BY <1>1, <1>2, <1>3, <1>4, <1>5, Zenon DEF Next
<1>6. CASE UNCHANGED vars
  BY <1>6
<1> QED
  BY <1>5, <1>6

LEMMA TypesInitially == Init => Types /\ CallForm
<1> SUFFICES ASSUME Init PROVE Types /\ CallForm
  OBVIOUS
<1>1. Unseen \in [Ids -> Seen]
  BY DEF Unseen, Seen
<1>2. view \in [Streams -> [Ids -> Seen]]
  BY <1>1 DEF Init
<1>3. /\ storeVersion \in 1 .. calls + 1 /\ calls \in 0 .. MaxCalls
      /\ registered \in [Kinds -> Seq(Streams)] /\ todo \in [Goroutines -> Seq(Streams)]
  BY BoundAssumption DEF Init, Kinds
<1>4. Types
  BY <1>2, <1>3 DEF Init, Types, Empty
<1> QED
  BY <1>4 DEF Init, CallForm, Notifying

LEMMA NoticesFormed ==
  ASSUME Types, NEW i \in Ids, calls < MaxCalls
  PROVE  /\ \A v \in Values \cup {None} :
              Notice("change", i, v, storeVersion + 1) \in Notices
         /\ Notice("mutation", i, None, 0) \in Notices
<1>1. storeVersion + 1 \in 0 .. MaxCalls + 1
  BY BoundAssumption DEF Types
<1>2. 0 \in 0 .. MaxCalls + 1
  BY BoundAssumption
<1> QED
  BY <1>1, <1>2 DEF Notice, Notices

LEMMA NotifyTyped ==
  ASSUME Types, CallForm, NEW g \in Goroutines, NEW n \in Notices, Notify(g, n)
  PROVE  /\ calls' \in 0 .. MaxCalls /\ calls' = calls + 1
         /\ pc' \in [Goroutines -> {"idle", "notify", "deliver", "call", "add", "drop"}]
         /\ notice' \in [Goroutines -> Notices \cup {None}]
         /\ owed' \in [Goroutines -> SUBSET Streams]
         /\ silent' \in [Goroutines -> SUBSET Streams]
         /\ CallForm'
<1> USE DEF Types
<1>1. calls' \in 0 .. MaxCalls /\ calls' = calls + 1
  BY BoundAssumption DEF Notify, Counts
<1>2. Entitled(n) \subseteq Streams
  BY DEF Entitled
<1>3. /\ pc' = [pc EXCEPT ![g] = "notify"] /\ notice' = [notice EXCEPT ![g] = n]
      /\ owed' = [owed EXCEPT ![g] = Entitled(n)]
      /\ silent' = [silent EXCEPT ![g] = {s \in Streams : handler[s] = "none"}]
      /\ target' = target
  BY DEF Notify, Goes
<1>4. CallForm'
  BY <1>3 DEF CallForm, Notifying
<1> QED
  BY <1>1, <1>2, <1>3, <1>4

LEMMA TypesKept ==
  ASSUME Types, CallForm, [Next]_vars
  PROVE  Types' /\ CallForm'
<1> USE DEF Types
<1>1. CASE Initialize
  BY <1>1 DEF Initialize, Initializes, CallForm, Notifying, dataVars, streamVars, callVars,
              history, ownerVars
<1>2. CASE Reset
  <2>1. Unseen \in [Ids -> Seen]
    BY DEF Unseen, Seen
  <2>2. view' \in [Streams -> [Ids -> Seen]]
    BY <1>2, <2>1 DEF Reset
  <2>3. mixed' \in BOOLEAN
    BY <1>2 DEF Reset
  <2> QED
    BY <1>2, <2>2, <2>3 DEF Reset, Empty, FirstVersion, Kinds, CallForm, Notifying, callVars
<1>3. ASSUME NEW m \in [Ids -> Values \cup {None}], Populate(m)
      PROVE  Types' /\ CallForm'
  BY <1>3 DEF Populate, Initializes, CallForm, Notifying, streamVars, callVars, history
<1>4. ASSUME NEW w \in Waiters, WhenReady(w) \/ Told(w)
      PROVE  Types' /\ CallForm'
  BY <1>4 DEF WhenReady, Told, CallForm, Notifying, dataVars, streamVars, callVars, history,
              ownerVars
<1>5. ASSUME NEW s \in Streams, ReadAll(s)
      PROVE  Types' /\ CallForm'
  <2> DEFINE new == [i \in Ids |-> IF view[s][i].version > storeVersion THEN view[s][i]
                                   ELSE [version |-> storeVersion, value |-> items[i]]]
  <2>1. view' = [view EXCEPT ![s] = new]
    BY <1>5 DEF ReadAll
  <2>2. \A i \in Ids : [version |-> storeVersion, value |-> items[i]] \in Seen
    BY DEF Seen
  <2>3. new \in [Ids -> Seen]
    BY <2>2
  <2> HIDE DEF new
  <2>4. view' \in [Streams -> [Ids -> Seen]]
    BY <2>1, <2>3
  <2> QED
    BY <1>5, <2>4 DEF ReadAll, CallForm, Notifying, dataVars, streamVars, callVars, history
<1>6. ASSUME NEW g \in Goroutines, CopyStreams(g)
      PROVE  Types' /\ CallForm'
  <2>1. notice[g].kind \in Kinds
    BY <1>6 DEF CopyStreams, Goes, CallForm, Notifying, Notices, Kinds
  <2>2. todo' \in [Goroutines -> Seq(Streams)]
    BY <1>6, <2>1 DEF CopyStreams
  <2> QED
    BY <1>6, <2>2 DEF CopyStreams, Goes, CallForm, Notifying, dataVars, streamVars, history,
                      ownerVars
<1>7. ASSUME NEW g \in Goroutines, ReadHandler(g)
      PROVE  Types' /\ CallForm'
  <2>1. Head(todo[g]) \in Streams /\ Tail(todo[g]) \in Seq(Streams)
    BY <1>7 DEF ReadHandler
  <2>2. /\ todo' = [todo EXCEPT ![g] = Tail(todo[g])] /\ notice' = notice
        /\ pc[g] = "deliver"
        /\ \/ pc' = [pc EXCEPT ![g] = "call"] /\ target' = [target EXCEPT ![g] = Head(todo[g])]
           \/ pc' = pc /\ target' = target
    BY <1>7 DEF ReadHandler
  <2>3. CallForm'
    BY <2>1, <2>2 DEF CallForm, Notifying
  <2>4. UNCHANGED <<dataVars, calls, streamVars, history, ownerVars>>
    BY <1>7 DEF ReadHandler
  <2> QED
    BY <2>1, <2>2, <2>3, <2>4 DEF dataVars, streamVars, history, ownerVars
<1>8. ASSUME NEW g \in Goroutines, Call(g)
      PROVE  Types' /\ CallForm'
  <2>1. target[g] \in Streams /\ notice[g] \in Notices
    BY <1>8 DEF Call, Goes, CallForm, Notifying
  <2>2. [version |-> notice[g].version, value |-> notice[g].value] \in Seen
    BY <2>1 DEF Notices, Seen
  <2>3. view' \in [Streams -> [Ids -> Seen]]
    BY <1>8, <2>1, <2>2 DEF Call
  <2>4. CallForm'
    BY <1>8 DEF Call, Goes, CallForm, Notifying
  <2> QED
    BY <1>8, <2>1, <2>3, <2>4 DEF Call, Goes, dataVars, streamVars
<1>9. ASSUME NEW g \in Goroutines, Finish(g) \/ GiveUp(g)
      PROVE  Types' /\ CallForm'
  <2>1. /\ pc' = [pc EXCEPT ![g] = "idle"] /\ notice' = [notice EXCEPT ![g] = None]
        /\ reached' = [reached EXCEPT ![g] = {}] /\ silent' = [silent EXCEPT ![g] = {}]
        /\ UNCHANGED <<calls, dataVars, streamVars, ownerVars>>
    BY <1>9 DEF Finish, GiveUp, Goes, Forget
  <2>2. todo' \in [Goroutines -> Seq(Streams)]
    <3>1. todo' = todo \/ todo' = [todo EXCEPT ![g] = <<>>]
      BY <1>9 DEF Finish, GiveUp
    <3>2. <<>> \in Seq(Streams)
      OBVIOUS
    <3> QED
      BY <3>1, <3>2
  <2>3. target' \in [Goroutines -> Streams \cup {None}]
    BY <1>9 DEF Finish, GiveUp
  <2>4. owed' \in [Goroutines -> SUBSET Streams]
    <3>1. owed' = owed \/ owed' = [owed EXCEPT ![g] = {}]
      BY <1>9 DEF Finish, GiveUp, Cancellable
    <3> QED
      BY <3>1
  <2>5. \A h \in Goroutines : h # g => target'[h] = target[h]
    BY <1>9 DEF Finish, GiveUp
  <2>6. CallForm'
    BY <2>1, <2>5 DEF CallForm, Notifying
  <2> QED
    BY <2>1, <2>2, <2>3, <2>4, <2>6 DEF dataVars, streamVars, ownerVars
<1>10. ASSUME NEW g \in Goroutines, Register(g)
       PROVE  Types' /\ CallForm'
  <2>1. target[g] \in Streams /\ Kind[target[g]] \in Kinds
    BY <1>10, KindAssumption DEF Register, Goes, CallForm, Kinds
  <2>2. registered' \in [Kinds -> Seq(Streams)]
    BY <1>10, <2>1 DEF Register
  <2>3. CallForm'
    BY <1>10 DEF Register, Goes, CallForm, Notifying
  <2> QED
    BY <1>10, <2>1, <2>2, <2>3 DEF Register, Goes, dataVars, history, ownerVars
<1>11. ASSUME NEW g \in Goroutines, Deregister(g)
       PROVE  Types' /\ CallForm'
  <2>1. target[g] \in Streams /\ Kind[target[g]] \in Kinds
    BY <1>11, KindAssumption DEF Deregister, Goes, CallForm, Kinds
  <2>2. registered' \in [Kinds -> Seq(Streams)]
    BY <1>11, <2>1, WithoutList DEF Deregister
  <2>3. CallForm'
    BY <1>11 DEF Deregister, Goes, CallForm, Notifying
  <2> QED
    BY <1>11, <2>1, <2>2, <2>3 DEF Deregister, Goes, dataVars, history, ownerVars
<1>12. ASSUME NEW g \in Goroutines, NEW s \in Streams, Subscribe(g, s)
       PROVE  Types' /\ CallForm'
  <2>1. CallForm'
    BY <1>12 DEF Subscribe, Goes, CallForm, Notifying
  <2>2. calls' \in 0 .. MaxCalls /\ storeVersion' \in 1 .. calls' + 1
    BY <1>12, BoundAssumption DEF Subscribe, Counts, dataVars
  <2> QED
    BY <1>12, <2>1, <2>2 DEF Subscribe, Overlap, Goes, dataVars, ownerVars
<1>13. ASSUME NEW g \in Goroutines, NEW s \in Streams, Unsubscribe(g, s)
       PROVE  Types' /\ CallForm'
  <2>1. CallForm'
    BY <1>13 DEF Unsubscribe, Goes, CallForm, Notifying
  <2>2. calls' \in 0 .. MaxCalls /\ storeVersion' \in 1 .. calls' + 1
    BY <1>13, BoundAssumption DEF Unsubscribe, Counts, dataVars
  <2>3. Unseen \in [Ids -> Seen]
    BY DEF Unseen, Seen
  <2>4. view' \in [Streams -> [Ids -> Seen]]
    BY <1>13, <2>3 DEF Unsubscribe
  <2> QED
    BY <1>13, <2>1, <2>2, <2>4 DEF Unsubscribe, Overlap, Goes, dataVars
<1>14. ASSUME NEW g \in Goroutines, NEW i \in Ids, NEW v \in Values \cup {None},
              Change(g, i, v)
       PROVE  Types' /\ CallForm'
  <2> DEFINE n == Notice("change", i, v, storeVersion + 1)
  <2>1. n \in Notices /\ Notify(g, n)
    BY <1>14, NoticesFormed DEF Change, NextVersion, Notify, Counts
  <2> HIDE DEF n
  <2>2. storeVersion' \in 1 .. calls + 2 /\ items' \in [Ids -> Values \cup {None}]
    BY <1>14 DEF Change, NextVersion
  <2>3. /\ calls' \in 0 .. MaxCalls /\ calls' = calls + 1
        /\ pc' \in [Goroutines -> {"idle", "notify", "deliver", "call", "add", "drop"}]
        /\ notice' \in [Goroutines -> Notices \cup {None}]
        /\ owed' \in [Goroutines -> SUBSET Streams]
        /\ silent' \in [Goroutines -> SUBSET Streams]
        /\ CallForm'
    BY <2>1, NotifyTyped
  <2>4. storeVersion' \in 1 .. calls' + 1
    BY <2>2, <2>3
  <2> QED
    BY <2>1, <2>2, <2>3, <2>4 DEF Notify, streamVars, ownerVars
<1>15. ASSUME NEW g \in Goroutines, NEW i \in Ids, Mutate(g, i)
       PROVE  Types' /\ CallForm'
  <2> DEFINE n == Notice("mutation", i, None, 0)
  <2>1. n \in Notices /\ Notify(g, n)
    BY <1>15, NoticesFormed DEF Mutate, Notify, Counts
  <2> HIDE DEF n
  <2>2. UNCHANGED dataVars
    BY <1>15 DEF Mutate
  <2>3. /\ calls' \in 0 .. MaxCalls /\ calls' = calls + 1
        /\ pc' \in [Goroutines -> {"idle", "notify", "deliver", "call", "add", "drop"}]
        /\ notice' \in [Goroutines -> Notices \cup {None}]
        /\ owed' \in [Goroutines -> SUBSET Streams]
        /\ silent' \in [Goroutines -> SUBSET Streams]
        /\ CallForm'
    BY <2>1, NotifyTyped
  <2>4. storeVersion' \in 1 .. calls' + 1
    BY <2>2, <2>3 DEF dataVars
  <2> QED
    BY <2>1, <2>2, <2>3, <2>4 DEF Notify, dataVars, streamVars, ownerVars
<1>16. CASE UNCHANGED vars
  BY <1>16 DEF vars, CallForm, Notifying, dataVars, streamVars, callVars, history, ownerVars
<1> QED
  BY Steps, <1>1, <1>2, <1>3, <1>4, <1>5, <1>6, <1>7, <1>8, <1>9, <1>10, <1>11, <1>12, <1>13,
     <1>14, <1>15, <1>16 DEF Act
-----------------------------------------------------------------------------
(***************************************************************************)
(* Readiness, and the owners of streams.                                   *)
(***************************************************************************)
LEMMA ReadinessKept ==
  ASSUME Readiness, [Next]_vars
  PROVE  Readiness'
<1> USE BoundAssumption DEF Readiness
<1>1. CASE Initialize
  BY <1>1 DEF Initialize, Initializes
<1>2. CASE Reset
  <2>1. readyC' = readyC + 1 /\ readyC' \in 1 .. MaxResets + 1
    BY <1>2 DEF Reset
  <2>2. 1 .. readyC \subseteq 1 .. readyC' /\ 0 .. readyC \subseteq 0 .. readyC'
    BY <2>1
  <2>3. waiting' \in [Waiters -> 0 .. readyC'] /\ ready' \subseteq 1 .. readyC'
    BY <1>2, <2>2 DEF Reset
  <2> QED
    BY <1>2, <2>1, <2>3 DEF Reset, NewInitializer
<1>3. ASSUME NEW m \in [Ids -> Values \cup {None}], Populate(m)
      PROVE  Readiness'
  BY <1>3 DEF Populate, Initializes
<1>4. ASSUME NEW w \in Waiters, WhenReady(w) \/ Told(w)
      PROVE  Readiness'
  <2>1. readyC \in 0 .. readyC /\ 0 \in 0 .. readyC
    OBVIOUS
  <2>2. waiting' \in [Waiters -> 0 .. readyC']
    BY <1>4, <2>1 DEF WhenReady, Told
  <2>3. UNCHANGED <<readyC, ready, initializer, initialised>>
    BY <1>4 DEF WhenReady, Told
  <2> QED
    BY <2>2, <2>3
<1>5. ASSUME UNCHANGED readyVars PROVE Readiness'
  BY <1>5 DEF readyVars
<1>6. ASSUME NEW s \in Streams, ReadAll(s)
      PROVE  Readiness'
  BY <1>5, <1>6 DEF ReadAll
<1>7. ASSUME NEW g \in Goroutines, Act(g)
      PROVE  UNCHANGED readyVars
  BY <1>7 DEF Act, CopyStreams, ReadHandler, Call, Finish, GiveUp, Register, Deregister,
              Subscribe, Unsubscribe, Change, Mutate, Notify
<1> QED
  BY Steps, <1>1, <1>2, <1>3, <1>4, <1>5, <1>6, <1>7 DEF vars

\* Whatever moves no stream leaves them to their owners.
LEMMA OwnersStay ==
  ASSUME ListsForm, OneOwner, UNCHANGED streamVars,
         \A g \in Goroutines :
           pc[g] \in {"add", "drop"} \/ pc'[g] \in {"add", "drop"} =>
             pc'[g] = pc[g] /\ target'[g] = target[g]
  PROVE  ListsForm' /\ OneOwner'
<1>1. \A g \in Goroutines, s \in Streams : Moves(g, s)' <=> Moves(g, s)
  BY DEF Moves
<1>2. \A g \in Goroutines, s \in Streams : Moves(g, s) => pc'[g] = pc[g]
  BY DEF Moves
<1>3. ASSUME NEW s \in Streams, OwnerRule(s) PROVE OwnerRule(s)'
  BY <1>1, <1>2, <1>3 DEF OwnerRule, streamVars
<1> QED
  BY <1>3 DEF ListsForm, OneOwner, streamVars

LEMMA OwnersRegister ==
  ASSUME Types, CallForm, ListsForm, OneOwner, NEW g \in Goroutines, Register(g)
  PROVE  ListsForm' /\ OneOwner'
<1>1. PICK t \in Streams : t = target[g]
  BY DEF Register, Goes, CallForm
<1>2. Kind[t] \in Kinds
  BY KindAssumption DEF Kinds
<1> DEFINE list == registered[Kind[t]]
<1>3. list \in Seq(Streams) /\ registered \in [Kinds -> Seq(Streams)]
  BY <1>2 DEF Types
<1>4. /\ pc[g] = "add" /\ pc' = [pc EXCEPT ![g] = "idle"]
      /\ registered' = [registered EXCEPT ![Kind[t]] = Append(list, t)]
      /\ subscribed' = subscribed \cup {s \in {t} : handler[s] = "set"}
      /\ target' = [target EXCEPT ![g] = None]
      /\ UNCHANGED <<handler, overlapped>>
  BY <1>1 DEF Register, Goes
<1>5. /\ registered'[Kind[t]] = Append(list, t)
      /\ \A k \in Kinds : k # Kind[t] => registered'[k] = registered[k]
  BY <1>2, <1>3, <1>4
<1> HIDE DEF list
<1>6. /\ Range(Append(list, t)) = Range(list) \cup {t}
      /\ \A s : s # t /\ Once(list, s) => Once(Append(list, t), s)
      /\ t \notin Range(list) => Once(Append(list, t), t)
  BY <1>3, AppendList
<1>7. ListsForm'
  BY <1>1, <1>4, <1>5, <1>6 DEF ListsForm, list
<1>8. /\ \A s \in Streams, h \in Goroutines : Moves(h, s)' <=> Moves(h, s) /\ h # g
      /\ Moves(g, t) /\ \A s \in Streams : Moves(g, s) => s = t
      /\ \A h \in Goroutines : h # g => pc'[h] = pc[h]
  BY <1>1, <1>4 DEF Types, Moves
<1>9. ASSUME NEW s \in Streams, s # t, OwnerRule(s) PROVE OwnerRule(s)'
  <2>1. /\ Once(registered'[Kind[s]], s)
        /\ s \in Range(registered'[Kind[s]]) <=> s \in Range(registered[Kind[s]])
    <3>1. CASE Kind[s] = Kind[t]
      BY <1>5, <1>6, <1>9, <3>1 DEF list, OwnerRule
    <3>2. CASE Kind[s] # Kind[t]
      BY <1>5, <1>9, <3>2, KindAssumption DEF Kinds, OwnerRule
    <3> QED
      BY <3>1, <3>2
  <2> QED
    BY <1>4, <1>8, <1>9, <2>1 DEF OwnerRule
<1>10. ASSUME OwnerRule(t) PROVE OwnerRule(t)'
  <2>1. handler[t] = "set" /\ t \notin subscribed
    BY <1>4, <1>8, <1>10 DEF OwnerRule
  <2>2. t \notin Range(list)
    BY <1>4, <1>8, <1>10 DEF OwnerRule, list
  <2>3. Once(registered'[Kind[t]], t) /\ t \in Range(registered'[Kind[t]])
    BY <1>5, <1>6, <2>2
  <2>4. \A h \in Goroutines : ~Moves(h, t)'
    BY <1>8, <1>10 DEF OwnerRule
  <2> QED
    BY <1>4, <2>1, <2>3, <2>4 DEF OwnerRule
<1> QED
  BY <1>4, <1>7, <1>9, <1>10 DEF OneOwner

LEMMA OwnersDeregister ==
  ASSUME Types, CallForm, ListsForm, OneOwner, NEW g \in Goroutines, Deregister(g)
  PROVE  ListsForm' /\ OneOwner'
<1>1. PICK t \in Streams : t = target[g]
  BY DEF Deregister, Goes, CallForm
<1>2. Kind[t] \in Kinds
  BY KindAssumption DEF Kinds
<1> DEFINE list == registered[Kind[t]]
<1>3. list \in Seq(Streams) /\ registered \in [Kinds -> Seq(Streams)]
  BY <1>2 DEF Types
<1>4. /\ pc[g] = "drop" /\ pc' = [pc EXCEPT ![g] = "idle"]
      /\ registered' = [registered EXCEPT ![Kind[t]] = Without(list, t)]
      /\ target' = [target EXCEPT ![g] = None]
      /\ UNCHANGED <<handler, subscribed, overlapped>>
  BY <1>1 DEF Deregister, Goes
<1>5. /\ registered'[Kind[t]] = Without(list, t)
      /\ \A k \in Kinds : k # Kind[t] => registered'[k] = registered[k]
  BY <1>2, <1>3, <1>4
<1> HIDE DEF list
<1>6. /\ Range(Without(list, t)) \subseteq Range(list)
      /\ \A s : s # t /\ s \in Range(list) => s \in Range(Without(list, t))
      /\ \A s : Once(list, s) => Once(Without(list, t), s)
      /\ Once(list, t) => t \notin Range(Without(list, t))
  BY <1>3, WithoutList
<1>7. ListsForm'
  BY <1>4, <1>5, <1>6 DEF ListsForm, list
<1>8. /\ \A s \in Streams, h \in Goroutines : Moves(h, s)' <=> Moves(h, s) /\ h # g
      /\ Moves(g, t) /\ \A s \in Streams : Moves(g, s) => s = t
      /\ \A h \in Goroutines : h # g => pc'[h] = pc[h]
  BY <1>1, <1>4 DEF Types, Moves
<1>9. ASSUME NEW s \in Streams, s # t, OwnerRule(s) PROVE OwnerRule(s)'
  <2>1. /\ Once(registered'[Kind[s]], s)
        /\ s \in Range(registered'[Kind[s]]) <=> s \in Range(registered[Kind[s]])
    <3>1. CASE Kind[s] = Kind[t]
      BY <1>5, <1>6, <1>9, <3>1 DEF list, OwnerRule
    <3>2. CASE Kind[s] # Kind[t]
      BY <1>5, <1>9, <3>2, KindAssumption DEF Kinds, OwnerRule
    <3> QED
      BY <3>1, <3>2
  <2> QED
    BY <1>4, <1>8, <1>9, <2>1 DEF OwnerRule
<1>10. ASSUME OwnerRule(t) PROVE OwnerRule(t)'
  <2>1. handler[t] = "none" /\ t \notin subscribed
    BY <1>4, <1>8, <1>10 DEF OwnerRule, ListsForm
  <2>2. Once(registered'[Kind[t]], t) /\ t \notin Range(registered'[Kind[t]])
    BY <1>5, <1>6, <1>10 DEF OwnerRule, list
  <2>3. \A h \in Goroutines : ~Moves(h, t)'
    BY <1>8, <1>10 DEF OwnerRule
  <2> QED
    BY <1>4, <2>1, <2>2, <2>3 DEF OwnerRule
<1> QED
  BY <1>4, <1>7, <1>9, <1>10 DEF OneOwner

LEMMA OwnersSubscribe ==
  ASSUME Types, CallForm, ListsForm, OneOwner, NEW g \in Goroutines, NEW t \in Streams,
         Subscribe(g, t) \/ Unsubscribe(g, t)
  PROVE  ListsForm' /\ OneOwner'
<1>1. /\ pc[g] = "idle" /\ target' = [target EXCEPT ![g] = t]
      /\ registered' = registered
      /\ overlapped' = overlapped \cup (IF Busy(t) THEN {t} ELSE {})
      /\ \/ /\ handler[t] = "none" /\ handler' = [handler EXCEPT ![t] = "set"]
            /\ pc' = [pc EXCEPT ![g] = "add"] /\ subscribed' = subscribed
         \/ /\ handler[t] = "set" /\ handler' = [handler EXCEPT ![t] = "none"]
            /\ pc' = [pc EXCEPT ![g] = "drop"] /\ subscribed' = subscribed \ {t}
  BY DEF Subscribe, Unsubscribe, Unsubscribed, Overlap, Goes
<1>2. /\ \A s \in Streams, h \in Goroutines : Moves(h, s)' <=> Moves(h, s) \/ (h = g /\ s = t)
      /\ \A s \in Streams : ~Moves(g, s)
      /\ \A h \in Goroutines : h # g => pc'[h] = pc[h]
      /\ \A s \in Streams : s # t => handler'[s] = handler[s]
      /\ pc'[g] = "add" => handler'[t] = "set" /\ handler[t] = "none" /\ t \notin subscribed
      /\ pc'[g] = "drop" => handler'[t] = "none" /\ handler[t] = "set" /\ t \notin subscribed'
  BY <1>1 DEF Types, ListsForm, Moves
<1>3. ListsForm'
  BY <1>1, <1>2 DEF ListsForm, Types
<1>4. ASSUME NEW s \in Streams, s # t, OwnerRule(s) PROVE OwnerRule(s)'
  BY <1>1, <1>2, <1>4 DEF OwnerRule
<1>5. ASSUME OwnerRule(t), ~Busy(t) PROVE OwnerRule(t)'
  <2>1. \A h \in Goroutines : ~Moves(h, t)
    BY <1>5 DEF Busy, Moves
  <2>2. \A h \in Goroutines : Moves(h, t)' <=> h = g
    BY <1>2, <2>1
  <2>3. CASE pc'[g] = "add"
    <3>1. t \notin Range(registered[Kind[t]])
      BY <1>2, <1>5, <2>1, <2>3 DEF OwnerRule
    <3> QED
      BY <1>1, <1>2, <1>5, <2>2, <2>3, <3>1 DEF OwnerRule
  <2>4. CASE pc'[g] = "drop"
    BY <1>1, <1>2, <1>5, <2>2, <2>4 DEF OwnerRule
  <2>5. pc'[g] = "add" \/ pc'[g] = "drop"
    BY <1>1 DEF Types
  <2> QED
    BY <2>3, <2>4, <2>5
<1> QED
  BY <1>1, <1>3, <1>4, <1>5 DEF OneOwner

LEMMA OwnersKept ==
  ASSUME Types, CallForm, ListsForm, OneOwner, [Next]_vars
  PROVE  ListsForm' /\ OneOwner'
<1>1. CASE Reset
  <2>1. \A s \in Streams : registered'[Kind[s]] = <<>>
    BY <1>1, KindAssumption DEF Reset
  <2>2. ASSUME NEW s \in Streams, OwnerRule(s) PROVE OwnerRule(s)'
    <3>1. \A g \in Goroutines : (Moves(g, s)' <=> Moves(g, s)) /\ pc'[g] = pc[g]
      BY <1>1 DEF Reset, callVars, Moves
    <3>2. Once(<<>>, s) /\ Range(<<>>) = {}
      BY DEF Once, Range
    <3> QED
      BY <1>1, <2>1, <2>2, <3>1, <3>2 DEF OwnerRule, Reset
  <2>3. ListsForm'
    BY <1>1 DEF Reset, ListsForm, Range, Kinds
  <2> QED
    BY <1>1, <2>2, <2>3 DEF OneOwner, Reset
<1>2. ASSUME UNCHANGED <<streamVars, pc, target>> PROVE ListsForm' /\ OneOwner'
  BY <1>2, OwnersStay
<1>3. ASSUME \/ Initialize \/ UNCHANGED vars
             \/ \E m \in [Ids -> Values \cup {None}] : Populate(m)
             \/ \E w \in Waiters : WhenReady(w) \/ Told(w)
             \/ \E s \in Streams : ReadAll(s)
      PROVE  UNCHANGED <<streamVars, pc, target>>
  BY <1>3 DEF Initialize, Populate, WhenReady, Told, ReadAll, callVars, vars
<1>4. ASSUME NEW g \in Goroutines,
             \/ CopyStreams(g) \/ ReadHandler(g) \/ Call(g) \/ Finish(g) \/ GiveUp(g)
             \/ \E i \in Ids, v \in Values \cup {None} : Change(g, i, v) \/ Mutate(g, i)
      PROVE  ListsForm' /\ OneOwner'
  <2>1. /\ UNCHANGED streamVars
        /\ pc[g] \in {"idle", "notify", "deliver", "call"}
        /\ \E to \in {"idle", "notify", "deliver", "call"} : pc' = [pc EXCEPT ![g] = to]
        /\ target' = target \/ \E s : target' = [target EXCEPT ![g] = s]
    <3>1. CASE CopyStreams(g)
      BY <3>1 DEF CopyStreams, Goes
    <3>2. CASE ReadHandler(g)
      BY <3>2 DEF ReadHandler, Types
    <3>3. CASE Call(g)
      BY <3>3 DEF Call, Goes
    <3>4. CASE Finish(g)
      BY <3>4 DEF Finish, Goes
    <3>5. CASE GiveUp(g)
      BY <3>5 DEF GiveUp, Notifying
    <3>6. CASE \E i \in Ids, v \in Values \cup {None} : Change(g, i, v) \/ Mutate(g, i)
      BY <3>6 DEF Change, Mutate, Notify, Goes
    <3> QED
      BY <1>4, <3>1, <3>2, <3>3, <3>4, <3>5, <3>6
  <2>2. \A h \in Goroutines :
           pc[h] \in {"add", "drop"} \/ pc'[h] \in {"add", "drop"} =>
             pc'[h] = pc[h] /\ target'[h] = target[h]
    BY <2>1 DEF Types
  <2> QED
    BY <2>1, <2>2, OwnersStay
<1> QED
  BY Steps, <1>1, <1>2, <1>3, <1>4, OwnersRegister, OwnersDeregister, OwnersSubscribe DEF Act
-----------------------------------------------------------------------------
(***************************************************************************)
(* Notices: who is still to be called, and who has been.                   *)
(***************************************************************************)
\* The part of the state that notices are about.
noticeVars == <<registered, handler, overlapped, pc, notice, todo, target, history>>

LEMMA LifeLeavesNotices ==
  ASSUME \/ Initialize \/ UNCHANGED vars
         \/ \E m \in [Ids -> Values \cup {None}] : Populate(m)
         \/ \E w \in Waiters : WhenReady(w) \/ Told(w)
         \/ \E s \in Streams : ReadAll(s)
  PROVE  UNCHANGED noticeVars
BY DEF Initialize, Populate, WhenReady, Told, ReadAll, callVars, streamVars, vars, noticeVars

\* The notice of a change is formed; both kinds of notices start alike.
LEMMA ChangesNotify ==
  ASSUME Types, NEW g \in Goroutines, NEW i \in Ids, NEW v \in Values \cup {None},
         Change(g, i, v) \/ Mutate(g, i)
  PROVE  \E n \in Notices : Notify(g, n)
<1>1. calls < MaxCalls
  BY DEF Change, Mutate, Notify, Counts
<1>2. CASE Change(g, i, v)
  BY <1>1, <1>2, NoticesFormed DEF Change, NextVersion
<1>3. CASE Mutate(g, i)
  BY <1>1, <1>3, NoticesFormed DEF Mutate
<1> QED
  BY <1>2, <1>3

LEMMA OwedKept ==
  ASSUME Types, CallForm, ListsForm, OneOwner, OwedAhead, [Next]_vars
  PROVE  OwedAhead'
<1> USE DEF Types
<1>1. ASSUME UNCHANGED noticeVars PROVE OwedAhead'
  BY <1>1 DEF OwedAhead, Notifying, noticeVars, history
<1>2. CASE Reset
  BY <1>2 DEF Reset, OwedAhead
<1>3. ASSUME NEW g \in Goroutines, CopyStreams(g) PROVE OwedAhead'
  <2>1. /\ pc[g] = "notify" /\ pc' = [pc EXCEPT ![g] = "deliver"]
        /\ todo' = [todo EXCEPT ![g] = registered[notice[g].kind]]
        /\ UNCHANGED <<notice, target, owed, handler, registered>>
    BY <1>3 DEF CopyStreams, Goes, history, streamVars
  <2> QED
    BY <2>1 DEF OwedAhead, Notifying
<1>4. ASSUME NEW g \in Goroutines, ReadHandler(g) PROVE OwedAhead'
  <2> DEFINE t == Head(todo[g])
  <2>1. /\ pc[g] = "deliver" /\ todo' = [todo EXCEPT ![g] = Tail(todo[g])]
        /\ todo[g] # <<>> /\ todo[g] \in Seq(Streams)
        /\ UNCHANGED <<notice, owed, handler, registered>>
    BY <1>4 DEF ReadHandler, history, streamVars
  <2>2. Range(todo[g]) = Range(Tail(todo[g])) \cup {t}
    BY <2>1, TailList
  <2>3. \/ /\ pc' = [pc EXCEPT ![g] = "call"] /\ target' = [target EXCEPT ![g] = t]
        \/ /\ UNCHANGED <<pc, target>>
           /\ ~(Matches(t, notice[g]) /\ handler[t] = "set")
    BY <1>4 DEF ReadHandler, HasHandler
  <2> HIDE DEF t
  <2>4. /\ \A h \in Goroutines : h # g => pc'[h] = pc[h] /\ target'[h] = target[h] /\ todo'[h] = todo[h]
        /\ todo'[g] = Tail(todo[g])
        /\ \A h \in Goroutines : Notifying(h)' <=> Notifying(h)
        /\ pc'[g] \in {"call", "deliver"}
        /\ pc'[g] = "call" => target'[g] = t
        /\ pc'[g] = "deliver" => ~(Matches(t, notice[g]) /\ handler[t] = "set")
    BY <2>1, <2>3 DEF Notifying
  <2>5. ASSUME NEW s \in owed[g]
        PROVE  /\ pc'[g] = "deliver" => s \in Range(todo'[g])
               /\ pc'[g] = "call" => s \in Range(todo'[g]) \cup {target'[g]}
    BY <2>1, <2>2, <2>4, <2>5 DEF OwedAhead
  <2>6. \A h \in Goroutines : pc'[h] = "drop" => pc[h] = "drop" /\ target'[h] = target[h]
    BY <2>4
  <2> QED
    BY <2>1, <2>4, <2>5, <2>6 DEF OwedAhead
<1>5. ASSUME NEW g \in Goroutines, Call(g) PROVE OwedAhead'
  <2>1. /\ pc[g] = "call" /\ pc' = [pc EXCEPT ![g] = "deliver"]
        /\ target' = [target EXCEPT ![g] = None]
        /\ owed' = [owed EXCEPT ![g] = @ \ {target[g]}]
        /\ UNCHANGED <<notice, todo, handler, registered>>
    BY <1>5 DEF Call, Goes, streamVars
  <2> QED
    BY <2>1 DEF OwedAhead, Notifying
<1>6. ASSUME NEW g \in Goroutines, Finish(g) PROVE OwedAhead'
  <2>1. /\ pc[g] = "deliver" /\ pc' = [pc EXCEPT ![g] = "idle"] /\ todo[g] = <<>>
        /\ notice' = [notice EXCEPT ![g] = None]
        /\ UNCHANGED <<target, todo, owed, handler, registered>>
    BY <1>6 DEF Finish, Goes, streamVars
  <2>2. Range(<<>>) = {}
    BY DEF Range
  <2>3. owed[g] = {}
    BY <2>1, <2>2 DEF OwedAhead
  <2> QED
    BY <2>1, <2>3 DEF OwedAhead, Notifying
<1>7. ASSUME NEW g \in Goroutines, GiveUp(g) PROVE OwedAhead'
  <2>1. /\ Notifying(g) /\ pc' = [pc EXCEPT ![g] = "idle"]
        /\ notice' = [notice EXCEPT ![g] = None]
        /\ todo' = [todo EXCEPT ![g] = <<>>] /\ target' = [target EXCEPT ![g] = None]
        /\ owed' = [owed EXCEPT ![g] = {}]
        /\ UNCHANGED <<handler, registered>>
    BY <1>7 DEF GiveUp, Cancellable, streamVars
  <2> QED
    BY <2>1 DEF OwedAhead, Notifying
<1>8. ASSUME NEW g \in Goroutines, Register(g) PROVE OwedAhead'
  <2>1. PICK t \in Streams : t = target[g]
    BY <1>8 DEF Register, Goes, CallForm
  <2>2. /\ pc[g] = "add" /\ pc' = [pc EXCEPT ![g] = "idle"]
        /\ registered' = [registered EXCEPT ![Kind[t]] = Append(registered[Kind[t]], t)]
        /\ target' = [target EXCEPT ![g] = None]
        /\ UNCHANGED <<notice, todo, owed, handler>>
    BY <1>8, <2>1 DEF Register, Goes, history
  <2>3. Kind[t] \in Kinds /\ registered[Kind[t]] \in Seq(Streams)
    BY KindAssumption DEF Kinds
  <2>4. \A k \in Kinds : Range(registered[k]) \subseteq Range(registered'[k])
    BY <2>2, <2>3, AppendList
  <2>5. \A h \in Goroutines : Notifying(h) => notice[h].kind \in Kinds
    BY DEF CallForm, Notices, Kinds
  <2> QED
    BY <2>2, <2>4, <2>5 DEF OwedAhead, Notifying
<1>9. ASSUME NEW g \in Goroutines, Deregister(g) PROVE OwedAhead'
  <2>1. PICK t \in Streams : t = target[g]
    BY <1>9 DEF Deregister, Goes, CallForm
  <2>2. /\ pc[g] = "drop" /\ pc' = [pc EXCEPT ![g] = "idle"]
        /\ registered' = [registered EXCEPT ![Kind[t]] = Without(registered[Kind[t]], t)]
        /\ target' = [target EXCEPT ![g] = None]
        /\ UNCHANGED <<notice, todo, owed, handler>>
    BY <1>9, <2>1 DEF Deregister, Goes, history
  <2>3. Kind[t] \in Kinds /\ registered[Kind[t]] \in Seq(Streams)
    BY KindAssumption DEF Kinds
  <2>4. \A k \in Kinds : \A s : s # t /\ s \in Range(registered[k]) => s \in Range(registered'[k])
    BY <2>2, <2>3, WithoutList
  <2>5. \A h \in Goroutines : Notifying(h) => notice[h].kind \in Kinds
    BY DEF CallForm, Notices, Kinds
  <2>6. \A h \in Goroutines : t \notin owed[h]
    BY <2>1, <2>2 DEF OwedAhead
  <2>7. /\ \A h \in Goroutines : Notifying(h)' <=> Notifying(h)
        /\ \A h \in Goroutines : Notifying(h) => pc'[h] = pc[h] /\ target'[h] = target[h]
        /\ \A h \in Goroutines : pc'[h] = "drop" => pc[h] = "drop" /\ target'[h] = target[h]
    BY <2>2 DEF Notifying
  <2>8. ASSUME NEW h \in Goroutines, NEW s \in owed[h], pc[h] = "notify"
        PROVE  s \in Range(registered'[notice[h].kind])
    <3>1. s # t
      BY <2>6, <2>8
    <3>2. s \in Range(registered[notice[h].kind])
      BY <2>8 DEF OwedAhead
    <3>3. notice[h].kind \in Kinds
      BY <2>5, <2>8 DEF Notifying
    <3> QED
      BY <2>4, <3>1, <3>2, <3>3
  <2> QED
    BY <2>2, <2>7, <2>8 DEF OwedAhead, Notifying
<1>10. ASSUME NEW g \in Goroutines, NEW t \in Streams, Subscribe(g, t) PROVE OwedAhead'
  <2>1. /\ pc[g] = "idle" /\ pc' = [pc EXCEPT ![g] = "add"]
        /\ handler' = [handler EXCEPT ![t] = "set"]
        /\ target' = [target EXCEPT ![g] = t]
        /\ UNCHANGED <<notice, todo, owed, registered>>
    BY <1>10 DEF Subscribe, Goes
  <2> QED
    BY <2>1 DEF OwedAhead, Notifying
<1>11. ASSUME NEW g \in Goroutines, NEW t \in Streams, Unsubscribe(g, t) PROVE OwedAhead'
  <2>1. /\ pc[g] = "idle" /\ pc' = [pc EXCEPT ![g] = "drop"]
        /\ handler' = [handler EXCEPT ![t] = "none"]
        /\ target' = [target EXCEPT ![g] = t]
        /\ owed' = [h \in Goroutines |-> owed[h] \ {t}]
        /\ UNCHANGED <<notice, todo, registered>>
    BY <1>11 DEF Unsubscribe, Goes
  <2> QED
    BY <2>1 DEF OwedAhead, Notifying
<1>12. ASSUME NEW g \in Goroutines, NEW n \in Notices, Notify(g, n) PROVE OwedAhead'
  <2>1. /\ pc[g] = "idle" /\ pc' = [pc EXCEPT ![g] = "notify"]
        /\ notice' = [notice EXCEPT ![g] = n]
        /\ owed' = [owed EXCEPT ![g] = Entitled(n)]
        /\ UNCHANGED <<todo, target, handler, registered>>
    BY <1>12 DEF Notify, Goes, streamVars
  <2>2. ASSUME NEW s \in Entitled(n)
        PROVE  /\ handler[s] = "set" /\ Matches(s, n)
               /\ s \in Range(registered[n.kind])
               /\ \A h \in Goroutines : pc[h] = "drop" => target[h] # s
    BY <2>2 DEF Entitled, Matches, ListsForm, OneOwner, OwnerRule, Moves
  <2> QED
    BY <2>1, <2>2 DEF OwedAhead, Notifying
<1> QED
  BY Steps, LifeLeavesNotices, ChangesNotify, <1>1, <1>2, <1>3, <1>4, <1>5, <1>6, <1>7, <1>8,
     <1>9, <1>10, <1>11, <1>12 DEF Act

LEMMA ReachedKept ==
  ASSUME Types, CallForm, ListsForm, OneOwner, ReachedBehind, [Next]_vars
  PROVE  ReachedBehind'
<1> USE DEF Types
<1>1. ASSUME UNCHANGED noticeVars PROVE ReachedBehind'
  BY <1>1 DEF ReachedBehind, noticeVars, history
<1>2. CASE Reset
  BY <1>2 DEF Reset, callVars, ReachedBehind
<1>3. ASSUME NEW g \in Goroutines, CopyStreams(g) PROVE ReachedBehind'
  <2> DEFINE k == notice[g].kind
  <2>1. /\ pc[g] = "notify" /\ pc' = [pc EXCEPT ![g] = "deliver"]
        /\ todo' = [todo EXCEPT ![g] = registered[k]]
        /\ UNCHANGED <<target, reached, doubled, overlapped>>
    BY <1>3 DEF CopyStreams, Goes, history, streamVars
  <2>2. k \in Kinds
    BY <2>1 DEF CallForm, Notifying, Notices, Kinds
  <2> HIDE DEF k
  <2>3. ASSUME NEW s \in Streams \ overlapped PROVE Once(registered[k], s)
    <3>1. CASE k = Kind[s]
      BY <2>3, <3>1 DEF OneOwner, OwnerRule
    <3>2. CASE k # Kind[s]
      <4>1. s \notin Range(registered[k])
        BY <2>2, <3>2 DEF ListsForm
      <4> QED
        BY <4>1 DEF Once, Range
    <3> QED
      BY <3>1, <3>2
  <2> QED
    BY <2>1, <2>3 DEF ReachedBehind
<1>4. ASSUME NEW g \in Goroutines, ReadHandler(g) PROVE ReachedBehind'
  <2> DEFINE t == Head(todo[g])
  <2>1. /\ pc[g] = "deliver" /\ todo' = [todo EXCEPT ![g] = Tail(todo[g])]
        /\ todo[g] # <<>> /\ todo[g] \in Seq(Streams)
        /\ UNCHANGED <<reached, doubled, overlapped>>
    BY <1>4 DEF ReadHandler, history, streamVars
  <2>2. /\ Range(todo[g]) = Range(Tail(todo[g])) \cup {t}
        /\ \A s : Once(todo[g], s) => Once(Tail(todo[g]), s)
        /\ Once(todo[g], t) => t \notin Range(Tail(todo[g]))
    BY <2>1, TailList
  <2>3. \/ pc' = [pc EXCEPT ![g] = "call"] /\ target' = [target EXCEPT ![g] = t]
        \/ UNCHANGED <<pc, target>>
    BY <1>4 DEF ReadHandler, HasHandler
  <2> HIDE DEF t
  <2>4. /\ \A h \in Goroutines : h # g => pc'[h] = pc[h] /\ target'[h] = target[h] /\ todo'[h] = todo[h]
        /\ todo'[g] = Tail(todo[g])
        /\ pc'[g] \in {"call", "deliver"}
        /\ pc'[g] = "call" => target'[g] = t
    BY <2>1, <2>3
  <2>5. ASSUME NEW s \in Streams \ overlapped
        PROVE  /\ Once(todo'[g], s)
               /\ s \in reached'[g] => s \notin Range(todo'[g])
               /\ pc'[g] = "call" /\ target'[g] = s =>
                    s \notin Range(todo'[g]) /\ s \notin reached'[g]
    BY <2>1, <2>2, <2>4 DEF ReachedBehind
  <2> QED
    BY <2>1, <2>4, <2>5 DEF ReachedBehind
<1>5. ASSUME NEW g \in Goroutines, Call(g) PROVE ReachedBehind'
  <2>1. PICK t \in Streams : t = target[g]
    BY <1>5 DEF Call, Goes, CallForm
  <2>2. /\ pc[g] = "call" /\ pc' = [pc EXCEPT ![g] = "deliver"]
        /\ target' = [target EXCEPT ![g] = None]
        /\ reached' = [reached EXCEPT ![g] = reached[g] \cup {t}]
        /\ doubled' = doubled \cup ({t} \cap reached[g])
        /\ UNCHANGED <<todo, overlapped>>
    BY <1>5, <2>1 DEF Call, Goes, streamVars
  <2>3. doubled' \subseteq overlapped'
    BY <2>1, <2>2 DEF ReachedBehind
  <2>4. ASSUME NEW s \in Streams \ overlapped
        PROVE  Once(todo[g], s) /\ (s \in reached'[g] => s \notin Range(todo[g]))
    BY <2>1, <2>2 DEF ReachedBehind
  <2> QED
    BY <2>2, <2>3, <2>4 DEF ReachedBehind
<1>6. ASSUME NEW g \in Goroutines, Finish(g) \/ GiveUp(g) PROVE ReachedBehind'
  <2>1. /\ pc' = [pc EXCEPT ![g] = "idle"] /\ reached' = [reached EXCEPT ![g] = {}]
        /\ UNCHANGED <<doubled, overlapped>>
    BY <1>6 DEF Finish, GiveUp, Goes, Forget, streamVars
  <2>2. \A h \in Goroutines : h # g => todo'[h] = todo[h] /\ target'[h] = target[h]
    BY <1>6 DEF Finish, GiveUp
  <2> QED
    BY <2>1, <2>2 DEF ReachedBehind
<1>7. ASSUME NEW g \in Goroutines,
             \/ Register(g) \/ Deregister(g)
             \/ \E s \in Streams : Subscribe(g, s) \/ Unsubscribe(g, s)
             \/ \E n \in Notices : Notify(g, n)
      PROVE  ReachedBehind'
  <2>1. /\ overlapped \subseteq overlapped'
        /\ UNCHANGED <<todo, reached, doubled>>
    BY <1>7 DEF Register, Deregister, Subscribe, Unsubscribe, Notify, Overlap, history, streamVars
  <2>2. /\ pc[g] \in {"idle", "add", "drop"}
        /\ \E to \in {"idle", "notify", "add", "drop"} : pc' = [pc EXCEPT ![g] = to]
    BY <1>7 DEF Register, Deregister, Subscribe, Unsubscribe, Notify, Goes
  <2>3. \A h \in Goroutines : h # g => target'[h] = target[h]
    BY <1>7 DEF Register, Deregister, Subscribe, Unsubscribe, Notify
  <2> QED
    BY <2>1, <2>2, <2>3 DEF ReachedBehind
<1> QED
  BY Steps, LifeLeavesNotices, ChangesNotify, <1>1, <1>2, <1>3, <1>4, <1>5, <1>6, <1>7 DEF Act

LEMMA SilentKept ==
  ASSUME Types, CallForm, SilentOnes, [Next]_vars
  PROVE  SilentOnes'
<1> USE DEF Types
<1>1. ASSUME UNCHANGED <<pc, target, handler, silent>> PROVE SilentOnes'
  BY <1>1 DEF SilentOnes
<1>2. ASSUME \/ Initialize \/ Reset \/ UNCHANGED vars
             \/ \E m \in [Ids -> Values \cup {None}] : Populate(m)
             \/ \E w \in Waiters : WhenReady(w) \/ Told(w)
             \/ \E s \in Streams : ReadAll(s)
      PROVE  UNCHANGED <<pc, target, handler, silent>>
  BY <1>2, LifeLeavesNotices DEF Reset, callVars, noticeVars, history
<1>3. ASSUME NEW g \in Goroutines, ReadHandler(g) PROVE SilentOnes'
  <2> DEFINE t == Head(todo[g])
  <2>1. /\ UNCHANGED <<handler, silent>>
        /\ \/ /\ pc' = [pc EXCEPT ![g] = "call"] /\ target' = [target EXCEPT ![g] = t]
              /\ handler[t] = "set"
           \/ UNCHANGED <<pc, target>>
    BY <1>3 DEF ReadHandler, HasHandler, history, streamVars
  <2> HIDE DEF t
  <2> QED
    BY <2>1 DEF SilentOnes
<1>4. ASSUME NEW g \in Goroutines,
             CopyStreams(g) \/ Call(g) \/ Finish(g) \/ GiveUp(g) \/ Register(g) \/ Deregister(g)
      PROVE  SilentOnes'
  <2>1. /\ handler' = handler
        /\ silent' = silent \/ silent' = [silent EXCEPT ![g] = {}]
        /\ \E to \in {"deliver", "idle"} : pc' = [pc EXCEPT ![g] = to]
    BY <1>4 DEF CopyStreams, Call, Finish, GiveUp, Register, Deregister, Goes, Forget, history,
                streamVars
  <2>2. \A h \in Goroutines : h # g => target'[h] = target[h]
    BY <1>4 DEF CopyStreams, Call, Finish, GiveUp, Register, Deregister
  <2> QED
    BY <2>1, <2>2 DEF SilentOnes
<1>5. ASSUME NEW g \in Goroutines, NEW t \in Streams, Subscribe(g, t) PROVE SilentOnes'
  <2>1. /\ pc' = [pc EXCEPT ![g] = "add"] /\ target' = [target EXCEPT ![g] = t]
        /\ handler' = [handler EXCEPT ![t] = "set"]
        /\ silent' = [h \in Goroutines |-> silent[h] \ {t}]
    BY <1>5 DEF Subscribe, Goes
  <2> QED
    BY <2>1 DEF SilentOnes
<1>6. ASSUME NEW g \in Goroutines, NEW t \in Streams, Unsubscribe(g, t) PROVE SilentOnes'
  <2>1. /\ pc' = [pc EXCEPT ![g] = "drop"] /\ target' = [target EXCEPT ![g] = t]
        /\ handler' = [handler EXCEPT ![t] = "none"]
        /\ silent' = silent
    BY <1>6 DEF Unsubscribe, Goes
  <2> QED
    BY <2>1 DEF SilentOnes
<1>7. ASSUME NEW g \in Goroutines, NEW n \in Notices, Notify(g, n) PROVE SilentOnes'
  <2>1. /\ pc' = [pc EXCEPT ![g] = "notify"]
        /\ silent' = [silent EXCEPT ![g] = {s \in Streams : handler[s] = "none"}]
        /\ UNCHANGED <<target, handler>>
    BY <1>7 DEF Notify, Goes, streamVars
  <2> QED
    BY <2>1 DEF SilentOnes
<1> QED
  BY Steps, ChangesNotify, <1>1, <1>2, <1>3, <1>4, <1>5, <1>6, <1>7 DEF Act
-----------------------------------------------------------------------------
(***************************************************************************)
(* Versions, and what the owners of streams know.                          *)
(***************************************************************************)
LEMMA VersionTypes ==
  ASSUME Types, CallForm
  PROVE  /\ storeVersion \in Nat
         /\ \A s \in Streams, i \in Ids : view[s][i].version \in Nat
         /\ \A g \in Goroutines : Changing(g) => notice[g].version \in Nat /\ notice[g].id \in Ids
<1>1. storeVersion \in Nat
  BY DEF Types
<1>2. \A s \in Streams, i \in Ids : view[s][i] \in Seen
  BY DEF Types
<1>3. \A g \in Goroutines : Changing(g) => notice[g] \in Notices
  BY DEF CallForm, Changing
<1>4. \A n \in Notices : n.version \in Nat /\ n.id \in Ids
  BY BoundAssumption DEF Notices
<1> QED
  BY <1>1, <1>2, <1>3, <1>4 DEF Seen

\* A step that touches neither items nor views, and ends no change that is still
\* owed to somebody.
LEMMA Undisturbed ==
  ASSUME Versions, ViewsFollow, UNCHANGED <<dataVars, view, synced, mixed>>,
         subscribed \subseteq subscribed', overlapped \subseteq overlapped',
         \A h \in Goroutines : Changing(h)' => Changing(h) /\ notice'[h] = notice[h],
         \A h \in Goroutines : Changing(h) /\ owed[h] # {} => Changing(h)' /\ owed'[h] = owed[h]
  PROVE  Versions' /\ ViewsFollow'
<1>1. Versions'
  BY DEF Versions, dataVars
<1>2. ASSUME NEW s, NEW i, UpToDate(s, i) PROVE UpToDate(s, i)'
  BY <1>2 DEF UpToDate, ChangesItem, dataVars
<1>3. ASSUME NEW s, NEW i, NEW g \in Goroutines, Brings(g, s, i) PROVE Brings(g, s, i)'
  BY <1>3 DEF Brings, ChangesItem, dataVars
<1>4. ViewsFollow'
  BY <1>2, <1>3 DEF ViewsFollow
<1> QED
  BY <1>1, <1>4

LEMMA ViewsAfterReading ==
  ASSUME Types, CallForm, Versions, ViewsFollow, NEW t \in Streams, ReadAll(t)
  PROVE  Versions' /\ ViewsFollow'
<1> DEFINE new == [i \in Ids |-> IF view[t][i].version > storeVersion THEN view[t][i]
                                 ELSE [version |-> storeVersion, value |-> items[i]]]
<1>1. /\ view' = [view EXCEPT ![t] = new] /\ synced' = synced \cup {t}
      /\ t \in subscribed /\ Kind[t] = "change"
      /\ UNCHANGED <<items, storeVersion, subscribed, overlapped, pc, notice, owed, mixed>>
  BY DEF ReadAll, dataVars, streamVars, callVars, history
<1>2. ASSUME ~mixed, NEW i \in Ids
      PROVE  new[i] = [version |-> storeVersion, value |-> items[i]]
  <2>1. ~(view[t][i].version > storeVersion)
    BY <1>2, VersionTypes DEF Versions
  <2> QED
    BY <2>1
<1> HIDE DEF new
<1>3. view'[t] = new /\ \A s \in Streams : s # t => view'[s] = view[s]
  BY <1>1 DEF Types
<1>4. \A h \in Goroutines :
        /\ Changing(h)' <=> Changing(h)
        /\ \A i \in Ids : ChangesItem(h, i)' <=> ChangesItem(h, i)
  BY <1>1 DEF Changing, ChangesItem, Notifying
<1>5. Versions'
  <2>1. ASSUME ~mixed, NEW s \in Streams, NEW i \in Ids
        PROVE  view'[s][i].version <= storeVersion
    <3>1. CASE s = t
      <4>1. view'[s][i] = [version |-> storeVersion, value |-> items[i]]
        BY <1>2, <1>3, <2>1, <3>1
      <4> QED
        BY <4>1, VersionTypes
    <3>2. CASE s # t
      BY <1>3, <2>1, <3>2 DEF Versions
    <3> QED
      BY <3>1, <3>2
  <2> QED
    BY <1>1, <1>4, <2>1 DEF Versions
<1>6. ASSUME ~mixed, NEW i \in Ids PROVE UpToDate(t, i)'
  <2>1. view'[t][i] = [version |-> storeVersion, value |-> items[i]]
    BY <1>2, <1>3, <1>6
  <2>2. view'[t][i].version = storeVersion /\ view'[t][i].value = items[i]
    BY <2>1
  <2>3. ASSUME NEW h \in Goroutines, ChangesItem(h, i)'
        PROVE  notice'[h].version <= storeVersion
    BY <1>1, <1>4, <1>6, <2>3 DEF Versions, ChangesItem
  <2> QED
    BY <1>1, <2>2, <2>3 DEF UpToDate
<1>7. ASSUME NEW s \in Streams, s # t, NEW i \in Ids, UpToDate(s, i) PROVE UpToDate(s, i)'
  BY <1>1, <1>3, <1>4, <1>7 DEF UpToDate
<1>8. ASSUME NEW s \in Streams, s # t, NEW i \in Ids, NEW g \in Goroutines, Brings(g, s, i)
      PROVE  Brings(g, s, i)'
  BY <1>1, <1>3, <1>4, <1>8 DEF Brings
<1>9. ViewsFollow'
  <2>1. \A s \in Streams : Filter[s] \subseteq Ids
    BY FilterAssumption
  <2>2. synced \subseteq Streams
    BY DEF Types, ViewsFollow
  <2> QED
    BY <1>1, <1>6, <1>7, <1>8, <2>1, <2>2 DEF ViewsFollow
<1> QED
  BY <1>5, <1>9

LEMMA ViewsAfterCall ==
  ASSUME Types, CallForm, Versions, ViewsFollow, NEW g \in Goroutines, Call(g)
  PROVE  Versions' /\ ViewsFollow'
<1>1. PICK t \in Streams : t = target[g]
  BY DEF Call, Goes, CallForm
<1>2. PICK n \in Notices : n = notice[g]
  BY DEF Call, Goes, CallForm, Notifying
<1> DEFINE newer == n.kind = "change" /\ n.version > view[t][n.id].version
<1>3. /\ view' = IF newer
                 THEN [view EXCEPT ![t][n.id] = [version |-> n.version, value |-> n.value]]
                 ELSE view
      /\ owed' = [owed EXCEPT ![g] = owed[g] \ {t}]
      /\ pc[g] = "call" /\ pc' = [pc EXCEPT ![g] = "deliver"]
      /\ UNCHANGED <<items, storeVersion, subscribed, overlapped, notice, synced, mixed>>
  BY <1>1, <1>2 DEF Call, Goes, dataVars, streamVars
<1>4. n.id \in Ids
  BY DEF Notices
<1>5. /\ newer => view'[t][n.id] = [version |-> n.version, value |-> n.value]
      /\ \A s \in Streams, i \in Ids : ~(newer /\ s = t /\ i = n.id) => view'[s][i] = view[s][i]
  BY <1>3, <1>4 DEF Types
<1>6. \A h \in Goroutines :
        /\ Changing(h)' <=> Changing(h)
        /\ \A i \in Ids : ChangesItem(h, i)' <=> ChangesItem(h, i)
  BY <1>3 DEF Types, Changing, ChangesItem, Notifying
<1>7. \A i \in Ids : ChangesItem(g, i) <=> n.kind = "change" /\ n.id = i
  BY <1>2, <1>3 DEF ChangesItem, Changing, Notifying
<1>8. ASSUME NEW h \in Goroutines, NEW s, s \in owed[h], ~(h = g /\ s = t)
      PROVE  s \in owed'[h]
  BY <1>3, <1>8 DEF Types
<1> HIDE DEF newer
<1>9. Versions'
  <2>1. ASSUME ~mixed, newer PROVE n.version <= storeVersion
    BY <1>2, <1>3, <2>1 DEF Versions, Changing, Notifying, newer
  <2>2. ASSUME ~mixed, NEW s \in Streams, NEW i \in Ids
        PROVE  view'[s][i].version <= storeVersion
    BY <1>5, <2>1, <2>2 DEF Versions
  <2> QED
    BY <1>3, <1>6, <2>2 DEF Versions
<1>10. ASSUME NEW s \in Streams, NEW i \in Ids, ~(newer /\ s = t /\ i = n.id), UpToDate(s, i)
       PROVE  UpToDate(s, i)'
  BY <1>3, <1>5, <1>6, <1>10 DEF UpToDate
<1>11. ASSUME NEW s \in Streams, NEW i \in Ids, ~(newer /\ s = t /\ i = n.id),
              NEW h \in Goroutines, Brings(h, s, i), ~(h = g /\ s = t)
       PROVE  Brings(h, s, i)'
  BY <1>3, <1>5, <1>6, <1>8, <1>11 DEF Brings
<1>12. ASSUME ~mixed, NEW s \in Streams, NEW i \in Ids,
              UpToDate(s, i) \/ \E h \in Goroutines : Brings(h, s, i)
       PROVE  (UpToDate(s, i) \/ \E h \in Goroutines : Brings(h, s, i))'
  <2>1. CASE UpToDate(s, i)
    <3>1. ~(newer /\ s = t /\ i = n.id)
      <4> SUFFICES ASSUME newer, s = t, i = n.id PROVE FALSE
        OBVIOUS
      <4>1. notice[g].version <= view[s][i].version
        BY <1>7, <2>1 DEF newer, UpToDate
      <4>2. notice[g].version > view[s][i].version
        BY <1>2 DEF newer
      <4>3. Changing(g)
        BY <1>7, <1>4 DEF newer, ChangesItem
      <4> QED
        BY <4>1, <4>2, <4>3, VersionTypes
    <3> QED
      BY <1>10, <2>1, <3>1
  <2>2. ASSUME NEW h \in Goroutines, Brings(h, s, i)
        PROVE  (UpToDate(s, i) \/ \E k \in Goroutines : Brings(k, s, i))'
    <3>1. CASE ~(s = t /\ ChangesItem(g, i))
      <4>1. ~(newer /\ s = t /\ i = n.id) /\ ~(h = g /\ s = t)
        BY <1>7, <2>2, <3>1 DEF newer, Brings
      <4> QED
        BY <1>11, <2>2, <4>1
    <3>2. CASE s = t /\ h = g
      <4>1. newer /\ i = n.id
        BY <1>2, <1>7, <2>2, <3>2 DEF newer, Brings
      <4>2. view'[s][i].version = n.version /\ view'[s][i].value = n.value
        BY <1>5, <3>2, <4>1
      <4>3. UpToDate(s, i)'
        BY <1>2, <1>3, <1>6, <2>2, <3>2, <4>2 DEF UpToDate, Brings
      <4> QED
        BY <4>3
    <3>3. CASE s = t /\ ChangesItem(g, i) /\ h # g
      <4>1. /\ Changing(h) /\ Changing(g)
            /\ notice[h].version \in Nat /\ notice[g].version \in Nat
            /\ notice[g].version <= notice[h].version
            /\ notice[g].version # notice[h].version
        BY <1>12, <2>2, <3>3, VersionTypes DEF Brings, ChangesItem, Versions
      <4>2. notice[h].version > view'[s][i].version
        <5>1. CASE newer /\ i = n.id
          <6>1. view'[s][i].version = notice[g].version
            BY <1>2, <1>5, <3>3, <5>1
          <6> QED
            BY <4>1, <6>1
        <5>2. CASE ~(newer /\ i = n.id)
          BY <1>5, <2>2, <5>2 DEF Brings
        <5> QED
          BY <5>1, <5>2
      <4>3. Brings(h, s, i)'
        BY <1>3, <1>6, <1>8, <2>2, <3>3, <4>2 DEF Brings
      <4> QED
        BY <4>3
    <3> QED
      BY <3>1, <3>2, <3>3
  <2> QED
    BY <1>12, <2>1, <2>2
<1>13. ViewsFollow'
  <2>1. \A s \in Streams : Filter[s] \subseteq Ids
    BY FilterAssumption
  <2>2. synced \subseteq Streams
    BY DEF Types, ViewsFollow
  <2> QED
    BY <1>3, <1>12, <2>1, <2>2 DEF ViewsFollow
<1> QED
  BY <1>9, <1>13

LEMMA ViewsAfterUnsubscribe ==
  ASSUME Types, CallForm, Versions, ViewsFollow, NEW g \in Goroutines, NEW t \in Streams,
         Unsubscribe(g, t)
  PROVE  Versions' /\ ViewsFollow'
<1>1. /\ view' = [view EXCEPT ![t] = Unseen] /\ synced' = synced \ {t}
      /\ subscribed' = subscribed \ {t} /\ overlapped \subseteq overlapped'
      /\ owed' = [h \in Goroutines |-> owed[h] \ {t}]
      /\ pc[g] = "idle" /\ pc' = [pc EXCEPT ![g] = "drop"]
      /\ UNCHANGED <<items, storeVersion, notice, mixed>>
  BY DEF Unsubscribe, Goes, Overlap, dataVars
<1>2. /\ \A i \in Ids : view'[t][i].version = 0
      /\ \A s \in Streams : s # t => view'[s] = view[s]
  BY <1>1 DEF Types, Unseen
<1>3. \A h \in Goroutines :
        /\ Changing(h)' <=> Changing(h)
        /\ \A i \in Ids : ChangesItem(h, i)' <=> ChangesItem(h, i)
  BY <1>1 DEF Types, Changing, ChangesItem, Notifying
<1>4. Versions'
  <2>1. ASSUME ~mixed, NEW s \in Streams, NEW i \in Ids
        PROVE  view'[s][i].version <= storeVersion
    BY <1>2, <2>1, VersionTypes DEF Versions
  <2> QED
    BY <1>1, <1>3, <2>1 DEF Versions
<1>5. ASSUME NEW s \in Streams, s # t, NEW i \in Ids, UpToDate(s, i) PROVE UpToDate(s, i)'
  BY <1>1, <1>2, <1>3, <1>5 DEF UpToDate
<1>6. ASSUME NEW s \in Streams, s # t, NEW i \in Ids, NEW h \in Goroutines, Brings(h, s, i)
      PROVE  Brings(h, s, i)'
  BY <1>1, <1>2, <1>3, <1>6 DEF Brings
<1>7. ViewsFollow'
  <2>1. \A s \in Streams : Filter[s] \subseteq Ids
    BY FilterAssumption
  <2>2. synced \subseteq Streams
    BY DEF Types, ViewsFollow
  <2> QED
    BY <1>1, <1>5, <1>6, <2>1, <2>2 DEF ViewsFollow
<1> QED
  BY <1>4, <1>7

LEMMA ViewsAfterChange ==
  ASSUME Types, CallForm, Versions, ViewsFollow, NEW g \in Goroutines, NEW j \in Ids,
         NEW v \in Values \cup {None}, Change(g, j, v)
  PROVE  Versions' /\ ViewsFollow'
<1> DEFINE n == Notice("change", j, v, storeVersion + 1)
<1>1. /\ items' = [items EXCEPT ![j] = v] /\ storeVersion' = storeVersion + 1
      /\ pc[g] = "idle" /\ pc' = [pc EXCEPT ![g] = "notify"]
      /\ notice' = [notice EXCEPT ![g] = n]
      /\ owed' = [owed EXCEPT ![g] = Entitled(n)]
      /\ UNCHANGED <<subscribed, overlapped, view, synced, mixed>>
  BY DEF Change, Notify, NextVersion, Goes, streamVars, ownerVars
<1>2. n.kind = "change" /\ n.id = j /\ n.value = v /\ n.version = storeVersion + 1
  BY DEF Notice
<1> HIDE DEF n
<1>3. /\ notice'[g] = n /\ Changing(g)' /\ ~Changing(g) /\ owed'[g] = Entitled(n)
      /\ \A h \in Goroutines : h # g =>
           /\ notice'[h] = notice[h] /\ owed'[h] = owed[h]
           /\ Changing(h)' <=> Changing(h)
      /\ items'[j] = v /\ \A i \in Ids : i # j => items'[i] = items[i]
  BY <1>1, <1>2 DEF Types, Changing, Notifying
<1>4. ASSUME ~mixed
      PROVE  /\ \A h \in Goroutines : Changing(h) =>
                  notice[h].version \in Nat /\ notice[h].version < storeVersion + 1
             /\ \A s \in Streams, i \in Ids :
                  view[s][i].version \in Nat /\ view[s][i].version < storeVersion + 1
             /\ \A h \in Goroutines : Changing(h) => notice[h].version <= storeVersion + 1
             /\ \A s \in Streams, i \in Ids : view[s][i].version <= storeVersion + 1
  BY <1>4, VersionTypes DEF Versions
<1>5. storeVersion + 1 \in Nat
  BY VersionTypes
<1>6. Versions'
  <2> SUFFICES ASSUME ~mixed PROVE Versions'
    BY <1>1 DEF Versions
  <2>1. ASSUME NEW h \in Goroutines, Changing(h)' PROVE notice'[h].version <= storeVersion'
    BY <1>1, <1>2, <1>3, <1>4, <1>5, <2>1
  <2>2. ASSUME NEW h \in Goroutines, NEW k \in Goroutines, Changing(h)', Changing(k)',
               notice'[h].version = notice'[k].version
        PROVE  h = k
    <3>1. CASE h # g /\ k # g
      BY <1>3, <2>2, <3>1 DEF Versions
    <3>2. CASE (h = g /\ k # g) \/ (h # g /\ k = g)
      BY <1>2, <1>3, <1>4, <1>5, <2>2, <3>2
    <3> QED
      BY <3>1, <3>2
  <2> QED
    BY <1>1, <1>4, <2>1, <2>2 DEF Versions
<1>7. ASSUME ~mixed, NEW s \in synced \ overlapped, j \in Filter[s], s \in Streams
      PROVE  Brings(g, s, j)'
  <2>1. s \in Entitled(n)
    BY <1>2, <1>7 DEF Entitled, Matches, ViewsFollow
  <2>2. ChangesItem(g, j)'
    BY <1>2, <1>3 DEF ChangesItem
  <2>3. notice'[g].value = items'[j] /\ notice'[g].version > view'[s][j].version
    BY <1>1, <1>2, <1>3, <1>4, <1>5, <1>7
  <2>4. ASSUME NEW h \in Goroutines, ChangesItem(h, j)'
        PROVE  notice'[h].version <= notice'[g].version
    BY <1>2, <1>3, <1>4, <1>5, <1>7, <2>4 DEF ChangesItem
  <2> QED
    BY <1>3, <2>1, <2>2, <2>3, <2>4 DEF Brings
<1>8. ASSUME NEW i \in Ids, i # j, NEW h \in Goroutines
      PROVE  (ChangesItem(h, i)' <=> ChangesItem(h, i)) /\ (ChangesItem(h, i) => h # g)
  BY <1>2, <1>3, <1>8 DEF ChangesItem
<1>9. ASSUME NEW s \in Streams, NEW i \in Ids, i # j, UpToDate(s, i) PROVE UpToDate(s, i)'
  BY <1>1, <1>3, <1>8, <1>9 DEF UpToDate
<1>10. ASSUME NEW s \in Streams, NEW i \in Ids, i # j, NEW h \in Goroutines, Brings(h, s, i)
       PROVE  Brings(h, s, i)'
  BY <1>1, <1>3, <1>8, <1>10 DEF Brings
<1>11. ViewsFollow'
  <2>1. \A s \in Streams : Filter[s] \subseteq Ids
    BY FilterAssumption
  <2>2. synced \subseteq Streams
    BY DEF Types, ViewsFollow
  <2> QED
    BY <1>1, <1>7, <1>9, <1>10, <2>1, <2>2 DEF ViewsFollow
<1> QED
  BY <1>6, <1>11

LEMMA ViewsKept ==
  ASSUME Types, CallForm, OwedAhead, Versions, ViewsFollow, [Next]_vars
  PROVE  Versions' /\ ViewsFollow'
<1>1. CASE Reset
  <2>1. /\ mixed' = (mixed \/ \E g \in Goroutines : Changing(g))
        /\ \A g \in Goroutines : Changing(g)' <=> Changing(g)
        /\ view' = [s \in Streams |-> Unseen] /\ synced' = {} /\ subscribed' = {}
        /\ storeVersion' = 1
    BY <1>1 DEF Reset, Changing, Notifying, callVars, FirstVersion
  <2>2. \A s \in Streams, i \in Ids : view'[s][i].version <= storeVersion'
    BY <2>1 DEF Unseen
  <2>3. Versions'
    BY <2>1, <2>2 DEF Versions
  <2> QED
    BY <2>1, <2>3 DEF ViewsFollow
<1>2. ASSUME NEW m \in [Ids -> Values \cup {None}], Populate(m)
      PROVE  Versions' /\ ViewsFollow'
  <2>1. /\ UNCHANGED <<storeVersion, pc, notice, view, mixed>> /\ synced' = {}
    BY <1>2 DEF Populate, callVars
  <2>2. \A g \in Goroutines : Changing(g)' <=> Changing(g)
    BY <2>1 DEF Changing, Notifying
  <2> QED
    BY <2>1, <2>2 DEF Versions, ViewsFollow
<1>3. ASSUME NEW s \in Streams, ReadAll(s)
      PROVE  Versions' /\ ViewsFollow'
  BY <1>3, ViewsAfterReading
<1>4. ASSUME NEW g \in Goroutines, Call(g)
      PROVE  Versions' /\ ViewsFollow'
  BY <1>4, ViewsAfterCall
<1>5. ASSUME NEW g \in Goroutines, NEW s \in Streams, Unsubscribe(g, s)
      PROVE  Versions' /\ ViewsFollow'
  BY <1>5, ViewsAfterUnsubscribe
<1>6. ASSUME NEW g \in Goroutines, NEW i \in Ids, NEW v \in Values \cup {None},
             Change(g, i, v)
      PROVE  Versions' /\ ViewsFollow'
  BY <1>6, ViewsAfterChange
<1>7. ASSUME NEW g \in Goroutines, NEW i \in Ids, Mutate(g, i)
      PROVE  Versions' /\ ViewsFollow'
  <2> DEFINE n == Notice("mutation", i, None, 0)
  <2>1. /\ pc[g] = "idle" /\ pc' = [pc EXCEPT ![g] = "notify"]
        /\ notice' = [notice EXCEPT ![g] = n]
        /\ owed' = [owed EXCEPT ![g] = Entitled(n)]
        /\ UNCHANGED <<dataVars, view, synced, mixed, subscribed, overlapped>>
    BY <1>7 DEF Mutate, Notify, Goes, streamVars, ownerVars
  <2>2. n.kind = "mutation"
    BY DEF Notice
  <2> HIDE DEF n
  <2>3. \A h \in Goroutines : h # g =>
          notice'[h] = notice[h] /\ owed'[h] = owed[h] /\ (Changing(h)' <=> Changing(h))
    BY <2>1 DEF Types, Changing, Notifying
  <2>4. ~Changing(g) /\ ~Changing(g)'
    BY <2>1, <2>2 DEF Types, Changing, Notifying
  <2> QED
    BY <2>1, <2>3, <2>4, Undisturbed
<1>8. ASSUME \/ Initialize \/ UNCHANGED vars
             \/ \E w \in Waiters : WhenReady(w) \/ Told(w)
      PROVE  Versions' /\ ViewsFollow'
  <2>1. UNCHANGED <<dataVars, view, synced, mixed, subscribed, overlapped, pc, notice, owed>>
    BY <1>8 DEF Initialize, WhenReady, Told, vars, streamVars, callVars, history, ownerVars
  <2>2. \A h \in Goroutines : Changing(h)' <=> Changing(h)
    BY <2>1 DEF Changing, Notifying
  <2> QED
    BY <2>1, <2>2, Undisturbed
<1>9. ASSUME NEW g \in Goroutines, CopyStreams(g) \/ ReadHandler(g)
      PROVE  Versions' /\ ViewsFollow'
  <2>1. /\ UNCHANGED <<dataVars, view, synced, mixed, subscribed, overlapped, notice, owed>>
        /\ \A h \in Goroutines : Notifying(h)' <=> Notifying(h)
    BY <1>9 DEF CopyStreams, ReadHandler, Goes, Notifying, Types, streamVars, history, ownerVars
  <2>2. \A h \in Goroutines : Changing(h)' <=> Changing(h)
    BY <2>1 DEF Changing
  <2> QED
    BY <2>1, <2>2, Undisturbed
<1>10. ASSUME NEW g \in Goroutines, Finish(g) \/ GiveUp(g)
       PROVE  Versions' /\ ViewsFollow'
  <2>1. /\ UNCHANGED <<dataVars, view, synced, mixed, subscribed, overlapped>>
        /\ pc' = [pc EXCEPT ![g] = "idle"] /\ notice' = [notice EXCEPT ![g] = None]
    BY <1>10 DEF Finish, GiveUp, Goes, streamVars, ownerVars
  <2>2. \A h \in Goroutines : h # g => notice'[h] = notice[h] /\ (Changing(h)' <=> Changing(h))
    BY <2>1 DEF Types, Changing, Notifying
  <2>3. \A h \in Goroutines : h # g => owed'[h] = owed[h]
    BY <1>10 DEF Finish, GiveUp, Types
  <2>4. ~Changing(g)'
    BY <2>1 DEF Types, Changing, Notifying
  <2>5. ~(Changing(g) /\ owed[g] # {})
    <3>1. CASE Finish(g)
      <4>1. pc[g] = "deliver" /\ Range(todo[g]) = {}
        BY <3>1 DEF Finish, Goes, Range
      <4>2. owed[g] = {}
        BY <4>1 DEF OwedAhead
      <4> QED
        BY <4>2
    <3>2. CASE GiveUp(g)
      BY <3>2 DEF GiveUp, Cancellable, Changing
    <3> QED
      BY <1>10, <3>1, <3>2
  <2> QED
    BY <2>1, <2>2, <2>3, <2>4, <2>5, Undisturbed
<1>11. ASSUME NEW g \in Goroutines,
              Register(g) \/ Deregister(g) \/ \E s \in Streams : Subscribe(g, s)
       PROVE  Versions' /\ ViewsFollow'
  <2>1. /\ UNCHANGED <<dataVars, view, synced, mixed, notice, owed>>
        /\ subscribed \subseteq subscribed' /\ overlapped \subseteq overlapped'
    BY <1>11 DEF Register, Deregister, Subscribe, Overlap, history, ownerVars
  <2>2. \A h \in Goroutines : Notifying(h)' <=> Notifying(h)
    BY <1>11 DEF Register, Deregister, Subscribe, Goes, Types, Notifying
  <2>3. \A h \in Goroutines : Changing(h)' <=> Changing(h)
    BY <2>1, <2>2 DEF Changing
  <2> QED
    BY <2>1, <2>3, Undisturbed
<1> QED
  BY Steps, <1>1, <1>2, <1>3, <1>4, <1>5, <1>6, <1>7, <1>8, <1>9, <1>10, <1>11 DEF Act
-----------------------------------------------------------------------------
LEMMA Initially == Init => IInv
<1> SUFFICES ASSUME Init PROVE IInv
  OBVIOUS
<1>1. Types /\ CallForm
  BY TypesInitially
<1>2. Readiness
  <2>1. readyC = 1 /\ 1 \in 1 .. MaxResets + 1 /\ 0 \in 0 .. 1
    BY BoundAssumption DEF Init
  <2>2. waiting \in [Waiters -> 0 .. readyC]
    BY <2>1 DEF Init
  <2> QED
    BY <2>1, <2>2 DEF Init, Readiness
<1>3. Range(<<>>) = {} /\ \A s : Once(<<>>, s)
  BY DEF Range, Once
<1>4. ListsForm
  BY <1>3 DEF Init, ListsForm, Kinds
<1>5. OneOwner
  <2>1. \A s \in Streams : registered[Kind[s]] = <<>>
    BY KindAssumption DEF Init
  <2> QED
    BY <1>3, <2>1 DEF Init, OneOwner, OwnerRule, Moves
<1>6. OwedAhead /\ ReachedBehind /\ SilentOnes
  BY DEF Init, OwedAhead, ReachedBehind, SilentOnes
<1>7. Versions
  BY DEF Init, Versions, Changing, Notifying, Unseen
<1>8. ViewsFollow
  BY DEF Init, ViewsFollow
<1> QED
  BY <1>1, <1>2, <1>4, <1>5, <1>6, <1>7, <1>8 DEF IInv

\* The parts of IInv hold in every state the store reaches.
THEOREM Invariant == Spec => []IInv
<1>1. Init => IInv
  BY Initially
<1>2. IInv /\ [Next]_vars => IInv'
  BY TypesKept, ReadinessKept, OwnersKept, OwedKept, ReachedKept, SilentKept, ViewsKept
  DEF IInv
<1> QED
  BY <1>1, <1>2, PTL DEF Spec

\* Versions start at one and do not run ahead of the changes, streams stay
\* streams, and a goroutine has a stream or a notice in its hands (store.go).
THEOREM TypeCorrect == Spec => []TypeOK
<1>1. IInv => TypeOK
  <2> SUFFICES ASSUME IInv PROVE TypeOK
    OBVIOUS
  <2>1. storeVersion \in 1 .. MaxCalls + 1
    BY BoundAssumption DEF IInv, Types
  <2>2. \A list \in Seq(Streams) : Range(list) \subseteq Streams
    BY DEF Range
  <2>3. DOMAIN registered = Kinds
    BY DEF IInv, Types
  <2> QED
    BY <2>1, <2>2, <2>3 DEF IInv, Types, Readiness, TypeOK
<1> QED
  BY <1>1, Invariant, PTL

\* A change reaches every stream that was subscribed when it was committed and
\* stays so, none twice and none that was unsubscribed before (onStoreChange,
\* onStreamUnsubscribe), whatever other goroutines do to the lists meanwhile.
THEOREM ChangesReachStreams == Spec => []NotifiedOnce
<1>1. IInv => NotifiedOnce
  BY DEF IInv, OwedAhead, ReachedBehind, SilentOnes, Notifying, NotifiedOnce
<1> QED
  BY <1>1, Invariant, PTL

\* An owner that keeps the value with the highest StoreVersion of each item has
\* the content of the store when nobody notifies, in whatever order the notices
\* came (putInternalContext, AllValuesAndVersion).
THEOREM NewestIsCurrent == Spec => []VersionsOrderChanges
<1>1. IInv => VersionsOrderChanges
  <2> SUFFICES ASSUME IInv, ~mixed, \A g \in Goroutines : ~Notifying(g),
                      NEW s \in synced \ overlapped, NEW i \in Filter[s]
               PROVE  view[s][i].value = items[i]
    BY DEF VersionsOrderChanges
  <2>1. \A g \in Goroutines : ~Brings(g, s, i)
    BY DEF Brings, ChangesItem, Changing
  <2> QED
    BY <2>1 DEF IInv, ViewsFollow, UpToDate
<1> QED
  BY <1>1, Invariant, PTL

\* WhenReady: whoever waits for this incarnation of the store is told once it is
\* initialised (Initialize, Populate, Reset).
THEOREM WaitersTold == Spec => []TellsWaiters
<1>1. IInv => TellsWaiters
  BY DEF IInv, Readiness, TellsWaiters
<1> QED
  BY <1>1, Invariant, PTL
=============================================================================
