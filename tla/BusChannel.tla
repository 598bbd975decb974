----------------------------- MODULE BusChannel -----------------------------
(***************************************************************************)
(* One bus channel (bus/channel.go) and the FireContext operation that     *)
(* waits on it (bus/message_handler.go).                                   *)
(*                                                                         *)
(* A send takes the current handler list, claims the run-once handlers in  *)
(* it one compare-and-swap at a time, prunes the fired ones from the list  *)
(* and hands the rest to ONE dispatch goroutine, registered with the       *)
(* channel's activity under a fresh sequence number.  FireContext is a     *)
(* send bracketed by a watermark and a wait for the activity to become     *)
(* quiescent.  A handler callback runs inside its dispatch goroutine and   *)
(* may itself send, fire or wait on the channel, so the goroutines that    *)
(* call into the channel are the publishers AND the dispatch goroutines.   *)
(*                                                                         *)
(* The handler list is kept as a set of numbers: the h-th handler ever     *)
(* subscribed is h, new handlers are appended at the end and removals keep *)
(* the order, so list order is number order.  Sequence number s names the  *)
(* dispatch goroutine that was begun with it.                              *)
(***************************************************************************)
EXTENDS Naturals, FiniteSets

CONSTANTS
  Publishers,    \* goroutines of the application that call into the channel
  Dispatch,      \* sequence numbers, and the dispatch goroutines they name
  MaxHandlers,   \* bound: how many handlers are ever subscribed
  MaxCalls,      \* bound: how many sends and fires are ever issued
  Waiters,       \* actors that call WaitForChannel
  Cancellable    \* actors whose context has a Done channel and may be canceled

Actors == Publishers \cup Dispatch

ASSUME DispatchAssumption == Dispatch \subseteq Nat \ {0}
ASSUME PublishersAssumption == Publishers \cap Dispatch = {}

VARIABLES
  joined,        \* number of handlers subscribed so far
  runOnce,       \* the subscribed handlers created with runOnce = true
  handlers,      \* Channel.eventHandlers: the copy-on-write handler list
  fired,         \* run-once handlers whose fired flag has been swapped to true
  next,          \* channelActivity.next
  outstanding,   \* channelActivity.outstanding
  pc,            \* control point of every actor
  scan,          \* the part of the handler snapshot an actor has not visited
  sched,         \* scheduledHandlers of the send an actor is in
  pruning,       \* actors whose pruneFiredRunOnce flag is set
  firing,        \* actors whose current send belongs to a FireContext
  start,         \* watermark taken by FireContext
  target,        \* target of waitQuiescentAfter
  armed,         \* actors whose context.AfterFunc wakeup is registered
  cancelled,     \* actors whose call's context is done
  body,          \* handlers a dispatch goroutine was created with
  todo,          \* handlers it has not returned from yet
  calls          \* sends and fires issued so far (bounded by MaxCalls)

subscriptions == <<joined, runOnce, handlers>>
sendState == <<scan, sched, pruning>>
fireState == <<start, target>>
goroutines == <<body, todo>>
activity == <<next, outstanding>>
vars == <<subscriptions, fired, activity, pc, sendState, firing, fireState,
          armed, cancelled, goroutines, calls>>

Handlers == 1 .. joined

(***************************************************************************)
(* Control points.  "idle" is a publisher outside any call, or a dispatch  *)
(* goroutine inside a handler callback: both may call into the channel.    *)
(***************************************************************************)
InSend == {"load", "scan", "begin"}
InQuiescenceWait == {"await", "asleep", "woken"}
InCall == InSend \cup InQuiescenceWait \cup {"waiting"}
GoroutineOnly == {"unborn", "loop", "ending", "ended"}
Control == InCall \cup GoroutineOnly \cup {"idle"}

Goto(a, point) == pc' = [pc EXCEPT ![a] = point]

\* Goroutines counted by Channel.wg: added when begun, Done before End.
Running == {d \in Dispatch : pc[d] \notin {"unborn", "ending", "ended"}}

Init ==
  /\ joined = 0
  /\ runOnce = {}
  /\ handlers = {}
  /\ fired = {}
  /\ next = 0
  /\ outstanding = {}
  /\ pc = [a \in Actors |-> IF a \in Publishers THEN "idle" ELSE "unborn"]
  /\ scan = [a \in Actors |-> {}]
  /\ sched = [a \in Actors |-> {}]
  /\ pruning = {}
  /\ firing = {}
  /\ start = [a \in Actors |-> 0]
  /\ target = [a \in Actors |-> 0]
  /\ armed = {}
  /\ cancelled = {}
  /\ body = [d \in Dispatch |-> {}]
  /\ todo = [d \in Dispatch |-> {}]
  /\ calls = 0
-----------------------------------------------------------------------------
\* What a rebuild of the handler list keeps of the current one.
Unfired(list) == list \ fired

(***************************************************************************)
(* Subscribing.  Every writer of the handler list holds channelLock, so    *)
(* each is one step; the list is rebuilt without fired run-once handlers.  *)
(***************************************************************************)
Subscribe(once) ==
  /\ joined < MaxHandlers
  /\ joined' = joined + 1
  /\ runOnce' = IF once THEN runOnce \cup {joined + 1} ELSE runOnce
  /\ handlers' = Unfired(handlers) \cup {joined + 1}
  /\ UNCHANGED <<fired, activity, pc, sendState, firing, fireState, armed,
                 cancelled, goroutines, calls>>

Unsubscribe(h) ==
  /\ h \in handlers
  /\ handlers' = Unfired(handlers \ {h})
  /\ UNCHANGED <<joined, runOnce, fired, activity, pc, sendState, firing,
                 fireState, armed, cancelled, goroutines, calls>>
-----------------------------------------------------------------------------
(***************************************************************************)
(* Sending.                                                                *)
(***************************************************************************)
Call(a) ==
  /\ pc[a] = "idle"
  /\ calls < MaxCalls
  /\ calls' = calls + 1

\* Send: dispatchContext loads the handler list.
Send(a) ==
  /\ Call(a)
  /\ scan' = [scan EXCEPT ![a] = handlers]
  /\ Goto(a, "scan")
  /\ UNCHANGED <<subscriptions, fired, activity, sched, pruning, firing,
                 fireState, armed, cancelled, goroutines>>

WatermarkMissed == 0
Watermark == next

\* FireContext reads the watermark, then calls dispatchContext.
Fire(a) ==
  /\ Call(a)
  /\ firing' = firing \cup {a}
  /\ start' = [start EXCEPT ![a] = Watermark]
  /\ Goto(a, "load")
  /\ UNCHANGED <<subscriptions, fired, activity, sendState, target, armed,
                 cancelled, goroutines>>

Load(a) ==
  /\ pc[a] = "load"
  /\ scan' = [scan EXCEPT ![a] = handlers]
  /\ Goto(a, "scan")
  /\ UNCHANGED <<subscriptions, fired, activity, sched, pruning, firing,
                 fireState, armed, cancelled, goroutines, calls>>

\* The flag a sender swaps when it meets h: only run-once handlers have one.
FlagOfAny(h) == {h}
FlagOf(h) == {h} \cap runOnce

\* fired.CompareAndSwap(false, true) succeeds; a plain handler always passes.
SwapIgnored(h) == TRUE
WinsSwap(h) == h \notin fired

\* One turn of the loop over the snapshot: a plain handler is scheduled, a
\* run-once handler only by the sender whose compare-and-swap succeeds.
Claim(a) ==
  /\ pc[a] = "scan"
  /\ a \notin cancelled
  /\ \E h \in scan[a] :
       /\ \A k \in scan[a] : h <= k
       /\ scan' = [scan EXCEPT ![a] = @ \ {h}]
       /\ sched' = IF WinsSwap(h) THEN [sched EXCEPT ![a] = @ \cup {h}]
                                  ELSE sched
       /\ fired' = fired \cup FlagOf(h)
       /\ pruning' = IF h \in runOnce THEN pruning \cup {a} ELSE pruning
  /\ UNCHANGED <<subscriptions, activity, pc, firing, fireState, armed,
                 cancelled, goroutines, calls>>

\* A canceled context ends the loop; what is scheduled so far is kept.
StopScanAndDrop(a) ==
  /\ pc[a] = "scan"
  /\ a \in cancelled
  /\ scan[a] # {}
  /\ scan' = [scan EXCEPT ![a] = {}]
  /\ sched' = [sched EXCEPT ![a] = {}]
  /\ UNCHANGED <<subscriptions, fired, activity, pc, pruning, firing,
                 fireState, armed, cancelled, goroutines, calls>>

StopScan(a) ==
  /\ pc[a] = "scan"
  /\ a \in cancelled
  /\ scan[a] # {}
  /\ scan' = [scan EXCEPT ![a] = {}]
  /\ UNCHANGED <<subscriptions, fired, activity, pc, sched, pruning, firing,
                 fireState, armed, cancelled, goroutines, calls>>

\* pruneFiredRunOnceHandlers, when the loop met a run-once handler.
Prune(a) ==
  /\ pc[a] = "scan"
  /\ scan[a] = {}
  /\ handlers' = IF a \in pruning THEN Unfired(handlers) ELSE handlers
  /\ pruning' = pruning \ {a}
  /\ Goto(a, "begin")
  /\ UNCHANGED <<joined, runOnce, fired, activity, scan, sched, firing,
                 fireState, armed, cancelled, goroutines, calls>>

\* The end of a channel call: control returns to the publisher, or to the
\* callback the dispatch goroutine is running.
Leave(a) ==
  /\ firing' = firing \ {a}
  /\ cancelled' = cancelled \ {a}
  /\ armed' = armed \ {a}
  /\ start' = [start EXCEPT ![a] = 0]
  /\ target' = [target EXCEPT ![a] = 0]
  /\ Goto(a, "idle")

\* Nothing was scheduled: no goroutine is started.
BeginNothing(a) ==
  /\ pc[a] = "begin"
  /\ sched[a] = {}
  /\ IF a \in firing
     THEN Goto(a, "await") /\ UNCHANGED <<firing, cancelled, armed, fireState>>
     ELSE Leave(a)
  /\ UNCHANGED <<subscriptions, fired, activity, sendState, goroutines, calls>>

\* activity.begin, wg.Add and the go statement.
Begin(a) ==
  /\ pc[a] = "begin"
  /\ sched[a] # {}
  /\ next + 1 \in Dispatch
  /\ next' = next + 1
  /\ outstanding' = outstanding \cup {next + 1}
  /\ body' = [body EXCEPT ![next + 1] = sched[a]]
  /\ todo' = [todo EXCEPT ![next + 1] = sched[a]]
  /\ sched' = [sched EXCEPT ![a] = {}]
  /\ pc' = [pc EXCEPT ![a] = IF a \in firing THEN "await" ELSE "idle",
                      ![next + 1] = "loop"]
  /\ cancelled' = IF a \in firing THEN cancelled ELSE cancelled \ {a}
  /\ UNCHANGED <<subscriptions, fired, scan, pruning, firing, fireState,
                 armed, calls>>
-----------------------------------------------------------------------------
(***************************************************************************)
(* waitQuiescentAfter.  The activity lock is held from one check to the    *)
(* next cond.Wait, so a check and the decision it leads to are one step.   *)
(***************************************************************************)
Pending(low, high) == {s \in outstanding : s > low /\ s <= high}

\* The loop as it runs with the lock held and target t: a drained target is
\* replaced by the current next, and only a drained next ends the wait.
CheckTargetOnly(a, t) ==
  IF a \in cancelled \/ Pending(start[a], t) = {}
  THEN Leave(a)
  ELSE /\ Goto(a, "asleep")
       /\ target' = [target EXCEPT ![a] = t]
       /\ armed' = armed \cup ({a} \cap Cancellable)
       /\ UNCHANGED <<firing, cancelled, start>>

CheckQuiescence(a, t) ==
  LET goal == IF Pending(start[a], t) = {} THEN next ELSE t
  IN  IF a \in cancelled \/ Pending(start[a], goal) = {}
      THEN Leave(a)
      ELSE /\ Goto(a, "asleep")
           /\ target' = [target EXCEPT ![a] = goal]
           /\ armed' = armed \cup ({a} \cap Cancellable)
           /\ UNCHANGED <<firing, cancelled, start>>

Await(a) ==
  /\ pc[a] = "await"
  /\ CheckQuiescence(a, next)
  /\ UNCHANGED <<subscriptions, fired, activity, sendState, goroutines, calls>>

Recheck(a) ==
  /\ pc[a] = "woken"
  /\ CheckQuiescence(a, target[a])
  /\ UNCHANGED <<subscriptions, fired, activity, sendState, goroutines, calls>>

\* cond.Broadcast: every goroutine in cond.Wait will check again.
NeverWoken(point) == point
Woken(point) == IF point = "asleep" THEN "woken" ELSE point

\* The context of a's call becomes done; its AfterFunc then broadcasts from a
\* goroutine of its own.
Cancel(a) ==
  /\ a \in Cancellable \ cancelled
  /\ pc[a] \in InSend \cup InQuiescenceWait
  /\ cancelled' = cancelled \cup {a}
  /\ UNCHANGED <<subscriptions, fired, activity, pc, sendState, firing,
                 fireState, armed, goroutines, calls>>

CancelWakeup(a) ==
  /\ a \in armed \cap cancelled
  /\ armed' = armed \ {a}
  /\ pc' = [b \in Actors |-> Woken(pc[b])]
  /\ UNCHANGED <<subscriptions, fired, activity, sendState, firing,
                 fireState, cancelled, goroutines, calls>>
-----------------------------------------------------------------------------
(***************************************************************************)
(* WaitForChannel: wg.Wait.                                                *)
(***************************************************************************)
WaitForChannel(a) ==
  /\ a \in Waiters
  /\ pc[a] = "idle"
  /\ calls < MaxCalls
  /\ calls' = calls + 1
  /\ Goto(a, "waiting")
  /\ UNCHANGED <<subscriptions, fired, activity, sendState, firing, fireState,
                 armed, cancelled, goroutines>>

WaitDone(a) ==
  /\ pc[a] = "waiting"
  /\ Running = {}
  /\ Goto(a, "idle")
  /\ UNCHANGED <<subscriptions, fired, activity, sendState, firing, fireState,
                 armed, cancelled, goroutines, calls>>
-----------------------------------------------------------------------------
(***************************************************************************)
(* The dispatch goroutine, sendMessageToHandlers: it calls its handlers    *)
(* one after the other; the deferred wg.Done runs before activity.end.     *)
(***************************************************************************)
EnterHandler(d) ==
  /\ pc[d] = "loop"
  /\ todo[d] # {}
  /\ Goto(d, "idle")
  /\ UNCHANGED <<subscriptions, fired, activity, sendState, firing, fireState,
                 armed, cancelled, goroutines, calls>>

ReturnFromHandler(d) ==
  /\ pc[d] = "idle"
  /\ \E h \in todo[d] :
       /\ \A k \in todo[d] : h <= k
       /\ todo' = [todo EXCEPT ![d] = @ \ {h}]
  /\ Goto(d, "loop")
  /\ UNCHANGED <<subscriptions, fired, activity, sendState, firing, fireState,
                 armed, cancelled, body, calls>>

FinishDispatch(d) ==
  /\ pc[d] = "loop"
  /\ todo[d] = {}
  /\ Goto(d, "ending")
  /\ UNCHANGED <<subscriptions, fired, activity, sendState, firing, fireState,
                 armed, cancelled, goroutines, calls>>

EndDispatch(d) ==
  /\ pc[d] = "ending"
  /\ outstanding' = outstanding \ {d}
  /\ pc' = [b \in Actors |-> IF b = d THEN "ended" ELSE Woken(pc[b])]
  /\ UNCHANGED <<subscriptions, fired, next, sendState, firing, fireState,
                 armed, cancelled, goroutines, calls>>
-----------------------------------------------------------------------------
\* The steps the code takes on its own once a call has been made.
Progress(a) ==
  \/ Load(a) \/ Claim(a) \/ StopScan(a) \/ Prune(a)
  \/ BeginNothing(a) \/ Begin(a)
  \/ Await(a) \/ Recheck(a) \/ CancelWakeup(a) \/ WaitDone(a)

GoroutineStep(d) ==
  \/ EnterHandler(d) \/ ReturnFromHandler(d)
  \/ FinishDispatch(d) \/ EndDispatch(d)

Next ==
  \/ \E once \in BOOLEAN : Subscribe(once)
  \/ \E h \in Handlers : Unsubscribe(h)
  \/ \E a \in Actors : Send(a) \/ Fire(a) \/ WaitForChannel(a) \/ Cancel(a)
  \/ \E a \in Actors : Progress(a)
  \/ \E d \in Dispatch : GoroutineStep(d)

Spec == Init /\ [][Next]_vars

(***************************************************************************)
(* The Go scheduler runs every goroutine that can run, and a callback      *)
(* returns once its own calls have: nothing else is assumed.               *)
(***************************************************************************)
Fairness ==
  /\ \A a \in Actors : WF_vars(Progress(a))
  /\ \A d \in Dispatch : WF_vars(GoroutineStep(d))

FairSpec == Spec /\ Fairness
-----------------------------------------------------------------------------
(***************************************************************************)
(* Properties.                                                             *)
(***************************************************************************)
TypeOK ==
  /\ joined \in Nat
  /\ runOnce \subseteq Handlers
  /\ handlers \subseteq Handlers
  /\ fired \subseteq runOnce
  /\ next \in Nat
  /\ outstanding \subseteq Dispatch
  /\ pc \in [Actors -> Control]
  /\ scan \in [Actors -> SUBSET Handlers]
  /\ sched \in [Actors -> SUBSET Handlers]
  /\ pruning \subseteq Actors
  /\ firing \subseteq Actors
  /\ start \in [Actors -> Nat]
  /\ target \in [Actors -> Nat]
  /\ armed \subseteq Actors
  /\ cancelled \subseteq Actors
  /\ body \in [Dispatch -> SUBSET Handlers]
  /\ todo \in [Dispatch -> SUBSET Handlers]
  /\ calls \in Nat

\* A run-once handler is handed to at most one dispatch, whatever the senders
\* that race on its compare-and-swap do (dispatchContext).
RunOnceAtMostOnce ==
  \A h \in runOnce :
    /\ \A a, b \in Actors : h \in sched[a] \cap sched[b] => a = b
    /\ \A d, e \in Dispatch : h \in body[d] \cap body[e] => d = e
    /\ \A a \in Actors, d \in Dispatch : h \notin sched[a] \cap body[d]

\* A fired run-once handler is still in the handler list only while a sender
\* that saw it is about to prune the list ("the channel removes the handler
\* after the next message sent to that channel", channel_manager.go).
FiredIsPruned ==
  handlers \cap fired # {} => \E a \in pruning : pc[a] = "scan"

\* A FireContext issued from inside a callback never waits for the dispatch it
\* runs in, nor for an older one: waits only go from a dispatch to later ones,
\* so nested fires cannot wait for each other in a circle.
NestedFireWaitsUpward ==
  \A d \in Dispatch \cap firing : d <= start[d]

\* FireContext returns nil only in a state where every dispatch begun after
\* its watermark, its own included, has returned from all its callbacks.
FireNilMeansQuiescent ==
  [][\A a \in Actors :
       (a \in firing /\ a \notin firing' /\ a \notin cancelled)
         => \A d \in Dispatch : d > start[a] => pc[d] \in {"unborn", "ended"}
    ]_vars

\* With finitely many calls, every Send, FireContext and WaitForChannel returns:
\* no wakeup of the activity's condition variable is lost.
CallsReturn ==
  \A a \in Actors : pc[a] \in InCall ~> pc[a] = "idle"

\* A run-once handler whose flag was swapped is called and returns, even when
\* the send that claimed it is canceled meanwhile.
FiredIsDelivered ==
  \A h \in 1 .. MaxHandlers :
    h \in fired ~> \E d \in Dispatch : h \in body[d] \ todo[d]
=============================================================================
