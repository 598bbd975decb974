-------------------------- MODULE BusChannelProofs --------------------------
(***************************************************************************)
(* Proofs about BusChannel, for any publishers, any number of handlers and *)
(* any number of calls.                                                    *)
(***************************************************************************)
EXTENDS BusChannel, TLAPS

(***************************************************************************)
(* Type correctness.                                                       *)
(***************************************************************************)

\* Every variable of a channel keeps its type in every reachable state.
THEOREM TypeCorrect == Spec => []TypeOK
<1>1. Init => TypeOK
  BY DispatchAssumption, PublishersAssumption
  DEF Init, TypeOK, Actors, Handlers, Control, InCall, InSend, InQuiescenceWait,
      GoroutineOnly
<1>2. TypeOK /\ [Next]_vars => TypeOK'
  <2> SUFFICES ASSUME TypeOK, [Next]_vars PROVE TypeOK'
    OBVIOUS
  <2> USE DispatchAssumption
  <2>1. ASSUME NEW once \in BOOLEAN, Subscribe(once) PROVE TypeOK'
    BY <2>1 DEF TypeOK, Handlers, Actors, Control, InCall, InSend,
        InQuiescenceWait, GoroutineOnly, subscriptions, sendState, fireState, goroutines, activity, Goto, Subscribe, Unfired
  <2>2. ASSUME NEW h \in Handlers, Unsubscribe(h) PROVE TypeOK'
    BY <2>2 DEF TypeOK, Handlers, Actors, Control, InCall, InSend,
        InQuiescenceWait, GoroutineOnly, subscriptions, sendState, fireState, goroutines, activity, Goto, Unsubscribe, Unfired
  <2>3. ASSUME NEW a \in Actors, Send(a) PROVE TypeOK'
    BY <2>3 DEF TypeOK, Handlers, Actors, Control, InCall, InSend,
        InQuiescenceWait, GoroutineOnly, subscriptions, sendState, fireState, goroutines, activity, Goto, Send, Call
  <2>4. ASSUME NEW a \in Actors, Fire(a) PROVE TypeOK'
    BY <2>4 DEF TypeOK, Handlers, Actors, Control, InCall, InSend,
        InQuiescenceWait, GoroutineOnly, subscriptions, sendState, fireState, goroutines, activity, Goto, Fire, Call, Watermark
  <2>5. ASSUME NEW a \in Actors, WaitForChannel(a) PROVE TypeOK'
    BY <2>5 DEF TypeOK, Handlers, Actors, Control, InCall, InSend,
        InQuiescenceWait, GoroutineOnly, subscriptions, sendState, fireState, goroutines, activity, Goto, WaitForChannel
  <2>6. ASSUME NEW a \in Actors, Cancel(a) PROVE TypeOK'
    BY <2>6 DEF TypeOK, Handlers, Actors, Control, InCall, InSend,
        InQuiescenceWait, GoroutineOnly, subscriptions, sendState, fireState, goroutines, activity, Goto, Cancel
  <2>7. ASSUME NEW a \in Actors, Load(a) PROVE TypeOK'
    BY <2>7 DEF TypeOK, Handlers, Actors, Control, InCall, InSend,
        InQuiescenceWait, GoroutineOnly, subscriptions, sendState, fireState, goroutines, activity, Goto, Load
  <2>8. ASSUME NEW a \in Actors, Claim(a) PROVE TypeOK'
    BY <2>8 DEF TypeOK, Handlers, Actors, Control, InCall, InSend,
        InQuiescenceWait, GoroutineOnly, subscriptions, sendState, fireState, goroutines, activity, Goto, Claim, FlagOf, WinsSwap
  <2>9. ASSUME NEW a \in Actors, StopScan(a) PROVE TypeOK'
    BY <2>9 DEF TypeOK, Handlers, Actors, Control, InCall, InSend,
        InQuiescenceWait, GoroutineOnly, subscriptions, sendState, fireState, goroutines, activity, Goto, StopScan
  <2>10. ASSUME NEW a \in Actors, Prune(a) PROVE TypeOK'
    BY <2>10 DEF TypeOK, Handlers, Actors, Control, InCall, InSend,
        InQuiescenceWait, GoroutineOnly, subscriptions, sendState, fireState, goroutines, activity, Goto, Prune, Unfired
  <2>11. ASSUME NEW a \in Actors, BeginNothing(a) PROVE TypeOK'
    BY <2>11 DEF TypeOK, Handlers, Actors, Control, InCall, InSend,
        InQuiescenceWait, GoroutineOnly, subscriptions, sendState, fireState, goroutines, activity, Goto, BeginNothing, Leave
  <2>12. ASSUME NEW a \in Actors, Begin(a) PROVE TypeOK'
    BY <2>12 DEF TypeOK, Handlers, Actors, Control, InCall, InSend,
        InQuiescenceWait, GoroutineOnly, subscriptions, sendState, fireState, goroutines, activity, Goto, Begin
  <2>13. ASSUME NEW a \in Actors, Await(a) PROVE TypeOK'
    BY <2>13 DEF TypeOK, Handlers, Actors, Control, InCall, InSend,
        InQuiescenceWait, GoroutineOnly, subscriptions, sendState, fireState, goroutines, activity, Goto, Await, CheckQuiescence, Leave
  <2>14. ASSUME NEW a \in Actors, Recheck(a) PROVE TypeOK'
    BY <2>14 DEF TypeOK, Handlers, Actors, Control, InCall, InSend,
        InQuiescenceWait, GoroutineOnly, subscriptions, sendState, fireState, goroutines, activity, Goto, Recheck, CheckQuiescence, Leave
  <2>15. ASSUME NEW a \in Actors, CancelWakeup(a) PROVE TypeOK'
    BY <2>15 DEF TypeOK, Handlers, Actors, Control, InCall, InSend,
        InQuiescenceWait, GoroutineOnly, subscriptions, sendState, fireState, goroutines, activity, Goto, CancelWakeup, Woken
  <2>16. ASSUME NEW a \in Actors, WaitDone(a) PROVE TypeOK'
    BY <2>16 DEF TypeOK, Handlers, Actors, Control, InCall, InSend,
        InQuiescenceWait, GoroutineOnly, subscriptions, sendState, fireState, goroutines, activity, Goto, WaitDone
  <2>17. ASSUME NEW d \in Dispatch, EnterHandler(d) PROVE TypeOK'
    BY <2>17 DEF TypeOK, Handlers, Actors, Control, InCall, InSend,
        InQuiescenceWait, GoroutineOnly, subscriptions, sendState, fireState, goroutines, activity, Goto, EnterHandler
  <2>18. ASSUME NEW d \in Dispatch, ReturnFromHandler(d) PROVE TypeOK'
    BY <2>18 DEF TypeOK, Handlers, Actors, Control, InCall, InSend,
        InQuiescenceWait, GoroutineOnly, subscriptions, sendState, fireState, goroutines, activity, Goto, ReturnFromHandler
  <2>19. ASSUME NEW d \in Dispatch, FinishDispatch(d) PROVE TypeOK'
    BY <2>19 DEF TypeOK, Handlers, Actors, Control, InCall, InSend,
        InQuiescenceWait, GoroutineOnly, subscriptions, sendState, fireState, goroutines, activity, Goto, FinishDispatch
  <2>20. ASSUME NEW d \in Dispatch, EndDispatch(d) PROVE TypeOK'
    BY <2>20 DEF TypeOK, Handlers, Actors, Control, InCall, InSend,
        InQuiescenceWait, GoroutineOnly, subscriptions, sendState, fireState, goroutines, activity, Goto, EndDispatch, Woken
  <2>21. CASE UNCHANGED vars
    BY <2>21 DEF TypeOK, Handlers, Actors, Control, InCall, InSend,
        InQuiescenceWait, GoroutineOnly, subscriptions, sendState, fireState, goroutines, activity, Goto, vars
  <2>22. QED
    BY <2>1, <2>2, <2>3, <2>4, <2>5, <2>6, <2>7, <2>8, <2>9, <2>10, <2>11, <2>12, <2>13, <2>14, <2>15, <2>16, <2>17, <2>18, <2>19, <2>20, <2>21 DEF Next, Progress, GoroutineStep
<1>3. QED
  BY <1>1, <1>2, PTL DEF Spec
(*****************************************************************************)
(* Which goroutines exist.                                                 *)
(*****************************************************************************)

\* A dispatch goroutine exists exactly for the sequence numbers begun so far,
\* and is outstanding until it has ended.
GoroutineTracking ==
  /\ \A d \in Dispatch : d > next => pc[d] = "unborn"
  /\ \A d \in Dispatch : pc[d] \notin {"unborn", "ended"} => d \in outstanding

LEMMA GoroutinesTracked == Spec => []GoroutineTracking
<1>1. Init => GoroutineTracking
  BY PublishersAssumption DEF Init, GoroutineTracking, Actors
<1>2. TypeOK /\ GoroutineTracking /\ [Next]_vars => GoroutineTracking'
  <2> SUFFICES ASSUME TypeOK, GoroutineTracking, [Next]_vars
               PROVE  GoroutineTracking'
    OBVIOUS
  <2> USE DispatchAssumption
  <2>1. ASSUME NEW once \in BOOLEAN, Subscribe(once) PROVE GoroutineTracking'
    BY <2>1 DEF TypeOK, GoroutineTracking, Actors, subscriptions, sendState, fireState, goroutines,
        activity, Goto, Subscribe, Unfired
  <2>2. ASSUME NEW h \in Handlers, Unsubscribe(h) PROVE GoroutineTracking'
    BY <2>2 DEF TypeOK, GoroutineTracking, Actors, subscriptions, sendState, fireState, goroutines,
        activity, Goto, Unsubscribe, Unfired
  <2>3. ASSUME NEW a \in Actors, Send(a) PROVE GoroutineTracking'
    BY <2>3 DEF TypeOK, GoroutineTracking, Actors, subscriptions, sendState, fireState, goroutines,
        activity, Goto, Send, Call
  <2>4. ASSUME NEW a \in Actors, Fire(a) PROVE GoroutineTracking'
    BY <2>4 DEF TypeOK, GoroutineTracking, Actors, subscriptions, sendState, fireState, goroutines,
        activity, Goto, Fire, Call, Watermark
  <2>5. ASSUME NEW a \in Actors, WaitForChannel(a) PROVE GoroutineTracking'
    BY <2>5 DEF TypeOK, GoroutineTracking, Actors, subscriptions, sendState, fireState, goroutines,
        activity, Goto, WaitForChannel
  <2>6. ASSUME NEW a \in Actors, Cancel(a) PROVE GoroutineTracking'
    BY <2>6 DEF TypeOK, GoroutineTracking, Actors, subscriptions, sendState, fireState, goroutines,
        activity, Goto, Cancel
  <2>7. ASSUME NEW a \in Actors, Load(a) PROVE GoroutineTracking'
    BY <2>7 DEF TypeOK, GoroutineTracking, Actors, subscriptions, sendState, fireState, goroutines,
        activity, Goto, Load
  <2>8. ASSUME NEW a \in Actors, Claim(a) PROVE GoroutineTracking'
    BY <2>8 DEF TypeOK, GoroutineTracking, Actors, subscriptions, sendState, fireState, goroutines,
        activity, Goto, Claim, FlagOf, WinsSwap
  <2>9. ASSUME NEW a \in Actors, StopScan(a) PROVE GoroutineTracking'
    BY <2>9 DEF TypeOK, GoroutineTracking, Actors, subscriptions, sendState, fireState, goroutines,
        activity, Goto, StopScan
  <2>10. ASSUME NEW a \in Actors, Prune(a) PROVE GoroutineTracking'
    BY <2>10 DEF TypeOK, GoroutineTracking, Actors, subscriptions, sendState, fireState, goroutines,
        activity, Goto, Prune, Unfired
  <2>11. ASSUME NEW a \in Actors, BeginNothing(a) PROVE GoroutineTracking'
    BY <2>11 DEF TypeOK, GoroutineTracking, Actors, subscriptions, sendState, fireState, goroutines,
        activity, Goto, BeginNothing, Leave
  <2>12. ASSUME NEW a \in Actors, Begin(a) PROVE GoroutineTracking'
    BY <2>12 DEF TypeOK, GoroutineTracking, Actors, subscriptions, sendState, fireState, goroutines,
        activity, Goto, Begin
  <2>13. ASSUME NEW a \in Actors, Await(a) PROVE GoroutineTracking'
    BY <2>13 DEF TypeOK, GoroutineTracking, Actors, subscriptions, sendState, fireState, goroutines,
        activity, Goto, Await, CheckQuiescence, Leave
  <2>14. ASSUME NEW a \in Actors, Recheck(a) PROVE GoroutineTracking'
    BY <2>14 DEF TypeOK, GoroutineTracking, Actors, subscriptions, sendState, fireState, goroutines,
        activity, Goto, Recheck, CheckQuiescence, Leave
  <2>15. ASSUME NEW a \in Actors, CancelWakeup(a) PROVE GoroutineTracking'
    BY <2>15 DEF TypeOK, GoroutineTracking, Actors, subscriptions, sendState, fireState, goroutines,
        activity, Goto, CancelWakeup, Woken
  <2>16. ASSUME NEW a \in Actors, WaitDone(a) PROVE GoroutineTracking'
    BY <2>16 DEF TypeOK, GoroutineTracking, Actors, subscriptions, sendState, fireState, goroutines,
        activity, Goto, WaitDone
  <2>17. ASSUME NEW d \in Dispatch, EnterHandler(d) PROVE GoroutineTracking'
    BY <2>17 DEF TypeOK, GoroutineTracking, Actors, subscriptions, sendState, fireState, goroutines,
        activity, Goto, EnterHandler
  <2>18. ASSUME NEW d \in Dispatch, ReturnFromHandler(d) PROVE GoroutineTracking'
    BY <2>18 DEF TypeOK, GoroutineTracking, Actors, subscriptions, sendState, fireState, goroutines,
        activity, Goto, ReturnFromHandler
  <2>19. ASSUME NEW d \in Dispatch, FinishDispatch(d) PROVE GoroutineTracking'
    BY <2>19 DEF TypeOK, GoroutineTracking, Actors, subscriptions, sendState, fireState, goroutines,
        activity, Goto, FinishDispatch
  <2>20. ASSUME NEW d \in Dispatch, EndDispatch(d) PROVE GoroutineTracking'
    BY <2>20 DEF TypeOK, GoroutineTracking, Actors, subscriptions, sendState, fireState, goroutines,
        activity, Goto, EndDispatch, Woken
  <2>21. CASE UNCHANGED vars
    BY <2>21 DEF TypeOK, GoroutineTracking, Actors, subscriptions, sendState, fireState, goroutines,
        activity, Goto, vars
  <2>22. QED
    BY <2>1, <2>2, <2>3, <2>4, <2>5, <2>6, <2>7, <2>8, <2>9, <2>10, <2>11, <2>12, <2>13, <2>14, <2>15, <2>16, <2>17, <2>18, <2>19, <2>20, <2>21 DEF Next, Progress, GoroutineStep
<1>3. QED
  BY <1>1, <1>2, TypeCorrect, PTL DEF Spec

\* A FireContext issued inside a callback waits for later dispatches only.
THEOREM FireWaitsUpward == Spec => []NestedFireWaitsUpward
<1>1. Init => NestedFireWaitsUpward
  BY DEF Init, NestedFireWaitsUpward
<1>2. /\ TypeOK /\ GoroutineTracking /\ NestedFireWaitsUpward
      /\ [Next]_vars
      => NestedFireWaitsUpward'
  <2> SUFFICES ASSUME TypeOK, GoroutineTracking, NestedFireWaitsUpward,
                      [Next]_vars
               PROVE  NestedFireWaitsUpward'
    OBVIOUS
  <2> USE DispatchAssumption
  <2>1. ASSUME NEW once \in BOOLEAN, Subscribe(once) PROVE NestedFireWaitsUpward'
    BY <2>1 DEF TypeOK, GoroutineTracking,
        NestedFireWaitsUpward, Actors, subscriptions, sendState, fireState, goroutines,
        activity, Goto, Subscribe, Unfired
  <2>2. ASSUME NEW h \in Handlers, Unsubscribe(h) PROVE NestedFireWaitsUpward'
    BY <2>2 DEF TypeOK, GoroutineTracking,
        NestedFireWaitsUpward, Actors, subscriptions, sendState, fireState, goroutines,
        activity, Goto, Unsubscribe, Unfired
  <2>3. ASSUME NEW a \in Actors, Send(a) PROVE NestedFireWaitsUpward'
    BY <2>3 DEF TypeOK, GoroutineTracking,
        NestedFireWaitsUpward, Actors, subscriptions, sendState, fireState, goroutines,
        activity, Goto, Send, Call
  <2>4. ASSUME NEW a \in Actors, Fire(a) PROVE NestedFireWaitsUpward'
    BY <2>4 DEF TypeOK, GoroutineTracking,
        NestedFireWaitsUpward, Actors, subscriptions, sendState, fireState, goroutines,
        activity, Goto, Fire, Call, Watermark
  <2>5. ASSUME NEW a \in Actors, WaitForChannel(a) PROVE NestedFireWaitsUpward'
    BY <2>5 DEF TypeOK, GoroutineTracking,
        NestedFireWaitsUpward, Actors, subscriptions, sendState, fireState, goroutines,
        activity, Goto, WaitForChannel
  <2>6. ASSUME NEW a \in Actors, Cancel(a) PROVE NestedFireWaitsUpward'
    BY <2>6 DEF TypeOK, GoroutineTracking,
        NestedFireWaitsUpward, Actors, subscriptions, sendState, fireState, goroutines,
        activity, Goto, Cancel
  <2>7. ASSUME NEW a \in Actors, Load(a) PROVE NestedFireWaitsUpward'
    BY <2>7 DEF TypeOK, GoroutineTracking,
        NestedFireWaitsUpward, Actors, subscriptions, sendState, fireState, goroutines,
        activity, Goto, Load
  <2>8. ASSUME NEW a \in Actors, Claim(a) PROVE NestedFireWaitsUpward'
    BY <2>8 DEF TypeOK, GoroutineTracking,
        NestedFireWaitsUpward, Actors, subscriptions, sendState, fireState, goroutines,
        activity, Goto, Claim, FlagOf, WinsSwap
  <2>9. ASSUME NEW a \in Actors, StopScan(a) PROVE NestedFireWaitsUpward'
    BY <2>9 DEF TypeOK, GoroutineTracking,
        NestedFireWaitsUpward, Actors, subscriptions, sendState, fireState, goroutines,
        activity, Goto, StopScan
  <2>10. ASSUME NEW a \in Actors, Prune(a) PROVE NestedFireWaitsUpward'
    BY <2>10 DEF TypeOK, GoroutineTracking,
        NestedFireWaitsUpward, Actors, subscriptions, sendState, fireState, goroutines,
        activity, Goto, Prune, Unfired
  <2>11. ASSUME NEW a \in Actors, BeginNothing(a) PROVE NestedFireWaitsUpward'
    BY <2>11 DEF TypeOK, GoroutineTracking,
        NestedFireWaitsUpward, Actors, subscriptions, sendState, fireState, goroutines,
        activity, Goto, BeginNothing, Leave
  <2>12. ASSUME NEW a \in Actors, Begin(a) PROVE NestedFireWaitsUpward'
    BY <2>12 DEF TypeOK, GoroutineTracking,
        NestedFireWaitsUpward, Actors, subscriptions, sendState, fireState, goroutines,
        activity, Goto, Begin
  <2>13. ASSUME NEW a \in Actors, Await(a) PROVE NestedFireWaitsUpward'
    BY <2>13 DEF TypeOK, GoroutineTracking,
        NestedFireWaitsUpward, Actors, subscriptions, sendState, fireState, goroutines,
        activity, Goto, Await, CheckQuiescence, Leave
  <2>14. ASSUME NEW a \in Actors, Recheck(a) PROVE NestedFireWaitsUpward'
    BY <2>14 DEF TypeOK, GoroutineTracking,
        NestedFireWaitsUpward, Actors, subscriptions, sendState, fireState, goroutines,
        activity, Goto, Recheck, CheckQuiescence, Leave
  <2>15. ASSUME NEW a \in Actors, CancelWakeup(a) PROVE NestedFireWaitsUpward'
    BY <2>15 DEF TypeOK, GoroutineTracking,
        NestedFireWaitsUpward, Actors, subscriptions, sendState, fireState, goroutines,
        activity, Goto, CancelWakeup, Woken
  <2>16. ASSUME NEW a \in Actors, WaitDone(a) PROVE NestedFireWaitsUpward'
    BY <2>16 DEF TypeOK, GoroutineTracking,
        NestedFireWaitsUpward, Actors, subscriptions, sendState, fireState, goroutines,
        activity, Goto, WaitDone
  <2>17. ASSUME NEW d \in Dispatch, EnterHandler(d) PROVE NestedFireWaitsUpward'
    BY <2>17 DEF TypeOK, GoroutineTracking,
        NestedFireWaitsUpward, Actors, subscriptions, sendState, fireState, goroutines,
        activity, Goto, EnterHandler
  <2>18. ASSUME NEW d \in Dispatch, ReturnFromHandler(d) PROVE NestedFireWaitsUpward'
    BY <2>18 DEF TypeOK, GoroutineTracking,
        NestedFireWaitsUpward, Actors, subscriptions, sendState, fireState, goroutines,
        activity, Goto, ReturnFromHandler
  <2>19. ASSUME NEW d \in Dispatch, FinishDispatch(d) PROVE NestedFireWaitsUpward'
    BY <2>19 DEF TypeOK, GoroutineTracking,
        NestedFireWaitsUpward, Actors, subscriptions, sendState, fireState, goroutines,
        activity, Goto, FinishDispatch
  <2>20. ASSUME NEW d \in Dispatch, EndDispatch(d) PROVE NestedFireWaitsUpward'
    BY <2>20 DEF TypeOK, GoroutineTracking,
        NestedFireWaitsUpward, Actors, subscriptions, sendState, fireState, goroutines,
        activity, Goto, EndDispatch, Woken
  <2>21. CASE UNCHANGED vars
    BY <2>21 DEF TypeOK, GoroutineTracking,
        NestedFireWaitsUpward, Actors, subscriptions, sendState, fireState, goroutines,
        activity, Goto, vars
  <2>22. QED
    BY <2>1, <2>2, <2>3, <2>4, <2>5, <2>6, <2>7, <2>8, <2>9, <2>10, <2>11, <2>12, <2>13, <2>14, <2>15, <2>16, <2>17, <2>18, <2>19, <2>20, <2>21 DEF Next, Progress, GoroutineStep
<1>3. QED
  BY <1>1, <1>2, TypeCorrect, GoroutinesTracked, PTL DEF Spec

(*****************************************************************************)
(* FireContext.                                                            *)
(*****************************************************************************)

\* A FireContext that returns nil leaves no dispatch begun after its watermark
\* alive: the activity check it passed covered every sequence number in use.
THEOREM FireIsQuiescent == Spec => FireNilMeansQuiescent
<1> DEFINE Quiescent(a) ==
             \A d \in Dispatch : d > start[a] => pc[d] \in {"unborn", "ended"}
           NilReturn(a) == a \in firing /\ a \notin firing' /\ a \notin cancelled
<1>1. ASSUME TypeOK, GoroutineTracking, NEW a \in Actors,
             Pending(start[a], next) = {}
      PROVE  Quiescent(a)
  BY <1>1, DispatchAssumption DEF TypeOK, GoroutineTracking, Pending
<1>2. ASSUME NEW a \in Actors, NEW t, CheckQuiescence(a, t),
             a \notin cancelled, a \notin firing'
      PROVE  \/ Pending(start[a], next) = {}
             \/ a \notin firing
  BY <1>2 DEF CheckQuiescence
<1>3. ASSUME TypeOK, GoroutineTracking, [Next]_vars
      PROVE  \A a \in Actors : NilReturn(a) => Quiescent(a)
  <2> TAKE a \in Actors
  <2> HAVE NilReturn(a)
  <2>1. CASE \E b \in Actors : Await(b)
    <3>1. PICK b \in Actors : Await(b)
      BY <2>1
    <3>2. b = a /\ CheckQuiescence(a, next)
      BY <3>1 DEF Await, CheckQuiescence, Leave
    <3>3. QED
      BY <3>2, <1>1, <1>2, <1>3
  <2>2. CASE \E b \in Actors : Recheck(b)
    <3>1. PICK b \in Actors : Recheck(b)
      BY <2>2
    <3>2. b = a /\ CheckQuiescence(a, target[a])
      BY <3>1 DEF Recheck, CheckQuiescence, Leave
    <3>3. QED
      BY <3>2, <1>1, <1>2, <1>3
  <2>3. CASE \E b \in Actors : BeginNothing(b)
    BY <2>3 DEF BeginNothing, Leave
  <2>4. CASE \E b \in Actors : Fire(b)
    BY <2>4 DEF Fire
  <2>5. CASE UNCHANGED firing
    BY <2>5
  <2>6. QED
    BY <1>3, <2>1, <2>2, <2>3, <2>4, <2>5
    DEF Next, Progress, GoroutineStep, Subscribe, Unsubscribe, Send,
        WaitForChannel, Cancel, Load, Claim, StopScan, Prune, Begin,
        CancelWakeup, WaitDone, EnterHandler, ReturnFromHandler,
        FinishDispatch, EndDispatch, vars
<1>4. QED
  BY <1>3, TypeCorrect, GoroutinesTracked, PTL DEF Spec, FireNilMeansQuiescent

(*****************************************************************************)
(* Run-once handlers.                                                      *)
(*****************************************************************************)

\* A run-once handler is scheduled only after its fired flag was swapped.
ClaimedIsFired ==
  /\ \A a \in Actors : sched[a] \cap runOnce \subseteq fired
  /\ \A d \in Dispatch : body[d] \cap runOnce \subseteq fired

LEMMA ClaimsAreFired == Spec => []ClaimedIsFired
<1>1. Init => ClaimedIsFired
  BY DEF Init, ClaimedIsFired
<1>2. TypeOK /\ ClaimedIsFired /\ [Next]_vars => ClaimedIsFired'
  <2> SUFFICES ASSUME TypeOK, ClaimedIsFired, [Next]_vars
               PROVE  ClaimedIsFired'
    OBVIOUS
  <2>1. ASSUME NEW once \in BOOLEAN, Subscribe(once) PROVE ClaimedIsFired'
    BY <2>1 DEF TypeOK, ClaimedIsFired, Handlers, subscriptions, sendState, fireState, goroutines,
        activity, Goto, Subscribe, Unfired
  <2>2. ASSUME NEW h \in Handlers, Unsubscribe(h) PROVE ClaimedIsFired'
    BY <2>2 DEF TypeOK, ClaimedIsFired, Handlers, subscriptions, sendState, fireState, goroutines,
        activity, Goto, Unsubscribe, Unfired
  <2>3. ASSUME NEW a \in Actors, Send(a) PROVE ClaimedIsFired'
    BY <2>3 DEF TypeOK, ClaimedIsFired, Handlers, subscriptions, sendState, fireState, goroutines,
        activity, Goto, Send, Call
  <2>4. ASSUME NEW a \in Actors, Fire(a) PROVE ClaimedIsFired'
    BY <2>4 DEF TypeOK, ClaimedIsFired, Handlers, subscriptions, sendState, fireState, goroutines,
        activity, Goto, Fire, Call, Watermark
  <2>5. ASSUME NEW a \in Actors, WaitForChannel(a) PROVE ClaimedIsFired'
    BY <2>5 DEF TypeOK, ClaimedIsFired, Handlers, subscriptions, sendState, fireState, goroutines,
        activity, Goto, WaitForChannel
  <2>6. ASSUME NEW a \in Actors, Cancel(a) PROVE ClaimedIsFired'
    BY <2>6 DEF TypeOK, ClaimedIsFired, Handlers, subscriptions, sendState, fireState, goroutines,
        activity, Goto, Cancel
  <2>7. ASSUME NEW a \in Actors, Load(a) PROVE ClaimedIsFired'
    BY <2>7 DEF TypeOK, ClaimedIsFired, Handlers, subscriptions, sendState, fireState, goroutines,
        activity, Goto, Load
  <2>8. ASSUME NEW a \in Actors, Claim(a) PROVE ClaimedIsFired'
    BY <2>8 DEF TypeOK, ClaimedIsFired, Handlers, subscriptions, sendState, fireState, goroutines,
        activity, Goto, Claim, FlagOf, WinsSwap
  <2>9. ASSUME NEW a \in Actors, StopScan(a) PROVE ClaimedIsFired'
    BY <2>9 DEF TypeOK, ClaimedIsFired, Handlers, subscriptions, sendState, fireState, goroutines,
        activity, Goto, StopScan
  <2>10. ASSUME NEW a \in Actors, Prune(a) PROVE ClaimedIsFired'
    BY <2>10 DEF TypeOK, ClaimedIsFired, Handlers, subscriptions, sendState, fireState, goroutines,
        activity, Goto, Prune, Unfired
  <2>11. ASSUME NEW a \in Actors, BeginNothing(a) PROVE ClaimedIsFired'
    BY <2>11 DEF TypeOK, ClaimedIsFired, Handlers, subscriptions, sendState, fireState, goroutines,
        activity, Goto, BeginNothing, Leave
  <2>12. ASSUME NEW a \in Actors, Begin(a) PROVE ClaimedIsFired'
    BY <2>12 DEF TypeOK, ClaimedIsFired, Handlers, subscriptions, sendState, fireState, goroutines,
        activity, Goto, Begin
  <2>13. ASSUME NEW a \in Actors, Await(a) PROVE ClaimedIsFired'
    BY <2>13 DEF TypeOK, ClaimedIsFired, Handlers, subscriptions, sendState, fireState, goroutines,
        activity, Goto, Await, CheckQuiescence, Leave
  <2>14. ASSUME NEW a \in Actors, Recheck(a) PROVE ClaimedIsFired'
    BY <2>14 DEF TypeOK, ClaimedIsFired, Handlers, subscriptions, sendState, fireState, goroutines,
        activity, Goto, Recheck, CheckQuiescence, Leave
  <2>15. ASSUME NEW a \in Actors, CancelWakeup(a) PROVE ClaimedIsFired'
    BY <2>15 DEF TypeOK, ClaimedIsFired, Handlers, subscriptions, sendState, fireState, goroutines,
        activity, Goto, CancelWakeup, Woken
  <2>16. ASSUME NEW a \in Actors, WaitDone(a) PROVE ClaimedIsFired'
    BY <2>16 DEF TypeOK, ClaimedIsFired, Handlers, subscriptions, sendState, fireState, goroutines,
        activity, Goto, WaitDone
  <2>17. ASSUME NEW d \in Dispatch, EnterHandler(d) PROVE ClaimedIsFired'
    BY <2>17 DEF TypeOK, ClaimedIsFired, Handlers, subscriptions, sendState, fireState, goroutines,
        activity, Goto, EnterHandler
  <2>18. ASSUME NEW d \in Dispatch, ReturnFromHandler(d) PROVE ClaimedIsFired'
    BY <2>18 DEF TypeOK, ClaimedIsFired, Handlers, subscriptions, sendState, fireState, goroutines,
        activity, Goto, ReturnFromHandler
  <2>19. ASSUME NEW d \in Dispatch, FinishDispatch(d) PROVE ClaimedIsFired'
    BY <2>19 DEF TypeOK, ClaimedIsFired, Handlers, subscriptions, sendState, fireState, goroutines,
        activity, Goto, FinishDispatch
  <2>20. ASSUME NEW d \in Dispatch, EndDispatch(d) PROVE ClaimedIsFired'
    BY <2>20 DEF TypeOK, ClaimedIsFired, Handlers, subscriptions, sendState, fireState, goroutines,
        activity, Goto, EndDispatch, Woken
  <2>21. CASE UNCHANGED vars
    BY <2>21 DEF TypeOK, ClaimedIsFired, Handlers, subscriptions, sendState, fireState, goroutines,
        activity, Goto, vars
  <2>22. QED
    BY <2>1, <2>2, <2>3, <2>4, <2>5, <2>6, <2>7, <2>8, <2>9, <2>10, <2>11, <2>12, <2>13, <2>14, <2>15, <2>16, <2>17, <2>18, <2>19, <2>20, <2>21 DEF Next, Progress, GoroutineStep
<1>3. QED
  BY <1>1, <1>2, TypeCorrect, PTL DEF Spec

\* No run-once handler is handed to two dispatches: of the senders that meet it
\* in their snapshots, only the one that swapped its flag schedules it.
THEOREM AtMostOnce == Spec => []RunOnceAtMostOnce
<1>1. Init => RunOnceAtMostOnce
  BY DEF Init, RunOnceAtMostOnce
<1>2. TypeOK /\ ClaimedIsFired /\ RunOnceAtMostOnce /\ [Next]_vars
        => RunOnceAtMostOnce'
  <2> SUFFICES ASSUME TypeOK, ClaimedIsFired, RunOnceAtMostOnce, [Next]_vars
               PROVE  RunOnceAtMostOnce'
    OBVIOUS
  <2>1. ASSUME NEW once \in BOOLEAN, Subscribe(once) PROVE RunOnceAtMostOnce'
    BY <2>1 DEF TypeOK, ClaimedIsFired,
        RunOnceAtMostOnce, Handlers, subscriptions, sendState, fireState, goroutines,
        activity, Goto, Subscribe, Unfired
  <2>2. ASSUME NEW h \in Handlers, Unsubscribe(h) PROVE RunOnceAtMostOnce'
    BY <2>2 DEF TypeOK, ClaimedIsFired,
        RunOnceAtMostOnce, Handlers, subscriptions, sendState, fireState, goroutines,
        activity, Goto, Unsubscribe, Unfired
  <2>3. ASSUME NEW a \in Actors, Send(a) PROVE RunOnceAtMostOnce'
    BY <2>3 DEF TypeOK, ClaimedIsFired,
        RunOnceAtMostOnce, Handlers, subscriptions, sendState, fireState, goroutines,
        activity, Goto, Send, Call
  <2>4. ASSUME NEW a \in Actors, Fire(a) PROVE RunOnceAtMostOnce'
    BY <2>4 DEF TypeOK, ClaimedIsFired,
        RunOnceAtMostOnce, Handlers, subscriptions, sendState, fireState, goroutines,
        activity, Goto, Fire, Call, Watermark
  <2>5. ASSUME NEW a \in Actors, WaitForChannel(a) PROVE RunOnceAtMostOnce'
    BY <2>5 DEF TypeOK, ClaimedIsFired,
        RunOnceAtMostOnce, Handlers, subscriptions, sendState, fireState, goroutines,
        activity, Goto, WaitForChannel
  <2>6. ASSUME NEW a \in Actors, Cancel(a) PROVE RunOnceAtMostOnce'
    BY <2>6 DEF TypeOK, ClaimedIsFired,
        RunOnceAtMostOnce, Handlers, subscriptions, sendState, fireState, goroutines,
        activity, Goto, Cancel
  <2>7. ASSUME NEW a \in Actors, Load(a) PROVE RunOnceAtMostOnce'
    BY <2>7 DEF TypeOK, ClaimedIsFired,
        RunOnceAtMostOnce, Handlers, subscriptions, sendState, fireState, goroutines,
        activity, Goto, Load
  <2>8. ASSUME NEW a \in Actors, Claim(a) PROVE RunOnceAtMostOnce'
    BY <2>8 DEF TypeOK, ClaimedIsFired,
        RunOnceAtMostOnce, Handlers, subscriptions, sendState, fireState, goroutines,
        activity, Goto, Claim, FlagOf, WinsSwap
  <2>9. ASSUME NEW a \in Actors, StopScan(a) PROVE RunOnceAtMostOnce'
    BY <2>9 DEF TypeOK, ClaimedIsFired,
        RunOnceAtMostOnce, Handlers, subscriptions, sendState, fireState, goroutines,
        activity, Goto, StopScan
  <2>10. ASSUME NEW a \in Actors, Prune(a) PROVE RunOnceAtMostOnce'
    BY <2>10 DEF TypeOK, ClaimedIsFired,
        RunOnceAtMostOnce, Handlers, subscriptions, sendState, fireState, goroutines,
        activity, Goto, Prune, Unfired
  <2>11. ASSUME NEW a \in Actors, BeginNothing(a) PROVE RunOnceAtMostOnce'
    BY <2>11 DEF TypeOK, ClaimedIsFired,
        RunOnceAtMostOnce, Handlers, subscriptions, sendState, fireState, goroutines,
        activity, Goto, BeginNothing, Leave
  <2>12. ASSUME NEW a \in Actors, Begin(a) PROVE RunOnceAtMostOnce'
    BY <2>12 DEF TypeOK, ClaimedIsFired,
        RunOnceAtMostOnce, Handlers, subscriptions, sendState, fireState, goroutines,
        activity, Goto, Begin
  <2>13. ASSUME NEW a \in Actors, Await(a) PROVE RunOnceAtMostOnce'
    BY <2>13 DEF TypeOK, ClaimedIsFired,
        RunOnceAtMostOnce, Handlers, subscriptions, sendState, fireState, goroutines,
        activity, Goto, Await, CheckQuiescence, Leave
  <2>14. ASSUME NEW a \in Actors, Recheck(a) PROVE RunOnceAtMostOnce'
    BY <2>14 DEF TypeOK, ClaimedIsFired,
        RunOnceAtMostOnce, Handlers, subscriptions, sendState, fireState, goroutines,
        activity, Goto, Recheck, CheckQuiescence, Leave
  <2>15. ASSUME NEW a \in Actors, CancelWakeup(a) PROVE RunOnceAtMostOnce'
    BY <2>15 DEF TypeOK, ClaimedIsFired,
        RunOnceAtMostOnce, Handlers, subscriptions, sendState, fireState, goroutines,
        activity, Goto, CancelWakeup, Woken
  <2>16. ASSUME NEW a \in Actors, WaitDone(a) PROVE RunOnceAtMostOnce'
    BY <2>16 DEF TypeOK, ClaimedIsFired,
        RunOnceAtMostOnce, Handlers, subscriptions, sendState, fireState, goroutines,
        activity, Goto, WaitDone
  <2>17. ASSUME NEW d \in Dispatch, EnterHandler(d) PROVE RunOnceAtMostOnce'
    BY <2>17 DEF TypeOK, ClaimedIsFired,
        RunOnceAtMostOnce, Handlers, subscriptions, sendState, fireState, goroutines,
        activity, Goto, EnterHandler
  <2>18. ASSUME NEW d \in Dispatch, ReturnFromHandler(d) PROVE RunOnceAtMostOnce'
    BY <2>18 DEF TypeOK, ClaimedIsFired,
        RunOnceAtMostOnce, Handlers, subscriptions, sendState, fireState, goroutines,
        activity, Goto, ReturnFromHandler
  <2>19. ASSUME NEW d \in Dispatch, FinishDispatch(d) PROVE RunOnceAtMostOnce'
    BY <2>19 DEF TypeOK, ClaimedIsFired,
        RunOnceAtMostOnce, Handlers, subscriptions, sendState, fireState, goroutines,
        activity, Goto, FinishDispatch
  <2>20. ASSUME NEW d \in Dispatch, EndDispatch(d) PROVE RunOnceAtMostOnce'
    BY <2>20 DEF TypeOK, ClaimedIsFired,
        RunOnceAtMostOnce, Handlers, subscriptions, sendState, fireState, goroutines,
        activity, Goto, EndDispatch, Woken
  <2>21. CASE UNCHANGED vars
    BY <2>21 DEF TypeOK, ClaimedIsFired,
        RunOnceAtMostOnce, Handlers, subscriptions, sendState, fireState, goroutines,
        activity, Goto, vars
  <2>22. QED
    BY <2>1, <2>2, <2>3, <2>4, <2>5, <2>6, <2>7, <2>8, <2>9, <2>10, <2>11, <2>12, <2>13, <2>14, <2>15, <2>16, <2>17, <2>18, <2>19, <2>20, <2>21 DEF Next, Progress, GoroutineStep
<1>3. QED
  BY <1>1, <1>2, TypeCorrect, ClaimsAreFired, PTL DEF Spec

\* A fired run-once handler stays in the handler list only while one of the
\* senders that met it has still to prune the list.
THEOREM FiredHandlersArePruned == Spec => []FiredIsPruned
<1>1. Init => FiredIsPruned
  BY DEF Init, FiredIsPruned
<1>2. TypeOK /\ GoroutineTracking /\ FiredIsPruned /\ [Next]_vars
        => FiredIsPruned'
  <2> SUFFICES ASSUME TypeOK, GoroutineTracking, FiredIsPruned, [Next]_vars
               PROVE  FiredIsPruned'
    OBVIOUS
  <2> USE DispatchAssumption
  <2>1. ASSUME NEW once \in BOOLEAN, Subscribe(once) PROVE FiredIsPruned'
    BY <2>1 DEF TypeOK, GoroutineTracking, FiredIsPruned,
        Actors, Handlers, subscriptions, sendState, fireState, goroutines,
        activity, Goto, Subscribe, Unfired
  <2>2. ASSUME NEW h \in Handlers, Unsubscribe(h) PROVE FiredIsPruned'
    BY <2>2 DEF TypeOK, GoroutineTracking, FiredIsPruned,
        Actors, Handlers, subscriptions, sendState, fireState, goroutines,
        activity, Goto, Unsubscribe, Unfired
  <2>3. ASSUME NEW a \in Actors, Send(a) PROVE FiredIsPruned'
    BY <2>3 DEF TypeOK, GoroutineTracking, FiredIsPruned,
        Actors, Handlers, subscriptions, sendState, fireState, goroutines,
        activity, Goto, Send, Call
  <2>4. ASSUME NEW a \in Actors, Fire(a) PROVE FiredIsPruned'
    BY <2>4 DEF TypeOK, GoroutineTracking, FiredIsPruned,
        Actors, Handlers, subscriptions, sendState, fireState, goroutines,
        activity, Goto, Fire, Call, Watermark
  <2>5. ASSUME NEW a \in Actors, WaitForChannel(a) PROVE FiredIsPruned'
    BY <2>5 DEF TypeOK, GoroutineTracking, FiredIsPruned,
        Actors, Handlers, subscriptions, sendState, fireState, goroutines,
        activity, Goto, WaitForChannel
  <2>6. ASSUME NEW a \in Actors, Cancel(a) PROVE FiredIsPruned'
    BY <2>6 DEF TypeOK, GoroutineTracking, FiredIsPruned,
        Actors, Handlers, subscriptions, sendState, fireState, goroutines,
        activity, Goto, Cancel
  <2>7. ASSUME NEW a \in Actors, Load(a) PROVE FiredIsPruned'
    BY <2>7 DEF TypeOK, GoroutineTracking, FiredIsPruned,
        Actors, Handlers, subscriptions, sendState, fireState, goroutines,
        activity, Goto, Load
  <2>8. ASSUME NEW a \in Actors, Claim(a) PROVE FiredIsPruned'
    BY <2>8 DEF TypeOK, GoroutineTracking, FiredIsPruned,
        Actors, Handlers, subscriptions, sendState, fireState, goroutines,
        activity, Goto, Claim, FlagOf, WinsSwap
  <2>9. ASSUME NEW a \in Actors, StopScan(a) PROVE FiredIsPruned'
    BY <2>9 DEF TypeOK, GoroutineTracking, FiredIsPruned,
        Actors, Handlers, subscriptions, sendState, fireState, goroutines,
        activity, Goto, StopScan
  <2>10. ASSUME NEW a \in Actors, Prune(a) PROVE FiredIsPruned'
    BY <2>10 DEF TypeOK, GoroutineTracking, FiredIsPruned,
        Actors, Handlers, subscriptions, sendState, fireState, goroutines,
        activity, Goto, Prune, Unfired
  <2>11. ASSUME NEW a \in Actors, BeginNothing(a) PROVE FiredIsPruned'
    BY <2>11 DEF TypeOK, GoroutineTracking, FiredIsPruned,
        Actors, Handlers, subscriptions, sendState, fireState, goroutines,
        activity, Goto, BeginNothing, Leave
  <2>12. ASSUME NEW a \in Actors, Begin(a) PROVE FiredIsPruned'
    BY <2>12 DEF TypeOK, GoroutineTracking, FiredIsPruned,
        Actors, Handlers, subscriptions, sendState, fireState, goroutines,
        activity, Goto, Begin
  <2>13. ASSUME NEW a \in Actors, Await(a) PROVE FiredIsPruned'
    BY <2>13 DEF TypeOK, GoroutineTracking, FiredIsPruned,
        Actors, Handlers, subscriptions, sendState, fireState, goroutines,
        activity, Goto, Await, CheckQuiescence, Leave
  <2>14. ASSUME NEW a \in Actors, Recheck(a) PROVE FiredIsPruned'
    BY <2>14 DEF TypeOK, GoroutineTracking, FiredIsPruned,
        Actors, Handlers, subscriptions, sendState, fireState, goroutines,
        activity, Goto, Recheck, CheckQuiescence, Leave
  <2>15. ASSUME NEW a \in Actors, CancelWakeup(a) PROVE FiredIsPruned'
    BY <2>15 DEF TypeOK, GoroutineTracking, FiredIsPruned,
        Actors, Handlers, subscriptions, sendState, fireState, goroutines,
        activity, Goto, CancelWakeup, Woken
  <2>16. ASSUME NEW a \in Actors, WaitDone(a) PROVE FiredIsPruned'
    BY <2>16 DEF TypeOK, GoroutineTracking, FiredIsPruned,
        Actors, Handlers, subscriptions, sendState, fireState, goroutines,
        activity, Goto, WaitDone
  <2>17. ASSUME NEW d \in Dispatch, EnterHandler(d) PROVE FiredIsPruned'
    BY <2>17 DEF TypeOK, GoroutineTracking, FiredIsPruned,
        Actors, Handlers, subscriptions, sendState, fireState, goroutines,
        activity, Goto, EnterHandler
  <2>18. ASSUME NEW d \in Dispatch, ReturnFromHandler(d) PROVE FiredIsPruned'
    BY <2>18 DEF TypeOK, GoroutineTracking, FiredIsPruned,
        Actors, Handlers, subscriptions, sendState, fireState, goroutines,
        activity, Goto, ReturnFromHandler
  <2>19. ASSUME NEW d \in Dispatch, FinishDispatch(d) PROVE FiredIsPruned'
    BY <2>19 DEF TypeOK, GoroutineTracking, FiredIsPruned,
        Actors, Handlers, subscriptions, sendState, fireState, goroutines,
        activity, Goto, FinishDispatch
  <2>20. ASSUME NEW d \in Dispatch, EndDispatch(d) PROVE FiredIsPruned'
    BY <2>20 DEF TypeOK, GoroutineTracking, FiredIsPruned,
        Actors, Handlers, subscriptions, sendState, fireState, goroutines,
        activity, Goto, EndDispatch, Woken
  <2>21. CASE UNCHANGED vars
    BY <2>21 DEF TypeOK, GoroutineTracking, FiredIsPruned,
        Actors, Handlers, subscriptions, sendState, fireState, goroutines,
        activity, Goto, vars
  <2>22. QED
    BY <2>1, <2>2, <2>3, <2>4, <2>5, <2>6, <2>7, <2>8, <2>9, <2>10, <2>11, <2>12, <2>13, <2>14, <2>15, <2>16, <2>17, <2>18, <2>19, <2>20, <2>21 DEF Next, Progress, GoroutineStep
<1>3. QED
  BY <1>1, <1>2, TypeCorrect, GoroutinesTracked, PTL DEF Spec
=============================================================================
