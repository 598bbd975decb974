-------------------------- MODULE TransactionProofs -------------------------
(***************************************************************************)
(* Proofs about Transaction, for every number of requests and both types,  *)
(* and about the listeners it rests on (MessageHandler), further below.    *)
(***************************************************************************)
EXTENDS Transaction, MessageHandler, FiniteSetTheorems, TLAPS

\* Only requests of the transaction are executed or listened for, and nothing
\* happens before the commit.
OnlyRequests ==
  /\ \A r \in Numbers : exec[r] # "no" => r <= requests
  /\ state = "uncommitted" =>
       watcher = "none" /\ \A r \in Numbers : exec[r] = "no"
  /\ state # "uncommitted" => requests > 0

\* What a listener does follows from how far executeRequest has come.
ListenersFollow ==
  \A r \in Numbers :
    /\ exec[r] \in {"no", "pending", "setup"} => answer[r] = "none"
    /\ r \in issued => exec[r] = "over"
    /\ answer[r] \in {"waiting", "succeeding"} => exec[r] = "over"
    /\ r \in responses => answer[r] = "closed" /\ exec[r] = "over"

\* At most one goroutine is in executeRequest, and at the last request begun.
OneExecutes ==
  \A p, q \in Numbers :
    exec[p] \in {"pending", "setup", "listening"} /\ p < q => exec[q] = "no"

\* A synchronous transaction begins a request when all before are answered.
InOrder ==
  Sync => \A r \in Numbers : exec[r] # "no" =>
            \A q \in Numbers : q < r => q \in responses

IInv == TypeOK /\ OnlyRequests /\ ListenersFollow /\ OneExecutes /\ InOrder
          /\ OneOutcome /\ CompleteMeansAnswered

\* What the counter of responses says of the set of responses.
LEMMA Counting ==
  ASSUME NEW n \in Nat, NEW S \in SUBSET (1 .. n)
  PROVE  /\ Cardinality(S) \in 0 .. n
         /\ Cardinality(S) = n <=> S = 1 .. n
         /\ \A r \in (1 .. n) \ S : Cardinality(S \cup {r}) = Cardinality(S) + 1
<1>1. IsFiniteSet(1 .. n) /\ Cardinality(1 .. n) = n
  BY FS_Interval
<1>2. IsFiniteSet(S) /\ Cardinality(S) <= n /\ (Cardinality(S) = n => S = 1 .. n)
  BY <1>1, FS_Subset
<1>3. Cardinality(S) \in Nat
  BY <1>2, FS_CardinalityType
<1>4. \A r \in (1 .. n) \ S : Cardinality(S \cup {r}) = Cardinality(S) + 1
  BY <1>2, FS_AddElement
<1> QED
  BY <1>1, <1>2, <1>3, <1>4

LEMMA Initially == Init => IInv
<1> SUFFICES ASSUME Init PROVE IInv
  OBVIOUS
<1>1. TypeOK
  BY MaxRequestsAssumption DEF Init, TypeOK, Stages, Answers, Failing
<1>2. OnlyRequests /\ ListenersFollow /\ OneExecutes /\ InOrder /\ OneOutcome
  BY MaxRequestsAssumption
  DEF Init, OnlyRequests, ListenersFollow, OneExecutes, InOrder, OneOutcome
<1>3. CompleteMeansAnswered
  BY FS_EmptySet DEF Init, CompleteMeansAnswered
<1> QED
  BY <1>1, <1>2, <1>3 DEF IInv

\* executeRequest is over: what that says of the stages and of the cursor.
LEMMA ExecutedType ==
  ASSUME TypeOK, OnlyRequests, NEW r \in Numbers, exec[r] # "no", Executed(r)
  PROVE  exec' \in [Numbers -> Stages] /\ cursor' \in 0 .. requests
<1>1. {"pending", "over"} \subseteq Stages
  BY DEF Stages
<1>2. exec' \in [Numbers -> Stages]
  BY <1>1 DEF TypeOK, Executed
<1>3. cursor' \in 0 .. requests
  BY MaxRequestsAssumption DEF TypeOK, OnlyRequests, Executed, GoesOn, Numbers
<1> QED
  BY <1>2, <1>3

\* The invariant without the count of the responses is kept by every step.
LEMMA ShapeKept ==
  ASSUME TypeOK, OnlyRequests, ListenersFollow, OneExecutes, InOrder, OneOutcome,
         CompleteMeansAnswered, [Next]_vars
  PROVE  /\ TypeOK' /\ OnlyRequests' /\ ListenersFollow' /\ OneExecutes'
         /\ InOrder' /\ OneOutcome'
<1> DEFINE Shape == /\ TypeOK /\ OnlyRequests /\ ListenersFollow
                    /\ OneExecutes /\ InOrder /\ OneOutcome
<1> USE MaxRequestsAssumption DEF build, tally, outcome
<1>0. {"no", "pending", "setup", "listening", "over"} \subseteq Stages
      /\ {"none", "open", "waiting", "succeeding", "closed",
          "own", "foreign", "context"} \subseteq Answers
  BY DEF Stages, Answers, Failing
<1>1. ASSUME AddRequest PROVE Shape'
  <2>2. TypeOK'
    BY <1>1 DEF AddRequest, TypeOK
  <2>3. OnlyRequests'
    BY <1>1 DEF AddRequest, OnlyRequests, TypeOK, Numbers, Sync
  <2>4. ListenersFollow'
    BY <1>1 DEF AddRequest, ListenersFollow, TypeOK, Numbers, Sync, OnlyRequests, OneExecutes, InOrder
  <2>5. OneExecutes'
    BY <1>1 DEF AddRequest, OneExecutes, TypeOK, Numbers, Sync, OnlyRequests
  <2>6. InOrder'
    BY <1>1 DEF AddRequest, InOrder, TypeOK, Sync, OnlyRequests, Numbers
  <2>7. OneOutcome'
    BY <1>1 DEF AddRequest, OneOutcome
  <2> QED
    BY <2>2, <2>3, <2>4, <2>5, <2>6, <2>7
<1>2. ASSUME Commit PROVE Shape'
  <2>2. TypeOK'
    <3>1. watcher' \in {"none", "waiting", "over"}
      BY <1>2 DEF Commit
    <3>2. cursor' \in 0 .. requests'
      BY <1>2 DEF Commit, TypeOK
    <3>3. exec' \in [Numbers -> Stages]
      BY <1>0, <1>2 DEF Commit, TypeOK
    <3> QED
      BY <1>2, <3>1, <3>2, <3>3 DEF Commit, TypeOK
  <2>3. OnlyRequests'
    BY <1>2 DEF Commit, OnlyRequests, TypeOK, Numbers, Sync
  <2>4. ListenersFollow'
    BY <1>2 DEF Commit, ListenersFollow, TypeOK, Numbers, Sync, OnlyRequests, OneExecutes, InOrder
  <2>5. OneExecutes'
    BY <1>2 DEF Commit, OneExecutes, TypeOK, Numbers, Sync, OnlyRequests, ListenersFollow, InOrder
  <2>6. InOrder'
    BY <1>2 DEF Commit, InOrder, TypeOK, Sync, OnlyRequests, Numbers
  <2>7. OneOutcome'
    BY <1>2 DEF Commit, OneOutcome
  <2> QED
    BY <2>2, <2>3, <2>4, <2>5, <2>6, <2>7
<1>3. ASSUME Cancel PROVE Shape'
  <2>2. TypeOK'
    BY <1>3 DEF Cancel, TypeOK
  <2>3. OnlyRequests'
    BY <1>3 DEF Cancel, OnlyRequests, TypeOK
  <2>4. ListenersFollow'
    BY <1>3 DEF Cancel, ListenersFollow, TypeOK, Numbers, Sync
  <2>5. OneExecutes'
    BY <1>3 DEF Cancel, OneExecutes, TypeOK, Numbers, Sync
  <2>6. InOrder'
    BY <1>3 DEF Cancel, InOrder, TypeOK, Sync
  <2>7. OneOutcome'
    BY <1>3 DEF Cancel, OneOutcome
  <2> QED
    BY <2>2, <2>3, <2>4, <2>5, <2>6, <2>7
<1>4. ASSUME WatchContext PROVE Shape'
  <2>2. TypeOK'
    BY <1>4 DEF WatchContext, Abort, MayAbort, TypeOK, OneOutcome
  <2>3. OnlyRequests'
    BY <1>4 DEF WatchContext, Abort, MayAbort, OnlyRequests
  <2>4. ListenersFollow'
    BY <1>4 DEF WatchContext, ListenersFollow, TypeOK, Numbers, Sync
  <2>5. OneExecutes'
    BY <1>4 DEF WatchContext, OneExecutes, TypeOK, Numbers, Sync
  <2>6. InOrder'
    BY <1>4 DEF WatchContext, InOrder, TypeOK, Sync
  <2>7. OneOutcome'
    BY <1>4 DEF WatchContext, Abort, MayAbort, OneOutcome
  <2> QED
    BY <2>2, <2>3, <2>4, <2>5, <2>6, <2>7
<1>5. ASSUME NEW r \in Numbers, Execute(r) PROVE Shape'
  <2>2. TypeOK'
    BY <1>0, <1>5, ExecutedType DEF Execute, Abort, MayAbort, TypeOK, OneOutcome
  <2>3. OnlyRequests'
    BY <1>5 DEF Execute, Executed, GoesOn, Abort, MayAbort, OnlyRequests, TypeOK, Numbers, Sync
  <2>4. ListenersFollow'
    BY <1>5 DEF Execute, Executed, GoesOn, ListenersFollow, TypeOK, Numbers, Sync, OnlyRequests, OneExecutes, InOrder
  <2>5. OneExecutes'
    BY <1>5 DEF Execute, Executed, GoesOn, OneExecutes, TypeOK, Numbers, Sync, OnlyRequests
  <2>6. InOrder'
    BY <1>5 DEF Execute, Executed, GoesOn, InOrder, TypeOK, Sync, OnlyRequests, Numbers
  <2>7. OneOutcome'
    BY <1>5 DEF Execute, Abort, MayAbort, OneOutcome
  <2> QED
    BY <2>2, <2>3, <2>4, <2>5, <2>6, <2>7
<1>6. ASSUME NEW r \in Numbers, OpenListener(r) PROVE Shape'
  <2>2. TypeOK'
    BY <1>0, <1>6 DEF OpenListener, TypeOK
  <2>3. OnlyRequests'
    BY <1>6 DEF OpenListener, OnlyRequests, TypeOK
  <2>4. ListenersFollow'
    BY <1>6 DEF OpenListener, ListenersFollow, TypeOK, Numbers, Sync
  <2>5. OneExecutes'
    BY <1>6 DEF OpenListener, OneExecutes, TypeOK, Numbers, Sync
  <2>6. InOrder'
    BY <1>6 DEF OpenListener, InOrder, TypeOK, Sync
  <2>7. OneOutcome'
    BY <1>6 DEF OpenListener, OneOutcome
  <2> QED
    BY <2>2, <2>3, <2>4, <2>5, <2>6, <2>7
<1>7. ASSUME NEW r \in Numbers, SetupFails(r) PROVE Shape'
  <2>2. TypeOK'
    BY <1>0, <1>7, ExecutedType DEF SetupFails, Abort, MayAbort, TypeOK, OneOutcome
  <2>3. OnlyRequests'
    BY <1>7 DEF SetupFails, Executed, GoesOn, Abort, MayAbort, OnlyRequests, TypeOK, Numbers, Sync
  <2>4. ListenersFollow'
    BY <1>7 DEF SetupFails, Executed, GoesOn, ListenersFollow, TypeOK, Numbers, Sync, OnlyRequests, OneExecutes, InOrder
  <2>5. OneExecutes'
    BY <1>7 DEF SetupFails, Executed, GoesOn, OneExecutes, TypeOK, Numbers, Sync, OnlyRequests
  <2>6. InOrder'
    BY <1>7 DEF SetupFails, Executed, GoesOn, InOrder, TypeOK, Sync, OnlyRequests, Numbers
  <2>7. OneOutcome'
    BY <1>7 DEF SetupFails, Abort, MayAbort, OneOutcome
  <2> QED
    BY <2>2, <2>3, <2>4, <2>5, <2>6, <2>7
<1>8. ASSUME NEW r \in Numbers, SendRequest(r) PROVE Shape'
  <2>2. TypeOK'
    BY <1>0, <1>8, ExecutedType DEF SendRequest, TypeOK, OnlyRequests, Numbers
  <2>3. OnlyRequests'
    BY <1>8 DEF SendRequest, Executed, GoesOn, OnlyRequests, TypeOK, Numbers, Sync
  <2>4. ListenersFollow'
    BY <1>8 DEF SendRequest, Executed, GoesOn, ListenersFollow, TypeOK, Numbers, Sync, OnlyRequests, OneExecutes, InOrder
  <2>5. OneExecutes'
    BY <1>8 DEF SendRequest, Executed, GoesOn, OneExecutes, TypeOK, Numbers, Sync, OnlyRequests
  <2>6. InOrder'
    BY <1>8 DEF SendRequest, Executed, GoesOn, InOrder, TypeOK, Sync, OnlyRequests, Numbers
  <2>7. OneOutcome'
    BY <1>8 DEF SendRequest, OneOutcome
  <2> QED
    BY <2>2, <2>3, <2>4, <2>5, <2>6, <2>7
<1>9. ASSUME NEW r \in Numbers, SendFails(r) PROVE Shape'
  <2>2. TypeOK'
    BY <1>0, <1>9, ExecutedType DEF SendFails, Abort, MayAbort, TypeOK, OneOutcome
  <2>3. OnlyRequests'
    BY <1>9 DEF SendFails, Executed, GoesOn, Abort, MayAbort, OnlyRequests, TypeOK, Numbers, Sync
  <2>4. ListenersFollow'
    BY <1>9 DEF SendFails, Executed, GoesOn, ListenersFollow, TypeOK, Numbers, Sync, OnlyRequests, OneExecutes, InOrder
  <2>5. OneExecutes'
    BY <1>9 DEF SendFails, Executed, GoesOn, OneExecutes, TypeOK, Numbers, Sync, OnlyRequests
  <2>6. InOrder'
    BY <1>9 DEF SendFails, Executed, GoesOn, InOrder, TypeOK, Sync, OnlyRequests, Numbers
  <2>7. OneOutcome'
    BY <1>9 DEF SendFails, Abort, MayAbort, OneOutcome
  <2> QED
    BY <2>2, <2>3, <2>4, <2>5, <2>6, <2>7
<1>10. ASSUME NEW r \in Numbers, WaitForStore(r) PROVE Shape'
  <2>2. TypeOK'
    BY <1>0, <1>10, ExecutedType DEF WaitForStore, Abort, MayAbort, TypeOK, OneOutcome
  <2>3. OnlyRequests'
    BY <1>10 DEF WaitForStore, Executed, GoesOn, Abort, MayAbort, OnlyRequests, TypeOK, Numbers, Sync
  <2>4. ListenersFollow'
    BY <1>10 DEF WaitForStore, Executed, GoesOn, ListenersFollow, TypeOK, Numbers, Sync, OnlyRequests, OneExecutes, InOrder
  <2>5. OneExecutes'
    BY <1>10 DEF WaitForStore, Executed, GoesOn, OneExecutes, TypeOK, Numbers, Sync, OnlyRequests
  <2>6. InOrder'
    BY <1>10 DEF WaitForStore, Executed, GoesOn, InOrder, TypeOK, Sync, OnlyRequests, Numbers
  <2>7. OneOutcome'
    BY <1>10 DEF WaitForStore, Abort, MayAbort, OneOutcome
  <2> QED
    BY <2>2, <2>3, <2>4, <2>5, <2>6, <2>7
<1>11. ASSUME NEW r \in Numbers, Response(r) PROVE Shape'
  <2>2. TypeOK'
    BY <1>0, <1>11 DEF Response, Reach, IsOpen, TypeOK
  <2>3. OnlyRequests'
    BY <1>11 DEF Response, Reach, IsOpen, OnlyRequests, TypeOK
  <2>4. ListenersFollow'
    BY <1>11 DEF Response, Reach, IsOpen, ListenersFollow, TypeOK, Numbers, Sync
  <2>5. OneExecutes'
    BY <1>11 DEF Response, Reach, IsOpen, OneExecutes, TypeOK, Numbers, Sync
  <2>6. InOrder'
    BY <1>11 DEF Response, Reach, IsOpen, InOrder, TypeOK, Sync
  <2>7. OneOutcome'
    BY <1>11 DEF Response, Reach, OneOutcome
  <2> QED
    BY <2>2, <2>3, <2>4, <2>5, <2>6, <2>7
<1>12. ASSUME NEW r \in Numbers, OwnError(r) PROVE Shape'
  <2>2. TypeOK'
    BY <1>0, <1>12 DEF OwnError, Reach, IsOpen, TypeOK
  <2>3. OnlyRequests'
    BY <1>12 DEF OwnError, Reach, IsOpen, OnlyRequests, TypeOK
  <2>4. ListenersFollow'
    BY <1>12 DEF OwnError, Reach, IsOpen, ListenersFollow, TypeOK, Numbers, Sync
  <2>5. OneExecutes'
    BY <1>12 DEF OwnError, Reach, IsOpen, OneExecutes, TypeOK, Numbers, Sync
  <2>6. InOrder'
    BY <1>12 DEF OwnError, Reach, IsOpen, InOrder, TypeOK, Sync
  <2>7. OneOutcome'
    BY <1>12 DEF OwnError, Reach, OneOutcome
  <2> QED
    BY <2>2, <2>3, <2>4, <2>5, <2>6, <2>7
<1>13. ASSUME NEW r \in Numbers, ForeignError(r) PROVE Shape'
  <2>2. TypeOK'
    BY <1>0, <1>13 DEF ForeignError, Reach, IsOpen, TypeOK
  <2>3. OnlyRequests'
    BY <1>13 DEF ForeignError, Reach, IsOpen, OnlyRequests, TypeOK
  <2>4. ListenersFollow'
    BY <1>13 DEF ForeignError, Reach, IsOpen, ListenersFollow, TypeOK, Numbers, Sync
  <2>5. OneExecutes'
    BY <1>13 DEF ForeignError, Reach, IsOpen, OneExecutes, TypeOK, Numbers, Sync
  <2>6. InOrder'
    BY <1>13 DEF ForeignError, Reach, IsOpen, InOrder, TypeOK, Sync
  <2>7. OneOutcome'
    BY <1>13 DEF ForeignError, Reach, OneOutcome
  <2> QED
    BY <2>2, <2>3, <2>4, <2>5, <2>6, <2>7
<1>14. ASSUME NEW r \in Numbers, StoreReady(r) PROVE Shape'
  <2>2. TypeOK'
    BY <1>0, <1>14 DEF StoreReady, TypeOK
  <2>3. OnlyRequests'
    BY <1>14 DEF StoreReady, OnlyRequests, TypeOK
  <2>4. ListenersFollow'
    BY <1>14 DEF StoreReady, ListenersFollow, TypeOK, Numbers, Sync
  <2>5. OneExecutes'
    BY <1>14 DEF StoreReady, OneExecutes, TypeOK, Numbers, Sync
  <2>6. InOrder'
    BY <1>14 DEF StoreReady, InOrder, TypeOK, Sync
  <2>7. OneOutcome'
    BY <1>14 DEF StoreReady, OneOutcome
  <2> QED
    BY <2>2, <2>3, <2>4, <2>5, <2>6, <2>7
<1>15. ASSUME NEW r \in Numbers, Success(r) PROVE Shape'
  <2>0. RunNext(r) \in [Numbers -> Stages]
    BY <1>0 DEF RunNext, TypeOK
  <2>1. r \in 1 .. requests /\ r \notin responses /\ state # "completed"
        /\ completed < requests
    <3>1. r \in 1 .. requests /\ r \notin responses
      BY <1>15 DEF Success, TypeOK, ListenersFollow, OnlyRequests, Numbers
    <3>2. completed \in 0 .. requests /\ completed # requests
      BY <3>1, Counting DEF CompleteMeansAnswered, TypeOK
    <3>3. state # "completed"
      BY <3>1 DEF CompleteMeansAnswered
    <3> QED
      BY <3>1, <3>2, <3>3 DEF TypeOK
  <2>2. TypeOK'
    <3>1. answer' \in [Numbers -> Answers] /\ exec' \in [Numbers -> Stages]
      BY <1>0, <1>15, <2>0 DEF Success, TypeOK
    <3>2. responses' \subseteq 1 .. requests' /\ completed' \in 0 .. requests'
      <4>1. requests' = requests /\ requests \in Nat
        BY <1>15 DEF Success, TypeOK
      <4>2. responses' \in {responses, responses \cup {r}}
            /\ completed' \in {completed, completed + 1}
        BY <1>15 DEF Success
      <4> QED
        BY <2>1, <4>1, <4>2 DEF TypeOK
    <3>3. /\ state' \in {"uncommitted", "committed", "completed", "aborted"}
          /\ onComplete' \in 0 .. 1 /\ onError' \in 0 .. 1
          /\ cause' \in {"none", "own", "foreign", "send", "context"}
      BY <1>15, <2>1 DEF Success, TypeOK, OneOutcome
    <3> QED
      BY <1>15, <3>1, <3>2, <3>3 DEF Success, TypeOK
  <2>3. OnlyRequests'
    <3>1. exec[r] = "over" /\ state # "uncommitted"
      BY <1>15 DEF Success, OnlyRequests, ListenersFollow
    <3>2. state' # "uncommitted"
      BY <1>15, <3>1 DEF Success
    <3> QED
      BY <1>15, <2>1, <3>1, <3>2 DEF Success, RunNext, OnlyRequests, TypeOK, Numbers
  <2>4. ListenersFollow'
    BY <1>15, <2>1 DEF Success, RunNext, ListenersFollow, TypeOK, Numbers, Sync, OnlyRequests, OneExecutes, InOrder
  <2>5. OneExecutes'
    BY <1>15, <2>1 DEF Success, RunNext, OneExecutes, TypeOK, Numbers, Sync, OnlyRequests, ListenersFollow, InOrder
  <2>6. InOrder'
    BY <1>15, <2>1 DEF Success, RunNext, InOrder, TypeOK, Sync, OnlyRequests, Numbers, ListenersFollow, OneExecutes
  <2>7. OneOutcome'
    BY <1>15, <2>1 DEF Success, OneOutcome
  <2> QED
    BY <2>2, <2>3, <2>4, <2>5, <2>6, <2>7
<1>16. ASSUME NEW r \in Numbers, Failure(r) PROVE Shape'
  <2>2. TypeOK'
    BY <1>0, <1>16 DEF Failure, Abort, MayAbort, Failing, TypeOK, OneOutcome
  <2>3. OnlyRequests'
    BY <1>16 DEF Failure, Abort, MayAbort, OnlyRequests, ListenersFollow, Failing, TypeOK
  <2>4. ListenersFollow'
    BY <1>16 DEF Failure, Failing, ListenersFollow, TypeOK
  <2>5. OneExecutes'
    BY <1>16 DEF Failure, OneExecutes, TypeOK, Numbers, Sync
  <2>6. InOrder'
    BY <1>16 DEF Failure, InOrder, TypeOK, Sync
  <2>7. OneOutcome'
    BY <1>16 DEF Failure, Abort, MayAbort, OneOutcome
  <2> QED
    BY <2>2, <2>3, <2>4, <2>5, <2>6, <2>7
<1>17. ASSUME NEW r \in Numbers, CloseWithContext(r) PROVE Shape'
  <2>2. TypeOK'
    BY <1>0, <1>17 DEF CloseWithContext, IsOpen, ClosesWithContext, TypeOK
  <2>3. OnlyRequests'
    BY <1>17 DEF CloseWithContext, IsOpen, ClosesWithContext, OnlyRequests, TypeOK
  <2>4. ListenersFollow'
    BY <1>17 DEF CloseWithContext, IsOpen, ClosesWithContext, ListenersFollow, TypeOK, Numbers, Sync
  <2>5. OneExecutes'
    BY <1>17 DEF CloseWithContext, IsOpen, ClosesWithContext, OneExecutes, TypeOK, Numbers, Sync
  <2>6. InOrder'
    BY <1>17 DEF CloseWithContext, IsOpen, ClosesWithContext, InOrder, TypeOK, Sync
  <2>7. OneOutcome'
    BY <1>17 DEF CloseWithContext, OneOutcome
  <2> QED
    BY <2>2, <2>3, <2>4, <2>5, <2>6, <2>7
<1>18. CASE UNCHANGED vars
  BY <1>18
  DEF vars, TypeOK, OnlyRequests, ListenersFollow, OneExecutes, InOrder, OneOutcome
<1> QED
  BY <1>1, <1>2, <1>3, <1>4, <1>5, <1>6, <1>7, <1>8, <1>9, <1>10, <1>11, <1>12, <1>13, <1>14, <1>15, <1>16, <1>17, <1>18
  DEF Next, Internal

\* Before the commit nothing has happened.
LEMMA NothingYet ==
  ASSUME TypeOK, OnlyRequests, ListenersFollow, state = "uncommitted"
  PROVE  responses = {} /\ watcher = "none"
         /\ \A r \in Numbers : exec[r] = "no" /\ answer[r] = "none" /\ r \notin issued
<1>1. watcher = "none" /\ \A r \in Numbers : exec[r] = "no"
  BY DEF OnlyRequests
<1>2. \A r \in Numbers : answer[r] = "none" /\ r \notin issued /\ r \notin responses
  BY <1>1 DEF ListenersFollow
<1>3. responses \subseteq Numbers
  BY MaxRequestsAssumption DEF TypeOK, Numbers
<1> QED
  BY <1>1, <1>2, <1>3

\* Only a response changes the tally, and any other step but the commit leaves
\* the state or aborts.
Settles == /\ UNCHANGED <<requests, responses, completed>>
           /\ state' = state \/ (state \notin {"aborted", "completed"}
                                  /\ state' = "aborted")

LEMMA AbortSettles ==
  ASSUME NEW why, Abort(why) PROVE
    state' = state \/ (state \notin {"aborted", "completed"} /\ state' = "aborted")
BY DEF Abort, MayAbort, outcome

LEMMA OthersSettle ==
  ASSUME [Next]_vars, ~AddRequest, ~Commit, \A r \in Numbers : ~Success(r)
  PROVE  Settles
<1> USE DEF build, tally, outcome, Settles
<1>1. ASSUME Cancel \/ UNCHANGED vars PROVE Settles
  BY <1>1 DEF Cancel, vars
<1>2. ASSUME WatchContext PROVE Settles
  BY <1>2, AbortSettles DEF WatchContext
<1>3. ASSUME NEW r \in Numbers, Execute(r) PROVE Settles
  BY <1>3, AbortSettles DEF Execute
<1>4. ASSUME NEW r \in Numbers, OpenListener(r) PROVE Settles
  BY <1>4 DEF OpenListener
<1>5. ASSUME NEW r \in Numbers, SetupFails(r) PROVE Settles
  BY <1>5, AbortSettles DEF SetupFails
<1>6. ASSUME NEW r \in Numbers, SendRequest(r) PROVE Settles
  BY <1>6 DEF SendRequest
<1>7. ASSUME NEW r \in Numbers, SendFails(r) PROVE Settles
  BY <1>7, AbortSettles DEF SendFails
<1>8. ASSUME NEW r \in Numbers, WaitForStore(r) PROVE Settles
  BY <1>8, AbortSettles DEF WaitForStore
<1>9. ASSUME NEW r \in Numbers, Failure(r) PROVE Settles
  BY <1>9, AbortSettles DEF Failure
<1>10. ASSUME NEW r \in Numbers, CloseWithContext(r) PROVE Settles
  BY <1>10 DEF CloseWithContext
<1>11. ASSUME NEW r \in Numbers, Response(r) PROVE Settles
  BY <1>11 DEF Response, Reach
<1>12. ASSUME NEW r \in Numbers, OwnError(r) PROVE Settles
  BY <1>12 DEF OwnError, Reach
<1>13. ASSUME NEW r \in Numbers, ForeignError(r) PROVE Settles
  BY <1>13 DEF ForeignError, Reach
<1>14. ASSUME NEW r \in Numbers, StoreReady(r) PROVE Settles
  BY <1>14 DEF StoreReady
<1> QED
  BY <1>1, <1>2, <1>3, <1>4, <1>5, <1>6, <1>7, <1>8, <1>9, <1>10, <1>11, <1>12, <1>13, <1>14 DEF Next, Internal

\* The counter keeps agreeing with the responses, and with the state.
LEMMA CountKept ==
  ASSUME TypeOK, OnlyRequests, ListenersFollow, CompleteMeansAnswered, TypeOK',
         [Next]_vars
  PROVE  CompleteMeansAnswered'
<1> USE DEF build, tally, outcome
<1>1. CASE AddRequest
  <2>1. responses = {}
    BY <1>1, NothingYet DEF AddRequest
  <2>2. responses' = {} /\ requests' = requests + 1 /\ state' = "uncommitted"
        /\ completed' = completed
    BY <1>1, <2>1 DEF AddRequest
  <2>3. responses' # 1 .. requests'
    BY <2>2 DEF TypeOK
  <2> QED
    BY <2>1, <2>2, <2>3 DEF CompleteMeansAnswered
<1>2. CASE Commit
  <2>1. responses = {}
    BY <1>2, NothingYet DEF Commit
  <2>2. responses # 1 .. requests
    BY <1>2, <2>1 DEF Commit, TypeOK
  <2> QED
    BY <1>2, <2>2 DEF Commit, CompleteMeansAnswered
<1>3. ASSUME Settles PROVE CompleteMeansAnswered'
  BY <1>3 DEF CompleteMeansAnswered, Settles
<1>4. ASSUME NEW r \in Numbers, Success(r), state # "aborted"
      PROVE  CompleteMeansAnswered'
  <2>1. r \in 1 .. requests /\ r \notin responses /\ state # "completed"
    BY <1>4 DEF Success, TypeOK, ListenersFollow, OnlyRequests, Numbers,
                CompleteMeansAnswered
  <2>2. /\ responses' = responses \cup {r} /\ completed' = completed + 1
        /\ requests' = requests /\ requests > 0
        /\ completed + 1 = requests => state' = "completed"
        /\ completed + 1 # requests => state' = state
    <3>1. requests > 0
      BY <2>1 DEF TypeOK
    <3> QED
      BY <1>4, <3>1 DEF Success
  <2>3. completed' = Cardinality(responses')
    BY <2>1, <2>2, Counting DEF CompleteMeansAnswered, TypeOK
  <2>4. requests \in Nat /\ responses' \subseteq 1 .. requests
    BY <2>2 DEF TypeOK
  <2>5. completed' = requests <=> responses' = 1 .. requests
    BY <2>3, <2>4, Counting
  <2> QED
    BY <2>1, <2>2, <2>3, <2>5 DEF CompleteMeansAnswered
<1>5. ASSUME NEW r \in Numbers, Success(r), state = "aborted"
      PROVE  CompleteMeansAnswered'
  BY <1>3, <1>5 DEF Success, Settles
<1> QED
  BY <1>1, <1>2, <1>3, <1>4, <1>5, OthersSettle

\* The inductive invariant.
THEOREM Invariant == Spec => []IInv
<1>1. IInv /\ [Next]_vars => IInv'
  BY ShapeKept, CountKept DEF IInv
<1> QED
  BY Initially, <1>1, PTL DEF Spec

\* Every variable keeps its type.
THEOREM TypeCorrect == Spec => []TypeOK
BY Invariant, PTL DEF IInv

\* A transaction reports one outcome, once: the lock of onTransactionError and
\* onTransactionRequestSuccess decides every race.
THEOREM OutcomeIsUnique == Spec => []OneOutcome
BY Invariant, PTL DEF IInv

\* onTransactionRequestSuccess completes the transaction exactly when the slot
\* of every request is filled.
THEOREM CompletionIsExact == Spec => []CompleteMeansAnswered
BY Invariant, PTL DEF IInv

\* The requests of a SyncTransaction are sent one after the other.
THEOREM SyncIsSequential == Spec => []OneAfterTheOther
<1>1. IInv => OneAfterTheOther
  BY MaxRequestsAssumption
  DEF IInv, TypeOK, InOrder, ListenersFollow, OneAfterTheOther, Numbers
<1> QED
  BY Invariant, <1>1, PTL

\* Every step of a transaction is a step of the promise, or none of its steps:
\* in particular a decided transaction stays decided.
THEOREM Implements == Spec => KeepsPromise
<1>1. Init => Promise!Init
  BY DEF Init, Promise!Init
<1>2. IInv /\ IInv' /\ [Next]_vars => [Promise!Next]_Promise!specVars
  <2> SUFFICES ASSUME IInv, IInv', [Next]_vars
               PROVE  [Promise!Next]_Promise!specVars
    OBVIOUS
  <2> USE DEF build, tally, outcome
  <2>1. CASE AddRequest
    BY <2>1 DEF AddRequest, Promise!Next, Promise!Add
  <2>2. CASE Commit
    BY <2>2 DEF Commit, Promise!Next, Promise!Commit
  <2>3. ASSUME Settles, state # "uncommitted" \/ state' = state
        PROVE  [Promise!Next]_Promise!specVars
    BY <2>3 DEF Settles, Promise!Next, Promise!Abort, Promise!specVars, IInv, TypeOK
  <2>4. ASSUME NEW r \in Numbers, Success(r), state # "aborted"
        PROVE  \E q \in Promise!Requests : Promise!Answer(q)
    <3>1. r \in 1 .. requests /\ r \notin responses /\ state = "committed"
      BY <2>4 DEF Success, IInv, TypeOK, ListenersFollow, OnlyRequests, Numbers,
                  CompleteMeansAnswered
    <3>2. Sync => \A q \in 1 .. requests : q < r => q \in responses
      BY <2>4, MaxRequestsAssumption
      DEF Success, IInv, TypeOK, ListenersFollow, InOrder, Numbers
    <3>3. /\ responses' = responses \cup {r} /\ requests' = requests
          /\ state' = IF completed + 1 = requests THEN "completed" ELSE state
      BY <2>4 DEF Success
    <3>4. state' = "completed" <=> responses' = 1 .. requests
      <4>1. requests > 0 /\ requests' = requests
        BY <3>1, <3>3 DEF IInv, TypeOK
      <4> QED
        BY <4>1 DEF IInv, CompleteMeansAnswered
    <3>5. state' = IF responses' = 1 .. requests THEN "completed" ELSE "committed"
      BY <3>1, <3>3, <3>4
    <3> QED
      BY <3>1, <3>2, <3>3, <3>5 DEF Promise!Answer, Promise!Requests, Sync
  <2>5. ASSUME NEW r \in Numbers, Success(r), state = "aborted"
        PROVE  [Promise!Next]_Promise!specVars
    BY <2>3, <2>5 DEF Success, Settles
  <2>6. ASSUME Settles, ~AddRequest, ~Commit, \A r \in Numbers : ~Success(r),
               state = "uncommitted"
        PROVE  state' = state
    BY <2>6, NothingYet
    DEF IInv, Next, Internal, Execute, OpenListener, SetupFails, SendRequest,
        SendFails, WaitForStore, Failure, Failing, CloseWithContext, Response,
        OwnError, ForeignError, StoreReady, Reach, Cancel, WatchContext, vars
  <2> QED
    BY <2>1, <2>2, <2>3, <2>4, <2>5, <2>6, OthersSettle DEF Promise!Next
<1> QED
  BY Invariant, <1>1, <1>2, PTL DEF Spec, KeepsPromise, Promise!Spec

-----------------------------------------------------------------------------
(***************************************************************************)
(* The listeners a transaction rests on: every request opens one, for one  *)
(* response, and closes it (MessageHandler), for all listeners of whatever *)
(* kinds, and for any number of channel objects and of messages.           *)
(***************************************************************************)

\* The requests pending form a function of the callers.
FiresTyped == fire \in [Callers -> FireRecord \cup {None}]

\* A dispatch begins where the count of the dispatches begun says.
BornInOrder == \A d \in Dispatch : d > sent => phase[d] = "unborn"

HandlerTypes == HandlerTypeOK /\ FiresTyped /\ BornInOrder

\* A listener is on no channel before HandleContext has subscribed it, and has
\* no id before that has stored it.
IdComesLast ==
  \A l \in Listeners :
    /\ handling[l] = "no" => \A o \in Objects : l \notin subs[o]
    /\ handling[l] \in {"no", "subscribed"} => l \notin hasId

\* A listener that a channel holds once HandleContext is over has its id, so
\* that whoever closes it knows of the subscription.
HeldByIdOnly ==
  \A l \in Listeners, o \in Objects :
    l \in subs[o] /\ handling[l] = "done" => l \in hasId

\* Nobody can have subscribed to an object that is not made yet.
FreshIsEmpty == \A o \in Objects : o > created => subs[o] = {}

\* invokeOnce is never made ready again: whoever was called once has left it.
ReadyNeverRan == \A l \in Once : once[l] = "ready" => ran[l] = 0

Membership == IdComesLast /\ HeldByIdOnly /\ FreshIsEmpty

HandlerIInv == HandlerTypes /\ Membership /\ ClosedIsUnsubscribed /\
   ReadyNeverRan
          /\ OnceCalledOnce

LEMMA HandlerTypesInitially == HandlerInit => HandlerTypes
  BY BoundsAssumption
  DEF HandlerInit, HandlerTypes, HandlerTypeOK, FiresTyped, BornInOrder,
      Objects, Dispatch, Callers

\* What a message begins is one dispatch, and that is in its loop.
LEMMA DispatchBegins ==
  ASSUME HandlerTypes, NEW o \in Objects, NEW m, DispatchOn(o, m)
  PROVE  /\ sent' \in 0 .. MaxSends
         /\ on' \in [Dispatch -> 0 .. MaxObjects]
         /\ todo' \in [Dispatch -> SUBSET Listeners]
         /\ phase' \in [Dispatch -> {"unborn", "loop", "callback",
                                      "unsubscribe", "release", "ended"}]
         /\ BornInOrder'
         /\ busy' = busy
         /\ \A d \in Dispatch : phase[d] = "unsubscribe" => phase'[d] = phase[d]
<1> USE BoundsAssumption
    DEF HandlerTypes, HandlerTypeOK, BornInOrder, Objects, Dispatch,
        dispatchVars
<1>1. CASE subs[o] = {}
  BY <1>1 DEF DispatchOn
<1>2. CASE subs[o] # {}
  <2>1. sent + 1 \in Dispatch /\ sent' = sent + 1
    BY <1>2 DEF DispatchOn
  <2>2. todo' = [todo EXCEPT ![sent + 1] = subs[o]]
        /\ on' = [on EXCEPT ![sent + 1] = o]
        /\ phase' = [phase EXCEPT ![sent + 1] = "loop"]
        /\ busy' = busy
    BY <1>2 DEF DispatchOn
  <2>3. BornInOrder'
    BY <2>1, <2>2
  <2> QED
    BY <2>1, <2>2, <2>3
<1> QED
  BY <1>1, <1>2

LEMMA HandlerTypesKept ==
  HandlerTypes /\ [HandlerNext]_handlerVars => HandlerTypes'
<1> SUFFICES ASSUME HandlerTypes, [HandlerNext]_handlerVars PROVE HandlerTypes'
  OBVIOUS
<1> USE BoundsAssumption
    DEF HandlerTypes, HandlerTypeOK, FiresTyped, BornInOrder, Objects,
        Dispatch, Callers,
        Application
<1>1. ASSUME CreateChannel PROVE HandlerTypes'
  BY <1>1 DEF CreateChannel, channelVars, listenerVars, callVars, dispatchVars
<1>2. ASSUME DestroyChannel PROVE HandlerTypes'
  BY <1>2 DEF DestroyChannel, channelVars, listenerVars, callVars, dispatchVars
<1>3. ASSUME NEW l \in Listeners, Listen(l) PROVE HandlerTypes'
  BY <1>3 DEF Listen, channelVars, listenerVars, callVars, dispatchVars
<1>4. ASSUME NEW l \in Listeners, HandleSubscribe(l) PROVE HandlerTypes'
  BY <1>4 DEF HandleSubscribe, channelVars, listenerVars, callVars, dispatchVars
<1>5. ASSUME NEW l \in Listeners, HandleStore(l) PROVE HandlerTypes'
  BY <1>5
  DEF HandleStore, ClosedMeanwhile, channelVars, listenerVars, callVars,
      dispatchVars
<1>6. ASSUME NEW l \in Listeners, Close(l) PROVE HandlerTypes'
  BY <1>6 DEF Close, IfStored, channelVars, listenerVars, callVars, dispatchVars
<1>7. ASSUME NEW l \in Listeners, Unsubscribe(l) PROVE HandlerTypes'
  BY <1>7
  DEF Unsubscribe, DropByName, channelVars, listenerVars, callVars,
      dispatchVars
<1>8. ASSUME NEW l \in Listeners, Expire(l) PROVE HandlerTypes'
  BY <1>8 DEF Expire, channelVars, listenerVars, callVars, dispatchVars
<1>9. ASSUME NEW m \in Messages, Send(m) PROVE HandlerTypes'
  <2>1. current \in Objects
    BY <1>9 DEF Send
  <2> QED
    BY <1>9, <2>1, DispatchBegins DEF Send, channelVars, listenerVars, callVars
<1>10. ASSUME NEW c \in Callers, NEW l \in Listeners, Fire(c, l)
      PROVE  HandlerTypes'
  <2>1. object[l] \in Objects
    BY <1>10 DEF Fire
  <2>2. fire' \in [Callers -> FireRecord \cup {None}]
    BY <1>10, <2>1 DEF Fire, FireRecord
  <2>3. \A k \in Callers : fire'[k] # None => fire'[k] \in FireRecord
    BY <2>2
  <2> QED
    BY <1>10, <2>1, <2>2, <2>3, DispatchBegins
    DEF Fire, channelVars, listenerVars, callVars
<1>11. ASSUME NEW c \in Callers, FireReturns(c) PROVE HandlerTypes'
  BY <1>11 DEF FireReturns, channelVars, listenerVars, callVars, dispatchVars
<1>12. ASSUME NEW d \in Dispatch, NEW l \in Listeners, Skip(d, l)
      PROVE  HandlerTypes'
  BY <1>12 DEF Skip, Visiting, channelVars, listenerVars, callVars, dispatchVars
<1>13. ASSUME NEW d \in Dispatch, NEW l \in Listeners, CloseExpired(d, l)
      PROVE  HandlerTypes'
  BY <1>13
  DEF CloseExpired, IfStored, Visiting, channelVars, listenerVars, callVars,
      dispatchVars
<1>14. ASSUME NEW d \in Dispatch, NEW l \in Listeners, EnterCallback(d, l)
      PROVE  HandlerTypes'
  <2>1. /\ once' \in [Listeners -> {"ready", "running", "done"}]
        /\ ran' \in [Listeners -> Nat]
    BY <1>14 DEF EnterCallback
  <2>2. /\ phase' = [phase EXCEPT ![d] = "callback"]
        /\ busy' = [busy EXCEPT ![d] = l]
        /\ phase[d] = "loop"
        /\ UNCHANGED <<channelVars, listenerVars, sent, message, on, todo,
                       fire>>
    BY <1>14 DEF EnterCallback, Visiting
  <2> QED
    BY <2>1, <2>2 DEF channelVars, listenerVars
<1>15. ASSUME NEW d \in Dispatch, ReturnFromCallback(d) PROVE HandlerTypes'
  <2>1. CASE busy[d] \in Once
    <3>1. /\ closed' = closed \cup {busy[d]} /\ busy[d] \in Listeners
          /\ \E p \in {"unsubscribe", "release"} :
               phase' = [phase EXCEPT ![d] = p]
          /\ phase[d] = "callback" /\ UNCHANGED <<todo, busy>>
      BY <1>15, <2>1 DEF ReturnFromCallback, Once
    <3>2. phase' \in [Dispatch -> {"unborn", "loop", "callback", "unsubscribe",
                                   "release", "ended"}] /\ BornInOrder'
      BY <1>15, <3>1 DEF ReturnFromCallback
    <3>3. UNCHANGED <<channelVars, object, handling, hasId, closers, expired,
                      callVars, sent, message, on, fire>>
      BY <1>15 DEF ReturnFromCallback
    <3> QED
      BY <3>1, <3>2, <3>3 DEF channelVars, callVars
  <2>2. CASE busy[d] \notin Once
    <3>1. phase' = [phase EXCEPT ![d] = "loop"] /\ phase[d] = "callback"
          /\ todo' = [todo EXCEPT ![d] = @ \ {busy[d]}]
          /\ busy' = [busy EXCEPT ![d] = None]
          /\ closed' = closed
      BY <1>15, <2>2 DEF ReturnFromCallback
    <3>2. phase' \in [Dispatch -> {"unborn", "loop", "callback", "unsubscribe",
                                   "release", "ended"}] /\ BornInOrder'
      BY <1>15, <3>1 DEF ReturnFromCallback
    <3>3. todo' \in [Dispatch -> SUBSET Listeners]
          /\ busy' \in [Dispatch -> Listeners \cup {None}]
      BY <3>1
    <3>4. UNCHANGED <<channelVars, object, handling, hasId, closers, expired,
                      callVars, sent, message, on, fire>>
      BY <1>15 DEF ReturnFromCallback
    <3> QED
      BY <3>1, <3>2, <3>3, <3>4 DEF channelVars, callVars
  <2> QED
    BY <2>1, <2>2
<1>16. ASSUME NEW d \in Dispatch, UnsubscribeOnce(d) PROVE HandlerTypes'
  BY <1>16
  DEF UnsubscribeOnce, DropByName, channelVars, listenerVars, callVars,
      dispatchVars
<1>17. ASSUME NEW d \in Dispatch, ReleaseOnce(d) PROVE HandlerTypes'
  BY <1>17
  DEF ReleaseOnce, AfterDo, channelVars, listenerVars, callVars,
      dispatchVars
<1>18. ASSUME NEW d \in Dispatch, EndDispatch(d) PROVE HandlerTypes'
  BY <1>18 DEF EndDispatch, channelVars, listenerVars, callVars, dispatchVars
<1>19. CASE UNCHANGED handlerVars
  BY <1>19 DEF handlerVars, channelVars, listenerVars, callVars, dispatchVars
<1> QED
  BY <1>1, <1>2, <1>3, <1>4, <1>5, <1>6, <1>7, <1>8, <1>9, <1>10, <1>11,
     <1>12, <1>13, <1>14, <1>15, <1>16, <1>17, <1>18, <1>19
     DEF HandlerNext, Goroutine

\* Who subscribes, stores an id or is closed keeps the three parts together.
LEMMA MembershipKept ==
  HandlerTypes /\ Membership /\ [HandlerNext]_handlerVars => Membership'
<1> SUFFICES ASSUME HandlerTypes, Membership, [HandlerNext]_handlerVars
             PROVE  Membership'
  OBVIOUS
<1> USE BoundsAssumption
    DEF HandlerTypes, HandlerTypeOK, Objects, Dispatch,
        Membership, IdComesLast, HeldByIdOnly, FreshIsEmpty
<1>1. ASSUME CreateChannel PROVE Membership'
  BY <1>1 DEF CreateChannel, channelVars, listenerVars, callVars, dispatchVars
<1>2. ASSUME DestroyChannel PROVE Membership'
  BY <1>2 DEF DestroyChannel, channelVars, listenerVars, callVars, dispatchVars
<1>3. ASSUME NEW l \in Listeners, Listen(l) PROVE Membership'
  BY <1>3 DEF Listen, channelVars, listenerVars, callVars, dispatchVars
<1>4. ASSUME NEW l \in Listeners, HandleSubscribe(l) PROVE Membership'
  BY <1>4 DEF HandleSubscribe, channelVars, listenerVars, callVars, dispatchVars
<1>5. ASSUME NEW l \in Listeners, HandleStore(l) PROVE Membership'
  BY <1>5
  DEF HandleStore, ClosedMeanwhile, channelVars, listenerVars, callVars,
      dispatchVars
<1>6. ASSUME NEW l \in Listeners, Close(l) PROVE Membership'
  BY <1>6 DEF Close, IfStored, channelVars, listenerVars, callVars, dispatchVars
<1>7. ASSUME NEW l \in Listeners, Unsubscribe(l) PROVE Membership'
  BY <1>7
  DEF Unsubscribe, DropByName, channelVars, listenerVars, callVars,
      dispatchVars
<1>8. ASSUME NEW l \in Listeners, Expire(l) PROVE Membership'
  BY <1>8 DEF Expire, channelVars, listenerVars, callVars, dispatchVars
<1>9. ASSUME NEW m \in Messages, Send(m) PROVE Membership'
  BY <1>9
  DEF Send, DispatchOn, channelVars, listenerVars, callVars, dispatchVars
<1>10. ASSUME NEW c \in Callers, NEW l \in Listeners, Fire(c, l)
      PROVE  Membership'
  BY <1>10
  DEF Fire, DispatchOn, FireRecord, channelVars, listenerVars, callVars,
      dispatchVars
<1>11. ASSUME NEW c \in Callers, FireReturns(c) PROVE Membership'
  BY <1>11 DEF FireReturns, channelVars, listenerVars, callVars, dispatchVars
<1>12. ASSUME NEW d \in Dispatch, NEW l \in Listeners, Skip(d, l)
      PROVE  Membership'
  BY <1>12 DEF Skip, Visiting, channelVars, listenerVars, callVars, dispatchVars
<1>13. ASSUME NEW d \in Dispatch, NEW l \in Listeners, CloseExpired(d, l)
      PROVE  Membership'
  BY <1>13
  DEF CloseExpired, IfStored, Visiting, channelVars, listenerVars, callVars,
      dispatchVars
<1>14. ASSUME NEW d \in Dispatch, NEW l \in Listeners, EnterCallback(d, l)
      PROVE  Membership'
  BY <1>14
  DEF EnterCallback, Visiting, OnceReady, Once, channelVars, listenerVars,
      callVars, dispatchVars
<1>15. ASSUME NEW d \in Dispatch, ReturnFromCallback(d) PROVE Membership'
  BY <1>15
  DEF ReturnFromCallback, Once, channelVars, listenerVars, callVars,
      dispatchVars
<1>16. ASSUME NEW d \in Dispatch, UnsubscribeOnce(d) PROVE Membership'
  BY <1>16
  DEF UnsubscribeOnce, DropByName, channelVars, listenerVars, callVars,
      dispatchVars
<1>17. ASSUME NEW d \in Dispatch, ReleaseOnce(d) PROVE Membership'
  BY <1>17 DEF ReleaseOnce, channelVars, listenerVars, callVars, dispatchVars
<1>18. ASSUME NEW d \in Dispatch, EndDispatch(d) PROVE Membership'
  BY <1>18 DEF EndDispatch, channelVars, listenerVars, callVars, dispatchVars
<1>19. CASE UNCHANGED handlerVars
  BY <1>19 DEF handlerVars, channelVars, listenerVars, callVars, dispatchVars
<1> QED
  BY <1>1, <1>2, <1>3, <1>4, <1>5, <1>6, <1>7, <1>8, <1>9, <1>10, <1>11,
     <1>12, <1>13, <1>14, <1>15, <1>16, <1>17, <1>18, <1>19
     DEF HandlerNext, Goroutine

\* Every closer leaves an unsubscribe behind, or finds nothing to undo.
LEMMA ClosedKept ==
  HandlerTypes /\ Membership /\ ClosedIsUnsubscribed
      /\ [HandlerNext]_handlerVars
    => ClosedIsUnsubscribed'
<1> SUFFICES ASSUME HandlerTypes, Membership, ClosedIsUnsubscribed,
                    [HandlerNext]_handlerVars
             PROVE  ClosedIsUnsubscribed'
  OBVIOUS
<1> USE BoundsAssumption
    DEF HandlerTypes, HandlerTypeOK, Objects, Dispatch, Membership,
        IdComesLast, HeldByIdOnly,
        FreshIsEmpty, ClosedIsUnsubscribed, Unsubscribing
<1>1. ASSUME CreateChannel PROVE ClosedIsUnsubscribed'
  BY <1>1 DEF CreateChannel, channelVars, listenerVars, callVars, dispatchVars
<1>2. ASSUME DestroyChannel PROVE ClosedIsUnsubscribed'
  BY <1>2 DEF DestroyChannel, channelVars, listenerVars, callVars, dispatchVars
<1>3. ASSUME NEW l \in Listeners, Listen(l) PROVE ClosedIsUnsubscribed'
  BY <1>3 DEF Listen, channelVars, listenerVars, callVars, dispatchVars
<1>4. ASSUME NEW l \in Listeners, HandleSubscribe(l) PROVE ClosedIsUnsubscribed'
  BY <1>4 DEF HandleSubscribe, channelVars, listenerVars, callVars, dispatchVars
<1>5. ASSUME NEW l \in Listeners, HandleStore(l) PROVE ClosedIsUnsubscribed'
  BY <1>5
  DEF HandleStore, ClosedMeanwhile, channelVars, listenerVars, callVars,
      dispatchVars
<1>6. ASSUME NEW l \in Listeners, Close(l) PROVE ClosedIsUnsubscribed'
  BY <1>6 DEF Close, IfStored, channelVars, listenerVars, callVars, dispatchVars
<1>7. ASSUME NEW l \in Listeners, Unsubscribe(l) PROVE ClosedIsUnsubscribed'
  BY <1>7
  DEF Unsubscribe, DropByName, channelVars, listenerVars, callVars,
      dispatchVars
<1>8. ASSUME NEW l \in Listeners, Expire(l) PROVE ClosedIsUnsubscribed'
  BY <1>8 DEF Expire, channelVars, listenerVars, callVars, dispatchVars
<1>9. ASSUME NEW m \in Messages, Send(m) PROVE ClosedIsUnsubscribed'
  <2>1. current \in Objects
    BY <1>9 DEF Send
  <2> QED
    BY <1>9, <2>1, DispatchBegins DEF Send, channelVars, listenerVars, callVars
<1>10. ASSUME NEW c \in Callers, NEW l \in Listeners, Fire(c, l)
      PROVE  ClosedIsUnsubscribed'
  <2>1. object[l] \in Objects
    BY <1>10 DEF Fire
  <2> QED
    BY <1>10, <2>1, DispatchBegins DEF Fire, channelVars, listenerVars, callVars
<1>11. ASSUME NEW c \in Callers, FireReturns(c) PROVE ClosedIsUnsubscribed'
  BY <1>11 DEF FireReturns, channelVars, listenerVars, callVars, dispatchVars
<1>12. ASSUME NEW d \in Dispatch, NEW l \in Listeners, Skip(d, l)
      PROVE  ClosedIsUnsubscribed'
  BY <1>12 DEF Skip, Visiting, channelVars, listenerVars, callVars, dispatchVars
<1>13. ASSUME NEW d \in Dispatch, NEW l \in Listeners, CloseExpired(d, l)
      PROVE  ClosedIsUnsubscribed'
  BY <1>13
  DEF CloseExpired, IfStored, Visiting, channelVars, listenerVars, callVars,
      dispatchVars
<1>14. ASSUME NEW d \in Dispatch, NEW l \in Listeners, EnterCallback(d, l)
      PROVE  ClosedIsUnsubscribed'
  BY <1>14
  DEF EnterCallback, Visiting, OnceReady, Once, channelVars, listenerVars,
      callVars, dispatchVars
<1>15. ASSUME NEW d \in Dispatch, ReturnFromCallback(d)
      PROVE  ClosedIsUnsubscribed'
  <2>1. UNCHANGED <<current, subs, handling, hasId, closers>>
    BY <1>15 DEF ReturnFromCallback, channelVars
  <2>2. \A k \in Listeners : Unsubscribing(k) => Unsubscribing(k)'
    BY <1>15 DEF ReturnFromCallback
  <2>3. CASE busy[d] \in Once
    <3>1. /\ closed' = closed \cup {busy[d]}
          /\ busy' = busy /\ busy[d] \in Listeners
      BY <1>15, <2>3 DEF ReturnFromCallback, Once
    <3>2. busy[d] \in hasId => Unsubscribing(busy[d])'
      BY <1>15, <2>3, <3>1 DEF ReturnFromCallback
    <3>3. current # 0 /\ handling[busy[d]] # "subscribed"
            /\ busy[d] \notin hasId
            => busy[d] \notin subs[current]
      BY <3>1
    <3> SUFFICES ASSUME NEW k \in closed', handling'[k] # "subscribed",
                        ~Unsubscribing(k)', current' # 0
                 PROVE  k \notin subs'[current']
      BY DEF ClosedIsUnsubscribed
    <3>4. CASE k = busy[d]
      BY <2>1, <3>1, <3>2, <3>3, <3>4
    <3>5. CASE k # busy[d]
      <4>1. k \in closed /\ ~Unsubscribing(k)
        BY <2>2, <3>1, <3>5
      <4> QED
        BY <2>1, <4>1
    <3> QED
      BY <3>4, <3>5
  <2>4. CASE busy[d] \notin Once
    BY <1>15, <2>1, <2>2, <2>4 DEF ReturnFromCallback
  <2> QED
    BY <2>3, <2>4
<1>16. ASSUME NEW d \in Dispatch, UnsubscribeOnce(d) PROVE ClosedIsUnsubscribed'
  BY <1>16
  DEF UnsubscribeOnce, DropByName, channelVars, listenerVars, callVars,
      dispatchVars
<1>17. ASSUME NEW d \in Dispatch, ReleaseOnce(d) PROVE ClosedIsUnsubscribed'
  BY <1>17 DEF ReleaseOnce, channelVars, listenerVars, callVars, dispatchVars
<1>18. ASSUME NEW d \in Dispatch, EndDispatch(d) PROVE ClosedIsUnsubscribed'
  BY <1>18 DEF EndDispatch, channelVars, listenerVars, callVars, dispatchVars
<1>19. CASE UNCHANGED handlerVars
  BY <1>19 DEF handlerVars, channelVars, listenerVars, callVars, dispatchVars
<1> QED
  BY <1>1, <1>2, <1>3, <1>4, <1>5, <1>6, <1>7, <1>8, <1>9, <1>10, <1>11,
     <1>12, <1>13, <1>14, <1>15, <1>16, <1>17, <1>18, <1>19
     DEF HandlerNext, Goroutine

\* The sync.Once admits one goroutine, ever.
LEMMA OnceKept ==
  HandlerTypes /\ ReadyNeverRan /\ OnceCalledOnce /\ [HandlerNext]_handlerVars
    => ReadyNeverRan' /\ OnceCalledOnce'
<1> SUFFICES ASSUME HandlerTypes, ReadyNeverRan, OnceCalledOnce,
                    [HandlerNext]_handlerVars
             PROVE  ReadyNeverRan' /\ OnceCalledOnce'
  OBVIOUS
<1> USE DEF HandlerTypes, HandlerTypeOK, ReadyNeverRan, OnceCalledOnce, Once
<1>1. ASSUME CreateChannel PROVE ReadyNeverRan' /\ OnceCalledOnce'
  BY <1>1 DEF CreateChannel, callVars
<1>2. ASSUME DestroyChannel PROVE ReadyNeverRan' /\ OnceCalledOnce'
  BY <1>2 DEF DestroyChannel, callVars
<1>3. ASSUME NEW l \in Listeners, Listen(l)
      PROVE  ReadyNeverRan' /\ OnceCalledOnce'
  BY <1>3 DEF Listen, callVars
<1>4. ASSUME NEW l \in Listeners, HandleSubscribe(l)
      PROVE  ReadyNeverRan' /\ OnceCalledOnce'
  BY <1>4 DEF HandleSubscribe, callVars
<1>5. ASSUME NEW l \in Listeners, HandleStore(l)
      PROVE  ReadyNeverRan' /\ OnceCalledOnce'
  BY <1>5 DEF HandleStore, callVars
<1>6. ASSUME NEW l \in Listeners, Close(l)
      PROVE  ReadyNeverRan' /\ OnceCalledOnce'
  BY <1>6 DEF Close, callVars
<1>7. ASSUME NEW l \in Listeners, Unsubscribe(l)
      PROVE  ReadyNeverRan' /\ OnceCalledOnce'
  BY <1>7 DEF Unsubscribe, callVars
<1>8. ASSUME NEW l \in Listeners, Expire(l)
      PROVE  ReadyNeverRan' /\ OnceCalledOnce'
  BY <1>8 DEF Expire, callVars
<1>9. ASSUME NEW m \in Messages, Send(m) PROVE ReadyNeverRan' /\ OnceCalledOnce'
  BY <1>9 DEF Send, callVars
<1>10. ASSUME NEW c \in Callers, NEW l \in Listeners, Fire(c, l)
      PROVE  ReadyNeverRan' /\ OnceCalledOnce'
  BY <1>10 DEF Fire, callVars
<1>11. ASSUME NEW c \in Callers, FireReturns(c)
      PROVE  ReadyNeverRan' /\ OnceCalledOnce'
  BY <1>11 DEF FireReturns, callVars
<1>12. ASSUME NEW d \in Dispatch, NEW l \in Listeners, Skip(d, l)
      PROVE  ReadyNeverRan' /\ OnceCalledOnce'
  BY <1>12 DEF Skip, callVars
<1>13. ASSUME NEW d \in Dispatch, NEW l \in Listeners, CloseExpired(d, l)
      PROVE  ReadyNeverRan' /\ OnceCalledOnce'
  BY <1>13 DEF CloseExpired, callVars
<1>14. ASSUME NEW d \in Dispatch, NEW l \in Listeners, EnterCallback(d, l)
      PROVE  ReadyNeverRan' /\ OnceCalledOnce'
  BY <1>14 DEF EnterCallback, OnceReady, callVars
<1>15. ASSUME NEW d \in Dispatch, ReturnFromCallback(d)
      PROVE  ReadyNeverRan' /\ OnceCalledOnce'
  BY <1>15 DEF ReturnFromCallback, callVars
<1>16. ASSUME NEW d \in Dispatch, UnsubscribeOnce(d)
      PROVE  ReadyNeverRan' /\ OnceCalledOnce'
  BY <1>16 DEF UnsubscribeOnce, callVars
<1>17. ASSUME NEW d \in Dispatch, ReleaseOnce(d)
      PROVE  ReadyNeverRan' /\ OnceCalledOnce'
  BY <1>17 DEF ReleaseOnce, AfterDo, callVars
<1>18. ASSUME NEW d \in Dispatch, EndDispatch(d)
      PROVE  ReadyNeverRan' /\ OnceCalledOnce'
  BY <1>18 DEF EndDispatch, callVars
<1>19. CASE UNCHANGED handlerVars
  BY <1>19 DEF handlerVars, channelVars, listenerVars, callVars, dispatchVars
<1> QED
  BY <1>1, <1>2, <1>3, <1>4, <1>5, <1>6, <1>7, <1>8, <1>9, <1>10, <1>11,
     <1>12, <1>13, <1>14, <1>15, <1>16, <1>17, <1>18, <1>19
     DEF HandlerNext, Goroutine

\* What the theorems below rest on, an inductive invariant of the listeners.
THEOREM HandlerInvariant == HandlerSpec => []HandlerIInv
<1>1. HandlerInit => HandlerIInv
  BY HandlerTypesInitially
  DEF HandlerInit, HandlerIInv, Membership, IdComesLast, HeldByIdOnly,
      FreshIsEmpty,
      ClosedIsUnsubscribed, ReadyNeverRan, OnceCalledOnce, Once
<1>2. HandlerIInv /\ [HandlerNext]_handlerVars => HandlerIInv'
  BY HandlerTypesKept, MembershipKept, ClosedKept, OnceKept DEF HandlerIInv
<1> QED
  BY <1>1, <1>2, PTL DEF HandlerSpec

\* The state of the listeners, of the channel objects and of the goroutines has
\* the form the code gives it.
THEOREM HandlerTypeCorrect == HandlerSpec => []HandlerTypeOK
<1>1. HandlerIInv => HandlerTypeOK
  BY DEF HandlerIInv, HandlerTypes
<1> QED
  BY <1>1, HandlerInvariant, PTL

\* Close (message_handler.go:102-116) wins its race with HandleContext and with
\* itself: once both are over, the channel no longer holds the listener, be the
\* channel destroyed and made again in between or not.
THEOREM CloseWins == HandlerSpec => []ClosedIsUnsubscribed
<1>1. HandlerIInv => ClosedIsUnsubscribed
  BY DEF HandlerIInv
<1> QED
  BY <1>1, HandlerInvariant, PTL

\* invokeOnce lets the callback of a once-listener run for one message only, of
\* however many dispatches that hold the listener (eventbus.go, wrapper).
THEOREM OneCall == HandlerSpec => []OnceCalledOnce
<1>1. HandlerIInv => OnceCalledOnce
  BY DEF HandlerIInv
<1> QED
  BY <1>1, HandlerInvariant, PTL
=============================================================================
