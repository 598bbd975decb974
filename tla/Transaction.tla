---------------------------- MODULE Transaction -----------------------------
(***************************************************************************)
(* A bus transaction (bus/tx/transaction.go) and the traffic around it.    *)
(*                                                                         *)
(* The goroutine that commits runs executeRequest for the first request of *)
(* a synchronous transaction, or for every request of an asynchronous one  *)
(* in turn; the following requests of a synchronous transaction are run by *)
(* the goroutine that delivers the previous response.  A request opens a   *)
(* once-listener for its own fresh id, then sends.  A store request waits  *)
(* for the store to be ready.  Callbacks close the listener first and take *)
(* the transaction lock afterwards, so they are two steps.                 *)
(***************************************************************************)
EXTENDS Naturals, FiniteSets

CONSTANTS
  MaxRequests,    \* bound: how many requests the transaction is given
  Type,           \* "SyncTransaction" or "AsyncTransaction"
  StoreRequests,  \* the request numbers that wait for a store
  Channel,        \* channel of each request number
  Cancellable,    \* does the context given to CommitContext have a Done channel?
  ForeignErrors,  \* may others send errors for their own requests?
  LosesChannels   \* may a channel or a store be missing when it is looked up?

ASSUME MaxRequestsAssumption == MaxRequests \in Nat
ASSUME TypeAssumption == Type \in {"AsyncTransaction", "SyncTransaction"}

Numbers == 1 .. MaxRequests
Sync == Type = "SyncTransaction"

VARIABLES
  requests,       \* how many requests the transaction holds
  state,          \* busTransaction.state
  responses,      \* requests whose slot in responses is filled
  completed,      \* busTransaction.completedRequests
  cursor,         \* request the committing goroutine of an async one is at
  exec,           \* how far executeRequest has come for a request
  answer,         \* the listener of a request, and the callback it runs
  issued,         \* requests whose message has been sent
  context,        \* the context given to CommitContext
  watcher,        \* the goroutine that waits for the context
  cause,          \* what made the transaction abort
  onComplete,     \* how often the complete handlers were started
  onError         \* how often the error handlers were started

vars == <<requests, state, responses, completed, cursor, exec, answer, issued,
          context, watcher, cause, onComplete, onError>>
build == <<requests, watcher>>
tally == <<responses, completed>>
outcome == <<state, cause, onComplete, onError>>

Done == context = "done"

Init ==
  /\ requests = 0
  /\ state = "uncommitted"
  /\ responses = {}
  /\ completed = 0
  /\ cursor = 0
  /\ exec = [r \in Numbers |-> "no"]
  /\ answer = [r \in Numbers |-> "none"]
  /\ issued = {}
  /\ context = "live"
  /\ watcher = "none"
  /\ cause = "none"
  /\ onComplete = 0
  /\ onError = 0
-----------------------------------------------------------------------------
(***************************************************************************)
(* Building and committing.                                                *)
(***************************************************************************)
\* SendRequest and WaitForStoreReady; refused once committed.
AddRequest ==
  /\ state = "uncommitted"
  /\ requests < MaxRequests
  /\ requests' = requests + 1
  /\ UNCHANGED <<tally, outcome, cursor, exec, answer, issued, context, watcher>>

Commit ==
  /\ state = "uncommitted"
  /\ requests > 0
  /\ ~Done
  /\ state' = "committed"
  /\ watcher' = IF Cancellable THEN "waiting" ELSE "none"
  /\ cursor' = IF Sync THEN 0 ELSE 1
  /\ exec' = [exec EXCEPT ![1] = "pending"]
  /\ UNCHANGED <<requests, tally, cause, onComplete, onError, answer, issued,
                 context>>

\* onTransactionError, under the lock: the first error decides.
AbortsAnyway(why) == state # "aborted"
MayAbort(why) == state \notin {"aborted", "completed"}

Abort(why) ==
  IF MayAbort(why)
  THEN /\ state' = "aborted"
       /\ cause' = why
       /\ onError' = onError + 1
       /\ UNCHANGED onComplete
  ELSE UNCHANGED outcome
-----------------------------------------------------------------------------
(***************************************************************************)
(* executeRequest.  When it is over, the committing goroutine of an async  *)
(* transaction goes on to the next request.                                *)
(***************************************************************************)
GoesOnAlways(r) == r < requests
GoesNowhere(r) == FALSE
GoesOn(r) == ~Sync /\ r < requests

Executed(r) ==
  IF GoesOn(r)
  THEN /\ exec' = [exec EXCEPT ![r] = "over", ![r + 1] = "pending"]
       /\ cursor' = r + 1
  ELSE /\ exec' = [exec EXCEPT ![r] = "over"]
       /\ UNCHANGED cursor

\* ctx.Err() is checked first; the goroutine then goes into the set-up.
Execute(r) ==
  /\ exec[r] = "pending"
  /\ IF Done THEN Executed(r) /\ Abort("context")
             ELSE /\ exec' = [exec EXCEPT ![r] = "setup"]
                  /\ UNCHANGED <<cursor, outcome>>
  /\ UNCHANGED <<build, tally, answer, issued, context>>

\* ListenOnceForDestination, HandleContext, and the goroutine that watches the
\* context for the listener.
OpenListener(r) ==
  /\ exec[r] = "setup"
  /\ r \notin StoreRequests
  /\ answer' = [answer EXCEPT ![r] = "open"]
  /\ exec' = [exec EXCEPT ![r] = "listening"]
  /\ UNCHANGED <<build, tally, outcome, cursor, issued, context>>

\* Without the channel (or the store) there is nothing to wait for.
SetupFails(r) ==
  /\ exec[r] = "setup"
  /\ LosesChannels
  /\ Executed(r)
  /\ Abort("send")
  /\ UNCHANGED <<build, tally, answer, issued, context>>

\* SendRequestMessageContext; on failure the listener is closed.
SendRequest(r) ==
  /\ exec[r] = "listening"
  /\ ~Done
  /\ issued' = issued \cup {r}
  /\ Executed(r)
  /\ UNCHANGED <<build, tally, outcome, answer, context>>

SendFails(r) ==
  /\ exec[r] = "listening"
  /\ Done \/ LosesChannels
  /\ answer' = [answer EXCEPT ![r] = IF @ = "open" THEN "closed" ELSE @]
  /\ Executed(r)
  /\ Abort(IF Done THEN "context" ELSE "send")
  /\ UNCHANGED <<build, tally, issued, context>>

\* waitForStore: a second look at the context, then WhenReady.
WaitForStore(r) ==
  /\ exec[r] = "setup"
  /\ r \in StoreRequests
  /\ IF Done THEN UNCHANGED answer /\ Abort("context")
             ELSE /\ answer' = [answer EXCEPT ![r] = "waiting"]
                  /\ UNCHANGED outcome
  /\ Executed(r)
  /\ UNCHANGED <<build, tally, issued, context>>
-----------------------------------------------------------------------------
(***************************************************************************)
(* What reaches a listener.  It is a once-listener with the context of the *)
(* commit: one callback at most, and none when the context is done.        *)
(***************************************************************************)
Reach(r, callback) ==
  /\ answer' = [answer EXCEPT ![r] = IF Done THEN "closed" ELSE callback]
  /\ UNCHANGED <<build, tally, outcome, cursor, exec, issued, context>>

StaysOpen(r) == answer[r] \in {"open", "closed"}
IsOpen(r) == answer[r] = "open"

\* The responder answers, possibly more than once.
Response(r) ==
  /\ r \in issued
  /\ IsOpen(r)
  /\ Reach(r, "succeeding")

\* A responder of this transaction sends an error: every open listener on the
\* channel receives it.
OwnError(r) ==
  /\ \E q \in issued : Channel[q] = Channel[r]
  /\ IsOpen(r)
  /\ Reach(r, "own")

\* Somebody else's error on the same channel.
ForeignError(r) ==
  /\ ForeignErrors
  /\ IsOpen(r)
  /\ Reach(r, "foreign")

\* WhenReady calls back; the context is checked again.
StoreReady(r) ==
  /\ answer[r] = "waiting"
  /\ answer' = [answer EXCEPT ![r] = IF Done THEN "context" ELSE "succeeding"]
  /\ UNCHANGED <<build, tally, outcome, cursor, exec, issued, context>>

\* A synchronous transaction goes on to its next request.
RunNothing(r) == exec
RunNext(r) == IF Sync /\ r < requests THEN [exec EXCEPT ![r + 1] = "pending"]
                                      ELSE exec

\* onTransactionRequestSuccess, under the lock.
Success(r) ==
  /\ answer[r] = "succeeding"
  /\ answer' = [answer EXCEPT ![r] = "closed"]
  /\ IF state = "aborted"
     THEN UNCHANGED <<tally, outcome, exec>>
     ELSE /\ responses' = responses \cup {r}
          /\ completed' = completed + 1
          /\ IF completed + 1 = requests
             THEN /\ state' = "completed"
                  /\ onComplete' = onComplete + 1
                  /\ UNCHANGED <<cause, onError, exec>>
             ELSE /\ exec' = RunNext(r)
                  /\ UNCHANGED outcome
  /\ UNCHANGED <<build, cursor, issued, context>>

\* The error callback, called with its cause.
Failing == {"own", "foreign", "context"}
Failure(r) ==
  /\ answer[r] \in Failing
  /\ answer' = [answer EXCEPT ![r] = "closed"]
  /\ Abort(answer[r])
  /\ UNCHANGED <<build, tally, cursor, exec, issued, context>>
-----------------------------------------------------------------------------
(***************************************************************************)
(* The context.                                                            *)
(***************************************************************************)
Cancel ==
  /\ Cancellable
  /\ ~Done
  /\ context' = "done"
  /\ UNCHANGED <<build, tally, outcome, cursor, exec, answer, issued>>

\* The goroutine CommitContext starts to wait for the context.
WatchContext ==
  /\ watcher = "waiting" /\ Done
  /\ watcher' = "over"
  /\ Abort("context")
  /\ UNCHANGED <<requests, tally, cursor, exec, answer, issued, context>>

\* The goroutine sendRequest starts to close its listener with the context.
ClosesWithContext(r) == IsOpen(r)

CloseWithContext(r) ==
  /\ Done
  /\ ClosesWithContext(r)
  /\ answer' = [answer EXCEPT ![r] = "closed"]
  /\ UNCHANGED <<build, tally, outcome, cursor, exec, issued, context>>
-----------------------------------------------------------------------------
Internal(r) ==
  \/ Execute(r) \/ OpenListener(r) \/ SetupFails(r) \/ SendRequest(r)
  \/ SendFails(r) \/ WaitForStore(r) \/ Success(r) \/ Failure(r)
  \/ CloseWithContext(r)

Next ==
  \/ AddRequest \/ Commit \/ Cancel \/ WatchContext
  \/ \E r \in Numbers : \/ Internal(r)
                        \/ Response(r) \/ OwnError(r) \/ ForeignError(r)
                        \/ StoreReady(r)

Spec == Init /\ [][Next]_vars

\* Goroutines go on; nobody has to answer.
Fairness ==
  /\ WF_vars(WatchContext)
  /\ \A r \in Numbers : WF_vars(Internal(r))

FairSpec == Spec /\ Fairness
-----------------------------------------------------------------------------
Stages == {"no", "pending", "setup", "listening", "over"}
Answers == {"none", "open", "waiting", "succeeding", "closed"} \cup Failing

\* Every variable stays in its type, and completed requests are requests.
TypeOK ==
  /\ requests \in 0 .. MaxRequests
  /\ state \in {"uncommitted", "committed", "completed", "aborted"}
  /\ responses \subseteq 1 .. requests
  /\ completed \in 0 .. requests
  /\ cursor \in 0 .. requests
  /\ exec \in [Numbers -> Stages]
  /\ answer \in [Numbers -> Answers]
  /\ issued \subseteq 1 .. requests
  /\ context \in {"live", "done"}
  /\ watcher \in {"none", "waiting", "over"}
  /\ cause \in {"none", "own", "foreign", "send", "context"}
  /\ onComplete \in 0 .. 1
  /\ onError \in 0 .. 1

\* The complete handlers and the error handlers are started once, and never
\* both: a context, a send error, a response and an error of a responder may
\* race, the lock of the transaction decides.
OneOutcome ==
  /\ onComplete = IF state = "completed" THEN 1 ELSE 0
  /\ onError = IF state = "aborted" THEN 1 ELSE 0

\* completedRequests, a counter, says "all responses are in" exactly when every
\* slot of responses is filled: onComplete never sees an empty slot.
CompleteMeansAnswered ==
  /\ completed = Cardinality(responses)
  /\ state = "completed" <=> requests > 0 /\ responses = 1 .. requests

\* "SyncTransaction sends each request after the previous request has
\* completed" (transaction.go:23).
OneAfterTheOther ==
  Sync => \A r \in issued : \A q \in 1 .. r - 1 : q \in responses

\* If responders answer and stores become ready, a committed transaction
\* completes or aborts: the chain of executeRequest calls is never dropped.  And
\* when its context is done every listener of it is closed, for good, also one
\* that was opened at the last moment.
Decides ==
  /\ (\A r \in Numbers : WF_vars(Response(r) \/ StoreReady(r)))
       => (state = "committed" ~> state \in {"completed", "aborted"})
  /\ Done ~> [](\A r \in Numbers : answer[r] # "open")

\* A transaction implements what its comments promise.
Promise == INSTANCE TransactionSpec WITH
  size <- requests, status <- state, answered <- responses
KeepsPromise == Promise!Spec
=============================================================================
