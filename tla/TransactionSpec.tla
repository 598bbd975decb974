-------------------------- MODULE TransactionSpec ---------------------------
(***************************************************************************)
(* What a bus transaction promises (the comments of bus/tx/transaction.go  *)
(* on Transaction and on its two types): it collects one response for each *)
(* of its requests and then completes, or it aborts, and whatever it has   *)
(* reached it keeps.  A synchronous transaction is answered in the order   *)
(* of its requests.                                                        *)
(***************************************************************************)
EXTENDS Naturals

CONSTANTS
  MaxRequests,  \* bound: how many requests a transaction is given
  Type          \* "SyncTransaction" or "AsyncTransaction"

VARIABLES
  size,         \* number of requests
  status,       \* what has become of the transaction
  answered      \* requests whose response is in

specVars == <<size, status, answered>>

Requests == 1 .. size

Init ==
  /\ size = 0
  /\ status = "uncommitted"
  /\ answered = {}

Add ==
  /\ status = "uncommitted"
  /\ size < MaxRequests
  /\ size' = size + 1
  /\ UNCHANGED <<status, answered>>

Commit ==
  /\ status = "uncommitted"
  /\ size > 0
  /\ status' = "committed"
  /\ UNCHANGED <<size, answered>>

Answer(r) ==
  /\ status = "committed"
  /\ r \in Requests \ answered
  /\ Type = "SyncTransaction" => \A q \in Requests : q < r => q \in answered
  /\ answered' = answered \cup {r}
  /\ status' = IF answered' = Requests THEN "completed" ELSE "committed"
  /\ UNCHANGED size

Abort ==
  /\ status = "committed"
  /\ status' = "aborted"
  /\ UNCHANGED <<size, answered>>

Next ==
  \/ Add
  \/ Commit
  \/ \E r \in Requests : Answer(r)
  \/ Abort

Spec == Init /\ [][Next]_specVars
=============================================================================
