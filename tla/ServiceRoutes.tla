---------------------------- MODULE ServiceRoutes ----------------------------
(***************************************************************************)
(* Registering services with the plank server: the registry of services    *)
(* under its lock (service/service_registry.go), and the fabric routes of  *)
(* the services under routeMu (plank/pkg/server/server.go).  A service     *)
(* that is registered before the server starts has its route pending; the  *)
(* start drains them.  RegisterService and UnregisterService take the two  *)
(* locks one after the other, so calls for one service may overtake each   *)
(* other.  The routes themselves are those of Fabric.                      *)
(***************************************************************************)
EXTENDS Naturals, Sequences, SequencesExt, FiniteSets

CONSTANTS
  Services,        \* service channels
  Calls,           \* bound: calls of the server's interface, each once
  None

ASSUME CallsAssumption == IsFiniteSet(Calls)
ASSUME NoneAssumption == None \notin Services \cup Calls

VARIABLES
  call,            \* what each call does, and how far it is
  registered,      \* registry.services
  channels,        \* service channels of the bus: they are never destroyed
  fabric,          \* the fabric endpoint: off, set, on, closing, stopped;
                   \* failing, failed: when the routes could not be drained
  pending,         \* pendingRoutes
  handles,         \* services with a handle in routeHandles
  routed,          \* services with a route in the router of the endpoint
  overtaken        \* history: services unregistered within their Register

routeVars == <<call, registered, channels, fabric, pending, handles, routed, overtaken>>

Unused == [kind |-> "unused", service |-> None, at |-> "done"]
RoutesInit ==
  /\ call = [c \in Calls |-> Unused]
  /\ registered = {} /\ channels = {}
  /\ fabric = "off"
  /\ pending = <<>> /\ handles = {} /\ routed = {}
  /\ overtaken = {}

\* A call that nobody has made yet is made.
Make(c, kind, s, at) ==
  /\ call[c] = Unused
  /\ call' = [call EXCEPT ![c] = [kind |-> kind, service |-> s, at |-> at]]
Proceed(c, at) == call' = [call EXCEPT ![c].at = at]
\* Calls for service s between their two locks.
Running(kind, s) == {c \in Calls : call[c].kind = kind /\ call[c].service = s /\ call[c].at # "done"}

CallRecord ==
  [kind : {"unused", "register", "unregister", "override", "bridge", "wrap", "unwrap"},
   service : Services \cup {None},
   at : {"done", "registered", "announced", "refused", "removed", "fetched", "checked", "written"}]
RoutesTypeOK ==
  /\ call \in [Calls -> CallRecord]
  /\ registered \subseteq channels /\ channels \subseteq Services
  /\ fabric \in {"off", "set", "on", "closing", "stopped", "failing", "failed"}
  /\ pending \in Seq(Services)
  /\ routed \subseteq handles /\ handles \subseteq Services /\ overtaken \subseteq Services
-----------------------------------------------------------------------------
(***************************************************************************)
(* RegisterService.  One that the registry refuses changes nothing.        *)
(***************************************************************************)
Register(c, s) ==
  /\ s \notin registered
  /\ Make(c, "register", s, "registered")
  /\ registered' = registered \cup {s}
  /\ channels' = channels \cup {s}
  /\ UNCHANGED <<fabric, pending, handles, routed, overtaken>>

\* The registry looks for the REST bridges of the service, if it is still
\* there, and announces them to the life-cycle channel.
Announce(c) ==
  /\ call[c].at = "registered"
  /\ Proceed(c, "announced")
  /\ UNCHANGED <<registered, channels, fabric, pending, handles, routed, overtaken>>

EndpointIsSet == fabric \notin {"off", "stopped"}
RouterIsOpen == fabric \in {"set", "on", "failing"}

PendRoute(c) ==
  /\ call[c].at = "announced"
  /\ ~EndpointIsSet
  /\ pending' = Append(pending, call[c].service)
  /\ Proceed(c, "done")
  /\ UNCHANGED <<registered, channels, fabric, handles, routed, overtaken>>

RegisterRoute(c) ==
  LET s == call[c].service
  IN  /\ call[c].at = "announced"
      /\ RouterIsOpen /\ s \notin routed
      /\ handles' = handles \cup {s}
      /\ routed' = routed \cup {s}
      /\ Proceed(c, "done")
      /\ UNCHANGED <<registered, channels, fabric, pending, overtaken>>

\* The route exists already, or the router is closed.
RefuseRoute(c) ==
  /\ call[c].at = "announced"
  /\ EndpointIsSet /\ (~RouterIsOpen \/ call[c].service \in routed)
  /\ Proceed(c, "refused")
  /\ UNCHANGED <<registered, channels, fabric, pending, handles, routed, overtaken>>

\* The service is taken out of the registry again.
Withdraw(c) ==
  /\ call[c].at = "refused"
  /\ registered' = registered \ {call[c].service}
  /\ Proceed(c, "done")
  /\ UNCHANGED <<channels, fabric, pending, handles, routed, overtaken>>
-----------------------------------------------------------------------------
(***************************************************************************)
(* UnregisterService.                                                      *)
(***************************************************************************)
Unregister(c, s) ==
  /\ s \in registered
  /\ Make(c, "unregister", s, "removed")
  /\ registered' = registered \ {s}
  /\ overtaken' = overtaken \cup {t \in {s} : Running("register", t) # {}}
  /\ UNCHANGED <<channels, fabric, pending, handles, routed>>

\* A mistake: a pending route is left.
RemoveHandleOnly(c) ==
  LET s == call[c].service
  IN  /\ call[c].at = "removed"
      /\ Proceed(c, "done")
      /\ handles' = handles \ {s}
      /\ routed' = IF s \in handles THEN routed \ {s} ELSE routed
      /\ UNCHANGED <<registered, channels, fabric, pending, overtaken>>

RemoveRoute(c) ==
  LET s == call[c].service
  IN  /\ call[c].at = "removed"
      /\ Proceed(c, "done")
      /\ handles' = handles \ {s}
      /\ routed' = IF s \in handles THEN routed \ {s} ELSE routed
      /\ pending' = IF s \in handles THEN pending ELSE RemoveFirst(pending, s)
      /\ UNCHANGED <<registered, channels, fabric, overtaken>>
-----------------------------------------------------------------------------
(***************************************************************************)
(* StartServer and StopServer, as far as the fabric endpoint goes.         *)
(***************************************************************************)
\* fabricEndpoint is set without routeMu, before pending routes are drained.
SetEndpoint ==
  /\ fabric = "off"
  /\ fabric' = "set"
  /\ UNCHANGED <<call, registered, channels, pending, handles, routed, overtaken>>

\* The pending routes that RegisterRoute takes before it refuses one.
Drained ==
  LET Fits(n) == \A i \in 1..n : pending[i] \notin routed
                                   /\ \A j \in 1..(i - 1) : pending[j] # pending[i]
  IN  CHOOSE n \in 0..Len(pending) : Fits(n) /\ (n = Len(pending) \/ ~Fits(n + 1))

DrainPendingRoutes ==
  LET taken == {pending[i] : i \in 1..Drained}
      all == Drained = Len(pending)
  IN  /\ fabric = "set"
      /\ handles' = handles \cup taken
      /\ routed' = routed \cup taken
      /\ pending' = IF all THEN <<>> ELSE pending
      /\ fabric' = IF all THEN "on" ELSE "failing"
      /\ UNCHANGED <<call, registered, channels, overtaken>>

\* Stop of the endpoint closes its router; the handles stay.
CloseRouter ==
  /\ fabric \in {"on", "failing"}
  /\ fabric' = IF fabric = "on" THEN "closing" ELSE "failed"
  /\ routed' = {}
  /\ UNCHANGED <<call, registered, channels, pending, handles, overtaken>>

\* After a failed start, too, if the application calls StopServer.
DropEndpoint ==
  /\ fabric \in {"closing", "failed"}
  /\ fabric' = "stopped"
  /\ UNCHANGED <<call, registered, channels, pending, handles, routed, overtaken>>

ServerStep == SetEndpoint \/ DrainPendingRoutes \/ CloseRouter \/ DropEndpoint
RouteStep(c) == PendRoute(c) \/ RegisterRoute(c) \/ RefuseRoute(c) \/ Withdraw(c) \/ RemoveRoute(c)
-----------------------------------------------------------------------------
\* Until the server stops, and when no call for a service is running, a
\* service that is registered has one route, in the router or still pending,
\* and one that is not registered has none (server.go:386-477); once the
\* pending routes are drained none is pending.  The exception is a service
\* that was unregistered while its own RegisterService was still running: its
\* route may come after it has gone.
RoutesFollowServices ==
  \A s \in Services \ overtaken :
    /\ fabric \in {"off", "set", "on"}
    /\ Running("register", s) \cup Running("unregister", s) = {}
    => /\ Cardinality({i \in DOMAIN pending : pending[i] = s}) + (IF s \in routed THEN 1 ELSE 0)
            = (IF s \in registered THEN 1 ELSE 0)
       /\ (fabric = "on" => s \notin Range(pending))
=============================================================================
