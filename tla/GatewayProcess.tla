---------------------------- MODULE GatewayProcess ----------------------------
(***************************************************************************)
(* The process of an HTTP gateway, for clients or for administrators, from *)
(* Start to its end.  Variables named as in RpcProcess mean the same, of   *)
(* this process.                                                           *)
(***************************************************************************)
EXTENDS Naturals

CONSTANTS
  Requests,   \* requests clients may make
  Gateway,    \* whose it is
  GwFailures  \* whether starting, or serving a port, may fail

ASSUME GatewayAssumption == Gateway \in {"clients", "administrators"}
ASSUME GwFailuresAssumption == GwFailures \in BOOLEAN

VARIABLES
  gwMain, gwOutcome, gwSignal, gwMetrics, gwServe, gwNetDone,
  late,       \* whether the 15 seconds counted from the start have passed
  router,     \* the handler of its server
  requests    \* how far each request has got

gwVars ==
  <<gwMain, gwOutcome, gwSignal, gwMetrics, gwServe, gwNetDone, late, router, requests>>

GwInit ==
  /\ gwMain = "connect" /\ gwOutcome = "no" /\ gwSignal = "none"
  /\ gwMetrics \in {"off", "none"} /\ gwServe = "none"
  /\ gwNetDone = [sent |-> 0, closed |-> FALSE]
  /\ late = FALSE
  /\ router = "none"
  /\ requests = [r \in Requests |-> "none"]

GwUp == gwOutcome = "no"

Open == {r \in Requests : requests[r] = "open"}

GwEnd(how) ==
  /\ gwOutcome' = how
  /\ requests' = [r \in Requests |-> IF r \in Open THEN "cut" ELSE requests[r]]

-----------------------------------------------------------------------------
(* Start. *)

\* The two go statements.
GwSpawn ==
  /\ gwMain = "connect"
  /\ gwMain' = "notify"
  /\ gwServe' = "spawned"
  /\ gwMetrics' = IF gwMetrics = "off" THEN "off" ELSE "spawned"
  /\ UNCHANGED <<gwOutcome, gwSignal, gwNetDone, late, requests>>

\* The registry's client, and the router.
GwStart == GwUp /\ GwSpawn /\ router' = "routes"

\* newAdminGinRouter answers nil if MongoDB or Redis cannot be reached, or the
\* index not be made; Start does not ask.
GwStartUnrouted ==
  /\ GwUp /\ GwFailures
  /\ Gateway = "administrators"
  /\ router' = "nil"
  /\ GwSpawn

\* No registry; or no connection to the user service, which ends the process.
GwStartFails ==
  /\ GwUp /\ GwFailures
  /\ gwMain = "connect"
  /\ GwEnd("error")
  /\ UNCHANGED <<gwMain, gwSignal, gwMetrics, gwServe, gwNetDone, late, router>>

\* signal.Notify; and the 15 seconds for the end of the process begin.
GwNotify ==
  /\ GwUp
  /\ gwMain = "notify"
  /\ gwMain' = "wait"
  /\ UNCHANGED <<gwOutcome, gwSignal, gwMetrics, gwServe, gwNetDone, late, router, requests>>

GwLate ==
  /\ GwUp
  /\ gwMain \in {"wait", "shutdown"}
  /\ ~ late
  /\ late' = TRUE
  /\ UNCHANGED <<gwMain, gwOutcome, gwSignal, gwMetrics, gwServe, gwNetDone, router, requests>>

\* ListenAndServe, which takes a nil router for one like others.
GwListen ==
  /\ GwUp
  /\ gwServe = "spawned"
  /\ gwServe' = IF gwMain = "shutdown" THEN "closed" ELSE "up"
  /\ UNCHANGED <<gwMain, gwOutcome, gwSignal, gwMetrics, gwNetDone, late, router, requests>>

\* Prometheus.Use, which opens the port, first hands the router a middleware: a
\* nil one panics, in a goroutine where nothing recovers it.
GwMetricsListen ==
  /\ GwUp
  /\ gwMetrics = "spawned"
  /\ \/ router = "nil" /\ gwMetrics' = "gone" /\ GwEnd("panic")
     \/ router # "nil" /\ gwMetrics' = "up" /\ UNCHANGED <<gwOutcome, requests>>
  /\ UNCHANGED <<gwMain, gwSignal, gwServe, gwNetDone, late, router>>

\* A port is in use, or its listener breaks.
GwServerFails ==
  /\ GwUp /\ GwFailures
  /\ \/ gwServe \in {"spawned", "up"} /\ gwMain # "shutdown"
        /\ gwServe' = "failed" /\ UNCHANGED gwMetrics
     \/ gwMetrics \in {"spawned", "up"} /\ router # "nil"
        /\ gwMetrics' = "failed" /\ UNCHANGED gwServe
  /\ UNCHANGED <<gwMain, gwOutcome, gwSignal, gwNetDone, late, router, requests>>

\* The channel holds one report; a closed channel takes none, and panics.
GwReport ==
  /\ GwUp
  /\ \/ gwServe = "failed" /\ gwServe' = "gone" /\ UNCHANGED gwMetrics
     \/ gwMetrics = "failed" /\ gwMetrics' = "gone" /\ UNCHANGED gwServe
  /\ \/ gwNetDone.closed /\ GwEnd("panic") /\ UNCHANGED gwNetDone
     \/ /\ ~ gwNetDone.closed /\ gwNetDone.sent = 0
        /\ gwNetDone' = [gwNetDone EXCEPT !.sent = 1]
        /\ UNCHANGED <<gwOutcome, requests>>
  /\ UNCHANGED <<gwMain, gwSignal, late, router>>

-----------------------------------------------------------------------------
(* The end. *)

GwSigTerm ==
  /\ GwUp
  /\ gwSignal = "none"
  /\ \/ gwMain \in {"connect", "notify"} /\ GwEnd("killed") /\ UNCHANGED gwSignal
     \/ gwMain \notin {"connect", "notify"}
        /\ gwSignal' = "pending" /\ UNCHANGED <<gwOutcome, requests>>
  /\ UNCHANGED <<gwMain, gwMetrics, gwServe, gwNetDone, late, router>>

\* Shutdown begins: the port is closed, requests that are open go on.
GwTakeSignal ==
  /\ GwUp
  /\ gwMain = "wait" /\ gwSignal = "pending"
  /\ gwMain' = "shutdown" /\ gwSignal' = "taken"
  /\ gwServe' = IF gwServe = "up" THEN "closed" ELSE gwServe
  /\ UNCHANGED <<gwOutcome, gwMetrics, gwNetDone, late, router, requests>>

\* Mutant: requests that are still open do not make an error.
ShutdownForgets == IF Open = {} \/ late THEN {"ok"} ELSE {}

\* It returns when no request is open, or with an error when the time is over.
ShutdownResult ==
  (IF Open = {} THEN {"ok"} ELSE {}) \cup (IF Open # {} /\ late THEN {"error"} ELSE {})

GwShutdown ==
  /\ GwUp
  /\ gwMain = "shutdown"
  /\ \E how \in ShutdownResult : GwEnd(how)
  /\ UNCHANGED <<gwMain, gwSignal, gwMetrics, gwServe, gwNetDone, late, router>>

GwTakeNetDone ==
  /\ GwUp
  /\ gwMain = "wait" /\ gwNetDone.sent > 0
  /\ gwMain' = "return"
  /\ gwNetDone' = [sent |-> 0, closed |-> TRUE]
  /\ UNCHANGED <<gwOutcome, gwSignal, gwMetrics, gwServe, late, router, requests>>

GwReturn ==
  /\ GwUp
  /\ gwMain = "return"
  /\ GwEnd("error")
  /\ UNCHANGED <<gwMain, gwSignal, gwMetrics, gwServe, gwNetDone, late, router>>

-----------------------------------------------------------------------------
(* Requests. *)

Ask(r) ==
  /\ requests[r] = "none"
  /\ GwUp /\ gwServe = "up"
  /\ requests' = [requests EXCEPT ![r] = "open"]
  /\ UNCHANGED <<gwMain, gwOutcome, gwSignal, gwMetrics, gwServe, gwNetDone, late, router>>

Reply(r) ==
  /\ GwUp
  /\ requests[r] = "open"
  /\ requests' = [requests EXCEPT ![r] = "replied"]
  /\ UNCHANGED <<gwMain, gwOutcome, gwSignal, gwMetrics, gwServe, gwNetDone, late, router>>

\* A nil router panics on every request; net/http recovers and hangs up.
Drop(r) ==
  /\ GwUp
  /\ requests[r] = "open"
  /\ router = "nil"
  /\ requests' = [requests EXCEPT ![r] = "cut"]
  /\ UNCHANGED <<gwMain, gwOutcome, gwSignal, gwMetrics, gwServe, gwNetDone, late, router>>

GwStep ==
  \/ GwStart \/ GwNotify \/ GwListen \/ GwMetricsListen \/ GwReport
  \/ GwTakeSignal \/ GwShutdown \/ GwTakeNetDone \/ GwReturn

GwDisturbance == GwStartFails \/ GwStartUnrouted \/ GwServerFails \/ GwSigTerm
=============================================================================
