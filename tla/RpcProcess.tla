------------------------------ MODULE RpcProcess ------------------------------
(***************************************************************************)
(* The process of an RPC service, from startrpc.Start to its end: the main *)
(* goroutine, the one that serves gRPC, the one that serves metrics, and   *)
(* the calls in flight.                                                    *)
(***************************************************************************)
EXTENDS Naturals

CONSTANTS
  Calls,      \* calls other processes may make
  Searches,   \* those that look for the next session of a meeting
  Failures    \* whether a call to the system or to another process may fail

ASSUME SearchesAssumption == Searches \subseteq Calls
ASSUME FailuresAssumption == Failures \in BOOLEAN

VARIABLES
  main,        \* what the main goroutine does next
  outcome,     \* what Start is about to return
  ended,       \* how the process ended, "no" while it runs
  signal,      \* SIGTERM: "none", "pending", "taken"
  listening,   \* whether the port is open
  registered,  \* whether the registry names this process
  calls,       \* how far each call has got
  metrics,     \* the goroutine that serves metrics; "off" if none is configured
  httpServer,  \* whether the variable of that name has been assigned
  serve,       \* the goroutine that serves gRPC
  netDone,     \* the channel both report a failure on
  stop         \* the gRPC server: "no", "draining" or "drained"

ending  == <<outcome, ended, signal>>
network == <<listening, registered, calls>>
servers == <<metrics, httpServer, serve, netDone, stop>>
rpcVars == <<main, ending, network, servers>>

RpcInit ==
  /\ main = "listen" /\ outcome = "none" /\ ended = "no" /\ signal = "none"
  /\ listening = FALSE /\ registered = FALSE
  /\ calls = [c \in Calls |-> "none"]
  /\ metrics \in {"off", "none"} /\ httpServer = FALSE /\ serve = "none"
  /\ netDone = [sent |-> 0, closed |-> FALSE]
  /\ stop = "no"

Up == ended = "no"

Running == {c \in Calls : calls[c] \in {"running", "looping"}}
Looping == {c \in Calls : calls[c] = "looping"}

\* Mutant: they stay.
KeepBacklog == calls

\* A closed port loses the calls nobody has accepted yet.
Refuse == [c \in Calls |-> IF calls[c] = "backlog" THEN "failed" ELSE calls[c]]

\* With the process go its port and what it was working on.
End(how) ==
  /\ ended' = how
  /\ listening' = FALSE
  /\ calls' = [c \in Calls |-> IF c \in Running THEN "cut" ELSE Refuse[c]]

-----------------------------------------------------------------------------
(* Start, up to the select. *)

\* net.Listen, NewDiscoveryRegister, rpcFn and Register, in this order.
NextStage == [listen   |-> "connect", connect  |-> "build",
              build    |-> "register", register |-> "spawn"]

\* The deferred calls a return has to run by then.  (An address that is not to
\* be had, after "connect", closes the registry's client too; nobody can tell.)
Undo == [listen |-> "return", connect |-> "deferListener",
         build |-> "deferStop", register |-> "deferStop"]

Advance ==
  /\ Up
  /\ main \in DOMAIN NextStage
  /\ main' = NextStage[main]
  /\ listening' = (listening \/ main = "listen")
  /\ registered' = (registered \/ main = "register")
  /\ UNCHANGED <<ending, calls, servers>>

StageFails ==
  /\ Up /\ Failures
  /\ main \in DOMAIN Undo
  /\ main' = Undo[main]
  /\ outcome' = "error"
  /\ UNCHANGED <<ended, signal, network, servers>>

\* The two go statements.
Spawn ==
  /\ Up
  /\ main = "spawn"
  /\ main' = "notify"
  /\ metrics' = IF metrics = "off" THEN "off" ELSE "spawned"
  /\ serve' = "spawned"
  /\ UNCHANGED <<ending, network, httpServer, netDone, stop>>

Notify ==
  /\ Up
  /\ main = "notify"
  /\ main' = "wait"
  /\ UNCHANGED <<ending, network, servers>>

-----------------------------------------------------------------------------
(* The two goroutines. *)

MetricsStart ==
  /\ Up
  /\ metrics = "spawned"
  /\ httpServer' = TRUE
  /\ metrics' = "up"
  /\ UNCHANGED <<main, ending, network, serve, netDone, stop>>

MetricsFails ==
  /\ Up /\ Failures
  /\ metrics = "up"
  /\ metrics' = "failed"
  /\ UNCHANGED <<main, ending, network, httpServer, serve, netDone, stop>>

\* Serve returns ErrServerStopped if the server was stopped before.
ServeStart ==
  /\ Up
  /\ serve = "spawned"
  /\ serve' = IF stop = "no" THEN "up" ELSE "failed"
  /\ UNCHANGED <<main, ending, network, metrics, httpServer, netDone, stop>>

\* Accept fails for good: Serve closes the port it was given.
ServeFails ==
  /\ Up /\ Failures
  /\ serve = "up" /\ stop = "no"
  /\ serve' = "failed"
  /\ listening' = FALSE
  /\ calls' = Refuse
  /\ UNCHANGED <<main, ending, registered, metrics, httpServer, netDone, stop>>

\* Mutant: a failure of the metrics is not reported.
ReportServe ==
  /\ serve = "failed"
  /\ serve' = "gone"
  /\ UNCHANGED metrics

Reporter ==
  \/ serve = "failed" /\ serve' = "gone" /\ UNCHANGED metrics
  \/ metrics = "failed" /\ metrics' = "gone" /\ UNCHANGED serve

\* A closed channel takes no more: the process panics.
Report ==
  /\ Up
  /\ Reporter
  /\ \/ /\ netDone.closed
        /\ End("panic")
        /\ UNCHANGED netDone
     \/ /\ ~ netDone.closed
        /\ netDone' = [netDone EXCEPT !.sent = @ + 1]
        /\ UNCHANGED <<ended, listening, calls>>
  /\ UNCHANGED <<main, outcome, signal, registered, httpServer, stop>>

-----------------------------------------------------------------------------
(* The end. *)

\* Before signal.Notify the signal just kills.
SigTerm ==
  /\ Up
  /\ signal = "none"
  /\ IF serve = "none" \/ main = "notify"
     THEN End("killed") /\ UNCHANGED signal
     ELSE signal' = "pending" /\ UNCHANGED <<ended, listening, calls>>
  /\ UNCHANGED <<main, outcome, registered, servers>>

\* GracefulStop begins: the port is closed, and no new call comes in.
Quit == stop' = "draining" /\ listening' = FALSE /\ calls' = Refuse

\* Mutant: the signal closes the channel as well.
ClosedOnSignal == [netDone EXCEPT !.closed = TRUE]

NetDoneOnSignal == netDone

TakeSignal ==
  /\ Up
  /\ main = "wait" /\ signal = "pending"
  /\ main' = "drain" /\ signal' = "taken"
  /\ Quit
  /\ netDone' = NetDoneOnSignal
  /\ UNCHANGED <<outcome, ended, registered, metrics, httpServer, serve>>

TakeNetDone ==
  /\ Up
  /\ main = "wait" /\ netDone.sent > 0
  /\ main' = "deferStop" /\ outcome' = "error"
  /\ netDone' = [sent |-> netDone.sent - 1, closed |-> TRUE]
  /\ UNCHANGED <<ended, signal, network, metrics, httpServer, serve, stop>>

\* Mutant: it waits for callers that were never let in, too.
QuietForAll == \A c \in Calls : calls[c] \in {"none", "answered"}

Quiet == Running = {}

\* GracefulStop has seen the last call end; Serve returns without an error.
Drained ==
  /\ Up
  /\ stop = "draining" /\ Quiet
  /\ stop' = "drained"
  /\ serve' = IF serve = "up" THEN "closed" ELSE serve
  /\ UNCHANGED <<main, ending, network, metrics, httpServer, netDone>>

\* gracefulStopWithCtx returns when the server is drained, or after 15 seconds.
StopInTime ==
  /\ Up
  /\ main = "drain"
  /\ \/ stop = "drained" /\ main' = "closeMetrics" /\ UNCHANGED outcome
     \/ main' = "deferStop" /\ outcome' = "error"
  /\ UNCHANGED <<ended, signal, network, servers>>

\* Shutdown of a server that was never made: the process panics.
CloseMetrics ==
  /\ Up
  /\ main = "closeMetrics"
  /\ \/ /\ httpServer
        /\ main' = "deferStop"
        /\ outcome' = "ok" \/ (Failures /\ outcome' = "error")
        /\ metrics' = IF metrics = "up" THEN "closed" ELSE metrics
        /\ UNCHANGED <<ended, listening, calls>>
     \/ ~ httpServer /\ End("panic") /\ UNCHANGED <<main, outcome, metrics>>
  /\ UNCHANGED <<signal, registered, httpServer, serve, netDone, stop>>

\* Mutant: a server that was told to stop is not waited for.
ToldToStop == stop # "no"

Stopped == stop = "drained"

\* The deferred GracefulStop begins the stop, or waits for the one that began.
DeferStop ==
  /\ Up
  /\ main = "deferStop"
  /\ \/ stop = "no" /\ Quit /\ UNCHANGED main
     \/ Stopped /\ main' = "deferClient" /\ UNCHANGED <<stop, listening, calls>>
  /\ UNCHANGED <<ending, registered, metrics, httpServer, serve, netDone>>

\* From here on nobody renews the entry in the registry.
DeferClient ==
  /\ Up
  /\ main = "deferClient"
  /\ main' = "deferListener"
  /\ UNCHANGED <<ending, network, servers>>

DeferListener ==
  /\ Up
  /\ main = "deferListener"
  /\ main' = "return"
  /\ listening' = FALSE
  /\ UNCHANGED <<ending, registered, calls, servers>>

Return ==
  /\ Up
  /\ main = "return"
  /\ End(outcome)
  /\ UNCHANGED <<main, outcome, signal, registered, servers>>

LeaseExpires ==
  /\ registered
  /\ ~ Up \/ main \in {"deferListener", "return"}
  /\ registered' = FALSE
  /\ UNCHANGED <<main, ending, listening, calls, servers>>

-----------------------------------------------------------------------------
(* Calls. *)

\* A call goes to the address in the registry and waits to be accepted there.
Arrive(c) ==
  /\ calls[c] = "none"
  /\ calls' = [calls EXCEPT ![c] = IF registered /\ listening THEN "backlog" ELSE "failed"]
  /\ UNCHANGED <<main, ending, listening, registered, servers>>

Accept(c) ==
  /\ Up
  /\ calls[c] = "backlog" /\ serve = "up"
  /\ calls' = [calls EXCEPT ![c] = "running"]
  /\ UNCHANGED <<main, ending, listening, registered, servers>>

Finish(c) ==
  /\ Up
  /\ calls[c] = "running"
  /\ calls' = [calls EXCEPT ![c] = "answered"]
  /\ UNCHANGED <<main, ending, listening, registered, servers>>

\* EndMeeting and GetMeetings of the meeting service, at a rule the search for the
\* next session never ends for (see MeetingSchedule): nothing ends such a call but
\* the end of its process.
Loop(c) ==
  /\ Up
  /\ c \in Searches /\ calls[c] = "running"
  /\ calls' = [calls EXCEPT ![c] = "looping"]
  /\ UNCHANGED <<main, ending, listening, registered, servers>>

MainStep ==
  \/ Advance \/ Spawn \/ Notify \/ TakeSignal \/ TakeNetDone \/ StopInTime
  \/ CloseMetrics \/ DeferStop \/ DeferClient \/ DeferListener \/ Return

ServerStep == MetricsStart \/ ServeStart \/ Report \/ Drained

CallStep == \E c \in Calls : Accept(c) \/ Finish(c)

\* What goes wrong, and the signal.
Disturbance == StageFails \/ MetricsFails \/ ServeFails \/ SigTerm
=============================================================================
