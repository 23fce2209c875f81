--------------------------- MODULE DeploymentProofs ---------------------------
(***************************************************************************)
(* Theorems about Deployment, for any services, calls and requests, any    *)
(* number of rounds of the check and of faults, and either gateway.        *)
(***************************************************************************)
EXTENDS Deployment, TLAPS

-----------------------------------------------------------------------------
(* The check. *)

CheckTypes ==
  /\ round \in 0..(MaxRetry - 1) /\ todo \subseteq Services /\ checksDone \subseteq Services
  /\ allSuccess \in BOOLEAN /\ verdict \in {"none", "passed", "failed"}

\* A round without a failure has an answer of every service it came to.
RoundComplete == allSuccess => Services \ todo \subseteq checksDone

PassedComplete == Passed => checksDone = Services

\* No process has done anything before the check has passed.
NotStarted == ~ Passed => main = "listen" /\ gwMain = "connect"

CheckInv == CheckTypes /\ RoundComplete /\ PassedComplete /\ NotStarted

-----------------------------------------------------------------------------
(* The RPC service. *)

Starting == {"listen", "connect", "build", "register", "spawn"}
Undoing  == {"deferStop", "deferClient", "deferListener", "return"}
Mains    == Starting \cup Undoing \cup {"notify", "wait", "drain", "closeMetrics"}

Channel == [sent : 0..2, closed : BOOLEAN]

RpcTypes ==
  /\ main \in Mains /\ outcome \in {"none", "error", "ok"}
  /\ ended \in {"no", "ok", "error", "panic", "killed"}
  /\ signal \in {"none", "pending", "taken"} /\ stop \in {"no", "draining", "drained"}
  /\ {listening, registered, httpServer} \subseteq BOOLEAN
  /\ calls \in [Calls -> CallStates]
  /\ {metrics, serve} \subseteq Servers
  /\ netDone \in Channel

\* Nothing is served before the two go statements.
BeforeSpawn ==
  main \in Starting => /\ serve = "none" /\ metrics \in {"off", "none"}
                       /\ netDone = [sent |-> 0, closed |-> FALSE] /\ stop = "no"

\* No call can come in before the service is registered.
BeforeRegister ==
  main \in DOMAIN NextStage => ~ registered /\ \A c \in Calls : calls[c] # "backlog"

\* Only a server that was up runs calls.
RunsServed == serve \in {"none", "spawned"} => Running = {}

\* Who waits, waits at an open port.
BacklogListens == \A c \in Calls : calls[c] = "backlog" => listening

\* The port is closed with the first stop, for good.
StopClosesPort == stop # "no" => ~ listening

DrainedQuiet == stop = "drained" => serve # "up" /\ Running = {}

\* The last deferred calls find a server that was drained, or none.
UndoneQuiet ==
  main \in {"deferClient", "deferListener", "return"} =>
    \/ stop = "drained"
    \/ serve = "none" /\ ~ registered /\ (\A c \in Calls : calls[c] # "backlog")

Resulting == main \in Undoing => outcome # "none"

\* Every report of a failure is in the channel, or was taken and closed it.
Reported(server) == IF server = "gone" THEN 1 ELSE 0

ReportsCounted ==
  Up => Reported(serve) + Reported(metrics) = netDone.sent + (IF netDone.closed THEN 1 ELSE 0)

OpenWhileWaiting == main \in Starting \cup {"notify", "wait"} => ~ netDone.closed

CutByForce == (\E c \in Calls : calls[c] = "cut") => ended \in {"panic", "killed"}

RpcPanics == ended = "panic" => ~ httpServer \/ (serve = "gone" /\ metrics = "gone")

StartInv   == BeforeSpawn /\ BeforeRegister /\ OpenWhileWaiting /\ Resulting
CallsInv   == RunsServed /\ BacklogListens /\ StopClosesPort /\ DrainedQuiet
                /\ UndoneQuiet /\ CutByForce
ReportsInv == ReportsCounted /\ RpcPanics

RpcInv == RpcTypes /\ StartInv /\ CallsInv /\ ReportsInv

-----------------------------------------------------------------------------
(* The gateway. *)

RequestStates == {"none", "open", "replied", "cut"}

GwTypes ==
  /\ gwMain \in {"connect", "notify", "wait", "shutdown", "return"}
  /\ gwOutcome \in {"no", "ok", "error", "panic", "killed"}
  /\ gwSignal \in {"none", "pending", "taken"}
  /\ {gwMetrics, gwServe} \subseteq Servers
  /\ gwNetDone \in [sent : 0..1, closed : BOOLEAN]
  /\ late \in BOOLEAN
  /\ router \in {"none", "routes", "nil"}
  /\ requests \in [Requests -> RequestStates]

\* Before the two go statements nobody asks, and nobody is called.
GwBeforeSpawn ==
  gwMain = "connect" => /\ router = "none" /\ gwServe = "none" /\ gwMetrics \in {"off", "none"}
                        /\ gwNetDone = [sent |-> 0, closed |-> FALSE]
                        /\ \A r \in Requests : requests[r] = "none" /\ calls[r] = "none"

GwReportsCounted ==
  GwUp => Reported(gwServe) + Reported(gwMetrics)
            = gwNetDone.sent + (IF gwNetDone.closed THEN 1 ELSE 0)

GwClosedReturns == gwNetDone.closed => gwMain = "return"

\* A gateway that has a router cuts no request while it lives.
UpKeepsRequests ==
  (\E r \in Requests : requests[r] = "cut") => gwOutcome \notin {"no", "ok"} \/ router = "nil"

Unrouted == router = "nil" => \A r \in Requests : requests[r] # "replied" /\ calls[r] = "none"

GwPanics == gwOutcome = "panic" => router = "nil" \/ (gwServe = "gone" /\ gwMetrics = "gone")

GwStartInv   == GwBeforeSpawn /\ GwClosedReturns
GwReportsInv == GwReportsCounted /\ GwPanics
RequestsInv  == UpKeepsRequests /\ Unrouted

GwInv == GwTypes /\ GwStartInv /\ GwReportsInv /\ RequestsInv

-----------------------------------------------------------------------------
(* What the steps do to calls. *)

\* Nobody waits or runs any longer; what runs is cut.
LEMMA Ends ==
  ASSUME RpcTypes, NEW how, End(how)
  PROVE  /\ ended' = how /\ listening' = FALSE
         /\ calls' \in [Calls -> CallStates]
         /\ \A c \in Calls : calls'[c] \notin {"backlog", "running", "looping"}
         /\ \A c \in Calls : calls[c] = "none" => calls'[c] = "none"
         /\ Running = {} => \A c \in Calls : calls'[c] = "cut" => calls[c] = "cut"
BY DEF RpcTypes, End, Refuse, Running, CallStates

\* Nobody waits any longer.
LEMMA Refuses ==
  ASSUME RpcTypes, calls' = Refuse
  PROVE  /\ calls' \in [Calls -> CallStates]
         /\ \A c \in Calls : calls'[c] # "backlog"
         /\ \A c \in Calls, s \in {"none", "running", "looping", "cut"} : calls[c] = s <=> calls'[c] = s
BY DEF RpcTypes, Refuse, CallStates

\* One call goes on.
LEMMA GoesOn ==
  ASSUME RpcTypes, NEW c \in Calls, NEW s \in CallStates, calls' = [calls EXCEPT ![c] = s]
  PROVE  /\ calls' \in [Calls -> CallStates]
         /\ calls'[c] = s
         /\ \A d \in Calls \ {c} : calls'[d] = calls[d]
BY DEF RpcTypes

\* A failure of a server is put in the channel, or panics because that is closed.
LEMMA Reports ==
  ASSUME RpcInv, Report
  PROVE  /\ Up /\ UNCHANGED <<main, outcome, signal, registered, httpServer, stop>>
         /\ \/ serve = "failed" /\ serve' = "gone" /\ UNCHANGED metrics
            \/ metrics = "failed" /\ metrics' = "gone" /\ UNCHANGED serve
         /\ \/ netDone.closed /\ End("panic") /\ UNCHANGED netDone
            \/ /\ ~ netDone.closed /\ UNCHANGED <<ended, listening, calls>>
               /\ netDone' \in Channel /\ ~ netDone'.closed
               /\ netDone'.sent = netDone.sent + 1
<1>1. netDone \in Channel /\ Reported(serve) + Reported(metrics) \in 0..1
  BY DEF RpcInv, RpcTypes, Report, Reporter, Reported
<1>2. ~ netDone.closed => netDone.sent \in 0..1
  BY <1>1 DEF RpcInv, ReportsInv, ReportsCounted, Report, Channel
<1>3. CASE netDone.closed
  BY <1>3 DEF Report, Reporter
<1>4. CASE ~ netDone.closed
  <2>1. netDone' = [netDone EXCEPT !.sent = @ + 1]
    BY <1>4 DEF Report
  <2>2. netDone' \in Channel /\ ~ netDone'.closed /\ netDone'.sent = netDone.sent + 1
    BY <1>1, <1>2, <1>4, <2>1 DEF Channel
  <2> QED
    BY <1>4, <2>2 DEF Report, Reporter
<1> QED
  BY <1>3, <1>4

LEMMA ReportCounted ==
  ASSUME RpcInv, Report
  PROVE  ReportsInv'
<1>1. Up /\ UNCHANGED httpServer
  BY Reports
<1>2. /\ Reported(serve') + Reported(metrics') = Reported(serve) + Reported(metrics) + 1
      /\ serve' = "gone" \/ metrics' = "gone"
      /\ Reported(serve) + Reported(metrics) = 1 => serve' = "gone" /\ metrics' = "gone"
  BY Reports DEF Reported
<1>3. /\ netDone.sent \in 0..2 /\ netDone.closed \in BOOLEAN
      /\ Reported(serve) + Reported(metrics) \in 0..1
      /\ Reported(serve) + Reported(metrics) = netDone.sent + (IF netDone.closed THEN 1 ELSE 0)
  <2>1. Reported(serve) + Reported(metrics) \in 0..1
    BY Reports DEF Reported
  <2> QED
    BY <1>1, <2>1 DEF RpcInv, RpcTypes, Channel, ReportsInv, ReportsCounted
<1>4. CASE netDone.closed
  <2>1. ended' = "panic"
    BY <1>4, Reports DEF End
  <2> QED
    BY <1>1, <1>2, <1>3, <1>4, <2>1 DEF ReportsInv, ReportsCounted, RpcPanics, Up
<1>5. CASE ~ netDone.closed
  <2>1. ended' = ended /\ ~ netDone'.closed /\ netDone'.sent = netDone.sent + 1
    BY <1>5, Reports
  <2> QED
    BY <1>1, <1>2, <1>3, <1>5, <2>1 DEF ReportsInv, ReportsCounted, RpcPanics, Up
<1> QED
  BY <1>4, <1>5

-----------------------------------------------------------------------------
RpcStep ==
  \/ MainStep \/ ServerStep \/ CallStep \/ Disturbance \/ LeaseExpires
  \/ \E c \in Calls : Arrive(c) \/ Loop(c)

LEMMA TypesKept ==
  ASSUME RpcInv, RpcStep
  PROVE  RpcTypes'
<1> USE DEF RpcInv, RpcTypes, Mains, Starting, Undoing, Servers, CallStates, Channel,
         ending, network, servers
<1>1. CASE Advance
  BY <1>1 DEF Advance, NextStage
<1>2. CASE StageFails
  BY <1>2 DEF StageFails, Undo
<1>3. CASE Spawn
  BY <1>3 DEF Spawn
<1>4. CASE Notify
  BY <1>4 DEF Notify
<1>5. CASE MetricsStart
  BY <1>5 DEF MetricsStart
<1>6. CASE MetricsFails
  BY <1>6 DEF MetricsFails
<1>7. CASE ServeStart
  BY <1>7 DEF ServeStart
<1>8. CASE ServeFails
  BY <1>8, Refuses, ZenonT(30) DEF ServeFails
<1>9. CASE SigTerm
  BY <1>9, Ends, ZenonT(30) DEF SigTerm
<1>10. CASE TakeSignal
  BY <1>10, Refuses DEF TakeSignal, Quit, NetDoneOnSignal
<1>11. CASE TakeNetDone
  BY <1>11 DEF TakeNetDone
<1>12. CASE Drained
  BY <1>12 DEF Drained, Quiet
<1>13. CASE StopInTime
  BY <1>13 DEF StopInTime
<1>14. CASE CloseMetrics
  BY <1>14, Ends DEF CloseMetrics
<1>15. CASE DeferStop
  BY <1>15, Refuses DEF DeferStop, Quit, Stopped
<1>16. CASE DeferClient
  BY <1>16 DEF DeferClient
<1>17. CASE DeferListener
  BY <1>17 DEF DeferListener
<1>18. CASE Return
  BY <1>18, Ends DEF Return, StartInv, Resulting
<1>19. CASE LeaseExpires
  BY <1>19, ZenonT(30) DEF LeaseExpires
<1>20. CASE \E c \in Calls : Arrive(c)
  BY <1>20, GoesOn DEF Arrive
<1>21. CASE \E c \in Calls : Accept(c)
  BY <1>21, GoesOn DEF Accept
<1>22. CASE \E c \in Calls : Finish(c)
  BY <1>22, GoesOn DEF Finish
<1>23. CASE \E c \in Calls : Loop(c)
  BY <1>23, GoesOn DEF Loop
<1>24. CASE Report
  <2>1. /\ Up /\ UNCHANGED <<main, outcome, signal, registered, httpServer, stop>>
        /\ \/ serve = "failed" /\ serve' = "gone" /\ UNCHANGED metrics
           \/ metrics = "failed" /\ metrics' = "gone" /\ UNCHANGED serve
    BY <1>24, Reports
  <2>2. CASE netDone.closed
    <3>1. End("panic") /\ UNCHANGED netDone
      BY <1>24, <2>2, Reports
    <3> QED
      BY <2>1, <2>2, <3>1, Ends, ZenonT(30)
  <2>3. CASE ~ netDone.closed
    BY <1>24, <2>3, Reports
  <2> QED
    BY <2>2, <2>3
<1> QED
  BY <1>1, <1>2, <1>3, <1>4, <1>5, <1>6, <1>7, <1>8, <1>9, <1>10, <1>11, <1>12, <1>13,
     <1>14, <1>15, <1>16, <1>17, <1>18, <1>19, <1>20, <1>21, <1>22, <1>23, <1>24 DEF RpcStep,
     MainStep, ServerStep, CallStep, Disturbance

LEMMA StartKept ==
  ASSUME RpcInv, RpcStep
  PROVE  StartInv'
<1> USE DEF RpcInv, RpcTypes, StartInv, BeforeSpawn, BeforeRegister, OpenWhileWaiting,
         Resulting, NextStage, Starting, Undoing, ending, network, servers
<1>1. CASE Advance
  BY <1>1 DEF Advance, NextStage
<1>2. CASE StageFails
  BY <1>2 DEF StageFails, Undo
<1>3. CASE Spawn
  BY <1>3 DEF Spawn
<1>4. CASE Notify
  BY <1>4 DEF Notify
<1>5. CASE MetricsStart
  BY <1>5 DEF MetricsStart
<1>6. CASE MetricsFails
  BY <1>6 DEF MetricsFails
<1>7. CASE ServeStart
  BY <1>7 DEF ServeStart
<1>8. CASE ServeFails
  BY <1>8, Refuses DEF ServeFails
<1>9. CASE SigTerm
  BY <1>9, Ends DEF SigTerm
<1>10. CASE TakeSignal
  BY <1>10, Refuses DEF TakeSignal, Quit, NetDoneOnSignal
<1>11. CASE TakeNetDone
  BY <1>11 DEF TakeNetDone
<1>12. CASE Drained
  BY <1>12 DEF Drained, Quiet
<1>13. CASE StopInTime
  BY <1>13 DEF StopInTime
<1>14. CASE CloseMetrics
  BY <1>14, Ends DEF CloseMetrics
<1>15. CASE DeferStop
  BY <1>15, Refuses DEF DeferStop, Quit, Stopped
<1>16. CASE DeferClient
  BY <1>16 DEF DeferClient
<1>17. CASE DeferListener
  BY <1>17 DEF DeferListener
<1>18. CASE Return
  BY <1>18, Ends DEF Return
<1>19. CASE LeaseExpires
  BY <1>19 DEF LeaseExpires
<1>20. CASE \E c \in Calls : Arrive(c)
  BY <1>20, GoesOn DEF Arrive
<1>21. CASE \E c \in Calls : Accept(c)
  BY <1>21, GoesOn DEF Accept
<1>22. CASE \E c \in Calls : Finish(c)
  BY <1>22, GoesOn DEF Finish
<1>23. CASE \E c \in Calls : Loop(c)
  BY <1>23, GoesOn DEF Loop
<1>24. CASE Report
  <2>1. /\ Up /\ UNCHANGED <<main, outcome, signal, registered, httpServer, stop>>
        /\ \/ serve = "failed" /\ serve' = "gone" /\ UNCHANGED metrics
           \/ metrics = "failed" /\ metrics' = "gone" /\ UNCHANGED serve
    BY <1>24, Reports
  <2>2. CASE netDone.closed
    <3>1. End("panic") /\ UNCHANGED netDone
      BY <1>24, <2>2, Reports
    <3> QED
      BY <2>1, <2>2, <3>1, Ends
  <2>3. CASE ~ netDone.closed
    BY <1>24, <2>3, Reports
  <2> QED
    BY <2>2, <2>3
<1> QED
  BY <1>1, <1>2, <1>3, <1>4, <1>5, <1>6, <1>7, <1>8, <1>9, <1>10, <1>11, <1>12, <1>13,
     <1>14, <1>15, <1>16, <1>17, <1>18, <1>19, <1>20, <1>21, <1>22, <1>23, <1>24 DEF RpcStep,
     MainStep, ServerStep, CallStep, Disturbance

LEMMA CallsKept ==
  ASSUME RpcInv, RpcStep
  PROVE  CallsInv'
<1> USE DEF RpcInv, RpcTypes, StartInv, BeforeSpawn, BeforeRegister, NextStage,
         Starting, CallsInv, RunsServed, BacklogListens, StopClosesPort, DrainedQuiet,
         UndoneQuiet, CutByForce, Running, Up, CallStates, ending, network, servers
<1>1. CASE Advance
  BY <1>1 DEF Advance, NextStage
<1>2. CASE StageFails
  BY <1>2 DEF StageFails, Undo
<1>3. CASE Spawn
  BY <1>3 DEF Spawn
<1>4. CASE Notify
  BY <1>4 DEF Notify
<1>5. CASE MetricsStart
  BY <1>5 DEF MetricsStart
<1>6. CASE MetricsFails
  BY <1>6 DEF MetricsFails
<1>7. CASE ServeStart
  BY <1>7 DEF ServeStart
<1>8. CASE ServeFails
  BY <1>8, Refuses DEF ServeFails
<1>9. CASE SigTerm
  <2>1. Up /\ UNCHANGED <<main, outcome, registered, servers>>
    BY <1>9 DEF SigTerm
  <2>2. CASE End("killed")
    <3>1. RunsServed' /\ StopClosesPort' /\ CutByForce' /\ DrainedQuiet'
      BY <2>1, <2>2, Ends
    <3>2. BacklogListens'
      BY <2>1, <2>2, Ends
    <3>3. UndoneQuiet'
      BY <2>1, <2>2, Ends
    <3> QED
      BY <3>1, <3>2, <3>3
  <2>3. CASE UNCHANGED <<ended, listening, calls>>
    BY <2>1, <2>3
  <2> QED
    BY <1>9, <2>2, <2>3 DEF SigTerm
<1>10. CASE TakeSignal
  BY <1>10, Refuses DEF TakeSignal, Quit, NetDoneOnSignal
<1>11. CASE TakeNetDone
  BY <1>11 DEF TakeNetDone
<1>12. CASE Drained
  BY <1>12 DEF Drained, Quiet
<1>13. CASE StopInTime
  BY <1>13 DEF StopInTime
<1>14. CASE CloseMetrics
  <2>1. CASE httpServer
    BY <1>14, <2>1 DEF CloseMetrics
  <2>2. CASE ~ httpServer
    BY <1>14, <2>2, Ends DEF CloseMetrics
  <2> QED
    BY <2>1, <2>2
<1>15. CASE DeferStop
  BY <1>15, Refuses DEF DeferStop, Quit, Stopped
<1>16. CASE DeferClient
  BY <1>16 DEF DeferClient
<1>17. CASE DeferListener
  BY <1>17 DEF DeferListener
<1>18. CASE Return
  BY <1>18, Ends DEF Return
<1>19. CASE LeaseExpires
  BY <1>19 DEF LeaseExpires
<1>20. CASE \E c \in Calls : Arrive(c)
  BY <1>20, GoesOn DEF Arrive
<1>21. CASE \E c \in Calls : Accept(c)
  BY <1>21, GoesOn DEF Accept
<1>22. CASE \E c \in Calls : Finish(c)
  BY <1>22, GoesOn DEF Finish
<1>23. CASE \E c \in Calls : Loop(c)
  BY <1>23, GoesOn DEF Loop
<1>24. CASE Report
  <2>1. /\ Up /\ UNCHANGED <<main, outcome, signal, registered, httpServer, stop>>
        /\ \/ serve = "failed" /\ serve' = "gone" /\ UNCHANGED metrics
           \/ metrics = "failed" /\ metrics' = "gone" /\ UNCHANGED serve
    BY <1>24, Reports
  <2>2. CASE netDone.closed
    <3>1. End("panic") /\ UNCHANGED netDone
      BY <1>24, <2>2, Reports
    <3> QED
      BY <2>1, <2>2, <3>1, Ends
  <2>3. CASE ~ netDone.closed
    BY <1>24, <2>3, Reports
  <2> QED
    BY <2>2, <2>3
<1> QED
  BY <1>1, <1>2, <1>3, <1>4, <1>5, <1>6, <1>7, <1>8, <1>9, <1>10, <1>11, <1>12, <1>13,
     <1>14, <1>15, <1>16, <1>17, <1>18, <1>19, <1>20, <1>21, <1>22, <1>23, <1>24 DEF RpcStep,
     MainStep, ServerStep, CallStep, Disturbance

LEMMA ReportsKept ==
  ASSUME RpcInv, RpcStep
  PROVE  ReportsInv'
<1> USE DEF RpcInv, RpcTypes, StartInv, BeforeSpawn, OpenWhileWaiting, Starting,
         ReportsInv, ReportsCounted, RpcPanics, Reported, Channel, Up, ending, network,
         servers
<1>1. CASE Advance
  BY <1>1 DEF Advance, NextStage
<1>2. CASE StageFails
  BY <1>2 DEF StageFails, Undo
<1>3. CASE Spawn
  BY <1>3 DEF Spawn
<1>4. CASE Notify
  BY <1>4 DEF Notify
<1>5. CASE MetricsStart
  BY <1>5 DEF MetricsStart
<1>6. CASE MetricsFails
  BY <1>6 DEF MetricsFails
<1>7. CASE ServeStart
  BY <1>7 DEF ServeStart
<1>8. CASE ServeFails
  BY <1>8, Refuses DEF ServeFails
<1>9. CASE SigTerm
  <2>1. Up /\ UNCHANGED <<httpServer, serve, metrics, netDone>>
    BY <1>9 DEF SigTerm
  <2>2. ended' = ended \/ ended' = "killed"
    BY <1>9 DEF SigTerm, End
  <2> QED
    BY <2>1, <2>2
<1>10. CASE TakeSignal
  BY <1>10, Refuses DEF TakeSignal, Quit, NetDoneOnSignal
<1>11. CASE TakeNetDone
  BY <1>11 DEF TakeNetDone
<1>12. CASE Drained
  BY <1>12 DEF Drained, Quiet
<1>13. CASE StopInTime
  BY <1>13 DEF StopInTime
<1>14. CASE CloseMetrics
  <2>1. CASE httpServer
    BY <1>14, <2>1 DEF CloseMetrics
  <2>2. CASE ~ httpServer
    BY <1>14, <2>2, Ends DEF CloseMetrics
  <2> QED
    BY <2>1, <2>2
<1>15. CASE DeferStop
  BY <1>15, Refuses DEF DeferStop, Quit, Stopped
<1>16. CASE DeferClient
  BY <1>16 DEF DeferClient
<1>17. CASE DeferListener
  BY <1>17 DEF DeferListener
<1>18. CASE Return
  BY <1>18, Ends DEF Return
<1>19. CASE LeaseExpires
  BY <1>19 DEF LeaseExpires
<1>20. CASE \E c \in Calls : Arrive(c)
  BY <1>20, GoesOn DEF Arrive
<1>21. CASE \E c \in Calls : Accept(c)
  BY <1>21, GoesOn DEF Accept
<1>22. CASE \E c \in Calls : Finish(c)
  BY <1>22, GoesOn DEF Finish
<1>23. CASE \E c \in Calls : Loop(c)
  BY <1>23, GoesOn DEF Loop
<1>24. CASE Report
  BY <1>24, ReportCounted
<1> QED
  BY <1>1, <1>2, <1>3, <1>4, <1>5, <1>6, <1>7, <1>8, <1>9, <1>10, <1>11, <1>12, <1>13,
     <1>14, <1>15, <1>16, <1>17, <1>18, <1>19, <1>20, <1>21, <1>22, <1>23, <1>24 DEF RpcStep,
     MainStep, ServerStep, CallStep, Disturbance

-----------------------------------------------------------------------------
\* With the gateway go the requests that are open.
LEMMA GwEnds ==
  ASSUME GwTypes, NEW how, GwEnd(how)
  PROVE  /\ gwOutcome' = how
         /\ requests' \in [Requests -> RequestStates]
         /\ \A r \in Requests, s \in {"none", "replied"} : requests'[r] = s <=> requests[r] = s
         /\ \A r \in Requests : requests'[r] = "cut" => requests[r] = "cut" \/ requests[r] = "open"
BY DEF GwTypes, GwEnd, Open, RequestStates

LEMMA RequestGoesOn ==
  ASSUME GwTypes, NEW r \in Requests, NEW s \in RequestStates,
         requests' = [requests EXCEPT ![r] = s]
  PROVE  /\ requests' \in [Requests -> RequestStates]
         /\ requests'[r] = s
         /\ \A q \in Requests \ {r} : requests'[q] = requests[q]
BY DEF GwTypes

LEMMA GwReports ==
  ASSUME GwInv, GwReport
  PROVE  /\ GwUp /\ UNCHANGED <<gwMain, gwSignal, late, router>>
         /\ \/ gwServe = "failed" /\ gwServe' = "gone" /\ UNCHANGED gwMetrics
            \/ gwMetrics = "failed" /\ gwMetrics' = "gone" /\ UNCHANGED gwServe
         /\ \/ gwNetDone.closed /\ GwEnd("panic") /\ UNCHANGED gwNetDone
            \/ /\ ~ gwNetDone.closed /\ UNCHANGED <<gwOutcome, requests>>
               /\ gwNetDone.sent = 0
               /\ gwNetDone' \in [sent : 0..1, closed : BOOLEAN] /\ ~ gwNetDone'.closed
               /\ gwNetDone'.sent = 1
<1>1. gwNetDone \in [sent : 0..1, closed : BOOLEAN]
  BY DEF GwInv, GwTypes
<1>2. CASE gwNetDone.closed
  BY <1>2 DEF GwReport
<1>3. CASE ~ gwNetDone.closed
  <2>1. gwNetDone' = [gwNetDone EXCEPT !.sent = 1] /\ gwNetDone.sent = 0
    BY <1>3 DEF GwReport
  <2>2. /\ gwNetDone' \in [sent : 0..1, closed : BOOLEAN]
        /\ ~ gwNetDone'.closed /\ gwNetDone'.sent = 1
    BY <1>1, <1>3, <2>1
  <2> QED
    BY <1>3, <2>1, <2>2 DEF GwReport
<1> QED
  BY <1>2, <1>3

LEMMA GwReportCounted ==
  ASSUME GwInv, GwReport
  PROVE  GwReportsInv'
<1>1. GwUp /\ UNCHANGED router
  BY GwReports
<1>2. /\ Reported(gwServe') + Reported(gwMetrics') = Reported(gwServe) + Reported(gwMetrics) + 1
      /\ Reported(gwServe) + Reported(gwMetrics) = 1 => gwServe' = "gone" /\ gwMetrics' = "gone"
      /\ Reported(gwServe) + Reported(gwMetrics) \in 0..1
  BY GwReports DEF Reported
<1>3. /\ gwNetDone.sent \in 0..1 /\ gwNetDone.closed \in BOOLEAN
      /\ Reported(gwServe) + Reported(gwMetrics) = gwNetDone.sent + (IF gwNetDone.closed THEN 1 ELSE 0)
  BY <1>1 DEF GwInv, GwTypes, GwReportsInv, GwReportsCounted
<1>4. CASE gwNetDone.closed
  <2>1. gwOutcome' = "panic"
    BY <1>4, GwReports DEF GwEnd
  <2> QED
    BY <1>1, <1>2, <1>3, <1>4, <2>1 DEF GwReportsInv, GwReportsCounted, GwPanics, GwUp
<1>5. CASE ~ gwNetDone.closed
  <2>1. /\ gwOutcome' = gwOutcome /\ ~ gwNetDone'.closed
        /\ gwNetDone'.sent = 1 /\ gwNetDone.sent = 0
    BY <1>5, GwReports
  <2> QED
    BY <1>1, <1>2, <1>3, <1>5, <2>1 DEF GwReportsInv, GwReportsCounted, GwPanics, GwUp
<1> QED
  BY <1>4, <1>5

-----------------------------------------------------------------------------
GatewayStep ==
  \/ GwStep \/ GwLate \/ GwDisturbance
  \/ \E r \in Requests : HandlerReplies(r) \/ Drop(r) \/ Ask(r)

LEMMA GwTypesKept ==
  ASSUME GwInv, GatewayStep, UNCHANGED calls
  PROVE  GwTypes'
<1> USE DEF GwInv, GwTypes, Servers, RequestStates
<1>1. CASE GwStart
  BY <1>1 DEF GwStart, GwSpawn
<1>2. CASE GwNotify
  BY <1>2 DEF GwNotify
<1>3. CASE GwListen
  BY <1>3 DEF GwListen
<1>4. CASE GwMetricsListen
  BY <1>4, GwEnds DEF GwMetricsListen
<1>5. CASE GwTakeSignal
  BY <1>5 DEF GwTakeSignal
<1>6. CASE GwShutdown
  BY <1>6, GwEnds DEF GwShutdown, ShutdownResult, Open
<1>7. CASE GwTakeNetDone
  BY <1>7 DEF GwTakeNetDone
<1>8. CASE GwReturn
  BY <1>8, GwEnds DEF GwReturn
<1>9. CASE GwLate
  BY <1>9 DEF GwLate
<1>10. CASE GwStartFails
  BY <1>10, GwEnds DEF GwStartFails
<1>11. CASE GwStartUnrouted
  BY <1>11 DEF GwStartUnrouted, GwSpawn
<1>12. CASE GwServerFails
  BY <1>12 DEF GwServerFails
<1>13. CASE GwSigTerm
  BY <1>13, GwEnds DEF GwSigTerm
<1>14. CASE \E r \in Requests : HandlerReplies(r)
  BY <1>14, RequestGoesOn DEF HandlerReplies, Reply, Settled
<1>15. CASE \E r \in Requests : Drop(r)
  BY <1>15, RequestGoesOn DEF Drop
<1>16. CASE \E r \in Requests : Ask(r)
  BY <1>16, RequestGoesOn DEF Ask
<1>17. CASE GwReport
  <2>1. /\ GwUp /\ UNCHANGED <<gwMain, gwSignal, late, router>>
        /\ \/ gwServe = "failed" /\ gwServe' = "gone" /\ UNCHANGED gwMetrics
           \/ gwMetrics = "failed" /\ gwMetrics' = "gone" /\ UNCHANGED gwServe
    BY <1>17, GwReports
  <2>2. CASE gwNetDone.closed
    <3>1. GwEnd("panic") /\ UNCHANGED gwNetDone
      BY <1>17, <2>2, GwReports
    <3> QED
      BY <2>1, <2>2, <3>1, GwEnds
  <2>3. CASE ~ gwNetDone.closed
    BY <1>17, <2>3, GwReports
  <2> QED
    BY <2>2, <2>3
<1> QED
  BY <1>1, <1>2, <1>3, <1>4, <1>5, <1>6, <1>7, <1>8, <1>9, <1>10, <1>11, <1>12, <1>13,
     <1>14, <1>15, <1>16, <1>17 DEF GatewayStep, GwStep, GwDisturbance

LEMMA GwStartKept ==
  ASSUME GwInv, GatewayStep, UNCHANGED calls
  PROVE  GwStartInv'
<1> USE DEF GwInv, GwTypes, GwStartInv, GwBeforeSpawn, GwClosedReturns, GwUp, RequestStates
<1>1. CASE GwStart
  BY <1>1 DEF GwStart, GwSpawn
<1>2. CASE GwNotify
  BY <1>2 DEF GwNotify
<1>3. CASE GwListen
  BY <1>3 DEF GwListen
<1>4. CASE GwMetricsListen
  BY <1>4, GwEnds DEF GwMetricsListen
<1>5. CASE GwTakeSignal
  BY <1>5 DEF GwTakeSignal
<1>6. CASE GwShutdown
  BY <1>6, GwEnds DEF GwShutdown, ShutdownResult, Open
<1>7. CASE GwTakeNetDone
  BY <1>7 DEF GwTakeNetDone
<1>8. CASE GwReturn
  BY <1>8, GwEnds DEF GwReturn
<1>9. CASE GwLate
  BY <1>9 DEF GwLate
<1>10. CASE GwStartFails
  BY <1>10, GwEnds DEF GwStartFails
<1>11. CASE GwStartUnrouted
  BY <1>11 DEF GwStartUnrouted, GwSpawn
<1>12. CASE GwServerFails
  BY <1>12 DEF GwServerFails
<1>13. CASE GwSigTerm
  BY <1>13, GwEnds DEF GwSigTerm
<1>14. CASE \E r \in Requests : HandlerReplies(r)
  BY <1>14, RequestGoesOn DEF HandlerReplies, Reply, Settled
<1>15. CASE \E r \in Requests : Drop(r)
  BY <1>15, RequestGoesOn DEF Drop
<1>16. CASE \E r \in Requests : Ask(r)
  BY <1>16, RequestGoesOn DEF Ask
<1>17. CASE GwReport
  <2>1. /\ GwUp /\ UNCHANGED <<gwMain, gwSignal, late, router>>
        /\ \/ gwServe = "failed" /\ gwServe' = "gone" /\ UNCHANGED gwMetrics
           \/ gwMetrics = "failed" /\ gwMetrics' = "gone" /\ UNCHANGED gwServe
    BY <1>17, GwReports
  <2>2. CASE gwNetDone.closed
    <3>1. GwEnd("panic") /\ UNCHANGED gwNetDone
      BY <1>17, <2>2, GwReports
    <3> QED
      BY <2>1, <2>2, <3>1, GwEnds
  <2>3. CASE ~ gwNetDone.closed
    BY <1>17, <2>3, GwReports
  <2> QED
    BY <2>2, <2>3
<1> QED
  BY <1>1, <1>2, <1>3, <1>4, <1>5, <1>6, <1>7, <1>8, <1>9, <1>10, <1>11, <1>12, <1>13,
     <1>14, <1>15, <1>16, <1>17 DEF GatewayStep, GwStep, GwDisturbance

LEMMA RequestsKept ==
  ASSUME GwInv, GatewayStep, UNCHANGED calls
  PROVE  RequestsInv'
<1> USE DEF GwInv, GwTypes, GwStartInv, GwBeforeSpawn, RequestsInv, UpKeepsRequests,
         Unrouted, GwUp, RequestStates
<1>1. CASE GwStart
  BY <1>1 DEF GwStart, GwSpawn
<1>2. CASE GwNotify
  BY <1>2 DEF GwNotify
<1>3. CASE GwListen
  BY <1>3 DEF GwListen
<1>4. CASE GwMetricsListen
  BY <1>4, GwEnds DEF GwMetricsListen
<1>5. CASE GwTakeSignal
  BY <1>5 DEF GwTakeSignal
<1>6. CASE GwShutdown
  BY <1>6, GwEnds DEF GwShutdown, ShutdownResult, Open
<1>7. CASE GwTakeNetDone
  BY <1>7 DEF GwTakeNetDone
<1>8. CASE GwReturn
  BY <1>8, GwEnds DEF GwReturn
<1>9. CASE GwLate
  BY <1>9 DEF GwLate
<1>10. CASE GwStartFails
  BY <1>10, GwEnds DEF GwStartFails
<1>11. CASE GwStartUnrouted
  BY <1>11 DEF GwStartUnrouted, GwSpawn
<1>12. CASE GwServerFails
  BY <1>12 DEF GwServerFails
<1>13. CASE GwSigTerm
  BY <1>13, GwEnds DEF GwSigTerm
<1>14. CASE \E r \in Requests : HandlerReplies(r)
  BY <1>14, RequestGoesOn DEF HandlerReplies, Reply, Settled
<1>15. CASE \E r \in Requests : Drop(r)
  BY <1>15, RequestGoesOn DEF Drop
<1>16. CASE \E r \in Requests : Ask(r)
  BY <1>16, RequestGoesOn DEF Ask
<1>17. CASE GwReport
  <2>1. /\ GwUp /\ UNCHANGED <<gwMain, gwSignal, late, router>>
        /\ \/ gwServe = "failed" /\ gwServe' = "gone" /\ UNCHANGED gwMetrics
           \/ gwMetrics = "failed" /\ gwMetrics' = "gone" /\ UNCHANGED gwServe
    BY <1>17, GwReports
  <2>2. CASE gwNetDone.closed
    <3>1. GwEnd("panic") /\ UNCHANGED gwNetDone
      BY <1>17, <2>2, GwReports
    <3> QED
      BY <2>1, <2>2, <3>1, GwEnds
  <2>3. CASE ~ gwNetDone.closed
    BY <1>17, <2>3, GwReports
  <2> QED
    BY <2>2, <2>3
<1> QED
  BY <1>1, <1>2, <1>3, <1>4, <1>5, <1>6, <1>7, <1>8, <1>9, <1>10, <1>11, <1>12, <1>13,
     <1>14, <1>15, <1>16, <1>17 DEF GatewayStep, GwStep, GwDisturbance

LEMMA GwReportsKept ==
  ASSUME GwInv, GatewayStep, UNCHANGED calls
  PROVE  GwReportsInv'
<1> USE DEF GwInv, GwTypes, GwStartInv, GwBeforeSpawn, GwClosedReturns, GwReportsInv,
         GwReportsCounted, GwPanics, Reported, GwUp
<1>1. CASE GwStart
  BY <1>1 DEF GwStart, GwSpawn
<1>2. CASE GwNotify
  BY <1>2 DEF GwNotify
<1>3. CASE GwListen
  BY <1>3 DEF GwListen
<1>4. CASE GwMetricsListen
  BY <1>4, GwEnds DEF GwMetricsListen
<1>5. CASE GwTakeSignal
  BY <1>5 DEF GwTakeSignal
<1>6. CASE GwShutdown
  BY <1>6, GwEnds DEF GwShutdown, ShutdownResult, Open
<1>7. CASE GwTakeNetDone
  BY <1>7 DEF GwTakeNetDone
<1>8. CASE GwReturn
  BY <1>8, GwEnds DEF GwReturn
<1>9. CASE GwLate
  BY <1>9 DEF GwLate
<1>10. CASE GwStartFails
  BY <1>10, GwEnds DEF GwStartFails
<1>11. CASE GwStartUnrouted
  BY <1>11 DEF GwStartUnrouted, GwSpawn
<1>12. CASE GwServerFails
  BY <1>12 DEF GwServerFails
<1>13. CASE GwSigTerm
  BY <1>13, GwEnds DEF GwSigTerm
<1>14. CASE \E r \in Requests : HandlerReplies(r)
  BY <1>14, RequestGoesOn DEF HandlerReplies, Reply, Settled
<1>15. CASE \E r \in Requests : Drop(r)
  BY <1>15, RequestGoesOn DEF Drop
<1>16. CASE \E r \in Requests : Ask(r)
  BY <1>16, RequestGoesOn DEF Ask
<1>17. CASE GwReport
  BY <1>17, GwReportCounted
<1> QED
  BY <1>1, <1>2, <1>3, <1>4, <1>5, <1>6, <1>7, <1>8, <1>9, <1>10, <1>11, <1>12, <1>13,
     <1>14, <1>15, <1>16, <1>17 DEF GatewayStep, GwStep, GwDisturbance

-----------------------------------------------------------------------------
(* The check, and the three together. *)

LEMMA CheckTurns ==
  ASSUME CheckInv, CheckStep
  PROVE  /\ CheckTypes' /\ RoundComplete' /\ PassedComplete'
         /\ verdict = "none"
<1> USE DEF CheckInv, CheckTypes, RoundComplete, PassedComplete, Passed
<1>1. CASE EndRound
  BY <1>1, RetryAssumption DEF EndRound
<1>2. ASSUME NEW s \in Services, Check(s)
      PROVE  /\ CheckTypes' /\ RoundComplete' /\ PassedComplete'
             /\ verdict = "none"
  <2>1. PICK answered \in BOOLEAN :
          /\ s \in checksDone => answered
          /\ allSuccess' = (allSuccess /\ answered)
          /\ checksDone' = IF answered THEN checksDone \cup {s} ELSE checksDone
    BY <1>2 DEF Check, RoundSuccess
  <2>2. verdict = "none" /\ todo' = todo \ {s} /\ UNCHANGED <<round, verdict>>
    BY <1>2 DEF Check
  <2>3. allSuccess' \in BOOLEAN
    BY <2>1
  <2>4. CheckTypes' /\ PassedComplete'
    BY <1>2, <2>1, <2>2, <2>3
  <2>5. CASE allSuccess /\ answered
    BY <1>2, <2>1, <2>2, <2>5
  <2>6. CASE ~ (allSuccess /\ answered)
    BY <2>1, <2>2, <2>6
  <2> QED
    BY <2>2, <2>4, <2>5, <2>6
<1> QED
  BY <1>1, <1>2 DEF CheckStep

Inv == CheckInv /\ RpcInv /\ GwInv

LEMMA Initially == Init => Inv
<1> SUFFICES ASSUME Init PROVE Inv
  OBVIOUS
<1> USE DEF Init
<1>1. CheckInv
  BY RetryAssumption
  DEF CheckInit, RpcInit, GwInit, CheckInv, CheckTypes, RoundComplete, PassedComplete,
      NotStarted, Passed
<1>2. /\ main = "listen" /\ outcome = "none" /\ ended = "no" /\ signal = "none" /\ stop = "no"
      /\ ~ listening /\ ~ registered /\ ~ httpServer
      /\ serve = "none" /\ metrics \in {"off", "none"}
      /\ gwMain = "connect" /\ gwOutcome = "no" /\ gwSignal = "none" /\ ~ late
      /\ gwServe = "none" /\ gwMetrics \in {"off", "none"} /\ router = "none"
  BY DEF RpcInit, GwInit
<1>3. /\ netDone = [sent |-> 0, closed |-> FALSE] /\ netDone \in Channel
      /\ netDone.sent = 0 /\ ~ netDone.closed
      /\ gwNetDone = [sent |-> 0, closed |-> FALSE]
      /\ gwNetDone \in [sent : 0..1, closed : BOOLEAN]
      /\ gwNetDone.sent = 0 /\ ~ gwNetDone.closed
  BY DEF RpcInit, GwInit, Channel
<1>4. /\ calls \in [Calls -> CallStates] /\ \A c \in Calls : calls[c] = "none"
      /\ requests \in [Requests -> RequestStates] /\ \A r \in Requests : requests[r] = "none"
  BY DEF RpcInit, GwInit, CallStates, RequestStates
<1>5. RpcTypes
  <2>1. {listening, registered, httpServer} \subseteq BOOLEAN
    BY DEF RpcInit
  <2> QED
    BY <1>2, <1>3, <1>4, <2>1 DEF RpcTypes, Mains, Starting, Servers
<1>6. StartInv /\ CallsInv /\ ReportsInv
  BY <1>2, <1>3, <1>4
  DEF StartInv, BeforeSpawn, BeforeRegister, OpenWhileWaiting, Resulting, CallsInv, RunsServed,
      BacklogListens, StopClosesPort, DrainedQuiet, UndoneQuiet, CutByForce, ReportsInv,
      ReportsCounted, RpcPanics, Reported, Running, Undoing
<1>7. GwTypes
  <2>1. late \in BOOLEAN
    BY DEF GwInit
  <2> QED
    BY <1>2, <1>3, <1>4, <2>1 DEF GwTypes, Servers
<1>8. GwStartInv /\ GwReportsInv /\ RequestsInv
  BY <1>2, <1>3, <1>4, OneCallEach
  DEF GwStartInv, GwBeforeSpawn, GwClosedReturns, GwReportsInv, GwReportsCounted, GwPanics,
      RequestsInv, UpKeepsRequests, Unrouted, Reported
<1> QED
  BY <1>1, <1>5, <1>6, <1>7, <1>8 DEF Inv, RpcInv, GwInv

\* Only a handler of the gateway makes a call begin.
LEMMA CallsBegin ==
  ASSUME RpcInv,
         \/ MainStep \/ ServerStep \/ CallStep \/ Disturbance \/ LeaseExpires
         \/ \E c \in Calls : Loop(c)
  PROVE  \A c \in Calls : calls[c] = "none" => calls'[c] = "none"
<1>1. CASE CallStep \/ \E c \in Calls : Loop(c)
  <2>1. PICK c \in Calls : Accept(c) \/ Finish(c) \/ Loop(c)
    BY <1>1 DEF CallStep
  <2>2. calls[c] # "none" /\ \A d \in Calls \ {c} : calls'[d] = calls[d]
    BY <2>1, GoesOn DEF RpcInv, Accept, Finish, Loop, CallStates
  <2> QED
    BY <2>2
<1>2. CASE ~ (CallStep \/ \E c \in Calls : Loop(c))
  <2>1. UNCHANGED calls \/ calls' = Refuse \/ \E how : End(how)
    BY <1>2
    DEF MainStep, ServerStep, Disturbance, LeaseExpires, Advance, Spawn, Notify, TakeSignal,
        TakeNetDone, StopInTime, CloseMetrics, DeferStop, DeferClient, DeferListener, Return,
        MetricsStart, ServeStart, Report, Drained, StageFails, MetricsFails, ServeFails,
        SigTerm, Quit, ending, network, servers
  <2> QED
    BY <2>1, Refuses, Ends DEF RpcInv
<1> QED
  BY <1>1, <1>2

LEMMA CheckRests ==
  ASSUME CheckInv, UNCHANGED checkVars, Passed
  PROVE  CheckInv'
BY DEF CheckInv, checkVars, CheckTypes, RoundComplete, PassedComplete, NotStarted, Passed

LEMMA RpcRests ==
  ASSUME RpcInv, UNCHANGED rpcVars
  PROVE  RpcInv'
BY DEF RpcInv, RpcTypes, StartInv, BeforeSpawn, BeforeRegister, OpenWhileWaiting,
       Resulting, CallsInv, RunsServed, BacklogListens, StopClosesPort, DrainedQuiet,
       UndoneQuiet, CutByForce, ReportsInv, ReportsCounted, RpcPanics, Reported, Running, Up,
       rpcVars, ending, network, servers

LEMMA GwRests ==
  ASSUME GwInv, UNCHANGED gwVars,
         \A c \in Calls : calls[c] = "none" => calls'[c] = "none"
  PROVE  GwInv'
BY OneCallEach
DEF GwInv, GwTypes, GwStartInv, GwBeforeSpawn, GwClosedReturns, GwReportsInv, GwReportsCounted,
    GwPanics, RequestsInv, UpKeepsRequests, Unrouted, Reported, GwUp, gwVars

LEMMA Stepping ==
  ASSUME Inv, [Next]_vars
  PROVE  Inv'
<1> USE DEF Inv
<1>1. CASE CheckOnly
  <2>1. CheckStep /\ UNCHANGED <<rpcVars, gwVars>>
    BY <1>1 DEF CheckOnly
  <2>2. CheckInv'
    <3>1. UNCHANGED <<main, gwMain>>
      BY <2>1 DEF rpcVars, gwVars
    <3> QED
      BY <2>1, <3>1, CheckTurns DEF CheckInv, NotStarted, Passed
  <2>3. GwInv'
    BY <2>1, GwRests DEF rpcVars, network
  <2> QED
    BY <2>1, <2>2, <2>3, RpcRests
<1>2. CASE OfRpc((MainStep \/ ServerStep \/ CallStep \/ LeaseExpires) /\ UNCHANGED faults)
           \/ OfRpc((\E c \in Calls : Loop(c)) /\ UNCHANGED faults)
           \/ OfRpc(Disturbance /\ Fault)
  <2>1. /\ Passed /\ UNCHANGED <<checkVars, gwVars>>
        /\ \/ MainStep \/ ServerStep \/ CallStep \/ Disturbance \/ LeaseExpires
           \/ \E c \in Calls : Loop(c)
    BY <1>2 DEF OfRpc
  <2>2. RpcInv'
    BY <2>1, TypesKept, StartKept, CallsKept, ReportsKept DEF RpcStep, RpcInv
  <2> QED
    BY <2>1, <2>2, CheckRests, CallsBegin, GwRests
<1>3. ASSUME NEW r \in Requests, OfRpc(HandlerCalls(r) /\ GwUp /\ UNCHANGED faults)
      PROVE  Inv'
  <2>1. /\ Passed /\ UNCHANGED <<checkVars, gwVars>>
        /\ requests[r] = "open" /\ router # "nil" /\ Arrive(r) /\ r \in Calls
    BY <1>3, OneCallEach DEF OfRpc, HandlerCalls
  <2>2. RpcInv'
    BY <2>1, TypesKept, StartKept, CallsKept, ReportsKept DEF RpcStep, RpcInv
  <2>3. GwInv'
    BY <2>1
    DEF GwInv, GwTypes, GwStartInv, GwBeforeSpawn, GwClosedReturns, GwReportsInv,
        GwReportsCounted, GwPanics, RequestsInv, UpKeepsRequests, Unrouted, Reported, GwUp, gwVars
  <2> QED
    BY <2>1, <2>2, <2>3, CheckRests
<1>4. ASSUME Passed, UNCHANGED <<checkVars, rpcVars>>, GatewayStep
      PROVE  Inv'
  <2>1. UNCHANGED calls
    BY <1>4 DEF rpcVars, network
  <2>2. GwInv'
    BY <1>4, <2>1, GwTypesKept, GwStartKept, RequestsKept, GwReportsKept DEF GwInv
  <2> QED
    BY <1>4, <2>2, CheckRests, RpcRests
<1>5. CASE UNCHANGED vars
  <2>1. UNCHANGED <<checkVars, rpcVars, gwVars>>
    BY <1>5 DEF vars
  <2>2. CheckInv'
    BY <2>1
    DEF CheckInv, checkVars, rpcVars, gwVars, CheckTypes, RoundComplete, PassedComplete,
        NotStarted, Passed
  <2>3. UNCHANGED calls
    BY <2>1 DEF rpcVars, network
  <2> QED
    BY <2>1, <2>2, <2>3, RpcRests, GwRests
<1>6. ASSUME NEW r \in Requests, HandlerStep(r) \/ OfGateway(Ask(r) /\ UNCHANGED faults)
      PROVE  Inv'
  <2>1. CASE OfRpc(HandlerCalls(r) /\ GwUp /\ UNCHANGED faults)
    BY <1>3, <2>1
  <2>2. CASE \/ OfGateway((HandlerReplies(r) \/ Drop(r)) /\ UNCHANGED faults)
             \/ OfGateway(Ask(r) /\ UNCHANGED faults)
    <3>1. Passed /\ UNCHANGED <<checkVars, rpcVars>> /\ GatewayStep
      BY <2>2 DEF OfGateway, GatewayStep
    <3> QED
      BY <1>4, <3>1
  <2> QED
    BY <1>6, <2>1, <2>2 DEF HandlerStep
<1>7. CASE OfGateway((GwStep \/ GwLate) /\ UNCHANGED faults) \/ OfGateway(GwDisturbance /\ Fault)
  <2>1. Passed /\ UNCHANGED <<checkVars, rpcVars>> /\ GatewayStep
    BY <1>7 DEF OfGateway, GatewayStep
  <2> QED
    BY <1>4, <2>1
<1> QED
  BY <1>1, <1>2, <1>5, <1>6, <1>7 DEF Next

LEMMA Always == Spec => []Inv
BY Initially, Stepping, PTL DEF Spec

-----------------------------------------------------------------------------
\* Every variable is of its type, in every reachable state; the channels never
\* hold more reports than they have room for, and no call waits at a closed port.
THEOREM TypeCorrect == Spec => []TypeOK
<1>1. Inv => TypeOK
  BY DEF Inv, CheckInv, CheckTypes, RpcInv, RpcTypes, Channel, CallsInv, BacklogListens,
         GwInv, GwTypes, RequestStates, TypeOK
<1> QED
  BY <1>1, Always, PTL

\* The processes are started only after every service has answered the check.
THEOREM StartedChecked == Spec => []StartedAfterCheck
<1>1. Inv => StartedAfterCheck
  BY DEF Inv, CheckInv, PassedComplete, NotStarted, StartedAfterCheck
<1> QED
  BY <1>1, Always, PTL

\* Start of an RPC service returns only when the calls it had accepted have ended.
THEOREM CallsFinished == Spec => []CallsFinish
<1>1. Inv => CallsFinish
  BY DEF Inv, RpcInv, CallsInv, CutByForce, CallsFinish
<1> QED
  BY <1>1, Always, PTL

\* A gateway ends without an error only when it has replied to every request, or
\* has no router; without one it replies to none.
THEOREM RequestsFinished == Spec => []RequestsFinish
<1>1. Inv => RequestsFinish
  BY DEF Inv, GwInv, RequestsInv, UpKeepsRequests, Unrouted, RequestsFinish
<1> QED
  BY <1>1, Always, PTL

\* No process panics for another reason than the known ones.
THEOREM PanicsKnown == Spec => []PanicsAreKnown
<1>1. Inv => PanicsAreKnown
  BY DEF Inv, RpcInv, ReportsInv, RpcPanics, GwInv, GwReportsInv, GwPanics, PanicsAreKnown
<1> QED
  BY <1>1, Always, PTL
=============================================================================
