------------------------------ MODULE Deployment ------------------------------
(***************************************************************************)
(* One RPC service and one gateway in front of it, started after the check *)
(* of the services they need: start-up, requests that become calls, and    *)
(* the end of either process, asked for or not.                            *)
(***************************************************************************)
EXTENDS ComponentCheck, RpcProcess, GatewayProcess

CONSTANT MaxFaults  \* bound: failures and signals in one behaviour

ASSUME OneCallEach == Requests = Calls
ASSUME FaultsAssumption == MaxFaults \in Nat

VARIABLE faults     \* how many there were

vars == <<checkVars, rpcVars, gwVars, faults>>

Init == CheckInit /\ RpcInit /\ GwInit /\ faults = 0

Fault == faults < MaxFaults /\ faults' = faults + 1

\* The handler of a request makes one call.
HandlerCalls(r) == requests[r] = "open" /\ router # "nil" /\ Arrive(r)

\* Mutant: a call that broke off is waited for.
AnswersOnly == {"answered", "failed"}

\* What a call may come back with; one that broke off is an error like others.
Settled == {"answered", "failed", "cut"}

HandlerReplies(r) == calls[r] \in Settled /\ Reply(r)

Passed == verdict = "passed"

CheckOnly == CheckStep /\ UNCHANGED <<rpcVars, gwVars, faults>>

\* The steps of one process leave the rest as it is.
OfRpc(A) == Passed /\ A /\ UNCHANGED <<checkVars, gwVars>>
OfGateway(A) == Passed /\ A /\ UNCHANGED <<checkVars, rpcVars>>

HandlerStep(r) ==
  \/ OfGateway((HandlerReplies(r) \/ Drop(r)) /\ UNCHANGED faults)
  \/ OfRpc(HandlerCalls(r) /\ GwUp /\ UNCHANGED faults)

Next ==
  \/ CheckOnly
  \/ OfRpc((MainStep \/ ServerStep \/ CallStep \/ LeaseExpires) /\ UNCHANGED faults)
  \/ OfRpc((\E c \in Calls : Loop(c)) /\ UNCHANGED faults)
  \/ OfRpc(Disturbance /\ Fault)
  \/ OfGateway((GwStep \/ GwLate) /\ UNCHANGED faults)
  \/ OfGateway(GwDisturbance /\ Fault)
  \/ \E r \in Requests : HandlerStep(r) \/ OfGateway(Ask(r) /\ UNCHANGED faults)

\* Goroutines are scheduled, time passes, and a call that runs ends some day, unless
\* it got into the loop it never leaves: to a call in Looping nothing is promised.
Fairness ==
  /\ WF_vars(CheckOnly)
  /\ WF_vars(OfRpc(MainStep /\ UNCHANGED faults))
  /\ WF_vars(OfRpc(ServerStep /\ UNCHANGED faults))
  /\ WF_vars(OfRpc(CallStep /\ UNCHANGED faults))
  /\ WF_vars(OfGateway(GwStep /\ UNCHANGED faults))
  /\ WF_vars(OfGateway(GwLate /\ UNCHANGED faults))
  /\ \A r \in Requests : WF_vars(HandlerStep(r))

Spec == Init /\ [][Next]_vars /\ Fairness

-----------------------------------------------------------------------------
(* Properties. *)

CallStates == {"none", "backlog", "running", "looping", "answered", "failed", "cut"}
Servers == {"off", "none", "spawned", "up", "failed", "gone", "closed"}

\* Types; and a call only waits at a port that is open, the channels hold no
\* more than they have room for.
TypeOK ==
  /\ round \in 0..(MaxRetry - 1) /\ todo \subseteq Services /\ checksDone \subseteq Services
  /\ allSuccess \in BOOLEAN /\ verdict \in {"none", "passed", "failed"}
  /\ calls \in [Calls -> CallStates]
  /\ requests \in [Requests -> {"none", "open", "replied", "cut"}]
  /\ router \in {"none", "routes", "nil"}
  /\ {listening, registered, httpServer, late} \subseteq BOOLEAN
  /\ {metrics, serve, gwMetrics, gwServe} \subseteq Servers
  /\ netDone \in [sent : 0..2, closed : BOOLEAN]
  /\ gwNetDone \in [sent : 0..1, closed : BOOLEAN]
  /\ \A c \in Calls : calls[c] = "backlog" => listening

\* No process is started before each service has answered the check.
StartedAfterCheck == main # "listen" \/ gwMain # "connect" => checksDone = Services

\* When Start of an RPC service returns, for whatever reason, every call it had
\* accepted has ended: also when the 15 seconds to stop in were not enough,
\* because the deferred GracefulStop waits without a limit.
CallsFinish == (\E c \in Calls : calls[c] = "cut") => ended \in {"panic", "killed"}

\* A gateway that reports no error has replied to every request, unless it is
\* that of the administrators and was started without its stores: then Start
\* says nothing of it, and no request is ever replied to.
RequestsFinish ==
  /\ (\E r \in Requests : requests[r] = "cut") => gwOutcome # "ok" \/ router = "nil"
  /\ router = "nil" => \A r \in Requests : requests[r] # "replied" /\ calls[r] = "none"

\* An RPC process panics for one of two reasons only: it is told to stop and has
\* no metrics server to stop, or its second server fails after its first.  So
\* does a gateway: it has metrics but no router, or both its servers fail.
PanicsAreKnown ==
  /\ ended = "panic" => ~ httpServer \/ (serve = "gone" /\ metrics = "gone")
  /\ gwOutcome = "panic" => router = "nil" \/ (gwServe = "gone" /\ gwMetrics = "gone")

\* A process whose port or metrics fail does not live on without them.  This rests
\* on every call that runs ending some day: the deferred GracefulStop waits for
\* them all, without a limit, so a call that loops is excepted.  Nor does a
\* gateway without a router go on, but only because its metrics fail too: with metrics
\* off it goes on and answers nobody.
FailureEndsProcess ==
  /\ serve = "failed" \/ metrics = "failed" ~> ended # "no" \/ Looping # {}
  /\ gwServe = "failed" \/ gwMetrics = "failed" ~> gwOutcome # "no"
  /\ router = "nil" /\ gwMetrics # "off" ~> gwOutcome # "no"

\* A process that got SIGTERM ends, whatever its servers do: an RPC service unless
\* a call of its own loops, which the 15 seconds do not help against, a gateway
\* even if the call it waits for loops.
StopsWhenAsked ==
  /\ signal = "pending" ~> ended # "no" \/ Looping # {}
  /\ gwSignal = "pending" ~> gwOutcome # "no"

\* A request is replied to, or its gateway ends, however the service it calls is
\* started and stopped, unless its call loops: the gateway sets it no deadline.
RequestsEnd ==
  \A r \in Requests :
    requests[r] = "open" ~> requests[r] # "open" \/ r \in Looping
=============================================================================
