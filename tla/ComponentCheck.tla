---------------------------- MODULE ComponentCheck ----------------------------
(***************************************************************************)
(* The tool that is run before the processes: it asks every service they   *)
(* need, in rounds, until each has answered once or it gives up.           *)
(***************************************************************************)
EXTENDS Naturals

CONSTANTS
  Services,   \* MongoDB, Redis and, if configured, etcd
  MaxRetry    \* bound: rounds (180 in the code)

ASSUME RetryAssumption == MaxRetry \in Nat \ {0}

VARIABLES
  round,       \* rounds that are over, while there may be more
  todo,        \* services this round has not come to yet
  checksDone,  \* services that have answered
  allSuccess,  \* whether no service has failed in this round
  verdict      \* "none", "passed" or "failed"

checkVars == <<round, todo, checksDone, allSuccess, verdict>>

CheckInit ==
  /\ round = 0 /\ todo = Services /\ checksDone = {}
  /\ allSuccess = TRUE /\ verdict = "none"

\* Mutant: the last service decides the round.
LastDecides(soFar, answered) == answered

RoundSuccess(soFar, answered) == soFar /\ answered

\* A map is walked in any order; who has answered before is not asked again.
Check(s) ==
  /\ verdict = "none"
  /\ s \in todo
  /\ todo' = todo \ {s}
  /\ \E answered \in (IF s \in checksDone THEN {TRUE} ELSE BOOLEAN) :
       /\ allSuccess' = RoundSuccess(allSuccess, answered)
       /\ checksDone' = IF answered THEN checksDone \cup {s} ELSE checksDone
  /\ UNCHANGED <<round, verdict>>

EndRound ==
  /\ verdict = "none"
  /\ todo = {}
  /\ verdict' = IF allSuccess THEN "passed"
                ELSE IF round + 1 = MaxRetry THEN "failed" ELSE "none"
  /\ round' = IF verdict' = "none" THEN round + 1 ELSE 0
  /\ todo' = Services /\ allSuccess' = TRUE
  /\ UNCHANGED checksDone

CheckStep == EndRound \/ \E s \in Services : Check(s)
=============================================================================
