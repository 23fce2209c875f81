-------------------------- MODULE MeetingLifecycle --------------------------
(***************************************************************************)
(* What the meeting server promises about meetings, with no word on how:   *)
(* a number is issued once; the meeting stored under a number belongs to   *)
(* the user it was issued to; a meeting is "In-Progress" only from its     *)
(* creation until its status is settled; a cancelled meeting is gone for   *)
(* good, and its number is never used again.                               *)
(***************************************************************************)
CONSTANTS
  Users,
  Numbers,    \* meeting numbers
  Nobody,     \* no user, no meeting
  Gone        \* in place of a cancelled meeting

VARIABLES
  holder,     \* the user a number was issued to
  meeting     \* the creator and the status of a stored meeting

vars == <<holder, meeting>>

Init ==
  /\ holder = [n \in Numbers |-> Nobody]
  /\ meeting = [n \in Numbers |-> Nobody]

Issue(n, u) ==
  /\ holder[n] = Nobody
  /\ holder' = [holder EXCEPT ![n] = u]
  /\ UNCHANGED meeting

\* A meeting starts its life booked for later or already running.
Store(n) ==
  /\ holder[n] # Nobody
  /\ meeting[n] = Nobody
  /\ \E s \in {"Scheduled", "In-Progress"} :
       meeting' = [meeting EXCEPT ![n] = [creator |-> holder[n], status |-> s]]
  /\ UNCHANGED holder

Live(n) == meeting[n] \notin {Nobody, Gone}

\* One session is over: the meeting is done, or waits for its next session.
Settle(n) ==
  /\ Live(n)
  /\ \E s \in {"Scheduled", "Completed"} :
       meeting' = [meeting EXCEPT ![n] = [creator |-> holder[n], status |-> s]]
  /\ UNCHANGED holder

Cancel(n) ==
  /\ Live(n)
  /\ meeting' = [meeting EXCEPT ![n] = Gone]
  /\ UNCHANGED holder

Next ==
  \E n \in Numbers :
    \/ \E u \in Users : Issue(n, u)
    \/ Store(n)
    \/ Settle(n)
    \/ Cancel(n)

Spec == Init /\ [][Next]_vars
=============================================================================
