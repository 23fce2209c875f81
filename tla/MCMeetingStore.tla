--------------------------- MODULE MCMeetingStore ---------------------------
(***************************************************************************)
(* Values of the constants of MeetingStore for TLC.                        *)
(***************************************************************************)
EXTENDS MeetingStore, TLC

WorkersAlike == Permutations(Workers)

OneMeeting == {[kind |-> "meeting", name |-> "000000001"]}

\* A user may be registered under any ID that has no colon.
SameName == OneMeeting \cup {[kind |-> "user", name |-> "000000001"]}
=============================================================================
