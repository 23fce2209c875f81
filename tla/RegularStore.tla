---------------------------- MODULE RegularStore ----------------------------
(***************************************************************************)
(* What the storage of meetings and users promises, with no word on caches *)
(* and locks: one document per record, written one version after another.  *)
(* A reader gets the document of the record asked for, in a version that   *)
(* is there when he gets it, and no older than the last write that was     *)
(* through when he asked.  In between it may be the old version or the new *)
(* one, and the next reader may still get the old: a regular register, not *)
(* an atomic one.                                                          *)
(***************************************************************************)
EXTENDS Integers

CONSTANTS
  Readers,
  Records,
  MaxWrites,  \* bound on the writes to one document
  Nothing     \* not reading, nothing found yet

VARIABLES
  document,   \* of each record: how often it was written, and whether it is there
  through,    \* of each record: the last version every later reader may count on
  reading     \* of each reader: the record, the version to count on, the answer

vars == <<document, through, reading>>

Version(r) == [of : {r}, number : 0 .. MaxWrites, live : BOOLEAN]

Init ==
  /\ document = [r \in Records |-> [of |-> r, number |-> 0, live |-> FALSE]]
  /\ through = [r \in Records |-> 0]
  /\ reading = [p \in Readers |-> Nothing]

Write(r) ==
  /\ \E d \in Version(r) :
       /\ d.number = document[r].number + 1
       /\ document' = [document EXCEPT ![r] = d]
  /\ UNCHANGED <<through, reading>>

GetThrough(r) ==
  /\ \E n \in through[r] .. document[r].number : through' = [through EXCEPT ![r] = n]
  /\ UNCHANGED <<document, reading>>

Ask(p, r) ==
  /\ reading[p] = Nothing
  /\ reading' = [reading EXCEPT ![p] = [rec |-> r, floor |-> through[r], found |-> Nothing]]
  /\ UNCHANGED <<document, through>>

\* That there is no document is an answer too.
Find(p) ==
  /\ reading[p] # Nothing
  /\ reading[p].found = Nothing
  /\ \E d \in Version(reading[p].rec) :
       /\ d.number \in reading[p].floor .. document[d.of].number
       /\ d.number = document[d.of].number => d = document[d.of]
       /\ reading' = [reading EXCEPT ![p].found = d]
  /\ UNCHANGED <<document, through>>

\* With the answer, or with an error.
Leave(p) ==
  /\ reading[p] # Nothing
  /\ reading' = [reading EXCEPT ![p] = Nothing]
  /\ UNCHANGED <<document, through>>

Next ==
  \/ \E r \in Records : Write(r) \/ GetThrough(r)
  \/ \E p \in Readers : (\E r \in Records : Ask(p, r)) \/ Find(p) \/ Leave(p)

Spec == Init /\ [][Next]_vars
=============================================================================
