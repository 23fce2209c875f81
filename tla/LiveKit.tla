------------------------------ MODULE LiveKit ------------------------------
(***************************************************************************)
(* The LiveKit room service and its clients, as the meeting server sees    *)
(* them through pkg/rtc/livekit.  LiveKit itself is not in the repository: *)
(* what a call does is read off how the server uses it.                    *)
(*                                                                         *)
(* A room is named by the meeting it serves.  Its metadata is one value    *)
(* that is read whole and written whole: nothing protects a reader that    *)
(* intends to write back.  A client connects with a join token; a client   *)
(* that connects to a room LiveKit no longer has makes LiveKit create it   *)
(* anew, with no metadata, which is the case JoinMeeting tests for         *)
(* (room.Metadata == "").  A token is good for an hour and may be used     *)
(* again, so it is never withdrawn: a client whose token has expired is    *)
(* one that does not use it any more.                                      *)
(***************************************************************************)
EXTENDS Integers

CONSTANTS
  Users,        \* identities of users
  MaxMeetings,  \* bound on the number of meetings ever created
  None,         \* no room, no document, no value
  Blank         \* the metadata of a room LiveKit created by itself

ASSUME MaxMeetingsAssumption == MaxMeetings \in Nat

VARIABLES
  rooms,    \* the metadata of each open room
  members,  \* who is connected to each room
  passes    \* the join tokens handed out

rtcVars == <<rooms, members, passes>>

MeetingIDs == 1 .. MaxMeetings

Pass == [user : Users, meeting : MeetingIDs]

RtcInit ==
  /\ rooms = [m \in MeetingIDs |-> None]
  /\ members = [m \in MeetingIDs |-> {}]
  /\ passes = {}

Open(m) == rooms[m] # None

OpenRooms == {m \in MeetingIDs : Open(m)}

-----------------------------------------------------------------------------
(* Calls of the server.  Each is one request to LiveKit. *)

\* CreateRoom of a room that exists succeeds; the room may keep its metadata
\* or take the new one, and its participants stay.
CreateRoom(m, metadata) ==
  /\ \E kept \in {metadata} \cup ({rooms[m]} \ {None}) :
       rooms' = [rooms EXCEPT ![m] = kept]
  /\ UNCHANGED members

\* UpdateRoomMetadata replaces the whole value; it needs the room to exist.
UpdateRoomMetadata(m, metadata) ==
  /\ Open(m)
  /\ rooms' = [rooms EXCEPT ![m] = metadata]
  /\ UNCHANGED members

\* DeleteRoom disconnects everybody in the room.
DeleteRoom(m) ==
  /\ rooms' = [rooms EXCEPT ![m] = None]
  /\ members' = [members EXCEPT ![m] = {}]

\* RemoveParticipant of somebody who is not there is not an error.
RemoveParticipant(m, u) ==
  /\ members' = [members EXCEPT ![m] = @ \ {u}]
  /\ UNCHANGED rooms

\* A join token is signed by the server itself: LiveKit is not asked.
GetJoinToken(m, u) ==
  passes' = passes \cup {[user |-> u, meeting |-> m]}

-----------------------------------------------------------------------------
(* What LiveKit and its clients do by themselves. *)

Connect(u, m) ==
  /\ [user |-> u, meeting |-> m] \in passes
  /\ u \notin members[m]
  /\ members' = [members EXCEPT ![m] = @ \cup {u}]
  /\ rooms' = [rooms EXCEPT ![m] = IF Open(m) THEN @ ELSE Blank]
  /\ UNCHANGED passes

Disconnect(u, m) ==
  /\ u \in members[m]
  /\ members' = [members EXCEPT ![m] = @ \ {u}]
  /\ UNCHANGED <<rooms, passes>>

\* An empty room goes away by itself (EmptyTimeout).
RoomExpires(m) ==
  /\ Open(m)
  /\ members[m] = {}
  /\ rooms' = [rooms EXCEPT ![m] = None]
  /\ UNCHANGED <<members, passes>>

Clients ==
  \E m \in MeetingIDs :
    \/ \E u \in Users : Connect(u, m) \/ Disconnect(u, m)
    \/ RoomExpires(m)
=============================================================================
