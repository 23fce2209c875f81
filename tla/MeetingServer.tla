--------------------------- MODULE MeetingServer ---------------------------
(***************************************************************************)
(* The meeting service of openmeeting-server (internal/rpc/meeting): its   *)
(* gRPC handlers, run by concurrent workers over two shared stores, the    *)
(* meeting documents in MongoDB and the room metadata in LiveKit.          *)
(*                                                                         *)
(* A handler is a sequence of steps, each with at most one call to another *)
(* process, and nothing locks either store between them: what a handler    *)
(* read is kept in call[w] and may be stale by the time it is used.        *)
(* call[w].at is the step the worker is about to take.                     *)
(*                                                                         *)
(* Abstractions.  What a creator can edit (title, times, password,         *)
(* settings, repeat rule) is one value, an info; two infos have different  *)
(* passwords, so a password is named by its info.  Camera and microphone   *)
(* are one device.  The clock is a choice: whether a meeting is over, or   *)
(* has a next session, may come out either way wherever the code asks, and *)
(* for some rules (see MeetingSchedule) the code may ask for ever.         *)
(* A document is read as it was last committed: the cache in front of      *)
(* MongoDB is left to a module of its own.                                 *)
(***************************************************************************)
EXTENDS LiveKit, FiniteSets

CONSTANTS
  Workers,    \* handlers that may run at the same time
  Infos,      \* what a creator can edit of a meeting
  Repeats,    \* the infos that carry a repeat rule
  Endless,    \* those whose rule the search for a next session may not end for
  Cancelled,  \* in place of a document that was deleted
  Calls,      \* the requests clients send
  Failures    \* whether a call to another process may fail, or the server stop

VARIABLES
  db,         \* the meeting documents
  lastID,     \* the counter in Redis that numbers meetings
  call,       \* what each worker is doing
  owner,      \* history: the user each meeting number was generated for
  trail       \* history: the settings somebody had the right to make

serverVars == <<db, lastID, call>>
history == <<owner, trail>>
vars == <<rooms, members, passes, db, lastID, call, owner, trail>>

-----------------------------------------------------------------------------
(* Data. *)

Statuses == {"Scheduled", "In-Progress", "Completed"}

Doc == [creator : Users, status : Statuses, info : Infos]

\* What MeetingLifecycle knows of a meeting.
Brief == [creator : Users, status : Statuses]

\* self: the device is on by the user's own setting.  limit: it is allowed.
Entry == [self : BOOLEAN, limit : BOOLEAN]

DefaultEntry == [self |-> FALSE, limit |-> TRUE]

Meta == [meeting : MeetingIDs, creator : Users, host : Users,
         cohosts : SUBSET Users, info : Infos,
         personal : [Users -> Entry \cup {None}]]

Stored(m) == db[m] \notin {None, Cancelled}

\* Mutant: numbers by the count of documents, not by a counter of their own.
NextIDByCount(counter) == Cardinality({m \in MeetingIDs : Stored(m)}) + 1

\* INCR answers with the value it leaves.
NextID(counter) == counter + 1

\* generateMeetingDBData4Booking and generateMeetingDBData4Create
NewDoc(req) ==
  [creator |-> req.user, info |-> req.info,
   status |-> IF req.op = "Book" THEN "Scheduled" ELSE "In-Progress"]

\* generateMeetingMetaData and generateMeetingMetaData4Create
NewMeta(m, doc) ==
  [meeting |-> m, creator |-> doc.creator, host |-> doc.creator,
   cohosts |-> {}, info |-> doc.info,
   personal |-> [u \in Users |-> IF u = doc.creator THEN DefaultEntry ELSE None]]

\* GetRoomData: no metadata is as good as no room.
HasRoomData(m) == rooms[m] \notin {None, Blank}

\* What a handler that carries on without metadata may work with: an error of
\* LiveKit looks to it like a room without metadata.
SeenData(m) ==
  {IF HasRoomData(m) THEN rooms[m] ELSE None} \cup {md \in {None} : Failures}

\* Mutant: nobody checks.
NoAuthPermission(creator, host, user) == TRUE

CheckAuthPermission(creator, host, user) == user = host \/ user = creator

-----------------------------------------------------------------------------
(* Requests and the state of a handler. *)

BookRequest   == [op : {"Book", "Create"}, user : Users, info : Infos]
JoinRequest   == [op : {"Join", "Update"}, user : Users, meeting : MeetingIDs,
                  info : Infos]
EntryRequest  == [op : {"Token", "Leave"}, user : Users, meeting : MeetingIDs]
EndRequest    == [op : {"End"}, user : Users, meeting : MeetingIDs,
                  type : {"End", "Cancel", "Other"}]
DeviceRequest == [op : {"SetPersonal"}, user : Users, meeting : MeetingIDs,
                  target : Users, value : {"unset", "on", "off"}]
HostRequest   == [op : {"SetHost"}, user : Users, meeting : MeetingIDs,
                  host : Users \cup {None}, cohosts : SUBSET Users]
RemoveRequest == [op : {"Remove"}, user : Users, meeting : MeetingIDs,
                  targets : SUBSET Users]
SweepRequest  == [op : {"Clean", "GetMeetings"}, user : Users]

MeetingRequest == JoinRequest \cup EntryRequest \cup EndRequest
                    \cup DeviceRequest \cup HostRequest \cup RemoveRequest
Request == MeetingRequest \cup BookRequest \cup SweepRequest

ASSUME CallsAssumption == Calls \subseteq Request
ASSUME RepeatsAssumption == Repeats \subseteq Infos
ASSUME EndlessAssumption == Endless \subseteq Repeats
ASSUME FailuresAssumption == Failures \in BOOLEAN
ASSUME NoneAssumption ==
  /\ None \notin Doc \cup Meta \cup Entry \cup Users \cup MeetingIDs \cup Statuses
  /\ Cancelled \notin Doc \cup {None}
  /\ {None, Cancelled} \cap Brief = {}
  /\ Blank \notin Meta \cup {None}

\* What a handler is going to do to meetings, with what it found of them.
Plan == [MeetingIDs -> {None, "Scheduled", "Completed", "Never"}]

NoPlan == [m \in MeetingIDs |-> None]

IdleCall == [at |-> "idle", req |-> None, id |-> None, doc |-> None,
             md |-> None, todo |-> {}, left |-> {}, plan |-> NoPlan]

At(w, op, label) == call[w].at = label /\ call[w].req.op \in op

Goto(w, label) == call' = [call EXCEPT ![w].at = label]

\* The handler answers its caller, with a result or with an error.
Return(w) == call' = [call EXCEPT ![w] = IdleCall]

FirstStep(op) ==
  CASE op = "Book"                              -> "number"
    [] op \in {"Create", "Clean"}               -> "list"
    [] op \in {"Join", "End", "Update"}         -> "take"
    [] op = "Token"                             -> "grant"
    [] op = "Leave"                             -> "leave"
    [] op \in {"SetPersonal", "SetHost", "Remove"} -> "look"
    [] op = "GetMeetings"                       -> "find"

Begin(w, req) ==
  /\ call[w].at = "idle"
  /\ call' = [call EXCEPT ![w] =
       [IdleCall EXCEPT !.at = FirstStep(req.op), !.req = req,
          !.id = IF req \in MeetingRequest THEN req.meeting ELSE None]]
  /\ UNCHANGED <<rtcVars, db, lastID, history>>

\* A call to another process fails where the handler gives up on an error, or
\* the server stops: the handler goes no further, what it did stays done.
Fail(w) ==
  /\ Failures
  /\ call[w].at # "idle"
  /\ Return(w)
  /\ UNCHANGED <<rtcVars, db, lastID, history>>

-----------------------------------------------------------------------------
(* Steps that several handlers share. *)

\* checkUserInMeeting asks for the list of rooms ...
ListRooms(w) ==
  /\ At(w, {"Create", "Join", "Clean"}, "list")
  /\ call' = [call EXCEPT ![w].todo = OpenRooms,
       ![w].at = IF call[w].req.op = "Clean" THEN "clean" ELSE "scan"]
  /\ UNCHANGED <<rtcVars, db, lastID, history>>

\* ... then for the participants of each, and refuses a user it finds.
ScanRoom(w) ==
  /\ At(w, {"Create", "Join"}, "scan")
  /\ \E m \in call[w].todo :
       IF call[w].req.user \in members[m]
       THEN Return(w)
       ELSE call' = [call EXCEPT ![w].todo = @ \ {m}]
  /\ UNCHANGED <<rtcVars, db, lastID, history>>

UserIsFree(w) ==
  /\ At(w, {"Create", "Join"}, "scan")
  /\ call[w].todo = {}
  /\ Goto(w, IF call[w].req.op = "Create" THEN "number" ELSE "look")
  /\ UNCHANGED <<rtcVars, db, lastID, history>>

\* TakeWithError: the document as it is now.  UpdateMeeting refuses a
\* completed meeting; the others do not look at the status.
CanTake(w) ==
  /\ Stored(call[w].id)
  /\ call[w].req.op = "Update" => db[call[w].id].status # "Completed"

Take(w) ==
  /\ At(w, {"Join", "End", "Update"}, "take")
  /\ IF CanTake(w)
     THEN call' = [call EXCEPT ![w].doc = db[call[w].id],
            ![w].at = IF call[w].req.op = "Join" THEN "list" ELSE "look"]
     ELSE Return(w)
  /\ UNCHANGED <<rtcVars, db, lastID, history>>

\* GenerateMeetingID, and the data that go under the new number.  A handler
\* that finds no number left gives up, which only the bound MaxMeetings makes.
GenerateMeetingID(w) ==
  /\ At(w, {"Book", "Create"}, "number")
  /\ LET doc == NewDoc(call[w].req)
         id == NextID(lastID)
     IN  IF lastID < MaxMeetings
         THEN /\ lastID' = lastID + 1
              /\ owner' = [owner EXCEPT ![id] = call[w].req.user]
              /\ call' = [call EXCEPT ![w].id = id, ![w].doc = doc,
                   ![w].md = NewMeta(id, doc),
                   ![w].at = IF call[w].req.op = "Book" THEN "insert" ELSE "open"]
         ELSE Return(w) /\ UNCHANGED <<lastID, owner>>
  /\ UNCHANGED <<rtcVars, db, trail>>

\* meetingRtc.CreateRoom, which signs the join token as well: JoinMeeting
\* returns it at once, CreateImmediateMeeting has more to do.
OpenRoom(w) ==
  /\ At(w, {"Create", "Join"}, "open")
  /\ CreateRoom(call[w].id, call[w].md)
  /\ IF call[w].req.op = "Join"
     THEN GetJoinToken(call[w].id, call[w].req.user) /\ Return(w)
     ELSE Goto(w, "insert") /\ UNCHANGED passes
  /\ UNCHANGED <<db, lastID, history>>

\* meetingStorageHandler.Create, under a unique index on the number.
InsertMeeting(w) ==
  /\ At(w, {"Book", "Create"}, "insert")
  /\ IF db[call[w].id] = None
     THEN /\ db' = [db EXCEPT ![call[w].id] = call[w].doc]
          /\ IF call[w].req.op = "Book" THEN Return(w) ELSE Goto(w, "publish")
     ELSE Return(w) /\ UNCHANGED db
  /\ UNCHANGED <<rtcVars, lastID, history>>

\* UpdateMetaData, the last step of every handler that edits the metadata: the
\* room is the one the metadata name.  CreateImmediateMeeting and JoinMeeting
\* answer with the token they signed only when it succeeds.
Publish(w) ==
  /\ call[w].at = "publish"
  /\ IF Open(call[w].md.meeting)
     THEN /\ UpdateRoomMetadata(call[w].md.meeting, call[w].md)
          /\ IF call[w].req.op \in {"Create", "Join"}
             THEN GetJoinToken(call[w].id, call[w].req.user)
             ELSE UNCHANGED passes
     ELSE UNCHANGED rtcVars
  /\ Return(w)
  /\ UNCHANGED <<db, lastID, history>>

-----------------------------------------------------------------------------
(* JoinMeeting, GetMeetingToken, LeaveMeeting *)

\* JoinMeeting finds no room: it opens one from the document, unless the
\* meeting does not repeat and is over (checkCanStartMeeting).
JoinWithoutRoom(w) ==
  /\ At(w, {"Join"}, "look")
  /\ ~ Open(call[w].id)
  /\ \/ call' = [call EXCEPT ![w].md = NewMeta(call[w].id, call[w].doc),
                             ![w].at = "open"]
     \/ call[w].doc.info \notin Repeats /\ Return(w)
  /\ UNCHANGED <<rtcVars, db, lastID, history>>

\* The metadata a joiner starts from: the room's, or new ones if it has none.
JoinBase(w) ==
  IF rooms[call[w].id] = Blank THEN NewMeta(call[w].id, call[w].doc)
                               ELSE rooms[call[w].id]

WithEntry(md, u) ==
  IF md.personal[u] = None THEN [md EXCEPT !.personal[u] = DefaultEntry] ELSE md

\* JoinMeeting finds the room: the password is checked, unless the user is the
\* host or the creator, and the user gets personal data of his own.
JoinRoom(w) ==
  /\ At(w, {"Join"}, "look")
  /\ Open(call[w].id)
  /\ LET md == JoinBase(w)
         u == call[w].req.user
     IN  IF CheckAuthPermission(md.creator, md.host, u) \/ call[w].req.info = md.info
         THEN call' = [call EXCEPT ![w].at = "publish",
                ![w].md = [WithEntry(md, u) EXCEPT !.meeting = call[w].id]]
         ELSE Return(w)
  /\ UNCHANGED <<rtcVars, db, lastID, history>>

GetMeetingToken(w) ==
  /\ At(w, {"Token"}, "grant")
  /\ GetJoinToken(call[w].id, call[w].req.user)
  /\ Return(w)
  /\ UNCHANGED <<rooms, members, db, lastID, history>>

LeaveMeeting(w) ==
  /\ At(w, {"Leave"}, "leave")
  /\ RemoveParticipant(call[w].id, call[w].req.user)
  /\ Return(w)
  /\ UNCHANGED <<passes, db, lastID, history>>

-----------------------------------------------------------------------------
(* EndMeeting *)

\* The host is the one in the room's metadata if they can be had, else the
\* creator.
MayEnd(w, md) ==
  LET creator == call[w].doc.creator
  IN  CheckAuthPermission(creator, IF md = None THEN creator ELSE md.host,
                          call[w].req.user)

\* nextMeetingTimestamp: whether there is a next session is up to the clock, and
\* for some rules the search for it never ends: nothing leads on from "search".
NextSession(info) ==
  {"Completed", "Scheduled"} \cup {s \in {"Never"} : info \in Endless}

EndLook(w) ==
  /\ At(w, {"End"}, "look")
  /\ \E md \in SeenData(call[w].id), s \in NextSession(call[w].doc.info) :
       IF MayEnd(w, md)
       THEN call' = [call EXCEPT ![w].plan[call[w].id] = s,
              ![w].at = IF s = "Never" THEN "search" ELSE "close"]
       ELSE Return(w)
  /\ UNCHANGED <<rtcVars, db, lastID, history>>

\* CloseRoom.  Without a room LiveKit may say so, and the handler gives up.
EndClose(w) ==
  /\ At(w, {"End"}, "close")
  /\ \/ DeleteRoom(call[w].id) /\ Goto(w, "store")
     \/ ~ Open(call[w].id) /\ Return(w) /\ UNCHANGED <<rooms, members>>
  /\ UNCHANGED <<passes, db, lastID, history>>

\* The room is closed before the type of end is found not to be supported; a
\* document that is gone by now leaves Update and Delete nothing to do.
EndStore(w) ==
  /\ At(w, {"End"}, "store")
  /\ LET m == call[w].id IN
       db' = CASE ~ Stored(m)                     -> db
               [] Stored(m) /\ call[w].req.type = "End"
                            -> [db EXCEPT ![m].status = call[w].plan[m]]
               [] Stored(m) /\ call[w].req.type = "Cancel"
                            -> [db EXCEPT ![m] = Cancelled]
               [] Stored(m) /\ call[w].req.type = "Other" -> db
  /\ Return(w)
  /\ UNCHANGED <<rtcVars, lastID, history>>

-----------------------------------------------------------------------------
(* UpdateMeeting *)

\* The copy of the metadata taken here is the one written back at the end.
UpdateLook(w) ==
  /\ At(w, {"Update"}, "look")
  /\ \E md \in SeenData(call[w].id) :
       call' = [call EXCEPT ![w].at = "store", ![w].md = md]
  /\ UNCHANGED <<rtcVars, db, lastID, history>>

\* Mutant: the document read at the start is stored whole, with the new info.
PatchedCopy(w) == [call[w].doc EXCEPT !.info = call[w].req.info]

\* getDBUpdateData: only the fields of the request are set in the document.
Patched(w) == [db[call[w].id] EXCEPT !.info = call[w].req.info]

\* Mutant: the metadata are rewritten even if there were none.
UpdatesAnyRoom(w) == TRUE

UpdatesRoom(w) == call[w].md # None

\* MongoDB does not mind an update that finds no document.
UpdateStore(w) ==
  /\ At(w, {"Update"}, "store")
  /\ db' = IF Stored(call[w].id) THEN [db EXCEPT ![call[w].id] = Patched(w)] ELSE db
  /\ IF UpdatesRoom(w) THEN Goto(w, "retake") ELSE Return(w)
  /\ UNCHANGED <<rtcVars, lastID, history>>

\* updateMeetingMetaData reads the document again ...
UpdateRetake(w) ==
  /\ At(w, {"Update"}, "retake")
  /\ IF Stored(call[w].id)
     THEN call' = [call EXCEPT ![w].at = "relook", ![w].doc = db[call[w].id]]
     ELSE Return(w)
  /\ UNCHANGED <<rtcVars, db, lastID, history>>

\* Mutant: the caller passes for the creator.
DetailOfCaller(w, md) ==
  [call[w].md EXCEPT !.creator = call[w].req.user, !.info = call[w].doc.info]

\* Mutant: the details are those read before the update.
DetailBefore(w, md) == call[w].md

\* ... and getMeetingDetailSetting the host and co-hosts of the room, which fall
\* back to the creator and to none if the room's metadata cannot be had.  The
\* personal data are still those of the first read.
Detail(w, md) ==
  LET now == IF md = None THEN NewMeta(call[w].id, call[w].doc) ELSE md
  IN  [meeting |-> call[w].id, creator |-> call[w].doc.creator,
       info |-> call[w].doc.info, host |-> now.host, cohosts |-> now.cohosts,
       personal |-> call[w].md.personal]

UpdateRelook(w) ==
  /\ At(w, {"Update"}, "relook")
  /\ \E md \in SeenData(call[w].id) :
       call' = [call EXCEPT ![w].at = "publish", ![w].md = Detail(w, md)]
  /\ UNCHANGED <<rtcVars, db, lastID, history>>

-----------------------------------------------------------------------------
(* Handlers that edit the metadata of an open room. *)

\* Mutant: the limit meant for somebody else goes to whoever sets it.
AdjustedOwn(md, req) ==
  LET base == WithEntry(WithEntry(md, req.target), req.user)
      on == req.value = "on"
  IN  CASE req.value = "unset" -> base
        [] req.value # "unset" /\ req.user = req.target
             -> [base EXCEPT !.personal[req.user].self = on]
        [] req.value # "unset" /\ req.user # req.target
             -> [base EXCEPT !.personal[req.user].limit = on]

\* SetPersonalMeetingSettings: users their own devices, the host the limits of
\* others.  With nothing to set and data found, nothing is written.
Adjusted(md, req) ==
  LET base == WithEntry(md, req.target)
      on == req.value = "on"
  IN  CASE req.value = "unset"                               -> base
        [] req.value # "unset" /\ req.user = req.target
             -> [base EXCEPT !.personal[req.target].self = on]
        [] req.value # "unset" /\ req.user # req.target
             -> [base EXCEPT !.personal[req.target].limit = on]

\* Mutant: the creator may, as he may do everything else.
CreatorMaySetPersonal(md, req) == req.user \in {md.host, md.creator, req.target}

MaySetPersonal(md, req) == req.user = md.host \/ req.user = req.target

PersonalFacts(m, req) ==
  CASE req.value = "on" /\ req.user = req.target
         -> {[kind |-> "on", meeting |-> m, of |-> req.target, by |-> req.user]}
    [] req.value = "off" /\ req.user # req.target
         -> {[kind |-> "limit", meeting |-> m, of |-> req.target, by |-> req.user]}
    [] OTHER -> {}

SetPersonalMeetingSettings(w) ==
  /\ At(w, {"SetPersonal"}, "look")
  /\ LET md == rooms[call[w].id]
         req == call[w].req
     IN  IF /\ HasRoomData(call[w].id)
            /\ MaySetPersonal(md, req)
            /\ Adjusted(md, req) # md \/ req.value # "unset"
         THEN /\ call' = [call EXCEPT ![w].at = "publish", ![w].md = Adjusted(md, req)]
              /\ trail' = trail \cup PersonalFacts(call[w].id, req)
         ELSE Return(w) /\ UNCHANGED trail
  /\ UNCHANGED <<rtcVars, db, lastID, owner>>

\* SetMeetingHostInfo: nobody asks whether the new host is in the room.
Appointed(md, req) ==
  [md EXCEPT !.host = IF req.host = None THEN @ ELSE req.host,
             !.cohosts = @ \cup req.cohosts]

HostFacts(m, req) ==
  {[kind |-> "host", meeting |-> m, of |-> u, by |-> req.user] : u \in {req.host} \ {None}}
    \cup {[kind |-> "cohost", meeting |-> m, of |-> u, by |-> req.user] : u \in req.cohosts}

SetMeetingHostInfo(w) ==
  /\ At(w, {"SetHost"}, "look")
  /\ LET md == rooms[call[w].id]
         req == call[w].req
     IN  IF HasRoomData(call[w].id) /\ CheckAuthPermission(md.creator, md.host, req.user)
         THEN /\ call' = [call EXCEPT ![w].at = "publish", ![w].md = Appointed(md, req)]
              /\ trail' = trail \cup HostFacts(call[w].id, req)
         ELSE Return(w) /\ UNCHANGED trail
  /\ UNCHANGED <<rtcVars, db, lastID, owner>>

RemoveLook(w) ==
  /\ At(w, {"Remove"}, "look")
  /\ LET md == rooms[call[w].id]
         req == call[w].req
     IN  IF HasRoomData(call[w].id) /\ CheckAuthPermission(md.creator, md.host, req.user)
         THEN call' = [call EXCEPT ![w].at = "remove", ![w].left = req.targets]
         ELSE Return(w)
  /\ UNCHANGED <<rtcVars, db, lastID, history>>

\* A participant that cannot be removed is reported and the loop goes on.
RemoveOne(w) ==
  /\ At(w, {"Remove"}, "remove")
  /\ \/ \E u \in call[w].left :
          /\ call' = [call EXCEPT ![w].left = @ \ {u}]
          /\ \/ RemoveParticipant(call[w].id, u)
             \/ Failures /\ UNCHANGED <<rooms, members>>
     \/ call[w].left = {} /\ Return(w) /\ UNCHANGED <<rooms, members>>
  /\ UNCHANGED <<passes, db, lastID, history>>

-----------------------------------------------------------------------------
(* CleanPreviousMeetings and the refresh GetMeetings starts with. *)

\* For each room of the listing: if the user is in it, out with him.  Whatever
\* fails, the loop goes on to the next room.
CleanRoom(w) ==
  /\ At(w, {"Clean"}, "clean")
  /\ \/ \E m \in call[w].todo :
          /\ call' = [call EXCEPT ![w].todo = @ \ {m}]
          /\ \/ RemoveParticipant(m, call[w].req.user)
             \/ Failures /\ UNCHANGED <<rooms, members>>
     \/ call[w].todo = {} /\ Return(w) /\ UNCHANGED <<rooms, members>>
  /\ UNCHANGED <<passes, db, lastID, history>>

\* refreshMeetingStatus works on one listing of the live meetings.  A meeting
\* without a repeat rule can only be found over; one with a rule may also be
\* put back to wait; None where the status is left alone, or the loop does not
\* come to, as the search for the next session of another one never ends.
Verdicts ==
  {p \in Plan :
     /\ \A m \in MeetingIDs : p[m] # None =>
          /\ Stored(m)
          /\ db[m].status \in {"In-Progress", "Scheduled"}
          /\ p[m] \in IF db[m].info \in Repeats THEN NextSession(db[m].info)
                                              ELSE {"Completed"}
     /\ \A m, n \in MeetingIDs : p[m] = "Never" /\ p[n] = "Never" => m = n}

FindMeetings(w) ==
  /\ At(w, {"GetMeetings"}, "find")
  /\ \E p \in Verdicts :
       call' = [call EXCEPT ![w].plan = p, ![w].at = "sweep"]
  /\ UNCHANGED <<rtcVars, db, lastID, history>>

\* handleCompleteMeeting: a room that cannot be closed is left open.
RefreshClose(w) ==
  /\ At(w, {"GetMeetings"}, "sweep")
  /\ \E m \in MeetingIDs :
       /\ call[w].plan[m] = "Completed"
       /\ call' = [call EXCEPT ![w].id = m, ![w].at = "settle"]
       /\ DeleteRoom(m) \/ (Failures /\ UNCHANGED <<rooms, members>>)
  /\ UNCHANGED <<passes, db, lastID, history>>

\* Mutant: a status that finds no document is tried again.
RefreshStoreRetried(w) ==
  /\ \E m \in MeetingIDs :
       /\ \/ At(w, {"GetMeetings"}, "settle") /\ m = call[w].id
          \/ At(w, {"GetMeetings"}, "sweep") /\ call[w].plan[m] = "Scheduled"
       /\ Stored(m)
       /\ db' = [db EXCEPT ![m].status = call[w].plan[m]]
       /\ call' = [call EXCEPT ![w].at = "sweep", ![w].id = None, ![w].plan[m] = None]
  /\ UNCHANGED <<rtcVars, lastID, history>>

\* The status goes into the document as it is now, if there still is one.
RefreshStore(w) ==
  /\ \E m \in MeetingIDs :
       /\ \/ At(w, {"GetMeetings"}, "settle") /\ m = call[w].id
          \/ At(w, {"GetMeetings"}, "sweep") /\ call[w].plan[m] = "Scheduled"
       /\ \/ Stored(m) /\ db' = [db EXCEPT ![m].status = call[w].plan[m]]
          \/ (Failures \/ ~ Stored(m)) /\ UNCHANGED db
       /\ call' = [call EXCEPT ![w].at = "sweep", ![w].id = None, ![w].plan[m] = None]
  /\ UNCHANGED <<rtcVars, lastID, history>>

\* The handler answers, or comes to the meeting whose search never ends.
RefreshDone(w) ==
  /\ At(w, {"GetMeetings"}, "sweep")
  /\ \A m \in MeetingIDs : call[w].plan[m] \in {None, "Never"}
  /\ IF call[w].plan = NoPlan THEN Return(w) ELSE Goto(w, "search")
  /\ UNCHANGED <<rtcVars, db, lastID, history>>

-----------------------------------------------------------------------------
Init ==
  /\ RtcInit
  /\ db = [m \in MeetingIDs |-> None]
  /\ lastID = 0
  /\ call = [w \in Workers |-> IdleCall]
  /\ owner = [m \in MeetingIDs |-> None]
  /\ trail = {}

Step(w) ==
  \/ ListRooms(w) \/ ScanRoom(w) \/ UserIsFree(w) \/ Take(w)
  \/ GenerateMeetingID(w) \/ OpenRoom(w) \/ InsertMeeting(w) \/ Publish(w)
  \/ JoinWithoutRoom(w) \/ JoinRoom(w) \/ GetMeetingToken(w) \/ LeaveMeeting(w)
  \/ EndLook(w) \/ EndClose(w) \/ EndStore(w)
  \/ UpdateLook(w) \/ UpdateStore(w) \/ UpdateRetake(w) \/ UpdateRelook(w)
  \/ SetPersonalMeetingSettings(w) \/ SetMeetingHostInfo(w)
  \/ RemoveLook(w) \/ RemoveOne(w) \/ CleanRoom(w)
  \/ FindMeetings(w) \/ RefreshClose(w) \/ RefreshStore(w) \/ RefreshDone(w)

Next ==
  \/ \E w \in Workers :
       \/ \E req \in Calls : Begin(w, req)
       \/ Fail(w)
       \/ Step(w)
  \/ Clients /\ UNCHANGED <<serverVars, history>>

Spec == Init /\ [][Next]_vars

\* A handler that can go on does so; clients and LiveKit owe nothing.
FairSpec == Spec /\ \A w \in Workers : WF_vars(Step(w))

-----------------------------------------------------------------------------
(* Types. *)

Steps == {"number", "list", "scan", "take", "look", "open", "insert", "publish",
          "grant", "leave", "close", "store", "retake", "relook", "remove",
          "clean", "find", "sweep", "settle", "search"}

Call == [at : Steps, req : Request, id : MeetingIDs \cup {None},
         doc : Doc \cup {None}, md : Meta \cup {None},
         todo : SUBSET MeetingIDs, left : SUBSET Users, plan : Plan]

StepsOf(op) ==
  CASE op = "Book"        -> {"number", "insert"}
    [] op = "Create"      -> {"list", "scan", "number", "open", "insert", "publish"}
    [] op = "Join"        -> {"take", "list", "scan", "look", "open", "publish"}
    [] op = "Token"       -> {"grant"}
    [] op = "Leave"       -> {"leave"}
    [] op = "End"         -> {"take", "look", "close", "store", "search"}
    [] op = "Update"      -> {"take", "look", "store", "retake", "relook", "publish"}
    [] op = "SetPersonal" -> {"look", "publish"}
    [] op = "SetHost"     -> {"look", "publish"}
    [] op = "Remove"      -> {"look", "remove"}
    [] op = "Clean"       -> {"list", "clean"}
    [] op = "GetMeetings" -> {"find", "sweep", "settle", "search"}

\* What a step needs, an earlier step of the same handler has read.
Prepared(c) ==
  /\ c.at \in StepsOf(c.req.op)
  /\ c.req \in MeetingRequest => c.id = c.req.meeting
  /\ c.at \in {"open", "insert", "settle"} => c.id # None
  /\ c.req.op = "Create" /\ c.at = "publish" => c.id # None
  /\ c.at \in {"open", "publish"} => c.md # None
  /\ c.req.op = "Update" /\ c.at \in {"retake", "relook"} => c.md # None
  /\ c.req.op = "Create" /\ c.at \in {"open", "insert"} => c.md # None /\ c.doc # None
  /\ c.at = "insert" \/ (c.at = "look" /\ c.req.op \in {"Join", "End"}) => c.doc # None
  /\ c.req.op = "Join" /\ c.at \in {"list", "scan"} => c.doc # None
  /\ c.req.op = "Update" /\ c.at = "relook" => c.doc # None
  /\ c.req.op = "End" /\ c.at \in {"close", "store"} =>
       c.plan[c.id] \in {"Scheduled", "Completed"}
  /\ c.at = "search" => \E m \in MeetingIDs : c.plan[m] = "Never"
  /\ c.at = "settle" => c.plan[c.id] = "Completed"
  /\ c.req.op \in {"Clean", "GetMeetings"} => c.doc = None /\ c.md = None
  /\ c.id = None => c.doc = None /\ c.md = None

Fact == [kind : {"host", "cohost", "on", "limit"}, meeting : MeetingIDs,
         of : Users, by : Users]

\* The type invariant: the stores hold what the handlers put there, and no
\* handler reaches a step without the data the step reads (internal/rpc/meeting
\* meeting.go dereferences them without a test).
TypeOK ==
  /\ rooms \in [MeetingIDs -> Meta \cup {None, Blank}]
  /\ members \in [MeetingIDs -> SUBSET Users]
  /\ passes \subseteq Pass
  /\ db \in [MeetingIDs -> Doc \cup {None, Cancelled}]
  /\ lastID \in 0 .. MaxMeetings
  /\ call \in [Workers -> {IdleCall} \cup {c \in Call : Prepared(c)}]
  /\ owner \in [MeetingIDs -> Users \cup {None}]
  /\ trail \subseteq Fact

-----------------------------------------------------------------------------
(* Safety. *)

\* A number goes to one meeting: the number a handler is about to store a
\* document under is free, and no other handler is about to use it, whatever
\* ran since it was generated.  (The unique index in mgo/meeting.go never
\* refuses an insert.)
NumbersAreFresh ==
  \A w \in Workers : call[w].at = "insert" =>
    /\ db[call[w].id] = None
    /\ \A v \in Workers \ {w} :
         call[v].at \in {"open", "insert"} /\ call[v].req.op \in {"Book", "Create"}
           => call[v].id # call[w].id

\* The copies a handler carries are of the meeting it works on.
Agrees(c) ==
  /\ c.doc # None => c.doc.creator = owner[c.id]
  /\ c.md # None => c.md.meeting = c.id /\ c.md.creator = owner[c.id]

\* The two stores agree on whose meeting it is: the document, the metadata of
\* the room and every copy of them a handler carries name the creator the number
\* was generated for, and metadata never end up in the room of another meeting
\* (UpdateMetaData goes by the number inside the metadata).
CreatorsAgree ==
  /\ \A m \in MeetingIDs :
       /\ Stored(m) => db[m].creator = owner[m]
       /\ HasRoomData(m) => rooms[m].meeting = m /\ rooms[m].creator = owner[m]
  /\ \A w \in Workers : Agrees(call[w])

Allowed(kind, m, u) ==
  \E f \in trail : f.kind = kind /\ f.meeting = m /\ f.of = u

Rightful(md) ==
  /\ md.host = md.creator \/ Allowed("host", md.meeting, md.host)
  /\ \A u \in md.cohosts : Allowed("cohost", md.meeting, u)
  /\ \A u \in Users : md.personal[u] # None =>
       /\ md.personal[u].self => Allowed("on", md.meeting, u)
       /\ ~ md.personal[u].limit => Allowed("limit", md.meeting, u)

\* Stale copies of the metadata may undo a setting, and may carry it into a
\* room that was closed and opened again, but they never make one up: whoever
\* is host or co-host, and whoever's device is on or limited, is so by a request
\* that was granted for this very meeting.
SettingsHaveAuthors ==
  /\ \A m \in MeetingIDs : HasRoomData(m) => Rightful(rooms[m])
  /\ \A w \in Workers : call[w].md # None => Rightful(call[w].md)

\* Authority comes from the creator: only users themselves turn their devices
\* on; everything else is granted to the creator of the meeting, or to somebody
\* who was made its host before.
Entitled(f) ==
  \/ f.kind = "on" /\ f.by = f.of
  \/ f.kind # "on" /\ f.by = owner[f.meeting]
  \/ f.kind # "on" /\ Allowed("host", f.meeting, f.by)

AuthorityChain == [][\A f \in trail' \ trail : Entitled(f)]_vars

\* The document and the metadata as one state machine: what MeetingLifecycle
\* promises, the handlers keep, however stale the copies they write from.
Lifecycle == INSTANCE MeetingLifecycle
  WITH Numbers <- MeetingIDs, Nobody <- None, Gone <- Cancelled,
       holder <- owner,
       meeting <- [m \in MeetingIDs |->
         IF Stored(m) THEN [creator |-> db[m].creator, status |-> db[m].status]
                      ELSE db[m]]

LifecycleSpec == Lifecycle!Spec

-----------------------------------------------------------------------------
(* What holds of one handler at a time.  SetPersonalMeetingSettings and        *)
(* UpdateMeeting say so in comments, of the program as it is.                  *)

Idle == \A w \in Workers : call[w].at = "idle"

\* "get the latest data from database and update metadata" (meeting.go:339):
\* with no handler at work, an open room shows what the document says.
RoomShowsDocument ==
  Idle => \A m \in MeetingIDs :
    Stored(m) /\ HasRoomData(m) => rooms[m].info = db[m].info

\* "non host user can not change other people's personal setting"
\* (meeting.go:392): the personal data of a user in a room change only by a
\* request of that user or of the host.
OnlySelfOrHost ==
  [][\A m \in MeetingIDs, u \in Users :
       /\ HasRoomData(m) /\ HasRoomData(m)'
       /\ rooms[m].personal[u] # None
       /\ rooms'[m].personal[u] # rooms[m].personal[u]
       => \E w \in Workers : call'[w] # call[w] /\ call[w].at = "publish"
                             /\ call[w].req.user \in {u, rooms[m].host}]_vars

-----------------------------------------------------------------------------
(* Liveness. *)

\* A handler that began answers its caller, whatever the others do to the stores
\* meanwhile: the loops over rooms, meetings and participants work on what was
\* listed and end.  Only the search for the next session, of a rule it never ends
\* for (logic.go:401-414), keeps one for ever.
EveryCallReturns ==
  \A w \in Workers :
    call[w].at # "idle" ~> \/ call[w].at = "idle"
                           \/ call[w].at = "search" /\ Endless # {}
=============================================================================
