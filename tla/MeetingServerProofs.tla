------------------------ MODULE MeetingServerProofs ------------------------
(***************************************************************************)
(* Theorems about MeetingServer, for any number of users, meetings,        *)
(* workers and infos, any set of requests, with and without failures.      *)
(***************************************************************************)
EXTENDS MeetingServer, TLAPS

-----------------------------------------------------------------------------
(* Data: what the helpers of the handlers return. *)

\* The operation of a request tells its shape.
LEMMA RequestShape ==
  ASSUME NEW req \in Request
  PROVE  /\ req.user \in Users
         /\ req.op \in {"Book", "Create"} => req \in BookRequest
         /\ req.op \in {"Join", "Update"} => req \in JoinRequest
         /\ req.op = "SetPersonal" => req \in DeviceRequest
         /\ req.op = "SetHost" => req \in HostRequest
         /\ req.op = "Remove" => req \in RemoveRequest
         /\ req.op \notin {"Book", "Create", "Clean", "GetMeetings"}
              <=> req \in MeetingRequest
         /\ req \in MeetingRequest => req.meeting \in MeetingIDs
BY DEF Request, MeetingRequest, BookRequest, JoinRequest, EntryRequest, EndRequest,
       DeviceRequest, HostRequest, RemoveRequest, SweepRequest

LEMMA NewMetaType ==
  ASSUME NEW m \in MeetingIDs, NEW doc \in Doc
  PROVE  NewMeta(m, doc) \in Meta
BY DEF NewMeta, Doc, Meta, DefaultEntry, Entry

LEMMA WithEntryType ==
  ASSUME NEW md \in Meta, NEW u \in Users
  PROVE  WithEntry(md, u) \in Meta /\ WithEntry(md, u).personal[u] \in Entry
BY DEF WithEntry, Meta, DefaultEntry, Entry

LEMMA AdjustedType ==
  ASSUME NEW md \in Meta, NEW req \in DeviceRequest
  PROVE  Adjusted(md, req) \in Meta
<1> DEFINE base == WithEntry(md, req.target)
           e == base.personal[req.target]
<1>1. req.target \in Users /\ req.value \in {"unset", "on", "off"}
  BY DEF DeviceRequest
<1>2. base \in Meta /\ e \in Entry
  BY <1>1, WithEntryType
<1>3. /\ [e EXCEPT !.self = (req.value = "on")] \in Entry
      /\ [e EXCEPT !.limit = (req.value = "on")] \in Entry
  BY <1>2 DEF Entry
<1>4. ASSUME NEW f \in Entry
      PROVE  [base EXCEPT !.personal[req.target] = f] \in Meta
  BY <1>1, <1>2 DEF Meta
<1> QED
  BY <1>1, <1>2, <1>3, <1>4 DEF Adjusted

LEMMA AppointedType ==
  ASSUME NEW md \in Meta, NEW req \in HostRequest
  PROVE  Appointed(md, req) \in Meta
BY DEF Appointed, Meta, HostRequest

LEMMA SeenDataType ==
  ASSUME TypeOK, NEW m \in MeetingIDs
  PROVE  SeenData(m) \subseteq Meta \cup {None}
BY DEF SeenData, HasRoomData, TypeOK

-----------------------------------------------------------------------------
(* Calls: how a step changes the state of its handler. *)

LEMMA CallUpdate ==
  ASSUME TypeOK, NEW w \in Workers, NEW c \in Call, Prepared(c),
         call' = [call EXCEPT ![w] = c]
  PROVE  call' \in [Workers -> {IdleCall} \cup {d \in Call : Prepared(d)}]
BY DEF TypeOK

LEMMA ReturnType ==
  ASSUME TypeOK, NEW w \in Workers, Return(w)
  PROVE  call' \in [Workers -> {IdleCall} \cup {d \in Call : Prepared(d)}]
BY DEF TypeOK, Return

LEMMA Running ==
  ASSUME TypeOK, NEW w \in Workers, call[w].at # "idle"
  PROVE  call[w] \in Call /\ Prepared(call[w])
BY DEF TypeOK, IdleCall

-----------------------------------------------------------------------------
(* Every step of a handler keeps the types. *)

LEMMA BeginType ==
  ASSUME TypeOK, NEW w \in Workers, NEW req \in Calls, Begin(w, req)
  PROVE  TypeOK'
<1> DEFINE c == [IdleCall EXCEPT !.at = FirstStep(req.op), !.req = req,
                   !.id = IF req \in MeetingRequest THEN req.meeting ELSE None]
<1>1. req \in Request
  BY CallsAssumption
<1>2. req.op \in {"Book", "Create", "Join", "Update", "Token", "Leave", "End",
                  "SetPersonal", "SetHost", "Remove", "Clean", "GetMeetings"}
  BY <1>1 DEF Request, MeetingRequest, BookRequest, JoinRequest, EntryRequest,
       EndRequest, DeviceRequest, HostRequest, RemoveRequest, SweepRequest
<1>3. c \in Call
  <2>1. FirstStep(req.op) \in Steps
    BY <1>2 DEF FirstStep, Steps
  <2>2. NoPlan \in Plan
    BY DEF NoPlan, Plan
  <2> QED
    BY <1>1, <2>1, <2>2, RequestShape DEF Call, IdleCall
<1>4. Prepared(c)
  BY <1>1, <1>2, <1>3, RequestShape DEF Prepared, IdleCall, FirstStep, StepsOf
<1>5. call' = [call EXCEPT ![w] = c]
  BY DEF Begin
<1> QED
  BY <1>3, <1>4, <1>5, CallUpdate DEF TypeOK, Begin, rtcVars, history

LEMMA FailType ==
  ASSUME TypeOK, NEW w \in Workers, Fail(w)
  PROVE  TypeOK'
BY ReturnType DEF TypeOK, Fail, rtcVars, history

LEMMA SharedStepsType ==
  ASSUME TypeOK, NEW w \in Workers,
         \/ ListRooms(w) \/ ScanRoom(w) \/ UserIsFree(w) \/ Take(w)
         \/ GenerateMeetingID(w) \/ OpenRoom(w) \/ InsertMeeting(w) \/ Publish(w)
  PROVE  TypeOK'
<1> DEFINE c == call[w]
           m == c.id
<1>0. c \in Call /\ Prepared(c)
  BY Running DEF ListRooms, ScanRoom, UserIsFree, Take, GenerateMeetingID, OpenRoom,
       InsertMeeting, Publish, At
<1>a. c.req \in Request /\ c.req.user \in Users
  BY <1>0, RequestShape DEF Call
<1>1. CASE ListRooms(w)
  <2> DEFINE d == [c EXCEPT !.todo = OpenRooms,
                     !.at = IF c.req.op = "Clean" THEN "clean" ELSE "scan"]
  <2>1. call' = [call EXCEPT ![w] = d]
    BY <1>1 DEF TypeOK, ListRooms
  <2>2. d \in Call
    BY <1>0 DEF Call, OpenRooms, Steps
  <2>3. Prepared(d)
    BY <1>0, <1>1 DEF Call, Prepared, ListRooms, At, StepsOf
  <2> QED
    BY <1>1, <2>1, <2>2, <2>3, CallUpdate DEF TypeOK, ListRooms, rtcVars, history
<1>2. CASE ScanRoom(w)
  <2>1. PICK r \in c.todo : Return(w) \/ call' = [call EXCEPT ![w].todo = @ \ {r}]
    BY <1>2 DEF ScanRoom
  <2>2. CASE Return(w)
    BY <1>2, <2>2, ReturnType DEF TypeOK, ScanRoom, rtcVars, history
  <2>3. CASE call' = [call EXCEPT ![w].todo = @ \ {r}]
    <3> DEFINE d == [c EXCEPT !.todo = @ \ {r}]
    <3>1. d \in Call
      BY <1>0 DEF Call
    <3>2. Prepared(d)
      BY <1>0, <1>2 DEF Call, Prepared, ScanRoom, At, StepsOf
    <3>3. call' = [call EXCEPT ![w] = d]
      BY <2>3 DEF TypeOK
    <3> QED
      BY <1>2, <3>1, <3>2, <3>3, CallUpdate DEF TypeOK, ScanRoom, rtcVars, history
  <2> QED
    BY <2>1, <2>2, <2>3
<1>3. CASE UserIsFree(w)
  <2> DEFINE d == [c EXCEPT !.at = IF c.req.op = "Create" THEN "number" ELSE "look"]
  <2>1. call' = [call EXCEPT ![w] = d]
    BY <1>3 DEF TypeOK, UserIsFree, Goto
  <2>2. d \in Call
    BY <1>0 DEF Call, Steps
  <2>3. Prepared(d)
    BY <1>0, <1>3 DEF Call, Prepared, UserIsFree, At, StepsOf
  <2> QED
    BY <1>3, <2>1, <2>2, <2>3, CallUpdate DEF TypeOK, UserIsFree, rtcVars, history
<1>4. CASE Take(w)
  <2>1. CASE ~ CanTake(w)
    BY <1>4, <2>1, ReturnType DEF TypeOK, Take, rtcVars, history
  <2>2. CASE CanTake(w)
    <3> DEFINE d == [c EXCEPT !.doc = db[m],
                       !.at = IF c.req.op = "Join" THEN "list" ELSE "look"]
    <3>1. call' = [call EXCEPT ![w] = d]
      BY <1>4, <2>2 DEF TypeOK, Take
    <3>2. m \in MeetingIDs
      BY <1>0, <1>4, <1>a, RequestShape DEF Prepared, Take, At
    <3>3. db[m] \in Doc
      BY <2>2, <3>2 DEF CanTake, Stored, TypeOK
    <3>4. d \in Call
      BY <1>0, <3>3 DEF Call, Steps
    <3>5. Prepared(d)
      BY <1>0, <1>4, <3>2, <3>3, NoneAssumption DEF Call, Prepared, Take, At, StepsOf
    <3> QED
      BY <1>4, <3>1, <3>4, <3>5, CallUpdate DEF TypeOK, Take, rtcVars, history
  <2> QED
    BY <2>1, <2>2
<1>5. CASE GenerateMeetingID(w)
  <2>1. CASE ~ (lastID < MaxMeetings)
    BY <1>5, <2>1, ReturnType DEF TypeOK, GenerateMeetingID, rtcVars, history
  <2>2. CASE lastID < MaxMeetings
    <3> DEFINE id == lastID + 1
               doc == NewDoc(c.req)
               d == [c EXCEPT !.id = id, !.doc = doc, !.md = NewMeta(id, doc),
                       !.at = IF c.req.op = "Book" THEN "insert" ELSE "open"]
    <3>1. call' = [call EXCEPT ![w] = d]
      BY <1>5, <2>2 DEF TypeOK, GenerateMeetingID, NextID
    <3>2. id \in MeetingIDs /\ id \in 0 .. MaxMeetings
      BY <2>2, MaxMeetingsAssumption DEF TypeOK, MeetingIDs
    <3>3. doc \in Doc
      BY <1>5, <1>a, RequestShape DEF GenerateMeetingID, At, NewDoc, Doc, BookRequest, Statuses
    <3>4. NewMeta(id, doc) \in Meta
      BY <3>2, <3>3, NewMetaType
    <3>5. d \in Call
      BY <1>0, <3>2, <3>3, <3>4 DEF Call, Steps
    <3>6. Prepared(d)
      BY <1>0, <1>5, <1>a, <3>2, <3>3, <3>4, RequestShape, NoneAssumption
         DEF Call, Prepared, GenerateMeetingID, At, StepsOf
    <3>7. call' \in [Workers -> {IdleCall} \cup {e \in Call : Prepared(e)}]
      BY <3>1, <3>5, <3>6, CallUpdate
    <3>8. lastID' = id /\ owner' = [owner EXCEPT ![id] = c.req.user]
      BY <1>5, <2>2 DEF GenerateMeetingID, NextID
    <3> QED
      BY <1>5, <1>a, <3>2, <3>7, <3>8 DEF TypeOK, GenerateMeetingID, rtcVars
  <2> QED
    BY <2>1, <2>2
<1>6. CASE OpenRoom(w)
  <2>1. m \in MeetingIDs /\ c.md \in Meta
    BY <1>0, <1>6 DEF Call, Prepared, OpenRoom, At
  <2>2. rooms' \in [MeetingIDs -> Meta \cup {None, Blank}] /\ UNCHANGED members
    BY <1>6, <2>1 DEF OpenRoom, CreateRoom, TypeOK
  <2>3. passes' \subseteq Pass
    BY <1>6, <1>a, <2>1 DEF OpenRoom, GetJoinToken, Pass, TypeOK
  <2>4. call' \in [Workers -> {IdleCall} \cup {e \in Call : Prepared(e)}]
    <3>1. CASE c.req.op = "Join"
      BY <1>6, <3>1, ReturnType DEF OpenRoom
    <3>2. CASE c.req.op # "Join"
      <4> DEFINE d == [c EXCEPT !.at = "insert"]
      <4>1. call' = [call EXCEPT ![w] = d]
        BY <1>6, <3>2 DEF TypeOK, OpenRoom, Goto
      <4>2. d \in Call
        BY <1>0 DEF Call, Steps
      <4>3. c.doc # None
        BY <1>0, <1>6, <3>2 DEF OpenRoom, At, Prepared
      <4>4. Prepared(d)
        BY <1>0, <1>6, <3>2, <4>3 DEF Call, Prepared, OpenRoom, At, StepsOf
      <4> QED
        BY <4>1, <4>2, <4>4, CallUpdate
    <3> QED
      BY <3>1, <3>2
  <2> QED
    BY <1>6, <2>2, <2>3, <2>4 DEF OpenRoom, TypeOK, history
<1>7. CASE InsertMeeting(w)
  <2>1. m \in MeetingIDs /\ c.doc \in Doc
    BY <1>0, <1>7 DEF Call, Prepared, InsertMeeting, At
  <2>2. db' \in [MeetingIDs -> Doc \cup {None, Cancelled}]
    BY <1>7, <2>1 DEF InsertMeeting, TypeOK
  <2>3. call' \in [Workers -> {IdleCall} \cup {e \in Call : Prepared(e)}]
    <3>1. CASE Return(w)
      BY <3>1, ReturnType
    <3>2. CASE Goto(w, "publish") /\ c.req.op # "Book"
      <4> DEFINE d == [c EXCEPT !.at = "publish"]
      <4>1. call' = [call EXCEPT ![w] = d]
        BY <3>2 DEF TypeOK, Goto
      <4>2. d \in Call
        BY <1>0 DEF Call, Steps
      <4>3. c.md # None
        BY <1>0, <1>7, <3>2 DEF InsertMeeting, At, Prepared
      <4>4. Prepared(d)
        BY <1>0, <1>7, <3>2, <4>3 DEF Call, Prepared, InsertMeeting, At, StepsOf
      <4> QED
        BY <4>1, <4>2, <4>4, CallUpdate
    <3> QED
      BY <1>7, <3>1, <3>2 DEF InsertMeeting
  <2> QED
    BY <1>7, <2>2, <2>3 DEF InsertMeeting, TypeOK, rtcVars, history
<1>8. CASE Publish(w)
  <2>1. c.md \in Meta /\ c.md.meeting \in MeetingIDs
    BY <1>0, <1>8 DEF Call, Prepared, Publish, Meta
  <2>2. rooms' \in [MeetingIDs -> Meta \cup {None, Blank}] /\ UNCHANGED members
    BY <1>8, <2>1 DEF Publish, UpdateRoomMetadata, TypeOK, rtcVars
  <2>3. c.req.op \in {"Create", "Join"} => m \in MeetingIDs
    BY <1>0, <1>8, <1>a, RequestShape DEF Publish, Prepared, Call
  <2>4. passes' \subseteq Pass
    BY <1>8, <1>a, <2>3 DEF Publish, GetJoinToken, Pass, TypeOK, rtcVars
  <2>5. Return(w)
    BY <1>8 DEF Publish
  <2> QED
    BY <1>8, <2>2, <2>4, <2>5, ReturnType DEF Publish, TypeOK, history
<1> QED
  BY <1>1, <1>2, <1>3, <1>4, <1>5, <1>6, <1>7, <1>8

LEMMA EntranceType ==
  ASSUME TypeOK, NEW w \in Workers,
         \/ JoinWithoutRoom(w) \/ JoinRoom(w) \/ GetMeetingToken(w) \/ LeaveMeeting(w)
  PROVE  TypeOK'
<1> DEFINE c == call[w]
           m == c.id
           u == c.req.user
<1>0. c \in Call /\ Prepared(c)
  BY Running DEF JoinWithoutRoom, JoinRoom, GetMeetingToken, LeaveMeeting, At
<1>a. c.req \in Request /\ u \in Users
  BY <1>0, RequestShape DEF Call
<1>b. c.req \in MeetingRequest /\ m \in MeetingIDs
  BY <1>0, <1>a, RequestShape DEF JoinWithoutRoom, JoinRoom, GetMeetingToken,
     LeaveMeeting, At, Prepared
<1>1. CASE JoinWithoutRoom(w)
  <2>1. c.doc \in Doc
    BY <1>0, <1>1 DEF Call, Prepared, JoinWithoutRoom, At
  <2>2. CASE Return(w)
    BY <1>1, <2>2, ReturnType DEF TypeOK, JoinWithoutRoom, rtcVars, history
  <2>3. CASE call' = [call EXCEPT ![w].md = NewMeta(m, c.doc), ![w].at = "open"]
    <3> DEFINE d == [c EXCEPT !.md = NewMeta(m, c.doc), !.at = "open"]
    <3>1. call' = [call EXCEPT ![w] = d]
      BY <2>3 DEF TypeOK
    <3>2. NewMeta(m, c.doc) \in Meta
      BY <1>b, <2>1, NewMetaType
    <3>3. d \in Call
      BY <1>0, <3>2 DEF Call, Steps
    <3>4. Prepared(d)
      BY <1>0, <1>1, <1>b, <3>2, NoneAssumption
         DEF Call, Prepared, JoinWithoutRoom, At, StepsOf
    <3> QED
      BY <1>1, <3>1, <3>3, <3>4, CallUpdate DEF TypeOK, JoinWithoutRoom, rtcVars, history
  <2> QED
    BY <1>1, <2>2, <2>3 DEF JoinWithoutRoom
<1>2. CASE JoinRoom(w)
  <2>1. c.doc \in Doc
    BY <1>0, <1>2 DEF Call, Prepared, JoinRoom, At
  <2>2. CASE Return(w)
    BY <1>2, <2>2, ReturnType DEF TypeOK, JoinRoom, rtcVars, history
  <2>3. CASE ~ Return(w)
    <3> DEFINE md == [WithEntry(JoinBase(w), u) EXCEPT !.meeting = m]
               d == [c EXCEPT !.at = "publish", !.md = md]
    <3>1. call' = [call EXCEPT ![w] = d]
      BY <1>2, <2>3 DEF TypeOK, JoinRoom
    <3>2. JoinBase(w) \in Meta
      BY <1>2, <1>b, <2>1, NewMetaType DEF JoinBase, JoinRoom, Open, TypeOK
    <3>3. WithEntry(JoinBase(w), u) \in Meta
      BY <1>a, <3>2, WithEntryType
    <3>4. md \in Meta
      BY <1>b, <3>3 DEF Meta
    <3>5. d \in Call
      BY <1>0, <3>4 DEF Call, Steps
    <3>6. Prepared(d)
      BY <1>0, <1>2, <1>b, <3>4, NoneAssumption
         DEF Call, Prepared, JoinRoom, At, StepsOf
    <3> QED
      BY <1>2, <3>1, <3>5, <3>6, CallUpdate DEF TypeOK, JoinRoom, rtcVars, history
  <2> QED
    BY <2>2, <2>3
<1>3. CASE GetMeetingToken(w)
  BY <1>3, <1>a, <1>b, ReturnType DEF GetMeetingToken, GetJoinToken, Pass, TypeOK, history
<1>4. CASE LeaveMeeting(w)
  BY <1>4, <1>b, ReturnType DEF LeaveMeeting, RemoveParticipant, TypeOK, history
<1> QED
  BY <1>1, <1>2, <1>3, <1>4

LEMMA EndType ==
  ASSUME TypeOK, NEW w \in Workers, EndLook(w) \/ EndClose(w) \/ EndStore(w)
  PROVE  TypeOK'
<1> DEFINE c == call[w]
           m == c.id
<1>0. c \in Call /\ Prepared(c)
  BY Running DEF EndLook, EndClose, EndStore, At
<1>a. c.req \in Request
  BY <1>0 DEF Call
<1>b. m \in MeetingIDs
  BY <1>0, <1>a, RequestShape DEF EndLook, EndClose, EndStore, At, Prepared
<1>1. CASE EndLook(w)
  <2>1. PICK s \in {"Completed", "Scheduled", "Never"} :
          \/ Return(w)
          \/ call' = [call EXCEPT ![w].plan[m] = s,
                        ![w].at = IF s = "Never" THEN "search" ELSE "close"]
    BY <1>1 DEF EndLook, NextSession
  <2>2. CASE Return(w)
    BY <1>1, <2>2, ReturnType DEF TypeOK, EndLook, rtcVars, history
  <2>3. CASE call' = [call EXCEPT ![w].plan[m] = s,
                        ![w].at = IF s = "Never" THEN "search" ELSE "close"]
    <3> DEFINE at == IF s = "Never" THEN "search" ELSE "close"
               d == [c EXCEPT !.plan[m] = s, !.at = at]
    <3>1. call' = [call EXCEPT ![w] = d]
      BY <2>3 DEF TypeOK
    <3>2. d \in Call /\ d.plan[m] = s
      BY <1>0, <1>b DEF Call, Steps, Plan
    <3>3. Prepared(d)
      BY <1>0, <1>1, <1>b, <3>2 DEF Call, Prepared, EndLook, At, StepsOf
    <3> QED
      BY <1>1, <3>1, <3>2, <3>3, CallUpdate DEF TypeOK, EndLook, rtcVars, history
  <2> QED
    BY <2>1, <2>2, <2>3
<1>2. CASE EndClose(w)
  <2>1. CASE Return(w) /\ UNCHANGED <<rooms, members>>
    BY <1>2, <2>1, ReturnType DEF TypeOK, EndClose, history
  <2>2. CASE DeleteRoom(m) /\ Goto(w, "store")
    <3> DEFINE d == [c EXCEPT !.at = "store"]
    <3>1. call' = [call EXCEPT ![w] = d]
      BY <2>2 DEF TypeOK, Goto
    <3>2. d \in Call
      BY <1>0 DEF Call, Steps
    <3>3. Prepared(d)
      BY <1>0, <1>2, <3>2 DEF Call, Prepared, EndClose, At, StepsOf
    <3> QED
      BY <1>2, <1>b, <2>2, <3>1, <3>2, <3>3, CallUpdate
         DEF TypeOK, EndClose, DeleteRoom, history
  <2> QED
    BY <1>2, <2>1, <2>2 DEF EndClose
<1>3. CASE EndStore(w)
  <2>1. c.plan[m] \in Statuses
    BY <1>0, <1>3, <1>b DEF Call, Prepared, EndStore, At, Plan, Statuses
  <2>2. c.req.type \in {"End", "Cancel", "Other"}
    BY <1>3, <1>a DEF EndStore, At, Request, MeetingRequest, BookRequest, JoinRequest,
       EntryRequest, EndRequest, DeviceRequest, HostRequest, RemoveRequest, SweepRequest
  <2>3. Stored(m) => [db[m] EXCEPT !.status = c.plan[m]] \in Doc
    BY <1>b, <2>1 DEF Stored, TypeOK, Doc
  <2>4. db' \in [MeetingIDs -> Doc \cup {None, Cancelled}]
    BY <1>3, <1>b, <2>2, <2>3 DEF EndStore, TypeOK
  <2> QED
    BY <1>3, <2>4, ReturnType DEF EndStore, TypeOK, rtcVars, history
<1> QED
  BY <1>1, <1>2, <1>3

LEMMA UpdateType ==
  ASSUME TypeOK, NEW w \in Workers,
         UpdateLook(w) \/ UpdateStore(w) \/ UpdateRetake(w) \/ UpdateRelook(w)
  PROVE  TypeOK'
<1> DEFINE c == call[w]
           m == c.id
<1>0. c \in Call /\ Prepared(c)
  BY Running DEF UpdateLook, UpdateStore, UpdateRetake, UpdateRelook, At
<1>a. c.req \in Request
  BY <1>0 DEF Call
<1>b. m \in MeetingIDs /\ c.req.info \in Infos
  BY <1>0, <1>a, RequestShape
     DEF UpdateLook, UpdateStore, UpdateRetake, UpdateRelook, At, Prepared, JoinRequest
<1>1. CASE UpdateLook(w)
  <2>1. PICK md \in SeenData(m) : call' = [call EXCEPT ![w].at = "store", ![w].md = md]
    BY <1>1 DEF UpdateLook
  <2> DEFINE d == [c EXCEPT !.at = "store", !.md = md]
  <2>2. call' = [call EXCEPT ![w] = d]
    BY <2>1 DEF TypeOK
  <2>3. d \in Call
    BY <1>0, <1>b, SeenDataType DEF Call, Steps
  <2>4. Prepared(d)
    BY <1>0, <1>1, <1>b, NoneAssumption DEF Call, Prepared, UpdateLook, At, StepsOf
  <2> QED
    BY <1>1, <2>2, <2>3, <2>4, CallUpdate DEF TypeOK, UpdateLook, rtcVars, history
<1>2. CASE UpdateStore(w)
  <2>1. Stored(m) => Patched(w) \in Doc
    BY <1>b DEF Patched, Stored, TypeOK, Doc
  <2>2. db' \in [MeetingIDs -> Doc \cup {None, Cancelled}]
    BY <1>2, <1>b, <2>1 DEF UpdateStore, TypeOK
  <2>3. call' \in [Workers -> {IdleCall} \cup {e \in Call : Prepared(e)}]
    <3>1. CASE Return(w)
      BY <3>1, ReturnType
    <3>2. CASE UpdatesRoom(w) /\ Goto(w, "retake")
      <4> DEFINE d == [c EXCEPT !.at = "retake"]
      <4>1. call' = [call EXCEPT ![w] = d]
        BY <3>2 DEF TypeOK, Goto
      <4>2. d \in Call
        BY <1>0 DEF Call, Steps
      <4>3. Prepared(d)
        BY <1>0, <1>2, <3>2 DEF Call, Prepared, UpdateStore, UpdatesRoom, At, StepsOf
      <4> QED
        BY <4>1, <4>2, <4>3, CallUpdate
    <3> QED
      BY <1>2, <3>1, <3>2 DEF UpdateStore
  <2> QED
    BY <1>2, <2>2, <2>3 DEF UpdateStore, TypeOK, rtcVars, history
<1>3. CASE UpdateRetake(w)
  <2>1. CASE Return(w)
    BY <1>3, <2>1, ReturnType DEF TypeOK, UpdateRetake, rtcVars, history
  <2>2. CASE Stored(m)
    <3> DEFINE d == [c EXCEPT !.at = "relook", !.doc = db[m]]
    <3>1. call' = [call EXCEPT ![w] = d]
      BY <1>3, <2>2 DEF TypeOK, UpdateRetake
    <3>2. db[m] \in Doc
      BY <1>b, <2>2 DEF Stored, TypeOK
    <3>3. d \in Call
      BY <1>0, <3>2 DEF Call, Steps
    <3>4. Prepared(d)
      BY <1>0, <1>3, <3>2, NoneAssumption DEF Call, Prepared, UpdateRetake, At, StepsOf
    <3> QED
      BY <1>3, <3>1, <3>3, <3>4, CallUpdate DEF TypeOK, UpdateRetake, rtcVars, history
  <2> QED
    BY <1>3, <2>1, <2>2 DEF UpdateRetake
<1>4. CASE UpdateRelook(w)
  <2>1. PICK md \in SeenData(m) :
          call' = [call EXCEPT ![w].at = "publish", ![w].md = Detail(w, md)]
    BY <1>4 DEF UpdateRelook
  <2> DEFINE d == [c EXCEPT !.at = "publish", !.md = Detail(w, md)]
  <2>2. call' = [call EXCEPT ![w] = d]
    BY <2>1 DEF TypeOK
  <2>3. c.doc \in Doc /\ c.md \in Meta
    BY <1>0, <1>4 DEF Call, Prepared, UpdateRelook, At
  <2>4. (IF md = None THEN NewMeta(m, c.doc) ELSE md) \in Meta
    BY <1>b, <2>3, NewMetaType, SeenDataType
  <2>5. Detail(w, md) \in Meta
    BY <1>b, <2>3, <2>4 DEF Detail, Meta, Doc
  <2>6. d \in Call
    BY <1>0, <2>5 DEF Call, Steps
  <2>7. Prepared(d)
    BY <1>0, <1>4, <2>5, NoneAssumption DEF Call, Prepared, UpdateRelook, At, StepsOf
  <2> QED
    BY <1>4, <2>2, <2>6, <2>7, CallUpdate DEF TypeOK, UpdateRelook, rtcVars, history
<1> QED
  BY <1>1, <1>2, <1>3, <1>4

LEMMA RoomStepsType ==
  ASSUME TypeOK, NEW w \in Workers,
         \/ SetPersonalMeetingSettings(w) \/ SetMeetingHostInfo(w)
         \/ RemoveLook(w) \/ RemoveOne(w)
  PROVE  TypeOK'
<1> DEFINE c == call[w]
           m == c.id
           md == rooms[m]
<1>0. c \in Call /\ Prepared(c)
  BY Running DEF SetPersonalMeetingSettings, SetMeetingHostInfo, RemoveLook, RemoveOne, At
<1>a. c.req \in Request /\ c.req.user \in Users
  BY <1>0, RequestShape DEF Call
<1>b. m \in MeetingIDs
  BY <1>0, <1>a, RequestShape
     DEF SetPersonalMeetingSettings, SetMeetingHostInfo, RemoveLook, RemoveOne, At, Prepared
<1>c. HasRoomData(m) => md \in Meta
  BY <1>b DEF HasRoomData, TypeOK
<1>1. CASE SetPersonalMeetingSettings(w)
  <2>1. c.req \in DeviceRequest
    BY <1>1, <1>a, RequestShape DEF SetPersonalMeetingSettings, At
  <2>2. CASE Return(w) /\ UNCHANGED trail
    BY <1>1, <2>2, ReturnType DEF TypeOK, SetPersonalMeetingSettings, rtcVars
  <2>3. CASE ~ (Return(w) /\ UNCHANGED trail)
    <3> DEFINE d == [c EXCEPT !.at = "publish", !.md = Adjusted(md, c.req)]
    <3>1. /\ HasRoomData(m)
          /\ call' = [call EXCEPT ![w] = d]
          /\ trail' = trail \cup PersonalFacts(m, c.req)
      BY <1>1, <2>3 DEF TypeOK, SetPersonalMeetingSettings
    <3>2. Adjusted(md, c.req) \in Meta
      BY <1>c, <2>1, <3>1, AdjustedType
    <3>3. d \in Call
      BY <1>0, <3>2 DEF Call, Steps
    <3>4. Prepared(d)
      BY <1>0, <1>1, <1>b, <3>2, NoneAssumption
         DEF Call, Prepared, SetPersonalMeetingSettings, At, StepsOf
    <3>5. PersonalFacts(m, c.req) \subseteq Fact
      BY <1>a, <1>b, <2>1 DEF PersonalFacts, Fact, DeviceRequest
    <3> QED
      BY <1>1, <3>1, <3>3, <3>4, <3>5, CallUpdate
         DEF TypeOK, SetPersonalMeetingSettings, rtcVars
  <2> QED
    BY <2>2, <2>3
<1>2. CASE SetMeetingHostInfo(w)
  <2>1. c.req \in HostRequest
    BY <1>2, <1>a, RequestShape DEF SetMeetingHostInfo, At
  <2>2. CASE Return(w) /\ UNCHANGED trail
    BY <1>2, <2>2, ReturnType DEF TypeOK, SetMeetingHostInfo, rtcVars
  <2>3. CASE ~ (Return(w) /\ UNCHANGED trail)
    <3> DEFINE d == [c EXCEPT !.at = "publish", !.md = Appointed(md, c.req)]
    <3>1. /\ HasRoomData(m)
          /\ call' = [call EXCEPT ![w] = d]
          /\ trail' = trail \cup HostFacts(m, c.req)
      BY <1>2, <2>3 DEF TypeOK, SetMeetingHostInfo
    <3>2. Appointed(md, c.req) \in Meta
      BY <1>c, <2>1, <3>1, AppointedType
    <3>3. d \in Call
      BY <1>0, <3>2 DEF Call, Steps
    <3>4. Prepared(d)
      BY <1>0, <1>2, <1>b, <3>2, NoneAssumption
         DEF Call, Prepared, SetMeetingHostInfo, At, StepsOf
    <3>5. HostFacts(m, c.req) \subseteq Fact
      BY <1>a, <1>b, <2>1 DEF HostFacts, Fact, HostRequest
    <3> QED
      BY <1>2, <3>1, <3>3, <3>4, <3>5, CallUpdate
         DEF TypeOK, SetMeetingHostInfo, rtcVars
  <2> QED
    BY <2>2, <2>3
<1>3. CASE RemoveLook(w)
  <2>1. CASE Return(w)
    BY <1>3, <2>1, ReturnType DEF TypeOK, RemoveLook, rtcVars, history
  <2>2. CASE call' = [call EXCEPT ![w].at = "remove", ![w].left = c.req.targets]
    <3> DEFINE d == [c EXCEPT !.at = "remove", !.left = c.req.targets]
    <3>1. call' = [call EXCEPT ![w] = d]
      BY <2>2 DEF TypeOK
    <3>2. c.req.targets \in SUBSET Users
      BY <1>3, <1>a, RequestShape DEF RemoveLook, At, RemoveRequest
    <3>3. d \in Call
      BY <1>0, <3>2 DEF Call, Steps
    <3>4. Prepared(d)
      BY <1>0, <1>3 DEF Call, Prepared, RemoveLook, At, StepsOf
    <3> QED
      BY <1>3, <3>1, <3>3, <3>4, CallUpdate DEF TypeOK, RemoveLook, rtcVars, history
  <2> QED
    BY <1>3, <2>1, <2>2 DEF RemoveLook
<1>4. CASE RemoveOne(w)
  <2>1. members' \in [MeetingIDs -> SUBSET Users] /\ rooms' = rooms
    BY <1>4, <1>b DEF RemoveOne, RemoveParticipant, TypeOK
  <2>2. CASE Return(w)
    BY <1>4, <2>1, <2>2, ReturnType DEF TypeOK, RemoveOne, history
  <2>3. ASSUME NEW u \in c.left, call' = [call EXCEPT ![w].left = @ \ {u}]
        PROVE  TypeOK'
    <3> DEFINE d == [c EXCEPT !.left = @ \ {u}]
    <3>1. call' = [call EXCEPT ![w] = d]
      BY <2>3 DEF TypeOK
    <3>2. d \in Call
      BY <1>0 DEF Call
    <3>3. Prepared(d)
      BY <1>0, <1>4 DEF Call, Prepared, RemoveOne, At, StepsOf
    <3> QED
      BY <1>4, <2>1, <3>1, <3>2, <3>3, CallUpdate DEF TypeOK, RemoveOne, history
  <2> QED
    BY <1>4, <2>2, <2>3 DEF RemoveOne
<1> QED
  BY <1>1, <1>2, <1>3, <1>4

LEMMA SweepType ==
  ASSUME TypeOK, NEW w \in Workers,
         \/ CleanRoom(w) \/ FindMeetings(w) \/ RefreshClose(w)
         \/ RefreshStore(w) \/ RefreshDone(w)
  PROVE  TypeOK'
<1> DEFINE c == call[w]
<1>0. c \in Call /\ Prepared(c)
  BY Running DEF CleanRoom, FindMeetings, RefreshClose, RefreshStore, RefreshDone, At
<1>a. c.todo \subseteq MeetingIDs /\ c.req \in Request /\ c.req.user \in Users
  BY <1>0, RequestShape DEF Call
<1>1. CASE CleanRoom(w)
  <2>1. members' \in [MeetingIDs -> SUBSET Users] /\ rooms' = rooms
    BY <1>1, <1>a DEF CleanRoom, RemoveParticipant, TypeOK
  <2>2. CASE Return(w)
    BY <1>1, <2>1, <2>2, ReturnType DEF TypeOK, CleanRoom, history
  <2>3. ASSUME NEW m \in c.todo, call' = [call EXCEPT ![w].todo = @ \ {m}]
        PROVE  TypeOK'
    <3> DEFINE d == [c EXCEPT !.todo = @ \ {m}]
    <3>1. call' = [call EXCEPT ![w] = d]
      BY <2>3 DEF TypeOK
    <3>2. d \in Call
      BY <1>0 DEF Call
    <3>3. Prepared(d)
      BY <1>0, <1>1 DEF Call, Prepared, CleanRoom, At, StepsOf
    <3> QED
      BY <1>1, <2>1, <3>1, <3>2, <3>3, CallUpdate DEF TypeOK, CleanRoom, history
  <2> QED
    BY <1>1, <2>2, <2>3 DEF CleanRoom
<1>2. CASE FindMeetings(w)
  <2>1. PICK p \in Verdicts : call' = [call EXCEPT ![w].plan = p, ![w].at = "sweep"]
    BY <1>2 DEF FindMeetings
  <2> DEFINE d == [c EXCEPT !.plan = p, !.at = "sweep"]
  <2>2. call' = [call EXCEPT ![w] = d]
    BY <2>1 DEF TypeOK
  <2>3. d \in Call
    BY <1>0 DEF Call, Steps, Verdicts, Plan
  <2>4. Prepared(d)
    BY <1>0, <1>2 DEF Call, Prepared, FindMeetings, At, StepsOf
  <2> QED
    BY <1>2, <2>2, <2>3, <2>4, CallUpdate DEF TypeOK, FindMeetings, rtcVars, history
<1>3. CASE RefreshClose(w)
  <2>1. PICK m \in MeetingIDs :
          /\ c.plan[m] = "Completed"
          /\ call' = [call EXCEPT ![w].id = m, ![w].at = "settle"]
          /\ DeleteRoom(m) \/ UNCHANGED <<rooms, members>>
    BY <1>3 DEF RefreshClose
  <2>2. /\ rooms' \in [MeetingIDs -> Meta \cup {None, Blank}]
        /\ members' \in [MeetingIDs -> SUBSET Users]
    BY <2>1 DEF DeleteRoom, TypeOK
  <2> DEFINE d == [c EXCEPT !.id = m, !.at = "settle"]
  <2>3. call' = [call EXCEPT ![w] = d]
    BY <2>1 DEF TypeOK
  <2>4. d \in Call
    BY <1>0 DEF Call, Steps
  <2>5. m # None
    BY NoneAssumption
  <2>6. c.req \notin MeetingRequest
    BY <1>3, <1>a, RequestShape DEF RefreshClose, At
  <2>7. Prepared(d)
    BY <1>0, <1>3, <2>1, <2>5, <2>6 DEF Call, Prepared, RefreshClose, At, StepsOf
  <2> QED
    BY <1>3, <2>2, <2>3, <2>4, <2>7, CallUpdate DEF TypeOK, RefreshClose, history
<1>4. CASE RefreshStore(w)
  <2>1. PICK m \in MeetingIDs :
          /\ \/ At(w, {"GetMeetings"}, "settle") /\ m = c.id
             \/ At(w, {"GetMeetings"}, "sweep") /\ c.plan[m] = "Scheduled"
          /\ (Stored(m) /\ db' = [db EXCEPT ![m].status = c.plan[m]]) \/ UNCHANGED db
          /\ call' = [call EXCEPT ![w].at = "sweep", ![w].id = None, ![w].plan[m] = None]
    BY <1>4 DEF RefreshStore
  <2>2. c.plan[m] \in Statuses
    BY <1>0, <2>1 DEF Prepared, At, Statuses
  <2>3. Stored(m) => [db[m] EXCEPT !.status = c.plan[m]] \in Doc
    BY <2>2 DEF Stored, TypeOK, Doc
  <2>4. db' \in [MeetingIDs -> Doc \cup {None, Cancelled}]
    BY <2>1, <2>3 DEF TypeOK
  <2> DEFINE d == [c EXCEPT !.at = "sweep", !.id = None, !.plan[m] = None]
  <2>5. call' = [call EXCEPT ![w] = d]
    BY <2>1 DEF TypeOK
  <2>6. d \in Call
    BY <1>0 DEF Call, Steps, Plan
  <2>7. c.req \notin MeetingRequest
    BY <2>1, <1>a, RequestShape DEF At
  <2>8. Prepared(d)
    BY <1>0, <2>1, <2>7 DEF Call, Prepared, At, StepsOf
  <2> QED
    BY <1>4, <2>4, <2>5, <2>6, <2>8, CallUpdate DEF TypeOK, RefreshStore, rtcVars, history
<1>5. CASE RefreshDone(w)
  <2>1. CASE Return(w)
    BY <1>5, <2>1, ReturnType DEF TypeOK, RefreshDone, rtcVars, history
  <2>2. CASE c.plan # NoPlan /\ Goto(w, "search")
    <3> DEFINE d == [c EXCEPT !.at = "search"]
    <3>1. call' = [call EXCEPT ![w] = d]
      BY <2>2 DEF TypeOK, Goto
    <3>2. d \in Call /\ c.plan \in Plan
      BY <1>0 DEF Call, Steps
    <3>3. \E m \in MeetingIDs : c.plan[m] = "Never"
      <4>1. \A m \in MeetingIDs : c.plan[m] \in {None, "Never"}
        BY <1>5 DEF RefreshDone
      <4>2. ASSUME \A m \in MeetingIDs : c.plan[m] = None PROVE c.plan = NoPlan
        BY <3>2, <4>2 DEF Plan, NoPlan
      <4> QED
        BY <2>2, <4>1, <4>2
    <3>4. Prepared(d)
      BY <1>0, <1>5, <3>3 DEF Call, Prepared, RefreshDone, At, StepsOf
    <3> QED
      BY <1>5, <3>1, <3>2, <3>4, CallUpdate DEF TypeOK, RefreshDone, rtcVars, history
  <2> QED
    BY <1>5, <2>1, <2>2 DEF RefreshDone
<1> QED
  BY <1>1, <1>2, <1>3, <1>4, <1>5

LEMMA ClientsType ==
  ASSUME TypeOK, Clients, UNCHANGED <<serverVars, history>>
  PROVE  TypeOK'
<1>1. PICK m \in MeetingIDs :
        (\E u \in Users : Connect(u, m) \/ Disconnect(u, m)) \/ RoomExpires(m)
  BY DEF Clients
<1>2. /\ rooms' \in [MeetingIDs -> Meta \cup {None, Blank}]
      /\ members' \in [MeetingIDs -> SUBSET Users]
      /\ UNCHANGED passes
  <2>1. ASSUME NEW u \in Users, Connect(u, m)
        PROVE  <1>2!1 /\ <1>2!2 /\ <1>2!3
    BY <2>1 DEF Connect, Open, TypeOK
  <2>2. ASSUME NEW u \in Users, Disconnect(u, m)
        PROVE  <1>2!1 /\ <1>2!2 /\ <1>2!3
    BY <2>2 DEF Disconnect, TypeOK
  <2>3. CASE RoomExpires(m)
    BY <2>3 DEF RoomExpires, TypeOK
  <2> QED
    BY <1>1, <2>1, <2>2, <2>3
<1>3. UNCHANGED <<db, lastID, call, owner, trail>>
  BY DEF serverVars, history
<1> QED
  BY <1>2, <1>3 DEF TypeOK

\* Whatever the handlers interleave, the stores hold well-formed documents and
\* metadata, and no handler of internal/rpc/meeting/meeting.go reaches a step
\* without the data the step dereferences.
THEOREM TypeCorrect == Spec => []TypeOK
<1>1. Init => TypeOK
  BY MaxMeetingsAssumption
     DEF Init, RtcInit, TypeOK, Pass, Fact
<1>2. TypeOK /\ [Next]_vars => TypeOK'
  <2> SUFFICES ASSUME TypeOK, [Next]_vars PROVE TypeOK'
    OBVIOUS
  <2>1. ASSUME NEW w \in Workers, NEW req \in Calls, Begin(w, req) PROVE TypeOK'
    BY <2>1, BeginType
  <2>2. ASSUME NEW w \in Workers, Fail(w) PROVE TypeOK'
    BY <2>2, FailType
  <2>3. ASSUME NEW w \in Workers, Step(w) PROVE TypeOK'
    BY <2>3, SharedStepsType, EntranceType, EndType, UpdateType, RoomStepsType, SweepType
       DEF Step
  <2>4. CASE Clients /\ UNCHANGED <<serverVars, history>>
    BY <2>4, ClientsType
  <2>5. CASE UNCHANGED vars
    BY <2>5 DEF TypeOK, vars
  <2> QED
    BY <2>1, <2>2, <2>3, <2>4, <2>5 DEF Next
<1> QED
  BY <1>1, <1>2, PTL DEF Spec
=============================================================================
