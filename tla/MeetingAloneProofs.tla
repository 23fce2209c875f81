------------------------- MODULE MeetingAloneProofs -------------------------
(***************************************************************************)
(* What one handler at a time keeps, for any number of users, meetings and *)
(* requests: a setting is changed by its user or by the host only          *)
(* (OnlySelfOrHost), and, where no call to another process fails, a room   *)
(* shows what its document says (RoomShowsDocument).  With two handlers    *)
(* neither holds.                                                          *)
(***************************************************************************)
EXTENDS MeetingAgreementProofs

\* One handler at a time.
Alone == \A v, w \in Workers : v = w

\* The copies of a handler are as fresh as if it had just taken them, except
\* that a client may have emptied the room meanwhile.
Current(c) ==
  /\ c.at = "open" => ~ HasRoomData(c.id)
  /\ c.at = "insert" /\ HasRoomData(c.id) => c.req.op = "Create" /\ rooms[c.id] = c.md
  /\ c.at \in {"store", "retake", "relook"} /\ c.req.op = "Update" /\ c.md # None
       /\ HasRoomData(c.id) => c.md.personal = rooms[c.id].personal

\* The metadata a handler is about to write change nobody's setting that its
\* user may not change.
Entitles(c) ==
  c.at = "publish" /\ HasRoomData(c.id) =>
    \A u \in Users : rooms[c.id].personal[u] # None
                       /\ c.md.personal[u] # rooms[c.id].personal[u]
      => c.req.user \in {u, rooms[c.id].host}

CopiesCurrent == \A w \in Workers : Current(call[w]) /\ Entitles(call[w])

\* The details in the copies are those of the document.
Informed(c) ==
  /\ c.at \in {"open", "insert"} /\ c.req.op = "Create" => c.md.info = c.doc.info
  /\ c.at \in {"list", "scan", "look"} /\ c.req.op = "Join" /\ Stored(c.id) =>
       c.doc.info = db[c.id].info
  /\ c.at = "relook" /\ Stored(c.id) => c.doc.info = db[c.id].info
  /\ c.at = "open" /\ c.req.op = "Join" /\ Stored(c.id) => c.md.info = db[c.id].info
  /\ c.at = "publish" /\ Stored(c.id) => c.md.info = db[c.id].info
  /\ c.at = "store" /\ c.req.op = "Update" /\ c.md = None => ~ HasRoomData(c.id)

\* An update that has reached the document and not yet the room.
Updating(c, m) ==
  c.at \in {"retake", "relook", "publish"} /\ c.req.op = "Update" /\ c.id = m

RoomShows(m) ==
  Stored(m) /\ HasRoomData(m) /\ (\A w \in Workers : ~ Updating(call[w], m)) =>
    rooms[m].info = db[m].info

DetailsAgree ==
  /\ \A w \in Workers : Informed(call[w])
  /\ \A m \in MeetingIDs : RoomShows(m)

-----------------------------------------------------------------------------
(* The parts of the invariant that a step of a handler renews.             *)

LEMMA Single ==
  ASSUME Alone, NEW w \in Workers
  PROVE  \A v \in Workers : v = w
BY DEF Alone

\* A room that loses its data shows nothing wrong.
Fading(m) == rooms'[m] \in {rooms[m], None, Blank}

\* The details of a document are not touched.
SameDetails(m) == db'[m] \notin {None, Cancelled} => Stored(m) /\ db'[m].info = db[m].info

\* A call that carries nothing the invariant speaks about.
Aside(c) ==
  /\ c.at \notin {"open", "insert", "publish", "relook"}
  /\ c.at \notin {"idle", "take"} => c.req.op \notin {"Join", "Update"}

Kept == CopiesCurrent' /\ (DetailsAgree /\ ~ Failures => DetailsAgree')

LEMMA AsideStep ==
  ASSUME Alone, CopiesCurrent, NEW w \in Workers, Aside(call'[w]),
         \A m \in MeetingIDs : Fading(m), \A m \in MeetingIDs : SameDetails(m),
         \A m \in MeetingIDs : Updating(call[w], m) => ~ (Stored(m)' /\ HasRoomData(m)')
  PROVE  Kept
<1>1. CopiesCurrent'
  BY Single DEF CopiesCurrent, Current, Entitles, Aside
<1>2. ASSUME DetailsAgree PROVE DetailsAgree'
  <2>1. Informed(call[w])'
    BY DEF Informed, Aside
  <2>2. ASSUME NEW m \in MeetingIDs PROVE RoomShows(m)'
    BY <1>2, Single DEF DetailsAgree, RoomShows, Fading, SameDetails, HasRoomData, Stored
  <2> QED
    BY <2>1, <2>2, Single DEF DetailsAgree
<1> QED
  BY <1>1, <1>2 DEF Kept

\* A handler that does not touch the stores goes on with its call.
LEMMA CallStep ==
  ASSUME Alone, CopiesCurrent, NEW w \in Workers, UNCHANGED <<rooms, db>>,
         Current(call[w])', Entitles(call[w])',
         DetailsAgree /\ ~ Failures => Informed(call[w])',
         \A m \in MeetingIDs : Updating(call[w], m) => Updating(call[w], m)'
  PROVE  Kept
<1>1. CopiesCurrent'
  BY Single DEF CopiesCurrent
<1>2. ASSUME DetailsAgree, ~ Failures PROVE DetailsAgree'
  <2>1. ASSUME NEW m \in MeetingIDs PROVE RoomShows(m)'
    BY <1>2, Single DEF DetailsAgree, RoomShows, HasRoomData, Stored
  <2> QED
    BY <1>2, <2>1, Single DEF DetailsAgree
<1> QED
  BY <1>1, <1>2 DEF Kept

LEMMA ReturnAside ==
  ASSUME TypeOK, NEW w \in Workers, Return(w)
  PROVE  Aside(call'[w])
BY DEF TypeOK, Return, IdleCall, Aside

\* A handler that ends, with the stores as they are, and is not in an update.
LEMMA ReturnKeeps ==
  ASSUME Alone, Inv, CopiesCurrent, NEW w \in Workers, Return(w), UNCHANGED <<rooms, db>>,
         \A m \in MeetingIDs : Updating(call[w], m) => ~ (Stored(m) /\ HasRoomData(m))
  PROVE  Kept
<1>1. Aside(call'[w])
  BY ReturnAside DEF Inv
<1>2. \A m \in MeetingIDs : Fading(m)
  BY DEF Fading
<1>3. \A m \in MeetingIDs : SameDetails(m)
  BY DEF SameDetails, Stored
<1>4. \A m \in MeetingIDs : Updating(call[w], m) => ~ (Stored(m)' /\ HasRoomData(m)')
  BY DEF Stored, HasRoomData
<1> QED
  BY <1>1, <1>2, <1>3, <1>4, AsideStep

LEMMA BeginKeeps ==
  ASSUME Alone, Inv, CopiesCurrent, NEW w \in Workers, NEW req \in Calls, Begin(w, req)
  PROVE  Kept
<1>1. req \in Request
  BY CallsAssumption
<1>2. req.op \in {"Book", "Create", "Join", "Update", "Token", "Leave", "End",
                  "SetPersonal", "SetHost", "Remove", "Clean", "GetMeetings"}
  BY <1>1 DEF Request, MeetingRequest, BookRequest, JoinRequest, EntryRequest,
       EndRequest, DeviceRequest, HostRequest, RemoveRequest, SweepRequest
<1>3. call'[w].at = FirstStep(req.op) /\ call'[w].req = req
  BY DEF Begin, IdleCall, Inv, TypeOK
<1>4. Aside(call'[w])
  BY <1>2, <1>3 DEF Aside, FirstStep
<1>5. UNCHANGED <<rooms, db>> /\ call[w].at = "idle"
  BY DEF Begin, rtcVars
<1>6. \A m \in MeetingIDs : Fading(m) /\ SameDetails(m) /\ ~ Updating(call[w], m)
  BY <1>5 DEF Fading, SameDetails, Stored, Updating
<1> QED
  BY <1>4, <1>6, AsideStep

LEMMA FailKeeps ==
  ASSUME Alone, Inv, CopiesCurrent, NEW w \in Workers, Fail(w)
  PROVE  Kept
<1>1. Aside(call'[w])
  BY ReturnAside DEF Inv, Fail
<1>2. CopiesCurrent'
  BY <1>1, Single DEF CopiesCurrent, Current, Entitles, Aside
<1> QED
  BY <1>2 DEF Kept, Fail

\* Who is about to touch a room or a document has a number.
LEMMA HasNumber ==
  ASSUME TypeOK, NEW w \in Workers, call[w].at # "idle",
         call[w].at \in {"open", "insert", "publish", "relook"}
           \/ call[w].req.op \in {"Join", "Update", "End", "SetPersonal", "SetHost"}
  PROVE  call[w].id \in MeetingIDs
<1> DEFINE c == call[w]
<1>1. c \in Call /\ Prepared(c)
  BY Running
<1>2. c.req \in Request /\ c.id \in MeetingIDs \cup {None}
  BY <1>1 DEF Call
<1>3. c.req.op \in {"Book", "Create", "Join", "Update", "Token", "Leave", "End",
                    "SetPersonal", "SetHost", "Remove", "Clean", "GetMeetings"}
  BY <1>2 DEF Request, MeetingRequest, BookRequest, JoinRequest, EntryRequest,
       EndRequest, DeviceRequest, HostRequest, RemoveRequest, SweepRequest
<1>4. CASE c.req.op \in {"Join", "Update", "End", "SetPersonal", "SetHost"}
  <2>1. c.req \in MeetingRequest /\ c.req.meeting \in MeetingIDs
    BY <1>2, <1>4, RequestShape
  <2> QED
    BY <1>1, <2>1 DEF Prepared
<1>5. CASE c.req.op \notin {"Join", "Update", "End", "SetPersonal", "SetHost"}
  <2>1. c.req.op \in {"Book", "Create"}
    BY <1>1, <1>3, <1>5 DEF Prepared, StepsOf
  <2>2. c.id # None
    BY <1>1, <1>5, <2>1 DEF Prepared, StepsOf
  <2> QED
    BY <1>2, <2>2
<1> QED
  BY <1>4, <1>5

LEMMA ClientsKeep ==
  ASSUME Inv, CopiesCurrent, Clients, UNCHANGED <<serverVars, history>>
  PROVE  Kept
<1>1. UNCHANGED <<db, call>>
  BY DEF serverVars
<1>2. \A m \in MeetingIDs : Fading(m)
  BY DEF Fading, Clients, Connect, Disconnect, RoomExpires, Inv, TypeOK
<1>3. ASSUME NEW w \in Workers
      PROVE  /\ Current(call[w])' /\ Entitles(call[w])'
             /\ Informed(call[w]) => Informed(call[w])'
  <2>1. CASE \/ call[w].at \in {"open", "insert", "publish", "relook"}
             \/ call[w].at # "idle" /\ call[w].req.op \in {"Join", "Update"}
    <3>1. call[w].id \in MeetingIDs
      BY <2>1, HasNumber DEF Inv
    <3>2. Fading(call[w].id)
      BY <1>2, <3>1
    <3> QED
      BY <1>1, <3>2 DEF CopiesCurrent, Current, Entitles, Informed, Fading, HasRoomData, Stored
  <2>2. CASE ~ (\/ call[w].at \in {"open", "insert", "publish", "relook"}
                \/ call[w].at # "idle" /\ call[w].req.op \in {"Join", "Update"})
    BY <1>1, <2>2 DEF Current, Entitles, Informed
  <2> QED
    BY <2>1, <2>2
<1>4. \A m \in MeetingIDs : RoomShows(m) => RoomShows(m)'
  BY <1>1, <1>2 DEF RoomShows, Fading, HasRoomData, Stored, Updating
<1> QED
  BY <1>3, <1>4 DEF Kept, CopiesCurrent, DetailsAgree

-----------------------------------------------------------------------------
(* The handlers that carry no copy: nothing they do is shown by a copy.    *)

CarriesNothing(w) ==
  \/ GetMeetingToken(w) \/ LeaveMeeting(w) \/ EndLook(w) \/ EndClose(w) \/ EndStore(w)
  \/ RemoveLook(w) \/ RemoveOne(w) \/ CleanRoom(w)
  \/ FindMeetings(w) \/ RefreshClose(w) \/ RefreshStore(w) \/ RefreshDone(w)

LEMMA AsideFades ==
  ASSUME Inv, NEW w \in Workers, CarriesNothing(w), NEW m \in MeetingIDs
  PROVE  Fading(m)
BY DEF Inv, CarriesNothing, Fading, TypeOK, GetMeetingToken, LeaveMeeting, EndLook, EndClose,
   EndStore, RemoveLook, RemoveOne, CleanRoom, FindMeetings, RefreshClose, RefreshStore,
   RefreshDone, RemoveParticipant, DeleteRoom, rtcVars

LEMMA AsideSame ==
  ASSUME Inv, NEW w \in Workers, CarriesNothing(w), NEW m \in MeetingIDs
  PROVE  SameDetails(m)
<1> DEFINE c == call[w]
<1>1. CASE UNCHANGED db
  BY <1>1 DEF SameDetails, Stored
<1>2. CASE EndStore(w)
  <2>0. TypeOK /\ c \in Call
    BY <1>2, Running DEF Inv, EndStore, At
  <2>1. c.req \in EndRequest
    BY <1>2, <2>0 DEF EndStore, At, Call, Request, MeetingRequest, BookRequest,
       JoinRequest, EntryRequest, DeviceRequest, HostRequest, RemoveRequest, SweepRequest
  <2>2. \/ UNCHANGED db
        \/ Stored(c.id) /\ db' = [db EXCEPT ![c.id] = Cancelled]
        \/ Stored(c.id) /\ db' = [db EXCEPT ![c.id].status = c.plan[c.id]]
    BY <1>2, <2>1 DEF EndStore, EndRequest
  <2> QED
    BY <1>1, <2>0, <2>2 DEF SameDetails, Stored, TypeOK, Doc
<1>3. CASE RefreshStore(w)
  <2>1. \/ UNCHANGED db
        \/ \E n \in MeetingIDs : Stored(n) /\ db' = [db EXCEPT ![n].status = c.plan[n]]
    BY <1>3 DEF RefreshStore
  <2> QED
    BY <1>1, <2>1 DEF Inv, SameDetails, Stored, TypeOK, Doc
<1> QED
  BY <1>1, <1>2, <1>3 DEF CarriesNothing, GetMeetingToken, LeaveMeeting, EndLook, EndClose,
     RemoveLook, RemoveOne, CleanRoom, FindMeetings, RefreshClose, RefreshDone

LEMMA AsideKeeps ==
  ASSUME Alone, Inv, CopiesCurrent, NEW w \in Workers, CarriesNothing(w)
  PROVE  Kept
<1> DEFINE c == call[w]
<1>0. /\ TypeOK /\ c \in Call /\ Prepared(c)
      /\ c.at # "publish"
      /\ c.req.op \in {"Token", "Leave", "End", "Remove", "Clean", "GetMeetings"}
      /\ c.at \notin {"open", "insert", "publish", "relook"}
  BY Running DEF Inv, CarriesNothing, GetMeetingToken, LeaveMeeting, EndLook, EndClose,
     EndStore, RemoveLook, RemoveOne, CleanRoom, FindMeetings, RefreshClose, RefreshStore,
     RefreshDone, At
<1>1. \A m \in MeetingIDs : ~ Updating(c, m)
  BY <1>0 DEF Updating
<1>2. \A m \in MeetingIDs : Fading(m)
  BY AsideFades
<1>3. \A m \in MeetingIDs : SameDetails(m)
  BY AsideSame
<1>4. Aside(call'[w])
  <2>1. CASE Return(w)
    BY <1>0, <2>1, ReturnAside
  <2>2. CASE ~ Return(w)
    <3>1. /\ call'[w].req = c.req
          /\ call'[w].at \in {c.at, "close", "store", "remove", "sweep", "settle", "search"}
      <4>1. CASE EndClose(w) \/ RemoveLook(w)
        BY <1>0, <2>2, <4>1 DEF EndClose, RemoveLook, Goto, TypeOK, Call
      <4>2. CASE RemoveOne(w)
        <5>1. PICK u \in c.left : call' = [call EXCEPT ![w].left = @ \ {u}]
          BY <2>2, <4>2 DEF RemoveOne
        <5> QED
          BY <1>0, <5>1 DEF TypeOK, Call
      <4>3. CASE CleanRoom(w)
        <5>1. PICK m \in c.todo : call' = [call EXCEPT ![w].todo = @ \ {m}]
          BY <2>2, <4>3 DEF CleanRoom
        <5> QED
          BY <1>0, <5>1 DEF TypeOK, Call
      <4>4. CASE FindMeetings(w)
        <5>1. PICK p \in Verdicts : call' = [call EXCEPT ![w].plan = p, ![w].at = "sweep"]
          BY <4>4 DEF FindMeetings
        <5> QED
          BY <1>0, <5>1 DEF TypeOK, Call
      <4>5. CASE RefreshClose(w)
        <5>1. PICK m \in MeetingIDs : call' = [call EXCEPT ![w].id = m, ![w].at = "settle"]
          BY <4>5 DEF RefreshClose
        <5> QED
          BY <1>0, <5>1 DEF TypeOK, Call
      <4>6. CASE RefreshStore(w)
        <5>1. PICK m \in MeetingIDs :
                call' = [call EXCEPT ![w].at = "sweep", ![w].id = None, ![w].plan[m] = None]
          BY <4>6 DEF RefreshStore
        <5> QED
          BY <1>0, <5>1 DEF TypeOK, Call
      <4>7. CASE EndLook(w)
        <5>1. PICK s \in NextSession(c.doc.info) :
                call' = [call EXCEPT ![w].plan[c.id] = s,
                  ![w].at = IF s = "Never" THEN "search" ELSE "close"]
          BY <2>2, <4>7 DEF EndLook
        <5> QED
          BY <1>0, <5>1 DEF TypeOK, Call
      <4>8. CASE RefreshDone(w)
        <5>1. Goto(w, "search")
          BY <2>2, <4>8 DEF RefreshDone
        <5> QED
          BY <1>0, <5>1 DEF TypeOK, Call, Goto
      <4> QED
        BY <2>2, <4>1, <4>2, <4>3, <4>4, <4>5, <4>6, <4>7, <4>8
        DEF CarriesNothing, GetMeetingToken, LeaveMeeting, EndStore
    <3> QED
      BY <1>0, <3>1 DEF Aside
  <2> QED
    BY <2>1, <2>2
<1> QED
  BY <1>1, <1>2, <1>3, <1>4, AsideStep

\* ListRooms, ScanRoom and UserIsFree: whether the user is in a room already.
LEMMA ListsKeep ==
  ASSUME Alone, Inv, CopiesCurrent, NEW w \in Workers,
         ListRooms(w) \/ ScanRoom(w) \/ UserIsFree(w)
  PROVE  Kept
<1> DEFINE c == call[w]
<1>0. /\ TypeOK /\ c \in Call /\ UNCHANGED <<rooms, db>>
      /\ c.req.op \in {"Create", "Join", "Clean"} /\ c.at \in {"list", "scan"}
      /\ \A m \in MeetingIDs : ~ Updating(c, m)
  BY Running DEF Inv, ListRooms, ScanRoom, UserIsFree, At, rtcVars, Updating
<1>1. CASE Return(w)
  BY <1>0, <1>1, ReturnKeeps
<1>2. CASE ~ Return(w)
  <2>1. /\ call'[w].id = c.id /\ call'[w].doc = c.doc /\ call'[w].req = c.req
        /\ call'[w].at \in {"scan", "clean", "number", "look"}
        /\ call'[w].at = "look" => c.req.op = "Join"
    <3>1. CASE ListRooms(w)
      BY <1>0, <3>1 DEF TypeOK, Call, ListRooms
    <3>2. CASE ScanRoom(w)
      <4>1. PICK m \in c.todo : call' = [call EXCEPT ![w].todo = @ \ {m}]
        BY <1>2, <3>2 DEF ScanRoom
      <4>2. c.at = "scan"
        BY <3>2 DEF ScanRoom, At
      <4> QED
        BY <1>0, <4>1, <4>2 DEF TypeOK, Call
    <3>3. CASE UserIsFree(w)
      BY <1>0, <3>3 DEF TypeOK, Call, UserIsFree, Goto, At
    <3> QED
      BY <3>1, <3>2, <3>3
  <2>2. Current(call[w])' /\ Entitles(call[w])'
    BY <1>0, <2>1 DEF Current, Entitles
  <2>3. DetailsAgree => Informed(call[w])'
    BY <1>0, <2>1 DEF DetailsAgree, Informed, Stored
  <2> QED
    BY <1>0, <2>2, <2>3, CallStep
<1> QED
  BY <1>1, <1>2

\* The document that is taken is the one that is stored.
LEMMA TakeKeeps ==
  ASSUME Alone, Inv, CopiesCurrent, NEW w \in Workers, Take(w) \/ UpdateRetake(w)
  PROVE  Kept
<1> DEFINE c == call[w]
<1>0. /\ TypeOK /\ c \in Call /\ UNCHANGED <<rooms, db>> /\ c.id \in MeetingIDs
      /\ c.req.op \in {"Join", "End", "Update"}
  BY Running, HasNumber DEF Inv, Take, UpdateRetake, At, rtcVars
<1>1. CASE Return(w)
  <2>1. \A m \in MeetingIDs : Updating(c, m) => ~ Stored(m)
    BY <1>0, <1>1 DEF Updating, Take, At, UpdateRetake, Return, TypeOK, IdleCall, Call
  <2> QED
    BY <1>0, <1>1, <2>1, ReturnKeeps
<1>2. CASE ~ Return(w)
  <2>1. /\ Stored(c.id)
        /\ call'[w].id = c.id /\ call'[w].doc = db[c.id] /\ call'[w].md = c.md
        /\ call'[w].req = c.req
        /\ \/ c.at = "take" /\ call'[w].at = "list" /\ c.req.op = "Join"
           \/ c.at = "take" /\ call'[w].at = "look" /\ c.req.op # "Join"
           \/ c.at = "retake" /\ call'[w].at = "relook" /\ c.req.op = "Update"
    BY <1>0, <1>2 DEF TypeOK, Call, Take, CanTake, UpdateRetake, At
  <2>2. Current(call[w])' /\ Entitles(call[w])'
    BY <1>0, <2>1 DEF CopiesCurrent, Current, Entitles, HasRoomData, Stored
  <2>3. Informed(call[w])'
    BY <1>0, <2>1 DEF Informed, Stored
  <2>4. \A m \in MeetingIDs : Updating(call[w], m) => Updating(call[w], m)'
    BY <2>1 DEF Updating
  <2> QED
    BY <1>0, <2>2, <2>3, <2>4, CallStep
<1> QED
  BY <1>1, <1>2

-----------------------------------------------------------------------------
(* Meetings that are booked or created.                                    *)

\* Under a number nobody has had yet there is neither a document nor a room
\* with data.
LEMMA NewNumber ==
  ASSUME Inv, lastID < MaxMeetings
  PROVE  lastID + 1 \in MeetingIDs /\ ~ HasRoomData(lastID + 1)
<1>1. lastID + 1 \in MeetingIDs /\ lastID + 1 > lastID
  BY MaxMeetingsAssumption DEF Inv, TypeOK, MeetingIDs
<1>2. owner[lastID + 1] = None
  BY <1>1 DEF Inv, Numbered
<1>3. CASE HasRoomData(lastID + 1)
  <2>1. rooms[lastID + 1] \in Meta /\ rooms[lastID + 1].creator = None
    BY <1>1, <1>2, <1>3 DEF Inv, TypeOK, HasRoomData, CreatorsAgree
  <2> QED
    BY <2>1, NoneAssumption DEF Meta
<1> QED
  BY <1>1, <1>3

LEMMA GenerateKeeps ==
  ASSUME Alone, Inv, CopiesCurrent, NEW w \in Workers, GenerateMeetingID(w)
  PROVE  Kept
<1> DEFINE c == call[w]
           id == lastID + 1
           doc == NewDoc(c.req)
<1>0. /\ TypeOK /\ c \in Call /\ UNCHANGED <<rooms, db>>
      /\ c.req.op \in {"Book", "Create"} /\ c.at = "number"
      /\ \A m \in MeetingIDs : ~ Updating(c, m)
  BY Running DEF Inv, GenerateMeetingID, At, rtcVars, Updating
<1>1. CASE ~ (lastID < MaxMeetings)
  BY <1>0, <1>1, ReturnKeeps DEF GenerateMeetingID
<1>2. CASE lastID < MaxMeetings
  <2>1. /\ call'[w].id = id /\ call'[w].doc = doc /\ call'[w].md = NewMeta(id, doc)
        /\ call'[w].req = c.req /\ call'[w].at \in {"insert", "open"}
    BY <1>0, <1>2 DEF GenerateMeetingID, NextID, TypeOK, Call
  <2>2. ~ HasRoomData(id)
    BY <1>2, NewNumber
  <2>3. Current(call[w])' /\ Entitles(call[w])'
    BY <1>0, <2>1, <2>2 DEF Current, Entitles, HasRoomData
  <2>4. Informed(call[w])'
    BY <1>0, <2>1 DEF Informed, NewMeta
  <2> QED
    BY <1>0, <2>3, <2>4, CallStep
<1> QED
  BY <1>1, <1>2

\* The room is opened with the metadata prepared for it, or stays without.
LEMMA OpenKeeps ==
  ASSUME Alone, Inv, CopiesCurrent, NEW w \in Workers, OpenRoom(w)
  PROVE  Kept
<1> DEFINE c == call[w]
<1>0. /\ TypeOK /\ c \in Call /\ Prepared(c) /\ UNCHANGED db /\ c.id \in MeetingIDs
      /\ c.req.op \in {"Create", "Join"} /\ c.at = "open"
  BY Running, HasNumber DEF Inv, OpenRoom, At
<1>n. PICK n \in MeetingIDs : n = c.id
  BY <1>0
<1>1. c.md \in Meta /\ ~ HasRoomData(c.id)
  BY <1>0 DEF Prepared, Call, CopiesCurrent, Current
<1>2. /\ rooms'[c.id] \in {c.md, Blank}
      /\ \A m \in MeetingIDs \ {c.id} : rooms'[m] = rooms[m]
  BY <1>0, <1>1 DEF OpenRoom, CreateRoom, TypeOK, HasRoomData
<1>3. /\ call'[w].at = "idle" /\ c.req.op = "Join"
      \/ /\ c.req.op = "Create" /\ call'[w].at = "insert" /\ call'[w].req = c.req
         /\ call'[w].id = c.id /\ call'[w].md = c.md /\ call'[w].doc = c.doc
  BY <1>0 DEF OpenRoom, Return, Goto, IdleCall, TypeOK, Call
<1>4. CopiesCurrent'
  BY <1>0, <1>2, <1>3, Single DEF CopiesCurrent, Current, Entitles, HasRoomData
<1>5. ASSUME DetailsAgree PROVE DetailsAgree'
  <2>1. Informed(call[w])'
    BY <1>0, <1>3, <1>5 DEF DetailsAgree, Informed
  <2>2. Stored(c.id) => c.md.info = db[c.id].info
    <3>1. CASE c.req.op = "Create"
      BY <1>0, <3>1 DEF Inv, Numbered, Founding, Stored
    <3>2. CASE c.req.op = "Join"
      BY <1>0, <1>5, <3>2 DEF DetailsAgree, Informed
    <3> QED
      BY <1>0, <3>1, <3>2
  <2>3. RoomShows(n)'
    BY <1>0, <1>n, <1>2, <2>2 DEF RoomShows, Stored, HasRoomData
  <2>4. ASSUME NEW m \in MeetingIDs \ {n} PROVE RoomShows(m)'
    BY <1>0, <1>n, <1>2, <1>5, Single DEF DetailsAgree, RoomShows, Stored, HasRoomData, Updating
  <2> QED
    BY <2>1, <2>3, <2>4, Single DEF DetailsAgree
<1> QED
  BY <1>4, <1>5 DEF Kept

\* The document is stored under a number that has none.
LEMMA InsertKeeps ==
  ASSUME Alone, Inv, CopiesCurrent, NEW w \in Workers, InsertMeeting(w)
  PROVE  Kept
<1> DEFINE c == call[w]
<1>0. /\ TypeOK /\ c \in Call /\ UNCHANGED rooms /\ c.id \in MeetingIDs
      /\ c.req.op \in {"Book", "Create"} /\ c.at = "insert"
  BY Running, HasNumber DEF Inv, InsertMeeting, At, rtcVars
<1>n. PICK n \in MeetingIDs : n = c.id
  BY <1>0
<1>1. db[c.id] = None
  BY <1>0 DEF Inv, Numbered, Founding
<1>2. db'[c.id] = c.doc /\ \A m \in MeetingIDs \ {c.id} : db'[m] = db[m]
  BY <1>0, <1>1 DEF InsertMeeting, TypeOK
<1>3. \/ call'[w].at = "idle" /\ c.req.op = "Book"
      \/ /\ c.req.op = "Create" /\ call'[w].at = "publish" /\ call'[w].req = c.req
         /\ call'[w].id = c.id /\ call'[w].md = c.md
  BY <1>0, <1>1 DEF InsertMeeting, Return, Goto, IdleCall, TypeOK, Call
<1>4. HasRoomData(c.id) => c.req.op = "Create" /\ rooms[c.id] = c.md
  BY <1>0 DEF CopiesCurrent, Current
<1>5. CopiesCurrent'
  BY <1>0, <1>3, <1>4, Single DEF CopiesCurrent, Current, Entitles, HasRoomData
<1>6. ASSUME DetailsAgree PROVE DetailsAgree'
  <2>1. c.req.op = "Create" => c.md.info = c.doc.info
    BY <1>0, <1>6 DEF DetailsAgree, Informed
  <2>2. Informed(call[w])'
    BY <1>0, <1>2, <1>3, <2>1 DEF Informed
  <2>3. RoomShows(n)'
    BY <1>0, <1>n, <1>2, <1>4, <2>1 DEF RoomShows, HasRoomData
  <2>4. ASSUME NEW m \in MeetingIDs \ {n} PROVE RoomShows(m)'
    BY <1>0, <1>n, <1>2, <1>6, Single DEF DetailsAgree, RoomShows, Stored, HasRoomData, Updating
  <2> QED
    BY <2>2, <2>3, <2>4, Single DEF DetailsAgree
<1> QED
  BY <1>5, <1>6 DEF Kept

\* The metadata go into the room of the meeting they are of.
LEMMA PublishKeeps ==
  ASSUME Alone, Inv, CopiesCurrent, NEW w \in Workers, Publish(w)
  PROVE  Kept
<1> DEFINE c == call[w]
<1>0. /\ TypeOK /\ c \in Call /\ Prepared(c) /\ UNCHANGED db /\ c.id \in MeetingIDs
      /\ c.at = "publish" /\ Return(w)
  BY Running, HasNumber DEF Inv, Publish
<1>n. PICK n \in MeetingIDs : n = c.id
  BY <1>0
<1>1. c.md.meeting = c.id
  BY <1>0 DEF Inv, CreatorsAgree, Agrees, Prepared
<1>2. /\ rooms'[n] = c.md \/ ~ HasRoomData(n)'
      /\ \A m \in MeetingIDs \ {n} : rooms'[m] = rooms[m]
  <2>1. CASE Open(n)
    BY <1>0, <1>n, <1>1, <2>1 DEF Publish, UpdateRoomMetadata, TypeOK
  <2>2. CASE ~ Open(n)
    BY <1>0, <1>n, <1>1, <2>2 DEF Publish, Open, HasRoomData, rtcVars
  <2> QED
    BY <2>1, <2>2
<1>3. Aside(call'[w])
  BY <1>0, ReturnAside
<1>4. CopiesCurrent'
  BY <1>3, Single DEF CopiesCurrent, Current, Entitles, Aside
<1>5. ASSUME DetailsAgree PROVE DetailsAgree'
  <2>1. Informed(call[w])'
    BY <1>3 DEF Informed, Aside
  <2>2. RoomShows(n)'
    BY <1>0, <1>n, <1>2, <1>5 DEF DetailsAgree, Informed, RoomShows, Stored
  <2>3. ASSUME NEW m \in MeetingIDs \ {n} PROVE RoomShows(m)'
    BY <1>0, <1>n, <1>2, <1>5, Single DEF DetailsAgree, RoomShows, Stored, HasRoomData, Updating
  <2> QED
    BY <2>1, <2>2, <2>3, Single DEF DetailsAgree
<1> QED
  BY <1>4, <1>5 DEF Kept

-----------------------------------------------------------------------------
(* The handlers that work from a copy of the metadata.                     *)

\* A new entry is nobody's setting yet.
LEMMA WithEntryKeeps ==
  ASSUME NEW md \in Meta, NEW u \in Users
  PROVE  /\ WithEntry(md, u) \in Meta
         /\ WithEntry(md, u).info = md.info
         /\ WithEntry(md, u).host = md.host
         /\ \A v \in Users : md.personal[v] # None =>
              WithEntry(md, u).personal[v] = md.personal[v]
<1>1. WithEntry(md, u) \in Meta
  BY WithEntryType
<1>2. CASE md.personal[u] = None
  BY <1>1, <1>2 DEF WithEntry, Meta
<1>3. CASE md.personal[u] # None
  BY <1>1, <1>3 DEF WithEntry
<1> QED
  BY <1>1, <1>2, <1>3

\* A handler that goes on to write metadata into the room of its meeting.
LEMMA CarryStep ==
  ASSUME Alone, Inv, CopiesCurrent, NEW w \in Workers, UNCHANGED <<rooms, db>>,
         call[w].at # "idle", call[w].id \in MeetingIDs,
         call'[w].at = "publish", call'[w].req = call[w].req, call'[w].id = call[w].id,
         HasRoomData(call[w].id) =>
           \A u \in Users : /\ rooms[call[w].id].personal[u] # None
                            /\ call'[w].md.personal[u] # rooms[call[w].id].personal[u]
             => call[w].req.user \in {u, rooms[call[w].id].host},
         DetailsAgree /\ ~ Failures /\ Stored(call[w].id) =>
           call'[w].md.info = db[call[w].id].info
  PROVE  Kept
<1>1. Current(call[w])' /\ Entitles(call[w])'
  BY DEF Current, Entitles, HasRoomData
<1>2. DetailsAgree /\ ~ Failures => Informed(call[w])'
  BY DEF Informed, Stored
<1>3. \A m \in MeetingIDs : Updating(call[w], m) => Updating(call[w], m)'
  BY DEF Updating
<1> QED
  BY <1>1, <1>2, <1>3, CallStep

LEMMA JoinKeeps ==
  ASSUME Alone, Inv, CopiesCurrent, NEW w \in Workers, JoinWithoutRoom(w) \/ JoinRoom(w)
  PROVE  Kept
<1> DEFINE c == call[w]
           u == c.req.user
<1>0. /\ TypeOK
      /\ UNCHANGED <<rooms, db>>
      /\ c \in Call /\ Prepared(c) /\ c.req.op = "Join" /\ c.at = "look"
      /\ c.req \in MeetingRequest /\ c.id \in MeetingIDs
      /\ u \in Users /\ c.doc \in Doc
      /\ \A m \in MeetingIDs : ~ Updating(c, m)
  BY Running, RequestShape
     DEF Inv, JoinWithoutRoom, JoinRoom, At, Call, Prepared, rtcVars, Updating
<1>1. CASE Return(w)
  BY <1>0, <1>1, ReturnKeeps
<1>2. DetailsAgree => (Stored(c.id) => c.doc.info = db[c.id].info)
  BY <1>0 DEF DetailsAgree, Informed
<1>3. CASE ~ Return(w) /\ JoinWithoutRoom(w)
  <2> DEFINE md == NewMeta(c.id, c.doc)
  <2>1. /\ call' = [call EXCEPT ![w].md = md, ![w].at = "open"]
        /\ ~ Open(c.id)
    BY <1>3 DEF JoinWithoutRoom
  <2>2. md.info = c.doc.info
    BY DEF NewMeta
  <2> HIDE DEF md
  <2>3. /\ call'[w].id = c.id /\ call'[w].doc = c.doc /\ call'[w].md = md
        /\ call'[w].req = c.req /\ call'[w].at = "open"
    BY <1>0, <2>1 DEF TypeOK, Call
  <2>4. Current(call[w])' /\ Entitles(call[w])'
    BY <1>0, <2>1, <2>3 DEF Current, Entitles, Open, HasRoomData
  <2>5. DetailsAgree => Informed(call[w])'
    BY <1>0, <1>2, <2>2, <2>3 DEF Informed, Stored
  <2> QED
    BY <1>0, <2>4, <2>5, CallStep
<1>4. CASE ~ Return(w) /\ JoinRoom(w)
  <2> DEFINE base == JoinBase(w)
             md == [WithEntry(base, u) EXCEPT !.meeting = c.id]
  <2>1. call' = [call EXCEPT ![w].at = "publish", ![w].md = md]
    BY <1>4 DEF JoinRoom
  <2>2. /\ base \in Meta
        /\ HasRoomData(c.id) => base = rooms[c.id]
        /\ ~ HasRoomData(c.id) => base.info = c.doc.info
    <3>1. CASE rooms[c.id] = Blank
      BY <1>0, <3>1, NewMetaType DEF JoinBase, HasRoomData, NewMeta
    <3>2. CASE rooms[c.id] # Blank
      BY <1>0, <1>4, <3>2 DEF JoinBase, JoinRoom, Open, HasRoomData, TypeOK
    <3> QED
      BY <3>1, <3>2
  <2> HIDE DEF base
  <2>3. md.info = WithEntry(base, u).info /\ md.personal = WithEntry(base, u).personal
    BY <1>0, <2>2, WithEntryKeeps DEF Meta
  <2> HIDE DEF md
  <2>4. /\ call'[w].id = c.id /\ call'[w].md = md
        /\ call'[w].req = c.req /\ call'[w].at = "publish"
    BY <1>0, <2>1 DEF TypeOK, Call
  <2>5. HasRoomData(c.id) =>
          \A v \in Users : rooms[c.id].personal[v] # None =>
            call'[w].md.personal[v] = rooms[c.id].personal[v]
    BY <1>0, <2>2, <2>3, <2>4, WithEntryKeeps
  <2>6. DetailsAgree /\ Stored(c.id) => call'[w].md.info = db[c.id].info
    <3>1. DetailsAgree /\ Stored(c.id) => base.info = db[c.id].info
      BY <1>0, <1>2, <2>2, Single DEF DetailsAgree, RoomShows
    <3> QED
      BY <1>0, <2>2, <2>3, <2>4, <3>1, WithEntryKeeps
  <2> QED
    BY <1>0, <2>4, <2>5, <2>6, CarryStep
<1> QED
  BY <1>1, <1>3, <1>4

\* SetPersonalMeetingSettings touches one entry, and nothing else.
LEMMA AdjustedKeeps ==
  ASSUME NEW md \in Meta, NEW req \in DeviceRequest
  PROVE  /\ Adjusted(md, req).info = md.info
         /\ \A v \in Users \ {req.target} : md.personal[v] # None =>
              Adjusted(md, req).personal[v] = md.personal[v]
<1> DEFINE base == WithEntry(md, req.target)
<1>1. /\ req.target \in Users /\ req.value \in {"unset", "on", "off"}
      /\ base \in Meta /\ base.info = md.info
      /\ \A v \in Users : md.personal[v] # None => base.personal[v] = md.personal[v]
  BY WithEntryKeeps DEF DeviceRequest
<1> HIDE DEF base
<1>2. CASE req.value = "unset"
  <2>1. Adjusted(md, req) = base
    BY <1>2 DEF Adjusted, base
  <2> QED
    BY <1>1, <2>1
<1>3. CASE req.value # "unset" /\ req.user = req.target
  <2>1. Adjusted(md, req) = [base EXCEPT !.personal[req.target].self = (req.value = "on")]
    BY <1>3 DEF Adjusted, base
  <2> QED
    BY <1>1, <2>1 DEF Meta
<1>4. CASE req.value # "unset" /\ req.user # req.target
  <2>1. Adjusted(md, req) = [base EXCEPT !.personal[req.target].limit = (req.value = "on")]
    BY <1>4 DEF Adjusted, base
  <2> QED
    BY <1>1, <2>1 DEF Meta
<1> QED
  BY <1>2, <1>3, <1>4

LEMMA EditKeeps ==
  ASSUME Alone, Inv, CopiesCurrent, NEW w \in Workers,
         SetPersonalMeetingSettings(w) \/ SetMeetingHostInfo(w)
  PROVE  Kept
<1> DEFINE c == call[w]
           md == rooms[c.id]
<1>0. /\ TypeOK
      /\ UNCHANGED <<rooms, db>>
      /\ c \in Call /\ Prepared(c) /\ c.at = "look"
      /\ c.req.op \in {"SetPersonal", "SetHost"}
      /\ c.req \in Request /\ c.id \in MeetingIDs
      /\ \A m \in MeetingIDs : ~ Updating(c, m)
  BY Running, HasNumber
     DEF Inv, SetPersonalMeetingSettings, SetMeetingHostInfo, At, Call, rtcVars, Updating
<1>1. CASE Return(w)
  BY <1>0, <1>1, ReturnKeeps
<1>2. CASE ~ Return(w)
  <2>0. HasRoomData(c.id) /\ md \in Meta
    BY <1>0, <1>2
       DEF SetPersonalMeetingSettings, SetMeetingHostInfo, HasRoomData, TypeOK
  <2>1. DetailsAgree /\ Stored(c.id) => md.info = db[c.id].info
    BY <1>0, <2>0, Single DEF DetailsAgree, RoomShows
  <2>2. CASE SetPersonalMeetingSettings(w)
    <3> DEFINE new == Adjusted(md, c.req)
    <3>1. /\ call' = [call EXCEPT ![w].at = "publish", ![w].md = new]
          /\ MaySetPersonal(md, c.req)
      BY <1>2, <2>2 DEF SetPersonalMeetingSettings
    <3>2. c.req \in DeviceRequest
      BY <1>0, <2>2, RequestShape DEF SetPersonalMeetingSettings, At
    <3>3. /\ new.info = md.info
          /\ \A v \in Users \ {c.req.target} : md.personal[v] # None =>
               new.personal[v] = md.personal[v]
      BY <2>0, <3>2, AdjustedKeeps
    <3> HIDE DEF new
    <3>4. /\ call'[w].id = c.id /\ call'[w].md = new
          /\ call'[w].req = c.req /\ call'[w].at = "publish"
      BY <1>0, <3>1 DEF TypeOK, Call
    <3>5. \A u \in Users : md.personal[u] # None /\ call'[w].md.personal[u] # md.personal[u]
            => c.req.user \in {u, md.host}
      BY <3>1, <3>3, <3>4 DEF MaySetPersonal
    <3> QED
      BY <1>0, <2>1, <3>3, <3>4, <3>5, CarryStep
  <2>3. CASE SetMeetingHostInfo(w)
    <3> DEFINE new == Appointed(md, c.req)
    <3>1. call' = [call EXCEPT ![w].at = "publish", ![w].md = new]
      BY <1>2, <2>3 DEF SetMeetingHostInfo
    <3>2. new.info = md.info /\ new.personal = md.personal
      BY <2>0 DEF Appointed, Meta
    <3> HIDE DEF new
    <3>3. /\ call'[w].id = c.id /\ call'[w].md = new
          /\ call'[w].req = c.req /\ call'[w].at = "publish"
      BY <1>0, <3>1 DEF TypeOK, Call
    <3> QED
      BY <1>0, <2>1, <3>2, <3>3, CarryStep
  <2> QED
    BY <2>2, <2>3
<1> QED
  BY <1>1, <1>2

\* UpdateMeeting: the document first, then the room, from the personal data of
\* before and the document of after.
LEMMA UpdateLookKeeps ==
  ASSUME Alone, Inv, CopiesCurrent, NEW w \in Workers, UpdateLook(w)
  PROVE  Kept
<1> DEFINE c == call[w]
<1>0. /\ TypeOK
      /\ UNCHANGED <<rooms, db>>
      /\ c \in Call /\ c.at = "look" /\ c.req.op = "Update" /\ c.id \in MeetingIDs
      /\ \A m \in MeetingIDs : ~ Updating(c, m)
  BY Running, HasNumber DEF Inv, UpdateLook, At, rtcVars, Updating
<1>1. PICK md \in SeenData(c.id) : call' = [call EXCEPT ![w].at = "store", ![w].md = md]
  BY DEF UpdateLook
<1>2. /\ call'[w].id = c.id /\ call'[w].md = md
      /\ call'[w].req = c.req /\ call'[w].at = "store"
  BY <1>0, <1>1 DEF TypeOK, Call
<1>3. /\ md # None /\ HasRoomData(c.id) => md = rooms[c.id]
      /\ ~ Failures /\ md = None => ~ HasRoomData(c.id)
  BY DEF SeenData, HasRoomData
<1>4. Current(call[w])' /\ Entitles(call[w])'
  BY <1>0, <1>2, <1>3 DEF CopiesCurrent, Current, Entitles, HasRoomData, Stored
<1>5. ~ Failures => Informed(call[w])'
  BY <1>0, <1>2, <1>3 DEF Informed, HasRoomData
<1> QED
  BY <1>0, <1>4, <1>5, CallStep

LEMMA UpdateStoreKeeps ==
  ASSUME Alone, Inv, CopiesCurrent, NEW w \in Workers, UpdateStore(w)
  PROVE  Kept
<1> DEFINE c == call[w]
<1>0. /\ TypeOK
      /\ UNCHANGED rooms
      /\ c \in Call /\ c.at = "store" /\ c.req.op = "Update" /\ c.id \in MeetingIDs
  BY Running, HasNumber DEF Inv, UpdateStore, At, rtcVars
<1>n. PICK n \in MeetingIDs : n = c.id
  BY <1>0
<1>1. \A m \in MeetingIDs \ {n} : db'[m] = db[m]
  BY <1>0, <1>n DEF UpdateStore, TypeOK
<1>2. CASE c.md = None
  <2>1. Aside(call'[w])
    BY <1>0, <1>2, ReturnAside DEF UpdateStore, UpdatesRoom
  <2>2. CopiesCurrent'
    BY <2>1, Single DEF CopiesCurrent, Current, Entitles, Aside
  <2>3. ASSUME DetailsAgree PROVE DetailsAgree'
    <3>1. Informed(call[w])'
      BY <2>1 DEF Informed, Aside
    <3>2. RoomShows(n)'
      BY <1>0, <1>n, <1>2, <2>3 DEF DetailsAgree, Informed, RoomShows, HasRoomData
    <3>3. ASSUME NEW m \in MeetingIDs \ {n} PROVE RoomShows(m)'
      BY <1>0, <1>n, <1>1, <2>3, Single
         DEF DetailsAgree, RoomShows, Stored, HasRoomData, Updating
    <3> QED
      BY <3>1, <3>2, <3>3, Single DEF DetailsAgree
  <2> QED
    BY <2>2, <2>3 DEF Kept
<1>3. CASE c.md # None
  <2>1. /\ call'[w].at = "retake" /\ call'[w].req = c.req /\ call'[w].id = c.id
        /\ call'[w].md = c.md
    BY <1>0, <1>3 DEF UpdateStore, UpdatesRoom, Goto, TypeOK, Call
  <2>2. Current(call[w])' /\ Entitles(call[w])'
    BY <1>0, <1>3, <2>1 DEF CopiesCurrent, Current, Entitles, HasRoomData
  <2>3. CopiesCurrent'
    BY <2>2, Single DEF CopiesCurrent
  <2>4. ASSUME DetailsAgree PROVE DetailsAgree'
    <3>1. Informed(call[w])'
      BY <2>1 DEF Informed
    <3>2. RoomShows(n)'
      BY <1>0, <1>n, <2>1 DEF RoomShows, Updating
    <3>3. ASSUME NEW m \in MeetingIDs \ {n} PROVE RoomShows(m)'
      BY <1>0, <1>n, <1>1, <2>4, Single
         DEF DetailsAgree, RoomShows, Stored, HasRoomData, Updating
    <3> QED
      BY <3>1, <3>2, <3>3, Single DEF DetailsAgree
  <2> QED
    BY <2>3, <2>4 DEF Kept
<1> QED
  BY <1>2, <1>3

LEMMA UpdateRelookKeeps ==
  ASSUME Alone, Inv, CopiesCurrent, NEW w \in Workers, UpdateRelook(w)
  PROVE  Kept
<1> DEFINE c == call[w]
<1>0. /\ TypeOK
      /\ UNCHANGED <<rooms, db>>
      /\ c \in Call /\ Prepared(c) /\ c.at = "relook" /\ c.req.op = "Update"
      /\ c.id \in MeetingIDs
  BY Running, HasNumber DEF Inv, UpdateRelook, At, rtcVars
<1>1. PICK md \in SeenData(c.id) :
        call' = [call EXCEPT ![w].at = "publish", ![w].md = Detail(w, md)]
  BY DEF UpdateRelook
<1> DEFINE detail == Detail(w, md)
<1>2. detail.info = c.doc.info /\ detail.personal = c.md.personal
  BY DEF Detail
<1> HIDE DEF detail
<1>3. /\ call'[w].id = c.id /\ call'[w].md = detail
      /\ call'[w].req = c.req /\ call'[w].at = "publish"
  BY <1>0, <1>1 DEF TypeOK, Call, detail
<1>4. HasRoomData(c.id) => c.md.personal = rooms[c.id].personal
  BY <1>0 DEF CopiesCurrent, Current, Prepared
<1>5. DetailsAgree /\ Stored(c.id) => c.doc.info = db[c.id].info
  BY <1>0 DEF DetailsAgree, Informed
<1> QED
  BY <1>0, <1>2, <1>3, <1>4, <1>5, CarryStep

-----------------------------------------------------------------------------
(* What follows for one handler at a time.                                 *)

LEMMA AloneInit == Init => CopiesCurrent /\ DetailsAgree
BY DEF Init, RtcInit, IdleCall, CopiesCurrent, Current, Entitles, DetailsAgree, Informed,
   RoomShows, HasRoomData, Stored

LEMMA AloneStep ==
  ASSUME Alone
  PROVE  Inv /\ CopiesCurrent /\ [Next]_vars => Kept
<1> SUFFICES ASSUME Inv, CopiesCurrent, [Next]_vars PROVE Kept
  OBVIOUS
<1>1. ASSUME NEW w \in Workers, NEW req \in Calls, Begin(w, req) PROVE Kept
  BY <1>1, BeginKeeps
<1>2. ASSUME NEW w \in Workers, Fail(w) PROVE Kept
  BY <1>2, FailKeeps
<1>3. ASSUME NEW w \in Workers, Step(w) PROVE Kept
  <2>1. CASE ListRooms(w) \/ ScanRoom(w) \/ UserIsFree(w)
    BY <2>1, ListsKeep
  <2>2. CASE Take(w) \/ UpdateRetake(w)
    BY <2>2, TakeKeeps
  <2>3. CASE GenerateMeetingID(w) \/ OpenRoom(w) \/ InsertMeeting(w) \/ Publish(w)
    BY <2>3, GenerateKeeps, OpenKeeps, InsertKeeps, PublishKeeps
  <2>4. CASE JoinWithoutRoom(w) \/ JoinRoom(w)
    BY <2>4, JoinKeeps
  <2>5. CASE UpdateLook(w) \/ UpdateStore(w) \/ UpdateRelook(w)
    BY <2>5, UpdateLookKeeps, UpdateStoreKeeps, UpdateRelookKeeps
  <2>6. CASE SetPersonalMeetingSettings(w) \/ SetMeetingHostInfo(w)
    BY <2>6, EditKeeps
  <2>7. CASE CarriesNothing(w)
    BY <2>7, AsideKeeps
  <2> QED
    BY <1>3, <2>1, <2>2, <2>3, <2>4, <2>5, <2>6, <2>7 DEF Step, CarriesNothing
<1>4. CASE Clients /\ UNCHANGED <<serverVars, history>>
  BY <1>4, ClientsKeep
<1>5. CASE UNCHANGED vars
  BY <1>5 DEF vars, Kept, CopiesCurrent, Current, Entitles, DetailsAgree, Informed, RoomShows,
     Updating, HasRoomData, Stored
<1> QED
  BY <1>1, <1>2, <1>3, <1>4, <1>5 DEF Next

\* A single handler's copies are never out of date.
THEOREM CopiesAlwaysCurrent ==
  ASSUME Alone
  PROVE  Spec => []CopiesCurrent
<1>1. Inv /\ CopiesCurrent /\ [Next]_vars => CopiesCurrent'
  BY AloneStep DEF Kept
<1> QED
  BY <1>1, AloneInit, InvCorrect, PTL DEF Spec

\* With one handler at a time and no failing call, an open room shows what its
\* document says whenever no handler is at work: CreateImmediateMeeting opens
\* the room with what it then stores, JoinMeeting repeats the document, and
\* UpdateMeeting carries its change into the room before it answers.
THEOREM RoomsShowDocuments ==
  ASSUME Alone, ~ Failures
  PROVE  Spec => []RoomShowsDocument
<1>1. Inv /\ CopiesCurrent /\ DetailsAgree /\ [Next]_vars => DetailsAgree'
  BY AloneStep DEF Kept
<1>2. DetailsAgree => RoomShowsDocument
  BY DEF DetailsAgree, RoomShowsDocument, Idle, RoomShows, Updating
<1> QED
  BY <1>1, <1>2, AloneInit, InvCorrect, CopiesAlwaysCurrent, PTL DEF Spec

\* Only two steps put other metadata into a room that has some.
LEMMA OthersFade ==
  ASSUME Inv, Next, NEW m \in MeetingIDs, ~ Fading(m)
  PROVE  \E w \in Workers : OpenRoom(w) \/ Publish(w)
<1>1. CASE UNCHANGED rooms
  BY <1>1 DEF Fading
<1>2. CASE Clients
  BY <1>2 DEF Fading, Clients, Connect, Disconnect, RoomExpires, Inv, TypeOK
<1>3. ASSUME NEW w \in Workers, CarriesNothing(w) PROVE Fading(m)
  BY <1>3, AsideFades
<1>4. ASSUME NEW w \in Workers, Step(w), ~ OpenRoom(w), ~ Publish(w), ~ CarriesNothing(w)
      PROVE  UNCHANGED rooms
  BY <1>4 DEF Step, CarriesNothing, ListRooms, ScanRoom, UserIsFree, Take, GenerateMeetingID,
     InsertMeeting, JoinWithoutRoom, JoinRoom, UpdateLook, UpdateStore, UpdateRetake,
     UpdateRelook, SetPersonalMeetingSettings, SetMeetingHostInfo, rtcVars
<1>5. ASSUME NEW w \in Workers, Fail(w) \/ \E req \in Calls : Begin(w, req)
      PROVE  UNCHANGED rooms
  BY <1>5 DEF Fail, Begin, rtcVars
<1> QED
  BY <1>1, <1>2, <1>3, <1>4, <1>5 DEF Next

\* With one handler at a time, somebody's setting in a room is changed by that
\* user or by the host only: the personal data a handler writes back are not
\* older than those it replaces.  Calls may fail: an UpdateMeeting that could
\* not read the metadata (meeting.go:316) does not write any.
THEOREM OnlySelfOrHostChanges ==
  ASSUME Alone
  PROVE  Spec => OnlySelfOrHost
<1>1. Inv /\ CopiesCurrent /\ [Next]_vars =>
        [\A m \in MeetingIDs, u \in Users :
           /\ HasRoomData(m) /\ HasRoomData(m)'
           /\ rooms[m].personal[u] # None
           /\ rooms'[m].personal[u] # rooms[m].personal[u]
           => \E w \in Workers : call'[w] # call[w] /\ call[w].at = "publish"
                                 /\ call[w].req.user \in {u, rooms[m].host}]_vars
  <2> SUFFICES ASSUME Inv, CopiesCurrent, Next, NEW m \in MeetingIDs, NEW u \in Users,
                      HasRoomData(m), HasRoomData(m)',
                      rooms[m].personal[u] # None,
                      rooms'[m].personal[u] # rooms[m].personal[u]
               PROVE  \E w \in Workers : call'[w] # call[w] /\ call[w].at = "publish"
                                         /\ call[w].req.user \in {u, rooms[m].host}
    BY DEF vars
  <2>1. ~ Fading(m)
    BY DEF Fading, HasRoomData
  <2>2. PICK w \in Workers : OpenRoom(w) \/ Publish(w)
    BY <2>1, OthersFade
  <2> DEFINE c == call[w]
  <2>3. TypeOK /\ c \in Call /\ Prepared(c) /\ c.id \in MeetingIDs
    BY <2>2, Running, HasNumber DEF Inv, OpenRoom, Publish, At
  <2>4. CASE OpenRoom(w)
    <3>1. ~ HasRoomData(c.id)
      BY <2>4 DEF CopiesCurrent, Current, OpenRoom, At
    <3>2. rooms'[m] = rooms[m]
      BY <2>3, <2>4, <3>1 DEF OpenRoom, CreateRoom, TypeOK
    <3> QED
      BY <3>2
  <2>5. CASE Publish(w)
    <3>0. c.at = "publish"
      BY <2>5 DEF Publish
    <3>1. c.md.meeting = c.id
      BY <2>3, <3>0 DEF Inv, CreatorsAgree, Agrees, Prepared
    <3>2. m = c.id /\ rooms'[m] = c.md
      BY <2>1, <2>3, <2>5, <3>1 DEF Publish, UpdateRoomMetadata, Fading, TypeOK, rtcVars
    <3>3. c.req.user \in {u, rooms[m].host}
      BY <3>0, <3>2 DEF CopiesCurrent, Entitles
    <3>4. call'[w].at = "idle"
      BY <2>3, <2>5 DEF Publish, Return, IdleCall, TypeOK
    <3> QED
      BY <3>0, <3>3, <3>4
  <2> QED
    BY <2>2, <2>4, <2>5
<1> QED
  BY <1>1, InvCorrect, CopiesAlwaysCurrent, PTL DEF Spec, OnlySelfOrHost
=============================================================================
