---------------------- MODULE MeetingAgreementProofs -----------------------
(***************************************************************************)
(* The two stores and the copies in flight agree (CreatorsAgree), numbers  *)
(* are fresh (NumbersAreFresh), every setting has an author                *)
(* (SettingsHaveAuthors, AuthorityChain), and the server implements        *)
(* MeetingLifecycle.                                                       *)
(***************************************************************************)
EXTENDS MeetingServerProofs

\* A handler that has a number of its own and has not stored a document yet.
Founding(c) == c.at \in {"open", "insert"} /\ c.req.op \in {"Book", "Create"}

\* Numbers above the counter are untouched; those below it that still have no
\* document and a handler to store one have exactly one such handler.
Numbered ==
  /\ \A m \in MeetingIDs : m > lastID => owner[m] = None /\ db[m] = None
  /\ \A w \in Workers : Founding(call[w]) =>
       /\ call[w].id <= lastID
       /\ db[call[w].id] = None
       /\ call[w].doc.status \in {"Scheduled", "In-Progress"}
  /\ \A v, w \in Workers :
       Founding(call[v]) /\ Founding(call[w]) /\ call[v].id = call[w].id => v = w

\* The inductive invariant.
Inv == TypeOK /\ Numbered /\ CreatorsAgree /\ SettingsHaveAuthors

-----------------------------------------------------------------------------
(* How each part of the invariant survives a step. *)

LEMMA NumberedStep ==
  ASSUME Numbered, UNCHANGED <<lastID, owner>>,
         \A m \in MeetingIDs : db[m] = None => db'[m] = None,
         \A v \in Workers : Founding(call'[v]) =>
           /\ Founding(call[v])
           /\ call'[v].id = call[v].id /\ call'[v].doc = call[v].doc
           /\ call[v].id \in MeetingIDs
  PROVE  Numbered'
BY DEF Numbered, Founding

LEMMA AgreeStep ==
  ASSUME CreatorsAgree, UNCHANGED owner,
         \A m \in MeetingIDs : db'[m] \notin {None, Cancelled} =>
           Stored(m) /\ db'[m].creator = db[m].creator,
         \A m \in MeetingIDs :
           \/ rooms'[m] \in {rooms[m], None, Blank}
           \/ rooms'[m].meeting = m /\ rooms'[m].creator = owner[m],
         \A v \in Workers : call'[v] = call[v] \/ Agrees(call'[v])
  PROVE  CreatorsAgree'
BY DEF CreatorsAgree, Stored, HasRoomData, Agrees

LEMMA RightfulStep ==
  ASSUME NEW md, Rightful(md), trail \subseteq trail'
  PROVE  Rightful(md)'
BY DEF Rightful, Allowed

LEMMA AuthorsStep ==
  ASSUME SettingsHaveAuthors, trail \subseteq trail',
         \A m \in MeetingIDs :
           rooms'[m] \in {rooms[m], None, Blank} \/ Rightful(rooms'[m]),
         \A v \in Workers :
           call'[v] = call[v] \/ call'[v].md = None \/ Rightful(call[v].md)'
  PROVE  SettingsHaveAuthors'
BY RightfulStep DEF SettingsHaveAuthors, HasRoomData, Rightful, Allowed

-----------------------------------------------------------------------------
(* Most steps make nothing that was not there: they drop a copy or go on   *)
(* with it, settle or cancel a meeting, close a room.                      *)

\* A step that leaves a call as it is, ends it, starts it or moves it on.
Quiet(v) ==
  \/ call'[v] = call[v]
  \/ call'[v].doc = None /\ call'[v].md = None /\ ~ Founding(call'[v])
  \/ /\ call'[v].id = call[v].id /\ call'[v].doc = call[v].doc
     /\ call'[v].md = call[v].md
     /\ Founding(call'[v]) => Founding(call[v])

\* A document keeps its creator until it is cancelled.
KeepsCreator(m) ==
  \/ db'[m] = db[m]
  \/ Stored(m) /\ db'[m] = Cancelled
  \/ Stored(m) /\ db'[m] # None /\ db'[m].creator = db[m].creator

LEMMA FoundingHasNumber ==
  ASSUME TypeOK, NEW v \in Workers, Founding(call[v])
  PROVE  call[v].id \in MeetingIDs /\ call[v].doc \in Doc
<1>1. call[v] \in Call /\ Prepared(call[v])
  BY Running DEF Founding
<1> QED
  BY <1>1 DEF Founding, Prepared, StepsOf, Call

LEMMA QuietStep ==
  ASSUME Inv, TypeOK', UNCHANGED <<lastID, owner, trail>>,
         \A m \in MeetingIDs : KeepsCreator(m),
         \A m \in MeetingIDs : rooms'[m] \in {rooms[m], None, Blank},
         \A v \in Workers : Quiet(v)
  PROVE  Inv'
<1>1. Numbered'
  BY FoundingHasNumber, NumberedStep DEF Inv, KeepsCreator, Stored, Quiet
<1>2. CreatorsAgree'
  <2>1. \A v \in Workers : call'[v] = call[v] \/ Agrees(call'[v])
    BY DEF Inv, CreatorsAgree, Agrees, Quiet
  <2>2. ASSUME NEW m \in MeetingIDs, db'[m] \notin {None, Cancelled}
        PROVE  Stored(m) /\ db'[m].creator = db[m].creator
    BY <2>2 DEF KeepsCreator, Stored
  <2>3. CreatorsAgree /\ UNCHANGED owner
    BY DEF Inv
  <2> QED
    BY <2>1, <2>2, <2>3, AgreeStep
<1>3. SettingsHaveAuthors'
  BY AuthorsStep, SMTT(20) DEF Inv, Quiet, SettingsHaveAuthors, Rightful, Allowed
<1> QED
  BY <1>1, <1>2, <1>3 DEF Inv

LEMMA BeginQuiet ==
  ASSUME Inv, TypeOK', NEW w \in Workers, NEW req \in Calls, Begin(w, req)
  PROVE  Inv'
<1>1. req \in Request
  BY CallsAssumption
<1>2. FirstStep(req.op) \notin {"open", "insert"}
  BY <1>1 DEF FirstStep, Request, MeetingRequest, BookRequest, JoinRequest, EntryRequest,
       EndRequest, DeviceRequest, HostRequest, RemoveRequest, SweepRequest
<1>3. /\ call'[w].at = FirstStep(req.op)
      /\ call'[w].doc = None /\ call'[w].md = None
      /\ \A v \in Workers \ {w} : call'[v] = call[v]
  BY DEF Begin, IdleCall, Inv, TypeOK
<1>4. \A v \in Workers : Quiet(v)
  BY <1>2, <1>3 DEF Quiet, Founding
<1> QED
  BY <1>4, QuietStep DEF Begin, rtcVars, history, KeepsCreator

LEMMA ReturnQuiet ==
  ASSUME TypeOK, NEW w \in Workers, Return(w)
  PROVE  \A v \in Workers : Quiet(v)
BY DEF Return, TypeOK, IdleCall, Quiet, Founding

LEMMA FailQuiet ==
  ASSUME Inv, TypeOK', NEW w \in Workers, Fail(w)
  PROVE  Inv'
BY ReturnQuiet, QuietStep DEF Fail, rtcVars, history, KeepsCreator, Inv

LEMMA ListsQuiet ==
  ASSUME Inv, TypeOK', NEW w \in Workers,
         \/ ListRooms(w) \/ ScanRoom(w) \/ UserIsFree(w)
         \/ EndLook(w) \/ RemoveLook(w) \/ FindMeetings(w)
  PROVE  Inv'
<1> DEFINE c == call[w]
<1>0. /\ TypeOK
      /\ UNCHANGED <<rooms, db, lastID, owner, trail>>
      /\ c \in Call
  BY Running DEF Inv, ListRooms, ScanRoom, UserIsFree, EndLook, RemoveLook,
     FindMeetings, At, rtcVars, history
<1>1. CASE Return(w)
  BY <1>0, <1>1, ReturnQuiet, QuietStep DEF KeepsCreator
<1>2. CASE ~ Return(w)
  <2>1. /\ call'[w].id = c.id /\ call'[w].doc = c.doc /\ call'[w].md = c.md
        /\ call'[w].at \notin {"open", "insert"}
        /\ \A v \in Workers \ {w} : call'[v] = call[v]
    <3>1. CASE ListRooms(w)
      BY <1>0, <3>1 DEF TypeOK, Call, ListRooms
    <3>2. CASE ScanRoom(w)
      BY <1>0, <1>2, <3>2 DEF TypeOK, Call, ScanRoom, At
    <3>3. CASE UserIsFree(w)
      BY <1>0, <3>3 DEF TypeOK, Call, UserIsFree, Goto
    <3>4. CASE EndLook(w)
      BY <1>0, <1>2, <3>4 DEF TypeOK, Call, EndLook
    <3>5. CASE RemoveLook(w)
      BY <1>0, <1>2, <3>5 DEF TypeOK, Call, RemoveLook
    <3>6. CASE FindMeetings(w)
      <4>1. PICK p \in Verdicts :
              call' = [call EXCEPT ![w].plan = p, ![w].at = "sweep"]
        BY <3>6 DEF FindMeetings
      <4> QED
        BY <1>0, <4>1 DEF TypeOK, Call
    <3> QED
      BY <3>1, <3>2, <3>3, <3>4, <3>5, <3>6
  <2>2. \A v \in Workers : Quiet(v)
    BY <2>1 DEF Quiet, Founding
  <2> QED
    BY <1>0, <2>2, QuietStep DEF KeepsCreator
<1> QED
  BY <1>1, <1>2

LEMMA RoomsQuiet ==
  ASSUME Inv, TypeOK', NEW w \in Workers,
         \/ GetMeetingToken(w) \/ LeaveMeeting(w) \/ EndClose(w) \/ RemoveOne(w)
         \/ CleanRoom(w) \/ RefreshClose(w) \/ RefreshDone(w)
  PROVE  Inv'
<1> DEFINE c == call[w]
<1>0. /\ TypeOK
      /\ UNCHANGED <<db, lastID, owner, trail>>
      /\ c \in Call /\ Prepared(c)
  BY Running DEF Inv, GetMeetingToken, LeaveMeeting, EndClose, RemoveOne, CleanRoom,
     RefreshClose, RefreshDone, At, rtcVars, history
<1>1. \A m \in MeetingIDs : rooms'[m] \in {rooms[m], None, Blank}
  BY <1>0 DEF TypeOK, GetMeetingToken, LeaveMeeting, EndClose, RemoveOne, CleanRoom,
     RefreshClose, RefreshDone, RemoveParticipant, DeleteRoom, rtcVars
<1>2. CASE Return(w)
  BY <1>0, <1>1, <1>2, ReturnQuiet, QuietStep DEF KeepsCreator
<1>3. CASE ~ Return(w)
  <2>1. /\ \/ call'[w].id = c.id /\ call'[w].doc = c.doc /\ call'[w].md = c.md
           \/ call'[w].doc = None /\ call'[w].md = None
        /\ call'[w].at \notin {"open", "insert"}
        /\ \A v \in Workers \ {w} : call'[v] = call[v]
    <3>1. CASE EndClose(w)
      BY <1>0, <1>3, <3>1 DEF TypeOK, Call, EndClose, Goto
    <3>2. CASE RemoveOne(w)
      <4>1. PICK u \in c.left : call' = [call EXCEPT ![w].left = @ \ {u}]
        BY <1>3, <3>2 DEF RemoveOne
      <4>2. c.at = "remove"
        BY <3>2 DEF RemoveOne, At
      <4> QED
        BY <1>0, <4>1, <4>2 DEF TypeOK, Call
    <3>3. CASE CleanRoom(w)
      <4>1. PICK m \in c.todo : call' = [call EXCEPT ![w].todo = @ \ {m}]
        BY <1>3, <3>3 DEF CleanRoom
      <4>2. c.at = "clean"
        BY <3>3 DEF CleanRoom, At
      <4> QED
        BY <1>0, <4>1, <4>2 DEF TypeOK, Call
    <3>4. CASE RefreshClose(w)
      <4>1. PICK m \in MeetingIDs :
              call' = [call EXCEPT ![w].id = m, ![w].at = "settle"]
        BY <3>4 DEF RefreshClose
      <4>2. c.doc = None /\ c.md = None
        BY <1>0, <3>4 DEF RefreshClose, At, Prepared
      <4> QED
        BY <1>0, <4>1, <4>2 DEF TypeOK, Call
    <3>5. CASE RefreshDone(w)
      <4>1. Goto(w, "search")
        BY <1>3, <3>5 DEF RefreshDone
      <4> QED
        BY <1>0, <4>1 DEF TypeOK, Call, Goto
    <3> QED
      BY <1>3, <3>1, <3>2, <3>3, <3>4, <3>5 DEF GetMeetingToken, LeaveMeeting
  <2>2. \A v \in Workers : Quiet(v)
    BY <2>1 DEF Quiet, Founding
  <2> QED
    BY <1>0, <1>1, <2>2, QuietStep DEF KeepsCreator
<1> QED
  BY <1>2, <1>3

\* An edited document is still the document of its creator.
LEMMA EditKeepsCreator ==
  ASSUME TypeOK, NEW m \in MeetingIDs, Stored(m), NEW doc \in Doc,
         doc.creator = db[m].creator, db' = [db EXCEPT ![m] = doc]
  PROVE  \A n \in MeetingIDs : KeepsCreator(n)
BY NoneAssumption DEF KeepsCreator, TypeOK

LEMMA StatusKeepsCreator ==
  ASSUME TypeOK, NEW m \in MeetingIDs, Stored(m), NEW s \in Statuses,
         db' = [db EXCEPT ![m].status = s]
  PROVE  \A n \in MeetingIDs : KeepsCreator(n)
<1> DEFINE doc == [db[m] EXCEPT !.status = s]
<1>1. doc \in Doc /\ doc.creator = db[m].creator
  BY DEF TypeOK, Stored, Doc
<1>2. db' = [db EXCEPT ![m] = doc]
  OBVIOUS
<1> HIDE DEF doc
<1> QED
  BY <1>1, <1>2, EditKeepsCreator

LEMMA DocumentsQuiet ==
  ASSUME Inv, TypeOK', NEW w \in Workers,
         EndStore(w) \/ UpdateStore(w) \/ RefreshStore(w)
  PROVE  Inv'
<1> DEFINE c == call[w]
<1>0. /\ TypeOK
      /\ UNCHANGED <<rooms, lastID, owner, trail>>
      /\ c \in Call /\ Prepared(c)
  BY Running DEF Inv, EndStore, UpdateStore, RefreshStore, At, rtcVars, history
<1>1. CASE EndStore(w)
  <2>1. c.req \in EndRequest
    BY <1>0, <1>1 DEF EndStore, At, Call, Request, MeetingRequest, BookRequest,
       JoinRequest, EntryRequest, DeviceRequest, HostRequest, RemoveRequest, SweepRequest
  <2>2. c.id \in MeetingIDs /\ c.plan[c.id] \in Statuses
    BY <1>0, <1>1, <2>1, RequestShape
       DEF EndStore, At, Call, Prepared, EndRequest, MeetingRequest, Plan, Statuses
  <2>3. \A m \in MeetingIDs : KeepsCreator(m)
    <3>1. CASE db' = db
      BY <3>1 DEF KeepsCreator
    <3>2. CASE Stored(c.id) /\ db' = [db EXCEPT ![c.id] = Cancelled]
      BY <1>0, <2>2, <3>2 DEF KeepsCreator, TypeOK
    <3>3. CASE Stored(c.id) /\ db' = [db EXCEPT ![c.id].status = c.plan[c.id]]
      BY <1>0, <2>2, <3>3, StatusKeepsCreator
    <3> QED
      BY <1>1, <2>1, <3>1, <3>2, <3>3 DEF EndStore, EndRequest
  <2> QED
    BY <1>0, <1>1, <2>3, ReturnQuiet, QuietStep DEF EndStore
<1>2. CASE UpdateStore(w)
  <2>1. \A m \in MeetingIDs : KeepsCreator(m)
    <3>1. CASE UNCHANGED db
      BY <3>1 DEF KeepsCreator
    <3>2. CASE ~ UNCHANGED db
      <4>1. Stored(c.id) /\ db' = [db EXCEPT ![c.id] = Patched(w)]
        BY <1>2, <3>2 DEF UpdateStore
      <4>2. c.id \in MeetingIDs /\ c.req.info \in Infos
        BY <1>0, <1>2, RequestShape DEF UpdateStore, At, Call, Prepared, JoinRequest
      <4>3. Patched(w) \in Doc /\ Patched(w).creator = db[c.id].creator
        BY <1>0, <4>1, <4>2 DEF Patched, Stored, TypeOK, Doc
      <4> QED
        BY <1>0, <4>1, <4>2, <4>3, EditKeepsCreator
    <3> QED
      BY <3>1, <3>2
  <2>2. CASE Return(w)
    BY <1>0, <2>1, <2>2, ReturnQuiet, QuietStep
  <2>3. CASE Goto(w, "retake")
    <3>1. /\ call'[w].id = c.id /\ call'[w].doc = c.doc /\ call'[w].md = c.md
          /\ call'[w].at = "retake"
          /\ \A v \in Workers \ {w} : call'[v] = call[v]
      BY <1>0, <2>3 DEF TypeOK, Call, Goto
    <3>2. \A v \in Workers : Quiet(v)
      BY <3>1 DEF Quiet, Founding
    <3> QED
      BY <1>0, <2>1, <3>2, QuietStep
  <2> QED
    BY <1>2, <2>2, <2>3 DEF UpdateStore
<1>3. CASE RefreshStore(w)
  <2>1. PICK m \in MeetingIDs :
          /\ \/ At(w, {"GetMeetings"}, "settle") /\ m = c.id
             \/ At(w, {"GetMeetings"}, "sweep") /\ c.plan[m] = "Scheduled"
          /\ (Stored(m) /\ db' = [db EXCEPT ![m].status = c.plan[m]]) \/ UNCHANGED db
          /\ call' = [call EXCEPT ![w].at = "sweep", ![w].id = None, ![w].plan[m] = None]
    BY <1>3 DEF RefreshStore
  <2>2. \A n \in MeetingIDs : KeepsCreator(n)
    <3>1. c.plan[m] \in Statuses
      BY <1>0, <2>1 DEF Prepared, At, Statuses
    <3> QED
      BY <1>0, <2>1, <3>1, StatusKeepsCreator DEF KeepsCreator
  <2>3. c.doc = None /\ c.md = None
    BY <1>0, <1>3 DEF RefreshStore, At, Prepared
  <2>4. /\ call'[w].doc = None /\ call'[w].md = None /\ call'[w].at = "sweep"
        /\ \A v \in Workers \ {w} : call'[v] = call[v]
    BY <1>0, <2>1, <2>3 DEF TypeOK, Call
  <2>5. \A v \in Workers : Quiet(v)
    BY <2>4 DEF Quiet, Founding
  <2> QED
    BY <1>0, <2>2, <2>5, QuietStep
<1> QED
  BY <1>1, <1>2, <1>3

LEMMA ClientsQuiet ==
  ASSUME Inv, TypeOK', Clients, UNCHANGED <<serverVars, history>>
  PROVE  Inv'
<1>1. UNCHANGED <<db, lastID, call, owner, trail>>
  BY DEF serverVars, history
<1>2. \A m \in MeetingIDs : rooms'[m] \in {rooms[m], None, Blank}
  BY DEF Clients, Connect, Disconnect, RoomExpires, Inv, TypeOK
<1> QED
  BY <1>1, <1>2, QuietStep DEF KeepsCreator, Quiet

-----------------------------------------------------------------------------
(* Steps that take a copy of a document or of metadata, or change the copy *)
(* a handler carries.                                                      *)

\* A copy taken of rightful metadata is rightful as long as nobody loses a right.
LEMMA CopyStaysRightful ==
  ASSUME NEW w \in Workers, NEW md, Rightful(md), call'[w].md = md, UNCHANGED trail
  PROVE  Rightful(call[w].md)'
BY DEF Rightful, Allowed

LEMMA CopyStep ==
  ASSUME Inv, TypeOK', NEW w \in Workers,
         UNCHANGED <<rooms, db, lastID, owner>>, trail \subseteq trail',
         \A v \in Workers \ {w} : call'[v] = call[v],
         Agrees(call'[w]), ~ Founding(call'[w]),
         call'[w].md = None \/ Rightful(call[w].md)'
  PROVE  Inv'
<1>1. Numbered'
  BY FoundingHasNumber, NumberedStep DEF Inv
<1>2. CreatorsAgree'
  BY AgreeStep DEF Inv, Stored
<1>3. SettingsHaveAuthors'
  BY AuthorsStep DEF Inv
<1> QED
  BY <1>1, <1>2, <1>3 DEF Inv

LEMMA TakeInv ==
  ASSUME Inv, TypeOK', NEW w \in Workers, Take(w) \/ UpdateRetake(w)
  PROVE  Inv'
<1> DEFINE c == call[w]
<1>0. /\ TypeOK
      /\ UNCHANGED <<rooms, db, lastID, owner, trail>>
      /\ c \in Call /\ Prepared(c)
      /\ c.req \in MeetingRequest /\ c.id \in MeetingIDs
  BY Running, RequestShape DEF Inv, Take, UpdateRetake, At, Call, Prepared, rtcVars, history
<1>1. CASE Return(w)
  BY <1>0, <1>1, ReturnQuiet, QuietStep DEF KeepsCreator
<1>2. CASE ~ Return(w)
  <2>1. /\ Stored(c.id)
        /\ call'[w].id = c.id /\ call'[w].doc = db[c.id] /\ call'[w].md = c.md
        /\ call'[w].at \notin {"open", "insert"}
        /\ \A v \in Workers \ {w} : call'[v] = call[v]
    BY <1>0, <1>2 DEF TypeOK, Call, Take, CanTake, UpdateRetake
  <2>2. Agrees(call'[w])
    BY <1>0, <2>1 DEF Inv, CreatorsAgree, Agrees
  <2>3. call'[w].md = None \/ Rightful(call[w].md)'
    BY <1>0, <2>1 DEF Inv, SettingsHaveAuthors, Rightful, Allowed
  <2> QED
    BY <1>0, <2>1, <2>2, <2>3, CopyStep DEF Founding
<1> QED
  BY <1>1, <1>2

\* New metadata name the creator as host, nobody as co-host, and no setting.
LEMMA NewMetaRightful ==
  ASSUME NEW m \in MeetingIDs, NEW doc \in Doc
  PROVE  /\ Rightful(NewMeta(m, doc))
         /\ NewMeta(m, doc).meeting = m /\ NewMeta(m, doc).creator = doc.creator
BY DEF NewMeta, Rightful, DefaultEntry, Doc

LEMMA WithEntryRightful ==
  ASSUME NEW md \in Meta, Rightful(md), NEW u \in Users
  PROVE  /\ Rightful(WithEntry(md, u))
         /\ WithEntry(md, u).meeting = md.meeting
         /\ WithEntry(md, u).creator = md.creator
         /\ WithEntry(md, u).host = md.host
BY DEF WithEntry, Rightful, DefaultEntry, Meta

LEMMA SeenDataAgrees ==
  ASSUME Inv, NEW m \in MeetingIDs, NEW md \in SeenData(m), md # None
  PROVE  md \in Meta /\ md.meeting = m /\ md.creator = owner[m] /\ Rightful(md)
BY SeenDataType DEF SeenData, HasRoomData, Inv, CreatorsAgree, SettingsHaveAuthors

LEMMA JoinInv ==
  ASSUME Inv, TypeOK', NEW w \in Workers, JoinWithoutRoom(w) \/ JoinRoom(w)
  PROVE  Inv'
<1> DEFINE c == call[w]
           u == c.req.user
<1>0. /\ TypeOK
      /\ UNCHANGED <<rooms, db, lastID, owner, trail>>
      /\ c \in Call /\ Prepared(c) /\ c.req.op = "Join"
      /\ c.req \in MeetingRequest /\ c.id \in MeetingIDs
      /\ u \in Users /\ c.doc \in Doc
  BY Running, RequestShape
     DEF Inv, JoinWithoutRoom, JoinRoom, At, Call, Prepared, rtcVars, history
<1>1. CASE Return(w)
  BY <1>0, <1>1, ReturnQuiet, QuietStep DEF KeepsCreator
<1>2. c.doc.creator = owner[c.id]
  BY <1>0, NoneAssumption DEF Inv, CreatorsAgree, Agrees
<1>3. CASE ~ Return(w) /\ JoinWithoutRoom(w)
  <2> DEFINE md == NewMeta(c.id, c.doc)
  <2>1. call' = [call EXCEPT ![w].md = md, ![w].at = "open"]
    BY <1>3 DEF JoinWithoutRoom
  <2>2. Rightful(md) /\ md.meeting = c.id /\ md.creator = owner[c.id]
    BY <1>0, <1>2, NewMetaRightful
  <2> HIDE DEF md
  <2>3. /\ call'[w].id = c.id /\ call'[w].doc = c.doc /\ call'[w].md = md
        /\ call'[w].req = c.req
        /\ \A v \in Workers \ {w} : call'[v] = call[v]
    BY <1>0, <2>1 DEF TypeOK, Call
  <2>4. Agrees(call'[w])
    BY <1>2, <2>2, <2>3 DEF Agrees
  <2>5. Rightful(call[w].md)'
    BY <1>0, <2>2, <2>3, CopyStaysRightful
  <2> QED
    BY <1>0, <2>3, <2>4, <2>5, CopyStep DEF Founding
<1>4. CASE ~ Return(w) /\ JoinRoom(w)
  <2> DEFINE base == JoinBase(w)
             md == [WithEntry(base, u) EXCEPT !.meeting = c.id]
  <2>1. call' = [call EXCEPT ![w].at = "publish", ![w].md = md]
    BY <1>4 DEF JoinRoom
  <2>2. base \in Meta /\ Rightful(base) /\ base.meeting = c.id /\ base.creator = owner[c.id]
    <3>1. CASE rooms[c.id] = Blank
      BY <1>0, <1>2, <3>1, NewMetaRightful, NewMetaType DEF JoinBase
    <3>2. CASE rooms[c.id] # Blank
      BY <1>0, <1>4, <3>2
         DEF JoinBase, JoinRoom, Open, HasRoomData, Inv, TypeOK, CreatorsAgree,
             SettingsHaveAuthors
    <3> QED
      BY <3>1, <3>2
  <2>3. WithEntry(base, u) \in Meta /\ Rightful(WithEntry(base, u))
    BY <1>0, <2>2, WithEntryType, WithEntryRightful
  <2>4. WithEntry(base, u).meeting = c.id /\ WithEntry(base, u).creator = owner[c.id]
    BY <1>0, <2>2, WithEntryRightful
  <2>5. md = WithEntry(base, u)
    BY <2>3, <2>4 DEF Meta
  <2> HIDE DEF md
  <2>6. /\ call'[w].id = c.id /\ call'[w].doc = c.doc /\ call'[w].md = md
        /\ call'[w].at = "publish"
        /\ \A v \in Workers \ {w} : call'[v] = call[v]
    BY <1>0, <2>1 DEF TypeOK, Call
  <2>7. Agrees(call'[w])
    BY <1>2, <2>4, <2>5, <2>6 DEF Agrees
  <2>8. Rightful(call[w].md)'
    <3>1. Rightful(md)
      BY <2>3, <2>5
    <3> QED
      BY <1>0, <2>6, <3>1, CopyStaysRightful
  <2> QED
    BY <1>0, <2>6, <2>7, <2>8, CopyStep DEF Founding
<1> QED
  BY <1>1, <1>3, <1>4

LEMMA UpdateInv ==
  ASSUME Inv, TypeOK', NEW w \in Workers, UpdateLook(w) \/ UpdateRelook(w)
  PROVE  Inv'
<1> DEFINE c == call[w]
<1>0. /\ TypeOK
      /\ UNCHANGED <<rooms, db, lastID, owner, trail>>
      /\ c \in Call /\ Prepared(c)
      /\ c.req \in MeetingRequest /\ c.id \in MeetingIDs
  BY Running, RequestShape
     DEF Inv, UpdateLook, UpdateRelook, At, Call, Prepared, rtcVars, history
<1>1. CASE UpdateLook(w)
  <2>1. PICK md \in SeenData(c.id) :
          call' = [call EXCEPT ![w].at = "store", ![w].md = md]
    BY <1>1 DEF UpdateLook
  <2>2. /\ call'[w].id = c.id /\ call'[w].doc = c.doc /\ call'[w].md = md
        /\ call'[w].at = "store"
        /\ \A v \in Workers \ {w} : call'[v] = call[v]
    BY <1>0, <2>1 DEF TypeOK, Call
  <2>3. Agrees(call'[w])
    BY <1>0, <2>2, SeenDataAgrees DEF Agrees, Inv, CreatorsAgree
  <2>4. call'[w].md = None \/ Rightful(call[w].md)'
    BY <1>0, <2>2, SeenDataAgrees DEF Rightful, Allowed
  <2> QED
    BY <1>0, <2>2, <2>3, <2>4, CopyStep DEF Founding
<1>2. CASE UpdateRelook(w)
  <2>1. PICK md \in SeenData(c.id) :
          call' = [call EXCEPT ![w].at = "publish", ![w].md = Detail(w, md)]
    BY <1>2 DEF UpdateRelook
  <2> DEFINE detail == Detail(w, md)
             now == IF md = None THEN NewMeta(c.id, c.doc) ELSE md
  <2>2. c.doc \in Doc /\ c.md \in Meta
    BY <1>0, <1>2 DEF Call, Prepared, UpdateRelook, At
  <2>3. /\ c.doc.creator = owner[c.id]
        /\ c.md.meeting = c.id /\ c.md.creator = owner[c.id] /\ Rightful(c.md)
    BY <2>2, NoneAssumption DEF Inv, CreatorsAgree, Agrees, SettingsHaveAuthors
  <2>4. now.meeting = c.id /\ now.creator = owner[c.id] /\ Rightful(now)
    BY <1>0, <2>2, <2>3, NewMetaRightful, SeenDataAgrees
  <2> HIDE DEF now
  <2>5. /\ detail.meeting = c.id /\ detail.creator = owner[c.id]
        /\ detail.host = now.host /\ detail.cohosts = now.cohosts
        /\ detail.personal = c.md.personal
    BY <2>3 DEF Detail, now
  <2>6. Rightful(detail)
    BY <2>3, <2>4, <2>5 DEF Rightful
  <2> HIDE DEF detail
  <2>7. /\ call'[w].id = c.id /\ call'[w].doc = c.doc /\ call'[w].md = detail
        /\ call'[w].at = "publish"
        /\ \A v \in Workers \ {w} : call'[v] = call[v]
    BY <1>0, <2>1 DEF TypeOK, Call, detail
  <2>8. Agrees(call'[w])
    BY <2>3, <2>5, <2>7 DEF Agrees
  <2>9. Rightful(call[w].md)'
    BY <1>0, <2>6, <2>7, CopyStaysRightful
  <2> QED
    BY <1>0, <2>7, <2>8, <2>9, CopyStep DEF Founding
<1> QED
  BY <1>1, <1>2

\* Allowed by the end of the step.
Granted(kind, m, u) ==
  \E f \in trail' : f.kind = kind /\ f.meeting = m /\ f.of = u

LEMMA StillGranted ==
  ASSUME NEW kind, NEW m, NEW u, Allowed(kind, m, u), trail \subseteq trail'
  PROVE  Granted(kind, m, u)
BY DEF Allowed, Granted

LEMMA FactGrants ==
  ASSUME NEW kind, NEW m, NEW u, NEW by,
         [kind |-> kind, meeting |-> m, of |-> u, by |-> by] \in trail'
  PROVE  Granted(kind, m, u)
BY DEF Granted

LEMMA RightfulCopy ==
  ASSUME NEW w \in Workers, NEW md, call'[w].md = md,
         md.host = md.creator \/ Granted("host", md.meeting, md.host),
         \A u \in md.cohosts : Granted("cohost", md.meeting, u),
         \A u \in Users : md.personal[u] # None =>
           /\ md.personal[u].self => Granted("on", md.meeting, u)
           /\ ~ md.personal[u].limit => Granted("limit", md.meeting, u)
  PROVE  Rightful(call[w].md)'
BY DEF Rightful, Allowed, Granted

\* An edit that leaves a fact in the trail for whatever it grants.
LEMMA EditInv ==
  ASSUME Inv, TypeOK', NEW w \in Workers,
         SetPersonalMeetingSettings(w) \/ SetMeetingHostInfo(w)
  PROVE  Inv'
<1> DEFINE c == call[w]
           m == c.id
           md == rooms[m]
           req == c.req
<1>0. /\ TypeOK
      /\ UNCHANGED <<rooms, db, lastID, owner>>
      /\ c \in Call /\ Prepared(c)
      /\ req \in Request /\ req \in MeetingRequest /\ m \in MeetingIDs /\ req.user \in Users
  BY Running, RequestShape
     DEF Inv, SetPersonalMeetingSettings, SetMeetingHostInfo, At, Call, Prepared, rtcVars
<1>1. CASE Return(w) /\ UNCHANGED trail
  BY <1>0, <1>1, ReturnQuiet, QuietStep DEF KeepsCreator
<1>2. HasRoomData(m) =>
        md \in Meta /\ md.meeting = m /\ md.creator = owner[m] /\ Rightful(md)
  BY <1>0 DEF HasRoomData, Inv, TypeOK, CreatorsAgree, SettingsHaveAuthors
<1>a. ASSUME NEW new, HasRoomData(m), new.meeting = m, new.creator = owner[m],
             call' = [call EXCEPT ![w].at = "publish", ![w].md = new],
             trail \subseteq trail', Rightful(call[w].md)'
      PROVE  Inv'
  <2>1. /\ call'[w].id = m /\ call'[w].doc = c.doc /\ call'[w].md = new
        /\ call'[w].at = "publish"
        /\ \A v \in Workers \ {w} : call'[v] = call[v]
    BY <1>0, <1>a DEF TypeOK, Call
  <2>2. Agrees(call'[w])
    BY <1>a, <2>1 DEF Agrees, Inv, CreatorsAgree
  <2> QED
    BY <1>0, <1>a, <2>1, <2>2, CopyStep DEF Founding
<1>3. CASE ~ (Return(w) /\ UNCHANGED trail) /\ SetPersonalMeetingSettings(w)
  <2> DEFINE new == Adjusted(md, req)
  <2>1. /\ HasRoomData(m)
        /\ call' = [call EXCEPT ![w].at = "publish", ![w].md = new]
        /\ trail' = trail \cup PersonalFacts(m, req)
    BY <1>3 DEF SetPersonalMeetingSettings
  <2>2. req \in DeviceRequest
    BY <1>0, <1>3, RequestShape DEF SetPersonalMeetingSettings, At
  <2>3. /\ req.target \in Users /\ req.value \in {"unset", "on", "off"}
    BY <2>2 DEF DeviceRequest
  <2> DEFINE base == WithEntry(md, req.target)
  <2>4. /\ base \in Meta /\ base.personal[req.target] \in Entry
        /\ Rightful(base) /\ base.meeting = m /\ base.creator = owner[m]
    BY <1>2, <2>1, <2>3, WithEntryType, WithEntryRightful
  <2>5. /\ new.meeting = m /\ new.creator = owner[m]
        /\ new.host = base.host /\ new.cohosts = base.cohosts
        /\ \A u \in Users \ {req.target} : new.personal[u] = base.personal[u]
    BY <2>3, <2>4 DEF Adjusted, Meta
  <2>6. /\ new.personal[req.target].self =>
             \/ base.personal[req.target].self
             \/ req.value = "on" /\ req.user = req.target
        /\ ~ new.personal[req.target].limit =>
             \/ ~ base.personal[req.target].limit
             \/ req.value = "off" /\ req.user # req.target
        /\ base.personal[req.target] # None
    BY <2>3, <2>4, NoneAssumption DEF Adjusted, Meta, Entry
  <2>7. req.value = "on" /\ req.user = req.target => Granted("on", m, req.target)
    BY <2>1, FactGrants DEF PersonalFacts
  <2>8. req.value = "off" /\ req.user # req.target => Granted("limit", m, req.target)
    BY <2>1, FactGrants DEF PersonalFacts
  <2>9. call'[w].md = new /\ trail \subseteq trail'
    BY <1>0, <2>1 DEF TypeOK, Call
  <2> HIDE DEF new, base
  <2>10. /\ new.host = new.creator \/ Granted("host", m, new.host)
         /\ \A u \in new.cohosts : Granted("cohost", m, u)
    BY <2>4, <2>5, <2>9, StillGranted DEF Rightful
  <2>11. ASSUME NEW u \in Users, new.personal[u] # None
         PROVE  /\ new.personal[u].self => Granted("on", m, u)
                /\ ~ new.personal[u].limit => Granted("limit", m, u)
    <3>1. CASE u # req.target
      BY <2>4, <2>5, <2>9, <2>11, <3>1, StillGranted DEF Rightful
    <3>2. CASE u = req.target
      BY <2>3, <2>4, <2>6, <2>7, <2>8, <2>9, <3>2, StillGranted DEF Rightful
    <3> QED
      BY <3>1, <3>2
  <2>12. Rightful(call[w].md)'
    BY <2>5, <2>9, <2>10, <2>11, RightfulCopy
  <2> QED
    BY <1>a, <2>1, <2>5, <2>9, <2>12
<1>4. CASE ~ (Return(w) /\ UNCHANGED trail) /\ SetMeetingHostInfo(w)
  <2> DEFINE new == Appointed(md, req)
  <2>1. /\ HasRoomData(m)
        /\ call' = [call EXCEPT ![w].at = "publish", ![w].md = new]
        /\ trail' = trail \cup HostFacts(m, req)
    BY <1>4 DEF SetMeetingHostInfo
  <2>2. req \in HostRequest
    BY <1>0, <1>4, RequestShape DEF SetMeetingHostInfo, At
  <2>3. /\ new.meeting = m /\ new.creator = owner[m]
        /\ new.host = md.host \/ (new.host = req.host /\ req.host # None)
        /\ new.cohosts = md.cohosts \cup req.cohosts
        /\ new.personal = md.personal
    BY <1>2, <2>1 DEF Appointed, Meta
  <2>4. req.host # None => Granted("host", m, req.host)
    BY <2>1, FactGrants DEF HostFacts
  <2>5. \A u \in req.cohosts : Granted("cohost", m, u)
    BY <2>1, FactGrants DEF HostFacts
  <2>6. call'[w].md = new /\ trail \subseteq trail'
    BY <1>0, <2>1 DEF TypeOK, Call
  <2> HIDE DEF new
  <2>7. /\ new.host = new.creator \/ Granted("host", m, new.host)
        /\ \A u \in new.cohosts : Granted("cohost", m, u)
    BY <1>2, <2>1, <2>3, <2>4, <2>5, <2>6, StillGranted DEF Rightful
  <2>8. ASSUME NEW u \in Users, new.personal[u] # None
        PROVE  /\ new.personal[u].self => Granted("on", m, u)
               /\ ~ new.personal[u].limit => Granted("limit", m, u)
    BY <1>2, <2>1, <2>3, <2>6, <2>8, StillGranted DEF Rightful
  <2>9. Rightful(call[w].md)'
    BY <2>3, <2>6, <2>7, <2>8, RightfulCopy
  <2> QED
    BY <1>a, <2>1, <2>3, <2>6, <2>9
<1> QED
  BY <1>1, <1>3, <1>4

-----------------------------------------------------------------------------
(* The steps that make a meeting: its number, its room, its document.      *)

LEMMA GenerateInv ==
  ASSUME Inv, TypeOK', NEW w \in Workers, GenerateMeetingID(w)
  PROVE  Inv'
<1> DEFINE c == call[w]
           id == lastID + 1
           doc == NewDoc(c.req)
           md == NewMeta(id, doc)
<1>0. /\ TypeOK
      /\ UNCHANGED <<rooms, db, trail>>
      /\ c \in Call /\ c.req.user \in Users
  BY Running, RequestShape DEF Inv, GenerateMeetingID, At, Call, rtcVars
<1>1. CASE ~ (lastID < MaxMeetings)
  BY <1>0, <1>1, ReturnQuiet, QuietStep DEF GenerateMeetingID, KeepsCreator
<1>2. CASE lastID < MaxMeetings
  <2>1. /\ lastID' = id
        /\ owner' = [owner EXCEPT ![id] = c.req.user]
        /\ call' = [call EXCEPT ![w].id = id, ![w].doc = doc, ![w].md = md,
             ![w].at = IF c.req.op = "Book" THEN "insert" ELSE "open"]
    BY <1>2 DEF GenerateMeetingID, NextID
  <2>2. id \in MeetingIDs /\ lastID \in Nat /\ id > lastID
    BY <1>0, <1>2, MaxMeetingsAssumption DEF TypeOK, MeetingIDs
  <2>3. owner[id] = None /\ db[id] = None
    BY <2>2 DEF Inv, Numbered
  <2>4. /\ doc \in Doc /\ doc.creator = c.req.user
        /\ doc.status \in {"Scheduled", "In-Progress"}
    BY <1>0, RequestShape DEF GenerateMeetingID, At, NewDoc, Doc, BookRequest, Statuses, Call
  <2>5. Rightful(md) /\ md.meeting = id /\ md.creator = c.req.user
    BY <2>2, <2>4, NewMetaRightful
  <2> HIDE DEF doc, md
  <2>6. /\ call'[w].id = id /\ call'[w].doc = doc /\ call'[w].md = md
        /\ \A v \in Workers \ {w} : call'[v] = call[v]
    BY <1>0, <2>1 DEF TypeOK, Call
  <2>7. owner'[id] = c.req.user /\ \A m \in MeetingIDs \ {id} : owner'[m] = owner[m]
    BY <1>0, <2>1, <2>2 DEF TypeOK
  <2>8. Numbered'
    <3>1. \A m \in MeetingIDs : m > lastID' => owner'[m] = None /\ db'[m] = None
      BY <1>0, <2>1, <2>2, <2>7 DEF Inv, Numbered, MeetingIDs
    <3>2. ASSUME NEW v \in Workers, Founding(call'[v])
          PROVE  /\ call'[v].id <= lastID' /\ db'[call'[v].id] = None
                 /\ call'[v].doc.status \in {"Scheduled", "In-Progress"}
      <4>1. CASE v = w
        BY <1>0, <2>1, <2>2, <2>3, <2>4, <2>6, <4>1
      <4>2. CASE v # w
        <5>1. Founding(call[v])
          BY <2>6, <3>2, <4>2
        <5>2. call[v].id \in MeetingIDs
          BY <1>0, <5>1, FoundingHasNumber
        <5>3. /\ call[v].id <= lastID /\ db[call[v].id] = None
              /\ call[v].doc.status \in {"Scheduled", "In-Progress"}
          BY <5>1 DEF Inv, Numbered
        <5>4. call[v].id <= id
          BY <2>2, <5>2, <5>3 DEF MeetingIDs
        <5> QED
          BY <1>0, <2>1, <2>6, <4>2, <5>3, <5>4
      <4> QED
        BY <4>1, <4>2
    <3>3. ASSUME NEW v \in Workers \ {w}, Founding(call'[v])
          PROVE  call'[v].id # id
      <4>1. Founding(call[v]) /\ call[v].id \in MeetingIDs /\ call'[v].id = call[v].id
        BY <1>0, <2>6, <3>3, FoundingHasNumber
      <4> QED
        BY <2>2, <4>1 DEF Inv, Numbered, MeetingIDs
    <3>4. ASSUME NEW v \in Workers, NEW u \in Workers,
                 Founding(call'[v]), Founding(call'[u]), call'[v].id = call'[u].id
          PROVE  v = u
      BY <2>6, <3>3, <3>4 DEF Inv, Numbered
    <3> QED
      BY <3>1, <3>2, <3>4 DEF Numbered
  <2>9. CreatorsAgree'
    <3>1. ASSUME NEW m \in MeetingIDs
          PROVE  /\ Stored(m) => db[m].creator = owner'[m]
                 /\ HasRoomData(m) => rooms[m].meeting = m /\ rooms[m].creator = owner'[m]
      <4>1. CASE m # id
        BY <2>7, <4>1 DEF Inv, CreatorsAgree
      <4>2. CASE m = id
        <5>1. HasRoomData(m) => rooms[m].creator \in Users /\ rooms[m].creator = None
          BY <1>0, <2>3, <4>2 DEF HasRoomData, Inv, CreatorsAgree, TypeOK, Meta
        <5> QED
          BY <2>3, <4>2, <5>1, NoneAssumption DEF Stored
      <4> QED
        BY <4>1, <4>2
    <3>2. ASSUME NEW v \in Workers
          PROVE  Agrees(call[v])'
      <4>1. CASE v = w
        BY <2>4, <2>5, <2>6, <2>7, <4>1 DEF Agrees
      <4>2. CASE v # w
        <5>1. call'[v] = call[v] /\ Agrees(call[v])
          BY <2>6, <4>2 DEF Inv, CreatorsAgree
        <5>2. CASE call[v].doc = None /\ call[v].md = None
          BY <5>1, <5>2 DEF Agrees
        <5>3. CASE call[v].doc # None \/ call[v].md # None
          <6>1. call[v] \in Call /\ Prepared(call[v])
            BY <1>0, <5>3 DEF TypeOK, IdleCall
          <6>2. call[v].id \in MeetingIDs
            BY <5>3, <6>1 DEF Call, Prepared
          <6>3. call[v].id # id
            BY <2>3, <5>1, <5>3, <6>1, NoneAssumption DEF Agrees, Call, Doc, Meta
          <6> QED
            BY <2>7, <5>1, <6>2, <6>3 DEF Agrees
        <5> QED
          BY <5>2, <5>3
      <4> QED
        BY <4>1, <4>2
    <3> QED
      BY <1>0, <3>1, <3>2 DEF CreatorsAgree, Stored, HasRoomData
  <2>10. SettingsHaveAuthors'
    <3>1. Rightful(call[w].md)'
      BY <1>0, <2>5, <2>6, CopyStaysRightful
    <3> QED
      BY <1>0, <2>6, <3>1, AuthorsStep DEF Inv
  <2> QED
    BY <2>8, <2>9, <2>10 DEF Inv
<1> QED
  BY <1>1, <1>2

LEMMA OpenInv ==
  ASSUME Inv, TypeOK', NEW w \in Workers, OpenRoom(w) \/ Publish(w)
  PROVE  Inv'
<1> DEFINE c == call[w]
<1>0. /\ TypeOK
      /\ UNCHANGED <<db, lastID, owner, trail>>
      /\ c \in Call /\ Prepared(c)
      /\ c.md \in Meta /\ c.id \in MeetingIDs
      /\ c.md.meeting = c.id /\ c.md.creator = owner[c.id] /\ Rightful(c.md)
  <2>1. /\ TypeOK
        /\ UNCHANGED <<db, lastID, owner, trail>>
        /\ c \in Call /\ Prepared(c) /\ c.at \in {"open", "publish"}
    BY Running DEF Inv, OpenRoom, Publish, At, history
  <2>2. c.md # None /\ c.id # None
    BY <2>1 DEF Prepared
  <2> QED
    BY <2>1, <2>2 DEF Call, Inv, CreatorsAgree, Agrees, SettingsHaveAuthors
<1>1. \A m \in MeetingIDs :
        rooms'[m] \in {rooms[m], None, Blank} \/ (m = c.id /\ rooms'[m] = c.md)
  BY <1>0 DEF OpenRoom, Publish, CreateRoom, UpdateRoomMetadata, TypeOK, rtcVars
<1>2. \A v \in Workers : Quiet(v)
  <2>1. CASE Return(w)
    BY <1>0, <2>1, ReturnQuiet
  <2>2. CASE ~ Return(w)
    <3>1. OpenRoom(w) /\ Goto(w, "insert")
      BY <2>2 DEF OpenRoom, Publish
    <3>2. c.at = "open" /\ c.req.op = "Create"
      BY <2>2 DEF OpenRoom, Publish, At
    <3>3. /\ call'[w].id = c.id /\ call'[w].doc = c.doc /\ call'[w].md = c.md
          /\ \A v \in Workers \ {w} : call'[v] = call[v]
      BY <1>0, <3>1 DEF TypeOK, Call, Goto
    <3> QED
      BY <3>2, <3>3 DEF Quiet, Founding
  <2> QED
    BY <2>1, <2>2
<1>3. Numbered'
  BY <1>0, <1>2, FoundingHasNumber, NumberedStep DEF Inv, Quiet
<1>4. CreatorsAgree'
  <2>1. \A v \in Workers : call'[v] = call[v] \/ Agrees(call'[v])
    BY <1>2 DEF Inv, CreatorsAgree, Agrees, Quiet
  <2> QED
    BY <1>0, <1>1, <2>1, AgreeStep DEF Inv, Stored
<1>5. SettingsHaveAuthors'
  <2>1. \A m \in MeetingIDs : rooms'[m] \in {rooms[m], None, Blank} \/ Rightful(rooms'[m])
    BY <1>0, <1>1
  <2>2. \A v \in Workers :
          call'[v] = call[v] \/ call'[v].md = None \/ Rightful(call[v].md)'
    BY <1>0, <1>2 DEF Inv, SettingsHaveAuthors, Quiet, Rightful, Allowed
  <2> QED
    BY <1>0, <2>1, <2>2, AuthorsStep DEF Inv
<1> QED
  BY <1>3, <1>4, <1>5 DEF Inv

LEMMA InsertInv ==
  ASSUME Inv, TypeOK', NEW w \in Workers, InsertMeeting(w)
  PROVE  Inv'
<1> DEFINE c == call[w]
<1>0. /\ TypeOK
      /\ UNCHANGED <<rooms, lastID, owner, trail>>
      /\ c \in Call /\ Prepared(c) /\ Founding(c)
      /\ c.id \in MeetingIDs /\ c.doc \in Doc
  BY Running, FoundingHasNumber DEF Inv, InsertMeeting, At, rtcVars, history, Founding
<1>1. /\ c.doc.creator = owner[c.id] /\ db[c.id] = None /\ c.id <= lastID
  BY <1>0, NoneAssumption DEF Inv, CreatorsAgree, Agrees, Numbered
<1>2. /\ db' = [db EXCEPT ![c.id] = c.doc]
      /\ Return(w) \/ Goto(w, "publish")
  BY <1>1 DEF InsertMeeting
<1>3. /\ \/ call'[w].doc = None /\ call'[w].md = None
         \/ call'[w].id = c.id /\ call'[w].doc = c.doc /\ call'[w].md = c.md
      /\ ~ Founding(call'[w])
      /\ \A v \in Workers \ {w} : call'[v] = call[v]
  <2>1. CASE Return(w)
    BY <1>0, <2>1 DEF TypeOK, Return, IdleCall, Founding
  <2>2. CASE Goto(w, "publish")
    BY <1>0, <2>2 DEF TypeOK, Call, Goto, Founding
  <2> QED
    BY <1>2, <2>1, <2>2
<1>4. Numbered'
  <2>1. \A m \in MeetingIDs : m > lastID' => owner'[m] = None /\ db'[m] = None
    BY <1>0, <1>1, <1>2 DEF Inv, Numbered, TypeOK, MeetingIDs
  <2>2. ASSUME NEW v \in Workers, Founding(call'[v])
        PROVE  /\ v # w /\ call'[v] = call[v] /\ Founding(call[v])
               /\ call[v].id \in MeetingIDs /\ call[v].id # c.id
    BY <1>0, <1>3, <2>2, FoundingHasNumber DEF Inv, Numbered
  <2>3. ASSUME NEW v \in Workers, Founding(call'[v])
        PROVE  /\ call'[v].id <= lastID' /\ db'[call'[v].id] = None
               /\ call'[v].doc.status \in {"Scheduled", "In-Progress"}
    BY <1>0, <1>2, <2>2, <2>3 DEF Inv, Numbered, TypeOK
  <2>4. ASSUME NEW v \in Workers, NEW u \in Workers,
               Founding(call'[v]), Founding(call'[u]), call'[v].id = call'[u].id
        PROVE  v = u
    BY <2>2, <2>4 DEF Inv, Numbered
  <2> QED
    BY <2>1, <2>3, <2>4 DEF Numbered
<1>5. CreatorsAgree'
  <2>1. ASSUME NEW m \in MeetingIDs, db'[m] \notin {None, Cancelled}
        PROVE  db'[m].creator = owner[m]
    BY <1>0, <1>1, <1>2, <2>1 DEF Inv, CreatorsAgree, Stored, TypeOK
  <2>2. \A v \in Workers : Agrees(call'[v])
    BY <1>0, <1>3 DEF Inv, CreatorsAgree, Agrees
  <2> QED
    BY <1>0, <2>1, <2>2 DEF Inv, CreatorsAgree, Agrees, Stored, HasRoomData
<1>6. SettingsHaveAuthors'
  <2>1. \A v \in Workers :
          call'[v] = call[v] \/ call'[v].md = None \/ Rightful(call[v].md)'
    BY <1>0, <1>3 DEF Inv, SettingsHaveAuthors, Rightful, Allowed
  <2> QED
    BY <1>0, <2>1, AuthorsStep DEF Inv
<1> QED
  BY <1>4, <1>5, <1>6 DEF Inv

-----------------------------------------------------------------------------
(* The invariant, and what follows from it.                                *)

LEMMA InvInit == Init => Inv
<1> SUFFICES ASSUME Init PROVE Inv
  OBVIOUS
<1>1. TypeOK
  BY MaxMeetingsAssumption DEF Init, RtcInit, TypeOK, Pass, Fact
<1>2. Numbered
  BY DEF Init, Numbered, Founding, IdleCall
<1>3. CreatorsAgree
  BY DEF Init, RtcInit, CreatorsAgree, Agrees, Stored, HasRoomData, IdleCall
<1>4. SettingsHaveAuthors
  BY DEF Init, RtcInit, SettingsHaveAuthors, HasRoomData, IdleCall
<1> QED
  BY <1>1, <1>2, <1>3, <1>4 DEF Inv

LEMMA InvStep == Inv /\ TypeOK' /\ [Next]_vars => Inv'
<1> SUFFICES ASSUME Inv, TypeOK', [Next]_vars PROVE Inv'
  OBVIOUS
<1>1. ASSUME NEW w \in Workers, NEW req \in Calls, Begin(w, req) PROVE Inv'
  BY <1>1, BeginQuiet
<1>2. ASSUME NEW w \in Workers, Fail(w) PROVE Inv'
  BY <1>2, FailQuiet
<1>3. ASSUME NEW w \in Workers, Step(w) PROVE Inv'
  BY <1>3, ListsQuiet, RoomsQuiet, DocumentsQuiet, TakeInv, JoinInv, UpdateInv, EditInv,
     GenerateInv, OpenInv, InsertInv
     DEF Step
<1>4. CASE Clients /\ UNCHANGED <<serverVars, history>>
  BY <1>4, ClientsQuiet
<1>5. CASE UNCHANGED vars
  <2>1. UNCHANGED <<rooms, db, lastID, call, owner, trail>>
    BY <1>5 DEF vars
  <2> QED
    BY <2>1, QuietStep DEF KeepsCreator, Quiet
<1> QED
  BY <1>1, <1>2, <1>3, <1>4, <1>5 DEF Next

\* The inductive invariant holds throughout: types, numbering, the agreement of
\* the stores of meeting.go and convert.go, and the authors of settings.
THEOREM InvCorrect == Spec => []Inv
<1>1. Spec => []TypeOK
  BY TypeCorrect
<1> QED
  BY <1>1, InvInit, InvStep, PTL DEF Spec

\* The creator a document names, the creator a room names and the creator in
\* any handler's copies are one and the same, for any number of workers and
\* however late a copy is written back (UpdateMetaData, UpdateMeeting).
THEOREM CreatorsAlwaysAgree == Spec => []CreatorsAgree
BY InvCorrect, PTL DEF Inv

\* No host, no co-host, no switched or limited device without a request that
\* was granted for that meeting, whatever stale metadata are written back.
THEOREM SettingsAlwaysHaveAuthors == Spec => []SettingsHaveAuthors
BY InvCorrect, PTL DEF Inv

\* The unique index on meeting_id never refuses an insert: a number generated
\* for a booking is not in the store, and no other handler holds it.
THEOREM NumbersAlwaysFresh == Spec => []NumbersAreFresh
<1>1. Inv => NumbersAreFresh
  <2> SUFFICES ASSUME Inv, NEW w \in Workers, call[w].at = "insert"
               PROVE  /\ db[call[w].id] = None
                      /\ \A v \in Workers \ {w} :
                           call[v].at \in {"open", "insert"}
                             /\ call[v].req.op \in {"Book", "Create"}
                           => call[v].id # call[w].id
    BY DEF NumbersAreFresh
  <2>1. call[w].req.op \in {"Book", "Create"}
    <3>1. call[w].at \in StepsOf(call[w].req.op) /\ call[w].req \in Request
      BY Running DEF Inv, Prepared, Call
    <3> QED
      BY <3>1 DEF StepsOf, Request, MeetingRequest, BookRequest, JoinRequest, EntryRequest,
         EndRequest, DeviceRequest, HostRequest, RemoveRequest, SweepRequest
  <2>2. Founding(call[w])
    BY <2>1 DEF Founding
  <2> QED
    BY <2>2 DEF Inv, Numbered, Founding
<1> QED
  BY <1>1, InvCorrect, PTL

\* Nobody is made host or co-host and nobody's device is limited but by the
\* creator of the meeting or by somebody who was made its host before; nobody's
\* device is switched on but by its user (SetMeetingHostInfo,
\* SetPersonalMeetingSettings).
THEOREM AuthorityIsChained == Spec => AuthorityChain
<1>1. Inv /\ [Next]_vars => [\A f \in trail' \ trail : Entitled(f)]_vars
  <2> SUFFICES ASSUME Inv, Next
               PROVE  \A f \in trail' \ trail : Entitled(f)
    BY DEF vars
  <2>1. CASE trail' = trail
    BY <2>1
  <2>2. ASSUME NEW w \in Workers, trail' # trail,
               SetPersonalMeetingSettings(w) \/ SetMeetingHostInfo(w),
               NEW f \in trail' \ trail
        PROVE  Entitled(f)
    <3> DEFINE c == call[w]
               m == c.id
               md == rooms[m]
               req == c.req
    <3>1. req \in Request /\ m \in MeetingIDs
      BY <2>2, Running, RequestShape
         DEF Inv, SetPersonalMeetingSettings, SetMeetingHostInfo, At, Call, Prepared
    <3>2. HasRoomData(m) =>
            /\ md.creator = owner[m] /\ md.meeting = m
            /\ md.host = md.creator \/ Allowed("host", m, md.host)
      BY <3>1 DEF Inv, CreatorsAgree, SettingsHaveAuthors, Rightful
    <3>3. CASE SetPersonalMeetingSettings(w)
      <4>1. HasRoomData(m) /\ MaySetPersonal(md, req) /\ f \in PersonalFacts(m, req)
        BY <2>2, <3>3 DEF SetPersonalMeetingSettings
      <4>2. /\ f.meeting = m /\ f.by = req.user
            /\ \/ f.kind = "on" /\ f.of = f.by
               \/ f.kind = "limit" /\ req.user # req.target
        BY <4>1 DEF PersonalFacts
      <4> QED
        BY <3>2, <4>1, <4>2 DEF MaySetPersonal, Entitled
    <3>4. CASE SetMeetingHostInfo(w)
      <4>1. /\ HasRoomData(m) /\ CheckAuthPermission(md.creator, md.host, req.user)
            /\ f \in HostFacts(m, req)
        BY <2>2, <3>4 DEF SetMeetingHostInfo
      <4>2. f.meeting = m /\ f.by = req.user /\ f.kind # "on"
        BY <4>1 DEF HostFacts
      <4> QED
        BY <3>2, <4>1, <4>2 DEF CheckAuthPermission, Entitled
    <3> QED
      BY <2>2, <3>3, <3>4
  <2>3. ASSUME NEW w \in Workers, Step(w), trail' # trail
        PROVE  SetPersonalMeetingSettings(w) \/ SetMeetingHostInfo(w)
    BY <2>3 DEF Step, ListRooms, ScanRoom, UserIsFree, Take, GenerateMeetingID, OpenRoom,
       InsertMeeting, Publish, JoinWithoutRoom, JoinRoom, GetMeetingToken, LeaveMeeting,
       EndLook, EndClose, EndStore, UpdateLook, UpdateStore, UpdateRetake, UpdateRelook,
       RemoveLook, RemoveOne, CleanRoom, FindMeetings, RefreshClose, RefreshStore,
       RefreshDone, history
  <2>4. ASSUME NEW w \in Workers, Fail(w) \/ \E req \in Calls : Begin(w, req)
        PROVE  trail' = trail
    BY <2>4 DEF Fail, Begin, history
  <2> QED
    BY <2>1, <2>2, <2>3, <2>4 DEF Next, history
<1> QED
  BY <1>1, InvCorrect, PTL DEF Spec, AuthorityChain

-----------------------------------------------------------------------------
(* The meeting server implements MeetingLifecycle: every step of every     *)
(* handler is an issue of a number, a store, a settlement or a             *)
(* cancellation of one meeting, or does not show.                          *)

\* What MeetingLifecycle sees of a meeting: the refinement mapping.
Seen(m) ==
  IF Stored(m) THEN [creator |-> db[m].creator, status |-> db[m].status] ELSE db[m]

\* The step does not show.
Unseen == UNCHANGED owner /\ \A m \in MeetingIDs : Seen(m)' = Seen(m)

LEMMA UnseenStutters ==
  ASSUME Unseen
  PROVE  UNCHANGED Lifecycle!vars
BY DEF Unseen, Seen, Lifecycle!vars, Stored

\* One document is settled by a status.
Settles(m) ==
  /\ UNCHANGED owner /\ Stored(m)
  /\ \E s \in {"Scheduled", "Completed"} : db' = [db EXCEPT ![m].status = s]

LEMMA SettlesIsSettle ==
  ASSUME Inv, NEW m \in MeetingIDs, Settles(m)
  PROVE  Lifecycle!Settle(m)
<1>1. PICK s \in {"Scheduled", "Completed"} : db' = [db EXCEPT ![m].status = s]
  BY DEF Settles
<1> DEFINE doc == [db[m] EXCEPT !.status = s]
<1>2. db[m] \in Doc /\ db[m].creator = owner[m]
  BY DEF Settles, Stored, Inv, TypeOK, CreatorsAgree
<1>3. doc \in Doc /\ doc.creator = owner[m] /\ doc.status = s
  BY <1>2 DEF Doc, Statuses
<1>4. db'[m] = doc /\ \A n \in MeetingIDs \ {m} : db'[n] = db[n]
  BY <1>1 DEF Inv, TypeOK
<1>5. doc \notin {None, Cancelled}
  BY <1>3, NoneAssumption
<1> HIDE DEF doc
<1>6. Seen(m)' = [creator |-> owner[m], status |-> s]
  BY <1>3, <1>4, <1>5 DEF Seen, Stored
<1>7. \A n \in MeetingIDs \ {m} : Seen(n)' = Seen(n)
  BY <1>4 DEF Seen, Stored
<1>8. [creator |-> db[m].creator, status |-> db[m].status] \notin {None, Cancelled}
  BY <1>2, NoneAssumption DEF Brief, Doc
<1> QED
  BY <1>6, <1>7, <1>8 DEF Settles, Lifecycle!Settle, Lifecycle!Live, Seen

LEMMA CancelIsCancel ==
  ASSUME Inv, NEW m \in MeetingIDs, Stored(m), UNCHANGED owner,
         db' = [db EXCEPT ![m] = Cancelled]
  PROVE  Lifecycle!Cancel(m)
<1>1. db[m] \in Doc
  BY DEF Stored, Inv, TypeOK
<1>2. db'[m] = Cancelled /\ \A n \in MeetingIDs \ {m} : db'[n] = db[n]
  BY DEF Inv, TypeOK
<1>3. Seen(m)' = Cancelled /\ \A n \in MeetingIDs \ {m} : Seen(n)' = Seen(n)
  BY <1>2 DEF Seen, Stored
<1>4. [creator |-> db[m].creator, status |-> db[m].status] \notin {None, Cancelled}
  BY <1>1, NoneAssumption DEF Brief, Doc
<1> QED
  BY <1>3, <1>4 DEF Lifecycle!Cancel, Lifecycle!Live, Seen

LEMMA GenerateIsIssue ==
  ASSUME Inv, NEW w \in Workers, GenerateMeetingID(w)
  PROVE  Unseen \/ \E m \in MeetingIDs, u \in Users : Lifecycle!Issue(m, u)
<1> DEFINE id == lastID + 1
           u == call[w].req.user
<1>1. CASE ~ (lastID < MaxMeetings)
  BY <1>1 DEF GenerateMeetingID, Unseen, Seen, Stored
<1>2. CASE lastID < MaxMeetings
  <2>1. owner' = [owner EXCEPT ![id] = u] /\ UNCHANGED db
    BY <1>2 DEF GenerateMeetingID, NextID
  <2>2. id \in MeetingIDs /\ id > lastID
    BY <1>2, MaxMeetingsAssumption DEF Inv, TypeOK, MeetingIDs
  <2>3. owner[id] = None
    BY <2>2 DEF Inv, Numbered
  <2>4. u \in Users
    BY Running, RequestShape DEF Inv, GenerateMeetingID, At, Call
  <2>5. Lifecycle!Issue(id, u)
    BY <2>1, <2>3 DEF Lifecycle!Issue, Stored
  <2> QED
    BY <2>2, <2>4, <2>5
<1> QED
  BY <1>1, <1>2

LEMMA InsertIsStore ==
  ASSUME Inv, NEW w \in Workers, InsertMeeting(w)
  PROVE  \E m \in MeetingIDs : Lifecycle!Store(m)
<1> DEFINE c == call[w]
<1>1. c \in Call /\ Founding(c) /\ c.id \in MeetingIDs /\ c.doc \in Doc
  <2>1. c \in Call /\ Prepared(c) /\ c.at = "insert"
    BY Running DEF Inv, InsertMeeting, At
  <2>2. Founding(c)
    BY <2>1 DEF Founding, InsertMeeting, At
  <2> QED
    BY <2>1, <2>2, FoundingHasNumber DEF Inv
<1>m. PICK m \in MeetingIDs, doc \in Doc : m = c.id /\ doc = c.doc
  BY <1>1
<1>2. /\ doc.creator = owner[m] /\ db[m] = None
      /\ doc.status \in {"Scheduled", "In-Progress"}
  BY <1>1, <1>m, NoneAssumption DEF Inv, CreatorsAgree, Agrees, Numbered
<1>3. db' = [db EXCEPT ![m] = doc] /\ UNCHANGED owner
  BY <1>2, <1>m DEF InsertMeeting, history
<1>4. db'[m] = doc /\ \A n \in MeetingIDs \ {m} : db'[n] = db[n]
  BY <1>3 DEF Inv, TypeOK
<1>5. doc \notin {None, Cancelled} /\ owner[m] # None
  BY <1>2, NoneAssumption DEF Doc
<1>6. Seen(m) = None
  BY <1>2 DEF Seen, Stored
<1>7. Seen(m)' = [creator |-> owner[m], status |-> doc.status]
  BY <1>2, <1>4, <1>5 DEF Seen, Stored
<1>8. \A n \in MeetingIDs \ {m} : Seen(n)' = Seen(n)
  BY <1>4 DEF Seen, Stored
<1>9. Lifecycle!Store(m)
  BY <1>2, <1>3, <1>5, <1>6, <1>7, <1>8, ZenonT(30) DEF Lifecycle!Store, Seen
<1> QED
  BY <1>9

LEMMA EndShows ==
  ASSUME Inv, NEW w \in Workers, EndStore(w)
  PROVE  Unseen \/ \E m \in MeetingIDs : Lifecycle!Settle(m) \/ Lifecycle!Cancel(m)
<1>0. call[w] \in Call /\ Prepared(call[w])
  BY Running DEF Inv, EndStore, At
<1>1. call[w].req \in EndRequest /\ call[w].id \in MeetingIDs
  BY <1>0, RequestShape DEF EndStore, At, Call, Prepared, Request, MeetingRequest,
     BookRequest, JoinRequest, EntryRequest, EndRequest, DeviceRequest, HostRequest,
     RemoveRequest, SweepRequest
<1>2. PICK m \in MeetingIDs : m = call[w].id
  BY <1>1
<1>3. call[w].plan[m] \in {"Scheduled", "Completed"} /\ UNCHANGED owner
  BY <1>0, <1>2 DEF EndStore, At, Prepared, Call, Plan, history
<1>4. \/ UNCHANGED db
      \/ Stored(m) /\ db' = [db EXCEPT ![m] = Cancelled]
      \/ Stored(m) /\ db' = [db EXCEPT ![m].status = call[w].plan[m]]
  BY <1>1, <1>2 DEF EndStore, EndRequest
<1>5. CASE UNCHANGED db
  BY <1>3, <1>5 DEF Unseen, Seen, Stored
<1>6. CASE Stored(m) /\ db' = [db EXCEPT ![m] = Cancelled]
  BY <1>3, <1>6, CancelIsCancel
<1>7. CASE Stored(m) /\ db' = [db EXCEPT ![m].status = call[w].plan[m]]
  BY <1>3, <1>7, SettlesIsSettle DEF Settles
<1> QED
  BY <1>4, <1>5, <1>6, <1>7

LEMMA RefreshShows ==
  ASSUME Inv, NEW w \in Workers, RefreshStore(w)
  PROVE  Unseen \/ \E m \in MeetingIDs : Lifecycle!Settle(m)
<1>0. call[w] \in Call /\ Prepared(call[w])
  BY Running DEF Inv, RefreshStore, At
<1>1. PICK m \in MeetingIDs :
        /\ \/ At(w, {"GetMeetings"}, "settle") /\ m = call[w].id
           \/ At(w, {"GetMeetings"}, "sweep") /\ call[w].plan[m] = "Scheduled"
        /\ (Stored(m) /\ db' = [db EXCEPT ![m].status = call[w].plan[m]]) \/ UNCHANGED db
  BY DEF RefreshStore
<1>2. call[w].plan[m] \in {"Scheduled", "Completed"} /\ UNCHANGED owner
  BY <1>0, <1>1 DEF RefreshStore, At, Prepared, history
<1>3. CASE UNCHANGED db
  BY <1>2, <1>3 DEF Unseen, Seen, Stored
<1>4. CASE Stored(m) /\ db' = [db EXCEPT ![m].status = call[w].plan[m]]
  BY <1>2, <1>4, SettlesIsSettle DEF Settles
<1> QED
  BY <1>1, <1>3, <1>4

\* UpdateMeeting edits the details of a document, never its creator or status.
LEMMA UpdateUnseen ==
  ASSUME Inv, NEW w \in Workers, UpdateStore(w)
  PROVE  Unseen
<1>1. UNCHANGED owner
  BY DEF UpdateStore, history
<1>2. CASE UNCHANGED db
  BY <1>1, <1>2 DEF Unseen, Seen, Stored
<1>3. CASE ~ UNCHANGED db
  <2>0. call[w] \in Call /\ Prepared(call[w])
    BY Running DEF Inv, UpdateStore, At
  <2>1. call[w].id \in MeetingIDs /\ call[w].req.info \in Infos
    BY <2>0, RequestShape DEF UpdateStore, At, Call, Prepared, JoinRequest
  <2>2. PICK m \in MeetingIDs, info \in Infos : m = call[w].id /\ info = call[w].req.info
    BY <2>1
  <2>3. Stored(m) /\ db' = [db EXCEPT ![m] = [db[m] EXCEPT !.info = info]]
    BY <1>3, <2>2 DEF UpdateStore, Patched
  <2> DEFINE doc == [db[m] EXCEPT !.info = info]
  <2>4. doc \in Doc /\ doc.creator = db[m].creator /\ doc.status = db[m].status
    BY <2>3 DEF Stored, Inv, TypeOK, Doc
  <2>5. db'[m] = doc /\ \A n \in MeetingIDs \ {m} : db'[n] = db[n]
    BY <2>3 DEF Inv, TypeOK
  <2> HIDE DEF doc
  <2>6. Seen(m)' = Seen(m)
    BY <2>3, <2>4, <2>5, NoneAssumption DEF Seen, Stored
  <2>7. \A n \in MeetingIDs \ {m} : Seen(n)' = Seen(n)
    BY <2>5 DEF Seen, Stored
  <2> QED
    BY <1>1, <2>6, <2>7 DEF Unseen
<1> QED
  BY <1>2, <1>3

LEMMA OthersUnseen ==
  ASSUME UNCHANGED <<db, owner>>
  PROVE  Unseen
BY DEF Unseen, Seen, Stored

\* The handlers of internal/rpc/meeting, on any number of workers, with any
\* failures, implement the life of a meeting as MeetingLifecycle states it.
THEOREM ServerImplementsLifecycle == Spec => LifecycleSpec
<1>1. Init => Lifecycle!Init
  BY DEF Init, Lifecycle!Init, Stored
<1>2. Inv /\ [Next]_vars => [Lifecycle!Next]_(Lifecycle!vars)
  <2> SUFFICES ASSUME Inv, [Next]_vars
               PROVE  [Lifecycle!Next]_(Lifecycle!vars)
    OBVIOUS
  <2>1. CASE Unseen
    BY <2>1, UnseenStutters
  <2>2. ASSUME NEW w \in Workers,
               \/ GenerateMeetingID(w) \/ InsertMeeting(w)
               \/ EndStore(w) \/ UpdateStore(w) \/ RefreshStore(w)
        PROVE  Unseen \/ Lifecycle!Next
    BY <2>2, GenerateIsIssue, InsertIsStore, EndShows, UpdateUnseen, RefreshShows
       DEF Lifecycle!Next
  <2>3. ASSUME NEW w \in Workers,
               \/ Fail(w) \/ \E req \in Calls : Begin(w, req)
               \/ ListRooms(w) \/ ScanRoom(w) \/ UserIsFree(w) \/ Take(w)
               \/ OpenRoom(w) \/ Publish(w) \/ JoinWithoutRoom(w) \/ JoinRoom(w)
               \/ GetMeetingToken(w) \/ LeaveMeeting(w) \/ EndLook(w) \/ EndClose(w)
               \/ UpdateLook(w) \/ UpdateRetake(w) \/ UpdateRelook(w)
               \/ SetPersonalMeetingSettings(w) \/ SetMeetingHostInfo(w)
               \/ RemoveLook(w) \/ RemoveOne(w) \/ CleanRoom(w)
               \/ FindMeetings(w) \/ RefreshClose(w) \/ RefreshDone(w)
        PROVE  Unseen
    <3>1. UNCHANGED <<db, owner>>
      BY <2>3 DEF Fail, Begin, ListRooms, ScanRoom, UserIsFree, Take, OpenRoom, Publish,
         JoinWithoutRoom, JoinRoom, GetMeetingToken, LeaveMeeting, EndLook, EndClose,
         UpdateLook, UpdateRetake, UpdateRelook, SetPersonalMeetingSettings,
         SetMeetingHostInfo, RemoveLook, RemoveOne, CleanRoom, FindMeetings, RefreshClose,
         RefreshDone, history
    <3> QED
      BY <3>1, OthersUnseen
  <2>4. CASE Clients /\ UNCHANGED <<serverVars, history>>
    BY <2>4, OthersUnseen, <2>1 DEF serverVars, history
  <2>5. CASE UNCHANGED vars
    BY <2>5, OthersUnseen, <2>1 DEF vars
  <2>6. ASSUME NEW w \in Workers,
               (\E req \in Calls : Begin(w, req)) \/ Fail(w) \/ Step(w)
        PROVE  Unseen \/ Lifecycle!Next
    BY <2>2, <2>3, <2>6 DEF Step
  <2> QED
    BY <2>1, <2>4, <2>5, <2>6 DEF Next
<1> QED
  BY <1>1, <1>2, InvCorrect, PTL DEF Spec, LifecycleSpec, Lifecycle!Spec
=============================================================================
