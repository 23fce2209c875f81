# openmeeting-server: specifications and proofs

TLA+ models of openmeeting-server, a Go service for video meetings: a gRPC
meeting service and a gRPC user service behind an HTTP gateway, with MongoDB
for documents, Redis for cache, tokens and counters, and LiveKit for rooms and
media. Each model is translated from the source; `PROJECT.json` maps every
definition to the lines it stands for, and lists the hazards the properties are
about. TLC checks small instances; TLAPS proves, for all values of the constants,
every safety property the runs check.

## 1. The system

| Part | Keeps | Operations | Talks to |
|---|---|---|---|
| Meeting service (`internal/rpc/meeting`) | nothing of its own; the meeting documents (MongoDB) and room metadata (LiveKit) are its state | book, create, join, token, leave, end/cancel, update, personal settings, hosts, remove, clean, list | storage, LiveKit adapter, user service |
| LiveKit adapter (`pkg/rtc/livekit`) | room metadata, participants (in LiveKit) | create, close, list rooms; read and replace metadata; remove participant; sign join tokens | LiveKit |
| Meeting and user storage (`pkg/common/storage`) | documents in MongoDB, a copy of each in Redis, two counters | take, create, update, delete, find | MongoDB, Redis |
| Schedule (`internal/rpc/meeting/logic.go`) | nothing: functions of a document and the clock | is a session due, when is the next, is the meeting over | clock |
| User service (`internal/rpc/user`) | the current token of each user (Redis) | register, login, logout, clear token, parse token | storage, meeting service |
| Gateway (`internal/api`) | nothing | checks the token of each request, forwards it | both services |
| Admin API (`internal/api/admin`) | nothing | login, import and registration of users | user service, storage |
| Start and shutdown (`internal/api/init.go`, `pkg/common/startrpc`) | servers, channels, signals | start, serve, drain, stop | registry (etcd) |
| Component check (`tools/check-component`) | who has answered | ask MongoDB, Redis and etcd until all have answered | MongoDB, Redis, etcd |
| Commands, configuration, metrics, clients, error codes | nothing that others read | wiring | |

What is hard about it:

* Nothing is locked. A handler is a sequence of calls to MongoDB, Redis and
  LiveKit; others run between any two of them. Room metadata are one JSON value
  that is read whole and written back whole.
* A meeting lives in two stores, its document and the metadata of its room, and
  no transaction spans both. Any call can fail and the server can stop between
  two calls.
* Rooms come and go under one number: a closed or expired room is opened again
  by the next join, while handlers still hold copies of the old metadata.
* Clients act by themselves with tokens signed long ago.
* The cache is filled by readers and invalidated by writers, before the
  transaction of the writer commits; a removal that fails is only logged.
* Users are created several at a time, under IDs from a counter or from callers,
  and found by ID or by account through one cache.
* A user has one entry for his token, and logs in and out from several devices.
* Recurrence is arithmetic on dates with loops, written twice: one half asks
  whether a day has a session, the other steps to the next one. Rules and time
  zones are stored as clients send them; one half asks for the weekend where
  the server is, the other where the meeting is, and some rules make the search
  loop for ever.
* A process ends by a signal, or by a failure of one of its two servers, while
  calls are running and while it is still starting.

What makes each part correct:

* Meeting service: both stores agree on a meeting's creator and details; nobody
  gets a role or an open device without a grant; a completed meeting stays so;
  every call returns, but for a search that never ends.
* Storage: a read sees the writes that returned before it, and none that may
  still be rolled back; a batch of users is created whole, or as its first
  rows; who is stored is found.
* User service and gateway: one device of a user is let in, and one that was told
  to log in again is not let in before it has.
* Schedule: no session is lost, what is over is completed, the search ends.
* Processes: they start after the check, accepted calls finish, failures and
  signals end them.

## 2. Modules

| Module | What it is |
|---|---|
| `LiveKit` | rooms, participants and join tokens; the adapter's calls and what LiveKit and clients do by themselves |
| `MeetingServer` | extends `LiveKit`: the meeting service, one action per step of each handler |
| `MeetingLifecycle` | abstract: what the service promises about a meeting's life, in four actions |
| `MeetingStore` | the documents in MongoDB and their copies in Redis |
| `RegularStore` | abstract: what the storage promises its callers, without cache and locks |
| `UserDirectory` | how users are created (registration, import) and found (by ID, by account) |
| `UserSession` | tokens, their entries in Redis, the gateway's check |
| `MeetingSchedule` | recurrence and what the handlers do with time |
| `RpcProcess`, `GatewayProcess`, `ComponentCheck` | a process of an RPC service, one of a gateway, the check before them |
| `Deployment` | composes the three |
| `MCMeetingServer`, `MCMeetingStore`, `MCUserDirectory`, `MCUserSession`, `MCMeetingSchedule`, `MCDeployment` | values of the constants for TLC |
| `MeetingServerProofs`, `MeetingAgreementProofs`, `MeetingAloneProofs` | theorems about the server: types; the inductive invariant, the safety theorems and the refinement of `MeetingLifecycle`; what holds of one handler at a time |
| `MeetingStoreProofs` | theorems about the store, and its refinement of `RegularStore` |
| `UserDirectoryProofs`, `UserSessionProofs`, `MeetingScheduleProofs`, `DeploymentProofs` | theorems about users, sessions, the schedule and the processes |

The modules meet where one part's question does not depend on the other's
detail. `MeetingServer` reads and writes a document in one step; `MeetingStore`
says what is behind that step, and `RegularStore` what of it callers may count
on. `UserDirectory` takes from `MeetingStore` that a copy is filled or not, and
adds what that module leaves out: several users in one insert, several names in
one lookup. `MeetingServer` lets a meeting be over or not
whenever the code asks; `MeetingSchedule` says when it is, and for which rules the
search for the next session never ends. For those, `MeetingServer` lets it end or
not (`Endless`), and `Deployment` has calls that get into that loop (`Searches`)
and to which nothing is promised; all other calls end some day, which is what
`returns` shows of the handlers with loops.

### MeetingServer and the code

A worker `w` runs one handler at a time: `call[w].req` is the request, `at` the
step it is about to take, `doc` and `md` the copies of document and metadata it
has read, `todo`, `left` and `plan` what its loops still have to do. A step makes
at most one call to another process; so every order in which MongoDB and LiveKit
may see the calls of two handlers is a behaviour of the model.

| Variable | Code |
|---|---|
| `rooms[m]` | metadata of the LiveKit room of meeting `m`: `None` no room, `Blank` a room LiveKit made by itself |
| `members[m]`, `passes` | participants of the room; join tokens signed so far |
| `db[m]` | the document: `None` never stored, `Cancelled` deleted |
| `lastID` | the Redis counter of `GenerateMeetingID` |
| `call[w]` | the local variables of a running handler |
| `owner`, `trail` | history for properties: for whom a number was generated, which settings were granted to whom by whom |

| Handler (`meeting.go`) | Actions |
|---|---|
| BookMeeting | `GenerateMeetingID`, `InsertMeeting` |
| CreateImmediateMeeting | `ListRooms`, `ScanRoom`, `UserIsFree`, `GenerateMeetingID`, `OpenRoom`, `InsertMeeting`, `Publish` |
| JoinMeeting | `Take`, `ListRooms`, `ScanRoom`, `UserIsFree`, then `JoinWithoutRoom`, `OpenRoom` or `JoinRoom`, `Publish` |
| GetMeetingToken, LeaveMeeting | `GetMeetingToken`; `LeaveMeeting` |
| EndMeeting | `Take`, `EndLook`, `EndClose`, `EndStore` |
| UpdateMeeting | `Take`, `UpdateLook`, `UpdateStore`, `UpdateRetake`, `UpdateRelook`, `Publish` |
| SetPersonalMeetingSettings | `SetPersonalMeetingSettings`, `Publish` |
| SetMeetingHostInfo | `SetMeetingHostInfo`, `Publish` |
| RemoveParticipants | `RemoveLook`, `RemoveOne` |
| CleanPreviousMeetings | `ListRooms`, `CleanRoom` |
| GetMeetings | `FindMeetings`, `RefreshClose`, `RefreshStore`, `RefreshDone` |
| nextMeetingTimestamp, in EndMeeting and GetMeetings | `NextSession`; a handler at "search" is in it for ever |

`Fail` is a call that fails, or a server that stops, at any step of a handler
that gives up on errors: what was written stays written. Where the code logs an
error and goes on (removing participants, the refresh, reading metadata in
`EndMeeting` and `UpdateMeeting`) the step itself has the failing alternative.

Abstractions. What a creator may edit (title, times, password, settings, repeat
rule) is one value of `Infos`; `Repeats` are those with a repeat rule; two infos
have different passwords. Camera and microphone are one device. The clock is a
choice: a meeting may be found over, or to have a next session, whenever the
code asks, and if its rule is one of `Endless`, the question may have no answer. The
refresh then deals with the meetings before that one and stops there; which come
before is open. A document is read as last committed. A join token is never
withdrawn: a client whose token expired is one that does not use it. An update
request with nothing in it changes nothing and is not modelled. `CreateRoom` on
a room that exists may keep or replace the metadata, since the code does not
tell. `EndMeeting` on a meeting without a room may go on or give up, for the
same reason.

### MeetingStore and the code

`db[r]` is the committed document of a meeting or user: how many writes it has
seen, and whether it is there. `cache[k]` is the Redis hash of a key: a copy, and
the lock of the reader who is to fill it. `locked[r]` is the worker whose open
transaction has written the document.

| Code | Actions |
|---|---|
| `getCache` over rockscache (`meta_cache.go`) | `BeginRead`, `Fetch`, `Load`, `Fill`, `Answer` |
| Create, Update, Delete of meetings, Create of users (`controller`) | `BeginWrite`, `Store` (MongoDB), `Tag` (`ExecDel`), `Commit` (the end of `tx.Transaction`) |
| a failed call, a server that stops | `Fail` |
| the lock (seconds), a copy (12 hours) | `LockExpires`, `CopyExpires`, at any time |

`transactions` is chosen once, as `tx.NewMongo` finds out once: FALSE for the
standalone `mongod` of `docker-compose.yml`, where the function runs without a
transaction, TRUE for a replica set. `Tag` has the case that all five tries to
remove a copy fail, which the code logs and forgets. Two variables are history:
`settled[r]` is the last version whose writer removed the copy and was told of
his success; `abandoned` has the records whose last writer left the copy behind,
because the removal failed or he did. rockscache is a library and modelled from
the options the code gives it (strong consistency). `InfoKey` is one function
for meetings and users because the code uses one.

`RegularStore` is one document per record, written version after version. A
read answers with a version that is there when it answers, no older than the
last that was through when it began. That is a regular register, and no atomic
one: when the lock of an entry expires under a slow reader, two reads that
follow each other during one write may get the new version and then the old.
`PromiseSpec` says that `MeetingStore` implements it; with transactions no write
ever gets through in this sense, and what is left of the promise is that
nothing uncommitted is seen.

### UserDirectory and the code

`users` are the committed documents by ID, `lastID` the counter, `cache` the
copies with the name each is under (an ID or an account: the code has one key
for both). `requests` is history: the IDs of each request to create users, and
how it ended.

| Code | Actions |
|---|---|
| UserRegister (`rpc/user`) | `UserRegister`, then as below from `InsertRow` on |
| ImportUserByJson, ImportUserByXlsx, RegisterUser (`api/admin`) | `Import`, `GenerateUserID` for each row, `InsertRow` |
| Create (`controller`), InsertMany | `InsertRow` for each row, `Tag` (DelUsersInfo, ExecDel), `Commit`, `Created` |
| the unique index on `user_id` | `Taken` |
| GetDesignateUsers, GetUserInfo; UserLogin and AdminLogin | `BeginLookup` by ID; by account |
| batchGetCache2, getCache | `Look`, `Load`, `Fill` |
| FindWithError, GetByAccount | `Complete`, `AnswerLookup` |
| a failed call, a stop; a copy's twelve hours | `Fail`; `CopyExpires` |

An insert of several users is ordered, so it stops at the first ID that is
taken. Two transactions that insert one ID conflict, and one of them is run
again by the driver, or fails. A file is the accounts of its rows; a spreadsheet
or JSON that cannot be read ends before storage. Passwords and nicknames are
data nobody decides by here. An account may be spelt like an ID: nothing in the code
keeps them apart, so a copy may answer for a name its user has in the other sense
(`Bearers`): after a login with an account that is spelt like an ID nobody has, a
lookup of that ID finds the user of the account. `mixed_names` shows the same of
meetings and users. Accounts are not unique, and a login may get any of the
users with his account (`Matches`).

### UserSession and the code

| Code | Actions |
|---|---|
| UserLogin, AdminLogin | `BeginLogin`, `SignToken` (CreateToken), `StoreToken` (CacheUserToken), `Clean` (CleanPreviousMeetings, not for AdminLogin), `Answer` |
| the gateway's check, ParseToken | `BeginRequest` (the token's own life), `CheckToken` (GetUserToken and the comparison) |
| UserLogout | as a request, then `ClearToken`, `Clean`, `Answer` |
| ClearUserToken | `ClearUserToken`: the entry holds `KickOff` |
| lost answers, failed calls, stops | `Fail` |
| the clock; Redis dropping entries | `Tick` |

A token is its user and the second it was signed in, since nothing else in it
differs. `SameSecond` says whether one user may log in twice in one second. A
device that was told to log in again, or has logged out, keeps its old token.
Clients name themselves, and passwords are right.

### MeetingSchedule and the code

One meeting, one call at a time; how calls interleave is in `MeetingServer`. The
clock has `Slots` ticks a day, the calendar is a list of months. `doc` keeps the
scheduled time, the start (`start_time`), the zone and the rule, `room` whether
LiveKit has a room. A rule is what `Rule` says, which is what the code stores: any
integer for an interval, any set of integers for days, words the server does not
know. A zone is a name; one outside `DOMAIN Offset` does not load, and each function
has its own answer to that, as in the code.

| `logic.go`, `convert.go`, `meeting.go` | Definitions |
|---|---|
| generateMeetingDBData4Booking, ...4Create, updateRepeatInfo | `Booked`, `Created`, `RepeatInfo` |
| IsTodayNeedMeeting, processIntervalType | the same names; `NeedMeeting` has the day of the meeting and that of the server |
| nextMeetingTimestamp, isValidDay | `AddUnits`, `ValidDay`, `NextDay`, `LoopResult`, `Following`, `NextMeetingTimestamp` |
| time.LoadLocation, time.Time.In | `Loads`, `Local`, `DayIn` |
| refreshNonRepeatMeeting, refreshRepeatMeeting | the same names |
| GetMeetings, JoinMeeting, EndMeeting, UpdateMeeting | actions, as far as time goes |
| LiveKit's empty-room timeout | `RoomEmpties` |

`LoopResult` is a recursive function, so that what it computes is what the loop
does. A step that does not lead to a later day is a loop that never ends
(`Never`), and so is a list of days without a day of the week. A call that gets into
such a loop does nothing more; calls on the same meeting go on. A step of months
back is a week at least, more than the way on to the next valid day. Zones are at
fixed distances: none changes its clocks. The cycles of `timeutil` are outside the
repository and modelled from how they are called.

### The processes and the code

`RpcProcess` is `startrpc.Start`: `main` is what the main goroutine does next,
`serve` and `metrics` are the two goroutines, `netDone` the channel of two places
they report on, `stop` the gRPC server's own state. `End` takes the port and the
calls in flight with it. `GatewayProcess` is `api.Start` and the admin API's
`Start`, which differ in one thing: the latter's router is nil if MongoDB or
Redis is not to be had (`newAdminGinRouter`), and `Start` does not ask
(`GwStartUnrouted`). Metrics that are on then panic in their goroutine, which
ends the process (`GwMetricsListen`); without them it serves, each request panics
inside net/http, which recovers and hangs up (`Drop`). `Gateway` says which of the
two is meant. The gateway's goroutines share the variable `err`, and the goroutines of
`startrpc` share `httpServer`, both without synchronisation. Nobody stores nil
in `err`, and `ErrServerClosed` comes only once the gateway shuts down, so a
failure before that is seen whoever wrote last; `httpServer` is modelled as
assigned or not yet.

| Code | Actions |
|---|---|
| listen, registry, service, register (`start.go`) | `Advance`, `StageFails` with the deferred calls in `Undo` |
| the two `go` statements and `signal.Notify` | `Spawn`, `Notify`; before it `SigTerm` kills |
| the goroutines | `MetricsStart`, `MetricsFails`, `ServeStart`, `ServeFails`, `Report` (a send on a closed channel panics) |
| the `select` | `TakeSignal`, `TakeNetDone` |
| `gracefulStopWithCtx`, `httpServer.Shutdown` | `StopInTime`, `CloseMetrics` |
| the deferred GracefulStop, registry client, listener | `DeferStop`, `DeferClient`, `DeferListener`, `Return` |
| the lease in etcd | `LeaseExpires` |
| gRPC | `Arrive`, `Accept`, `Finish`, `Drained` |
| nextMeetingTimestamp, in a call | `Loop`: the call is "looping", and only the end of its process ends it |
| `api/init.go`, `api/admin/init.go` | `GwStart` ... `GwReturn`; `GwLate` is the context of fifteen seconds made at start-up |
| `check-component/main.go` | `Check`, `EndRound` |

`Deployment` adds the gateway's handler: a request makes one call and replies
with whatever the call comes back with.

Definitions called "Mutant" in a comment are not part of the models: each is a
plausible mistake in the definition below it, and `PROJECT.json` names the
property that catches it.

## 3. Properties and runs

| Run | Properties | Instance | Distinct states |
|---|---|---|---|
| `lifecycle` | `TypeOK`, `CreatorsAgree`, `NumbersAreFresh`, `LifecycleSpec` | 2 workers, 2 users, 2 meetings, failures | 528 thousand |
| `authority` | `SettingsHaveAuthors`, `AuthorityChain` | 2 workers, 3 users, 1 meeting, failures | 1.3 million |
| `alone` | `RoomShowsDocument`, `OnlySelfOrHost` | 1 worker, every handler | 479 thousand |
| `returns` | `EveryCallReturns` | 2 workers, 2 meetings, one repeating with an endless rule, handlers with loops, failures | 240 thousand |
| `store` | `TypeOK`, `CopiesAreCurrent`, `OnlyCommitted`, `LatestData`, `PromiseSpec` | 3 workers, 1 meeting, 3 writes, with and without transactions, failures, removals that fail | 745 thousand |
| `directory` | `TypeOK`, `CreatedWhole`, `RefusedForChosen`, `StoredIsFound`, `RightUser`, `UsersStay` | 2 workers, 2 numbers, 2 chosen IDs, 1 account that is an ID, 2 requests of up to 2 rows, with and without transactions, failures | 1.7 million |
| `sessions` | `TypeOK`, `OneSession`, `LoginAgain` | 1 user, 3 devices, 3 seconds, failures | 562 thousand |
| `schedule` | `TypeOK`, `NextIsLeast`, `CompletedHasNoSession`, `HangsOnlyIfStuck`, `CompletedStays`, `RefreshLeavesSessions`, `EveryMeetingEnds` | 28 days of 2 ticks, 2 times, 17 rules, 2 zones | 66 thousand |
| `startup` | `TypeOK`, `StartedAfterCheck`, `CallsFinish`, `RequestsFinish`, `PanicsAreKnown`, `FailureEndsProcess`, `StopsWhenAsked`, `RequestsEnd` | 2 services, 2 rounds, 1 request, whose call may loop, 2 faults | 202 thousand |

### Meeting service

* `CreatorsAgree`: document, room metadata and all copies in flight name the
  creator the number was generated for, and metadata never go to the room of
  another meeting. Worth checking because UpdateMetaData goes by the number
  inside the metadata, and because UpdateMeeting rebuilds them from parts read
  at three different moments.
* `LifecycleSpec`: the documents move as `MeetingLifecycle` says; in particular
  a refresh or an end that works on an old listing never brings back a cancelled
  meeting or puts a settled one back "In-Progress".
* `NumbersAreFresh`: the unique index never refuses an insert.
* `SettingsHaveAuthors`: lost updates do happen (see below), invented settings
  do not, even when stale metadata cross from one room into the next.
* `AuthorityChain`: every grant is by the user himself (his own device), the
  creator, or somebody made host before.
* `RoomShowsDocument`, `OnlySelfOrHost`: what comments claim, true of one handler
  at a time.
* `EveryCallReturns`: the loops over rooms, meetings and participants end,
  whatever becomes of what they go over and whichever of their calls fails. Only
  the search for the next session, of a rule in `Endless`, keeps a handler for ever.

Two handlers at a time do break those of `alone`: `lost_setting` shows it for
one. In the same way a join may write back metadata from before an update, so
that the room keeps the old details, and two joins of one user both find him free.
A deputy host who disconnects stays host, because the callback that would give
the role back is never registered. An update that tested the status before the
meeting was ended (meeting.go:312) changes the details of a completed meeting;
`LifecycleSpec` shows that it leaves the status alone, so that such a meeting does
not come back. No run is about these: what goes wrong is said here.

Bounds. Two workers are enough for each hazard listed: every one is a race of
two handlers, or of a handler and clients, which are not bounded. `authority`
has one meeting because its properties speak of one meeting at a time, and
handlers of different meetings share only the number counter and the room
listing; `lifecycle` and `returns` have two. `MaxMeetings` bounds the counter: a
handler that finds none left gives up. Each run has the requests its question
is about; `alone` has all operations. Symmetry permutes workers (in the other
modules devices, too), which are interchangeable in `Init` and `Next`, and is
not used with liveness. `alone` has a `VIEW` that leaves out the history
variables; its properties do not read them, and no action's guard does.

Fairness. `FairSpec` has weak fairness of each worker's `Step`: a goroutine that
can run does run, and a call to another process returns. There is no step to
leave "search" by, so fairness does not end it. Nothing is assumed of
clients, LiveKit or the arrival of requests.

### Storage

* `CopiesAreCurrent`: no reader, however slow, leaves an old document in Redis
  for twelve hours. What keeps it out is that a writer removes the lock too. Old
  copies are those of records that are being written or were abandoned, and the
  next writer mends them.
* `LatestData`: a read that starts after a write is through sees it.
* `OnlyCommitted`: nothing that may still be rolled back is cached or answered.
* `PromiseSpec`: all of it together is a regular store (`RegularStore`).

`CopiesAreCurrent` and `LatestData` speak of a MongoDB without transactions: with
them the copy is removed before the commit, a reader in between caches the old
document, and it stays. A writer whose removal fails is told of a success that
later reads may not count on. Neither contradicts anything written. Three
workers are two writers and a reader, or a writer and two readers who follow
each other on one lock; three writes are a creation, an update and a deletion
or a second creation after it. Records do not meet unless their keys are equal,
which `mixed_names` is about.

### Users

* `CreatedWhole`: a request that is told of success has all its users stored.
  One that is not leaves its first rows and no others, so that a file can be
  resumed behind them; under transactions all or none, and none if it was
  refused.
* `RefusedForChosen`: "external guarantees that the userID is not repeated" is
  true of the counter, whatever fails in between: an insert is refused only for
  an ID that a caller of UserRegister chose.
* `UsersStay`: whoever comes later, or at the same time, with an ID that is taken
  changes nothing.
* `StoredIsFound`: who was stored when a lookup began is found by it. Copies are
  struck by ID only and before the commit, so all of this rests on getCache not
  remembering that somebody was not found.
* `RightUser`: an answer without error has, for every name asked for, a stored user
  who has that name as his ID or his account. It cannot say in the sense asked
  for: the two share one copy, and who comes first fills it.

A request of two rows has a first and a last; two requests race for an ID, or
one follows the other. The second number of the counter may be chosen by a
caller, too, so that an import is refused at its first row or at its second.
Lookups ask for both numbers at once, or for the account, which is spelt like the
second number: an imported user, or one registered under it, may leave his copy
for a lookup of the other. Symmetry permutes the workers.

### Sessions

* `OneSession`: one device at most is let in, whatever logs in and out at once.
* `LoginAgain`: who was told "please login again", or has logged out, is not let
  in before he has; no login on its way meanwhile revives his token.

Three devices allow a login, one that overtakes it and a logout in between.
`EntryLife` (12 hours in the code) is shorter than `TokenLife` (days), and both
end within `MaxTime`. One user, since entries of users do not meet.

### Schedule

* `NextIsLeast`: the next session nextMeetingTimestamp steps to is the first of the
  meeting's later sessions (`IsSession`): the days of the week its rule names or, if
  it names none, the days that are said yes to by IsTodayNeedMeeting on a server in
  the meeting's own zone. The two halves are written apart.
* `CompletedHasNoSession`, `CompletedStays`: no meeting is completed that has a
  session to come, and none comes back, however late EndMeeting is called.
* `RefreshLeavesSessions`: looking at the list closes no room of a running
  session the refresh sees (`SeesSession`). It does not see one that began yesterday
  and goes on after midnight, one on a weekday a custom rule names, nor one of a
  WeekDay rule when the server has weekend already, or still; of these it closes
  the room of the last one only. A meeting that was moved, whose end date is over
  while its session runs, or whose zone does not load, is closed, too.
* `HangsOnlyIfStuck`: the search ends for all rules but custom ones that do not get
  on (`Stuck`): without a unit, with an interval of 0 or below, or with days of
  which none is a day of the week.
* `EveryMeetingEnds`: what has an end leaves the list, if time passes and
  somebody looks at the list again and again (the fairness of `Spec`; nothing in
  the server itself looks). A meeting that does not repeat and whose zone does not
  load has none (`Ending`).

Excluded, and named in the properties, because the code does go wrong there
without contradicting a text:

* a zone that does not load. The refresh then completes a meeting that repeats with
  all its sessions to come, since there is none today and no next one, and never
  one that does not repeat;
* a meeting that does not repeat and was moved (`Moved`): start_time is never
  updated, so the refresh completes it by its old time;
* days a month may not have: a month added to the 31st slides to another day, and
  stays there;
* custom rules that name weekdays, which IsTodayNeedMeeting compares with the day
  of the month: no session is lost by it, but GetMeetings completes the meeting
  during its last session, and closes the room; where they are combined with
  weeks or months the two halves mean different days;
* repeat types the server does not know, which have no session and are completed
  by their end date, or stay on the list;
* `Stuck` rules, whose search loops for ever in EndMeeting of that meeting and in
  GetMeetings of every user. What this does to the other meetings and to the
  process is in `MeetingServer` and `Deployment`.

RepeatTimes is stored and shown, but nothing acts on it. JoinMeeting opens a room
for a completed meeting whose repeat type is set.

The calendar has months of 8 to 11 days so that weeks, weekends and months of
unequal length meet within a month of ticks. It goes on after the last tick with
room for a step of every rule (`CalendarAssumption`), as `time.Time` does, and
`NextIsLeast` compares the search with all the days it has left. A tick is a
moment after the second it names, since `time.Now` has fractions and stored times
do not. Meetings are booked for a Saturday, or for a day the next month does not
have, so late that the session ends after midnight. The server is a tick ahead of the
meeting's zone, so that in the second half of each of its days the server has the
next day already, and weekend on Friday evening; a meeting may also have a zone that does not load, or
be moved from one zone to another. The rules are every type, some with an
end date, custom rules of each unit and with days, and the ones no client should
send: no interval, a negative one, an eighth day, a type the server does not know. The last tick is a bound of the model, where time stops:
`CHECK_DEADLOCK FALSE`.

### Processes

* `StartedAfterCheck`: each service has answered before anything starts, though
  not all in one round.
* `CallsFinish`: when `Start` of an RPC service returns, accepted calls have
  ended. The limit of fifteen seconds has no effect: the deferred GracefulStop
  waits without one.
* `RequestsFinish`: a gateway that reports no error has replied to everyone. Its
  fifteen seconds count from start-up, so one that is stopped later cuts what is
  open and reports an error. The administrators' gateway without a router is the
  exception: it replies to nobody, and reports nothing.
* `PanicsAreKnown`: an RPC process panics for two reasons only. On SIGTERM it
  shuts down a metrics server that is nil if metrics are off or their goroutine
  has not run; and a second failure is sent on a channel the first one closed.
  A gateway panics if it has metrics and no router, or if both its servers fail.
* `FailureEndsProcess`, `StopsWhenAsked`: a process does not live on without a
  server, and ends when told to, unless one of its calls loops: the deferred
  GracefulStop waits for all of them, without a limit. Both rest on every other call
  ending. A gateway ends even while it waits for a call that loops. Without a router
  it ends only if metrics are on.
* `RequestsEnd`: no request hangs, whatever dies, unless its call loops: the gateway
  sets no deadline.

`MaxFaults` is 2: every pair of failures and signals, at any two moments. One
request: requests do not meet, except that a process waits for all. `MaxRetry`
(180) is 2, which has a first and a last round. `Gateway` is the administrators',
which does all the other does; that its handlers call a service stands for the
calls of the other. Fairness: goroutines are
scheduled, the main one and the others separately, time passes, and a call that
runs ends or gets into the loop, which is not the end of it. That calls end
outside of the search is what `returns` shows of the meeting service's handlers with
loops. There is no fairness of failures, signals, leases or clients. Both processes really
end: `CHECK_DEADLOCK FALSE`.

### Runs that end in a violation

| Run | Property | What happens |
|---|---|---|
| `lost_setting` | `OnlySelfOrHost` | a join writes back metadata from before another user's setting and undoes it |
| `same_second` | `OneSession` | two logins in one second sign equal tokens, and both devices are let in |
| `mixed_names` | `OwnData` | a user whose ID is a meeting's number shares its cache entry: each may be answered with the other's document |

## 4. Proofs

The theorems hold for any finite or infinite sets of users, workers, devices,
infos, records and requests, any bounds, with and without failures unless they
say so. Assumptions are the named `ASSUME`s on the constants: flags are Booleans,
requests have the shape of requests, and `None` and the like are not values of
other kinds.

Meeting service. `TypeOK` is inductive by itself (`TypeCorrect`): it includes
`Prepared`, which says what a handler has read by the time it reaches each step.
`CreatorsAgree` and `NumbersAreFresh` are not inductive. `Inv` adds `Numbered`:
numbers above the counter are unused, and each number for which no document is
stored yet is held by one handler at most, whose document is that of the number's
owner. `SettingsHaveAuthors` rests on `CreatorsAgree`, because a fresh copy of
metadata makes the document's creator the host. There is one lemma for the many
steps that neither make a meeting nor grant a setting (`QuietStep`), one for
steps that copy (`CopyStep`), and one for each of the steps that do more.
`ServerImplementsLifecycle` maps each step to a step of `MeetingLifecycle` or a
stutter; it needs `Inv` for the number that is fresh and the creator that agrees.

One handler at a time. The theorems of `MeetingAloneProofs` assume `Alone`, that
there are no two workers; clients and LiveKit still act at any moment.
`CopiesCurrent` says of each step of each handler that what it has read is what
the store holds, except that a client may have emptied the room meanwhile. From
this follows `OnlySelfOrHost`, whatever fails.
`RoomShowsDocument` has `DetailsAgree` besides, and assumes that no call fails: a
failed write of the metadata after one of the document leaves the two apart.

Storage. `StoreTypeCorrect` needs nothing. `ReadsAreLatest` is about
`LatestData`, with failures and removals that fail: `FreshInv` says that without
transactions neither document nor copy is older than what a writer was told of,
and that the owner of a lock has read nothing older (`Sound`). Without the latter
an old document could be filled in after a writer had removed the copy.
`CopiesStayCurrent` has `CurrentInv`: what the owner of a lock has read is the
document, unless a writer is about to remove the lock or has left it behind.
`OnlyCommittedSeen` has `SeenInv`: copies and what handlers hold are versions that
were committed, and what an open transaction has written is with its writer only.
`StoreKeepsPromise` maps each step to one of `RegularStore` or a stutter, with all
of these: what a write does to copies and locks is a stutter, and what a read
ends with is a version `RegularStore` allows it. All but the first assume `NamesDiffer`, that different records have different
keys; `mixed_names` shows what happens without.

Users. The invariant has three layers. `IdsInv`: a number up to `lastID` was given
to one request, at one place, and the requests' IDs are those of their handlers'
rows. `UsersInv`: the rows of a running creation that are stored are those it has
passed (`Progress`); what open transactions hold is disjoint, and stored by nobody
(`Waiting`, `Held`); who is stored came from a request (`Origin`); and of
each request the first rows are stored, up to one of them (`Whole`). `CreatedCorrect`
and `StoredStays` follow; `RefusedCorrect` adds whose ID each refused request met
(`Blamed`). `LookupInv`: every copy, however old, is of a stored user under a name
of his (`TrueCopies`), since users never change, and a lookup has found all users
it has passed (`Looking`). Nothing is assumed of names but that `None` is none. `StoredFound` and `AnswersCorrect` follow.

Sessions. `SessionTypeCorrect` needs nothing. `OneSessionOnly` and `ToldToLogIn`
assume that no user logs in twice in one second. `SessionInv` says that tokens in
hand and on their way are signed and all different (`TokensDiffer`), that who is
logging out has his own token for it and has removed it from the entry by the
time it is answered (`LeavingInv`), and that the entry does not hold the token of
a device that was told to log in again (`ToldInv`).

Schedule. The theorems hold for any calendar whose months have a week or more,
any times, zones and rules. What the loop of nextMeetingTimestamp computes is a
recursive function over the days before the clock. The library's induction
theorems cannot be used, so the least number principle takes their place: of the
days for which a claim fails, the last one before the clock has a successor for
which it holds. In this way it is proved that the function exists (`Solvable`),
that the loop ends behind the clock but for a rule that does not get on
(`LoopBounds`: `SearchEnds`), that what it finds is no earlier the later it is
asked (`LoopMonotone`), and that it passes none of the rule's days and lands on
one of them (`OnPath`, `PathStep`, `LoopLands`). The last is the agreement of the
two halves (`SearchFindsNext`): for a regular rule the days the loop steps on are
the sessions in the meeting's zone. That a completed meeting stays so rests on
`CompletedGone`, the inductive invariant, that it has no next session, and on the
search being monotone (`CompletedForGood`); with both halves together no session
is lost (`NoSessionLost`) and the refresh closes no room too soon
(`RefreshSparesSessions`).

Processes. `CheckInv`: a round without a failure has an answer of every service it
came to, and before the check has passed no process has done anything. `RpcInv`
and `GwInv`: every failure that was reported is in its channel, or was the first
and has closed it (`ReportsCounted`, `GwReportsCounted`), so that only a second one
can meet a closed channel; the gRPC server runs while calls do (`RunsServed`), and after
it was drained or undone none are left (`DrainedQuiet`, `UndoneQuiet`); requests
are cut only by a gateway that has ended with an error, or has no router
(`UpKeepsRequests`), and without one nobody gets a reply (`Unrouted`). The five
safety properties follow.

All invariants and action properties of passing runs are proved in this way, and
both refinements. Only model-checked is liveness: `EveryCallReturns`,
`EveryMeetingEnds`, `FailureEndsProcess`, `StopsWhenAsked`, `RequestsEnd`. It is
beyond the prover, which knows nothing of fairness and ENABLED.

## 5. Not modelled

* ModifyMeetingParticipantNickName: one read and one write of a participant's
  metadata that nothing else reads.
* OperateRoomAllStream: its calls do nothing in the adapter, so it changes no
  state and only sends a notification. The list of users it notifies is meant to
  leave out those that failed; the code deletes from it only who is not there
  (notification.go:67). Since nobody ever fails, nothing reaches that.
* Notifications (`notification.go`): sent after the state has changed, received by
  clients only, and an error when they fail, which is `Fail`.
* Room callbacks: never registered. GetMeeting, GetPersonalMeetingSettings: they
  only read. UpdateUserPassword: empty.
* The choice of a LiveKit address, participant metadata and data messages of the
  adapter.
* That callers in one process share one fetch of a copy: they get what one of
  them reads.
* Reading a spreadsheet (`xlsx.go`; `xlsx/utils.go` is not called) and hashing
  passwords: data, no state.
* Commands, configuration, metrics (`cmd`, `config`, `ginprometheus`,
  `prommetrics`), RPC clients and error codes: they keep no state the rest reads.
  The metrics middleware is added to the router after its routes, and so never
  called for them; what gin does then is outside the repository.

## 6. Plan

What the runs check is proved but for liveness. What can still be said and proved:

1. Abstract specifications of users and sessions, as `RegularStore` is one of the
   storage: a directory to which users are added row by row and never changed, and
   one current token of each user. Then that `UserDirectory` and `UserSession`
   implement them; the invariants for it are there.
2. The safety half of liveness: what each step of a handler with a loop makes
   smaller (`todo`, `left`, `plan`), what of a process that is ending is still to
   be undone, and that no step puts it back.
3. One handler at a time as a consequence for several: which of two handlers'
   requests leave `CopiesCurrent` alone, so that `RoomShowsDocument` and
   `OnlySelfOrHost` hold for more than one worker.
4. With transactions: how far behind the document a copy may be, and until when.
