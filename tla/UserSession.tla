----------------------------- MODULE UserSession -----------------------------
(***************************************************************************)
(* Sessions of users (internal/rpc/user, internal/api/mw, pkg/common/token *)
(* and the token entries of storage/cache/redis/user.go).                  *)
(*                                                                         *)
(* A login signs a token that names the user and the second it was issued  *)
(* in, and leaves it in the one entry Redis has for the user; whatever was *)
(* there before is no longer good.  The gateway lets a request through if  *)
(* its token is the one in the entry.  Logins, logouts and requests of     *)
(* several devices interleave.                                             *)
(*                                                                         *)
(* Clients name themselves in their requests.  Passwords are right: a wrong *)
(* one changes nothing.                                                    *)
(***************************************************************************)
EXTENDS Integers

CONSTANTS
  Users,       \* accounts
  Devices,     \* clients; each waits for one answer at a time
  None,        \* no entry, no token
  KickOff,     \* KickOffMeetingMsg, in place of a token
  MaxTime,     \* bound on the clock
  EntryLife,   \* how long an entry in Redis lives
  TokenLife,   \* how long a token is valid by its own word
  SameSecond,  \* whether a user may log in twice within one second
  Failures     \* whether calls may fail and answers be lost

VARIABLES
  clock,   \* in seconds, as tokens have it
  entry,   \* USER_TOKEN: in Redis
  held,    \* the token each device was given last
  call,    \* what each device waits for
  issued,  \* history: the tokens signed so far
  told     \* history: devices that have to log in again

vars == <<clock, entry, held, call, issued, told>>

Times == 0 .. MaxTime

ASSUME TimeAssumption == MaxTime \in Nat /\ EntryLife \in Nat /\ TokenLife \in Nat
ASSUME FlagsAssumption == SameSecond \in BOOLEAN /\ Failures \in BOOLEAN

\* claims.  The times in a token have a resolution of one second.
Token == [user : Users, issued : Times]

Entry == [value : Token \cup {KickOff}, until : 0 .. MaxTime + EntryLife]

ASSUME NoneAssumption ==
  /\ None \notin Token \cup Entry \cup {KickOff}
  /\ KickOff \notin Token

IdleCall == [at |-> "idle", op |-> "none", user |-> None, token |-> None]

Return(d) == call' = [call EXCEPT ![d] = IdleCall]

Goto(d, label) == call' = [call EXCEPT ![d].at = label]

\* CacheUserToken
SetEntry(u, value) ==
  entry' = [entry EXCEPT ![u] = [value |-> value, until |-> clock + EntryLife]]

-----------------------------------------------------------------------------
(* UserLogin, and AdminLogin, which shares the entries of users. *)

\* Mutant: the entry is written before there is a token.
StoredUnsigned(op) == "store"

\* Account and password are right.
FirstOfLogin(op) == "sign"

BeginLogin(d, op, u) ==
  /\ call[d].at = "idle"
  /\ call' = [call EXCEPT ![d] = [at |-> FirstOfLogin(op), op |-> op, user |-> u, token |-> None]]
  /\ UNCHANGED <<clock, entry, held, issued, told>>

\* CreateToken
Signed(u) == [user |-> u, issued |-> clock]

SignToken(d) ==
  /\ call[d].at = "sign"
  /\ LET t == Signed(call[d].user) IN
       /\ SameSecond \/ t \notin issued
       /\ issued' = issued \cup {t}
       /\ call' = [call EXCEPT ![d].at = "store", ![d].token = t]
  /\ UNCHANGED <<clock, entry, held, told>>

StoreToken(d) ==
  /\ call[d].at = "store"
  /\ SetEntry(call[d].user, call[d].token)
  /\ Goto(d, IF call[d].op = "AdminLogin" THEN "answer" ELSE "clean")
  /\ UNCHANGED <<clock, held, issued, told>>

\* CleanPreviousMeetings, after a login and after a logout.  If it fails, so
\* does the login, but its token stays in the entry.
Clean(d) ==
  /\ call[d].at = "clean"
  /\ Goto(d, "answer") \/ (Failures /\ Return(d))
  /\ UNCHANGED <<clock, entry, held, issued, told>>

\* The device keeps the token it is given, even when it logs out.
Answer(d) ==
  /\ call[d].at = "answer"
  /\ IF call[d].op = "UserLogout"
     THEN UNCHANGED held /\ told' = told \cup {d}
     ELSE held' = [held EXCEPT ![d] = call[d].token] /\ told' = told \ {d}
  /\ Return(d)
  /\ UNCHANGED <<clock, entry, issued>>

-----------------------------------------------------------------------------
(* Requests with a token. *)

\* jwt.ParseWithClaims refuses a token whose own time is over.
Expired(t) == clock >= t.issued + TokenLife

\* Mutant: any token of the user will do while there is one.
OfSameUser(value, t) == value # KickOff /\ value.user = t.user

\* isValidToken and ParseToken compare the two strings.
Matches(value, t) == value = t

\* The RPC by which the gateway learns what the entry holds.
GetUserToken(u) == entry[u]

\* isValidToken of the gateway, and ParseToken of the user service.
Verdict(t) ==
  LET e == GetUserToken(t.user) IN
  CASE e = None                           -> "not found"
    [] e # None /\ Matches(e.value, t)   -> "valid"
    [] e # None /\ ~ Matches(e.value, t) -> "login again"

\* parseToken, before the entry is asked for.
BeginRequest(d, op) ==
  /\ call[d].at = "idle"
  /\ held[d] # None
  /\ ~ Expired(held[d])
  /\ call' = [call EXCEPT ![d] = [at |-> "check", op |-> op, user |-> held[d].user,
                                  token |-> held[d]]]
  /\ UNCHANGED <<clock, entry, held, issued, told>>

\* GetUserToken and isValidToken.  What follows a valid token in other requests
\* is not about sessions.
CheckToken(d) ==
  /\ call[d].at = "check"
  /\ LET verdict == Verdict(call[d].token) IN
       /\ told' = IF verdict = "login again" THEN told \cup {d} ELSE told
       /\ IF verdict = "valid" /\ call[d].op = "UserLogout"
          THEN Goto(d, "clear") ELSE Return(d)
  /\ UNCHANGED <<clock, entry, held, issued>>

\* Mutant: the entry stays.
Remaining(u) == entry

Removed(u) == [entry EXCEPT ![u] = None]

\* UserLogout deletes the entry, whosever token is in it by now.
ClearToken(d) ==
  /\ call[d].at = "clear"
  /\ entry' = Removed(call[d].user)
  /\ Goto(d, "clean")
  /\ UNCHANGED <<clock, held, issued, told>>

\* An answer or a call is lost, or a server stops.
Fail(d) ==
  /\ Failures
  /\ call[d].at # "idle"
  /\ Return(d)
  /\ UNCHANGED <<clock, entry, held, issued, told>>

-----------------------------------------------------------------------------
\* The RPC ClearUserToken.
ClearUserToken(u) ==
  /\ SetEntry(u, KickOff)
  /\ UNCHANGED <<clock, held, call, issued, told>>

\* A second passes; Redis drops what is past its time.
Tick ==
  /\ clock < MaxTime
  /\ clock' = clock + 1
  /\ entry' = [u \in Users |->
       IF entry[u] # None /\ entry[u].until <= clock' THEN None ELSE entry[u]]
  /\ UNCHANGED <<held, call, issued, told>>

Init ==
  /\ clock = 0
  /\ entry = [u \in Users |-> None]
  /\ held = [d \in Devices |-> None]
  /\ call = [d \in Devices |-> IdleCall]
  /\ issued = {}
  /\ told = {}

Step(d) ==
  \/ SignToken(d) \/ StoreToken(d) \/ Clean(d) \/ Answer(d)
  \/ CheckToken(d) \/ ClearToken(d)
  \/ Fail(d)

Next ==
  \/ \E d \in Devices :
       \/ \E u \in Users, op \in {"UserLogin", "AdminLogin"} : BeginLogin(d, op, u)
       \/ \E op \in {"UserLogout", "Other"} : BeginRequest(d, op)
       \/ Step(d)
  \/ \E u \in Users : ClearUserToken(u)
  \/ Tick

Spec == Init /\ [][Next]_vars

-----------------------------------------------------------------------------
Logins == {"UserLogin", "AdminLogin"}

Call == [at : {"sign", "store", "clean", "answer", "check", "clear"},
         op : Logins \cup {"UserLogout", "Other"},
         user : Users, token : Token \cup {None}]

Prepared(c) ==
  /\ c.op \in Logins => c.at \in {"sign", "store", "clean", "answer"}
  /\ c.op = "UserLogout" => c.at \in {"check", "clear", "clean", "answer"}
  /\ c.op = "Other" => c.at = "check"
  /\ c.at # "sign" => c.token # None
  /\ c.token # None => c.token.user = c.user

\* The type invariant: an entry holds a token of its own user, and no handler
\* stores or answers a token it has not signed.
TypeOK ==
  /\ clock \in Times
  /\ entry \in [Users -> Entry \cup {None}]
  /\ \A u \in Users :
       entry[u] # None /\ entry[u].value # KickOff => entry[u].value.user = u
  /\ held \in [Devices -> Token \cup {None}]
  /\ call \in [Devices -> {IdleCall} \cup {c \in Call : Prepared(c)}]
  /\ issued \subseteq Token
  /\ told \subseteq Devices

\* The gateway would let the device through.
Accepted(d) ==
  /\ held[d] # None
  /\ ~ Expired(held[d])
  /\ Verdict(held[d]) = "valid"

\* "kick off meeting for login duplicated" (user.go:247, mw.go:65): a user has
\* one device that is let in, whatever devices log in and out at the same time.
OneSession ==
  \A d, e \in Devices :
    Accepted(d) /\ Accepted(e) /\ held[d].user = held[e].user => d = e

\* "please login again": a device that was told so, or has logged out, is not let
\* in before it has logged in again.  No login that was on its way meanwhile, of
\* this or another device, revives its token.
LoginAgain == \A d \in told : ~ Accepted(d)
=============================================================================
