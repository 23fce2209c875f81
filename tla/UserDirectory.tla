--------------------------- MODULE UserDirectory ---------------------------
(***************************************************************************)
(* Where users come from and how they are found.  The admin API imports    *)
(* the rows of a file, or registers one user, under IDs from a counter in  *)
(* Redis; the user service registers users under IDs of the caller's.      *)
(* Logins look users up by account, everybody else by ID, and both through *)
(* copies in Redis under one prefix.                                       *)
(*                                                                         *)
(* A user is never changed once there, so copies cannot grow old; what can *)
(* go wrong is an insert of several users that stops halfway, two requests *)
(* that want one ID, and a lookup that misses a user.  Who may fill a copy *)
(* is MeetingStore's subject: here a reader fills it, or does not.         *)
(***************************************************************************)
EXTENDS Integers, Sequences, FiniteSets, Functions

CONSTANTS
  Workers,      \* handlers that may run at the same time
  Numbered,     \* the IDs the counter gives, in their order
  Chosen,       \* the IDs callers of UserRegister choose
  Accounts,
  Lookups,      \* the sets of IDs one call may ask for
  None,         \* no user, no account
  MaxRows,      \* bound on the users of one request
  MaxRequests   \* bound on the requests to create users

VARIABLES
  transactions, \* whether MongoDB runs transactions
  users,        \* the committed documents, by ID
  lastID,       \* the counter in Redis
  cache,        \* the copies in Redis, each with its name
  call,         \* what each worker is doing
  requests      \* history: the requests to create users, and how they ended

vars == <<transactions, users, lastID, cache, call, requests>>

IDs == Range(Numbered) \cup Chosen

\* An ID and an account have one key, getUserInfoKey, and nothing in the code
\* sees to it that no account looks like an ID.
Names == IDs \cup Accounts

ASSUME NumberedAssumption == Numbered \in Seq(IDs) /\ IsInjective(Numbered)
ASSUME NamesAssumption == None \notin Names
ASSUME LookupsAssumption == Lookups \subseteq SUBSET IDs
ASSUME BoundsAssumption == MaxRows \in Nat \ {0} /\ MaxRequests \in Nat

\* number is history: the request that created the user.
User == [id : IDs, account : Accounts \cup {None}, number : 1 .. MaxRequests]

\* No value of that shape stands for none.
ASSUME NoneAssumption == None \notin User

\* A user that is to be created; an import finds the ID later.
Row == [id : IDs \cup {None}, account : Accounts \cup {None}]

Rows == UNION {[1 .. n -> Row] : n \in 1 .. MaxRows}

IdleCall == [at |-> "idle", op |-> "none", number |-> 0, rows |-> <<>>, next |-> 0,
             asked |-> {}, name |-> None, found |-> {}, sure |-> FALSE]

Goto(w, label) == call' = [call EXCEPT ![w].at = label]

Return(w) == call' = [call EXCEPT ![w] = IdleCall]

\* The request of w ends, with success or not.
End(w, outcome) ==
  /\ requests' = [requests EXCEPT ![call[w].number].outcome = outcome]
  /\ Return(w)

-----------------------------------------------------------------------------
(* UserRegister, RegisterUser, ImportUserByJson, ImportUserByXlsx. *)

BeginCreate(w, op, label, rows) ==
  /\ call[w].at = "idle"
  /\ Len(requests) < MaxRequests
  /\ requests' = Append(requests, [ids |-> [i \in DOMAIN rows |-> rows[i].id],
                                   outcome |-> "open"])
  /\ call' = [call EXCEPT ![w] =
       [IdleCall EXCEPT !.at = label, !.op = op, !.rows = rows,
                        !.number = Len(requests) + 1]]
  /\ UNCHANGED <<transactions, users, lastID, cache>>

\* UserRegister refuses no users, and one ID twice; it knows of no account.
UserRegister(w, ids) ==
  /\ IsInjective(ids)
  /\ BeginCreate(w, "Register", "insert",
                 [i \in DOMAIN ids |-> [id |-> ids[i], account |-> None]])

\* RegisterUser is an import of one row.  An empty file ends before storage.
Import(w, accounts) ==
  BeginCreate(w, "Import", "number",
              [i \in DOMAIN accounts |-> [id |-> None, account |-> accounts[i]]])

\* Mutant: numbers by the count of users, not by a counter of their own.
NextByCount(counter) == Cardinality({id \in IDs : users[id] # None}) + 1

\* INCR answers with the value it leaves.
NextNumber(counter) == counter + 1

\* One call per row, before anything is stored.  That no number is left, which
\* only the bound makes, is an error as one of Redis would be.
GenerateUserID(w) ==
  /\ call[w].at = "number"
  /\ LET n == NextNumber(lastID)
         i == call[w].next + 1
         last == i = Len(call[w].rows)
     IN  IF n <= Len(Numbered)
         THEN /\ lastID' = n
              /\ requests' = [requests EXCEPT ![call[w].number].ids[i] = Numbered[n]]
              /\ call' = [call EXCEPT ![w].rows[i].id = Numbered[n],
                   ![w].next = IF last THEN 0 ELSE i,
                   ![w].at = IF last THEN "insert" ELSE "number"]
         ELSE End(w, "broken") /\ UNCHANGED lastID
  /\ UNCHANGED <<transactions, users, cache>>

UserOf(w, i) ==
  [id |-> call[w].rows[i].id, account |-> call[w].rows[i].account,
   number |-> call[w].number]

\* Mutant: the function runs outside the transaction.
NotInTransaction == FALSE

\* Create hands its function to tx.Transaction.
InTransaction == transactions

\* What the open transaction of w has inserted.
Held(w) ==
  IF InTransaction /\ call[w].at \in {"insert", "tag", "commit"}
  THEN {call[w].rows[i].id : i \in 1 .. call[w].next}
  ELSE {}

\* Mutant: user_id has an index, but not a unique one.
NotTaken(id) == FALSE

Taken(id) == users[id] # None

\* InsertMany, one row after the other.  It stops at an ID that is taken: a
\* transaction is rolled back, without one the rows before stay.  A transaction
\* that meets another with the same ID is run again (WithTransaction), or fails.
InsertRow(w) ==
  /\ call[w].at = "insert"
  /\ LET i == call[w].next + 1
         id == call[w].rows[i].id
         other == \E v \in Workers \ {w} : id \in Held(v)
     IN  \/ /\ ~ Taken(id)
            /\ ~ other
            /\ users' = IF InTransaction THEN users
                                         ELSE [users EXCEPT ![id] = UserOf(w, i)]
            /\ call' = [call EXCEPT ![w].next = i,
                 ![w].at = IF i = Len(call[w].rows) THEN "tag" ELSE "insert"]
            /\ UNCHANGED requests
         \/ Taken(id) /\ End(w, "refused") /\ UNCHANGED users
         \/ /\ other
            /\ call' = [call EXCEPT ![w].next = 0]
            /\ UNCHANGED <<users, requests>>
  /\ UNCHANGED <<transactions, lastID, cache>>

\* DelUsersInfo and ExecDel, by ID only; a copy that cannot be removed stays.
Tag(w) ==
  /\ call[w].at = "tag"
  /\ \E ids \in SUBSET {call[w].rows[i].id : i \in DOMAIN call[w].rows} :
       cache' = {p \in cache : p.name \notin ids}
  /\ Goto(w, IF InTransaction THEN "commit" ELSE "created")
  /\ UNCHANGED <<transactions, users, lastID, requests>>

Commit(w) ==
  /\ call[w].at = "commit"
  /\ users' = [id \in IDs |->
       LET mine == {i \in DOMAIN call[w].rows : call[w].rows[i].id = id}
       IN  IF mine = {} THEN users[id] ELSE UserOf(w, CHOOSE i \in mine : TRUE)]
  /\ Goto(w, "created")
  /\ UNCHANGED <<transactions, lastID, cache, requests>>

Created(w) ==
  /\ call[w].at = "created"
  /\ End(w, "done")
  /\ UNCHANGED <<transactions, users, lastID, cache>>

-----------------------------------------------------------------------------
(* GetDesignateUsers and GetUserInfo by ID, UserLogin and AdminLogin by        *)
(* account.                                                                    *)

Stored == {users[id] : id \in {i \in IDs : users[i] # None}}

\* What Take and TakeByAccount may answer with: of several users with one
\* account, any.
Matches(op, name) ==
  {u \in Stored : name = IF op = "Find" THEN u.id ELSE u.account}

\* Those who have a name in one sense or the other.
Bearers(name) == Matches("Find", name) \cup Matches("Login", name)

\* sure is history: all that is asked for was stored when the lookup began.
BeginLookup(w, op, names) ==
  /\ call[w].at = "idle"
  /\ call' = [call EXCEPT ![w] =
       [IdleCall EXCEPT !.at = "look", !.op = op, !.asked = names,
                        !.sure = \A n \in names : Matches(op, n) # {}]]
  /\ UNCHANGED <<transactions, users, lastID, cache, requests>>

Left(w) == call[w].asked \ {p.name : p \in call[w].found}

\* getCache, of one name after the other (batchGetCache2).
Look(w) ==
  /\ call[w].at = "look"
  /\ \E n \in Left(w) :
       \/ \E p \in cache :
            /\ p.name = n
            /\ call' = [call EXCEPT ![w].found = @ \cup {p}]
       \/ /\ \A p \in cache : p.name # n
          /\ call' = [call EXCEPT ![w].at = "load", ![w].name = n]
  /\ UNCHANGED <<transactions, users, lastID, cache, requests>>

\* Mutant: that nobody was found is worth a copy too.
WorthAnyway(user) == TRUE

\* A user that is not found is an error to getCache, and leaves no copy.
Worth(user) == user # None

Load(w) ==
  /\ call[w].at = "load"
  /\ \E u \in Stored \cup {None} :
       /\ IF u = None THEN Matches(call[w].op, call[w].name) = {}
                      ELSE u \in Matches(call[w].op, call[w].name)
       /\ call' = [call EXCEPT ![w].at = IF Worth(u) THEN "fill" ELSE "look",
            ![w].found = @ \cup {[name |-> call[w].name, user |-> u]}]
  /\ UNCHANGED <<transactions, users, lastID, cache, requests>>

\* Mutant: somebody the batch has found before is put under the name.
CopyOfAnother(w) ==
  {[name |-> call[w].name, user |-> p.user] :
     p \in {q \in call[w].found : q.user # None}}

\* What goes under the name: who was loaded for it.
CopyOf(w) == {p \in call[w].found : p.name = call[w].name}

\* The copy, unless the lock of the entry was lost meanwhile.
Fill(w) ==
  /\ call[w].at = "fill"
  /\ \/ cache' = {p \in cache : p.name # call[w].name} \cup CopyOf(w)
     \/ UNCHANGED cache
  /\ Goto(w, "look")
  /\ UNCHANGED <<transactions, users, lastID, requests>>

Answered(w) == call[w].at = "look" /\ Left(w) = {}

\* FindWithError compares the lengths: a name without a user is an error.
Complete(found) == \A p \in found : p.user # None

AnswerLookup(w) ==
  /\ Answered(w)
  /\ Return(w)
  /\ UNCHANGED <<transactions, users, lastID, cache, requests>>

-----------------------------------------------------------------------------
\* A call fails, or the server stops; MongoDB rolls an open transaction back.
Fail(w) ==
  /\ call[w].at # "idle"
  /\ IF call[w].number = 0 THEN Return(w) /\ UNCHANGED requests
                           ELSE End(w, "broken")
  /\ UNCHANGED <<transactions, users, lastID, cache>>

\* A copy is good for twelve hours.
CopyExpires(p) ==
  /\ p \in cache
  /\ cache' = cache \ {p}
  /\ UNCHANGED <<transactions, users, lastID, call, requests>>

\* Whether MongoDB runs transactions is found out when the service starts.
Init ==
  /\ transactions \in BOOLEAN
  /\ users = [id \in IDs |-> None]
  /\ lastID = 0
  /\ cache = {}
  /\ call = [w \in Workers |-> IdleCall]
  /\ requests = <<>>

Begin(w) ==
  \/ \E n \in 1 .. MaxRows :
       \/ \E ids \in [1 .. n -> Chosen] : UserRegister(w, ids)
       \/ \E accounts \in [1 .. n -> Accounts] : Import(w, accounts)
  \/ \E ids \in Lookups : BeginLookup(w, "Find", ids)
  \/ \E a \in Accounts : BeginLookup(w, "Login", {a})

Step(w) ==
  \/ GenerateUserID(w) \/ InsertRow(w) \/ Tag(w) \/ Commit(w) \/ Created(w)
  \/ Look(w) \/ Load(w) \/ Fill(w) \/ AnswerLookup(w)
  \/ Fail(w)

Next ==
  \/ \E w \in Workers : Begin(w) \/ Step(w)
  \/ \E p \in cache : CopyExpires(p)

Spec == Init /\ [][Next]_vars

-----------------------------------------------------------------------------
Found == [name : Names, user : User \cup {None}]

Creation == [at : {"number", "insert", "tag", "commit", "created"},
             op : {"Register", "Import"}, number : 1 .. MaxRequests, rows : Rows,
             next : 0 .. MaxRows, asked : {{}}, name : {None}, found : {{}},
             sure : {FALSE}]

Lookup == [at : {"look", "load", "fill"}, op : {"Find", "Login"}, number : {0},
           rows : {<<>>}, next : {0}, asked : SUBSET Names,
           name : Names \cup {None}, found : SUBSET Found, sure : BOOLEAN]

\* Rows are inserted with their IDs; a name is looked up before it is found.
Prepared(c) ==
  /\ c \in Creation => c.next <= Len(c.rows)
  /\ c \in Creation /\ c.at # "number" => \A i \in DOMAIN c.rows : c.rows[i].id # None
  /\ c.at \in {"number", "insert"} => c.next < Len(c.rows)
  /\ c.at \in {"load", "fill"} => c.name \in c.asked
  /\ c.at = "fill" => \E p \in c.found : p.name = c.name

\* The type invariant.  No copy says that there is no user.
TypeOK ==
  /\ transactions \in BOOLEAN
  /\ users \in [IDs -> User \cup {None}]
  /\ lastID \in 0 .. Len(Numbered)
  /\ cache \subseteq [name : Names, user : User]
  /\ call \in [Workers -> {IdleCall} \cup {c \in Creation \cup Lookup : Prepared(c)}]
  /\ requests \in Seq([ids : Seq(IDs \cup {None}),
                       outcome : {"open", "done", "refused", "broken"}])

\* The rows of request k that are stored.
StoredRows(k) ==
  {i \in DOMAIN requests[k].ids :
     \E u \in Stored : u.id = requests[k].ids[i] /\ u.number = k}

\* A request that is told of success has all its users stored.  One that is not
\* leaves at most its first rows, so that the file can be resumed behind them;
\* under transactions all or none, and none if an ID was taken (Create,
\* controller/user.go:72).
CreatedWhole ==
  \A k \in DOMAIN requests :
    LET stored == StoredRows(k)
        all == DOMAIN requests[k].ids
    IN  /\ stored = 1 .. Cardinality(stored)
        /\ requests[k].outcome = "done" => stored = all
        /\ transactions => stored \in {{}, all}
        /\ transactions /\ requests[k].outcome = "refused" => stored = {}

\* "external guarantees that the userID is not repeated and does not exist in
\* the storage" (controller/user.go:31): the IDs of the counter keep to that
\* among themselves, whatever fails; a request is refused only for an ID that
\* somebody chose.
RefusedForChosen ==
  \A k \in DOMAIN requests : requests[k].outcome = "refused" =>
    \E i \in DOMAIN requests[k].ids :
      /\ requests[k].ids[i] \in Chosen
      /\ users[requests[k].ids[i]] # None
      /\ i \notin StoredRows(k)

\* A user that is stored stays as it is, whoever comes with the same ID later or
\* at the same time (the unique index of NewUserMongo).
UsersStay ==
  [][\A id \in IDs : users[id] # None => users'[id] = users[id]]_vars

\* "return an error if the userID is not found" (controller/user.go:59), and no
\* other error: who was stored when the lookup began is found, by ID and by
\* account, although a new user's ID is struck from Redis before the transaction
\* is committed, and his account never.
StoredIsFound ==
  \A w \in Workers : Answered(w) /\ call[w].sure => Complete(call[w].found)

\* An answer without error has a stored user for every name, who has that name as
\* his ID or his account: nobody gets a user who goes by other names only.  It need
\* not be in the sense asked for, because an ID and an account share one copy
\* (getUserInfoKey, redis/user.go:99), which answers whoever comes with the name.
RightUser ==
  \A w \in Workers : Answered(w) /\ Complete(call[w].found) =>
    \A p \in call[w].found : p.user \in Bearers(p.name)
=============================================================================
