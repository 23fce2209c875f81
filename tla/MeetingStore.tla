---------------------------- MODULE MeetingStore ----------------------------
(***************************************************************************)
(* The storage of meetings and users (pkg/common/storage): documents in    *)
(* MongoDB, and a copy of each in Redis that the first reader puts there   *)
(* and every writer takes away.                                            *)
(*                                                                         *)
(* A reader that finds no copy takes the lock of the entry, reads the      *)
(* document and puts it into the entry if the lock is still its own; the   *)
(* others wait (StrongConsistency, GetDefaultOpt).  A writer removes copy  *)
(* and lock (TagAsDeleted) after it has written the document, inside the   *)
(* function it hands to tx.Transaction: where MongoDB has transactions     *)
(* that is before the write is committed and others can see it.  Whether   *)
(* it has them is found out when the service starts.                       *)
(*                                                                         *)
(* A document is known by how many writes it has seen.                     *)
(***************************************************************************)
EXTENDS Integers

CONSTANTS
  Workers,       \* handlers that may read or write at the same time
  Records,       \* the meetings and users there are
  None,          \* no worker, no copy
  MaxWrites      \* bound on the writes to one document

VARIABLES
  transactions,  \* whether MongoDB runs transactions (a replica set does)
  db,            \* the committed documents
  locked,        \* the worker whose transaction has written a document
  cache,         \* the entries in Redis
  call,          \* what each worker is doing
  settled,       \* history: the last version whose writer is through
  abandoned      \* history: the records whose last writer left the copy behind

history == <<settled, abandoned>>
vars == <<transactions, db, locked, cache, call, settled, abandoned>>

Kinds == {"meeting", "user"}
Prefixes == {"MEETING_INFO", "USER_INFO"}

Names == {r.name : r \in Records}

ASSUME RecordsAssumption == \A r \in Records : r = [kind |-> r.kind, name |-> r.name] /\ r.kind \in Kinds
ASSUME MaxWritesAssumption == MaxWrites \in Nat

\* live: there is a document, it was not deleted.
Document == [of : Records, number : 0 .. MaxWrites, live : BOOLEAN]

Copy == {d \in Document : d.live}

\* What a reader asked for, the version he counts on, what he found.
Reading == [rec : Records, floor : 0 .. MaxWrites, found : Document \cup {None}]

ASSUME NoneAssumption == None \notin Workers \cup Document \cup Records \cup Reading

Keys == [prefix : Prefixes, name : Names]

\* getMeetingInfoKey and getUserInfoKey: meetings and users share a prefix.
InfoKey(r) == [prefix |-> "USER_INFO", name |-> r.name]

\* Mutant: meetings get a prefix of their own, but only where they are deleted.
DelKeyOwn(r) ==
  [prefix |-> IF r.kind = "meeting" THEN "MEETING_INFO" ELSE "USER_INFO", name |-> r.name]

\* DelMeeting, DelUsersInfo
DelKey(r) == InfoKey(r)

Empty == [copy |-> None, lock |-> None]

\* floor is history: what was settled when the call began.
IdleCall == [at |-> "idle", op |-> "none", rec |-> None, doc |-> None, floor |-> 0]

Goto(w, label) == call' = [call EXCEPT ![w].at = label]

Return(w) == call' = [call EXCEPT ![w] = IdleCall]

-----------------------------------------------------------------------------
(* Readers: TakeWithError, FindWithError. *)

BeginRead(w, r) ==
  /\ call[w].at = "idle"
  /\ call' = [call EXCEPT ![w] =
       [IdleCall EXCEPT !.at = "fetch", !.op = "Read", !.rec = r, !.floor = settled[r]]]
  /\ UNCHANGED <<db, locked, cache, history>>

\* getCache: the copy if there is one, else the lock of the entry; a reader
\* that finds the lock taken comes back later.
Fetch(w) ==
  /\ call[w].at = "fetch"
  /\ LET key == InfoKey(call[w].rec)
         entry == cache[key]
     IN  \/ /\ entry.copy # None
            /\ call' = [call EXCEPT ![w].at = "answer", ![w].doc = entry.copy]
            /\ UNCHANGED cache
         \/ /\ entry = Empty
            /\ cache' = [cache EXCEPT ![key].lock = w]
            /\ Goto(w, "load")
  /\ UNCHANGED <<db, locked, history>>

\* Mutant: that there is no document is worth a copy too.
MayCopyAnything(d) == TRUE

\* A document that is not found is an error to getCache, and leaves no copy.
MayCopy(d) == d.live

Unlock(w, key) ==
  cache' = [cache EXCEPT ![key].lock = IF @ = w THEN None ELSE @]

Load(w) ==
  /\ call[w].at = "load"
  /\ LET d == db[call[w].rec] IN
       IF MayCopy(d)
       THEN /\ call' = [call EXCEPT ![w].at = "fill", ![w].doc = d]
            /\ UNCHANGED cache
       ELSE /\ call' = [call EXCEPT ![w].at = "answer", ![w].doc = d]
            /\ Unlock(w, InfoKey(call[w].rec))
  /\ UNCHANGED <<db, locked, history>>

\* Mutant: the reader sets the entry without asking whose turn it is.
FillsAlways(w, key) == TRUE

\* The entry takes the copy from the owner of its lock only.
Fills(w, key) == cache[key].lock = w

Fill(w) ==
  /\ call[w].at = "fill"
  /\ LET key == InfoKey(call[w].rec) IN
       IF Fills(w, key)
       THEN cache' = [cache EXCEPT ![key] = [copy |-> call[w].doc, lock |-> None]]
       ELSE UNCHANGED cache
  /\ Goto(w, "answer")
  /\ UNCHANGED <<db, locked, history>>

\* The caller gets what was found, or is told there is no document.
Answer(w) ==
  /\ call[w].at = "answer"
  /\ Return(w)
  /\ UNCHANGED <<db, locked, cache, history>>

-----------------------------------------------------------------------------
(* Writers: Create, Update, Delete of a meeting, Create of a user. *)

BeginWrite(w, op, r) ==
  /\ call[w].at = "idle"
  /\ op \in {"Update", "Delete"} => r.kind = "meeting"
  /\ call' = [call EXCEPT ![w] =
       [IdleCall EXCEPT !.at = "write", !.op = op, !.rec = r, !.floor = settled[r]]]
  /\ UNCHANGED <<db, locked, cache, history>>

\* Insert under a unique index; update and delete what is found.
Written(op, d) ==
  IF op = "Delete" THEN [d EXCEPT !.number = @ + 1, !.live = FALSE]
                   ELSE [d EXCEPT !.number = @ + 1, !.live = TRUE]

\* MongoDB makes a transaction wait for the one that wrote before it.  To
\* update or delete what is not there is no error and changes nothing.
Store(w) ==
  /\ call[w].at = "write"
  /\ LET r == call[w].rec
         d == db[r]
         op == call[w].op
     IN  /\ locked[r] = None
         /\ \/ /\ d.live = (op # "Create")
               /\ d.number < MaxWrites
               /\ call' = [call EXCEPT ![w].at = "tag", ![w].doc = Written(op, d)]
               /\ IF transactions
                  THEN locked' = [locked EXCEPT ![r] = w] /\ UNCHANGED db
                  ELSE db' = [db EXCEPT ![r] = Written(op, d)] /\ UNCHANGED locked
            \/ /\ op = "Create" /\ (d.live \/ d.number = MaxWrites)
               /\ Return(w)
               /\ UNCHANGED <<db, locked>>
            \/ /\ op # "Create" /\ (~ d.live \/ d.number = MaxWrites)
               /\ call' = [call EXCEPT ![w].at = "tag", ![w].doc = d]
               /\ UNCHANGED <<db, locked>>
  /\ UNCHANGED <<cache, history>>

Later(m, n) == IF m < n THEN n ELSE m

\* The writer is told of its success.
Settle(w) ==
  /\ settled' = [settled EXCEPT ![call[w].rec] = Later(@, call[w].doc.number)]
  /\ Return(w)

\* The document is written and the copy of the one before may stay.
Abandon(w) ==
  abandoned' = IF transactions \/ call[w].at # "tag" THEN abandoned
                                                    ELSE abandoned \cup {call[w].rec}

\* Mutant: the writer leaves what it wrote where the copy was.
WrittenThrough(w) == [copy |-> call[w].doc, lock |-> None]

\* TagAsDeleted: neither copy nor lock.
Tagged(w) == Empty

\* ExecDel: five tries; that all of them failed goes to the log, and the writer
\* is told of a success that no later reader may count on.
Tag(w) ==
  /\ call[w].at = "tag"
  /\ \/ /\ cache' = [cache EXCEPT ![DelKey(call[w].rec)] = Tagged(w)]
        /\ abandoned' = abandoned \ {call[w].rec}
        /\ IF transactions
           THEN Goto(w, "commit") /\ UNCHANGED settled
           ELSE Settle(w)
     \/ /\ Abandon(w)
        /\ IF transactions THEN Goto(w, "commit") ELSE Return(w)
        /\ UNCHANGED <<cache, settled>>
  /\ UNCHANGED <<db, locked>>

Commit(w) ==
  /\ call[w].at = "commit"
  /\ IF locked[call[w].rec] = w
     THEN /\ db' = [db EXCEPT ![call[w].rec] = call[w].doc]
          /\ locked' = [locked EXCEPT ![call[w].rec] = None]
     ELSE UNCHANGED <<db, locked>>
  /\ Settle(w)
  /\ UNCHANGED <<cache, abandoned>>

-----------------------------------------------------------------------------
(* Failures and the passing of time. *)

\* A call fails, or the server stops; MongoDB rolls an open transaction back.
Fail(w) ==
  /\ call[w].at # "idle"
  /\ Abandon(w)
  /\ Return(w)
  /\ locked' = [r \in Records |-> IF locked[r] = w THEN None ELSE locked[r]]
  /\ UNCHANGED <<db, cache, settled>>

\* A lock is good for a few seconds, a copy for twelve hours.
LockExpires(key) ==
  /\ cache[key].lock # None
  /\ cache' = [cache EXCEPT ![key].lock = None]
  /\ UNCHANGED <<db, locked, call, history>>

CopyExpires(key) ==
  /\ cache[key].copy # None
  /\ cache' = [cache EXCEPT ![key].copy = None]
  /\ UNCHANGED <<db, locked, call, history>>

-----------------------------------------------------------------------------
\* tx.NewMongo asks MongoDB once whether it runs transactions.
Init ==
  /\ transactions \in BOOLEAN
  /\ db = [r \in Records |-> [of |-> r, number |-> 0, live |-> FALSE]]
  /\ locked = [r \in Records |-> None]
  /\ cache = [k \in Keys |-> Empty]
  /\ call = [w \in Workers |-> IdleCall]
  /\ settled = [r \in Records |-> 0]
  /\ abandoned = {}

Step(w) ==
  \/ Fetch(w) \/ Load(w) \/ Fill(w) \/ Answer(w)
  \/ Store(w) \/ Tag(w) \/ Commit(w)
  \/ Fail(w)

Next ==
  /\ UNCHANGED transactions
  /\ \/ \E w \in Workers :
          \/ \E r \in Records :
               \/ BeginRead(w, r)
               \/ \E op \in {"Create", "Update", "Delete"} : BeginWrite(w, op, r)
          \/ Step(w)
     \/ \E key \in Keys : LockExpires(key) \/ CopyExpires(key)

Spec == Init /\ [][Next]_vars

-----------------------------------------------------------------------------
Call == [at : {"fetch", "load", "fill", "answer", "write", "tag", "commit"},
         op : {"Read", "Create", "Update", "Delete"}, rec : Records,
         doc : Document \cup {None}, floor : 0 .. MaxWrites]

\* Readers read and writers write, with the document in hand where they use it.
Prepared(c) ==
  /\ c.at \in (IF c.op = "Read" THEN {"fetch", "load", "fill", "answer"}
                                ELSE {"write", "tag", "commit"})
  /\ c.at \in {"fill", "answer", "tag", "commit"} => c.doc # None
  /\ c.at = "fill" => c.doc.live

\* The type invariant.  Redis holds copies of documents only: that there is
\* none is not remembered there (getCache).
TypeOK ==
  /\ transactions \in BOOLEAN
  /\ db \in [Records -> Document]
  /\ locked \in [Records -> Workers \cup {None}]
  /\ cache \in [Keys -> [copy : Copy \cup {None}, lock : Workers \cup {None}]]
  /\ call \in [Workers -> {IdleCall} \cup {c \in Call : Prepared(c)}]
  /\ settled \in [Records -> 0 .. MaxWrites]
  /\ abandoned \subseteq Records

\* Somebody has written the document and not removed the copy: not yet, or he
\* stopped or failed before he could.
BeingWritten(r) ==
  r \in abandoned \/ \E w \in Workers : call[w].at = "tag" /\ call[w].rec = r

\* A copy is the document as it is, unless a writer has yet to remove it or has
\* left it behind: no reader, however slow, puts an old document into Redis for
\* the next twelve hours, and the next writer mends what the last one left
\* (getCache, ExecDel).  Where writes wait for a commit a reader may do so.
CopiesAreCurrent ==
  ~ transactions =>
    \A r \in Records :
      cache[InfoKey(r)].copy # None /\ ~ BeingWritten(r) => cache[InfoKey(r)].copy = db[r]

\* Nobody sees a write that may still be rolled back: what is in Redis, and what
\* a reader answers, is no newer than the committed document.
OnlyCommitted ==
  /\ \A r \in Records :
       cache[InfoKey(r)].copy # None => cache[InfoKey(r)].copy.number <= db[r].number
  /\ \A w \in Workers : call[w].at = "answer" => call[w].doc.number <= db[call[w].rec].number

\* "get the latest data from database" (meeting.go:339): a read that starts
\* after a writer is through, the copy removed, gets what that writer left, or
\* something later; where writes wait for a commit it may not.
LatestData ==
  ~ transactions =>
    \A w \in Workers : call[w].at = "answer" => call[w].doc.number >= call[w].floor

\* "Get the information of the specified user and return an error if the userID
\* is not found" (controller/user.go:58, controller/meeting.go:34).
OwnData ==
  \A w \in Workers : call[w].at = "answer" => call[w].doc.of = call[w].rec

-----------------------------------------------------------------------------
(* The promise: the refinement mapping. *)

\* Where writes wait for a commit, no reader may count on any of them.
CountedOn(n) == IF transactions THEN 0 ELSE n

Through == [r \in Records |-> CountedOn(settled[r])]

ReadOf(w) ==
  IF call[w].op # "Read" THEN None
  ELSE [rec |-> call[w].rec, floor |-> CountedOn(call[w].floor),
        found |-> IF call[w].at = "answer" THEN call[w].doc ELSE None]

Reads == [w \in Workers |-> ReadOf(w)]

\* Documents, copies and locks together are a store whose reads see every write
\* that is through, and otherwise the old document or the new one; what MongoDB
\* may still roll back nobody sees (pkg/common/storage).
Promise == INSTANCE RegularStore
  WITH Readers <- Workers, Nothing <- None,
       document <- db, through <- Through, reading <- Reads

PromiseSpec == Promise!Spec
=============================================================================
