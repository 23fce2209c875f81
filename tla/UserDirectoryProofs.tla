------------------------ MODULE UserDirectoryProofs ------------------------
(***************************************************************************)
(* Theorems about UserDirectory, for any number of handlers, IDs, accounts *)
(* and requests, any failures, with and without transactions.              *)
(***************************************************************************)
EXTENDS UserDirectory, SequenceTheorems, FiniteSetTheorems, TLAPS

Calls == {IdleCall} \cup {c \in Creation \cup Lookup : Prepared(c)}

Outcomes == {"open", "done", "refused", "broken"}

Request == [ids : Seq(IDs \cup {None}), outcome : Outcomes]

CreationSteps == {"number", "insert", "tag", "commit", "created"}

LookupSteps == {"look", "load", "fill"}

\* A handler is idle, creates users, or looks users up.
LEMMA CallKinds ==
  ASSUME TypeOK, NEW w \in Workers
  PROVE  /\ call[w].at \in {"idle"} \cup CreationSteps \cup LookupSteps
         /\ call[w].at = "idle" => call[w] = IdleCall
         /\ call[w].at \in CreationSteps => call[w] \in Creation /\ Prepared(call[w])
         /\ call[w].at \in LookupSteps => call[w] \in Lookup /\ Prepared(call[w])
<1>1. call[w] \in Calls
  BY DEF TypeOK, Calls
<1>2. CASE call[w] = IdleCall
  BY <1>2 DEF IdleCall, CreationSteps, LookupSteps
<1>3. CASE call[w] \in Creation /\ Prepared(call[w])
  BY <1>3 DEF Creation, CreationSteps, LookupSteps
<1>4. CASE call[w] \in Lookup /\ Prepared(call[w])
  BY <1>4 DEF Lookup, CreationSteps, LookupSteps
<1> QED
  BY <1>1, <1>2, <1>3, <1>4 DEF Calls

LEMMA RowsType ==
  ASSUME NEW rows \in Rows
  PROVE  /\ Len(rows) \in 1 .. MaxRows
         /\ DOMAIN rows = 1 .. Len(rows)
         /\ rows \in [1 .. Len(rows) -> Row]
<1>1. PICK n \in 1 .. MaxRows : rows \in [1 .. n -> Row]
  BY DEF Rows
<1>2. rows \in Seq(Row) /\ Len(rows) = n
  BY <1>1, BoundsAssumption
<1> QED
  BY <1>1, <1>2

LEMMA CreationType ==
  ASSUME NEW at \in CreationSteps, NEW op \in {"Register", "Import"},
         NEW number \in 1 .. MaxRequests, NEW rows \in Rows, NEW next \in 0 .. MaxRows,
         next <= Len(rows),
         at # "number" => \A i \in DOMAIN rows : rows[i].id # None,
         at \in {"number", "insert"} => next < Len(rows),
         NEW c, c = [at |-> at, op |-> op, number |-> number, rows |-> rows, next |-> next,
                     asked |-> {}, name |-> None, found |-> {}, sure |-> FALSE]
  PROVE  /\ c \in Creation /\ c \in Calls
         /\ c.at = at /\ c.op = op /\ c.number = number /\ c.rows = rows /\ c.next = next
<1>1. c \in Creation
  BY DEF Creation, CreationSteps
<1>2. /\ c.at = at /\ c.op = op /\ c.number = number /\ c.rows = rows /\ c.next = next
  OBVIOUS
<1>3. at \notin {"load", "fill"}
  BY DEF CreationSteps
<1>4. Prepared(c)
  BY <1>2, <1>3 DEF Prepared
<1> QED
  BY <1>1, <1>2, <1>4 DEF Calls

LEMMA RequestsType ==
  ASSUME TypeOK
  PROVE  /\ requests \in Seq(Request)
         /\ Len(requests) \in Nat /\ DOMAIN requests = 1 .. Len(requests)
         /\ \A k \in DOMAIN requests :
              /\ requests[k] \in Request
              /\ requests[k].ids \in Seq(IDs \cup {None})
              /\ DOMAIN requests[k].ids = 1 .. Len(requests[k].ids)
              /\ Len(requests[k].ids) \in Nat
<1>1. requests \in Seq(Request)
  BY DEF TypeOK, Request, Outcomes
<1>2. \A k \in 1 .. Len(requests) : requests[k] \in Request
  BY <1>1
<1> QED
  BY <1>1, <1>2 DEF Request

\* A request changes in one place, and stays a request.
LEMMA RequestStep ==
  ASSUME TypeOK, NEW k \in DOMAIN requests, NEW r \in Request,
         requests' = [requests EXCEPT ![k] = r]
  PROVE  /\ requests' \in Seq(Request) /\ DOMAIN requests' = DOMAIN requests
         /\ requests'[k] = r
         /\ \A l \in DOMAIN requests \ {k} : requests'[l] = requests[l]
BY RequestsType, ExceptSeq

LEMMA CallsType ==
  ASSUME TypeOK, NEW w \in Workers, NEW c \in Calls, call' = [call EXCEPT ![w] = c]
  PROVE  /\ call' \in [Workers -> Calls]
         /\ call'[w] = c /\ \A v \in Workers \ {w} : call'[v] = call[v]
BY DEF TypeOK, Calls

LEMMA EndStep ==
  ASSUME TypeOK, NEW w \in Workers, call[w].number \in DOMAIN requests,
         NEW outcome \in Outcomes, End(w, outcome)
  PROVE  /\ requests' \in Seq(Request) /\ DOMAIN requests' = DOMAIN requests
         /\ \A k \in DOMAIN requests :
              /\ requests'[k].ids = requests[k].ids
              /\ requests'[k].outcome = IF k = call[w].number THEN outcome
                                        ELSE requests[k].outcome
         /\ call' \in [Workers -> Calls]
         /\ call'[w] = IdleCall /\ \A v \in Workers \ {w} : call'[v] = call[v]
<1>1. PICK k \in DOMAIN requests : k = call[w].number
  OBVIOUS
<1>2. PICK r \in Request : r = [requests[k] EXCEPT !.outcome = outcome]
  BY RequestsType DEF Request
<1>3. requests' = [requests EXCEPT ![k] = r]
  BY <1>1, <1>2 DEF End
<1>4. r.ids = requests[k].ids /\ r.outcome = outcome
  BY <1>2, RequestsType DEF Request
<1>5. /\ requests' \in Seq(Request) /\ DOMAIN requests' = DOMAIN requests
      /\ requests'[k] = r
      /\ \A l \in DOMAIN requests \ {k} : requests'[l] = requests[l]
  BY <1>3, RequestStep
<1>6. call' = [call EXCEPT ![w] = IdleCall] /\ IdleCall \in Calls
  BY DEF End, Return, Calls
<1> QED
  BY <1>1, <1>4, <1>5, <1>6, CallsType

-----------------------------------------------------------------------------
(* Types: every creation has a request of its own. *)

Creating(w) == call[w].number # 0

\* The request of w has the IDs of its rows, and the rows that were given a
\* number have it.
Linked(w) ==
  LET c == call[w] IN
  /\ c.number \in DOMAIN requests
  /\ requests[c.number].ids = [i \in DOMAIN c.rows |-> c.rows[i].id]
  /\ c.at = "number" => \A i \in 1 .. c.next : c.rows[i].id # None

\* A name is loaded once, and put into Redis only with a user.
Fetching(w) ==
  LET c == call[w] IN
  /\ c.at = "load" => \A p \in c.found : p.name # c.name
  /\ c.at = "fill" => \A p \in c.found : p.name = c.name => p.user # None

TypeInv ==
  /\ TypeOK
  /\ \A w \in Workers : Fetching(w) /\ (Creating(w) => Linked(w))
  /\ \A v, w \in Workers : v # w /\ Creating(v) => call[v].number # call[w].number

LEMMA CreatingSteps ==
  ASSUME TypeOK, NEW w \in Workers
  PROVE  Creating(w) <=> call[w].at \in CreationSteps
<1>1. call[w].at = "idle" => call[w].number = 0
  BY CallKinds DEF IdleCall
<1>2. call[w].at \in CreationSteps => call[w].number # 0
  <2>1. call[w].at \in CreationSteps => call[w].number \in 1 .. MaxRequests
    BY CallKinds DEF Creation
  <2> QED
    BY <2>1, BoundsAssumption
<1>3. call[w].at \in LookupSteps => call[w].number = 0
  BY CallKinds DEF Lookup
<1> QED
  BY <1>1, <1>2, <1>3, CallKinds DEF Creating, CreationSteps, LookupSteps

\* The call of w is another, and of the requests of others no ID is.
LEMMA TypeFrame ==
  ASSUME TypeInv, NEW w \in Workers,
         transactions' \in BOOLEAN, users' \in [IDs -> User \cup {None}],
         lastID' \in 0 .. Len(Numbered), cache' \in SUBSET [name : Names, user : User],
         call' \in [Workers -> Calls], requests' \in Seq(Request),
         \A v \in Workers \ {w} : call'[v] = call[v],
         DOMAIN requests \subseteq DOMAIN requests',
         \A k \in DOMAIN requests : k # call[w].number => requests'[k].ids = requests[k].ids,
         call'[w].number \in {0, call[w].number} \/ call'[w].number \notin DOMAIN requests,
         Fetching(w)', Creating(w)' => Linked(w)'
  PROVE  TypeInv'
<1>1. TypeOK'
  BY DEF TypeOK, Calls, Request, Outcomes
<1>2. ASSUME NEW v \in Workers \ {w} PROVE (Fetching(v) /\ (Creating(v) => Linked(v)))'
  <2>1. Fetching(v) /\ (Creating(v) => Linked(v) /\ call[v].number # call[w].number)
    BY DEF TypeInv
  <2> QED
    BY <2>1 DEF Fetching, Creating, Linked
<1>3. ASSUME NEW v \in Workers \ {w}, Creating(v)
      PROVE  call[v].number \in DOMAIN requests /\ call[v].number # call'[w].number
  BY <1>3 DEF TypeInv, Creating, Linked
<1>4. ASSUME NEW u \in Workers, NEW v \in Workers, u # v, Creating(u)'
      PROVE  call'[u].number # call'[v].number
  <2>1. CASE u = w
    BY <1>3, <1>4, <2>1 DEF Creating
  <2>2. CASE v = w
    BY <1>3, <1>4, <2>2 DEF Creating
  <2>3. CASE u # w /\ v # w
    BY <1>4, <2>3 DEF TypeInv, Creating
  <2> QED
    BY <2>1, <2>2, <2>3
<1> QED
  BY <1>1, <1>2, <1>4 DEF TypeInv

\* A request is taken down, and its worker set to work.
TakenDown(w, label, rows) ==
  \E n \in 1 .. MaxRequests :
    /\ n = Len(requests) + 1 /\ n \notin DOMAIN requests
    /\ DOMAIN requests' = DOMAIN requests \cup {n}
    /\ \A k \in DOMAIN requests : requests'[k] = requests[k]
    /\ \A i \in DOMAIN rows : requests'[n].ids[i] = rows[i].id
    /\ DOMAIN requests'[n].ids = DOMAIN rows
    /\ requests'[n].outcome = "open"
    /\ call'[w].at = label /\ call'[w].number = n
    /\ call'[w].rows = rows /\ call'[w].next = 0

LEMMA BeginCreateStep ==
  ASSUME TypeInv, NEW w \in Workers, NEW op \in {"Register", "Import"},
         NEW label \in {"number", "insert"}, NEW rows \in Rows,
         label = "insert" => \A i \in DOMAIN rows : rows[i].id # None,
         BeginCreate(w, op, label, rows)
  PROVE  /\ TypeInv'
         /\ TakenDown(w, label, rows)
         /\ \A v \in Workers \ {w} : call'[v] = call[v]
         /\ UNCHANGED <<transactions, users, lastID, cache>>
<1>0. TypeOK
  BY DEF TypeInv
<1>1. PICK n \in 1 .. MaxRequests :
        n = Len(requests) + 1 /\ n \notin DOMAIN requests
  BY <1>0, RequestsType, BoundsAssumption DEF BeginCreate
<1>2. /\ Len(rows) \in 1 .. MaxRows /\ DOMAIN rows = 1 .. Len(rows)
      /\ rows \in [1 .. Len(rows) -> Row]
  BY RowsType
<1>3. PICK ids \in Seq(IDs \cup {None}) :
        ids = [i \in DOMAIN rows |-> rows[i].id] /\ DOMAIN ids = DOMAIN rows
  <2>1. [i \in DOMAIN rows |-> rows[i].id] \in [1 .. Len(rows) -> IDs \cup {None}]
    BY <1>2 DEF Row
  <2>2. [i \in DOMAIN rows |-> rows[i].id] \in Seq(IDs \cup {None})
    BY <1>2, <2>1
  <2> QED
    BY <2>2
<1>4. PICK r \in Request : r = [ids |-> ids, outcome |-> "open"]
  BY DEF Request, Outcomes
<1>r. r.ids = ids /\ r.outcome = "open"
  BY <1>4
<1>5. requests' = Append(requests, r) /\ UNCHANGED <<transactions, users, lastID, cache>>
  BY <1>3, <1>4 DEF BeginCreate
<1>6. /\ requests' \in Seq(Request)
      /\ DOMAIN requests' = DOMAIN requests \cup {n}
      /\ requests'[n] = r
      /\ \A k \in DOMAIN requests : requests'[k] = requests[k]
  BY <1>0, <1>1, <1>5, RequestsType
<1>7. call[w] = IdleCall
  BY <1>0, CallKinds DEF BeginCreate
<1>8. PICK c : /\ c = [IdleCall EXCEPT !.at = label, !.op = op, !.rows = rows,
                                       !.number = Len(requests) + 1]
               /\ call' = [call EXCEPT ![w] = c]
  BY DEF BeginCreate
<1>9. /\ c \in Calls
      /\ c.at = label /\ c.op = op /\ c.number = n /\ c.rows = rows /\ c.next = 0
  <2>1. 0 \in 0 .. MaxRows /\ label \in CreationSteps
    BY BoundsAssumption DEF CreationSteps
  <2>2. c = [at |-> label, op |-> op, number |-> n, rows |-> rows, next |-> 0,
             asked |-> {}, name |-> None, found |-> {}, sure |-> FALSE]
    BY <1>1, <1>8 DEF IdleCall
  <2> QED
    BY <1>2, <2>1, <2>2, CreationType
<1>12. /\ call' \in [Workers -> Calls]
       /\ call'[w] = c /\ \A v \in Workers \ {w} : call'[v] = call[v]
  BY <1>0, <1>8, <1>9, CallsType
<1>13. Fetching(w)' /\ Linked(w)'
  <2>1. Fetching(w)'
    BY <1>9, <1>12 DEF Fetching
  <2>2. label = "number" => \A i \in 1 .. 0 : rows[i].id # None
    OBVIOUS
  <2>3. Linked(w)'
    <3>1. call'[w].number = n /\ call'[w].rows = rows /\ call'[w].at = label /\ call'[w].next = 0
      BY <1>9, <1>12
    <3>2. n \in DOMAIN requests' /\ requests'[n].ids = [i \in DOMAIN rows |-> rows[i].id]
      BY <1>3, <1>6, <1>r
    <3> QED
      BY <2>2, <3>1, <3>2 DEF Linked
  <2> QED
    BY <2>1, <2>3
<1>14. TypeInv'
  BY <1>0, <1>1, <1>5, <1>6, <1>9, <1>12, <1>13, TypeFrame DEF TypeOK
<1>15. /\ n = Len(requests) + 1 /\ n \notin DOMAIN requests
       /\ DOMAIN requests' = DOMAIN requests \cup {n}
       /\ \A k \in DOMAIN requests : requests'[k] = requests[k]
  BY <1>1, <1>6
<1>16. /\ \A i \in DOMAIN rows : requests'[n].ids[i] = rows[i].id
       /\ DOMAIN requests'[n].ids = DOMAIN rows
       /\ requests'[n].outcome = "open"
  BY <1>3, <1>6, <1>r
<1>17. /\ call'[w].at = label /\ call'[w].number = n
       /\ call'[w].rows = rows /\ call'[w].next = 0
  BY <1>9, <1>12
<1> QED
  BY <1>1, <1>5, <1>12, <1>14, <1>15, <1>16, <1>17 DEF TakenDown

\* A call that creates users, gone on: its label, its rows and its place change.
Gone(old, at, rows, next) == [old EXCEPT !.at = at, !.rows = rows, !.next = next]

LEMMA GoneType ==
  ASSUME NEW old \in Creation,
         NEW at \in CreationSteps, NEW rows \in Rows, NEW next \in 0 .. MaxRows,
         next <= Len(rows),
         at # "number" => \A i \in DOMAIN rows : rows[i].id # None,
         at \in {"number", "insert"} => next < Len(rows)
  PROVE  LET c == Gone(old, at, rows, next) IN
         /\ c \in Calls
         /\ c.at = at /\ c.rows = rows /\ c.next = next /\ c.number = old.number
<1>1. PICK c : c = [old EXCEPT !.at = at, !.rows = rows, !.next = next]
  OBVIOUS
<1>2. c \in Creation
  BY <1>1 DEF Creation, CreationSteps
<1>3. c.at = at /\ c.rows = rows /\ c.next = next /\ c.number = old.number
  BY <1>1 DEF Creation
<1>4. Prepared(c)
  BY <1>3 DEF Prepared, CreationSteps
<1>5. Gone(old, at, rows, next) = c
  BY <1>1 DEF Gone
<1> QED
  BY <1>2, <1>3, <1>4, <1>5 DEF Calls

LEMMA GoesOn ==
  ASSUME TypeInv, NEW w \in Workers, call[w].at \in CreationSteps,
         NEW at \in CreationSteps, NEW rows \in Rows, NEW next \in 0 .. MaxRows,
         next <= Len(rows),
         at # "number" => \A i \in DOMAIN rows : rows[i].id # None,
         at \in {"number", "insert"} => next < Len(rows),
         NEW c, c = Gone(call[w], at, rows, next), call' = [call EXCEPT ![w] = c]
  PROVE  /\ call' \in [Workers -> Calls]
         /\ call'[w].at = at /\ call'[w].rows = rows /\ call'[w].next = next
         /\ call'[w].number = call[w].number
         /\ \A v \in Workers \ {w} : call'[v] = call[v]
         /\ Fetching(w)'
<1>0. TypeOK
  BY DEF TypeInv
<1>1. /\ c \in Calls
      /\ c.at = at /\ c.rows = rows /\ c.next = next /\ c.number = call[w].number
  <2>1. call[w] \in Creation
    BY <1>0, CallKinds
  <2> QED
    BY <2>1, GoneType
<1>2. /\ call' \in [Workers -> Calls]
      /\ call'[w] = c /\ \A v \in Workers \ {w} : call'[v] = call[v]
  BY <1>0, <1>1, CallsType
<1>3. Fetching(w)'
  BY <1>1, <1>2 DEF Fetching, CreationSteps
<1> QED
  BY <1>1, <1>2, <1>3

\* What is known of a worker that creates users.
LEMMA CreatorFacts ==
  ASSUME TypeInv, NEW w \in Workers, call[w].at \in CreationSteps
  PROVE  /\ TypeOK /\ Creating(w) /\ Linked(w)
         /\ call[w] \in Creation /\ Prepared(call[w])
         /\ call[w].rows \in Rows /\ call[w].next \in 0 .. MaxRows
         /\ call[w].next <= Len(call[w].rows)
         /\ Len(call[w].rows) \in 1 .. MaxRows
         /\ DOMAIN call[w].rows = 1 .. Len(call[w].rows)
         /\ call[w].number \in DOMAIN requests
         /\ DOMAIN requests[call[w].number].ids = DOMAIN call[w].rows
         /\ \A i \in DOMAIN call[w].rows : requests[call[w].number].ids[i] = call[w].rows[i].id
<1>1. TypeOK /\ Creating(w) /\ Linked(w) /\ call[w] \in Creation /\ Prepared(call[w])
  BY CallKinds, CreatingSteps DEF TypeInv
<1>2. call[w].rows \in Rows /\ call[w].next \in 0 .. MaxRows
  BY <1>1 DEF Creation
<1>3. /\ Len(call[w].rows) \in 1 .. MaxRows
      /\ DOMAIN call[w].rows = 1 .. Len(call[w].rows)
  BY <1>2, RowsType
<1>4. call[w].next <= Len(call[w].rows)
  BY <1>1 DEF Prepared
<1>5. /\ call[w].number \in DOMAIN requests
      /\ requests[call[w].number].ids = [i \in DOMAIN call[w].rows |-> call[w].rows[i].id]
  BY <1>1 DEF Linked
<1> QED
  BY <1>1, <1>2, <1>3, <1>4, <1>5

LEMMA RowsExcept ==
  ASSUME NEW rs \in Rows, NEW i \in DOMAIN rs, NEW id \in IDs
  PROVE  \E new \in Rows :
         /\ new = [rs EXCEPT ![i].id = id]
         /\ Len(new) = Len(rs) /\ DOMAIN new = DOMAIN rs
         /\ \A j \in DOMAIN rs : new[j].id = IF j = i THEN id ELSE rs[j].id
<1>1. PICK n \in 1 .. MaxRows : rs \in [1 .. n -> Row] /\ DOMAIN rs = 1 .. n /\ Len(rs) = n
  BY RowsType
<1>2. PICK row \in Row : row = [rs[i] EXCEPT !.id = id]
  BY <1>1 DEF Row
<1>3. row.id = id
  BY <1>1, <1>2 DEF Row
<1>4. PICK new : new = [rs EXCEPT ![i] = row]
  OBVIOUS
<1>5. new \in [1 .. n -> Row] /\ \A j \in DOMAIN rs : new[j].id = IF j = i THEN id ELSE rs[j].id
  BY <1>1, <1>3, <1>4
<1>6. new \in Rows
  BY <1>5 DEF Rows
<1>7. Len(new) = n /\ DOMAIN new = 1 .. n
  BY <1>5, <1>6, RowsType
<1>8. new = [rs EXCEPT ![i].id = id]
  BY <1>2, <1>4
<1> QED
  BY <1>1, <1>5, <1>6, <1>7, <1>8

\* One row is given the number that comes next.
LEMMA GenerateStep ==
  ASSUME TypeInv, NEW w \in Workers, GenerateUserID(w), lastID + 1 <= Len(Numbered)
  PROVE  /\ TypeInv'
         /\ call[w].at = "number"
         /\ lastID' = lastID + 1
         /\ DOMAIN requests' = DOMAIN requests
         /\ \A k \in DOMAIN requests :
              /\ requests'[k].outcome = requests[k].outcome
              /\ DOMAIN requests'[k].ids = DOMAIN requests[k].ids
              /\ \A i \in DOMAIN requests[k].ids :
                   requests'[k].ids[i] =
                     IF k = call[w].number /\ i = call[w].next + 1 THEN Numbered[lastID + 1]
                     ELSE requests[k].ids[i]
         /\ LET c == call'[w] IN
              /\ c.at \in {"number", "insert"} /\ c.number = call[w].number
              /\ c.next = IF c.at = "insert" THEN 0 ELSE call[w].next + 1
              /\ c.at = "insert" <=> call[w].next + 1 = Len(call[w].rows)
              /\ DOMAIN c.rows = DOMAIN call[w].rows
              /\ \A i \in DOMAIN c.rows :
                   c.rows[i].id = IF i = call[w].next + 1 THEN Numbered[lastID + 1]
                                  ELSE call[w].rows[i].id
         /\ \A v \in Workers \ {w} : call'[v] = call[v]
         /\ UNCHANGED <<transactions, users, cache>>
<1>0. call[w].at = "number" /\ call[w].at \in CreationSteps
  BY DEF GenerateUserID, CreationSteps
<1>1. PICK k \in DOMAIN requests, rs \in Rows, nx \in 0 .. MaxRows :
        k = call[w].number /\ rs = call[w].rows /\ nx = call[w].next
  BY <1>0, CreatorFacts
<1>2. /\ TypeOK /\ call[w] \in Creation
      /\ Len(rs) \in 1 .. MaxRows /\ DOMAIN rs = 1 .. Len(rs)
      /\ nx < Len(rs)
      /\ DOMAIN requests[k].ids = DOMAIN rs
      /\ \A i \in DOMAIN rs : requests[k].ids[i] = rs[i].id
      /\ \A i \in 1 .. nx : rs[i].id # None
  <2>1. nx < Len(rs)
    BY <1>0, <1>1, CreatorFacts DEF Prepared
  <2>2. \A i \in 1 .. nx : rs[i].id # None
    BY <1>0, <1>1, CreatorFacts DEF Linked
  <2> QED
    BY <1>0, <1>1, <2>1, <2>2, CreatorFacts
<1>3. PICK n \in 1 .. Len(Numbered) : n = lastID + 1
  BY <1>2, NumberedAssumption DEF TypeOK
<1>4. PICK id \in IDs : id = Numbered[n] /\ id # None
  BY <1>3, NumberedAssumption, NamesAssumption DEF Names
<1>5. PICK i \in DOMAIN rs : i = nx + 1
  BY <1>2
<1>6. PICK at \in {"number", "insert"}, next \in 0 .. MaxRows :
        /\ at = (IF i = Len(rs) THEN "insert" ELSE "number")
        /\ next = (IF i = Len(rs) THEN 0 ELSE i)
        /\ next < Len(rs)
  <2>1. CASE i = Len(rs)
    <3>1. PICK m \in 0 .. MaxRows : m = 0
      BY BoundsAssumption
    <3> QED
      BY <1>2, <2>1, <3>1
  <2>2. CASE i # Len(rs)
    <3>1. i \in 0 .. MaxRows /\ i < Len(rs)
      BY <1>2, <2>2, BoundsAssumption
    <3> QED
      BY <2>2, <3>1
  <2> QED
    BY <2>1, <2>2
<1>7. /\ lastID' = n
      /\ requests' = [requests EXCEPT ![k].ids[i] = id]
      /\ call' = [call EXCEPT ![w].rows[i].id = id, ![w].next = next, ![w].at = at]
      /\ UNCHANGED <<transactions, users, cache>>
  BY <1>1, <1>3, <1>4, <1>5, <1>6 DEF GenerateUserID, NextNumber
<1>8. PICK ids \in Seq(IDs \cup {None}) :
        /\ ids = [requests[k].ids EXCEPT ![i] = id]
        /\ DOMAIN ids = DOMAIN rs
        /\ \A j \in DOMAIN rs : ids[j] = IF j = i THEN id ELSE requests[k].ids[j]
  <2>1. PICK old \in Seq(IDs \cup {None}) :
          old = requests[k].ids /\ DOMAIN old = DOMAIN rs /\ Len(old) \in Nat
    BY <1>2, RequestsType
  <2>2. i \in 1 .. Len(old)
    BY <2>1
  <2>3. PICK ids : ids = [old EXCEPT ![i] = id]
    OBVIOUS
  <2>4. /\ ids \in Seq(IDs \cup {None}) /\ DOMAIN ids = DOMAIN old
        /\ \A j \in DOMAIN old : ids[j] = IF j = i THEN id ELSE old[j]
    BY <2>1, <2>2, <2>3
  <2> QED
    BY <2>1, <2>3, <2>4
<1>9. PICK r \in Request : r = [requests[k] EXCEPT !.ids = ids]
  BY <1>2, RequestsType DEF Request
<1>10. r.ids = ids /\ r.outcome = requests[k].outcome
  BY <1>2, <1>9, RequestsType DEF Request
<1>11. /\ requests' \in Seq(Request) /\ DOMAIN requests' = DOMAIN requests
       /\ requests'[k] = r
       /\ \A l \in DOMAIN requests \ {k} : requests'[l] = requests[l]
  <2>1. requests' = [requests EXCEPT ![k] = r]
    BY <1>7, <1>8, <1>9
  <2> QED
    BY <1>2, <2>1, RequestStep
<1>12. PICK rows \in Rows :
         /\ rows = [rs EXCEPT ![i].id = id]
         /\ Len(rows) = Len(rs) /\ DOMAIN rows = DOMAIN rs
         /\ \A j \in DOMAIN rs : rows[j].id = IF j = i THEN id ELSE rs[j].id
  BY RowsExcept
<1>13. PICK gone : gone = Gone(call[w], at, rows, next) /\ call' = [call EXCEPT ![w] = gone]
  <2>1. [call[w] EXCEPT !.at = at, !.rows = rows, !.next = next]
          = [call[w] EXCEPT !.rows = rows, !.next = next, !.at = at]
    BY <1>2 DEF Creation
  <2>2. call' = [call EXCEPT ![w] = [call[w] EXCEPT !.rows = rows, !.next = next, !.at = at]]
    BY <1>1, <1>2, <1>7, <1>12 DEF TypeOK
  <2> QED
    BY <2>1, <2>2 DEF Gone
<1>14. at # "number" => \A j \in DOMAIN rows : rows[j].id # None
  BY <1>2, <1>4, <1>5, <1>6, <1>12
<1>15. /\ call' \in [Workers -> Calls]
       /\ call'[w].at = at /\ call'[w].rows = rows /\ call'[w].next = next
       /\ call'[w].number = k
       /\ \A v \in Workers \ {w} : call'[v] = call[v]
       /\ Fetching(w)'
  <2>1. at \in CreationSteps /\ next <= Len(rows) /\ next < Len(rows)
    BY <1>2, <1>6, <1>12 DEF CreationSteps
  <2>2. rows \in Rows /\ next \in 0 .. MaxRows
    BY <1>6, <1>12
  <2>3. at \in {"number", "insert"} => next < Len(rows)
    BY <2>1
  <2>4. /\ call' \in [Workers -> Calls]
        /\ call'[w].at = at /\ call'[w].rows = rows /\ call'[w].next = next
        /\ call'[w].number = call[w].number
        /\ \A v \in Workers \ {w} : call'[v] = call[v]
        /\ Fetching(w)'
    BY <1>0, <1>13, <1>14, <2>1, <2>2, <2>3, GoesOn
  <2> QED
    BY <1>1, <2>4
<1>16. Linked(w)'
  <2>1. \A j \in DOMAIN rs : ids[j] = rows[j].id
    BY <1>2, <1>8, <1>12
  <2>2. ids = [j \in DOMAIN rows |-> rows[j].id]
    BY <1>8, <1>12, <2>1
  <2>3. at = "number" => \A j \in 1 .. next : rows[j].id # None
    BY <1>2, <1>4, <1>5, <1>6, <1>12
  <2> QED
    BY <1>10, <1>11, <1>15, <2>2, <2>3 DEF Linked
<1>17. TypeInv'
  <2>1. lastID' \in 0 .. Len(Numbered)
    BY <1>3, <1>7, NumberedAssumption
  <2> QED
    BY <1>1, <1>2, <1>7, <1>11, <1>15, <1>16, <2>1, TypeFrame DEF TypeOK
<1>18. \A l \in DOMAIN requests :
         /\ requests'[l].outcome = requests[l].outcome
         /\ DOMAIN requests'[l].ids = DOMAIN requests[l].ids
         /\ \A j \in DOMAIN requests[l].ids :
              requests'[l].ids[j] = IF l = k /\ j = i THEN id ELSE requests[l].ids[j]
  BY <1>2, <1>8, <1>10, <1>11
<1>19. /\ at = "insert" <=> i = Len(rs)
       /\ next = IF at = "insert" THEN 0 ELSE i
  BY <1>6
<1>20. \A l \in DOMAIN requests :
         /\ requests'[l].outcome = requests[l].outcome
         /\ DOMAIN requests'[l].ids = DOMAIN requests[l].ids
         /\ \A j \in DOMAIN requests[l].ids :
              requests'[l].ids[j] =
                IF l = call[w].number /\ j = call[w].next + 1 THEN Numbered[lastID + 1]
                ELSE requests[l].ids[j]
  BY <1>1, <1>3, <1>4, <1>5, <1>18
<1>21. LET c == call'[w] IN
         /\ c.at \in {"number", "insert"} /\ c.number = call[w].number
         /\ c.next = IF c.at = "insert" THEN 0 ELSE call[w].next + 1
         /\ c.at = "insert" <=> call[w].next + 1 = Len(call[w].rows)
         /\ DOMAIN c.rows = DOMAIN call[w].rows
         /\ \A j \in DOMAIN c.rows :
              c.rows[j].id = IF j = call[w].next + 1 THEN Numbered[lastID + 1]
                             ELSE call[w].rows[j].id
  BY <1>1, <1>3, <1>4, <1>5, <1>12, <1>15, <1>19
<1> QED
  BY <1>0, <1>3, <1>7, <1>11, <1>15, <1>17, <1>20, <1>21

\* The call of w goes on to the place next, under a label, and no other call does.
Moved(w, at, next) ==
  /\ call'[w].at = at /\ call'[w].next = next
  /\ call'[w].rows = call[w].rows /\ call'[w].number = call[w].number
  /\ \A v \in Workers \ {w} : call'[v] = call[v]

\* The call of w and its request end, and no other call or request does.
Ended(w, outcome) ==
  /\ DOMAIN requests' = DOMAIN requests
  /\ \A k \in DOMAIN requests :
       /\ requests'[k].ids = requests[k].ids
       /\ requests'[k].outcome = IF k = call[w].number THEN outcome
                                 ELSE requests[k].outcome
  /\ call'[w] = IdleCall
  /\ \A v \in Workers \ {w} : call'[v] = call[v]

\* The call of w gets a label and a place.
Goes(w, at, next) ==
  call' = [call EXCEPT ![w] = [call[w] EXCEPT !.at = at, !.next = next]]

LEMMA MovedStep ==
  ASSUME TypeInv, NEW w \in Workers, call[w].at \in CreationSteps,
         NEW at \in CreationSteps \ {"number"}, NEW next \in 0 .. MaxRows,
         call[w].at # "number", next <= Len(call[w].rows),
         at = "insert" => next < Len(call[w].rows),
         Goes(w, at, next),
         users' \in [IDs -> User \cup {None}],
         cache' \in SUBSET [name : Names, user : User],
         UNCHANGED <<transactions, lastID, requests>>
  PROVE  TypeInv' /\ Moved(w, at, next)
<1>1. /\ TypeOK /\ Linked(w) /\ call[w] \in Creation /\ Prepared(call[w])
      /\ call[w].number \in DOMAIN requests /\ call[w].rows \in Rows
  BY CreatorFacts
<1>2. PICK rs \in Rows : rs = call[w].rows
  BY <1>1
<1>3. PICK c : c = Gone(call[w], at, rs, next) /\ call' = [call EXCEPT ![w] = c]
  BY <1>1, <1>2 DEF Goes, Gone, Creation
<1>5. /\ call' \in [Workers -> Calls]
      /\ call'[w].at = at /\ call'[w].rows = rs /\ call'[w].next = next
      /\ call'[w].number = call[w].number
      /\ \A v \in Workers \ {w} : call'[v] = call[v]
      /\ Fetching(w)'
  <2>1. at # "number" => \A i \in DOMAIN rs : rs[i].id # None
    BY <1>1, <1>2 DEF Prepared
  <2>2. next <= Len(rs)
    BY <1>2
  <2>3. at \in {"number", "insert"} => next < Len(rs)
    BY <1>2
  <2>4. at \in CreationSteps /\ rs \in Rows
    BY <1>2
  <2> QED
    BY <1>3, <2>1, <2>2, <2>3, <2>4, GoesOn
<1>6. Linked(w)'
  BY <1>1, <1>2, <1>5 DEF Linked
<1>7. TypeInv'
  BY <1>1, <1>5, <1>6, RequestsType, TypeFrame DEF TypeOK
<1> QED
  BY <1>2, <1>5, <1>7 DEF Moved

LEMMA EndedStep ==
  ASSUME TypeInv, NEW w \in Workers, call[w].at \in CreationSteps,
         NEW outcome \in Outcomes, End(w, outcome),
         UNCHANGED <<transactions, users, lastID, cache>>
  PROVE  TypeInv' /\ Ended(w, outcome)
<1>1. TypeOK /\ call[w].number \in DOMAIN requests
  BY CreatorFacts
<1>2. /\ requests' \in Seq(Request) /\ call' \in [Workers -> Calls]
      /\ call'[w] = IdleCall /\ Ended(w, outcome)
  BY <1>1, EndStep DEF Ended
<1>3. IdleCall.at = "idle" /\ IdleCall.number = 0
  BY DEF IdleCall
<1>4. Fetching(w)' /\ ~ Creating(w)'
  BY <1>2, <1>3 DEF Fetching, Creating
<1>5. /\ \A v \in Workers \ {w} : call'[v] = call[v]
      /\ DOMAIN requests \subseteq DOMAIN requests'
      /\ \A k \in DOMAIN requests : k # call[w].number => requests'[k].ids = requests[k].ids
      /\ call'[w].number \in {0, call[w].number}
  BY <1>2, <1>3 DEF Ended
<1>6. TypeInv'
  BY <1>1, <1>2, <1>4, <1>5, TypeFrame DEF TypeOK
<1> QED
  BY <1>2, <1>6

\* A row is entered, or its ID is taken, or the transaction starts again.
LEMMA InsertStep ==
  ASSUME TypeInv, NEW w \in Workers, InsertRow(w)
  PROVE  /\ TypeInv'
         /\ call[w].at = "insert"
         /\ UNCHANGED <<transactions, lastID, cache>>
         /\ \E i \in DOMAIN call[w].rows, id \in IDs :
              /\ i = call[w].next + 1 /\ id = call[w].rows[i].id
              /\ \/ /\ users[id] = None
                    /\ \A v \in Workers \ {w} : id \notin Held(v)
                    /\ users' = IF transactions THEN users
                                ELSE [users EXCEPT ![id] = UserOf(w, i)]
                    /\ UserOf(w, i) \in User
                    /\ UserOf(w, i).id = id /\ UserOf(w, i).number = call[w].number
                    /\ Moved(w, IF i = Len(call[w].rows) THEN "tag" ELSE "insert", i)
                    /\ UNCHANGED requests
                 \/ users[id] # None /\ Ended(w, "refused") /\ UNCHANGED users
                 \/ /\ transactions /\ Moved(w, "insert", 0)
                    /\ UNCHANGED <<users, requests>>
<1>0. call[w].at = "insert" /\ call[w].at \in CreationSteps
  BY DEF InsertRow, CreationSteps
<1>1. PICK rs \in Rows, nx \in 0 .. MaxRows :
        rs = call[w].rows /\ nx = call[w].next
  BY <1>0, CreatorFacts
<1>2. /\ TypeOK /\ call[w] \in Creation
      /\ Len(rs) \in 1 .. MaxRows /\ DOMAIN rs = 1 .. Len(rs)
      /\ nx < Len(rs)
      /\ \A j \in DOMAIN rs : rs[j].id # None
      /\ rs \in [1 .. Len(rs) -> Row]
  BY <1>0, <1>1, CreatorFacts, RowsType DEF Prepared
<1>3. PICK i \in DOMAIN rs : i = nx + 1
  BY <1>2
<1>4. PICK id \in IDs : id = rs[i].id
  BY <1>2 DEF Row
<1>5. PICK k \in 1 .. MaxRequests : k = call[w].number
  BY <1>2 DEF Creation
<1>6. /\ UserOf(w, i) \in User
      /\ UserOf(w, i).id = id /\ UserOf(w, i).number = call[w].number
  <2>1. rs[i].account \in Accounts \cup {None}
    BY <1>2 DEF Row
  <2>2. UserOf(w, i) = [id |-> id, account |-> rs[i].account, number |-> k]
    BY <1>1, <1>4, <1>5 DEF UserOf
  <2> QED
    BY <1>5, <2>1, <2>2 DEF User
<1>7. i = call[w].next + 1 /\ id = call[w].rows[i].id /\ i \in DOMAIN call[w].rows
  BY <1>1, <1>3, <1>4
<1>8. UNCHANGED <<transactions, lastID, cache>>
  BY DEF InsertRow
<1>9. cache' \in SUBSET [name : Names, user : User] /\ users \in [IDs -> User \cup {None}]
  BY <1>2, <1>8 DEF TypeOK
<1>10. \/ /\ users[id] = None
          /\ \A v \in Workers \ {w} : id \notin Held(v)
          /\ users' = IF transactions THEN users ELSE [users EXCEPT ![id] = UserOf(w, i)]
          /\ call' = [call EXCEPT ![w].next = i,
               ![w].at = IF i = Len(call[w].rows) THEN "tag" ELSE "insert"]
          /\ UNCHANGED requests
       \/ users[id] # None /\ End(w, "refused") /\ UNCHANGED users
       \/ /\ transactions
          /\ call' = [call EXCEPT ![w].next = 0] /\ UNCHANGED <<users, requests>>
  <2>1. \A v \in Workers : id \in Held(v) => transactions
    BY DEF Held, InTransaction
  <2> QED
    BY <1>7, <2>1 DEF InsertRow, InTransaction, Taken
<1>11. CASE /\ users[id] = None
            /\ \A v \in Workers \ {w} : id \notin Held(v)
            /\ users' = IF transactions THEN users ELSE [users EXCEPT ![id] = UserOf(w, i)]
            /\ call' = [call EXCEPT ![w].next = i,
                 ![w].at = IF i = Len(call[w].rows) THEN "tag" ELSE "insert"]
            /\ UNCHANGED requests
  <2>1. PICK at \in {"tag", "insert"} :
          /\ at = (IF i = Len(rs) THEN "tag" ELSE "insert")
          /\ at = "insert" => i < Len(rs)
    BY <1>2
  <2>2. Goes(w, at, i)
    <3>1. call' = [call EXCEPT ![w].next = i, ![w].at = at]
      BY <1>1, <1>11, <2>1
    <3>2. call' = [call EXCEPT ![w] = [call[w] EXCEPT !.next = i, !.at = at]]
      BY <1>2, <3>1 DEF TypeOK
    <3>3. [call[w] EXCEPT !.next = i, !.at = at] = [call[w] EXCEPT !.at = at, !.next = i]
      BY <1>2 DEF Creation
    <3> QED
      BY <3>2, <3>3 DEF Goes
  <2>3. at \in CreationSteps \ {"number"}
    BY <2>1 DEF CreationSteps
  <2>4. i \in 0 .. MaxRows /\ i <= Len(call[w].rows)
    <3>1. i \in 1 .. Len(rs) /\ Len(rs) <= MaxRows
      BY <1>2, <1>3
    <3> QED
      BY <1>1, <3>1, BoundsAssumption
  <2>5. call[w].at # "number"
    BY <1>0
  <2>6. at = "insert" => i < Len(call[w].rows)
    BY <1>1, <2>1
  <2>7. users' \in [IDs -> User \cup {None}]
    BY <1>6, <1>9, <1>11
  <2>8. UNCHANGED <<transactions, lastID, requests>>
    BY <1>8, <1>11
  <2>9. TypeInv' /\ Moved(w, at, i)
    BY <1>0, <1>9, <2>2, <2>3, <2>4, <2>5, <2>6, <2>7, <2>8, MovedStep
  <2> QED
    BY <1>0, <1>1, <1>6, <1>7, <1>8, <1>11, <2>1, <2>9
<1>12. CASE users[id] # None /\ End(w, "refused") /\ UNCHANGED users
  <2>1. UNCHANGED <<transactions, users, lastID, cache>>
    BY <1>8, <1>12
  <2>2. "refused" \in Outcomes
    BY DEF Outcomes
  <2>3. TypeInv' /\ Ended(w, "refused")
    BY <1>0, <1>12, <2>1, <2>2, EndedStep
  <2> QED
    BY <1>0, <1>7, <1>8, <1>12, <2>3
<1>13. CASE /\ transactions
            /\ call' = [call EXCEPT ![w].next = 0] /\ UNCHANGED <<users, requests>>
  <2>1. Goes(w, "insert", 0)
    <3>1. call' = [call EXCEPT ![w] = [call[w] EXCEPT !.next = 0]]
      BY <1>2, <1>13 DEF TypeOK
    <3>2. [call[w] EXCEPT !.next = 0] = [call[w] EXCEPT !.at = "insert", !.next = 0]
      BY <1>0, <1>2 DEF Creation
    <3> QED
      BY <3>1, <3>2 DEF Goes
  <2>2. "insert" \in CreationSteps \ {"number"}
    BY DEF CreationSteps
  <2>3. 0 \in 0 .. MaxRows /\ 0 <= Len(call[w].rows) /\ 0 < Len(call[w].rows)
    BY <1>1, <1>2, BoundsAssumption
  <2>4. call[w].at # "number"
    BY <1>0
  <2>5. users' \in [IDs -> User \cup {None}]
    BY <1>9, <1>13
  <2>6. UNCHANGED <<transactions, lastID, requests>>
    BY <1>8, <1>13
  <2>7. TypeInv' /\ Moved(w, "insert", 0)
    BY <1>0, <1>9, <2>1, <2>2, <2>3, <2>4, <2>5, <2>6, MovedStep
  <2> QED
    BY <1>0, <1>7, <1>8, <1>13, <2>7
<1> QED
  BY <1>10, <1>11, <1>12, <1>13

LEMMA TagStep ==
  ASSUME TypeInv, NEW w \in Workers, Tag(w)
  PROVE  /\ TypeInv'
         /\ call[w].at = "tag"
         /\ Moved(w, IF transactions THEN "commit" ELSE "created", call[w].next)
         /\ cache' \subseteq cache
         /\ UNCHANGED <<transactions, users, lastID, requests>>
<1>0. call[w].at = "tag" /\ call[w].at \in CreationSteps
  BY DEF Tag, CreationSteps
<1>1. /\ TypeOK /\ call[w] \in Creation /\ call[w].next \in 0 .. MaxRows
      /\ call[w].next <= Len(call[w].rows)
  BY <1>0, CreatorFacts
<1>2. PICK at \in {"commit", "created"} : at = (IF transactions THEN "commit" ELSE "created")
  OBVIOUS
<1>3. Goes(w, at, call[w].next)
  <2>1. call' = [call EXCEPT ![w].at = at]
    BY <1>2 DEF Tag, Goto, InTransaction
  <2>2. call' = [call EXCEPT ![w] = [call[w] EXCEPT !.at = at]]
    BY <1>1, <2>1 DEF TypeOK
  <2>3. [call[w] EXCEPT !.at = at] = [call[w] EXCEPT !.at = at, !.next = call[w].next]
    BY <1>1 DEF Creation
  <2> QED
    BY <2>2, <2>3 DEF Goes
<1>4. /\ cache' \subseteq cache /\ cache' \in SUBSET [name : Names, user : User]
      /\ UNCHANGED <<transactions, users, lastID, requests>>
      /\ users' \in [IDs -> User \cup {None}]
  BY <1>1 DEF Tag, TypeOK
<1>5. at \in CreationSteps \ {"number"} /\ call[w].at # "number" /\ at # "insert"
  BY <1>0, <1>2 DEF CreationSteps
<1>6. TypeInv' /\ Moved(w, at, call[w].next)
  BY <1>0, <1>1, <1>3, <1>4, <1>5, MovedStep
<1> QED
  BY <1>0, <1>2, <1>4, <1>6

LEMMA CommitStep ==
  ASSUME TypeInv, NEW w \in Workers, Commit(w)
  PROVE  /\ TypeInv'
         /\ call[w].at = "commit"
         /\ \A id \in IDs :
              IF \E i \in DOMAIN call[w].rows : call[w].rows[i].id = id
              THEN /\ users'[id] \in User
                   /\ users'[id].id = id /\ users'[id].number = call[w].number
              ELSE users'[id] = users[id]
         /\ Moved(w, "created", call[w].next)
         /\ UNCHANGED <<transactions, lastID, cache, requests>>
<1>0. call[w].at = "commit" /\ call[w].at \in CreationSteps
  BY DEF Commit, CreationSteps
<1>1. PICK rs \in Rows, k \in 1 .. MaxRequests :
        rs = call[w].rows /\ k = call[w].number
  BY <1>0, CreatorFacts DEF Creation
<1>2. /\ TypeOK /\ call[w] \in Creation /\ call[w].next \in 0 .. MaxRows
      /\ call[w].next <= Len(call[w].rows)
      /\ \A j \in DOMAIN rs : rs[j].id # None
      /\ rs \in [DOMAIN rs -> Row]
  BY <1>0, <1>1, CreatorFacts, RowsType DEF Prepared
<1>3. ASSUME NEW id \in IDs
      PROVE  IF \E i \in DOMAIN rs : rs[i].id = id
             THEN /\ users'[id] \in User
                  /\ users'[id].id = id /\ users'[id].number = k
             ELSE users'[id] = users[id]
  <2>1. PICK mine : mine = {i \in DOMAIN rs : rs[i].id = id}
    OBVIOUS
  <2>2. users'[id] = IF mine = {} THEN users[id]
                     ELSE UserOf(w, CHOOSE i \in mine : TRUE)
    BY <1>1, <2>1 DEF Commit
  <2>3. CASE mine # {}
    <3>1. PICK i \in DOMAIN rs : i = (CHOOSE j \in mine : TRUE) /\ rs[i].id = id
      BY <2>1, <2>3
    <3>2. users'[id] = [id |-> id, account |-> rs[i].account, number |-> k]
      BY <1>1, <2>2, <2>3, <3>1 DEF UserOf
    <3>3. rs[i].account \in Accounts \cup {None}
      BY <1>2 DEF Row
    <3> QED
      BY <3>1, <3>2, <3>3 DEF User
  <2>4. CASE mine = {}
    BY <2>1, <2>2, <2>4
  <2> QED
    BY <2>3, <2>4
<1>4. users' \in [IDs -> User \cup {None}]
  <2>1. \A id \in IDs : users'[id] \in User \cup {None}
    BY <1>2, <1>3 DEF TypeOK
  <2>2. PICK f : users' = [id \in IDs |-> f[id]]
    <3>1. PICK f : f = [id \in IDs |->
            LET mine == {i \in DOMAIN call[w].rows : call[w].rows[i].id = id}
            IN  IF mine = {} THEN users[id] ELSE UserOf(w, CHOOSE i \in mine : TRUE)]
      OBVIOUS
    <3>2. users' = f
      BY <3>1 DEF Commit
    <3> QED
      BY <3>1, <3>2
  <2> QED
    BY <2>1, <2>2
<1>5. Goes(w, "created", call[w].next)
  <2>1. call' = [call EXCEPT ![w] = [call[w] EXCEPT !.at = "created"]]
    BY <1>2 DEF TypeOK, Commit, Goto
  <2>2. [call[w] EXCEPT !.at = "created"] = [call[w] EXCEPT !.at = "created", !.next = call[w].next]
    BY <1>2 DEF Creation
  <2> QED
    BY <2>1, <2>2 DEF Goes
<1>6. /\ UNCHANGED <<transactions, lastID, requests>> /\ cache' = cache
      /\ cache' \in SUBSET [name : Names, user : User]
  BY <1>2 DEF Commit, TypeOK
<1>7. "created" \in CreationSteps \ {"number"} /\ call[w].at # "number"
  BY <1>0 DEF CreationSteps
<1>8. TypeInv' /\ Moved(w, "created", call[w].next)
  BY <1>0, <1>2, <1>4, <1>5, <1>6, <1>7, MovedStep
<1> QED
  BY <1>0, <1>1, <1>3, <1>6, <1>8

\* A call that looks users up, gone on: its label, its name and what it found change.
Sought(old, at, name, found) == [old EXCEPT !.at = at, !.name = name, !.found = found]

LEMMA SoughtType ==
  ASSUME NEW old \in Lookup,
         NEW at \in LookupSteps, NEW name \in Names \cup {None}, NEW found \in SUBSET Found,
         at \in {"load", "fill"} => name \in old.asked,
         at = "fill" => \E p \in found : p.name = name
  PROVE  LET c == Sought(old, at, name, found) IN
         /\ c \in Calls
         /\ c.at = at /\ c.name = name /\ c.found = found /\ c.number = 0
         /\ c.op = old.op /\ c.asked = old.asked /\ c.sure = old.sure
<1>1. PICK c : c = [old EXCEPT !.at = at, !.name = name, !.found = found]
  OBVIOUS
<1>2. c \in Lookup
  BY <1>1 DEF Lookup, LookupSteps
<1>3. /\ c.at = at /\ c.name = name /\ c.found = found /\ c.number = 0
      /\ c.op = old.op /\ c.asked = old.asked /\ c.sure = old.sure
  BY <1>1 DEF Lookup
<1>4. c \notin Creation
  BY <1>3 DEF Creation, LookupSteps
<1>5. Prepared(c)
  BY <1>3, <1>4 DEF Prepared, LookupSteps
<1>6. Sought(old, at, name, found) = c
  BY <1>1 DEF Sought
<1> QED
  BY <1>2, <1>3, <1>5, <1>6 DEF Calls

\* The call of w looks on, and no other call changes.
Searches(w, at, name, found) ==
  /\ call'[w].at = at /\ call'[w].name = name /\ call'[w].found = found
  /\ call'[w].op = call[w].op /\ call'[w].asked = call[w].asked
  /\ call'[w].sure = call[w].sure
  /\ \A v \in Workers \ {w} : call'[v] = call[v]

LEMMA SearchesStep ==
  ASSUME TypeInv, NEW w \in Workers, call[w].at \in LookupSteps,
         NEW at \in LookupSteps, NEW name \in Names \cup {None}, NEW found \in SUBSET Found,
         at \in {"load", "fill"} => name \in call[w].asked,
         at = "load" => \A p \in found : p.name # name,
         at = "fill" => /\ \E p \in found : p.name = name
                        /\ \A p \in found : p.name = name => p.user # None,
         NEW c, c = Sought(call[w], at, name, found), call' = [call EXCEPT ![w] = c],
         cache' \in SUBSET [name : Names, user : User],
         UNCHANGED <<transactions, users, lastID, requests>>
  PROVE  TypeInv' /\ Searches(w, at, name, found)
<1>1. TypeOK /\ call[w] \in Lookup
  BY CallKinds DEF TypeInv
<1>2. /\ c \in Calls
      /\ c.at = at /\ c.name = name /\ c.found = found /\ c.number = 0
      /\ c.op = call[w].op /\ c.asked = call[w].asked /\ c.sure = call[w].sure
  BY <1>1, SoughtType
<1>3. /\ call' \in [Workers -> Calls]
      /\ call'[w] = c /\ \A v \in Workers \ {w} : call'[v] = call[v]
  BY <1>1, <1>2, CallsType
<1>4. Fetching(w)' /\ ~ Creating(w)'
  BY <1>2, <1>3 DEF Fetching, Creating
<1>5. TypeInv'
  BY <1>1, <1>2, <1>3, <1>4, RequestsType, TypeFrame DEF TypeOK
<1> QED
  BY <1>2, <1>3, <1>5 DEF Searches

\* What is known of a worker that looks users up.
LEMMA LookupFacts ==
  ASSUME TypeInv, NEW w \in Workers, call[w].at \in LookupSteps
  PROVE  /\ TypeOK /\ Fetching(w) /\ call[w] \in Lookup /\ Prepared(call[w])
         /\ call[w].asked \in SUBSET Names /\ call[w].found \in SUBSET Found
         /\ call[w].name \in Names \cup {None} /\ call[w].op \in {"Find", "Login"}
         /\ call[w].number = 0
BY CallKinds DEF TypeInv, Lookup

LEMMA BeginLookupStep ==
  ASSUME TypeInv, NEW w \in Workers, NEW op \in {"Find", "Login"},
         NEW names \in SUBSET Names, BeginLookup(w, op, names)
  PROVE  /\ TypeInv'
         /\ call'[w].at = "look" /\ call'[w].op = op /\ call'[w].asked = names
         /\ call'[w].found = {}
         /\ call'[w].sure => \A n \in names : Matches(op, n) # {}
         /\ \A v \in Workers \ {w} : call'[v] = call[v]
         /\ UNCHANGED <<transactions, users, lastID, cache, requests>>
<1>1. TypeOK /\ call[w].number = 0
  BY CallKinds DEF TypeInv, BeginLookup, IdleCall
<1>2. PICK sure \in BOOLEAN : sure = (\A n \in names : Matches(op, n) # {})
  OBVIOUS
<1>3. PICK idle \in [at : {"idle"}, op : {"none"}, number : {0}, rows : {<<>>}, next : {0},
                     asked : {{}}, name : {None}, found : {{}}, sure : BOOLEAN] :
        idle = IdleCall
  BY DEF IdleCall
<1>4. PICK c : /\ c = [idle EXCEPT !.at = "look", !.op = op, !.asked = names, !.sure = sure]
               /\ call' = [call EXCEPT ![w] = c]
  BY <1>2, <1>3 DEF BeginLookup
<1>5. c \in Lookup
  BY <1>4 DEF Lookup
<1>6. /\ c.at = "look" /\ c.op = op /\ c.asked = names /\ c.found = {} /\ c.number = 0
      /\ c.sure = sure
  BY <1>4
<1>7. c \notin Creation /\ Prepared(c)
  BY <1>6 DEF Prepared, Creation
<1>8. /\ call' \in [Workers -> Calls]
      /\ call'[w] = c /\ \A v \in Workers \ {w} : call'[v] = call[v]
  BY <1>1, <1>4, <1>5, <1>7, CallsType DEF Calls
<1>9. Fetching(w)' /\ ~ Creating(w)'
  BY <1>6, <1>8 DEF Fetching, Creating
<1>10. UNCHANGED <<transactions, users, lastID, cache, requests>>
  BY DEF BeginLookup
<1>11. TypeInv'
  BY <1>1, <1>6, <1>8, <1>9, <1>10, RequestsType, TypeFrame DEF TypeOK
<1> QED
  BY <1>2, <1>6, <1>8, <1>10, <1>11

LEMMA LookStep ==
  ASSUME TypeInv, NEW w \in Workers, Look(w)
  PROVE  /\ TypeInv'
         /\ call[w].at = "look"
         /\ UNCHANGED <<transactions, users, lastID, cache, requests>>
         /\ \E n \in call[w].asked :
              \/ \E p \in cache : /\ p.name = n
                                  /\ Searches(w, "look", call[w].name, call[w].found \cup {p})
              \/ Searches(w, "load", n, call[w].found)
<1>0. call[w].at = "look" /\ call[w].at \in LookupSteps
  BY DEF Look, LookupSteps
<1>1. /\ TypeOK /\ call[w] \in Lookup
      /\ call[w].asked \in SUBSET Names /\ call[w].found \in SUBSET Found
      /\ call[w].name \in Names \cup {None}
  BY <1>0, LookupFacts
<1>2. UNCHANGED <<transactions, users, lastID, cache, requests>>
  BY DEF Look
<1>3. cache' \in SUBSET [name : Names, user : User] /\ cache \in SUBSET Found
  BY <1>1, <1>2 DEF TypeOK, Found
<1>4. PICK n \in Left(w) :
        \/ \E p \in cache : /\ p.name = n
                            /\ call' = [call EXCEPT ![w].found = @ \cup {p}]
        \/ call' = [call EXCEPT ![w].at = "load", ![w].name = n]
  BY DEF Look
<1>5. n \in call[w].asked /\ n \in Names /\ \A p \in call[w].found : p.name # n
  BY <1>1, <1>4 DEF Left
<1>6. CASE \E p \in cache : /\ p.name = n
                            /\ call' = [call EXCEPT ![w].found = @ \cup {p}]
  <2>1. PICK p \in cache : p.name = n /\ call' = [call EXCEPT ![w].found = @ \cup {p}]
    BY <1>6
  <2>2. PICK found \in SUBSET Found : found = call[w].found \cup {p}
    BY <1>1, <1>3
  <2>3. PICK c : c = Sought(call[w], "look", call[w].name, found) /\ call' = [call EXCEPT ![w] = c]
    <3>1. call' = [call EXCEPT ![w] = [call[w] EXCEPT !.found = found]]
      BY <1>1, <2>1, <2>2 DEF TypeOK
    <3>2. [call[w] EXCEPT !.found = found] = Sought(call[w], "look", call[w].name, found)
      BY <1>0, <1>1 DEF Sought, Lookup
    <3> QED
      BY <3>1, <3>2
  <2>4. "look" \in LookupSteps
    BY DEF LookupSteps
  <2>5. UNCHANGED <<transactions, users, lastID, requests>>
    BY <1>2
  <2>6. TypeInv' /\ Searches(w, "look", call[w].name, found)
    BY <1>0, <1>1, <1>3, <2>3, <2>4, <2>5, SearchesStep
  <2> QED
    BY <1>0, <1>2, <1>5, <2>1, <2>2, <2>6
<1>7. CASE call' = [call EXCEPT ![w].at = "load", ![w].name = n]
  <2>1. PICK c : c = Sought(call[w], "load", n, call[w].found) /\ call' = [call EXCEPT ![w] = c]
    <3>1. call' = [call EXCEPT ![w] = [call[w] EXCEPT !.at = "load", !.name = n]]
      BY <1>1, <1>7 DEF TypeOK
    <3>2. [call[w] EXCEPT !.at = "load", !.name = n] = Sought(call[w], "load", n, call[w].found)
      BY <1>0, <1>1 DEF Sought, Lookup
    <3> QED
      BY <3>1, <3>2
  <2>2. "load" \in LookupSteps
    BY DEF LookupSteps
  <2>3. UNCHANGED <<transactions, users, lastID, requests>>
    BY <1>2
  <2>4. n \in Names \cup {None}
    BY <1>5
  <2>5. TypeInv' /\ Searches(w, "load", n, call[w].found)
    BY <1>0, <1>1, <1>3, <1>5, <2>1, <2>2, <2>3, <2>4, SearchesStep
  <2> QED
    BY <1>0, <1>2, <1>5, <2>5
<1> QED
  BY <1>4, <1>6, <1>7

LEMMA LoadStep ==
  ASSUME TypeInv, NEW w \in Workers, Load(w)
  PROVE  /\ TypeInv'
         /\ call[w].at = "load" /\ call[w].name \in call[w].asked
         /\ UNCHANGED <<transactions, users, lastID, cache, requests>>
         /\ \E u \in User \cup {None}, p \in Found :
              /\ p.name = call[w].name /\ p.user = u
              /\ IF u = None THEN Matches(call[w].op, call[w].name) = {}
                             ELSE u \in Matches(call[w].op, call[w].name)
              /\ Searches(w, IF u # None THEN "fill" ELSE "look", call[w].name,
                          call[w].found \cup {p})
<1>0. call[w].at = "load" /\ call[w].at \in LookupSteps
  BY DEF Load, LookupSteps
<1>1. /\ TypeOK /\ call[w] \in Lookup
      /\ call[w].asked \in SUBSET Names /\ call[w].found \in SUBSET Found
      /\ call[w].name \in call[w].asked /\ call[w].name \in Names
      /\ \A q \in call[w].found : q.name # call[w].name
  BY <1>0, LookupFacts DEF Prepared, Fetching
<1>2. UNCHANGED <<transactions, users, lastID, cache, requests>>
  BY DEF Load
<1>3. cache' \in SUBSET [name : Names, user : User] /\ Stored \subseteq User
  BY <1>1, <1>2 DEF TypeOK, Stored
<1>4. PICK u \in Stored \cup {None} :
        /\ IF u = None THEN Matches(call[w].op, call[w].name) = {}
                       ELSE u \in Matches(call[w].op, call[w].name)
        /\ call' = [call EXCEPT ![w].at = IF Worth(u) THEN "fill" ELSE "look",
             ![w].found = @ \cup {[name |-> call[w].name, user |-> u]}]
  BY DEF Load
<1>5. PICK p \in Found : p.name = call[w].name /\ p.user = u
                         /\ p = [name |-> call[w].name, user |-> u]
  BY <1>1, <1>3, <1>4 DEF Found
<1>6. PICK at \in {"fill", "look"} : at = (IF u # None THEN "fill" ELSE "look")
  OBVIOUS
<1>7. PICK found \in SUBSET Found : found = call[w].found \cup {p}
  BY <1>1
<1>8. PICK c : /\ c = Sought(call[w], at, call[w].name, found)
               /\ call' = [call EXCEPT ![w] = c]
  <2>1. call' = [call EXCEPT ![w].at = at, ![w].found = @ \cup {p}]
    BY <1>4, <1>5, <1>6 DEF Worth
  <2>2. call' = [call EXCEPT ![w] = [call[w] EXCEPT !.at = at, !.found = found]]
    BY <1>1, <1>7, <2>1 DEF TypeOK
  <2>3. [call[w] EXCEPT !.at = at, !.found = found] = Sought(call[w], at, call[w].name, found)
    BY <1>1 DEF Sought, Lookup
  <2> QED
    BY <2>2, <2>3
<1>9. at \in LookupSteps /\ call[w].name \in Names \cup {None} /\ at # "load"
  BY <1>1, <1>6 DEF LookupSteps
<1>10. at = "fill" => /\ \E q \in found : q.name = call[w].name
                      /\ \A q \in found : q.name = call[w].name => q.user # None
  BY <1>1, <1>5, <1>6, <1>7
<1>11. UNCHANGED <<transactions, users, lastID, requests>>
  BY <1>2
<1>12. TypeInv' /\ Searches(w, at, call[w].name, found)
  BY <1>0, <1>1, <1>3, <1>8, <1>9, <1>10, <1>11, SearchesStep
<1> QED
  BY <1>0, <1>1, <1>2, <1>3, <1>4, <1>5, <1>6, <1>7, <1>12

LEMMA FillStep ==
  ASSUME TypeInv, NEW w \in Workers, Fill(w)
  PROVE  /\ TypeInv'
         /\ call[w].at = "fill"
         /\ UNCHANGED <<transactions, users, lastID, requests>>
         /\ \A p \in cache' : \/ p \in cache
                              \/ p \in call[w].found /\ p.user # None
         /\ Searches(w, "look", call[w].name, call[w].found)
<1>0. call[w].at = "fill" /\ call[w].at \in LookupSteps
  BY DEF Fill, LookupSteps
<1>1. /\ TypeOK /\ call[w] \in Lookup /\ call[w].found \in SUBSET Found
      /\ call[w].name \in Names \cup {None}
      /\ \A p \in call[w].found : p.name = call[w].name => p.user # None
  BY <1>0, LookupFacts DEF Fetching
<1>2. UNCHANGED <<transactions, users, lastID, requests>>
  BY DEF Fill
<1>3. \A p \in cache' : p \in cache \/ (p \in call[w].found /\ p.user # None)
  BY <1>1 DEF Fill, CopyOf
<1>4. cache' \in SUBSET [name : Names, user : User]
  BY <1>1, <1>3 DEF TypeOK, Found
<1>5. PICK c : /\ c = Sought(call[w], "look", call[w].name, call[w].found)
               /\ call' = [call EXCEPT ![w] = c]
  <2>1. call' = [call EXCEPT ![w] = [call[w] EXCEPT !.at = "look"]]
    BY <1>1 DEF Fill, Goto, TypeOK
  <2>2. [call[w] EXCEPT !.at = "look"] = Sought(call[w], "look", call[w].name, call[w].found)
    BY <1>1 DEF Sought, Lookup
  <2> QED
    BY <2>1, <2>2
<1>6. "look" \in LookupSteps
  BY DEF LookupSteps
<1>7. TypeInv' /\ Searches(w, "look", call[w].name, call[w].found)
  BY <1>0, <1>1, <1>2, <1>4, <1>5, <1>6, SearchesStep
<1> QED
  BY <1>0, <1>2, <1>3, <1>7

\* A lookup ends.
LEMMA ReturnStep ==
  ASSUME TypeInv, NEW w \in Workers, call[w].at \in LookupSteps, Return(w),
         UNCHANGED <<transactions, users, lastID, cache, requests>>
  PROVE  /\ TypeInv' /\ call'[w] = IdleCall
         /\ \A v \in Workers \ {w} : call'[v] = call[v]
<1>1. TypeOK
  BY DEF TypeInv
<1>2. /\ call' = [call EXCEPT ![w] = IdleCall] /\ IdleCall \in Calls
      /\ IdleCall.at = "idle" /\ IdleCall.number = 0
  BY DEF Return, Calls, IdleCall
<1>3. /\ call' \in [Workers -> Calls]
      /\ call'[w] = IdleCall /\ \A v \in Workers \ {w} : call'[v] = call[v]
  BY <1>1, <1>2, CallsType
<1>4. Fetching(w)' /\ ~ Creating(w)'
  BY <1>2, <1>3 DEF Fetching, Creating
<1>5. TypeInv'
  BY <1>1, <1>2, <1>3, <1>4, RequestsType, TypeFrame DEF TypeOK
<1> QED
  BY <1>3, <1>5

LEMMA AnswerStep ==
  ASSUME TypeInv, NEW w \in Workers, AnswerLookup(w)
  PROVE  /\ TypeInv' /\ call'[w] = IdleCall
         /\ call[w].at \in LookupSteps
         /\ \A v \in Workers \ {w} : call'[v] = call[v]
         /\ UNCHANGED <<transactions, users, lastID, cache, requests>>
<1>1. call[w].at \in LookupSteps
  BY DEF AnswerLookup, Answered, LookupSteps
<1>2. Return(w) /\ UNCHANGED <<transactions, users, lastID, cache, requests>>
  BY DEF AnswerLookup
<1> QED
  BY <1>1, <1>2, ReturnStep

LEMMA CreatedStep ==
  ASSUME TypeInv, NEW w \in Workers, Created(w)
  PROVE  /\ TypeInv' /\ call[w].at = "created" /\ Ended(w, "done")
         /\ UNCHANGED <<transactions, users, lastID, cache>>
<1>1. call[w].at \in CreationSteps /\ "done" \in Outcomes
  BY DEF Created, CreationSteps, Outcomes
<1>2. End(w, "done") /\ UNCHANGED <<transactions, users, lastID, cache>>
  BY DEF Created
<1> QED
  BY <1>1, <1>2, EndedStep DEF Created

LEMMA FailStep ==
  ASSUME TypeInv, NEW w \in Workers, Fail(w)
  PROVE  /\ TypeInv'
         /\ UNCHANGED <<transactions, users, lastID, cache>>
         /\ \/ call[w].at \in CreationSteps /\ Ended(w, "broken")
            \/ /\ call[w].at \in LookupSteps /\ call'[w] = IdleCall
               /\ \A v \in Workers \ {w} : call'[v] = call[v]
               /\ UNCHANGED requests
<1>1. TypeOK /\ UNCHANGED <<transactions, users, lastID, cache>>
  BY DEF TypeInv, Fail
<1>2. call[w].at \in CreationSteps \cup LookupSteps
  BY <1>1, CallKinds DEF Fail
<1>3. CASE Creating(w)
  <2>1. call[w].at \in CreationSteps /\ "broken" \in Outcomes
    BY <1>1, <1>3, CreatingSteps DEF Outcomes
  <2>2. End(w, "broken")
    BY <1>3 DEF Fail, Creating
  <2> QED
    BY <1>1, <2>1, <2>2, EndedStep
<1>4. CASE ~ Creating(w)
  <2>1. call[w].at \in LookupSteps
    BY <1>1, <1>2, <1>4, CreatingSteps
  <2>2. Return(w) /\ UNCHANGED requests
    BY <1>4 DEF Fail, Creating
  <2> QED
    BY <1>1, <2>1, <2>2, ReturnStep
<1> QED
  BY <1>3, <1>4

\* The counter gives a number, or the request ends without one.
LEMMA NumberStep ==
  ASSUME TypeInv, NEW w \in Workers, GenerateUserID(w)
  PROVE  \/ lastID + 1 <= Len(Numbered)
         \/ /\ TypeInv' /\ call[w].at = "number" /\ Ended(w, "broken")
            /\ UNCHANGED <<transactions, users, lastID, cache>>
<1>1. SUFFICES ASSUME ~ (lastID + 1 <= Len(Numbered))
               PROVE  /\ TypeInv' /\ call[w].at = "number" /\ Ended(w, "broken")
                      /\ UNCHANGED <<transactions, users, lastID, cache>>
  OBVIOUS
<1>2. /\ call[w].at = "number" /\ call[w].at \in CreationSteps /\ "broken" \in Outcomes
      /\ End(w, "broken") /\ UNCHANGED <<transactions, users, lastID, cache>>
  BY <1>1 DEF GenerateUserID, NextNumber, CreationSteps, Outcomes
<1> QED
  BY <1>2, EndedStep

LEMMA RegisterStep ==
  ASSUME NEW n \in 1 .. MaxRows, NEW ids \in [1 .. n -> Chosen],
         NEW w \in Workers, UserRegister(w, ids)
  PROVE  \E rows \in Rows :
           /\ BeginCreate(w, "Register", "insert", rows)
           /\ \A i \in DOMAIN rows : rows[i].id \in Chosen
           /\ \A i, j \in DOMAIN rows : rows[i].id = rows[j].id => i = j
<1>1. PICK rows : rows = [i \in 1 .. n |-> [id |-> ids[i], account |-> None]]
  OBVIOUS
<1>2. \A i \in 1 .. n : [id |-> ids[i], account |-> None] \in Row
  BY DEF Row, IDs
<1>3. rows \in [1 .. n -> Row] /\ \A i \in 1 .. n : rows[i].id = ids[i]
  BY <1>1, <1>2
<1>4. rows \in Rows
  BY <1>3 DEF Rows
<1>5. \A i, j \in 1 .. n : ids[i] = ids[j] => i = j
  BY DEF UserRegister, IsInjective
<1>6. BeginCreate(w, "Register", "insert", rows)
  <2>1. DOMAIN ids = 1 .. n
    OBVIOUS
  <2> QED
    BY <1>1, <2>1 DEF UserRegister
<1> QED
  BY <1>3, <1>4, <1>5, <1>6

LEMMA ImportStep ==
  ASSUME NEW n \in 1 .. MaxRows, NEW accounts \in [1 .. n -> Accounts],
         NEW w \in Workers, Import(w, accounts)
  PROVE  \E rows \in Rows :
           /\ BeginCreate(w, "Import", "number", rows)
           /\ \A i \in DOMAIN rows : rows[i].id = None
<1>1. PICK rows : rows = [i \in 1 .. n |-> [id |-> None, account |-> accounts[i]]]
  OBVIOUS
<1>2. \A i \in 1 .. n : [id |-> None, account |-> accounts[i]] \in Row
  BY DEF Row
<1>3. rows \in [1 .. n -> Row] /\ \A i \in 1 .. n : rows[i].id = None
  BY <1>1, <1>2
<1>4. rows \in Rows
  BY <1>3 DEF Rows
<1>5. BeginCreate(w, "Import", "number", rows)
  <2>1. DOMAIN accounts = 1 .. n
    OBVIOUS
  <2> QED
    BY <1>1, <2>1 DEF Import
<1> QED
  BY <1>3, <1>4, <1>5

-----------------------------------------------------------------------------
(* What a step does to the requests and to the users, as the proofs below need *)
(* it; the lookups are one case for both.                                      *)

OthersGoOn(w) == \A v \in Workers \ {w} : call'[v] = call[v]

Started(w) ==
  LET n == Len(requests) + 1 IN
  /\ ~ Creating(w)
  /\ n \notin DOMAIN requests /\ DOMAIN requests' = DOMAIN requests \cup {n}
  /\ \A k \in DOMAIN requests : requests'[k] = requests[k]
  /\ requests'[n].outcome = "open"
  /\ call'[w].number = n /\ call'[w].next = 0
  /\ DOMAIN requests'[n].ids = DOMAIN call'[w].rows
  /\ \/ call'[w].at = "number" /\ \A i \in DOMAIN requests'[n].ids : requests'[n].ids[i] = None
     \/ /\ call'[w].at = "insert"
        /\ \A i \in DOMAIN requests'[n].ids : requests'[n].ids[i] \in Chosen
        /\ \A i, j \in DOMAIN requests'[n].ids :
             requests'[n].ids[i] = requests'[n].ids[j] => i = j
  /\ OthersGoOn(w) /\ UNCHANGED <<transactions, users, lastID>>

Drew(w) ==
  /\ call[w].at = "number" /\ lastID + 1 <= Len(Numbered) /\ lastID' = lastID + 1
  /\ DOMAIN requests' = DOMAIN requests
  /\ \A k \in DOMAIN requests :
       /\ requests'[k].outcome = requests[k].outcome
       /\ DOMAIN requests'[k].ids = DOMAIN requests[k].ids
       /\ \A i \in DOMAIN requests[k].ids :
            requests'[k].ids[i] =
              IF k = call[w].number /\ i = call[w].next + 1 THEN Numbered[lastID + 1]
              ELSE requests[k].ids[i]
  /\ call'[w].at \in {"number", "insert"} /\ call'[w].number = call[w].number
  /\ call'[w].next = IF call'[w].at = "insert" THEN 0 ELSE call[w].next + 1
  /\ DOMAIN call'[w].rows = DOMAIN call[w].rows
  /\ OthersGoOn(w) /\ UNCHANGED <<transactions, users>>

Entered(w) ==
  /\ call[w].at = "insert"
  /\ \E i \in DOMAIN call[w].rows, id \in IDs :
       /\ i = call[w].next + 1 /\ id = call[w].rows[i].id
       /\ users[id] = None
       /\ \A v \in Workers \ {w} : id \notin Held(v)
       /\ users' = IF transactions THEN users ELSE [users EXCEPT ![id] = UserOf(w, i)]
       /\ UserOf(w, i) \in User
       /\ UserOf(w, i).id = id /\ UserOf(w, i).number = call[w].number
       /\ Moved(w, IF i = Len(call[w].rows) THEN "tag" ELSE "insert", i)
  /\ UNCHANGED <<transactions, lastID, requests>>

Refused(w) ==
  /\ call[w].at = "insert"
  /\ \E i \in DOMAIN call[w].rows, id \in IDs :
       i = call[w].next + 1 /\ id = call[w].rows[i].id /\ users[id] # None
  /\ Ended(w, "refused") /\ UNCHANGED <<transactions, users, lastID>>

Restarted(w) ==
  /\ call[w].at = "insert" /\ transactions /\ Moved(w, "insert", 0)
  /\ UNCHANGED <<transactions, users, lastID, requests>>

Tagged(w) ==
  /\ call[w].at = "tag"
  /\ Moved(w, IF transactions THEN "commit" ELSE "created", call[w].next)
  /\ UNCHANGED <<transactions, users, lastID, requests>>

Committed(w) ==
  /\ call[w].at = "commit"
  /\ \A id \in IDs :
       IF \E i \in DOMAIN call[w].rows : call[w].rows[i].id = id
       THEN users'[id] \in User /\ users'[id].id = id /\ users'[id].number = call[w].number
       ELSE users'[id] = users[id]
  /\ Moved(w, "created", call[w].next)
  /\ UNCHANGED <<transactions, lastID, requests>>

Finished(w) ==
  call[w].at = "created" /\ Ended(w, "done") /\ UNCHANGED <<transactions, users, lastID>>

Broke(w) ==
  /\ call[w].at \in CreationSteps
  /\ Ended(w, "broken") /\ UNCHANGED <<transactions, users, lastID>>

Looked(w) ==
  /\ ~ Creating(w) /\ ~ Creating(w)' /\ call'[w].at \notin CreationSteps
  /\ OthersGoOn(w) /\ UNCHANGED <<transactions, users, lastID, requests>>

Rested == UNCHANGED <<transactions, users, lastID, call, requests>>

LEMMA NextLookup ==
  ASSUME TypeInv', NEW w \in Workers,
         call'[w] = IdleCall \/ call'[w].at \in LookupSteps
  PROVE  ~ Creating(w)' /\ call'[w].at \notin CreationSteps
<1>1. call'[w] \in Calls
  <2>1. TypeOK'
    BY DEF TypeInv
  <2>2. call' \in [Workers -> Calls]
    BY <2>1 DEF TypeOK, Calls
  <2> QED
    BY <2>2
<1>2. call'[w] = IdleCall \/ call'[w] \in Lookup
  BY <1>1 DEF Calls, Creation, LookupSteps
<1> QED
  BY <1>2 DEF Creating, Lookup, IdleCall, CreationSteps

LEMMA BeginEffect ==
  ASSUME TypeInv, NEW w \in Workers, Begin(w)
  PROVE  TypeInv' /\ (Started(w) \/ Looked(w))
<1>0. TypeOK
  BY DEF TypeInv
<1>1. ASSUME NEW op \in {"Register", "Import"}, NEW label \in {"number", "insert"},
             NEW rows \in Rows, BeginCreate(w, op, label, rows),
             \/ label = "number" /\ \A i \in DOMAIN rows : rows[i].id = None
             \/ /\ label = "insert" /\ \A i \in DOMAIN rows : rows[i].id \in Chosen
                /\ \A i, j \in DOMAIN rows : rows[i].id = rows[j].id => i = j
      PROVE  TypeInv' /\ Started(w)
  <2>1. ~ Creating(w)
    BY <1>0, <1>1, CreatingSteps DEF BeginCreate, CreationSteps
  <2>2. label = "insert" => \A i \in DOMAIN rows : rows[i].id # None
    BY <1>1, NamesAssumption DEF Names, IDs
  <2>3. /\ TypeInv' /\ \A v \in Workers \ {w} : call'[v] = call[v]
        /\ UNCHANGED <<transactions, users, lastID, cache>>
        /\ TakenDown(w, label, rows)
    BY <1>1, <2>2, BeginCreateStep
  <2>4. PICK n \in 1 .. MaxRequests :
              /\ n = Len(requests) + 1 /\ n \notin DOMAIN requests
              /\ DOMAIN requests' = DOMAIN requests \cup {n}
              /\ \A k \in DOMAIN requests : requests'[k] = requests[k]
              /\ \A i \in DOMAIN rows : requests'[n].ids[i] = rows[i].id
              /\ DOMAIN requests'[n].ids = DOMAIN rows
              /\ requests'[n].outcome = "open"
              /\ call'[w].at = label /\ call'[w].number = n
              /\ call'[w].rows = rows /\ call'[w].next = 0
    BY <2>3 DEF TakenDown
  <2>7. \A i \in DOMAIN requests'[n].ids : requests'[n].ids[i] = rows[i].id
    BY <2>4
  <2>8. \/ label = "number" /\ \A i \in DOMAIN requests'[n].ids : requests'[n].ids[i] = None
        \/ /\ label = "insert"
           /\ \A i \in DOMAIN requests'[n].ids : requests'[n].ids[i] \in Chosen
           /\ \A i, j \in DOMAIN requests'[n].ids :
                requests'[n].ids[i] = requests'[n].ids[j] => i = j
    BY <1>1, <2>4, <2>7
  <2> QED
    BY <2>1, <2>3, <2>4, <2>8 DEF Started, OthersGoOn
<1>2. ASSUME NEW op \in {"Find", "Login"}, NEW names \in SUBSET Names,
             BeginLookup(w, op, names)
      PROVE  TypeInv' /\ Looked(w)
  <2>1. /\ TypeInv' /\ call'[w].at = "look" /\ OthersGoOn(w)
        /\ UNCHANGED <<transactions, users, lastID, requests>>
    BY <1>2, BeginLookupStep DEF OthersGoOn
  <2>2. ~ Creating(w)
    BY <1>0, <1>2, CreatingSteps DEF BeginLookup, CreationSteps
  <2>3. ~ Creating(w)' /\ call'[w].at \notin CreationSteps
    BY <2>1, NextLookup DEF LookupSteps
  <2> QED
    BY <2>1, <2>2, <2>3 DEF Looked
<1>3. CASE \E n \in 1 .. MaxRows : \E ids \in [1 .. n -> Chosen] : UserRegister(w, ids)
  BY <1>1, <1>3, RegisterStep
<1>4. CASE \E n \in 1 .. MaxRows : \E accounts \in [1 .. n -> Accounts] : Import(w, accounts)
  BY <1>1, <1>4, ImportStep
<1>5. CASE \E ids \in Lookups : BeginLookup(w, "Find", ids)
  BY <1>2, <1>5, LookupsAssumption DEF Names
<1>6. CASE \E a \in Accounts : BeginLookup(w, "Login", {a})
  BY <1>2, <1>6 DEF Names
<1> QED
  BY <1>3, <1>4, <1>5, <1>6 DEF Begin

LEMMA StepEffect ==
  ASSUME TypeInv, NEW w \in Workers, Step(w)
  PROVE  /\ TypeInv'
         /\ \/ Drew(w) \/ Entered(w) \/ Refused(w) \/ Restarted(w) \/ Tagged(w)
            \/ Committed(w) \/ Finished(w) \/ Broke(w) \/ Looked(w)
<1>0. TypeOK
  BY DEF TypeInv
<1>1. CASE GenerateUserID(w)
  <2>1. CASE lastID + 1 <= Len(Numbered)
    BY <1>1, <2>1, GenerateStep DEF Drew, OthersGoOn
  <2>2. CASE ~ (lastID + 1 <= Len(Numbered))
    BY <1>1, <2>2, NumberStep DEF Broke, CreationSteps
  <2> QED
    BY <2>1, <2>2
<1>2. CASE InsertRow(w)
  BY <1>2, InsertStep DEF Entered, Refused, Restarted
<1>3. CASE Tag(w)
  BY <1>3, TagStep DEF Tagged
<1>4. CASE Commit(w)
  BY <1>4, CommitStep DEF Committed
<1>5. CASE Created(w)
  BY <1>5, CreatedStep DEF Finished
<1>6. ASSUME call[w].at \in LookupSteps, TypeInv', OthersGoOn(w),
             call'[w] = IdleCall \/ call'[w].at \in LookupSteps,
             UNCHANGED <<transactions, users, lastID, requests>>
      PROVE  Looked(w)
  <2>1. ~ Creating(w)
    BY <1>6, LookupFacts DEF Creating
  <2>2. ~ Creating(w)' /\ call'[w].at \notin CreationSteps
    BY <1>6, NextLookup
  <2> QED
    BY <1>6, <2>1, <2>2 DEF Looked
<1>7. CASE Look(w)
  <2>1. /\ TypeInv' /\ call[w].at = "look"
        /\ UNCHANGED <<transactions, users, lastID, requests>>
    BY <1>7, LookStep
  <2>2. call'[w].at \in LookupSteps /\ OthersGoOn(w) /\ call[w].at \in LookupSteps
    BY <1>7, <2>1, LookStep DEF Searches, LookupSteps, OthersGoOn
  <2> QED
    BY <1>6, <2>1, <2>2
<1>8. CASE Load(w)
  <2>1. /\ TypeInv' /\ call[w].at = "load"
        /\ UNCHANGED <<transactions, users, lastID, requests>>
    BY <1>8, LoadStep
  <2>2. call'[w].at \in LookupSteps /\ OthersGoOn(w) /\ call[w].at \in LookupSteps
    BY <1>8, <2>1, LoadStep DEF Searches, LookupSteps, OthersGoOn
  <2> QED
    BY <1>6, <2>1, <2>2
<1>9. CASE Fill(w)
  <2>1. /\ TypeInv' /\ call[w].at = "fill"
        /\ UNCHANGED <<transactions, users, lastID, requests>>
    BY <1>9, FillStep
  <2>2. call'[w].at \in LookupSteps /\ OthersGoOn(w) /\ call[w].at \in LookupSteps
    BY <1>9, <2>1, FillStep DEF Searches, LookupSteps, OthersGoOn
  <2> QED
    BY <1>6, <2>1, <2>2
<1>10. CASE AnswerLookup(w)
  <2>1. /\ TypeInv' /\ call[w].at \in LookupSteps /\ call'[w] = IdleCall /\ OthersGoOn(w)
        /\ UNCHANGED <<transactions, users, lastID, requests>>
    BY <1>10, AnswerStep DEF OthersGoOn
  <2> QED
    BY <1>6, <2>1
<1>11. CASE Fail(w)
  <2>1. TypeInv' /\ UNCHANGED <<transactions, users, lastID>>
    BY <1>11, FailStep
  <2>2. \/ call[w].at \in CreationSteps /\ Ended(w, "broken")
        \/ /\ call[w].at \in LookupSteps /\ call'[w] = IdleCall
           /\ OthersGoOn(w) /\ UNCHANGED requests
    BY <1>11, FailStep DEF OthersGoOn
  <2> QED
    BY <1>6, <2>1, <2>2 DEF Broke
<1> QED
  BY <1>1, <1>2, <1>3, <1>4, <1>5, <1>7, <1>8, <1>9, <1>10, <1>11 DEF Step

LEMMA RestEffect ==
  ASSUME TypeInv,
         (\E p \in cache : CopyExpires(p)) \/ UNCHANGED vars
  PROVE  TypeInv' /\ Rested /\ cache' \subseteq cache
<1>1. Rested /\ cache' \subseteq cache
  BY DEF CopyExpires, Rested, vars
<1>2. TypeOK'
  BY <1>1 DEF TypeInv, TypeOK, Rested
<1>3. \A w \in Workers : Fetching(w)' /\ (Creating(w)' => Linked(w)')
  BY <1>1 DEF TypeInv, Fetching, Creating, Linked, Rested
<1>4. \A v, w \in Workers : v # w /\ Creating(v)' => call'[v].number # call'[w].number
  BY <1>1 DEF TypeInv, Creating, Rested
<1> QED
  BY <1>1, <1>2, <1>3, <1>4 DEF TypeInv

\* What a step may do, for the proofs of the layers above.
LEMMA Effect ==
  ASSUME TypeInv, [Next]_vars
  PROVE  /\ TypeInv'
         /\ \/ \E w \in Workers :
                 \/ Started(w) \/ Drew(w) \/ Entered(w) \/ Refused(w) \/ Restarted(w)
                 \/ Tagged(w) \/ Committed(w) \/ Finished(w) \/ Broke(w) \/ Looked(w)
            \/ Rested
<1>1. CASE \E w \in Workers : Begin(w)
  BY <1>1, BeginEffect
<1>2. CASE \E w \in Workers : Step(w)
  BY <1>2, StepEffect
<1>3. CASE (\E p \in cache : CopyExpires(p)) \/ UNCHANGED vars
  BY <1>3, RestEffect
<1> QED
  BY <1>1, <1>2, <1>3 DEF Next

LEMMA TypeInit == Init => TypeInv
<1>1. SUFFICES ASSUME Init PROVE TypeInv
  OBVIOUS
<1>2. /\ \A w \in Workers : call[w] = IdleCall
      /\ IdleCall.at = "idle" /\ IdleCall.number = 0
  BY <1>1 DEF Init, IdleCall
<1>3. TypeOK
  <2>1. <<>> \in Seq(Request) /\ 0 \in 0 .. Len(Numbered)
    BY NumberedAssumption
  <2>2. call \in [Workers -> Calls]
    BY <1>1 DEF Init, Calls
  <2> QED
    BY <1>1, <2>1, <2>2 DEF Init, TypeOK, Calls, Request, Outcomes
<1> QED
  BY <1>2, <1>3 DEF TypeInv, Fetching, Creating, Linked

\* The storage, the copies and the calls keep their types: IDs come from the
\* counter or the caller, and no copy says that there is no user.
THEOREM TypeCorrect == Spec => []TypeOK
<1>1. TypeInv /\ [Next]_vars => TypeInv'
  BY Effect
<1>2. TypeInv => TypeOK
  BY DEF TypeInv
<1> QED
  BY <1>1, <1>2, TypeInit, PTL DEF Spec

-----------------------------------------------------------------------------
(* IDs: the counter gives each number to one row of one request, and a request *)
(* is open as long as it is worked on.                                         *)

\* The numbers that were given.
Drawn == {Numbered[n] : n \in 1 .. lastID}

\* No request wants one ID twice.
Apart(k) ==
  \A i, j \in DOMAIN requests[k].ids :
    requests[k].ids[i] = requests[k].ids[j] => requests[k].ids[i] = None \/ i = j

Known(k) == \A i \in DOMAIN requests[k].ids : requests[k].ids[i] \in Drawn \cup Chosen \cup {None}

\* An ID of two rows is one that callers choose.
GivenOnce ==
  \A k, l \in DOMAIN requests : \A i \in DOMAIN requests[k].ids, j \in DOMAIN requests[l].ids :
    \/ requests[k].ids[i] # requests[l].ids[j]
    \/ requests[k].ids[i] \in Chosen \cup {None}
    \/ k = l /\ i = j

Numbering(w) ==
  call[w].at = "number" =>
    \A i \in DOMAIN requests[call[w].number].ids :
      /\ requests[call[w].number].ids[i] \in Drawn \cup {None}
      /\ i > call[w].next => requests[call[w].number].ids[i] = None

Along(w) ==
  Creating(w) =>
    /\ requests[call[w].number].outcome = "open"
    /\ call[w].at \in {"tag", "commit", "created"} => call[w].next = Len(call[w].rows)
    /\ call[w].at = "commit" => transactions

IdsInv ==
  /\ TypeInv
  /\ \A k \in DOMAIN requests : Apart(k) /\ Known(k)
  /\ GivenOnce
  /\ \A w \in Workers : Numbering(w) /\ Along(w)

\* The number that comes next was not given.
LEMMA NextNumberIsNew ==
  ASSUME TypeOK, lastID + 1 <= Len(Numbered)
  PROVE  /\ Numbered[lastID + 1] \in IDs /\ Numbered[lastID + 1] # None
         /\ Numbered[lastID + 1] \notin Drawn
<1>1. /\ lastID \in Nat /\ Len(Numbered) \in Nat
      /\ lastID + 1 \in 1 .. Len(Numbered)
      /\ DOMAIN Numbered = 1 .. Len(Numbered)
  BY NumberedAssumption DEF TypeOK
<1>2. \A n \in 1 .. lastID : Numbered[n] # Numbered[lastID + 1]
  BY <1>1, NumberedAssumption DEF IsInjective
<1>3. Numbered[lastID + 1] \in IDs
  BY <1>1, NumberedAssumption
<1> QED
  BY <1>2, <1>3, NamesAssumption DEF Drawn, Names

\* One call changes, and of the requests at most the outcome of its own.
LEMMA IdsFrame ==
  ASSUME IdsInv, TypeInv', NEW w \in Workers, OthersGoOn(w),
         UNCHANGED <<transactions, lastID>>,
         DOMAIN requests' = DOMAIN requests,
         \A k \in DOMAIN requests :
           /\ requests'[k].ids = requests[k].ids
           /\ k # call[w].number \/ ~ Creating(w) => requests'[k].outcome = requests[k].outcome,
         Numbering(w)', Along(w)'
  PROVE  IdsInv'
<1>1. Drawn' = Drawn
  BY DEF Drawn
<1>2. \A k \in DOMAIN requests' : Apart(k)' /\ Known(k)'
  BY <1>1 DEF IdsInv, Apart, Known
<1>3. GivenOnce'
  BY DEF IdsInv, GivenOnce
<1>4. ASSUME NEW v \in Workers \ {w} PROVE Numbering(v)' /\ Along(v)'
  <2>1. /\ Numbering(v) /\ Along(v) /\ call'[v] = call[v]
        /\ Creating(v) => /\ call[v].number \in DOMAIN requests
                          /\ call[v].number # call[w].number
    BY DEF IdsInv, TypeInv, Linked, OthersGoOn
  <2>2. call[v].at = "number" => Creating(v)
    BY CreatingSteps DEF IdsInv, TypeInv, CreationSteps
  <2>3. Numbering(v)'
    BY <1>1, <2>1, <2>2 DEF Numbering
  <2>4. Along(v)'
    BY <2>1 DEF Along, Creating
  <2> QED
    BY <2>3, <2>4
<1> QED
  BY <1>2, <1>3, <1>4 DEF IdsInv

LEMMA IdsMoved ==
  ASSUME IdsInv, TypeInv', NEW w \in Workers, call[w].at \in CreationSteps,
         NEW at \in CreationSteps \ {"number"}, NEW next, Moved(w, at, next),
         UNCHANGED <<transactions, lastID, requests>>,
         at \in {"tag", "commit", "created"} => next = Len(call[w].rows),
         at = "commit" => transactions
  PROVE  IdsInv'
<1>1. /\ TypeOK /\ Along(w) /\ Creating(w)
  BY CreatingSteps DEF IdsInv, TypeInv
<1>2. /\ call'[w].at = at /\ call'[w].next = next
      /\ call'[w].rows = call[w].rows /\ call'[w].number = call[w].number
      /\ OthersGoOn(w)
  BY DEF Moved, OthersGoOn
<1>3. Numbering(w)'
  BY <1>2 DEF Numbering
<1>4. Along(w)'
  BY <1>1, <1>2 DEF Along
<1> QED
  BY <1>2, <1>3, <1>4, IdsFrame

LEMMA IdsEnded ==
  ASSUME IdsInv, TypeInv', NEW w \in Workers, call[w].at \in CreationSteps,
         NEW outcome, Ended(w, outcome), UNCHANGED <<transactions, lastID>>
  PROVE  IdsInv'
<1>1. /\ call'[w] = IdleCall /\ OthersGoOn(w)
      /\ DOMAIN requests' = DOMAIN requests
      /\ \A k \in DOMAIN requests :
           /\ requests'[k].ids = requests[k].ids
           /\ k # call[w].number => requests'[k].outcome = requests[k].outcome
  BY DEF Ended, OthersGoOn
<1>2. Creating(w)
  BY CreatingSteps DEF IdsInv, TypeInv
<1>3. Numbering(w)' /\ Along(w)'
  BY <1>1 DEF Numbering, Along, Creating, IdleCall
<1> QED
  BY <1>1, <1>2, <1>3, IdsFrame

LEMMA IdsStarted ==
  ASSUME IdsInv, TypeInv', NEW w \in Workers, Started(w)
  PROVE  IdsInv'
<1>1. PICK n :
        /\ n = Len(requests) + 1
        /\ n \notin DOMAIN requests /\ DOMAIN requests' = DOMAIN requests \cup {n}
        /\ \A k \in DOMAIN requests : requests'[k] = requests[k]
        /\ requests'[n].outcome = "open"
        /\ call'[w].number = n /\ call'[w].next = 0
        /\ \/ /\ call'[w].at = "number"
              /\ \A i \in DOMAIN requests'[n].ids : requests'[n].ids[i] = None
           \/ /\ call'[w].at = "insert"
              /\ \A i \in DOMAIN requests'[n].ids : requests'[n].ids[i] \in Chosen
              /\ \A i, j \in DOMAIN requests'[n].ids :
                   requests'[n].ids[i] = requests'[n].ids[j] => i = j
        /\ OthersGoOn(w) /\ UNCHANGED <<transactions, users, lastID>>
  BY DEF Started
<1>2. Drawn' = Drawn
  BY <1>1 DEF Drawn
<1>3. \A k \in DOMAIN requests' : Apart(k)' /\ Known(k)'
  <2>1. Apart(n)' /\ Known(n)'
    BY <1>1, <1>2 DEF Apart, Known
  <2>2. \A k \in DOMAIN requests : Apart(k)' /\ Known(k)'
    BY <1>1, <1>2 DEF IdsInv, Apart, Known
  <2> QED
    BY <1>1, <2>1, <2>2
<1>4. GivenOnce'
  <2>1. SUFFICES ASSUME NEW k \in DOMAIN requests', NEW l \in DOMAIN requests',
                        NEW i \in DOMAIN requests'[k].ids, NEW j \in DOMAIN requests'[l].ids,
                        requests'[k].ids[i] = requests'[l].ids[j]
                 PROVE  requests'[k].ids[i] \in Chosen \cup {None} \/ (k = l /\ i = j)
    BY DEF GivenOnce
  <2>2. CASE k = n \/ l = n
    BY <1>1, <2>1, <2>2
  <2>3. CASE k \in DOMAIN requests /\ l \in DOMAIN requests
    BY <1>1, <2>1, <2>3 DEF IdsInv, GivenOnce
  <2> QED
    BY <1>1, <2>2, <2>3
<1>5. ASSUME NEW v \in Workers PROVE Numbering(v)' /\ Along(v)'
  <2>1. CASE v = w
    <3>2. Numbering(w)'
      BY <1>1 DEF Numbering
    <3>3. Along(w)'
      BY <1>1 DEF Along
    <3> QED
      BY <2>1, <3>2, <3>3
  <2>2. CASE v # w
    <3>1. /\ Numbering(v) /\ Along(v) /\ call'[v] = call[v]
          /\ Creating(v) => call[v].number \in DOMAIN requests
      BY <1>1, <2>2 DEF IdsInv, TypeInv, Linked, OthersGoOn
    <3>2. call[v].at = "number" => Creating(v)
      BY CreatingSteps DEF IdsInv, TypeInv, CreationSteps
    <3>3. Numbering(v)'
      BY <1>1, <1>2, <3>1, <3>2 DEF Numbering
    <3>4. Along(v)'
      BY <1>1, <3>1 DEF Along, Creating
    <3> QED
      BY <3>3, <3>4
  <2> QED
    BY <2>1, <2>2
<1> QED
  BY <1>3, <1>4, <1>5 DEF IdsInv

LEMMA IdsDrew ==
  ASSUME IdsInv, TypeInv', NEW w \in Workers, Drew(w)
  PROVE  IdsInv'
<1>0. TypeOK /\ lastID \in Nat
  BY NumberedAssumption DEF IdsInv, TypeInv, TypeOK
<1>1. PICK d, m, k :
        d = Numbered[lastID + 1] /\ m = call[w].next + 1 /\ k = call[w].number
  OBVIOUS
<1>2. /\ call[w].at = "number" /\ lastID' = lastID + 1
      /\ DOMAIN requests' = DOMAIN requests
      /\ \A l \in DOMAIN requests :
           /\ requests'[l].outcome = requests[l].outcome
           /\ DOMAIN requests'[l].ids = DOMAIN requests[l].ids
           /\ \A i \in DOMAIN requests[l].ids :
                requests'[l].ids[i] = IF l = k /\ i = m THEN d ELSE requests[l].ids[i]
      /\ call'[w].at \in {"number", "insert"} /\ call'[w].number = k
      /\ call'[w].at = "number" => call'[w].next = m
      /\ OthersGoOn(w) /\ UNCHANGED <<transactions, users>>
  BY <1>1 DEF Drew
<1>3. d # None /\ d \notin Drawn /\ Drawn' = Drawn \cup {d}
  <2>1. d # None /\ d \notin Drawn
    BY <1>0, <1>1, NextNumberIsNew DEF Drew
  <2>2. \A n \in 1 .. lastID + 1 : n \in 1 .. lastID \/ n = lastID + 1
    BY <1>0
  <2>3. \A n \in 1 .. lastID : n \in 1 .. lastID + 1
    BY <1>0
  <2>4. lastID + 1 \in 1 .. lastID + 1
    BY <1>0
  <2>5. Drawn' = Drawn \cup {d}
    BY <1>1, <1>2, <2>2, <2>3, <2>4 DEF Drawn
  <2> QED
    BY <2>1, <2>5
<1>4. /\ Creating(w) /\ k \in DOMAIN requests
      /\ DOMAIN requests[k].ids = DOMAIN call[w].rows /\ DOMAIN requests[k].ids \subseteq Nat
      /\ \A i \in DOMAIN requests[k].ids :
           /\ requests[k].ids[i] \in Drawn \cup {None}
           /\ i > call[w].next => requests[k].ids[i] = None
      /\ Along(w) /\ call[w].next \in Nat
  <2>1. call[w].at \in CreationSteps
    BY <1>2 DEF CreationSteps
  <2>2. /\ Creating(w) /\ k \in DOMAIN requests
        /\ DOMAIN requests[k].ids = DOMAIN call[w].rows /\ DOMAIN requests[k].ids \subseteq Nat
        /\ call[w].next \in Nat
    BY <1>1, <2>1, CreatorFacts, BoundsAssumption DEF IdsInv
  <2> QED
    BY <1>1, <1>2, <2>2 DEF IdsInv, Numbering
<1>5. \A l \in DOMAIN requests : Apart(l)' /\ Known(l)'
  <2>1. ASSUME NEW l \in DOMAIN requests PROVE Apart(l)'
    <3>1. Apart(l)
      BY DEF IdsInv
    <3>2. CASE l # k
      BY <1>2, <3>1, <3>2 DEF Apart
    <3>3. CASE l = k
      <4>1. ASSUME NEW i \in DOMAIN requests[k].ids, NEW j \in DOMAIN requests[k].ids,
                   requests'[k].ids[i] = requests'[k].ids[j]
            PROVE  requests'[k].ids[i] = None \/ i = j
        <5>1. CASE i = m \/ j = m
          BY <1>2, <1>3, <1>4, <4>1, <5>1
        <5>2. CASE i # m /\ j # m
          BY <1>2, <1>4, <3>1, <3>3, <4>1, <5>2 DEF Apart
        <5> QED
          BY <5>1, <5>2
      <4> QED
        BY <1>2, <3>3, <4>1 DEF Apart
    <3> QED
      BY <3>2, <3>3
  <2>2. ASSUME NEW l \in DOMAIN requests PROVE Known(l)'
    <3>1. Known(l)
      BY DEF IdsInv
    <3> QED
      BY <1>2, <1>3, <3>1 DEF Known
  <2> QED
    BY <2>1, <2>2
<1>6. GivenOnce'
  <2>1. SUFFICES ASSUME NEW l \in DOMAIN requests, NEW o \in DOMAIN requests,
                        NEW i \in DOMAIN requests[l].ids, NEW j \in DOMAIN requests[o].ids,
                        requests'[l].ids[i] = requests'[o].ids[j]
                 PROVE  requests'[l].ids[i] \in Chosen \cup {None} \/ (l = o /\ i = j)
    BY <1>2 DEF GivenOnce
  <2>2. /\ requests'[l].ids[i] = IF l = k /\ i = m THEN d ELSE requests[l].ids[i]
        /\ requests'[o].ids[j] = IF o = k /\ j = m THEN d ELSE requests[o].ids[j]
    BY <1>2
  <2>3. /\ requests[l].ids[i] \in Drawn \cup Chosen \cup {None}
        /\ requests[o].ids[j] \in Drawn \cup Chosen \cup {None}
    BY DEF IdsInv, Known
  <2>4. CASE (l = k /\ i = m) \/ (o = k /\ j = m)
    BY <1>3, <2>1, <2>2, <2>3, <2>4
  <2>5. CASE ~ (l = k /\ i = m) /\ ~ (o = k /\ j = m)
    BY <2>1, <2>2, <2>5, ZenonT(30) DEF IdsInv, GivenOnce
  <2> QED
    BY <2>4, <2>5
<1>7. ASSUME NEW v \in Workers PROVE Numbering(v)' /\ Along(v)'
  <2>1. CASE v = w
    <3>1. Numbering(w)'
      <4>1. SUFFICES ASSUME call'[w].at = "number", NEW i \in DOMAIN requests[k].ids
                     PROVE  /\ requests'[k].ids[i] \in Drawn' \cup {None}
                            /\ i > m => requests'[k].ids[i] = None
        BY <1>2, <1>4 DEF Numbering
      <4>2. i \in Nat /\ (i > m => i > call[w].next /\ i # m)
        BY <1>1, <1>4
      <4> QED
        BY <1>2, <1>3, <1>4, <4>2
    <3>2. Along(w)'
      BY <1>1, <1>2, <1>4 DEF Along
    <3> QED
      BY <2>1, <3>1, <3>2
  <2>2. CASE v # w
    <3>1. /\ Numbering(v) /\ Along(v) /\ call'[v] = call[v]
          /\ Creating(v) => call[v].number \in DOMAIN requests /\ call[v].number # k
      <4>1. Numbering(v) /\ Along(v)
        BY DEF IdsInv
      <4>2. call'[v] = call[v]
        BY <1>2, <2>2 DEF OthersGoOn
      <4>3. Creating(v) => Linked(v) /\ call[v].number # call[w].number
        BY <2>2 DEF IdsInv, TypeInv
      <4> QED
        BY <1>1, <4>1, <4>2, <4>3 DEF Linked
    <3>2. call[v].at = "number" => Creating(v)
      BY <1>0, CreatingSteps DEF CreationSteps
    <3>3. Numbering(v)'
      BY <1>2, <1>3, <3>1, <3>2 DEF Numbering
    <3>4. Along(v)'
      BY <1>2, <3>1 DEF Along, Creating
    <3> QED
      BY <3>3, <3>4
  <2> QED
    BY <2>1, <2>2
<1> QED
  BY <1>2, <1>5, <1>6, <1>7 DEF IdsInv

LEMMA IdsStep ==
  ASSUME IdsInv, [Next]_vars
  PROVE  IdsInv'
<1>1. TypeInv /\ TypeInv' /\ TypeOK
  BY Effect DEF IdsInv, TypeInv
<1>2. ASSUME NEW w \in Workers,
             \/ Started(w) \/ Drew(w) \/ Entered(w) \/ Refused(w) \/ Restarted(w)
             \/ Tagged(w) \/ Committed(w) \/ Finished(w) \/ Broke(w) \/ Looked(w)
      PROVE  IdsInv'
  <2>1. CASE Started(w)
    BY <1>1, <2>1, IdsStarted
  <2>2. CASE Drew(w)
    BY <1>1, <2>2, IdsDrew
  <2>3. CASE Entered(w)
    <3>1. PICK i \in DOMAIN call[w].rows :
            Moved(w, IF i = Len(call[w].rows) THEN "tag" ELSE "insert", i)
      BY <2>3 DEF Entered
    <3>2. PICK at \in {"tag", "insert"} :
            /\ at = (IF i = Len(call[w].rows) THEN "tag" ELSE "insert")
            /\ at = "tag" => i = Len(call[w].rows)
      OBVIOUS
    <3>3. /\ call[w].at \in CreationSteps /\ at \in CreationSteps \ {"number"}
          /\ UNCHANGED <<transactions, lastID, requests>>
          /\ at \in {"tag", "commit", "created"} => i = Len(call[w].rows)
          /\ at # "commit"
      BY <2>3, <3>2 DEF Entered, CreationSteps
    <3>4. Moved(w, at, i)
      BY <3>1, <3>2
    <3> QED
      BY <1>1, <3>3, <3>4, IdsMoved
  <2>4. CASE Refused(w)
    BY <1>1, <2>4, IdsEnded DEF Refused, CreationSteps
  <2>5. CASE Restarted(w)
    <3>1. /\ call[w].at \in CreationSteps /\ "insert" \in CreationSteps \ {"number"}
          /\ Moved(w, "insert", 0) /\ UNCHANGED <<transactions, lastID, requests>>
      BY <2>5 DEF Restarted, CreationSteps
    <3> QED
      BY <1>1, <3>1, IdsMoved
  <2>6. CASE Tagged(w)
    <3>1. PICK at \in {"commit", "created"} :
            at = (IF transactions THEN "commit" ELSE "created")
      OBVIOUS
    <3>2. /\ call[w].at \in CreationSteps /\ at \in CreationSteps \ {"number"}
          /\ Moved(w, at, call[w].next) /\ UNCHANGED <<transactions, lastID, requests>>
          /\ at = "commit" => transactions
      BY <2>6, <3>1 DEF Tagged, CreationSteps
    <3>3. call[w].next = Len(call[w].rows)
      <4>1. Along(w) /\ Creating(w)
        BY <1>1, <3>2, CreatingSteps DEF IdsInv
      <4> QED
        BY <2>6, <4>1 DEF Tagged, Along
    <3> QED
      BY <1>1, <3>2, <3>3, IdsMoved
  <2>7. CASE Committed(w)
    <3>1. /\ call[w].at \in CreationSteps /\ "created" \in CreationSteps \ {"number"}
          /\ Moved(w, "created", call[w].next) /\ UNCHANGED <<transactions, lastID, requests>>
      BY <2>7 DEF Committed, CreationSteps
    <3>2. call[w].next = Len(call[w].rows)
      <4>1. Along(w) /\ Creating(w)
        BY <1>1, <3>1, CreatingSteps DEF IdsInv
      <4> QED
        BY <2>7, <4>1 DEF Committed, Along
    <3> QED
      BY <1>1, <3>1, <3>2, IdsMoved
  <2>8. CASE Finished(w)
    BY <1>1, <2>8, IdsEnded DEF Finished, CreationSteps
  <2>9. CASE Broke(w)
    BY <1>1, <2>9, IdsEnded DEF Broke
  <2>10. CASE Looked(w)
    <3>1. /\ OthersGoOn(w) /\ ~ Creating(w) /\ ~ Creating(w)'
          /\ UNCHANGED <<transactions, lastID, requests>>
      BY <2>10 DEF Looked
    <3>2. Along(w)'
      BY <3>1 DEF Along
    <3>3. Numbering(w)'
      BY <2>10 DEF Looked, CreationSteps, Numbering
    <3> QED
      BY <1>1, <3>1, <3>2, <3>3, IdsFrame
  <2> QED
    BY <1>2, <2>1, <2>2, <2>3, <2>4, <2>5, <2>6, <2>7, <2>8, <2>9, <2>10
<1>3. CASE Rested
  <2>1. \A w \in Workers : Numbering(w)' /\ Along(w)'
    BY <1>3 DEF IdsInv, Rested, Numbering, Along, Creating, Drawn
  <2>2. \A k \in DOMAIN requests' : Apart(k)' /\ Known(k)'
    BY <1>3 DEF IdsInv, Rested, Apart, Known, Drawn
  <2>3. GivenOnce'
    BY <1>3 DEF IdsInv, Rested, GivenOnce
  <2> QED
    BY <1>1, <2>1, <2>2, <2>3 DEF IdsInv
<1> QED
  BY <1>1, <1>2, <1>3, Effect

LEMMA IdsInit == Init => IdsInv
<1>1. SUFFICES ASSUME Init PROVE IdsInv
  OBVIOUS
<1>2. /\ \A w \in Workers : call[w].at = "idle" /\ call[w].number = 0
      /\ DOMAIN requests = {}
  BY <1>1 DEF Init, IdleCall
<1> QED
  BY <1>1, <1>2, TypeInit DEF IdsInv, GivenOnce, Numbering, Along, Creating

-----------------------------------------------------------------------------
(* Users: how far each request has come, and that nobody's user is replaced.   *)

\* The rows of request k whose users are there.
KeptRows(k) ==
  {i \in DOMAIN requests[k].ids :
     /\ requests[k].ids[i] \in IDs
     /\ users[requests[k].ids[i]] # None
     /\ users[requests[k].ids[i]].number = k}

\* The rows of w that are to be there by now.
Due(w) ==
  IF call[w].at = "created" THEN DOMAIN call[w].rows
  ELSE IF call[w].at = "number" \/ transactions THEN {}
  ELSE 1 .. call[w].next

Progress(w) == Creating(w) => KeptRows(call[w].number) = Due(w)

\* What an open transaction inserted nobody else has committed.
Waiting(w) == \A id \in Held(w) : users[id] = None

\* The rows of a request are there up to one of them.
Whole(k) ==
  \E m \in 0 .. Len(requests[k].ids) :
    /\ KeptRows(k) = 1 .. m
    /\ requests[k].outcome = "done" => m = Len(requests[k].ids)
    /\ transactions => m \in {0, Len(requests[k].ids)}
    /\ transactions /\ requests[k].outcome = "refused" => m = 0

\* Every user comes from a row of a request.
Origin(id) ==
  users[id] # None =>
    /\ users[id].id = id
    /\ users[id].number \in DOMAIN requests
    /\ \E i \in DOMAIN requests[users[id].number].ids :
         requests[users[id].number].ids[i] = id

UsersInv ==
  /\ IdsInv
  /\ \A id \in IDs : Origin(id)
  /\ \A w \in Workers : Progress(w) /\ Waiting(w)
  /\ \A v, w \in Workers : v # w => Held(v) \cap Held(w) = {}
  /\ \A k \in DOMAIN requests : Whole(k)

\* Only new users come, and they are not the ones of request k.
LEMMA SameRows ==
  ASSUME NEW k \in DOMAIN requests,
         \A id \in IDs : users[id] # None => users'[id] = users[id],
         \A id \in IDs : users[id] = None => users'[id] = None \/ users'[id].number # k,
         requests'[k].ids = requests[k].ids
  PROVE  KeptRows(k)' = KeptRows(k)
BY DEF KeptRows

\* The users of one request may become more, and its ID and its call change.
LEMMA UsersFrame ==
  ASSUME UsersInv, IdsInv', NEW w \in Workers, OthersGoOn(w), UNCHANGED transactions,
         \A id \in IDs : users[id] # None => users'[id] = users[id],
         \A id \in IDs : users[id] = None =>
           \/ users'[id] = None
           \/ /\ users'[id].id = id /\ users'[id].number = call[w].number
              /\ Creating(w)
              /\ \E i \in DOMAIN requests[call[w].number].ids :
                   requests[call[w].number].ids[i] = id
              /\ \A v \in Workers \ {w} : id \notin Held(v),
         DOMAIN requests \subseteq DOMAIN requests',
         \A k \in DOMAIN requests :
           /\ k # call[w].number \/ ~ Creating(w) =>
                requests'[k].ids = requests[k].ids /\ requests'[k].outcome = requests[k].outcome
           /\ DOMAIN requests'[k].ids = DOMAIN requests[k].ids
           /\ \A i \in DOMAIN requests[k].ids :
                requests[k].ids[i] # None => requests'[k].ids[i] = requests[k].ids[i],
         Progress(w)', Waiting(w)',
         \A v \in Workers \ {w} : Held(v) \cap Held(w)' = {},
         \A k \in DOMAIN requests' :
           \/ Whole(k)'
           \/ k \in DOMAIN requests /\ (k # call[w].number \/ ~ Creating(w))
  PROVE  UsersInv'
<1>0. TypeOK
  BY DEF UsersInv, IdsInv, TypeInv
<1>1. \A id \in IDs : Origin(id)'
  <2>1. SUFFICES ASSUME NEW id \in IDs, users'[id] # None PROVE Origin(id)'
    BY DEF Origin
  <2>2. id # None
    BY NamesAssumption DEF Names
  <2>3. CASE users[id] # None
    <3>o. PICK k \in DOMAIN requests :
            /\ users[id].id = id /\ k = users[id].number
            /\ \E i \in DOMAIN requests[k].ids : requests[k].ids[i] = id
      BY <2>3 DEF UsersInv, Origin
    <3>1. PICK i \in DOMAIN requests[k].ids : requests[k].ids[i] = id
      BY <3>o
    <3>2. /\ users'[id] = users[id] /\ k \in DOMAIN requests'
          /\ i \in DOMAIN requests'[k].ids /\ requests'[k].ids[i] = id
      BY <2>2, <2>3, <3>1
    <3> QED
      BY <3>o, <3>2 DEF Origin
  <2>4. CASE users[id] = None
    <3>1. /\ users'[id].id = id /\ users'[id].number = call[w].number /\ Creating(w)
      BY <2>1, <2>4
    <3>2. call[w].number \in DOMAIN requests
      BY <3>1 DEF UsersInv, IdsInv, TypeInv, Linked
    <3>p. PICK k \in DOMAIN requests : k = call[w].number
      BY <3>2
    <3>3. PICK i \in DOMAIN requests[k].ids : requests[k].ids[i] = id
      BY <2>1, <2>4, <3>p
    <3>4. k \in DOMAIN requests' /\ i \in DOMAIN requests'[k].ids /\ requests'[k].ids[i] = id
      BY <2>2, <3>3
    <3> QED
      BY <3>1, <3>p, <3>4 DEF Origin
  <2> QED
    BY <2>3, <2>4
<1>2. ASSUME NEW k \in DOMAIN requests, k # call[w].number \/ ~ Creating(w)
      PROVE  KeptRows(k)' = KeptRows(k)
  <2>1. \A id \in IDs : users[id] = None => users'[id] = None \/ users'[id].number # k
    BY <1>2
  <2>2. requests'[k].ids = requests[k].ids
    BY <1>2
  <2> QED
    BY <2>1, <2>2, SameRows
<1>3. ASSUME NEW v \in Workers \ {w} PROVE /\ Progress(v)' /\ Waiting(v)' /\ Held(v)' = Held(v)
  <2>1. call'[v] = call[v]
    BY DEF OthersGoOn
  <2>2. Held(v)' = Held(v) /\ Due(v)' = Due(v)
    BY <2>1 DEF Held, InTransaction, Due
  <2>3. Progress(v)'
    <3>1. SUFFICES ASSUME Creating(v) PROVE KeptRows(call[v].number)' = Due(v)
      BY <2>1, <2>2 DEF Progress, Creating
    <3>2. PICK k \in DOMAIN requests : k = call[v].number /\ k # call[w].number
      BY <3>1, ZenonT(30) DEF UsersInv, IdsInv, TypeInv, Linked
    <3>3. KeptRows(k) = Due(v)
      BY <3>1, <3>2 DEF UsersInv, Progress
    <3>4. KeptRows(k)' = KeptRows(k)
      BY <1>2, <3>2
    <3>5. KeptRows(k)' = KeptRows(call[v].number)'
      BY <2>1, <3>2
    <3> QED
      BY <3>3, <3>4, <3>5
  <2>4. Waiting(v)'
    <3>1. SUFFICES ASSUME NEW id \in Held(v) PROVE users'[id] = None
      BY <2>2 DEF Waiting
    <3>2. users[id] = None
      BY DEF UsersInv, Waiting
    <3>3. id \in IDs
      <4>1. call[v].at \in CreationSteps /\ call[v].at # "number"
        BY DEF Held, CreationSteps
      <4>2. /\ call[v].rows \in Rows /\ call[v].next <= Len(call[v].rows)
            /\ call[v].next \in 0 .. MaxRows
            /\ \A i \in DOMAIN call[v].rows : call[v].rows[i].id # None
        BY <4>1, CreatorFacts DEF UsersInv, IdsInv, Prepared
      <4>3. PICK rs \in Rows, n \in 0 .. MaxRows :
              rs = call[v].rows /\ n = call[v].next /\ n <= Len(rs)
        BY <4>2
      <4>4. PICK i \in 1 .. n : id = rs[i].id
        BY <4>3 DEF Held
      <4>5. i \in DOMAIN rs /\ rs[i] \in Row
        BY <4>3, RowsType, BoundsAssumption
      <4> QED
        BY <4>2, <4>3, <4>4, <4>5 DEF Row
    <3> QED
      BY <3>2, <3>3
  <2> QED
    BY <2>2, <2>3, <2>4
<1>4. ASSUME NEW u \in Workers, NEW v \in Workers, u # v
      PROVE  Held(u)' \cap Held(v)' = {}
  <2>1. CASE u = w
    BY <1>3, <1>4, <2>1
  <2>2. CASE v = w
    BY <1>3, <1>4, <2>2
  <2>3. CASE u # w /\ v # w
    BY <1>3, <1>4, <2>3 DEF UsersInv
  <2> QED
    BY <2>1, <2>2, <2>3
<1>5. ASSUME NEW k \in DOMAIN requests' PROVE Whole(k)'
  <2>1. SUFFICES ASSUME k \in DOMAIN requests, k # call[w].number \/ ~ Creating(w)
                 PROVE  Whole(k)'
    OBVIOUS
  <2>2. KeptRows(k)' = KeptRows(k) /\ Whole(k)
    BY <1>2, <2>1 DEF UsersInv
  <2>3. requests'[k].ids = requests[k].ids /\ requests'[k].outcome = requests[k].outcome
    BY <2>1
  <2> QED
    BY <2>2, <2>3 DEF Whole
<1>6. \A v \in Workers : Progress(v)' /\ Waiting(v)'
  BY <1>3
<1> QED
  BY <1>1, <1>4, <1>5, <1>6 DEF UsersInv

\* What is known of a worker that creates users, of its request and its rows.
LEMMA OwnFacts ==
  ASSUME UsersInv, NEW w \in Workers, call[w].at \in CreationSteps
  PROVE  /\ TypeOK /\ Creating(w) /\ Along(w) /\ Numbering(w) /\ Waiting(w)
         /\ \E k \in DOMAIN requests, len \in 1 .. MaxRows, next \in 0 .. MaxRows :
              /\ k = call[w].number /\ len = Len(call[w].rows) /\ next = call[w].next
              /\ next <= len
              /\ call[w].at \in {"number", "insert"} => next < len
              /\ DOMAIN call[w].rows = 1 .. len
              /\ DOMAIN requests[k].ids = 1 .. len /\ Len(requests[k].ids) = len
              /\ \A i \in 1 .. len : requests[k].ids[i] = call[w].rows[i].id
              /\ call[w].at # "number" => \A i \in 1 .. len : requests[k].ids[i] \in IDs
              /\ Apart(k) /\ KeptRows(k) = Due(w)
              /\ requests[k].outcome = "open"
<1>1. IdsInv /\ TypeInv /\ TypeOK
  BY DEF UsersInv, IdsInv, TypeInv
<1>2. /\ Creating(w) /\ Along(w) /\ Numbering(w) /\ Waiting(w) /\ Progress(w)
  BY <1>1, CreatingSteps DEF UsersInv, IdsInv
<1>3. PICK k \in DOMAIN requests, rs \in Rows, next \in 0 .. MaxRows :
        /\ k = call[w].number /\ rs = call[w].rows /\ next = call[w].next
        /\ next <= Len(rs)
        /\ DOMAIN requests[k].ids = DOMAIN rs
        /\ \A i \in DOMAIN rs : requests[k].ids[i] = rs[i].id
  BY <1>1, CreatorFacts
<1>4. PICK len \in 1 .. MaxRows : len = Len(rs) /\ DOMAIN rs = 1 .. len /\ rs \in [1 .. len -> Row]
  BY RowsType
<1>5. Len(requests[k].ids) = len
  <2>1. DOMAIN requests[k].ids = 1 .. Len(requests[k].ids) /\ Len(requests[k].ids) \in Nat
    BY <1>1, RequestsType
  <2> QED
    BY <1>3, <1>4, <2>1, BoundsAssumption
<1>6. /\ call[w].at \in {"number", "insert"} => next < len
      /\ call[w].at # "number" => \A i \in 1 .. len : rs[i].id # None
  BY <1>1, <1>3, <1>4, CreatorFacts DEF Prepared
<1>7. call[w].at # "number" => \A i \in 1 .. len : requests[k].ids[i] \in IDs
  BY <1>3, <1>4, <1>6 DEF Row
<1>8. Apart(k) /\ KeptRows(k) = Due(w) /\ requests[k].outcome = "open"
  BY <1>1, <1>2, <1>3 DEF IdsInv, Progress, Along
<1> QED
  BY <1>1, <1>2, <1>3, <1>4, <1>5, <1>6, <1>7, <1>8

LEMMA UsersStarted ==
  ASSUME UsersInv, IdsInv', NEW w \in Workers, Started(w)
  PROVE  UsersInv'
<1>1. PICK n :
        /\ n = Len(requests) + 1
        /\ n \notin DOMAIN requests /\ DOMAIN requests' = DOMAIN requests \cup {n}
        /\ \A k \in DOMAIN requests : requests'[k] = requests[k]
        /\ requests'[n].outcome = "open"
        /\ call'[w].number = n /\ call'[w].next = 0
        /\ call'[w].at \in {"number", "insert"}
        /\ ~ Creating(w)
        /\ OthersGoOn(w) /\ UNCHANGED <<transactions, users, lastID>>
  BY DEF Started
<1>2. KeptRows(n)' = {}
  <2>1. \A id \in IDs : users'[id] # None => users'[id].number # n
    BY <1>1 DEF UsersInv, Origin
  <2> QED
    BY <2>1 DEF KeptRows
<1>3. Due(w)' = {} /\ Held(w)' = {}
  <2>1. 1 .. 0 = {}
    OBVIOUS
  <2> QED
    BY <1>1, <2>1 DEF Due, Held
<1>4. Progress(w)' /\ Waiting(w)'
  BY <1>1, <1>2, <1>3 DEF Progress, Waiting
<1>5. Whole(n)'
  <2>1. Len(requests'[n].ids) \in Nat
    <3>1. TypeOK'
      BY DEF IdsInv, TypeInv
    <3>2. requests' \in Seq(Request)
      BY <3>1 DEF TypeOK, Request, Outcomes
    <3>3. PICK rq \in Seq(Request) : rq = requests'
      BY <3>2
    <3>4. n \in DOMAIN rq /\ DOMAIN rq = 1 .. Len(rq)
      <4>1. n \in DOMAIN requests'
        BY <1>1
      <4>2. DOMAIN rq = 1 .. Len(rq)
        OBVIOUS
      <4> QED
        BY <3>3, <4>1, <4>2
    <3>5. requests'[n] \in Request
      BY <3>3, <3>4
    <3> QED
      BY <3>5 DEF Request
  <2>2. 0 \in 0 .. Len(requests'[n].ids) /\ 1 .. 0 = {}
    BY <2>1
  <2> QED
    BY <1>1, <1>2, <2>2 DEF Whole
<1>6. \A k \in DOMAIN requests' : Whole(k)' \/ (k \in DOMAIN requests /\ ~ Creating(w))
  BY <1>1, <1>5
<1>7. \A v \in Workers \ {w} : Held(v) \cap Held(w)' = {}
  BY <1>3
<1> QED
  BY <1>1, <1>4, <1>6, <1>7, UsersFrame

LEMMA UsersLooked ==
  ASSUME UsersInv, IdsInv', NEW w \in Workers, Looked(w)
  PROVE  UsersInv'
<1>1. /\ ~ Creating(w) /\ ~ Creating(w)' /\ call'[w].at \notin CreationSteps
      /\ OthersGoOn(w) /\ UNCHANGED <<transactions, users, lastID, requests>>
  BY DEF Looked
<1>2. Held(w)' = {}
  BY <1>1 DEF Held, CreationSteps
<1>3. Progress(w)' /\ Waiting(w)' /\ \A v \in Workers \ {w} : Held(v) \cap Held(w)' = {}
  BY <1>1, <1>2 DEF Progress, Waiting
<1> QED
  BY <1>1, <1>3, UsersFrame

LEMMA UsersEnded ==
  ASSUME UsersInv, IdsInv', NEW w \in Workers, call[w].at \in CreationSteps,
         NEW outcome, Ended(w, outcome), UNCHANGED <<transactions, users, lastID>>,
         outcome = "done" => call[w].at = "created",
         outcome = "refused" => call[w].at = "insert"
  PROVE  UsersInv'
<1>1. /\ call'[w] = IdleCall /\ OthersGoOn(w)
      /\ DOMAIN requests' = DOMAIN requests
      /\ \A k \in DOMAIN requests :
           /\ requests'[k].ids = requests[k].ids
           /\ requests'[k].outcome = IF k = call[w].number THEN outcome ELSE requests[k].outcome
  BY DEF Ended, OthersGoOn
<1>2. Held(w)' = {} /\ ~ Creating(w)'
  BY <1>1 DEF Held, Creating, IdleCall
<1>3. Progress(w)' /\ Waiting(w)' /\ \A v \in Workers \ {w} : Held(v) \cap Held(w)' = {}
  BY <1>2 DEF Progress, Waiting
<1>4. PICK k \in DOMAIN requests, len \in 1 .. MaxRows, next \in 0 .. MaxRows :
        /\ k = call[w].number /\ next = call[w].next
        /\ next <= len /\ DOMAIN call[w].rows = 1 .. len
        /\ Len(requests[k].ids) = len
        /\ KeptRows(k) = Due(w)
  BY OwnFacts
<1>5. KeptRows(k)' = Due(w)
  BY <1>1, <1>4, SameRows
<1>6. Whole(k)'
  <2>1. 0 \in 0 .. len /\ next \in 0 .. len /\ len \in 0 .. len /\ 1 .. 0 = {}
    BY <1>4, BoundsAssumption
  <2>2. requests'[k].ids = requests[k].ids /\ requests'[k].outcome = outcome
    BY <1>1, <1>4
  <2>3. CASE call[w].at = "created"
    BY <1>4, <1>5, <2>1, <2>2, <2>3 DEF Whole, Due
  <2>4. CASE call[w].at # "created" /\ (call[w].at = "number" \/ transactions)
    BY <1>4, <1>5, <2>1, <2>2, <2>4 DEF Whole, Due
  <2>5. CASE call[w].at # "created" /\ call[w].at # "number" /\ ~ transactions
    BY <1>4, <1>5, <2>1, <2>2, <2>5 DEF Whole, Due
  <2> QED
    BY <2>3, <2>4, <2>5
<1>7. \A l \in DOMAIN requests' :
        Whole(l)' \/ (l \in DOMAIN requests /\ (l # call[w].number \/ ~ Creating(w)))
  BY <1>1, <1>4, <1>6
<1>8. \A l \in DOMAIN requests :
        /\ l # call[w].number \/ ~ Creating(w) =>
             requests'[l].ids = requests[l].ids /\ requests'[l].outcome = requests[l].outcome
        /\ DOMAIN requests'[l].ids = DOMAIN requests[l].ids
        /\ \A i \in DOMAIN requests[l].ids :
             requests[l].ids[i] # None => requests'[l].ids[i] = requests[l].ids[i]
  <2>1. Creating(w)
    BY OwnFacts
  <2> QED
    BY <1>1, <2>1
<1>9. /\ UNCHANGED transactions
      /\ \A id \in IDs : users[id] # None => users'[id] = users[id]
      /\ \A id \in IDs : users[id] = None => users'[id] = None
  OBVIOUS
<1> QED
  BY <1>1, <1>3, <1>7, <1>8, <1>9, UsersFrame

\* The worker of a request goes on, and the users stay.
LEMMA UsersMoved ==
  ASSUME UsersInv, IdsInv', NEW w \in Workers, call[w].at \in CreationSteps \ {"number"},
         NEW at \in CreationSteps \ {"number"}, NEW next, Moved(w, at, next),
         UNCHANGED <<transactions, users, lastID, requests>>,
         Due(w)' = Due(w),
         Waiting(w)', \A v \in Workers \ {w} : Held(v) \cap Held(w)' = {}
  PROVE  UsersInv'
<1>1. /\ call'[w].number = call[w].number /\ OthersGoOn(w)
  BY DEF Moved, OthersGoOn
<1>2. PICK k \in DOMAIN requests : k = call[w].number /\ KeptRows(k) = Due(w)
  BY OwnFacts
<1>3. KeptRows(k)' = Due(w)'
  BY <1>2, SameRows
<1>4. Progress(w)'
  <2>1. KeptRows(call[w].number)' = KeptRows(k)'
    BY <1>1, <1>2
  <2> QED
    BY <1>3, <2>1 DEF Progress
<1>5. Whole(k)'
  <2>1. KeptRows(k)' = KeptRows(k) /\ Whole(k)
    BY <1>2, SameRows DEF UsersInv
  <2> QED
    BY <2>1 DEF Whole
<1>6. \A l \in DOMAIN requests' :
        Whole(l)' \/ (l \in DOMAIN requests /\ (l # call[w].number \/ ~ Creating(w)))
  BY <1>2, <1>5
<1> QED
  BY <1>1, <1>4, <1>6, UsersFrame

LEMMA UsersRestarted ==
  ASSUME UsersInv, IdsInv', NEW w \in Workers, Restarted(w)
  PROVE  UsersInv'
<1>1. /\ call[w].at = "insert" /\ transactions /\ Moved(w, "insert", 0)
      /\ call'[w].at = "insert" /\ call'[w].next = 0
      /\ UNCHANGED <<transactions, users, lastID, requests>>
  BY DEF Restarted, Moved
<1>2. /\ call[w].at \in CreationSteps \ {"number"} /\ "insert" \in CreationSteps \ {"number"}
  BY <1>1 DEF CreationSteps
<1>3. Due(w)' = Due(w)
  BY <1>1 DEF Due
<1>4. Held(w)' = {}
  <2>1. 1 .. 0 = {}
    OBVIOUS
  <2> QED
    BY <1>1, <2>1 DEF Held
<1>5. Waiting(w)' /\ \A v \in Workers \ {w} : Held(v) \cap Held(w)' = {}
  BY <1>4 DEF Waiting
<1> QED
  BY <1>1, <1>2, <1>3, <1>5, UsersMoved

LEMMA UsersTagged ==
  ASSUME UsersInv, IdsInv', NEW w \in Workers, Tagged(w)
  PROVE  UsersInv'
<1>1. PICK at \in {"commit", "created"} : at = (IF transactions THEN "commit" ELSE "created")
  OBVIOUS
<1>2. /\ call[w].at = "tag" /\ Moved(w, at, call[w].next)
      /\ call'[w].at = at /\ call'[w].next = call[w].next /\ call'[w].rows = call[w].rows
      /\ UNCHANGED <<transactions, users, lastID, requests>>
  BY <1>1 DEF Tagged, Moved
<1>3. call[w].at \in CreationSteps \ {"number"} /\ at \in CreationSteps \ {"number"}
  BY <1>2 DEF CreationSteps
<1>4. PICK len \in 1 .. MaxRows, next \in 0 .. MaxRows :
        /\ len = Len(call[w].rows) /\ next = call[w].next
        /\ DOMAIN call[w].rows = 1 .. len /\ Creating(w) /\ Along(w)
  BY <1>3, OwnFacts
<1>5. next = len
  BY <1>2, <1>4 DEF Along
<1>6. Due(w)' = Due(w)
  BY <1>1, <1>2, <1>4, <1>5 DEF Due
<1>7. Held(w)' = Held(w)
  <2>1. CASE transactions
    BY <1>1, <1>2, <2>1 DEF Held, InTransaction
  <2>2. CASE ~ transactions
    BY <1>2, <2>2 DEF Held, InTransaction
  <2> QED
    BY <2>1, <2>2
<1>8. Waiting(w)' /\ \A v \in Workers \ {w} : Held(v) \cap Held(w)' = {}
  BY <1>2, <1>7 DEF UsersInv, Waiting
<1> QED
  BY <1>2, <1>3, <1>6, <1>8, UsersMoved

LEMMA UsersEntered ==
  ASSUME UsersInv, IdsInv', NEW w \in Workers, Entered(w)
  PROVE  UsersInv'
<1>0. /\ call[w].at = "insert" /\ UNCHANGED <<transactions, lastID, requests>>
      /\ call[w].at \in CreationSteps
  BY DEF Entered, CreationSteps
<1>1. PICK i \in DOMAIN call[w].rows, id \in IDs, u \in User :
       /\ i = call[w].next + 1 /\ id = call[w].rows[i].id
       /\ users[id] = None
       /\ \A v \in Workers \ {w} : id \notin Held(v)
       /\ users' = IF transactions THEN users ELSE [users EXCEPT ![id] = u]
       /\ u.id = id /\ u.number = call[w].number
       /\ Moved(w, IF i = Len(call[w].rows) THEN "tag" ELSE "insert", i)
  BY DEF Entered
<1>2. PICK k \in DOMAIN requests, len \in 1 .. MaxRows, next \in 0 .. MaxRows :
        /\ k = call[w].number /\ len = Len(call[w].rows) /\ next = call[w].next
        /\ next <= len /\ next < len
        /\ DOMAIN call[w].rows = 1 .. len
        /\ DOMAIN requests[k].ids = 1 .. len /\ Len(requests[k].ids) = len
        /\ \A j \in 1 .. len : requests[k].ids[j] = call[w].rows[j].id
        /\ \A j \in 1 .. len : requests[k].ids[j] \in IDs
        /\ Apart(k) /\ KeptRows(k) = Due(w)
        /\ requests[k].outcome = "open"
  BY <1>0, OwnFacts
<1>3. /\ TypeOK /\ Creating(w) /\ Waiting(w)
  BY <1>0, OwnFacts
<1>4. /\ i = next + 1 /\ i \in 1 .. len /\ requests[k].ids[i] = id /\ id # None
      /\ 1 .. i = 1 .. next \cup {i}
  <2>1. i = next + 1 /\ i \in 1 .. len /\ requests[k].ids[i] = id
    BY <1>1, <1>2
  <2>2. next \in Nat
    BY BoundsAssumption
  <2>3. 1 .. i = 1 .. next \cup {i}
    BY <2>1, <2>2
  <2> QED
    BY <2>1, <2>3, NamesAssumption DEF Names
<1>5. PICK at \in {"tag", "insert"} :
        /\ call'[w].at = at /\ call'[w].next = i
        /\ call'[w].rows = call[w].rows /\ call'[w].number = k
        /\ OthersGoOn(w)
  BY <1>1, <1>2 DEF Moved, OthersGoOn
<1>6. /\ \A x \in IDs : users[x] # None => users'[x] = users[x]
      /\ \A x \in IDs : users[x] = None => users'[x] = None \/ (users'[x] = u /\ x = id)
  <2>1. CASE transactions
    BY <1>1, <2>1
  <2>2. CASE ~ transactions
    <3>1. users' = [users EXCEPT ![id] = u]
      BY <1>1, <2>2
    <3> QED
      BY <1>1, <1>3, <3>1 DEF TypeOK
  <2> QED
    BY <2>1, <2>2
<1>7. Held(w)' = IF transactions THEN Held(w) \cup {id} ELSE {}
  <2>1. CASE transactions
    <3>1. /\ Held(w) = {call[w].rows[j].id : j \in 1 .. next}
          /\ Held(w)' = {call[w].rows[j].id : j \in 1 .. i}
      BY <1>0, <1>2, <1>5, <2>1 DEF Held, InTransaction
    <3> QED
      BY <1>1, <1>4, <2>1, <3>1
  <2>2. CASE ~ transactions
    BY <1>0, <2>2 DEF Held, InTransaction
  <2> QED
    BY <2>1, <2>2
<1>8. Waiting(w)'
  <2>1. SUFFICES ASSUME transactions PROVE Waiting(w)'
    BY <1>7 DEF Waiting
  <2>2. users' = users
    BY <1>1, <2>1
  <2> QED
    BY <1>1, <1>3, <1>7, <2>2 DEF Waiting
<1>9. \A v \in Workers \ {w} : Held(v) \cap Held(w)' = {}
  BY <1>1, <1>7 DEF UsersInv
<1>10. KeptRows(k)' = IF transactions THEN {} ELSE 1 .. i
  <2>1. CASE transactions
    <3>1. Due(w) = {} /\ users' = users
      BY <1>0, <1>1, <2>1 DEF Due
    <3> QED
      BY <1>0, <1>2, <2>1, <3>1, SameRows
  <2>2. CASE ~ transactions
    <3>1. Due(w) = 1 .. next
      BY <1>0, <1>2, <2>2 DEF Due
    <3>2. \A x \in IDs : users'[x] = IF x = id THEN u ELSE users[x]
      BY <1>1, <1>3, <2>2 DEF TypeOK
    <3>3. ASSUME NEW j \in 1 .. len
          PROVE  j \in KeptRows(k)' <=> j \in KeptRows(k) \/ j = i
      <4>1. CASE requests[k].ids[j] = id
        <5>1. j = i
          BY <1>2, <1>4, <3>3, <4>1 DEF Apart
        <5>2. u # None
          BY NoneAssumption
        <5> QED
          BY <1>0, <1>1, <1>2, <1>4, <3>2, <4>1, <5>1, <5>2 DEF KeptRows
      <4>2. CASE requests[k].ids[j] # id
        <5>1. j # i
          BY <1>4, <4>2
        <5>2. users'[requests[k].ids[j]] = users[requests[k].ids[j]]
          BY <1>2, <3>2, <4>2
        <5> QED
          BY <1>0, <1>2, <5>1, <5>2 DEF KeptRows
      <4> QED
        BY <4>1, <4>2
    <3>4. KeptRows(k)' \subseteq 1 .. len /\ KeptRows(k) \subseteq 1 .. len
      BY <1>0, <1>2 DEF KeptRows
    <3>5. KeptRows(k)' = KeptRows(k) \cup {i}
      BY <1>4, <3>3, <3>4
    <3> QED
      BY <1>2, <1>4, <2>2, <3>1, <3>5
  <2> QED
    BY <2>1, <2>2
<1>11. Progress(w)'
  <2>1. Due(w)' = IF transactions THEN {} ELSE 1 .. i
    BY <1>0, <1>5 DEF Due
  <2>2. KeptRows(call[w].number)' = KeptRows(k)'
    BY <1>2, <1>5
  <2> QED
    BY <1>10, <2>1, <2>2 DEF Progress
<1>12. Whole(k)'
  <2>1. /\ 0 \in 0 .. len /\ i \in 0 .. len /\ 1 .. 0 = {}
        /\ Len(requests'[k].ids) = len /\ requests'[k].outcome = "open"
    BY <1>0, <1>2, <1>4
  <2>2. CASE transactions
    BY <1>10, <2>1, <2>2 DEF Whole
  <2>3. CASE ~ transactions
    BY <1>0, <1>10, <2>1, <2>3 DEF Whole
  <2> QED
    BY <2>2, <2>3
<1>13. \A l \in DOMAIN requests' :
        Whole(l)' \/ (l \in DOMAIN requests /\ (l # call[w].number \/ ~ Creating(w)))
  BY <1>0, <1>2, <1>12
<1>14. \A x \in IDs : users[x] = None =>
           \/ users'[x] = None
           \/ /\ users'[x].id = x /\ users'[x].number = call[w].number
              /\ Creating(w)
              /\ \E j \in DOMAIN requests[call[w].number].ids :
                   requests[call[w].number].ids[j] = x
              /\ \A v \in Workers \ {w} : x \notin Held(v)
  BY <1>1, <1>2, <1>3, <1>4, <1>6
<1> QED
  BY <1>0, <1>5, <1>6, <1>8, <1>9, <1>11, <1>13, <1>14, UsersFrame

LEMMA UsersDrew ==
  ASSUME UsersInv, IdsInv', NEW w \in Workers, Drew(w)
  PROVE  UsersInv'
<1>0. call[w].at = "number" /\ call[w].at \in CreationSteps
  BY DEF Drew, CreationSteps
<1>1. PICK d, m : d = Numbered[lastID + 1] /\ m = call[w].next + 1
  OBVIOUS
<1>2. PICK k \in DOMAIN requests, len \in 1 .. MaxRows, next \in 0 .. MaxRows :
        /\ k = call[w].number /\ next = call[w].next /\ next < len
        /\ DOMAIN requests[k].ids = 1 .. len /\ Len(requests[k].ids) = len
        /\ KeptRows(k) = Due(w)
        /\ requests[k].outcome = "open"
  BY <1>0, OwnFacts
<1>3. /\ TypeOK /\ Creating(w)
      /\ \A i \in DOMAIN requests[k].ids :
           /\ requests[k].ids[i] \in Drawn \cup {None}
           /\ i > next => requests[k].ids[i] = None
  BY <1>0, <1>2, OwnFacts DEF Numbering
<1>4. /\ DOMAIN requests' = DOMAIN requests
      /\ \A l \in DOMAIN requests :
           /\ requests'[l].outcome = requests[l].outcome
           /\ DOMAIN requests'[l].ids = DOMAIN requests[l].ids
           /\ \A i \in DOMAIN requests[l].ids :
                requests'[l].ids[i] = IF l = k /\ i = m THEN d ELSE requests[l].ids[i]
      /\ call'[w].at \in {"number", "insert"} /\ call'[w].number = k
      /\ call'[w].at = "insert" => call'[w].next = 0
      /\ OthersGoOn(w) /\ UNCHANGED <<transactions, users>>
  BY <1>1, <1>2 DEF Drew
<1>5. d # None /\ d \notin Drawn
  BY <1>1, <1>3, NextNumberIsNew DEF Drew
<1>6. m \in 1 .. len /\ m > next /\ m = next + 1
  BY <1>1, <1>2, BoundsAssumption
<1>7. requests[k].ids[m] = None
  BY <1>2, <1>3, <1>6
<1>8. KeptRows(k)' = {}
  <2>1. SUFFICES ASSUME NEW i \in KeptRows(k)' PROVE FALSE
    OBVIOUS
  <2>2. /\ i \in DOMAIN requests[k].ids
        /\ requests'[k].ids[i] \in IDs
        /\ users[requests'[k].ids[i]] # None
        /\ users[requests'[k].ids[i]].number = k
    BY <1>4 DEF KeptRows
  <2>3. CASE i # m
    <3>1. requests'[k].ids[i] = requests[k].ids[i]
      BY <1>4, <2>2, <2>3
    <3>2. i \in KeptRows(k)
      BY <2>2, <3>1 DEF KeptRows
    <3>3. KeptRows(k) = {}
      BY <1>0, <1>2 DEF Due
    <3> QED
      BY <3>2, <3>3
  <2>4. CASE i = m
    <3>1. requests'[k].ids[i] = d
      BY <1>4, <2>2, <2>4
    <3>2. d \in IDs /\ users[d] # None /\ users[d].number = k
      BY <2>2, <3>1
    <3>3. \E j \in DOMAIN requests[k].ids : requests[k].ids[j] = d
      BY <3>2 DEF UsersInv, Origin
    <3> QED
      BY <1>3, <1>5, <3>3
  <2> QED
    BY <2>3, <2>4
<1>9. Due(w)' = {} /\ Held(w)' = {}
  <2>1. 1 .. 0 = {}
    OBVIOUS
  <2> QED
    BY <1>4, <2>1 DEF Due, Held
<1>10. Progress(w)' /\ Waiting(w)' /\ \A v \in Workers \ {w} : Held(v) \cap Held(w)' = {}
  <2>1. KeptRows(call[w].number)' = KeptRows(k)'
    BY <1>2, <1>4
  <2> QED
    BY <1>8, <1>9, <2>1 DEF Progress, Waiting
<1>11. Whole(k)'
  <2>1. requests'[k].outcome = "open"
    BY <1>2, <1>4
  <2>2. Len(requests'[k].ids) \in Nat
    <3>1. PICK rq : rq = requests'
      OBVIOUS
    <3>2. rq \in Seq(Request)
      <4>1. TypeOK'
        BY DEF IdsInv, TypeInv
      <4> QED
        BY <3>1, <4>1 DEF TypeOK, Request, Outcomes
    <3>3. k \in DOMAIN rq
      BY <1>4, <3>1
    <3>4. rq[k] \in Request
      BY <3>2, <3>3
    <3> QED
      BY <3>1, <3>4 DEF Request
  <2>3. 0 \in 0 .. Len(requests'[k].ids) /\ 1 .. 0 = {}
    BY <2>2
  <2> QED
    BY <1>8, <2>1, <2>3 DEF Whole
<1>12. \A l \in DOMAIN requests' :
        Whole(l)' \/ (l \in DOMAIN requests /\ (l # call[w].number \/ ~ Creating(w)))
  BY <1>2, <1>4, <1>11
<1>13. \A l \in DOMAIN requests :
        /\ l # call[w].number \/ ~ Creating(w) =>
             requests'[l].ids = requests[l].ids /\ requests'[l].outcome = requests[l].outcome
        /\ DOMAIN requests'[l].ids = DOMAIN requests[l].ids
        /\ \A i \in DOMAIN requests[l].ids :
             requests[l].ids[i] # None => requests'[l].ids[i] = requests[l].ids[i]
  <2>1. ASSUME NEW l \in DOMAIN requests, l # k
        PROVE  requests'[l].ids = requests[l].ids
    <3>1. PICK rq : rq = requests'
      OBVIOUS
    <3>2. rq \in Seq(Request) /\ l \in DOMAIN rq
      <4>1. TypeOK'
        BY DEF IdsInv, TypeInv
      <4>2. rq \in Seq(Request)
        BY <3>1, <4>1 DEF TypeOK, Request, Outcomes
      <4> QED
        BY <1>4, <3>1, <4>2
    <3>3. rq[l] \in Request
      BY <3>2
    <3>4. rq[l].ids \in Seq(IDs \cup {None}) /\ requests[l].ids \in Seq(IDs \cup {None})
      BY <1>3, <3>3, RequestsType DEF Request
    <3>5. /\ DOMAIN rq[l].ids = DOMAIN requests[l].ids
          /\ \A i \in DOMAIN requests[l].ids : rq[l].ids[i] = requests[l].ids[i]
      BY <1>4, <2>1, <3>1
    <3>6. PICK a \in Seq(IDs \cup {None}), b \in Seq(IDs \cup {None}) :
            a = rq[l].ids /\ b = requests[l].ids
      BY <3>4
    <3>7. a = b
      <4>1. DOMAIN a = DOMAIN b /\ \A i \in DOMAIN a : a[i] = b[i]
        BY <3>5, <3>6
      <4> QED
        BY <4>1
    <3> QED
      BY <3>1, <3>6, <3>7
  <2>2. ASSUME NEW l \in DOMAIN requests
        PROVE  /\ DOMAIN requests'[l].ids = DOMAIN requests[l].ids
               /\ \A i \in DOMAIN requests[l].ids :
                    requests[l].ids[i] # None => requests'[l].ids[i] = requests[l].ids[i]
    BY <1>4, <1>7
  <2> QED
    BY <1>2, <1>3, <1>4, <2>1, <2>2
<1>14. /\ UNCHANGED transactions
       /\ \A id \in IDs : users[id] # None => users'[id] = users[id]
       /\ \A id \in IDs : users[id] = None => users'[id] = None
  BY <1>4
<1> QED
  BY <1>4, <1>10, <1>12, <1>13, <1>14, UsersFrame

LEMMA UsersCommitted ==
  ASSUME UsersInv, IdsInv', NEW w \in Workers, Committed(w)
  PROVE  UsersInv'
<1>0. /\ call[w].at = "commit" /\ UNCHANGED <<transactions, lastID, requests>>
      /\ call[w].at \in CreationSteps
  BY DEF Committed, CreationSteps
<1>1. PICK k \in DOMAIN requests, len \in 1 .. MaxRows, next \in 0 .. MaxRows :
        /\ k = call[w].number /\ len = Len(call[w].rows) /\ next = call[w].next
        /\ DOMAIN call[w].rows = 1 .. len
        /\ DOMAIN requests[k].ids = 1 .. len /\ Len(requests[k].ids) = len
        /\ \A j \in 1 .. len : requests[k].ids[j] = call[w].rows[j].id
        /\ \A j \in 1 .. len : requests[k].ids[j] \in IDs
        /\ requests[k].outcome = "open"
  BY <1>0, OwnFacts
<1>2. /\ TypeOK /\ Creating(w) /\ Waiting(w) /\ transactions /\ next = len
  BY <1>0, <1>1, OwnFacts DEF Along
<1>3. /\ \A id \in IDs :
           IF \E i \in 1 .. len : requests[k].ids[i] = id
           THEN users'[id] # None /\ users'[id].id = id /\ users'[id].number = k
           ELSE users'[id] = users[id]
      /\ call'[w].at = "created" /\ call'[w].rows = call[w].rows /\ call'[w].number = k
      /\ OthersGoOn(w)
  <2>1. ASSUME NEW id \in IDs
        PROVE  IF \E i \in 1 .. len : requests[k].ids[i] = id
               THEN users'[id] # None /\ users'[id].id = id /\ users'[id].number = k
               ELSE users'[id] = users[id]
    <3>1. IF \E i \in 1 .. len : call[w].rows[i].id = id
          THEN users'[id] \in User /\ users'[id].id = id /\ users'[id].number = k
          ELSE users'[id] = users[id]
      BY <1>1 DEF Committed
    <3> QED
      BY <1>1, <3>1, NoneAssumption
  <2> QED
    BY <1>1, <2>1 DEF Committed, Moved, OthersGoOn
<1>4. \A i \in 1 .. len : requests[k].ids[i] \in Held(w)
  <2>1. Held(w) = {call[w].rows[i].id : i \in 1 .. len}
    BY <1>0, <1>1, <1>2 DEF Held, InTransaction
  <2> QED
    BY <1>1, <2>1
<1>5. /\ \A id \in IDs : users[id] # None => users'[id] = users[id]
      /\ \A id \in IDs : users[id] = None =>
           \/ users'[id] = None
           \/ /\ users'[id].id = id /\ users'[id].number = call[w].number
              /\ Creating(w)
              /\ \E i \in DOMAIN requests[call[w].number].ids :
                   requests[call[w].number].ids[i] = id
              /\ \A v \in Workers \ {w} : id \notin Held(v)
  <2>1. ASSUME NEW id \in IDs, NEW i \in 1 .. len, requests[k].ids[i] = id
        PROVE  users[id] = None /\ \A v \in Workers \ {w} : id \notin Held(v)
    BY <1>2, <1>4, <2>1 DEF UsersInv, Waiting
  <2> QED
    BY <1>1, <1>2, <1>3, <2>1
<1>6. Held(w)' = {} /\ Due(w)' = 1 .. len
  BY <1>1, <1>3 DEF Held, Due
<1>7. KeptRows(k)' = 1 .. len
  <2>1. \A i \in 1 .. len : users'[requests[k].ids[i]] # None /\ users'[requests[k].ids[i]].number = k
    BY <1>1, <1>3
  <2> QED
    BY <1>0, <1>1, <2>1 DEF KeptRows
<1>8. Progress(w)' /\ Waiting(w)' /\ \A v \in Workers \ {w} : Held(v) \cap Held(w)' = {}
  <2>1. KeptRows(call[w].number)' = KeptRows(k)'
    BY <1>1, <1>3
  <2> QED
    BY <1>6, <1>7, <2>1 DEF Progress, Waiting
<1>9. Whole(k)'
  <2>1. len \in 0 .. len /\ Len(requests'[k].ids) = len /\ requests'[k].outcome = "open"
    BY <1>0, <1>1, BoundsAssumption
  <2> QED
    BY <1>7, <2>1 DEF Whole
<1>10. \A l \in DOMAIN requests' :
        Whole(l)' \/ (l \in DOMAIN requests /\ (l # call[w].number \/ ~ Creating(w)))
  BY <1>0, <1>1, <1>9
<1> QED
  BY <1>0, <1>3, <1>5, <1>8, <1>10, UsersFrame

LEMMA UsersStep ==
  ASSUME UsersInv, [Next]_vars
  PROVE  /\ UsersInv'
         /\ \A id \in IDs : users[id] # None => users'[id] = users[id]
<1>1. IdsInv /\ IdsInv' /\ TypeInv /\ TypeOK
  BY IdsStep DEF UsersInv, IdsInv, TypeInv
<1>2. ASSUME NEW w \in Workers,
             \/ Started(w) \/ Drew(w) \/ Entered(w) \/ Refused(w) \/ Restarted(w)
             \/ Tagged(w) \/ Committed(w) \/ Finished(w) \/ Broke(w) \/ Looked(w)
      PROVE  UsersInv'
  <2>1. CASE Started(w)
    BY <1>1, <2>1, UsersStarted
  <2>2. CASE Drew(w)
    BY <1>1, <2>2, UsersDrew
  <2>3. CASE Entered(w)
    BY <1>1, <2>3, UsersEntered
  <2>4. CASE Refused(w)
    <3>1. /\ call[w].at = "insert" /\ call[w].at \in CreationSteps
          /\ Ended(w, "refused") /\ UNCHANGED <<transactions, users, lastID>>
      BY <2>4 DEF Refused, CreationSteps
    <3> QED
      BY <1>1, <3>1, UsersEnded
  <2>5. CASE Restarted(w)
    BY <1>1, <2>5, UsersRestarted
  <2>6. CASE Tagged(w)
    BY <1>1, <2>6, UsersTagged
  <2>7. CASE Committed(w)
    BY <1>1, <2>7, UsersCommitted
  <2>8. CASE Finished(w)
    <3>1. /\ call[w].at = "created" /\ call[w].at \in CreationSteps
          /\ Ended(w, "done") /\ UNCHANGED <<transactions, users, lastID>>
      BY <2>8 DEF Finished, CreationSteps
    <3> QED
      BY <1>1, <3>1, UsersEnded
  <2>9. CASE Broke(w)
    <3>1. /\ call[w].at \in CreationSteps
          /\ Ended(w, "broken") /\ UNCHANGED <<transactions, users, lastID>>
      BY <2>9 DEF Broke
    <3> QED
      BY <1>1, <3>1, UsersEnded
  <2>10. CASE Looked(w)
    BY <1>1, <2>10, UsersLooked
  <2> QED
    BY <1>2, <2>1, <2>2, <2>3, <2>4, <2>5, <2>6, <2>7, <2>8, <2>9, <2>10
<1>3. ASSUME Rested PROVE UsersInv'
  <2>1. \A w \in Workers : Held(w)' = Held(w) /\ Due(w)' = Due(w)
    BY <1>3 DEF Rested, Held, InTransaction, Due
  <2>2. \A k \in DOMAIN requests : KeptRows(k)' = KeptRows(k)
    BY <1>3, SameRows DEF Rested
  <2>3. \A w \in Workers : Progress(w)' /\ Waiting(w)'
    <3>1. SUFFICES ASSUME NEW w \in Workers PROVE Progress(w)' /\ Waiting(w)'
      OBVIOUS
    <3>2. Creating(w) => call[w].number \in DOMAIN requests
      BY <1>1 DEF TypeInv, Linked
    <3>3. Progress(w) /\ Waiting(w)
      BY DEF UsersInv
    <3> QED
      BY <1>3, <2>1, <2>2, <3>2, <3>3 DEF Rested, Progress, Waiting, Creating
  <2>4. \A id \in IDs : Origin(id)'
    BY <1>3 DEF UsersInv, Rested, Origin
  <2>5. \A k \in DOMAIN requests' : Whole(k)'
    BY <1>3, <2>2 DEF UsersInv, Rested, Whole
  <2>6. (\A v, w \in Workers : v # w => Held(v) \cap Held(w) = {})'
    BY <2>1 DEF UsersInv
  <2> QED
    BY <1>1, <2>3, <2>4, <2>5, <2>6 DEF UsersInv
<1>4. ASSUME NEW id \in IDs, users[id] # None PROVE users'[id] = users[id]
  <2>1. ASSUME NEW w \in Workers, Entered(w) PROVE users'[id] = users[id]
    <3>1. PICK x \in IDs, u \in User :
            /\ users[x] = None
            /\ users' = IF transactions THEN users ELSE [users EXCEPT ![x] = u]
      BY <2>1 DEF Entered
    <3> QED
      BY <1>1, <1>4, <3>1 DEF TypeOK
  <2>2. ASSUME NEW w \in Workers, Committed(w) PROVE users'[id] = users[id]
    <3>1. SUFFICES ASSUME \E i \in DOMAIN call[w].rows : call[w].rows[i].id = id
                   PROVE  FALSE
      BY <2>2 DEF Committed
    <3>2. call[w].at \in CreationSteps /\ call[w].at = "commit"
      BY <2>2 DEF Committed, CreationSteps
    <3>3. /\ Waiting(w) /\ transactions /\ call[w].next = Len(call[w].rows)
          /\ DOMAIN call[w].rows = 1 .. Len(call[w].rows)
      <4>1. Along(w) /\ Creating(w) /\ Waiting(w)
        BY <3>2, OwnFacts
      <4>2. DOMAIN call[w].rows = 1 .. Len(call[w].rows)
        BY <3>2, OwnFacts
      <4> QED
        BY <3>2, <4>1, <4>2 DEF Along
    <3>4. id \in Held(w)
      BY <3>1, <3>2, <3>3 DEF Held, InTransaction
    <3> QED
      BY <1>4, <3>3, <3>4 DEF Waiting
  <2> QED
    BY <1>1, <2>1, <2>2, Effect
         DEF Started, Drew, Refused, Restarted, Tagged, Finished, Broke, Looked, Rested
<1> QED
  BY <1>1, <1>2, <1>3, <1>4, Effect

LEMMA UsersInit == Init => UsersInv
<1>1. SUFFICES ASSUME Init PROVE UsersInv
  OBVIOUS
<1>2. /\ \A w \in Workers : call[w].at = "idle" /\ call[w].number = 0
      /\ \A id \in IDs : users[id] = None
      /\ DOMAIN requests = {}
  BY <1>1 DEF Init, IdleCall
<1>3. \A w \in Workers : Held(w) = {}
  BY <1>2 DEF Held
<1> QED
  BY <1>1, <1>2, <1>3, IdsInit DEF UsersInv, Origin, Progress, Waiting, Creating

\* A user that is stored is never replaced and never changed, whoever inserts the
\* same ID meanwhile: the action property UsersStay.
THEOREM StoredStays == Spec => UsersStay
<1>1. UsersInv /\ [Next]_vars => UsersInv'
  BY UsersStep
<1>2. UsersInv /\ [Next]_vars =>
        [\A id \in IDs : users[id] # None => users'[id] = users[id]]_vars
  BY UsersStep
<1> QED
  BY <1>1, <1>2, UsersInit, PTL DEF Spec, UsersStay

\* The rows with a user are the rows whose users are stored.
LEMMA StoredAreKept ==
  ASSUME UsersInv, NEW k \in DOMAIN requests
  PROVE  StoredRows(k) = KeptRows(k)
<1>1. ASSUME NEW i \in DOMAIN requests[k].ids
      PROVE  (\E u \in Stored : u.id = requests[k].ids[i] /\ u.number = k)
               <=> /\ requests[k].ids[i] \in IDs
                   /\ users[requests[k].ids[i]] # None
                   /\ users[requests[k].ids[i]].number = k
  <2>1. \A id \in IDs : users[id] # None => users[id].id = id
    BY DEF UsersInv, Origin
  <2> QED
    BY <2>1 DEF Stored
<1> QED
  BY <1>1 DEF StoredRows, KeptRows

LEMMA WholeRequests ==
  ASSUME UsersInv
  PROVE  CreatedWhole
<1>1. SUFFICES ASSUME NEW k \in DOMAIN requests
               PROVE  LET stored == StoredRows(k)
                          all == DOMAIN requests[k].ids
                      IN  /\ stored = 1 .. Cardinality(stored)
                          /\ requests[k].outcome = "done" => stored = all
                          /\ transactions => stored \in {{}, all}
                          /\ transactions /\ requests[k].outcome = "refused" => stored = {}
  BY DEF CreatedWhole
<1>2. /\ DOMAIN requests[k].ids = 1 .. Len(requests[k].ids)
      /\ Len(requests[k].ids) \in Nat
  BY RequestsType DEF UsersInv, IdsInv, TypeInv
<1>3. PICK m \in 0 .. Len(requests[k].ids) :
        /\ StoredRows(k) = 1 .. m
        /\ requests[k].outcome = "done" => m = Len(requests[k].ids)
        /\ transactions => m \in {0, Len(requests[k].ids)}
        /\ transactions /\ requests[k].outcome = "refused" => m = 0
  BY StoredAreKept DEF UsersInv, Whole
<1>4. Cardinality(1 .. m) = m
  <2>1. 1 \in Int /\ m \in Int
    BY <1>2
  <2>2. Cardinality(1 .. m) = IF 1 > m THEN 0 ELSE m - 1 + 1
    BY <2>1, FS_Interval
  <2> QED
    BY <1>2, <2>2
<1>5. 1 .. 0 = {}
  OBVIOUS
<1> QED
  BY <1>2, <1>3, <1>4, <1>5

\* A request that is told of success has all its users stored; one that stops
\* halfway leaves its first rows, under transactions all or none.
THEOREM CreatedCorrect == Spec => []CreatedWhole
<1>1. UsersInv /\ [Next]_vars => UsersInv'
  BY UsersStep
<1> QED
  BY <1>1, UsersInit, WholeRequests, PTL DEF Spec

-----------------------------------------------------------------------------
(* Refusals: the IDs of the counter are nobody else's.                         *)

\* A request that was refused has a row whose ID callers choose, and another's.
Blamed(k) ==
  requests[k].outcome = "refused" =>
    \E i \in DOMAIN requests[k].ids :
      /\ requests[k].ids[i] \in Chosen
      /\ users[requests[k].ids[i]] # None
      /\ i \notin KeptRows(k)

RefusedInv == UsersInv /\ \A k \in DOMAIN requests : Blamed(k)

\* Nothing more happens to a request that was refused.
LEMMA RefusedBefore ==
  ASSUME UsersInv, [Next]_vars, NEW k \in DOMAIN requests',
         requests'[k].outcome = "refused",
         \A w \in Workers : Refused(w) => k # call[w].number
  PROVE  /\ k \in DOMAIN requests /\ requests[k].outcome = "refused"
         /\ DOMAIN requests'[k].ids = DOMAIN requests[k].ids
         /\ \A i \in DOMAIN requests[k].ids : requests'[k].ids[i] = requests[k].ids[i]
<1>1. TypeInv
  BY DEF UsersInv, IdsInv
<1>2. ASSUME NEW w \in Workers, NEW outcome, Ended(w, outcome), outcome # "refused"
      PROVE  /\ k \in DOMAIN requests /\ requests[k].outcome = "refused"
             /\ requests'[k].ids = requests[k].ids
  BY <1>2 DEF Ended
<1>3. ASSUME NEW w \in Workers, Refused(w)
      PROVE  /\ k \in DOMAIN requests /\ requests[k].outcome = "refused"
             /\ requests'[k].ids = requests[k].ids
  BY <1>3 DEF Refused, Ended
<1>4. ASSUME NEW w \in Workers, Started(w)
      PROVE  k \in DOMAIN requests /\ requests'[k] = requests[k]
  BY <1>4 DEF Started
<1>5. ASSUME NEW w \in Workers, Drew(w)
      PROVE  /\ k \in DOMAIN requests /\ requests[k].outcome = "refused"
             /\ DOMAIN requests'[k].ids = DOMAIN requests[k].ids
             /\ \A i \in DOMAIN requests[k].ids : requests'[k].ids[i] = requests[k].ids[i]
  <2>1. /\ DOMAIN requests' = DOMAIN requests
        /\ \A l \in DOMAIN requests :
             /\ requests'[l].outcome = requests[l].outcome
             /\ DOMAIN requests'[l].ids = DOMAIN requests[l].ids
             /\ l # call[w].number =>
                  \A i \in DOMAIN requests[l].ids : requests'[l].ids[i] = requests[l].ids[i]
    BY <1>5 DEF Drew
  <2>2. call[w].at \in CreationSteps
    BY <1>5 DEF Drew, CreationSteps
  <2>3. requests[call[w].number].outcome = "open"
    BY <2>2, OwnFacts
  <2> QED
    BY <2>1, <2>3
<1>6. ASSUME UNCHANGED requests
      PROVE  k \in DOMAIN requests /\ requests'[k] = requests[k]
  BY <1>6
<1>7. CASE \E w \in Workers : Finished(w) \/ Broke(w)
  BY <1>2, <1>7 DEF Finished, Broke
<1>8. CASE \/ \E w \in Workers :
                Entered(w) \/ Restarted(w) \/ Tagged(w) \/ Committed(w) \/ Looked(w)
           \/ Rested
  <2>1. UNCHANGED requests
    BY <1>8 DEF Entered, Restarted, Tagged, Committed, Looked, Rested
  <2> QED
    BY <1>6, <2>1
<1>9. CASE \E w \in Workers : Started(w) \/ Drew(w) \/ Refused(w)
  BY <1>3, <1>4, <1>5, <1>9
<1> QED
  BY <1>1, <1>7, <1>8, <1>9, Effect

LEMMA RefusedStep ==
  ASSUME RefusedInv, [Next]_vars
  PROVE  RefusedInv'
<1>1. UsersInv /\ UsersInv' /\ \A id \in IDs : users[id] # None => users'[id] = users[id]
  BY UsersStep DEF RefusedInv
<1>2. SUFFICES ASSUME NEW k \in DOMAIN requests', requests'[k].outcome = "refused"
               PROVE  \E i \in DOMAIN requests'[k].ids :
                        /\ requests'[k].ids[i] \in Chosen
                        /\ users'[requests'[k].ids[i]] # None
                        /\ i \notin KeptRows(k)'
  BY <1>1 DEF RefusedInv, Blamed
<1>3. Chosen \subseteq IDs
  BY DEF IDs
<1>4. CASE \A w \in Workers : Refused(w) => k # call[w].number
  <2>1. /\ k \in DOMAIN requests /\ requests[k].outcome = "refused"
        /\ DOMAIN requests'[k].ids = DOMAIN requests[k].ids
        /\ \A i \in DOMAIN requests[k].ids : requests'[k].ids[i] = requests[k].ids[i]
    BY <1>1, <1>2, <1>4, RefusedBefore
  <2>2. PICK i \in DOMAIN requests[k].ids :
          /\ requests[k].ids[i] \in Chosen
          /\ users[requests[k].ids[i]] # None
          /\ i \notin KeptRows(k)
    BY <2>1 DEF RefusedInv, Blamed
  <2>3. PICK id \in IDs : id = requests[k].ids[i] /\ id = requests'[k].ids[i]
    BY <1>3, <2>1, <2>2
  <2>4. users[id].number # k
    BY <2>2, <2>3 DEF KeptRows
  <2>5. users'[id] = users[id]
    BY <1>1, <2>2, <2>3
  <2>6. i \notin KeptRows(k)'
    BY <2>3, <2>4, <2>5 DEF KeptRows
  <2> QED
    BY <2>1, <2>2, <2>3, <2>5, <2>6
<1>5. ASSUME NEW w \in Workers, Refused(w), k = call[w].number
      PROVE  \E i \in DOMAIN requests'[k].ids :
               /\ requests'[k].ids[i] \in Chosen
               /\ users'[requests'[k].ids[i]] # None
               /\ i \notin KeptRows(k)'
  <2>1. /\ call[w].at = "insert" /\ call[w].at \in CreationSteps
        /\ \A l \in DOMAIN requests : requests'[l].ids = requests[l].ids
        /\ UNCHANGED users
    BY <1>5 DEF Refused, Ended, CreationSteps
  <2>2. PICK i \in DOMAIN call[w].rows, id \in IDs :
          i = call[w].next + 1 /\ id = call[w].rows[i].id /\ users[id] # None
    BY <1>5 DEF Refused
  <2>3. PICK len \in 1 .. MaxRows, next \in 0 .. MaxRows :
          /\ k \in DOMAIN requests /\ next = call[w].next
          /\ DOMAIN call[w].rows = 1 .. len
          /\ DOMAIN requests[k].ids = 1 .. len
          /\ \A j \in 1 .. len : requests[k].ids[j] = call[w].rows[j].id
          /\ KeptRows(k) = Due(w)
    BY <1>1, <1>5, <2>1, OwnFacts
  <2>4. i \in 1 .. len /\ i = next + 1 /\ requests[k].ids[i] = id
    BY <2>2, <2>3
  <2>5. i \notin KeptRows(k)
    <3>1. i \notin 1 .. next /\ i \notin {}
      BY <2>4, BoundsAssumption
    <3> QED
      BY <2>1, <2>3, <3>1 DEF Due
  <2>6. id \in Chosen
    <3>1. PICK l \in DOMAIN requests :
            l = users[id].number /\ \E j \in DOMAIN requests[l].ids : requests[l].ids[j] = id
      BY <1>1, <2>2, SMTT(20) DEF UsersInv, Origin
    <3>2. PICK j \in DOMAIN requests[l].ids : requests[l].ids[j] = id
      BY <3>1
    <3>3. id # None
      BY NamesAssumption DEF Names
    <3>4. SUFFICES ASSUME id \notin Chosen PROVE FALSE
      OBVIOUS
    <3>5. l = k /\ i = j
      BY <1>1, <2>3, <2>4, <3>2, <3>3, <3>4 DEF UsersInv, IdsInv, GivenOnce
    <3>6. i \in KeptRows(k)
      BY <2>2, <2>3, <2>4, <3>1, <3>5 DEF KeptRows
    <3> QED
      BY <2>5, <3>6
  <2>7. KeptRows(k)' = KeptRows(k)
    BY <2>1, <2>3, SameRows
  <2> QED
    BY <2>1, <2>2, <2>3, <2>4, <2>5, <2>6, <2>7
<1> QED
  BY <1>4, <1>5

\* A request is refused only for an ID that somebody chose, and never for one of
\* the counter: no two rows are given one number, whatever fails.
THEOREM RefusedCorrect == Spec => []RefusedForChosen
<1>1. Init => RefusedInv
  BY UsersInit DEF RefusedInv, Init
<1>2. RefusedInv /\ [Next]_vars => RefusedInv'
  BY RefusedStep
<1>3. RefusedInv => RefusedForChosen
  BY StoredAreKept DEF RefusedInv, Blamed, RefusedForChosen
<1> QED
  BY <1>1, <1>2, <1>3, PTL DEF Spec

-----------------------------------------------------------------------------
(* Lookups: copies and answers are of users that are stored, and those stay.   *)

\* A copy is of a user that is stored, under his ID or his account, whichever of
\* the two lookups left it.
TrueCopies == \A p \in cache : p.user \in Bearers(p.name)

\* Who is found goes by the name that is asked for, and who was there when the lookup
\* began is found.
Looking(w) ==
  call[w].at \in LookupSteps =>
    /\ call[w].asked \subseteq IF call[w].op = "Find" THEN IDs ELSE Accounts
    /\ \A p \in call[w].found : p.user # None => p.user \in Bearers(p.name)
    /\ call[w].sure => /\ \A n \in call[w].asked : Matches(call[w].op, n) # {}
                       /\ \A p \in call[w].found : p.user # None

LookupInv ==
  /\ UsersInv
  /\ TrueCopies
  /\ \A w \in Workers : Looking(w)

\* Users that are stored stay, and so do those with a name.
LEMMA MoreMatches ==
  ASSUME \A id \in IDs : users[id] # None => users'[id] = users[id]
  PROVE  /\ Stored \subseteq Stored'
         /\ \A op, n : Matches(op, n) \subseteq Matches(op, n)'
         /\ \A n : Bearers(n) \subseteq Bearers(n)'
<1>1. Stored \subseteq Stored'
  BY DEF Stored
<1>2. \A op, n : Matches(op, n) \subseteq Matches(op, n)'
  BY <1>1 DEF Matches
<1> QED
  BY <1>1, <1>2 DEF Bearers

\* A call that does not change knows no less.
LEMMA StillLooking ==
  ASSUME NEW w \in Workers, Looking(w), call'[w] = call[w],
         \A id \in IDs : users[id] # None => users'[id] = users[id]
  PROVE  Looking(w)'
BY MoreMatches DEF Looking

LEMMA LookupFrame ==
  ASSUME LookupInv, [Next]_vars, NEW w \in Workers, OthersGoOn(w),
         Looking(w)',
         \A p \in cache' : \/ p \in cache
                           \/ p.user \in Bearers(p.name)
  PROVE  LookupInv'
<1>1. UsersInv' /\ \A id \in IDs : users[id] # None => users'[id] = users[id]
  BY UsersStep DEF LookupInv
<1>2. TrueCopies'
  <2>1. \A p \in cache' : p.user \in Bearers(p.name)
    BY DEF LookupInv, TrueCopies
  <2> QED
    BY <1>1, <2>1, MoreMatches DEF TrueCopies
<1>3. \A v \in Workers \ {w} : Looking(v)'
  BY <1>1, StillLooking DEF LookupInv, OthersGoOn
<1> QED
  BY <1>1, <1>2, <1>3 DEF LookupInv

\* What a step of a lookup adds is right.
LEMMA LookupOn ==
  ASSUME LookupInv, [Next]_vars, NEW w \in Workers, call[w].at \in LookupSteps,
         UNCHANGED users,
         NEW at, NEW name, NEW found, Searches(w, at, name, found),
         \A p \in found : p \notin call[w].found =>
           /\ p.user # None => p.user \in Bearers(p.name)
           /\ call[w].sure => p.user # None,
         \A p \in cache' : \/ p \in cache
                           \/ p.user \in Bearers(p.name)
  PROVE  LookupInv'
<1>1. Looking(w)
  BY DEF LookupInv
<1>2. /\ call'[w].found = found
      /\ call'[w].op = call[w].op /\ call'[w].asked = call[w].asked
      /\ call'[w].sure = call[w].sure
      /\ OthersGoOn(w)
  BY DEF Searches, OthersGoOn
<1>3. /\ \A op, n : Matches(op, n)' = Matches(op, n)
      /\ \A n : Bearers(n)' = Bearers(n)
  BY DEF Matches, Bearers, Stored
<1>4. Looking(w)'
  <2>1. call'[w].asked \subseteq IF call'[w].op = "Find" THEN IDs ELSE Accounts
    BY <1>1, <1>2 DEF Looking
  <2>2. \A p \in call'[w].found : p.user # None => p.user \in Bearers(p.name)
    BY <1>1, <1>2 DEF Looking
  <2>3. call'[w].sure => /\ \A n \in call'[w].asked : Matches(call'[w].op, n) # {}
                         /\ \A p \in call'[w].found : p.user # None
    <3>1. SUFFICES ASSUME call'[w].sure
                   PROVE  /\ \A n \in call[w].asked : Matches(call[w].op, n) # {}
                          /\ \A p \in found : p.user # None
      BY <1>2
    <3>2. call[w].sure
      BY <1>2, <3>1
    <3> QED
      BY <1>1, <3>2 DEF Looking
  <2> QED
    BY <1>3, <2>1, <2>2, <2>3 DEF Looking
<1> QED
  BY <1>2, <1>4, LookupFrame

\* A user that is stored is a user, and found under his names.
LEMMA StoredUser ==
  ASSUME TypeOK, NEW u \in Stored
  PROVE  u \in User /\ u # None /\ u.id \in IDs /\ u.account \in Accounts \cup {None}
<1>1. PICK id \in IDs : u = users[id] /\ users[id] # None
  BY DEF Stored
<1>2. u \in User
  BY <1>1 DEF TypeOK
<1> QED
  BY <1>1, <1>2 DEF User

LEMMA LookupLooked ==
  ASSUME LookupInv, [Next]_vars, NEW w \in Workers, Look(w)
  PROVE  LookupInv'
<1>0. /\ TypeInv /\ TypeOK /\ Looking(w)
      /\ call[w].at = "look" /\ call[w].at \in LookupSteps
      /\ UNCHANGED <<users, cache>>
  BY DEF LookupInv, UsersInv, IdsInv, TypeInv, Look, LookupSteps
<1>1. PICK n \in call[w].asked :
        \/ \E p \in cache : /\ p.name = n
                            /\ Searches(w, "look", call[w].name, call[w].found \cup {p})
        \/ Searches(w, "load", n, call[w].found)
  BY <1>0, LookStep
<1>2. \A p \in cache' : \/ p \in cache
                        \/ p.user \in Bearers(p.name)
  BY <1>0
<1>3. ASSUME NEW p \in cache, p.name = n,
             Searches(w, "look", call[w].name, call[w].found \cup {p})
      PROVE  LookupInv'
  <2>1. p.user \in Bearers(p.name)
    BY DEF LookupInv, TrueCopies
  <2>2. p.user \in Stored
    BY <2>1 DEF Bearers, Matches
  <2>3. p.user # None
    BY <1>0, <2>2, StoredUser
  <2>4. \A q \in call[w].found \cup {p} : q \notin call[w].found =>
          /\ q.user # None => q.user \in Bearers(q.name)
          /\ call[w].sure => q.user # None
    BY <2>1, <2>3
  <2> QED
    BY <1>0, <1>2, <1>3, <2>4, LookupOn
<1>4. ASSUME Searches(w, "load", n, call[w].found) PROVE LookupInv'
  <2>1. \A q \in call[w].found : q \notin call[w].found =>
          /\ q.user # None => q.user \in Bearers(q.name)
          /\ call[w].sure => q.user # None
    OBVIOUS
  <2> QED
    BY <1>0, <1>2, <1>4, <2>1, LookupOn
<1> QED
  BY <1>1, <1>3, <1>4

LEMMA LookupLoaded ==
  ASSUME LookupInv, [Next]_vars, NEW w \in Workers, Load(w)
  PROVE  LookupInv'
<1>0. /\ TypeInv /\ TypeOK /\ Looking(w)
      /\ call[w].at = "load" /\ call[w].at \in LookupSteps
      /\ UNCHANGED <<users, cache>>
  BY DEF LookupInv, UsersInv, IdsInv, TypeInv, Load, LookupSteps
<1>1. call[w].name \in call[w].asked
  BY <1>0, LoadStep
<1>2. PICK u \in User \cup {None}, p \in Found :
              /\ p.name = call[w].name /\ p.user = u
              /\ IF u = None THEN Matches(call[w].op, call[w].name) = {}
                             ELSE u \in Matches(call[w].op, call[w].name)
              /\ Searches(w, IF u # None THEN "fill" ELSE "look", call[w].name,
                          call[w].found \cup {p})
  BY <1>0, LoadStep
<1>3. call[w].sure => u # None
  BY <1>0, <1>1, <1>2 DEF Looking
<1>4. \A q \in call[w].found \cup {p} : q \notin call[w].found =>
        /\ q.user # None => q.user \in Bearers(q.name)
        /\ call[w].sure => q.user # None
  BY <1>2, <1>3 DEF Bearers, Matches
<1>5. PICK at : Searches(w, at, call[w].name, call[w].found \cup {p})
  BY <1>2
<1>6. \A q \in cache' : \/ q \in cache
                        \/ q.user \in Bearers(q.name)
  BY <1>0
<1> QED
  BY <1>0, <1>4, <1>5, <1>6, LookupOn

LEMMA LookupFilled ==
  ASSUME LookupInv, [Next]_vars, NEW w \in Workers, Fill(w)
  PROVE  LookupInv'
<1>0. /\ TypeInv /\ Looking(w)
      /\ call[w].at = "fill" /\ call[w].at \in LookupSteps
      /\ UNCHANGED users
  BY DEF LookupInv, UsersInv, IdsInv, Fill, LookupSteps
<1>1. /\ \A p \in cache' : p \in cache \/ (p \in call[w].found /\ p.user # None)
      /\ Searches(w, "look", call[w].name, call[w].found)
  BY <1>0, FillStep
<1>2. \A p \in call[w].found : p.user # None =>
        p.user \in Bearers(p.name)
  BY <1>0 DEF Looking
<1>5. \A q \in call[w].found : q \notin call[w].found =>
        /\ q.user # None => q.user \in Bearers(q.name)
        /\ call[w].sure => q.user # None
  OBVIOUS
<1>6. \A p \in cache' : \/ p \in cache
                        \/ p.user \in Bearers(p.name)
  BY <1>1, <1>2
<1> QED
  BY <1>0, <1>1, <1>5, <1>6, LookupOn

LEMMA LookupBegun ==
  ASSUME LookupInv, [Next]_vars, NEW w \in Workers, Begin(w)
  PROVE  LookupInv'
<1>0. TypeInv
  BY DEF LookupInv, UsersInv, IdsInv
<1>1. ASSUME NEW op \in {"Find", "Login"}, NEW names,
             names \subseteq IF op = "Find" THEN IDs ELSE Accounts,
             BeginLookup(w, op, names)
      PROVE  LookupInv'
  <2>1. names \in SUBSET Names
    BY <1>1 DEF Names
  <2>2. /\ call'[w].at = "look" /\ call'[w].op = op /\ call'[w].asked = names
        /\ call'[w].found = {}
        /\ call'[w].sure => \A n \in names : Matches(op, n) # {}
        /\ \A v \in Workers \ {w} : call'[v] = call[v]
        /\ UNCHANGED <<transactions, users, lastID, cache, requests>>
    BY <1>0, <1>1, <2>1, BeginLookupStep
  <2>3. \A n : Matches(op, n)' = Matches(op, n)
    BY <2>2 DEF Matches, Stored
  <2>4. Looking(w)'
    <3>1. call'[w].asked \subseteq IF call'[w].op = "Find" THEN IDs ELSE Accounts
      BY <1>1, <2>2
    <3>2. call'[w].sure => \A n \in names : Matches(op, n)' # {}
      BY <2>2, <2>3
    <3> QED
      BY <2>2, <3>1, <3>2 DEF Looking
  <2>5. \A p \in cache' : p \in cache
    BY <2>2
  <2>6. OthersGoOn(w)
    BY <2>2 DEF OthersGoOn
  <2> QED
    BY <2>4, <2>5, <2>6, LookupFrame
<1>2. ASSUME NEW op \in {"Register", "Import"}, NEW label \in {"number", "insert"},
             NEW rows \in Rows, BeginCreate(w, op, label, rows),
             label = "insert" => \A i \in DOMAIN rows : rows[i].id # None
      PROVE  LookupInv'
  <2>1. /\ TakenDown(w, label, rows) /\ \A v \in Workers \ {w} : call'[v] = call[v]
        /\ UNCHANGED <<transactions, users, lastID, cache>>
    BY <1>0, <1>2, BeginCreateStep
  <2>2. call'[w].at = label
    BY <2>1 DEF TakenDown
  <2>3. Looking(w)'
    BY <2>2 DEF Looking, LookupSteps
  <2>4. OthersGoOn(w) /\ \A p \in cache' : p \in cache
    BY <2>1 DEF OthersGoOn
  <2> QED
    BY <2>3, <2>4, LookupFrame
<1>3. CASE \E n \in 1 .. MaxRows : \E ids \in [1 .. n -> Chosen] : UserRegister(w, ids)
  <2>1. PICK n \in 1 .. MaxRows : \E ids \in [1 .. n -> Chosen] : UserRegister(w, ids)
    BY <1>3
  <2>2. PICK ids \in [1 .. n -> Chosen] : UserRegister(w, ids)
    BY <2>1
  <2>3. PICK rows \in Rows : /\ BeginCreate(w, "Register", "insert", rows)
                             /\ \A i \in DOMAIN rows : rows[i].id \in Chosen
    BY <2>2, RegisterStep
  <2>4. \A i \in DOMAIN rows : rows[i].id # None
    BY <2>3, NamesAssumption DEF Names, IDs
  <2> QED
    BY <1>2, <2>3, <2>4
<1>4. CASE \E n \in 1 .. MaxRows : \E accounts \in [1 .. n -> Accounts] : Import(w, accounts)
  <2>1. PICK n \in 1 .. MaxRows : \E accounts \in [1 .. n -> Accounts] : Import(w, accounts)
    BY <1>4
  <2>2. PICK accounts \in [1 .. n -> Accounts] : Import(w, accounts)
    BY <2>1
  <2>3. PICK rows \in Rows : BeginCreate(w, "Import", "number", rows)
    BY <2>2, ImportStep
  <2> QED
    BY <1>2, <2>3
<1>5. CASE \E ids \in Lookups : BeginLookup(w, "Find", ids)
  BY <1>1, <1>5, LookupsAssumption
<1>6. CASE \E a \in Accounts : BeginLookup(w, "Login", {a})
  BY <1>1, <1>6
<1> QED
  BY <1>3, <1>4, <1>5, <1>6 DEF Begin

\* A step that creates users ends no lookup and fills no copy.
LEMMA LookupAside ==
  ASSUME LookupInv, [Next]_vars, NEW w \in Workers, OthersGoOn(w),
         call'[w].at \notin LookupSteps, cache' \subseteq cache
  PROVE  LookupInv'
<1>1. Looking(w)'
  BY DEF Looking
<1>2. \A p \in cache' : \/ p \in cache
                        \/ p.user \in Bearers(p.name)
  OBVIOUS
<1> QED
  BY <1>1, <1>2, LookupFrame

LEMMA LookupStepped ==
  ASSUME LookupInv, [Next]_vars, NEW w \in Workers, Step(w)
  PROVE  LookupInv'
<1>0. TypeInv
  BY DEF LookupInv, UsersInv, IdsInv
<1>1. \A outcome : Ended(w, outcome) => OthersGoOn(w) /\ call'[w].at \notin LookupSteps
  BY DEF Ended, OthersGoOn, IdleCall, LookupSteps
<1>2. \A at, next : Moved(w, at, next) => OthersGoOn(w) /\ call'[w].at = at
  BY DEF Moved, OthersGoOn
<1>3. CASE GenerateUserID(w)
  <2>1. cache' = cache
    BY <1>3 DEF GenerateUserID
  <2>2. CASE lastID + 1 <= Len(Numbered)
    <3>1. call'[w].at \in {"number", "insert"} /\ OthersGoOn(w)
      BY <1>0, <1>3, <2>2, GenerateStep DEF OthersGoOn
    <3> QED
      BY <2>1, <3>1, LookupAside DEF LookupSteps
  <2>3. CASE ~ (lastID + 1 <= Len(Numbered))
    <3>1. Ended(w, "broken")
      BY <1>0, <1>3, <2>3, NumberStep
    <3> QED
      BY <1>1, <2>1, <3>1, LookupAside
  <2> QED
    BY <2>2, <2>3
<1>4. CASE InsertRow(w)
  <2>1. cache' = cache
    BY <1>4 DEF InsertRow
  <2>2. \/ \E at \in {"tag", "insert"} : \E next : Moved(w, at, next)
        \/ Ended(w, "refused")
    BY <1>0, <1>4, InsertStep
  <2>3. OthersGoOn(w) /\ call'[w].at \notin LookupSteps
    BY <1>1, <1>2, <2>2 DEF LookupSteps
  <2> QED
    BY <2>1, <2>3, LookupAside
<1>5. CASE Tag(w)
  <2>1. cache' \subseteq cache /\ \E at \in {"commit", "created"} : \E next : Moved(w, at, next)
    BY <1>0, <1>5, TagStep
  <2>2. OthersGoOn(w) /\ call'[w].at \notin LookupSteps
    BY <1>2, <2>1 DEF LookupSteps
  <2> QED
    BY <2>1, <2>2, LookupAside
<1>6. CASE Commit(w)
  <2>1. cache' = cache /\ Moved(w, "created", call[w].next)
    BY <1>0, <1>6, CommitStep
  <2>2. OthersGoOn(w) /\ call'[w].at \notin LookupSteps
    BY <1>2, <2>1 DEF LookupSteps
  <2> QED
    BY <2>1, <2>2, LookupAside
<1>7. CASE Created(w)
  <2>1. cache' = cache /\ Ended(w, "done")
    BY <1>0, <1>7, CreatedStep
  <2> QED
    BY <1>1, <2>1, LookupAside
<1>8. CASE Look(w)
  BY <1>8, LookupLooked
<1>9. CASE Load(w)
  BY <1>9, LookupLoaded
<1>10. CASE Fill(w)
  BY <1>10, LookupFilled
<1>11. CASE AnswerLookup(w)
  <2>1. cache' = cache /\ call'[w] = IdleCall /\ OthersGoOn(w)
    BY <1>0, <1>11, AnswerStep DEF OthersGoOn
  <2>2. call'[w].at \notin LookupSteps
    BY <2>1 DEF IdleCall, LookupSteps
  <2> QED
    BY <2>1, <2>2, LookupAside
<1>12. CASE Fail(w)
  <2>1. cache' = cache
    BY <1>12 DEF Fail
  <2>2. Ended(w, "broken") \/ (call'[w] = IdleCall /\ OthersGoOn(w))
    BY <1>0, <1>12, FailStep DEF OthersGoOn
  <2>3. OthersGoOn(w) /\ call'[w].at \notin LookupSteps
    BY <1>1, <2>2 DEF IdleCall, LookupSteps
  <2> QED
    BY <2>1, <2>3, LookupAside
<1> QED
  BY <1>3, <1>4, <1>5, <1>6, <1>7, <1>8, <1>9, <1>10, <1>11, <1>12 DEF Step

LEMMA LookupRested ==
  ASSUME LookupInv, [Next]_vars, (\E p \in cache : CopyExpires(p)) \/ UNCHANGED vars
  PROVE  LookupInv'
<1>1. Rested /\ cache' \subseteq cache
  BY RestEffect DEF LookupInv, UsersInv, IdsInv
<1>2. UsersInv' /\ \A id \in IDs : users[id] # None => users'[id] = users[id]
  BY UsersStep DEF LookupInv
<1>3. TrueCopies'
  BY <1>1, <1>2, MoreMatches DEF LookupInv, TrueCopies
<1>4. \A w \in Workers : Looking(w)'
  BY <1>1, <1>2, StillLooking DEF LookupInv, Rested
<1> QED
  BY <1>2, <1>3, <1>4 DEF LookupInv

LEMMA LookupInit == Init => LookupInv
<1>1. SUFFICES ASSUME Init PROVE LookupInv
  OBVIOUS
<1>2. cache = {} /\ \A w \in Workers : call[w].at = "idle"
  BY <1>1 DEF Init, IdleCall
<1> QED
  BY <1>1, <1>2, UsersInit DEF LookupInv, TrueCopies, Looking, LookupSteps

LEMMA LookupStep ==
  ASSUME LookupInv, [Next]_vars
  PROVE  LookupInv'
<1>1. CASE \E w \in Workers : Begin(w)
  BY <1>1, LookupBegun
<1>2. CASE \E w \in Workers : Step(w)
  BY <1>2, LookupStepped
<1>3. CASE (\E p \in cache : CopyExpires(p)) \/ UNCHANGED vars
  BY <1>3, LookupRested
<1> QED
  BY <1>1, <1>2, <1>3 DEF Next

\* Who was stored when a lookup began is found, although a new user's ID is struck
\* from Redis before the transaction is committed, and his account never.
THEOREM StoredFound == Spec => []StoredIsFound
<1>1. LookupInv /\ [Next]_vars => LookupInv'
  BY LookupStep
<1>2. LookupInv => StoredIsFound
  BY DEF LookupInv, Looking, StoredIsFound, Answered, Complete, LookupSteps
<1> QED
  BY <1>1, <1>2, LookupInit, PTL DEF Spec

\* Whoever is found goes by the name that is asked for, by way of the copies or
\* without them: nobody gets a user who has the name in no sense.
THEOREM AnswersCorrect == Spec => []RightUser
<1>1. LookupInv /\ [Next]_vars => LookupInv'
  BY LookupStep
<1>2. LookupInv => RightUser
  BY DEF LookupInv, Looking, RightUser, Answered, Complete, LookupSteps
<1> QED
  BY <1>1, <1>2, LookupInit, PTL DEF Spec
=============================================================================
