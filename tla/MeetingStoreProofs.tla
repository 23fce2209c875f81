------------------------- MODULE MeetingStoreProofs -------------------------
(***************************************************************************)
(* Theorems about MeetingStore, for any number of handlers, records and    *)
(* writes, any failures, with and without transactions.                    *)
(***************************************************************************)
EXTENDS MeetingStore, TLAPS

USE DEF history

\* The entries of two records are two entries.
NamesDiffer == \A r, s \in Records : InfoKey(r) = InfoKey(s) => r = s

LEMMA KeyType ==
  ASSUME NEW r \in Records
  PROVE  InfoKey(r) \in Keys /\ DelKey(r) \in Keys
BY DEF InfoKey, DelKey, Keys, Names, Prefixes

LEMMA Busy ==
  ASSUME TypeOK, NEW w \in Workers, call[w].at # "idle"
  PROVE  call[w] \in Call /\ Prepared(call[w]) /\ call[w].rec \in Records
<1>1. call[w] \in {IdleCall} \cup {c \in Call : Prepared(c)} /\ call[w] # IdleCall
  BY DEF TypeOK, IdleCall
<1> QED
  BY <1>1 DEF Call

LEMMA WrittenType ==
  ASSUME NEW d \in Document, d.number < MaxWrites, NEW op
  PROVE  Written(op, d) \in Document /\ Written(op, d).number = d.number + 1
<1>1. PICK n \in 0 .. MaxWrites : n = d.number + 1
  BY MaxWritesAssumption DEF Document
<1>2. \A live \in BOOLEAN :
        LET e == [d EXCEPT !.number = n, !.live = live]
        IN  e \in Document /\ e.number = n
  BY DEF Document
<1> QED
  BY <1>1, <1>2 DEF Written

LEMMA CallsType ==
  ASSUME TypeOK, NEW w \in Workers, NEW c, c = IdleCall \/ (c \in Call /\ Prepared(c)),
         call' = [call EXCEPT ![w] = c]
  PROVE  call' \in [Workers -> {IdleCall} \cup {e \in Call : Prepared(e)}]
BY DEF TypeOK

LEMMA SettleType ==
  ASSUME TypeOK, NEW w \in Workers, call[w].at \in {"tag", "commit"}, Settle(w)
  PROVE  /\ settled' \in [Records -> 0 .. MaxWrites]
         /\ call' \in [Workers -> {IdleCall} \cup {c \in Call : Prepared(c)}]
<1>1. call[w] \in Call /\ call[w].rec \in Records /\ call[w].doc \in Document
  BY Busy DEF Prepared, Call
<1>2. Later(settled[call[w].rec], call[w].doc.number) \in 0 .. MaxWrites
  BY <1>1 DEF TypeOK, Document, Later
<1> QED
  BY <1>1, <1>2, CallsType DEF TypeOK, Settle, Return

-----------------------------------------------------------------------------
LEMMA ReaderType ==
  ASSUME TypeOK, UNCHANGED transactions, NEW w \in Workers,
         (\E r \in Records : BeginRead(w, r)) \/ Fetch(w) \/ Load(w) \/ Fill(w) \/ Answer(w)
  PROVE  TypeOK'
<1>1. CASE \E r \in Records : BeginRead(w, r)
  <2>1. PICK r \in Records : BeginRead(w, r)
    BY <1>1
  <2> DEFINE c == [IdleCall EXCEPT !.at = "fetch", !.op = "Read", !.rec = r,
                                   !.floor = settled[r]]
  <2>2. c \in Call /\ Prepared(c)
    BY DEF IdleCall, Call, Prepared, TypeOK
  <2>3. call' = [call EXCEPT ![w] = c]
    BY <2>1 DEF BeginRead
  <2> QED
    BY <2>1, <2>2, <2>3, CallsType DEF TypeOK, BeginRead
<1>2. CASE Fetch(w)
  <2>1. call[w] \in Call /\ Prepared(call[w]) /\ call[w].rec \in Records /\ call[w].at = "fetch"
    BY <1>2, Busy DEF Fetch
  <2>2. PICK key \in Keys : key = InfoKey(call[w].rec)
    BY <2>1, KeyType
  <2>3. CASE /\ cache[key].copy # None
             /\ call' = [call EXCEPT ![w].at = "answer", ![w].doc = cache[key].copy]
             /\ UNCHANGED cache
    <3>1. cache[key].copy \in Document
      BY <2>3 DEF TypeOK, Copy
    <3> DEFINE c == [call[w] EXCEPT !.at = "answer", !.doc = cache[key].copy]
    <3>2. c \in Call /\ Prepared(c)
      BY <2>1, <2>3, <3>1, NoneAssumption DEF Call, Prepared
    <3>3. call' = [call EXCEPT ![w] = c]
      BY <2>3 DEF TypeOK
    <3> QED
      BY <1>2, <2>3, <3>2, <3>3, CallsType DEF TypeOK, Fetch
  <2>4. CASE cache' = [cache EXCEPT ![key].lock = w] /\ Goto(w, "load")
    <3> DEFINE c == [call[w] EXCEPT !.at = "load"]
    <3>1. c \in Call /\ Prepared(c)
      BY <2>1 DEF Call, Prepared
    <3>2. call' = [call EXCEPT ![w] = c]
      BY <2>4 DEF TypeOK, Goto
    <3>3. cache' \in [Keys -> [copy : Copy \cup {None}, lock : Workers \cup {None}]]
      BY <2>4 DEF TypeOK
    <3> QED
      BY <1>2, <3>1, <3>2, <3>3, CallsType DEF TypeOK, Fetch
  <2> QED
    BY <1>2, <2>2, <2>3, <2>4 DEF Fetch
<1>3. CASE Load(w)
  <2>1. call[w] \in Call /\ Prepared(call[w]) /\ call[w].rec \in Records /\ call[w].at = "load"
    BY <1>3, Busy DEF Load
  <2>2. PICK d \in Document : d = db[call[w].rec]
    BY <2>1 DEF TypeOK
  <2>3. \A at \in {"fill", "answer"} :
          LET c == [call[w] EXCEPT !.at = at, !.doc = d]
          IN  (at = "fill" => d.live) => c \in Call /\ Prepared(c)
    BY <2>1, NoneAssumption DEF Call, Prepared
  <2>4. CASE MayCopy(d)
    <3>1. call' = [call EXCEPT ![w] = [call[w] EXCEPT !.at = "fill", !.doc = d]]
      BY <1>3, <2>2, <2>4 DEF Load, TypeOK
    <3> QED
      BY <1>3, <2>1, <2>2, <2>3, <2>4, <3>1, CallsType DEF TypeOK, Load, MayCopy
  <2>5. CASE ~ MayCopy(d)
    <3>1. call' = [call EXCEPT ![w] = [call[w] EXCEPT !.at = "answer", !.doc = d]]
      BY <1>3, <2>2, <2>5 DEF Load, TypeOK
    <3>2. PICK key \in Keys : key = InfoKey(call[w].rec)
      BY <2>1, KeyType
    <3>3. Unlock(w, key)
      BY <1>3, <2>2, <2>5, <3>2 DEF Load
    <3>4. cache' \in [Keys -> [copy : Copy \cup {None}, lock : Workers \cup {None}]]
      BY <3>3 DEF TypeOK, Unlock
    <3>5. LET c == [call[w] EXCEPT !.at = "answer", !.doc = d] IN c \in Call /\ Prepared(c)
      BY <2>3
    <3>6. UNCHANGED <<db, locked, settled, abandoned>>
      BY <1>3 DEF Load
    <3> QED
      BY <3>1, <3>4, <3>5, <3>6, CallsType DEF TypeOK
  <2> QED
    BY <2>4, <2>5
<1>4. CASE Fill(w)
  <2>1. call[w] \in Call /\ Prepared(call[w]) /\ call[w].rec \in Records /\ call[w].at = "fill"
    BY <1>4, Busy DEF Fill
  <2>2. call[w].doc \in Copy
    BY <2>1 DEF Call, Prepared, Copy
  <2>3. cache' \in [Keys -> [copy : Copy \cup {None}, lock : Workers \cup {None}]]
    BY <1>4, <2>1, <2>2, KeyType DEF TypeOK, Fill
  <2> DEFINE c == [call[w] EXCEPT !.at = "answer"]
  <2>4. c \in Call /\ Prepared(c)
    BY <2>1 DEF Call, Prepared
  <2>5. call' = [call EXCEPT ![w] = c]
    BY <1>4 DEF TypeOK, Fill, Goto
  <2> QED
    BY <1>4, <2>3, <2>4, <2>5, CallsType DEF TypeOK, Fill
<1>5. CASE Answer(w)
  BY <1>5, CallsType DEF TypeOK, Answer, Return
<1> QED
  BY <1>1, <1>2, <1>3, <1>4, <1>5

LEMMA WriterType ==
  ASSUME TypeOK, UNCHANGED transactions, NEW w \in Workers,
         \/ \E r \in Records, op \in {"Create", "Update", "Delete"} : BeginWrite(w, op, r)
         \/ Store(w) \/ Tag(w) \/ Commit(w) \/ Fail(w)
  PROVE  TypeOK'
<1>1. CASE \E r \in Records, op \in {"Create", "Update", "Delete"} : BeginWrite(w, op, r)
  <2>1. PICK r \in Records, op \in {"Create", "Update", "Delete"} : BeginWrite(w, op, r)
    BY <1>1
  <2> DEFINE c == [IdleCall EXCEPT !.at = "write", !.op = op, !.rec = r,
                                   !.floor = settled[r]]
  <2>2. c \in Call /\ Prepared(c)
    BY DEF IdleCall, Call, Prepared, TypeOK
  <2>3. call' = [call EXCEPT ![w] = c]
    BY <2>1 DEF BeginWrite
  <2> QED
    BY <2>1, <2>2, <2>3, CallsType DEF TypeOK, BeginWrite
<1>2. CASE Store(w)
  <2>1. call[w] \in Call /\ Prepared(call[w]) /\ call[w].rec \in Records /\ call[w].at = "write"
    BY <1>2, Busy DEF Store
  <2>2. PICK r \in Records, op \in {"Create", "Update", "Delete"} :
          r = call[w].rec /\ op = call[w].op
    BY <2>1 DEF Call, Prepared
  <2>3. \A d \in Document :
          LET c == [call[w] EXCEPT !.at = "tag", !.doc = d] IN c \in Call /\ Prepared(c)
    BY <2>1, <2>2, NoneAssumption DEF Call, Prepared
  <2>4. db[r] \in Document
    BY DEF TypeOK
  <2>5. CASE /\ db[r].number < MaxWrites
             /\ call' = [call EXCEPT ![w].at = "tag", ![w].doc = Written(op, db[r])]
             /\ IF transactions
                THEN locked' = [locked EXCEPT ![r] = w] /\ UNCHANGED db
                ELSE db' = [db EXCEPT ![r] = Written(op, db[r])] /\ UNCHANGED locked
    <3>1. PICK d \in Document : d = Written(op, db[r])
      BY <2>4, <2>5, WrittenType
    <3>2. call' = [call EXCEPT ![w] = [call[w] EXCEPT !.at = "tag", !.doc = d]]
      BY <2>5, <3>1 DEF TypeOK
    <3>3. db' \in [Records -> Document] /\ locked' \in [Records -> Workers \cup {None}]
      BY <2>5, <3>1 DEF TypeOK
    <3> QED
      BY <1>2, <2>3, <3>1, <3>2, <3>3, CallsType DEF TypeOK, Store
  <2>6. CASE Return(w) /\ UNCHANGED <<db, locked>>
    BY <1>2, <2>6, CallsType DEF TypeOK, Store, Return
  <2>7. CASE /\ call' = [call EXCEPT ![w].at = "tag", ![w].doc = db[r]]
             /\ UNCHANGED <<db, locked>>
    <3>1. call' = [call EXCEPT ![w] = [call[w] EXCEPT !.at = "tag", !.doc = db[r]]]
      BY <2>7 DEF TypeOK
    <3> QED
      BY <1>2, <2>3, <2>4, <2>7, <3>1, CallsType DEF TypeOK, Store
  <2> QED
    BY <1>2, <2>2, <2>5, <2>6, <2>7 DEF Store
<1>3. CASE Tag(w)
  <2>1. call[w] \in Call /\ Prepared(call[w]) /\ call[w].rec \in Records /\ call[w].at = "tag"
    BY <1>3, Busy DEF Tag
  <2>2. cache' \in [Keys -> [copy : Copy \cup {None}, lock : Workers \cup {None}]]
    <3>1. PICK key \in Keys : key = DelKey(call[w].rec)
      BY <2>1, KeyType
    <3>2. cache' = [cache EXCEPT ![key] = Empty] \/ UNCHANGED cache
      BY <1>3, <3>1 DEF Tag, Tagged
    <3> QED
      BY <3>2 DEF TypeOK, Empty
  <2>3. abandoned' \in SUBSET Records
    BY <1>3, <2>1 DEF TypeOK, Tag, Abandon
  <2>4. CASE Goto(w, "commit") /\ UNCHANGED settled
    <3> DEFINE c == [call[w] EXCEPT !.at = "commit"]
    <3>1. c \in Call /\ Prepared(c)
      BY <2>1 DEF Call, Prepared
    <3>2. call' = [call EXCEPT ![w] = c]
      BY <2>4 DEF TypeOK, Goto
    <3> QED
      BY <1>3, <2>2, <2>3, <2>4, <3>1, <3>2, CallsType DEF TypeOK, Tag
  <2>5. CASE Settle(w)
    BY <1>3, <2>1, <2>2, <2>3, <2>5, SettleType DEF TypeOK, Tag
  <2>6. CASE Return(w) /\ UNCHANGED settled
    BY <1>3, <2>2, <2>3, <2>6, CallsType DEF TypeOK, Tag, Return
  <2> QED
    BY <1>3, <2>4, <2>5, <2>6 DEF Tag
<1>4. CASE Commit(w)
  <2>1. call[w] \in Call /\ Prepared(call[w]) /\ call[w].rec \in Records /\ call[w].at = "commit"
    BY <1>4, Busy DEF Commit
  <2>2. call[w].doc \in Document
    BY <2>1 DEF Call, Prepared
  <2>3. db' \in [Records -> Document] /\ locked' \in [Records -> Workers \cup {None}]
    BY <1>4, <2>1, <2>2 DEF TypeOK, Commit
  <2> QED
    BY <1>4, <2>1, <2>3, SettleType DEF TypeOK, Commit
<1>5. CASE Fail(w)
  <2>1. locked' \in [Records -> Workers \cup {None}]
    BY <1>5 DEF TypeOK, Fail
  <2>2. abandoned' \in SUBSET Records
    <3>1. call[w].rec \in Records
      BY <1>5, Busy DEF Fail
    <3> QED
      BY <1>5, <3>1 DEF TypeOK, Fail, Abandon
  <2> QED
    BY <1>5, <2>1, <2>2, CallsType DEF TypeOK, Fail, Return
<1> QED
  BY <1>1, <1>2, <1>3, <1>4, <1>5

\* Copies in Redis are of documents only, and no handler uses a document it has
\* not got (getCache, MeetingStorageManager), for any number of handlers.
THEOREM StoreTypeCorrect == Spec => []TypeOK
<1>1. Init => TypeOK
  BY MaxWritesAssumption, KeyType
     DEF Init, TypeOK, Document, IdleCall, Empty
<1>2. TypeOK /\ [Next]_vars => TypeOK'
  <2> SUFFICES ASSUME TypeOK, [Next]_vars
               PROVE  TypeOK'
    OBVIOUS
  <2>0. UNCHANGED transactions
    BY DEF Next, vars
  <2>1. ASSUME NEW w \in Workers, NEW r \in Records, BeginRead(w, r)
        PROVE  TypeOK'
    BY <2>0, <2>1, ReaderType
  <2>2. ASSUME NEW w \in Workers, NEW r \in Records,
               NEW op \in {"Create", "Update", "Delete"}, BeginWrite(w, op, r)
        PROVE  TypeOK'
    BY <2>0, <2>2, WriterType
  <2>3. ASSUME NEW w \in Workers, Step(w)
        PROVE  TypeOK'
    BY <2>0, <2>3, ReaderType, WriterType DEF Step
  <2>4. ASSUME NEW key \in Keys, LockExpires(key) \/ CopyExpires(key)
        PROVE  TypeOK'
    <3>1. cache' \in [Keys -> [copy : Copy \cup {None}, lock : Workers \cup {None}]]
      BY <2>4 DEF TypeOK, LockExpires, CopyExpires
    <3> QED
      BY <2>0, <2>4, <3>1 DEF TypeOK, LockExpires, CopyExpires
  <2>5. CASE UNCHANGED vars
    BY <2>5 DEF vars, TypeOK
  <2> QED
    BY <2>1, <2>2, <2>3, <2>4, <2>5 DEF Next
<1> QED
  BY <1>1, <1>2, PTL DEF Spec

-----------------------------------------------------------------------------
(* Reads are fresh where a write is committed as it is made. *)

\* Neither the document nor its copy is older than what a writer was told of.
Kept(r) ==
  /\ settled[r] <= db[r].number
  /\ cache[InfoKey(r)].copy # None => settled[r] <= cache[InfoKey(r)].copy.number

\* Nor is what a reader has found; and as long as the lock is his, nobody has
\* settled anything later.
Sound(w) ==
  LET c == call[w] IN
  /\ c.at # "commit"
  /\ c.at # "idle" => c.floor <= settled[c.rec]
  /\ c.at \in {"fill", "answer"} => c.floor <= c.doc.number
  /\ c.at = "fill" /\ cache[InfoKey(c.rec)].lock = w => settled[c.rec] <= c.doc.number
  /\ c.at = "tag" => c.doc.number <= db[c.rec].number

FreshInv ==
  /\ TypeOK
  /\ \A r \in Records : Kept(r)
  /\ \A w \in Workers : Sound(w)

\* A step that leaves documents and settled versions alone, and no copy that was
\* not there.
LEMMA FreshFrame ==
  ASSUME FreshInv, TypeOK', UNCHANGED <<db, settled>>, NEW w \in Workers,
         \A v \in Workers \ {w} : call'[v] = call[v],
         \A r \in Records :
            cache'[InfoKey(r)].copy \in {None, cache[InfoKey(r)].copy},
         \A r \in Records, v \in Workers \ {w} :
            cache'[InfoKey(r)].lock = v => cache[InfoKey(r)].lock = v,
         Sound(w)'
  PROVE  FreshInv'
<1>1. \A r \in Records : Kept(r)'
  BY DEF FreshInv, Kept
<1>2. ASSUME NEW v \in Workers \ {w} PROVE Sound(v)'
  <2>1. Sound(v) /\ (call[v].at # "idle" => call[v].rec \in Records)
    BY Busy DEF FreshInv
  <2> QED
    BY <2>1 DEF Sound
<1> QED
  BY <1>1, <1>2 DEF FreshInv

LEMMA FreshRead ==
  ASSUME FreshInv, TypeOK', NamesDiffer, NEW w \in Workers,
         (\E r \in Records : BeginRead(w, r)) \/ Fetch(w) \/ Load(w) \/ Fill(w) \/ Answer(w)
  PROVE  FreshInv'
<1>0. /\ call \in [Workers -> {IdleCall} \cup {c \in Call : Prepared(c)}]
      /\ settled \in [Records -> 0 .. MaxWrites]
      /\ db \in [Records -> Document]
      /\ cache \in [Keys -> [copy : Copy \cup {None}, lock : Workers \cup {None}]]
      /\ Sound(w)
  BY DEF FreshInv, TypeOK
<1>1. CASE \E r \in Records : BeginRead(w, r)
  <2>1. PICK r \in Records : BeginRead(w, r)
    BY <1>1
  <2>2. call'[w].at = "fetch" /\ call'[w].rec = r /\ call'[w].floor = settled[r]
    BY <1>0, <2>1 DEF BeginRead, IdleCall
  <2>3. settled' = settled /\ settled[r] \in Nat
    <3>1. settled' = settled
      BY <2>1 DEF BeginRead
    <3> QED
      BY <1>0, <3>1, MaxWritesAssumption
  <2>4. Sound(w)'
    BY <2>2, <2>3 DEF Sound
  <2> QED
    BY <1>0, <2>1, <2>4, FreshFrame DEF BeginRead
<1>2. CASE Fetch(w)
  <2>1. PICK r \in Records, key \in Keys : r = call[w].rec /\ key = InfoKey(r)
    BY <1>2, Busy, KeyType DEF Fetch, FreshInv
  <2>2. CASE /\ cache[key].copy # None
             /\ call' = [call EXCEPT ![w].at = "answer", ![w].doc = cache[key].copy]
             /\ UNCHANGED cache
    <3>1. /\ call'[w].at = "answer" /\ call'[w].rec = r
          /\ call'[w].floor = call[w].floor /\ call'[w].doc = cache[key].copy
          /\ \A v \in Workers \ {w} : call'[v] = call[v]
      BY <1>0, <1>2, <2>1, <2>2, Busy DEF Fetch, FreshInv, Call
    <3>2. call[w].floor <= settled[r] /\ settled[r] <= cache[key].copy.number
      BY <1>0, <1>2, <2>1, <2>2 DEF Fetch, FreshInv, Kept, Sound
    <3>3. /\ call[w].floor \in Nat /\ settled[r] \in Nat
          /\ cache[key].copy.number \in Nat
      BY <1>0, <1>2, <2>1, <2>2, Busy, MaxWritesAssumption
         DEF Fetch, FreshInv, Call, Copy, Document
    <3>4. Sound(w)'
      BY <1>2, <3>1, <3>2, <3>3 DEF Sound, Fetch
    <3> QED
      BY <1>2, <2>2, <3>1, <3>4, FreshFrame DEF Fetch
  <2>3. CASE cache' = [cache EXCEPT ![key].lock = w] /\ Goto(w, "load")
    <3>1. /\ call'[w].at = "load" /\ call'[w].rec = r
          /\ call'[w].floor = call[w].floor
          /\ \A v \in Workers \ {w} : call'[v] = call[v]
      BY <1>0, <1>2, <2>1, <2>3, Busy DEF Fetch, FreshInv, Call, Goto
    <3>2. Sound(w)'
      BY <1>0, <1>2, <2>1, <3>1 DEF Sound, Fetch
    <3>3. \A k \in Keys : /\ cache'[k].copy = cache[k].copy
                          /\ cache'[k].lock \in {w, cache[k].lock}
      BY <1>0, <2>3
    <3> QED
      BY <1>2, <3>1, <3>2, <3>3, KeyType, FreshFrame DEF Fetch
  <2> QED
    BY <1>2, <2>1, <2>2, <2>3 DEF Fetch
<1>3. CASE Load(w)
  <2>1. PICK r \in Records, key \in Keys : r = call[w].rec /\ key = InfoKey(r)
    BY <1>3, Busy, KeyType DEF Load, FreshInv
  <2>2. /\ call'[w].at \in {"fill", "answer"} /\ call'[w].rec = r
        /\ call'[w].floor = call[w].floor /\ call'[w].doc = db[r]
        /\ \A v \in Workers \ {w} : call'[v] = call[v]
    BY <1>0, <1>3, <2>1, Busy DEF Load, FreshInv, Call
  <2>3. call[w].floor <= settled[r] /\ settled[r] <= db[r].number
    BY <1>0, <1>3, <2>1 DEF Load, FreshInv, Kept, Sound
  <2>4. call[w].floor \in Nat /\ settled[r] \in Nat /\ db[r].number \in Nat
    BY <1>0, <1>3, <2>1, Busy, MaxWritesAssumption DEF Load, FreshInv, Call, Document
  <2>5. Sound(w)'
    BY <1>3, <2>2, <2>3, <2>4 DEF Sound, Load
  <2>6. Unlock(w, key) \/ UNCHANGED cache
    BY <1>3, <2>1 DEF Load
  <2>7. \A k \in Keys : /\ cache'[k].copy = cache[k].copy
                        /\ cache'[k].lock \in {None, cache[k].lock}
    BY <1>0, <2>6 DEF Unlock
  <2> QED
    BY <1>3, <2>2, <2>5, <2>7, KeyType, NoneAssumption, FreshFrame DEF Load
<1>4. CASE Fill(w)
  <2>1. PICK r \in Records, key \in Keys : r = call[w].rec /\ key = InfoKey(r)
    BY <1>4, Busy, KeyType DEF Fill, FreshInv
  <2>2. /\ call'[w].at = "answer" /\ call'[w].rec = r
        /\ call'[w].floor = call[w].floor /\ call'[w].doc = call[w].doc
        /\ \A v \in Workers \ {w} : call'[v] = call[v]
    BY <1>0, <1>4, <2>1, Busy DEF Fill, FreshInv, Call, Goto
  <2>3. Sound(w)'
    BY <1>0, <1>4, <2>1, <2>2 DEF Sound, Fill
  <2>4. CASE UNCHANGED cache
    BY <1>4, <2>2, <2>3, <2>4, FreshFrame DEF Fill
  <2>5. CASE /\ Fills(w, key)
            /\ cache' = [cache EXCEPT ![key] = [copy |-> call[w].doc, lock |-> None]]
    <3>1. settled[r] <= call[w].doc.number
      BY <1>0, <1>4, <2>1, <2>5 DEF Fill, Fills, Sound
    <3>2. \A k \in Keys \ {key} : cache'[k] = cache[k]
      BY <1>0, <2>5
    <3>3. cache'[key].copy = call[w].doc /\ cache'[key].lock = None
      BY <1>0, <2>5
    <3>4. ASSUME NEW q \in Records PROVE Kept(q)'
      <4>1. CASE q = r
        BY <1>4, <2>1, <3>1, <3>3, <4>1 DEF FreshInv, Kept, Fill
      <4>2. CASE q # r
        <5>1. InfoKey(q) \in Keys \ {key}
          BY <2>1, <4>2, KeyType DEF NamesDiffer
        <5> QED
          BY <1>4, <3>2, <5>1 DEF FreshInv, Kept, Fill
      <4> QED
        BY <4>1, <4>2
    <3>5. ASSUME NEW v \in Workers \ {w} PROVE Sound(v)'
      <4>1. Sound(v) /\ (call[v].at # "idle" => call[v].rec \in Records)
        BY Busy DEF FreshInv
      <4>2. \A k \in Keys : cache'[k].lock \in {None, cache[k].lock}
        BY <3>2, <3>3
      <4> QED
        BY <1>4, <2>2, <4>1, <4>2, KeyType, NoneAssumption DEF Sound, Fill
    <3> QED
      BY <2>3, <3>4, <3>5 DEF FreshInv
  <2> QED
    BY <1>4, <2>1, <2>4, <2>5 DEF Fill
<1>5. CASE Answer(w)
  <2>1. call'[w].at = "idle" /\ \A v \in Workers \ {w} : call'[v] = call[v]
    BY <1>0, <1>5 DEF Answer, Return, IdleCall
  <2> QED
    BY <1>5, <2>1, FreshFrame DEF Answer, Sound
<1> QED
  BY <1>1, <1>2, <1>3, <1>4, <1>5

LEMMA FreshWrite ==
  ASSUME FreshInv, TypeOK', ~ transactions, NEW w \in Workers,
         \/ \E r \in Records, op \in {"Create", "Update", "Delete"} : BeginWrite(w, op, r)
         \/ Store(w) \/ Tag(w) \/ Commit(w) \/ Fail(w)
  PROVE  FreshInv'
<1>0. /\ call \in [Workers -> {IdleCall} \cup {c \in Call : Prepared(c)}]
      /\ settled \in [Records -> 0 .. MaxWrites]
      /\ db \in [Records -> Document]
      /\ cache \in [Keys -> [copy : Copy \cup {None}, lock : Workers \cup {None}]]
      /\ Sound(w)
  BY DEF FreshInv, TypeOK
<1>1. CASE \E r \in Records, op \in {"Create", "Update", "Delete"} : BeginWrite(w, op, r)
  <2>1. PICK r \in Records, op \in {"Create", "Update", "Delete"} : BeginWrite(w, op, r)
    BY <1>1
  <2>2. call'[w].at = "write" /\ call'[w].rec = r /\ call'[w].floor = settled[r]
    BY <1>0, <2>1 DEF BeginWrite, IdleCall
  <2>3. settled' = settled /\ settled[r] \in Nat
    <3>1. settled' = settled
      BY <2>1 DEF BeginWrite
    <3> QED
      BY <1>0, <3>1, MaxWritesAssumption
  <2>4. Sound(w)'
    BY <2>2, <2>3 DEF Sound
  <2> QED
    BY <1>0, <2>1, <2>4, FreshFrame DEF BeginWrite
<1>2. CASE Store(w)
  <2>1. PICK r \in Records, op \in {"Create", "Update", "Delete"} :
          r = call[w].rec /\ op = call[w].op
    BY <1>2, Busy DEF Store, FreshInv, Call, Prepared
  <2>2. CASE /\ db[r].number < MaxWrites
             /\ call' = [call EXCEPT ![w].at = "tag", ![w].doc = Written(op, db[r])]
             /\ db' = [db EXCEPT ![r] = Written(op, db[r])]
    <3>1. PICK d \in Document : d = Written(op, db[r]) /\ d.number = db[r].number + 1
      BY <1>0, <2>2, WrittenType
    <3>2. /\ db'[r] = d /\ \A q \in Records \ {r} : db'[q] = db[q]
          /\ UNCHANGED <<cache, settled>>
      BY <1>0, <1>2, <2>2, <3>1 DEF Store
    <3>3. \A q \in Records : /\ db[q].number \in Nat /\ db'[q].number \in Nat
                             /\ settled[q] \in Nat /\ db[q].number <= db'[q].number
      BY <1>0, <3>1, <3>2, MaxWritesAssumption DEF Document
    <3>4. ASSUME NEW q \in Records PROVE Kept(q)'
      BY <3>2, <3>3 DEF FreshInv, Kept
    <3>5. /\ call'[w].at = "tag" /\ call'[w].rec = r /\ call'[w].doc = d
          /\ call'[w].floor = call[w].floor
          /\ \A v \in Workers \ {w} : call'[v] = call[v]
      BY <1>0, <1>2, <2>1, <2>2, <3>1, Busy DEF Store, FreshInv, Call
    <3>6. Sound(w)'
      BY <1>0, <1>2, <2>1, <3>2, <3>3, <3>5 DEF Sound, Store
    <3>7. ASSUME NEW v \in Workers \ {w} PROVE Sound(v)'
      <4>1. Sound(v)
        BY DEF FreshInv
      <4>2. call[v].at = "tag" => call[v].doc \in Document /\ call[v].rec \in Records
        BY Busy DEF FreshInv, Prepared, Call
      <4>3. call[v].at = "tag" => call[v].doc.number \in Nat
        BY <4>2, MaxWritesAssumption DEF Document
      <4> QED
        BY <3>2, <3>3, <3>5, <4>1, <4>2, <4>3 DEF Sound
    <3> QED
      BY <3>4, <3>6, <3>7 DEF FreshInv
  <2>3. CASE Return(w) /\ UNCHANGED db
    <3>1. call'[w].at = "idle" /\ \A v \in Workers \ {w} : call'[v] = call[v]
      BY <1>0, <2>3 DEF Return, IdleCall
    <3> QED
      BY <1>2, <2>3, <3>1, FreshFrame DEF Store, Sound
  <2>4. CASE call' = [call EXCEPT ![w].at = "tag", ![w].doc = db[r]] /\ UNCHANGED db
    <3>1. /\ call'[w].at = "tag" /\ call'[w].rec = r /\ call'[w].doc = db[r]
          /\ call'[w].floor = call[w].floor
          /\ \A v \in Workers \ {w} : call'[v] = call[v]
      BY <1>0, <1>2, <2>1, <2>4, Busy DEF Store, FreshInv, Call
    <3>2. db[r].number \in Nat
      BY <1>0, MaxWritesAssumption DEF Document
    <3>3. Sound(w)'
      BY <1>0, <1>2, <2>1, <2>4, <3>1, <3>2 DEF Sound, Store
    <3> QED
      BY <1>2, <2>4, <3>1, <3>3, FreshFrame DEF Store
  <2> QED
    BY <1>2, <2>1, <2>2, <2>3, <2>4 DEF Store
<1>3. CASE Tag(w) /\ Return(w) /\ UNCHANGED <<cache, settled>>
  <2>1. call'[w].at = "idle" /\ \A v \in Workers \ {w} : call'[v] = call[v]
    BY <1>0, <1>3 DEF Return, IdleCall
  <2> QED
    BY <1>3, <2>1, FreshFrame DEF Tag, Sound
<1>6. CASE /\ Tag(w) /\ Settle(w)
           /\ cache' = [cache EXCEPT ![DelKey(call[w].rec)] = Tagged(w)]
  <2>1. PICK r \in Records, key \in Keys : r = call[w].rec /\ key = InfoKey(r)
    BY <1>6, Busy, KeyType DEF Tag, FreshInv
  <2>2. PICK d \in Document : d = call[w].doc
    BY <1>6, Busy DEF Tag, FreshInv, Prepared, Call
  <2>3. Settle(w) /\ UNCHANGED db
    BY <1>6 DEF Tag
  <2>4. cache' = [cache EXCEPT ![key] = Empty]
    BY <1>6, <2>1 DEF DelKey, Tagged
  <2>5. /\ settled'[r] = Later(settled[r], d.number)
        /\ \A q \in Records \ {r} : settled'[q] = settled[q]
        /\ call'[w].at = "idle" /\ \A v \in Workers \ {w} : call'[v] = call[v]
    BY <1>0, <2>1, <2>2, <2>3 DEF Settle, Return, IdleCall
  <2>6. /\ cache'[key].copy = None /\ cache'[key].lock = None
        /\ \A k \in Keys \ {key} : cache'[k] = cache[k]
    BY <1>0, <2>4 DEF Empty
  <2>7. /\ d.number \in Nat /\ d.number <= db[r].number
        /\ \A q \in Records : db[q].number \in Nat /\ settled[q] \in Nat
    BY <1>0, <1>6, <2>1, <2>2, MaxWritesAssumption DEF Document, Sound, Tag
  <2>8. \A q \in Records : settled[q] <= settled'[q] /\ settled'[q] \in Nat
    BY <2>5, <2>7 DEF Later
  <2>9. ASSUME NEW q \in Records PROVE Kept(q)'
    <3>1. CASE q = r
      BY <2>1, <2>3, <2>5, <2>6, <2>7, <3>1 DEF FreshInv, Kept, Later
    <3>2. CASE q # r
      BY <2>3, <2>5, <2>6, <3>2, KeyType DEF FreshInv, Kept
    <3> QED
      BY <3>1, <3>2
  <2>10. ASSUME NEW v \in Workers \ {w} PROVE Sound(v)'
    <3>1. Sound(v) /\ call'[v] = call[v]
      BY <2>5 DEF FreshInv
    <3>2. CASE call[v].at = "idle"
      BY <3>1, <3>2 DEF Sound
    <3>3. CASE call[v].at # "idle"
      <4>1. call[v].rec \in Records /\ call[v].floor \in Nat
        BY <3>3, Busy, MaxWritesAssumption DEF FreshInv, Call
      <4>2. call[v].floor <= settled'[call[v].rec]
        BY <2>7, <2>8, <3>1, <3>3, <4>1 DEF Sound
      <4>3. call[v].at = "fill" /\ cache'[InfoKey(call[v].rec)].lock = v
              => call[v].rec # r /\ cache[InfoKey(call[v].rec)].lock = v
        BY <2>1, <2>6, <4>1, KeyType, NoneAssumption
      <4> QED
        BY <2>3, <2>5, <3>1, <4>1, <4>2, <4>3 DEF Sound
    <3> QED
      BY <3>2, <3>3
  <2>11. Sound(w)'
    BY <2>5 DEF Sound
  <2> QED
    BY <2>9, <2>10, <2>11 DEF FreshInv
<1>4. CASE Commit(w)
  BY <1>0, <1>4 DEF Commit, Sound
<1>5. CASE Fail(w)
  <2>1. call'[w].at = "idle" /\ \A v \in Workers \ {w} : call'[v] = call[v]
    BY <1>0, <1>5 DEF Fail, Return, IdleCall
  <2> QED
    BY <1>5, <2>1, FreshFrame DEF Fail, Sound
<1> QED
  BY <1>1, <1>2, <1>3, <1>4, <1>5, <1>6 DEF Tag

LEMMA FreshExpiry ==
  ASSUME FreshInv, TypeOK', NEW key \in Keys, LockExpires(key) \/ CopyExpires(key)
  PROVE  FreshInv'
<1>1. \A k \in Keys : /\ cache'[k].copy \in {None, cache[k].copy}
                      /\ cache'[k].lock \in {None, cache[k].lock}
  BY DEF FreshInv, TypeOK, LockExpires, CopyExpires
<1>2. UNCHANGED <<db, settled, call>>
  BY DEF LockExpires, CopyExpires
<1>3. \A r \in Records : Kept(r)'
  BY <1>1, <1>2, KeyType DEF FreshInv, Kept
<1>4. ASSUME NEW v \in Workers PROVE Sound(v)'
  <2>1. Sound(v) /\ (call[v].at # "idle" => call[v].rec \in Records)
    BY Busy DEF FreshInv
  <2> QED
    BY <1>1, <1>2, <2>1, KeyType, NoneAssumption DEF Sound
<1> QED
  BY <1>3, <1>4 DEF FreshInv

LEMMA FreshCorrect ==
  ASSUME NamesDiffer
  PROVE  Spec => [](transactions \/ FreshInv)
<1>1. Init /\ TypeOK => transactions \/ FreshInv
  <2> SUFFICES ASSUME Init, TypeOK PROVE FreshInv
    OBVIOUS
  <2>1. \A r \in Records : Kept(r)
    BY KeyType DEF Init, Kept, Empty
  <2>2. \A w \in Workers : Sound(w)
    BY DEF Init, Sound, IdleCall
  <2> QED
    BY <2>1, <2>2 DEF FreshInv
<1>2. (transactions \/ FreshInv) /\ TypeOK' /\ [Next]_vars => (transactions \/ FreshInv)'
  <2>0. CASE transactions
    BY <2>0 DEF Next, vars
  <2> SUFFICES ASSUME ~ transactions, FreshInv, TypeOK', [Next]_vars
               PROVE  FreshInv'
    BY <2>0
  <2>1. ASSUME NEW w \in Workers, NEW r \in Records, BeginRead(w, r)
        PROVE  FreshInv'
    BY <2>1, FreshRead
  <2>2. ASSUME NEW w \in Workers, NEW r \in Records,
               NEW op \in {"Create", "Update", "Delete"}, BeginWrite(w, op, r)
        PROVE  FreshInv'
    BY <2>2, FreshWrite
  <2>3. ASSUME NEW w \in Workers, Step(w)
        PROVE  FreshInv'
    BY <2>3, FreshRead, FreshWrite DEF Step
  <2>4. ASSUME NEW key \in Keys, LockExpires(key) \/ CopyExpires(key)
        PROVE  FreshInv'
    BY <2>4, FreshExpiry
  <2>5. CASE UNCHANGED vars
    BY <2>5 DEF vars, FreshInv, TypeOK, Kept, Sound
  <2> QED
    BY <2>1, <2>2, <2>3, <2>4, <2>5 DEF Next
<1> QED
  BY <1>1, <1>2, StoreTypeCorrect, PTL DEF Spec

\* A read that starts after a writer is through sees what he wrote, whatever
\* readers and writers do meanwhile and wherever they stop or fail, unless writes
\* are held back by a transaction (TakeWithError, meeting.go:339).
THEOREM ReadsAreLatest ==
  ASSUME NamesDiffer
  PROVE  Spec => []LatestData
<1>1. (transactions \/ FreshInv) => LatestData
  <2> SUFFICES ASSUME FreshInv, NEW w \in Workers, call[w].at = "answer"
               PROVE  call[w].doc.number >= call[w].floor
    BY DEF LatestData
  <2>1. call[w].doc \in Document /\ call[w].floor \in Nat
    BY Busy, MaxWritesAssumption DEF FreshInv, Prepared, Call
  <2>2. call[w].doc.number \in Nat
    BY <2>1, MaxWritesAssumption DEF Document
  <2>3. call[w].floor <= call[w].doc.number
    BY DEF FreshInv, Sound
  <2> QED
    BY <2>1, <2>2, <2>3
<1> QED
  BY <1>1, FreshCorrect, PTL

-----------------------------------------------------------------------------
(* Copies are current, or a writer has left them behind. *)

\* What the owner of a lock has read is the document as it is.
Mine(w) ==
  LET c == call[w] IN
  /\ c.at # "commit"
  /\ c.at = "fill" /\ cache[InfoKey(c.rec)].lock = w /\ ~ BeingWritten(c.rec)
       => c.doc = db[c.rec]

AllCurrent ==
  \A r \in Records :
    cache[InfoKey(r)].copy # None /\ ~ BeingWritten(r) => cache[InfoKey(r)].copy = db[r]

CurrentInv ==
  /\ TypeOK
  /\ AllCurrent
  /\ \A w \in Workers : Mine(w)

\* No writer gets away, and no copy appears that was not there.
LEMMA CurrentKeep ==
  ASSUME CurrentInv, TypeOK', UNCHANGED db, NEW w \in Workers,
         \A r : BeingWritten(r) => BeingWritten(r)',
         \A v \in Workers \ {w} : call'[v] = call[v],
         \A r \in Records :
            cache'[InfoKey(r)].copy \in {None, cache[InfoKey(r)].copy},
         \A r \in Records, v \in Workers \ {w} :
            cache'[InfoKey(r)].lock = v => cache[InfoKey(r)].lock = v,
         Mine(w)'
  PROVE  CurrentInv'
<1>1. AllCurrent'
  BY DEF CurrentInv, AllCurrent
<1>2. ASSUME NEW v \in Workers \ {w} PROVE Mine(v)'
  <2>1. Mine(v) /\ (call[v].at # "idle" => call[v].rec \in Records)
    BY Busy DEF CurrentInv
  <2> QED
    BY <2>1 DEF Mine
<1> QED
  BY <1>1, <1>2 DEF CurrentInv

LEMMA CurrentFrame ==
  ASSUME CurrentInv, TypeOK', UNCHANGED <<db, abandoned>>, NEW w \in Workers,
         call[w].at # "tag",
         \A v \in Workers \ {w} : call'[v] = call[v],
         \A r \in Records :
            cache'[InfoKey(r)].copy \in {None, cache[InfoKey(r)].copy},
         \A r \in Records, v \in Workers \ {w} :
            cache'[InfoKey(r)].lock = v => cache[InfoKey(r)].lock = v,
         Mine(w)'
  PROVE  CurrentInv'
<1>1. \A r : BeingWritten(r) => BeingWritten(r)'
  BY DEF BeingWritten
<1> QED
  BY <1>1, CurrentKeep

LEMMA CurrentRead ==
  ASSUME CurrentInv, TypeOK', NamesDiffer, NEW w \in Workers,
         (\E r \in Records : BeginRead(w, r)) \/ Fetch(w) \/ Load(w) \/ Fill(w) \/ Answer(w)
  PROVE  CurrentInv'
<1>0. /\ call \in [Workers -> {IdleCall} \cup {c \in Call : Prepared(c)}]
      /\ cache \in [Keys -> [copy : Copy \cup {None}, lock : Workers \cup {None}]]
      /\ Mine(w)
  BY DEF CurrentInv, TypeOK
<1>1. CASE \E r \in Records : BeginRead(w, r)
  <2>1. PICK r \in Records : BeginRead(w, r)
    BY <1>1
  <2>2. call[w].at = "idle" /\ call'[w].at = "fetch"
    BY <1>0, <2>1 DEF BeginRead, IdleCall
  <2> QED
    BY <1>0, <2>1, <2>2, CurrentFrame DEF BeginRead, Mine
<1>2. CASE Fetch(w)
  <2>1. PICK r \in Records, key \in Keys : r = call[w].rec /\ key = InfoKey(r)
    BY <1>2, Busy, KeyType DEF Fetch, CurrentInv
  <2>2. CASE /\ call' = [call EXCEPT ![w].at = "answer", ![w].doc = cache[key].copy]
             /\ UNCHANGED cache
    <3>1. call'[w].at = "answer" /\ \A v \in Workers \ {w} : call'[v] = call[v]
      BY <1>0, <1>2, <2>2, Busy DEF Fetch, CurrentInv, Call
    <3> QED
      BY <1>2, <2>2, <3>1, CurrentFrame DEF Fetch, Mine
  <2>3. CASE cache' = [cache EXCEPT ![key].lock = w] /\ Goto(w, "load")
    <3>1. call'[w].at = "load" /\ \A v \in Workers \ {w} : call'[v] = call[v]
      BY <1>0, <1>2, <2>3, Busy DEF Fetch, CurrentInv, Call, Goto
    <3>2. \A k \in Keys : /\ cache'[k].copy = cache[k].copy
                          /\ cache'[k].lock \in {w, cache[k].lock}
      BY <1>0, <2>3
    <3> QED
      BY <1>2, <3>1, <3>2, KeyType, CurrentFrame DEF Fetch, Mine
  <2> QED
    BY <1>2, <2>1, <2>2, <2>3 DEF Fetch
<1>3. CASE Load(w)
  <2>1. PICK r \in Records, key \in Keys : r = call[w].rec /\ key = InfoKey(r)
    BY <1>3, Busy, KeyType DEF Load, CurrentInv
  <2>2. /\ call'[w].at \in {"fill", "answer"} /\ call'[w].rec = r /\ call'[w].doc = db[r]
        /\ \A v \in Workers \ {w} : call'[v] = call[v]
    BY <1>0, <1>3, <2>1, Busy DEF Load, CurrentInv, Call
  <2>3. Unlock(w, key) \/ UNCHANGED cache
    BY <1>3, <2>1 DEF Load
  <2>4. \A k \in Keys : /\ cache'[k].copy = cache[k].copy
                        /\ cache'[k].lock \in {None, cache[k].lock}
    BY <1>0, <2>3 DEF Unlock
  <2>5. Mine(w)'
    BY <1>3, <2>2 DEF Mine, Load
  <2> QED
    BY <1>3, <2>2, <2>4, <2>5, KeyType, NoneAssumption, CurrentFrame DEF Load
<1>4. CASE Fill(w)
  <2>1. PICK r \in Records, key \in Keys : r = call[w].rec /\ key = InfoKey(r)
    BY <1>4, Busy, KeyType DEF Fill, CurrentInv
  <2>2. /\ call[w].at = "fill" /\ call'[w].at = "answer"
        /\ \A v \in Workers \ {w} : call'[v] = call[v]
        /\ UNCHANGED <<db, abandoned>>
    BY <1>0, <1>4, <2>1, Busy DEF Fill, CurrentInv, Call, Goto
  <2>3. CASE UNCHANGED cache
    BY <2>2, <2>3, CurrentFrame DEF Mine
  <2>4. CASE /\ Fills(w, key)
            /\ cache' = [cache EXCEPT ![key] = [copy |-> call[w].doc, lock |-> None]]
    <3>1. \A q : BeingWritten(q)' <=> BeingWritten(q)
      BY <2>2 DEF BeingWritten
    <3>2. ~ BeingWritten(r) => call[w].doc = db[r]
      BY <1>0, <2>1, <2>2, <2>4 DEF Mine, Fills
    <3>3. \A k \in Keys \ {key} : cache'[k] = cache[k]
      BY <1>0, <2>4
    <3>4. cache'[key].copy = call[w].doc /\ cache'[key].lock = None
      BY <1>0, <2>4
    <3>5. \A q \in Records \ {r} : InfoKey(q) \in Keys \ {key}
      BY <2>1, KeyType DEF NamesDiffer
    <3>6. AllCurrent'
      BY <2>1, <2>2, <3>1, <3>2, <3>3, <3>4, <3>5 DEF CurrentInv, AllCurrent
    <3>7. ASSUME NEW v \in Workers \ {w} PROVE Mine(v)'
      <4>1. Mine(v) /\ (call[v].at # "idle" => call[v].rec \in Records)
        BY Busy DEF CurrentInv
      <4>2. \A k \in Keys : cache'[k].lock \in {None, cache[k].lock}
        BY <3>3, <3>4
      <4> QED
        BY <2>2, <3>1, <4>1, <4>2, KeyType, NoneAssumption DEF Mine
    <3>8. Mine(w)'
      BY <2>2 DEF Mine
    <3> QED
      BY <3>6, <3>7, <3>8 DEF CurrentInv
  <2> QED
    BY <1>4, <2>1, <2>3, <2>4 DEF Fill
<1>5. CASE Answer(w)
  <2>1. call[w].at = "answer" /\ call'[w].at = "idle" /\ \A v \in Workers \ {w} : call'[v] = call[v]
    BY <1>0, <1>5 DEF Answer, Return, IdleCall
  <2> QED
    BY <1>5, <2>1, CurrentFrame DEF Answer, Mine
<1> QED
  BY <1>1, <1>2, <1>3, <1>4, <1>5

LEMMA CurrentWrite ==
  ASSUME CurrentInv, TypeOK', NamesDiffer, ~ transactions, NEW w \in Workers,
         \/ \E r \in Records, op \in {"Create", "Update", "Delete"} : BeginWrite(w, op, r)
         \/ Store(w) \/ Tag(w) \/ Commit(w) \/ Fail(w)
  PROVE  CurrentInv'
<1>0. /\ call \in [Workers -> {IdleCall} \cup {c \in Call : Prepared(c)}]
      /\ cache \in [Keys -> [copy : Copy \cup {None}, lock : Workers \cup {None}]]
      /\ db \in [Records -> Document]
      /\ Mine(w)
      /\ \A v \in Workers : call[v].at # "idle" => call[v].rec \in Records
  BY Busy DEF CurrentInv, TypeOK
<1>1. CASE \E r \in Records, op \in {"Create", "Update", "Delete"} : BeginWrite(w, op, r)
  <2>1. PICK r \in Records, op \in {"Create", "Update", "Delete"} : BeginWrite(w, op, r)
    BY <1>1
  <2>2. call[w].at = "idle" /\ call'[w].at = "write"
    BY <1>0, <2>1 DEF BeginWrite, IdleCall
  <2> QED
    BY <1>0, <2>1, <2>2, CurrentFrame DEF BeginWrite, Mine
<1>2. CASE Store(w)
  <2>1. PICK r \in Records : r = call[w].rec /\ call[w].at = "write"
    BY <1>0, <1>2 DEF Store
  <2>2. CASE Return(w) /\ UNCHANGED <<db, locked>>
    <3>1. call'[w].at = "idle" /\ \A v \in Workers \ {w} : call'[v] = call[v]
      BY <1>0, <2>2 DEF Return, IdleCall
    <3> QED
      BY <1>2, <2>1, <2>2, <3>1, CurrentFrame DEF Store, Mine
  <2>3. CASE \E d : /\ call' = [call EXCEPT ![w].at = "tag", ![w].doc = d]
                    /\ db' = [db EXCEPT ![r] = d] \/ UNCHANGED db
    <3>1. PICK d : /\ call' = [call EXCEPT ![w].at = "tag", ![w].doc = d]
                   /\ db' = [db EXCEPT ![r] = d] \/ UNCHANGED db
      BY <2>3
    <3>2. /\ call'[w].at = "tag" /\ call'[w].rec = r
          /\ \A v \in Workers \ {w} : call'[v] = call[v]
      BY <1>0, <1>2, <2>1, <3>1, Busy DEF Store, CurrentInv, Call
    <3>3. \A q \in Records \ {r} : db'[q] = db[q]
      BY <1>0, <3>1
    <3>4. UNCHANGED <<cache, abandoned>>
      BY <1>2 DEF Store
    <3>5. BeingWritten(r)' /\ \A q \in Records \ {r} : BeingWritten(q) => BeingWritten(q)'
      BY <2>1, <3>2, <3>4 DEF BeingWritten
    <3>6. AllCurrent'
      BY <3>3, <3>4, <3>5 DEF CurrentInv, AllCurrent
    <3>7. ASSUME NEW v \in Workers \ {w} PROVE Mine(v)'
      <4>1. Mine(v) /\ (call[v].at # "idle" => call[v].rec \in Records)
        BY <1>0 DEF CurrentInv
      <4> QED
        BY <3>2, <3>3, <3>4, <3>5, <4>1 DEF Mine
    <3>8. Mine(w)'
      BY <3>2 DEF Mine
    <3> QED
      BY <3>6, <3>7, <3>8 DEF CurrentInv
  <2>4. \/ Return(w) /\ UNCHANGED <<db, locked>>
        \/ \E d : /\ call' = [call EXCEPT ![w].at = "tag", ![w].doc = d]
                  /\ db' = [db EXCEPT ![r] = d] \/ UNCHANGED db
    BY <1>2, <2>1 DEF Store
  <2> QED
    BY <2>2, <2>3, <2>4
<1>3. CASE /\ Tag(w) /\ Settle(w)
           /\ cache' = [cache EXCEPT ![DelKey(call[w].rec)] = Tagged(w)]
           /\ abandoned' = abandoned \ {call[w].rec}
  <2>1. PICK r \in Records, key \in Keys :
          r = call[w].rec /\ key = InfoKey(r) /\ call[w].at = "tag"
    BY <1>0, <1>3, KeyType DEF Tag
  <2>2. /\ call'[w].at = "idle" /\ \A v \in Workers \ {w} : call'[v] = call[v]
        /\ UNCHANGED db
    BY <1>0, <1>3 DEF Tag, Settle, Return, IdleCall
  <2>3. cache' = [cache EXCEPT ![key] = Empty]
    BY <1>3, <2>1 DEF DelKey, Tagged
  <2>4. /\ cache'[key].copy = None /\ cache'[key].lock = None
        /\ \A k \in Keys \ {key} : cache'[k] = cache[k]
    BY <1>0, <2>3 DEF Empty
  <2>5. \A q \in Records \ {r} : InfoKey(q) \in Keys \ {key}
    BY <2>1, KeyType DEF NamesDiffer
  <2>6. \A q \in Records \ {r} : BeingWritten(q) => BeingWritten(q)'
    BY <1>3, <2>1, <2>2 DEF BeingWritten
  <2>7. AllCurrent'
    BY <2>1, <2>2, <2>4, <2>5, <2>6 DEF CurrentInv, AllCurrent
  <2>8. ASSUME NEW v \in Workers \ {w} PROVE Mine(v)'
    <3>1. Mine(v) /\ (call[v].at # "idle" => call[v].rec \in Records) /\ v # None
      BY <1>0, NoneAssumption DEF CurrentInv
    <3>2. CASE call[v].rec = r
      BY <2>1, <2>2, <2>4, <3>1, <3>2 DEF Mine
    <3>3. CASE call[v].rec # r
      BY <2>2, <2>4, <2>5, <2>6, <3>1, <3>3 DEF Mine
    <3> QED
      BY <3>2, <3>3
  <2>9. Mine(w)'
    BY <2>2 DEF Mine
  <2> QED
    BY <2>7, <2>8, <2>9 DEF CurrentInv
<1>6. CASE /\ call[w].at # "idle"
           /\ Return(w) /\ Abandon(w) /\ UNCHANGED <<db, cache>>
  <2>1. call'[w].at = "idle" /\ \A v \in Workers \ {w} : call'[v] = call[v]
    BY <1>0, <1>6 DEF Return, IdleCall
  <2>2. \A q : BeingWritten(q) => BeingWritten(q)'
    BY <1>6, <2>1 DEF BeingWritten, Abandon
  <2> QED
    BY <1>6, <2>1, <2>2, CurrentKeep DEF Mine
<1>4. CASE Commit(w)
  BY <1>0, <1>4 DEF Commit, Mine
<1>5. CASE Fail(w)
  BY <1>5, <1>6 DEF Fail
<1> QED
  BY <1>1, <1>2, <1>3, <1>4, <1>5, <1>6 DEF Tag

LEMMA CurrentExpiry ==
  ASSUME CurrentInv, TypeOK', NEW key \in Keys, LockExpires(key) \/ CopyExpires(key)
  PROVE  CurrentInv'
<1>1. \A k \in Keys : /\ cache'[k].copy \in {None, cache[k].copy}
                      /\ cache'[k].lock \in {None, cache[k].lock}
  BY DEF CurrentInv, TypeOK, LockExpires, CopyExpires
<1>2. UNCHANGED <<db, call, abandoned>>
  BY DEF LockExpires, CopyExpires
<1>3. \A r : BeingWritten(r)' <=> BeingWritten(r)
  BY <1>2 DEF BeingWritten
<1>4. AllCurrent'
  BY <1>1, <1>2, <1>3, KeyType DEF CurrentInv, AllCurrent
<1>5. ASSUME NEW v \in Workers PROVE Mine(v)'
  <2>1. Mine(v) /\ (call[v].at # "idle" => call[v].rec \in Records)
    BY Busy DEF CurrentInv
  <2> QED
    BY <1>1, <1>2, <1>3, <2>1, KeyType, NoneAssumption DEF Mine
<1> QED
  BY <1>4, <1>5 DEF CurrentInv

\* No reader, however slow, leaves an old document behind in Redis, if no
\* transaction holds a write back; only a writer that fails or stops before he has
\* removed the copy does (getCache, ExecDel): the lock that the writer takes away
\* with the copy is what keeps the reader from it.
THEOREM CopiesStayCurrent ==
  ASSUME NamesDiffer
  PROVE  Spec => []CopiesAreCurrent
<1>1. Init /\ TypeOK => transactions \/ CurrentInv
  <2> SUFFICES ASSUME Init, TypeOK PROVE CurrentInv
    OBVIOUS
  <2>1. AllCurrent
    BY KeyType DEF Init, AllCurrent, Empty
  <2>2. \A w \in Workers : Mine(w)
    BY DEF Init, Mine, IdleCall
  <2> QED
    BY <2>1, <2>2 DEF CurrentInv
<1>2. (transactions \/ CurrentInv) /\ TypeOK' /\ [Next]_vars => (transactions \/ CurrentInv)'
  <2>0. CASE transactions
    BY <2>0 DEF Next, vars
  <2> SUFFICES ASSUME ~ transactions, CurrentInv, TypeOK', [Next]_vars
               PROVE  CurrentInv'
    BY <2>0
  <2>1. ASSUME NEW w \in Workers, NEW r \in Records, BeginRead(w, r)
        PROVE  CurrentInv'
    BY <2>1, CurrentRead
  <2>2. ASSUME NEW w \in Workers, NEW r \in Records,
               NEW op \in {"Create", "Update", "Delete"}, BeginWrite(w, op, r)
        PROVE  CurrentInv'
    BY <2>2, CurrentWrite
  <2>3. ASSUME NEW w \in Workers, Step(w)
        PROVE  CurrentInv'
    BY <2>3, CurrentRead, CurrentWrite DEF Step
  <2>4. ASSUME NEW key \in Keys, LockExpires(key) \/ CopyExpires(key)
        PROVE  CurrentInv'
    BY <2>4, CurrentExpiry
  <2>5. CASE UNCHANGED vars
    BY <2>5 DEF vars, CurrentInv, TypeOK, AllCurrent, BeingWritten, Mine
  <2> QED
    BY <2>1, <2>2, <2>3, <2>4, <2>5 DEF Next
<1>3. (transactions \/ CurrentInv) => CopiesAreCurrent
  BY DEF CurrentInv, AllCurrent, CopiesAreCurrent
<1> QED
  BY <1>1, <1>2, <1>3, StoreTypeCorrect, PTL DEF Spec

-----------------------------------------------------------------------------
(* Nobody sees a write that may still be rolled back. *)

\* The document of r as it is, or as it was some writes ago.
Past(d, r) ==
  /\ d.of = r
  /\ d.number <= db[r].number
  /\ d.number = db[r].number => d = db[r]

\* Only the owner of the document has the version that comes next.
Pending(w) ==
  LET c == call[w] IN
  /\ c.doc.of = c.rec
  /\ IF locked[c.rec] = w THEN c.doc.number = db[c.rec].number + 1
                          ELSE c.doc.number <= db[c.rec].number

Holds(w) ==
  /\ call[w].at \in {"fill", "answer"} => Past(call[w].doc, call[w].rec)
  /\ call[w].at \in {"tag", "commit"} => Pending(w)
  /\ \A r \in Records :
       locked[r] = w => transactions /\ call[w].at \in {"tag", "commit"} /\ call[w].rec = r

SeenInv ==
  /\ TypeOK
  /\ \A r \in Records :
       /\ db[r].of = r
       /\ cache[InfoKey(r)].copy # None => Past(cache[InfoKey(r)].copy, r)
  /\ \A w \in Workers : Holds(w)

\* A step that leaves the documents alone, and no copy that was not there.
LEMMA SeenFrame ==
  ASSUME SeenInv, TypeOK', UNCHANGED transactions, UNCHANGED <<db, locked>>, NEW w \in Workers,
         \A v \in Workers \ {w} : call'[v] = call[v],
         \A r \in Records :
            cache'[InfoKey(r)].copy \in {None, cache[InfoKey(r)].copy},
         Holds(w)'
  PROVE  SeenInv'
<1>1. ASSUME NEW v \in Workers \ {w} PROVE Holds(v)'
  BY DEF SeenInv, Holds, Past, Pending
<1> QED
  BY <1>1 DEF SeenInv, Past

\* What a worker holds when he holds no document.
LEMMA SeenIdle ==
  ASSUME SeenInv, TypeOK', UNCHANGED transactions, UNCHANGED <<db, locked>>, NEW w \in Workers,
         \A v \in Workers \ {w} : call'[v] = call[v],
         \A r \in Records :
            cache'[InfoKey(r)].copy \in {None, cache[InfoKey(r)].copy},
         call'[w].at \in {"idle", "fetch", "load", "write"},
         \A r \in Records : locked[r] # w
  PROVE  SeenInv'
<1>1. Holds(w)'
  BY DEF Holds
<1> QED
  BY <1>1, SeenFrame

LEMMA SeenRead ==
  ASSUME SeenInv, TypeOK', UNCHANGED transactions, NamesDiffer, NEW w \in Workers,
         (\E r \in Records : BeginRead(w, r)) \/ Fetch(w) \/ Load(w) \/ Fill(w) \/ Answer(w)
  PROVE  SeenInv'
<1>0. /\ call \in [Workers -> {IdleCall} \cup {c \in Call : Prepared(c)}]
      /\ db \in [Records -> Document]
      /\ cache \in [Keys -> [copy : Copy \cup {None}, lock : Workers \cup {None}]]
      /\ Holds(w)
  BY DEF SeenInv, TypeOK
<1>l. call[w].at \notin {"tag", "commit"} => \A r \in Records : locked[r] # w
  BY <1>0 DEF Holds
<1>1. CASE \E r \in Records : BeginRead(w, r)
  <2>1. PICK r \in Records : BeginRead(w, r)
    BY <1>1
  <2>2. /\ call[w].at = "idle" /\ call'[w].at = "fetch"
        /\ \A v \in Workers \ {w} : call'[v] = call[v]
    BY <1>0, <2>1 DEF BeginRead, IdleCall
  <2> QED
    BY <1>l, <2>1, <2>2, SeenIdle DEF BeginRead
<1>2. CASE Fetch(w)
  <2>1. PICK r \in Records, key \in Keys : r = call[w].rec /\ key = InfoKey(r)
    BY <1>2, Busy, KeyType DEF Fetch, SeenInv
  <2>0. call[w].at = "fetch" /\ UNCHANGED <<db, locked>>
    BY <1>2 DEF Fetch
  <2>2. CASE /\ cache[key].copy # None
             /\ call' = [call EXCEPT ![w].at = "answer", ![w].doc = cache[key].copy]
             /\ UNCHANGED cache
    <3>1. /\ call'[w].at = "answer" /\ call'[w].rec = r /\ call'[w].doc = cache[key].copy
          /\ \A v \in Workers \ {w} : call'[v] = call[v]
      BY <1>0, <2>0, <2>1, <2>2, Busy DEF SeenInv, Call
    <3>2. Past(cache[key].copy, r)
      BY <2>1, <2>2 DEF SeenInv
    <3>3. Holds(w)'
      BY <1>l, <2>0, <3>1, <3>2 DEF Holds, Past
    <3> QED
      BY <2>0, <2>2, <3>1, <3>3, SeenFrame
  <2>3. CASE cache' = [cache EXCEPT ![key].lock = w] /\ Goto(w, "load")
    <3>1. call'[w].at = "load" /\ \A v \in Workers \ {w} : call'[v] = call[v]
      BY <1>0, <2>0, <2>3, Busy DEF SeenInv, Call, Goto
    <3>2. \A k \in Keys : cache'[k].copy = cache[k].copy
      BY <1>0, <2>3
    <3> QED
      BY <1>l, <2>0, <3>1, <3>2, KeyType, SeenIdle
  <2> QED
    BY <1>2, <2>1, <2>2, <2>3 DEF Fetch
<1>3. CASE Load(w)
  <2>1. PICK r \in Records, key \in Keys : r = call[w].rec /\ key = InfoKey(r)
    BY <1>3, Busy, KeyType DEF Load, SeenInv
  <2>0. call[w].at = "load" /\ UNCHANGED <<db, locked>>
    BY <1>3 DEF Load
  <2>2. /\ call'[w].at \in {"fill", "answer"} /\ call'[w].rec = r /\ call'[w].doc = db[r]
        /\ \A v \in Workers \ {w} : call'[v] = call[v]
    BY <1>0, <1>3, <2>1, Busy DEF Load, SeenInv, Call
  <2>3. Unlock(w, key) \/ UNCHANGED cache
    BY <1>3, <2>1 DEF Load
  <2>4. \A k \in Keys : cache'[k].copy = cache[k].copy
    BY <1>0, <2>3 DEF Unlock
  <2>5. db[r].of = r /\ db[r].number \in Nat
    BY <1>0, <2>1, MaxWritesAssumption DEF SeenInv, Document
  <2>6. Holds(w)'
    BY <1>l, <2>0, <2>2, <2>5 DEF Holds, Past
  <2> QED
    BY <2>0, <2>2, <2>4, <2>6, KeyType, SeenFrame
<1>4. CASE Fill(w)
  <2>1. PICK r \in Records, key \in Keys : r = call[w].rec /\ key = InfoKey(r)
    BY <1>4, Busy, KeyType DEF Fill, SeenInv
  <2>2. /\ call[w].at = "fill" /\ UNCHANGED <<db, locked>>
        /\ call'[w].at = "answer" /\ call'[w].rec = r /\ call'[w].doc = call[w].doc
        /\ \A v \in Workers \ {w} : call'[v] = call[v]
    BY <1>0, <1>4, <2>1, Busy DEF Fill, SeenInv, Call, Goto
  <2>3. Past(call[w].doc, r)
    BY <1>0, <2>1, <2>2 DEF Holds
  <2>4. Holds(w)'
    BY <1>l, <2>2, <2>3 DEF Holds, Past
  <2>5. CASE UNCHANGED cache
    BY <2>2, <2>4, <2>5, SeenFrame
  <2>6. CASE cache' = [cache EXCEPT ![key] = [copy |-> call[w].doc, lock |-> None]]
    <3>1. /\ cache'[key].copy = call[w].doc
          /\ \A k \in Keys \ {key} : cache'[k] = cache[k]
      BY <1>0, <2>6
    <3>2. \A q \in Records \ {r} : InfoKey(q) \in Keys \ {key}
      BY <2>1, KeyType DEF NamesDiffer
    <3>3. ASSUME NEW q \in Records
          PROVE  /\ db'[q].of = q
                 /\ cache'[InfoKey(q)].copy # None => Past(cache[InfoKey(q)].copy, q)'
      BY <2>1, <2>2, <2>3, <3>1, <3>2 DEF SeenInv, Past
    <3>4. ASSUME NEW v \in Workers \ {w} PROVE Holds(v)'
      BY <2>2 DEF SeenInv, Holds, Past, Pending
    <3> QED
      BY <2>4, <3>3, <3>4 DEF SeenInv
  <2> QED
    BY <1>4, <2>1, <2>5, <2>6 DEF Fill
<1>5. CASE Answer(w)
  <2>1. /\ call[w].at = "answer" /\ call'[w].at = "idle"
        /\ \A v \in Workers \ {w} : call'[v] = call[v]
    BY <1>0, <1>5 DEF Answer, Return, IdleCall
  <2> QED
    BY <1>l, <1>5, <2>1, SeenIdle DEF Answer
<1> QED
  BY <1>1, <1>2, <1>3, <1>4, <1>5

LEMMA WrittenOf ==
  ASSUME NEW d \in Document, NEW op
  PROVE  Written(op, d).of = d.of
BY DEF Written, Document

\* A step that ends the wait of the others: w gives up what it owned.
LEMMA SeenDone ==
  ASSUME SeenInv, TypeOK', UNCHANGED transactions, UNCHANGED <<db, cache>>, NEW w \in Workers,
         \A v \in Workers \ {w} : call'[v] = call[v],
         call'[w].at = "idle",
         \A r \in Records : locked'[r] = IF locked[r] = w THEN None ELSE locked[r]
  PROVE  SeenInv'
<1>1. ASSUME NEW v \in Workers \ {w} PROVE Holds(v)'
  <2>1. \A r \in Records : locked'[r] = v <=> locked[r] = v
    BY NoneAssumption
  <2>2. call[v].at \in {"tag", "commit"} => call[v].rec \in Records
    BY Busy DEF SeenInv
  <2> QED
    BY <2>1, <2>2 DEF SeenInv, Holds, Past, Pending
<1>2. Holds(w)'
  BY NoneAssumption DEF Holds
<1> QED
  BY <1>1, <1>2 DEF SeenInv, Past

\* The next version of r is there, and nobody waits to write another.
LEMMA SeenGrow ==
  ASSUME SeenInv, TypeOK', UNCHANGED transactions, UNCHANGED cache,
         NEW w \in Workers, NEW r \in Records,
         NEW d \in Document, d.of = r, d.number = db[r].number + 1,
         db' = [db EXCEPT ![r] = d],
         \A v \in Workers \ {w} : call'[v] = call[v] /\ locked[r] # v,
         \A q \in Records, v \in Workers \ {w} : locked'[q] = v <=> locked[q] = v,
         Holds(w)'
  PROVE  SeenInv'
<1>0. \A q \in Records : db[q] \in Document /\ db[q].number \in Nat
  BY MaxWritesAssumption DEF SeenInv, TypeOK, Document
<1>1. db'[r] = d /\ \A q \in Records \ {r} : db'[q] = db[q]
  BY DEF SeenInv, TypeOK
<1>2. ASSUME NEW q \in Records, NEW e \in Document, Past(e, q) PROVE Past(e, q)'
  <2>1. e.number \in Nat
    BY MaxWritesAssumption DEF Document
  <2> QED
    BY <1>0, <1>1, <1>2, <2>1 DEF Past
<1>3. ASSUME NEW q \in Records, cache'[InfoKey(q)].copy # None
      PROVE  Past(cache[InfoKey(q)].copy, q)'
  <2>1. cache[InfoKey(q)].copy \in Document /\ Past(cache[InfoKey(q)].copy, q)
    BY <1>3, KeyType DEF SeenInv, TypeOK, Copy
  <2> QED
    BY <1>2, <2>1 DEF Past
<1>4. ASSUME NEW v \in Workers \ {w} PROVE Holds(v)'
  <2>1. Holds(v) /\ call'[v] = call[v]
    BY DEF SeenInv
  <2>2. call[v].at \in {"fill", "answer", "tag", "commit"}
          => call[v].doc \in Document /\ call[v].rec \in Records
    BY Busy DEF SeenInv, Prepared, Call
  <2>3. call[v].at \in {"fill", "answer"} => Past(call[v].doc, call[v].rec)'
    BY <1>2, <2>1, <2>2 DEF Holds, Past
  <2>4. call[v].at \in {"tag", "commit"} => Pending(v)'
    <3>1. call[v].at \in {"tag", "commit"} => call[v].doc.number \in Nat
      BY <2>2, MaxWritesAssumption DEF Document
    <3> QED
      BY <1>0, <1>1, <2>1, <2>2, <3>1 DEF Holds, Pending
  <2> QED
    BY <2>1, <2>3, <2>4 DEF Holds
<1>5. \A q \in Records : db'[q].of = q
  BY <1>1 DEF SeenInv
<1> QED
  BY <1>3, <1>4, <1>5 DEF SeenInv

LEMMA SeenStore ==
  ASSUME SeenInv, TypeOK', UNCHANGED transactions, NEW w \in Workers, Store(w)
  PROVE  SeenInv'
<1>0. /\ call \in [Workers -> {IdleCall} \cup {c \in Call : Prepared(c)}]
      /\ db \in [Records -> Document]
      /\ locked \in [Records -> Workers \cup {None}]
      /\ Holds(w)
  BY DEF SeenInv, TypeOK
<1>1. PICK r \in Records, op \in {"Create", "Update", "Delete"} :
        r = call[w].rec /\ op = call[w].op
  BY Busy DEF Store, SeenInv, Call, Prepared
<1>2. call[w].at = "write" /\ locked[r] = None /\ UNCHANGED cache
  BY <1>1 DEF Store
<1>3. \A q \in Records : locked[q] # w
  BY <1>0, <1>2 DEF Holds
<1>4. db[r].of = r /\ db[r].number \in Nat
  BY <1>0, MaxWritesAssumption DEF SeenInv, Document
<1>5. CASE /\ db[r].number < MaxWrites
           /\ call' = [call EXCEPT ![w].at = "tag", ![w].doc = Written(op, db[r])]
           /\ IF transactions
              THEN locked' = [locked EXCEPT ![r] = w] /\ UNCHANGED db
              ELSE db' = [db EXCEPT ![r] = Written(op, db[r])] /\ UNCHANGED locked
  <2>1. PICK d \in Document : d = Written(op, db[r]) /\ d.number = db[r].number + 1 /\ d.of = r
    BY <1>0, <1>4, <1>5, WrittenType, WrittenOf
  <2>2. /\ call'[w].at = "tag" /\ call'[w].rec = r /\ call'[w].doc = d
        /\ \A v \in Workers \ {w} : call'[v] = call[v]
    BY <1>0, <1>1, <1>2, <1>5, <2>1, Busy DEF SeenInv, Call
  <2>3. CASE transactions
    <3>1. UNCHANGED db /\ locked'[r] = w /\ \A q \in Records \ {r} : locked'[q] = locked[q]
      BY <1>0, <1>5, <2>3
    <3>2. Holds(w)'
      BY <1>3, <2>1, <2>2, <2>3, <3>1 DEF Holds, Pending
    <3>3. ASSUME NEW v \in Workers \ {w} PROVE Holds(v)'
      <4>1. \A q \in Records : locked'[q] = v <=> locked[q] = v
        BY <1>2, <3>1, NoneAssumption
      <4>2. call[v].at \in {"tag", "commit"} => call[v].rec \in Records
        BY Busy DEF SeenInv
      <4> QED
        BY <2>2, <3>1, <4>1, <4>2 DEF SeenInv, Holds, Past, Pending
    <3> QED
      BY <1>2, <3>1, <3>2, <3>3 DEF SeenInv, Past
  <2>4. CASE ~ transactions
    <3>1. UNCHANGED locked /\ db' = [db EXCEPT ![r] = d]
      BY <1>5, <2>1, <2>4
    <3>2. db'[r] = d
      BY <1>0, <3>1
    <3>3. Holds(w)'
      BY <1>3, <1>4, <2>1, <2>2, <3>1, <3>2 DEF Holds, Pending
    <3> QED
      BY <1>2, <2>1, <2>2, <3>1, <3>3, NoneAssumption, SeenGrow
  <2> QED
    BY <2>3, <2>4
<1>6. CASE Return(w) /\ UNCHANGED <<db, locked>>
  <2>1. call'[w].at = "idle" /\ \A v \in Workers \ {w} : call'[v] = call[v]
    BY <1>0, <1>6 DEF Return, IdleCall
  <2> QED
    BY <1>2, <1>3, <1>6, <2>1, SeenIdle
<1>7. CASE /\ call' = [call EXCEPT ![w].at = "tag", ![w].doc = db[r]]
           /\ UNCHANGED <<db, locked>>
  <2>1. /\ call'[w].at = "tag" /\ call'[w].rec = r /\ call'[w].doc = db[r]
        /\ \A v \in Workers \ {w} : call'[v] = call[v]
    BY <1>0, <1>1, <1>2, <1>7, Busy DEF SeenInv, Call
  <2>2. Holds(w)'
    BY <1>3, <1>4, <1>7, <2>1 DEF Holds, Pending
  <2> QED
    BY <1>2, <1>7, <2>1, <2>2, SeenFrame
<1> QED
  BY <1>1, <1>5, <1>6, <1>7 DEF Store

LEMMA SeenWrite ==
  ASSUME SeenInv, TypeOK', UNCHANGED transactions, NamesDiffer, NEW w \in Workers,
         \/ \E r \in Records, op \in {"Create", "Update", "Delete"} : BeginWrite(w, op, r)
         \/ Store(w) \/ Tag(w) \/ Commit(w) \/ Fail(w)
  PROVE  SeenInv'
<1>0. /\ call \in [Workers -> {IdleCall} \cup {c \in Call : Prepared(c)}]
      /\ db \in [Records -> Document]
      /\ locked \in [Records -> Workers \cup {None}]
      /\ cache \in [Keys -> [copy : Copy \cup {None}, lock : Workers \cup {None}]]
      /\ Holds(w)
  BY DEF SeenInv, TypeOK
<1>l. call[w].at \notin {"tag", "commit"} => \A r \in Records : locked[r] # w
  BY <1>0 DEF Holds
<1>1. CASE \E r \in Records, op \in {"Create", "Update", "Delete"} : BeginWrite(w, op, r)
  <2>1. PICK r \in Records, op \in {"Create", "Update", "Delete"} : BeginWrite(w, op, r)
    BY <1>1
  <2>2. /\ call[w].at = "idle" /\ call'[w].at = "write"
        /\ \A v \in Workers \ {w} : call'[v] = call[v]
    BY <1>0, <2>1 DEF BeginWrite, IdleCall
  <2> QED
    BY <1>l, <2>1, <2>2, SeenIdle DEF BeginWrite
<1>2. CASE Store(w)
  BY <1>2, SeenStore
<1>3. CASE Tag(w)
  <2>1. PICK r \in Records : r = call[w].rec /\ call[w].at = "tag"
    BY <1>3, Busy DEF Tag, SeenInv
  <2>2. UNCHANGED <<db, locked>>
    BY <1>3 DEF Tag
  <2>3. \A q \in Records : cache'[InfoKey(q)].copy \in {None, cache[InfoKey(q)].copy}
    <3>1. cache' = [cache EXCEPT ![DelKey(r)] = Empty] \/ UNCHANGED cache
      BY <1>3, <2>1 DEF Tag, Tagged
    <3>2. \A k \in Keys : cache'[k] \in {Empty, cache[k]}
      BY <1>0, <3>1
    <3> QED
      BY <3>2, KeyType DEF Empty
  <2>4. CASE transactions
    <3>1. /\ call'[w].at = "commit" /\ call'[w].rec = r /\ call'[w].doc = call[w].doc
          /\ \A v \in Workers \ {w} : call'[v] = call[v]
      BY <1>0, <1>3, <2>1, <2>4, Busy DEF Tag, Goto, SeenInv, Call
    <3>2. Holds(w)'
      BY <1>0, <2>1, <2>2, <3>1 DEF Holds, Pending
    <3> QED
      BY <2>2, <2>3, <3>1, <3>2, SeenFrame
  <2>5. CASE ~ transactions
    <3>1. call'[w].at = "idle" /\ \A v \in Workers \ {w} : call'[v] = call[v]
      BY <1>0, <1>3, <2>5 DEF Tag, Settle, Return, IdleCall
    <3>2. \A q \in Records : locked[q] # w
      BY <1>0, <2>5 DEF Holds
    <3> QED
      BY <2>2, <2>3, <3>1, <3>2, SeenIdle
  <2> QED
    BY <2>4, <2>5
<1>4. CASE Commit(w)
  <2>1. PICK r \in Records, d \in Document : r = call[w].rec /\ d = call[w].doc
    BY <1>4, Busy DEF Commit, SeenInv, Call, Prepared
  <2>2. /\ call[w].at = "commit" /\ call'[w].at = "idle"
        /\ \A v \in Workers \ {w} : call'[v] = call[v]
        /\ UNCHANGED cache
    BY <1>0, <1>4 DEF Commit, Settle, Return, IdleCall
  <2>3. d.of = r /\ (locked[r] = w => d.number = db[r].number + 1)
    BY <1>0, <2>1, <2>2 DEF Holds, Pending
  <2>4. \A q \in Records \ {r} : locked[q] # w
    BY <1>0, <2>1 DEF Holds
  <2>5. CASE locked[r] = w
    <3>1. db' = [db EXCEPT ![r] = d] /\ locked' = [locked EXCEPT ![r] = None]
      BY <1>4, <2>1, <2>5 DEF Commit
    <3>2. \A q \in Records, v \in Workers : locked'[q] = v <=> v # w /\ locked[q] = v
      BY <1>0, <2>4, <2>5, <3>1, NoneAssumption
    <3>3. Holds(w)'
      BY <2>2, <3>2 DEF Holds
    <3>4. \A v \in Workers \ {w} : call'[v] = call[v] /\ locked[r] # v
      BY <2>2, <2>5
    <3>5. \A q \in Records, v \in Workers \ {w} : locked'[q] = v <=> locked[q] = v
      BY <3>2
    <3>6. d.of = r /\ d.number = db[r].number + 1 /\ UNCHANGED cache
      BY <2>2, <2>3, <2>5
    <3>7. db' = [db EXCEPT ![r] = d]
      BY <3>1
    <3> QED
      BY <3>3, <3>4, <3>5, <3>6, <3>7, SeenGrow
  <2>6. CASE locked[r] # w
    <3>1. UNCHANGED <<db, locked>>
      BY <1>4, <2>1, <2>6 DEF Commit
    <3> QED
      BY <2>2, <2>4, <2>6, <3>1, SeenIdle
  <2> QED
    BY <2>5, <2>6
<1>5. CASE Fail(w)
  <2>1. /\ call'[w].at = "idle" /\ \A v \in Workers \ {w} : call'[v] = call[v]
        /\ UNCHANGED <<db, cache>>
        /\ \A r \in Records : locked'[r] = IF locked[r] = w THEN None ELSE locked[r]
    BY <1>0, <1>5 DEF Fail, Return, IdleCall
  <2> QED
    BY <2>1, SeenDone
<1> QED
  BY <1>1, <1>2, <1>3, <1>4, <1>5

LEMMA SeenExpiry ==
  ASSUME SeenInv, TypeOK', UNCHANGED transactions,
         NEW key \in Keys, LockExpires(key) \/ CopyExpires(key)
  PROVE  SeenInv'
<1>1. \A k \in Keys : cache'[k].copy \in {None, cache[k].copy}
  BY DEF SeenInv, TypeOK, LockExpires, CopyExpires
<1>2. UNCHANGED <<db, locked, call>>
  BY DEF LockExpires, CopyExpires
<1>3. ASSUME NEW v \in Workers PROVE Holds(v)'
  BY <1>2 DEF SeenInv, Holds, Past, Pending
<1> QED
  BY <1>1, <1>2, <1>3, KeyType DEF SeenInv, Past

LEMMA SeenCorrect ==
  ASSUME NamesDiffer
  PROVE  Spec => []SeenInv
<1>1. Init /\ TypeOK => SeenInv
  <2> SUFFICES ASSUME Init, TypeOK PROVE SeenInv
    OBVIOUS
  <2>1. \A w \in Workers : Holds(w)
    BY NoneAssumption DEF Init, Holds, IdleCall
  <2> QED
    BY <2>1, KeyType DEF Init, SeenInv, Empty
<1>2. SeenInv /\ TypeOK' /\ [Next]_vars => SeenInv'
  <2> SUFFICES ASSUME SeenInv, TypeOK', [Next]_vars
               PROVE  SeenInv'
    OBVIOUS
  <2>0. UNCHANGED transactions
    BY DEF Next, vars
  <2>1. ASSUME NEW w \in Workers, NEW r \in Records, BeginRead(w, r)
        PROVE  SeenInv'
    BY <2>0, <2>1, SeenRead
  <2>2. ASSUME NEW w \in Workers, NEW r \in Records,
               NEW op \in {"Create", "Update", "Delete"}, BeginWrite(w, op, r)
        PROVE  SeenInv'
    BY <2>0, <2>2, SeenWrite
  <2>3. ASSUME NEW w \in Workers, Step(w)
        PROVE  SeenInv'
    BY <2>0, <2>3, SeenRead, SeenWrite DEF Step
  <2>4. ASSUME NEW key \in Keys, LockExpires(key) \/ CopyExpires(key)
        PROVE  SeenInv'
    BY <2>0, <2>4, SeenExpiry
  <2>5. CASE UNCHANGED vars
    BY <2>5 DEF vars, SeenInv, TypeOK, Holds, Past, Pending
  <2> QED
    BY <2>1, <2>2, <2>3, <2>4, <2>5 DEF Next
<1> QED
  BY <1>1, <1>2, StoreTypeCorrect, PTL DEF Spec

\* What is in Redis, and what a reader answers, was committed: also where a writer
\* removes the copy before the write is committed, and whoever fails in between
\* (tx.Transaction, TagAsDeleted, TakeWithError).
THEOREM OnlyCommittedSeen ==
  ASSUME NamesDiffer
  PROVE  Spec => []OnlyCommitted
<1>1. SeenInv => OnlyCommitted
  BY DEF SeenInv, Holds, Past, OnlyCommitted
<1> QED
  BY <1>1, SeenCorrect, PTL

-----------------------------------------------------------------------------
(* The storage keeps its promise. *)

StoreInv == SeenInv /\ (transactions \/ FreshInv)

\* What the promise tells of worker w changes with his call only.
LEMMA ReadsStep ==
  ASSUME TypeOK, UNCHANGED transactions, NEW w \in Workers,
         \A v \in Workers \ {w} : call'[v] = call[v]
  PROVE  Reads' = [Reads EXCEPT ![w] = ReadOf(w)']
<1>1. \A v \in Workers \ {w} : ReadOf(v)' = ReadOf(v)
  BY DEF ReadOf, CountedOn
<1> QED
  BY <1>1 DEF Reads

LEMMA ReadsKept ==
  ASSUME TypeOK, UNCHANGED transactions, NEW w \in Workers,
         \A v \in Workers \ {w} : call'[v] = call[v],
         ReadOf(w)' = ReadOf(w)
  PROVE  Reads' = Reads
<1>1. \A v \in Workers : ReadOf(v)' = ReadOf(v)
  BY DEF ReadOf, CountedOn
<1> QED
  BY <1>1 DEF Reads

LEMMA ThroughKept ==
  ASSUME UNCHANGED <<transactions, settled>>
  PROVE  Through' = Through
BY DEF Through, CountedOn

\* A reader has a record, a version to count on, and the document if he found it.
LEMMA ReadOfReader ==
  ASSUME TypeOK, NEW w \in Workers, call[w].at \in {"fetch", "load", "fill", "answer"}
  PROVE  /\ ReadOf(w) = [rec |-> call[w].rec, floor |-> CountedOn(call[w].floor),
                         found |-> IF call[w].at = "answer" THEN call[w].doc ELSE None]
         /\ ReadOf(w) \in Reading
         /\ ReadOf(w) # None
<1>1. call[w] \in Call /\ call[w].op = "Read" /\ Prepared(call[w])
  BY Busy DEF Prepared, Call
<1>2. CountedOn(call[w].floor) \in 0 .. MaxWrites
  BY <1>1, MaxWritesAssumption DEF CountedOn, Call
<1>3. (IF call[w].at = "answer" THEN call[w].doc ELSE None) \in Document \cup {None}
  BY <1>1 DEF Call
<1>4. ReadOf(w) = [rec |-> call[w].rec, floor |-> CountedOn(call[w].floor),
                   found |-> IF call[w].at = "answer" THEN call[w].doc ELSE None]
  BY <1>1 DEF ReadOf
<1>5. ReadOf(w) \in Reading
  BY <1>1, <1>2, <1>3, <1>4 DEF Reading, Call
<1> QED
  BY <1>4, <1>5, NoneAssumption

LEMMA NoReader ==
  ASSUME NEW c \in {IdleCall} \cup {e \in Call : Prepared(e)},
         c.at \in {"idle", "write", "tag", "commit"}
  PROVE  c.op # "Read"
<1>1. CASE c = IdleCall
  BY <1>1 DEF IdleCall
<1>2. CASE c \in Call /\ Prepared(c)
  BY <1>2 DEF Call, Prepared
<1> QED
  BY <1>1, <1>2

LEMMA ReadOfWriter ==
  ASSUME TypeOK, NEW w \in Workers, call[w].at \in {"idle", "write", "tag", "commit"}
  PROVE  ReadOf(w) = None
BY NoReader DEF TypeOK, ReadOf

LEMMA WriterUnseen ==
  ASSUME TypeOK, TypeOK', NEW w \in Workers,
         call[w].at \in {"idle", "write", "tag", "commit"},
         call'[w].at \in {"idle", "write", "tag", "commit"}
  PROVE  ReadOf(w)' = ReadOf(w)
<1>1. call'[w] \in {IdleCall} \cup {c \in Call : Prepared(c)}
  BY DEF TypeOK
<1>2. call'[w].op # "Read"
  BY <1>1, NoReader
<1> QED
  BY <1>2, ReadOfWriter DEF ReadOf

LEMMA AskStep ==
  ASSUME StoreInv, TypeOK', UNCHANGED transactions,
         NEW w \in Workers, NEW r \in Records, BeginRead(w, r)
  PROVE  Promise!Ask(w, r)
<1>1. /\ call \in [Workers -> {IdleCall} \cup {c \in Call : Prepared(c)}] /\ TypeOK
      /\ call[w].at = "idle"
      /\ UNCHANGED <<db, settled>>
  BY DEF StoreInv, SeenInv, TypeOK, BeginRead
<1>2. /\ call'[w].at = "fetch" /\ call'[w].rec = r /\ call'[w].floor = settled[r]
      /\ \A v \in Workers \ {w} : call'[v] = call[v]
  BY <1>1 DEF BeginRead, IdleCall
<1>3. ReadOf(w) = None
  BY <1>1, ReadOfWriter
<1>4. ReadOf(w)' = [rec |-> r, floor |-> Through[r], found |-> None]
  <2>1. CountedOn(settled[r])' = Through[r]
    BY <1>1 DEF CountedOn, Through
  <2>2. ReadOf(w)' = [rec |-> call'[w].rec, floor |-> CountedOn(call[w].floor)',
                      found |-> IF call'[w].at = "answer" THEN call'[w].doc ELSE None]
    <3>1. call'[w].op = "Read"
      BY <1>1 DEF BeginRead, IdleCall
    <3> QED
      BY <3>1 DEF ReadOf
  <2>3. CountedOn(call[w].floor)' = Through[r]
    BY <1>1, <1>2, <2>1 DEF CountedOn
  <2> QED
    BY <1>2, <2>2, <2>3
<1>5. Reads[w] = None /\ Reads' = [Reads EXCEPT ![w] = ReadOf(w)']
  BY <1>1, <1>2, <1>3, ReadsStep DEF Reads
<1>6. Through' = Through
  BY <1>1, ThroughKept
<1> QED
  BY <1>1, <1>4, <1>5, <1>6 DEF Promise!Ask

\* The document a reader answers with is one the promise lets him find.
LEMMA FindStep ==
  ASSUME StoreInv, TypeOK', SeenInv', transactions' \/ FreshInv',
         UNCHANGED <<transactions, db, settled>>,
         NEW w \in Workers, call[w].at \in {"fetch", "load", "fill"},
         call'[w].at = "answer", call'[w].rec = call[w].rec, call'[w].op = call[w].op,
         call'[w].floor = call[w].floor,
         \A v \in Workers \ {w} : call'[v] = call[v]
  PROVE  Promise!Find(w)
<1> DEFINE r == call[w].rec
<1>0. TypeOK /\ r \in Records /\ call[w] \in Call
  BY Busy DEF StoreInv, SeenInv
<1>1. PICK d \in Document : d = call'[w].doc
  <2>1. call'[w].doc \in Document
    <3>1. call'[w] \in {IdleCall} \cup {c \in Call : Prepared(c)} /\ call'[w].at = "answer"
      BY DEF TypeOK
    <3>2. call'[w] \in Call /\ Prepared(call'[w])
      BY <3>1 DEF IdleCall
    <3> QED
      BY <3>1, <3>2 DEF Call, Prepared
  <2> QED
    BY <2>1
<1>2. /\ d.of = r /\ d.number <= db[r].number
      /\ d.number = db[r].number => d = db[r]
  BY <1>1 DEF SeenInv, Holds, Past
<1>3. PICK f \in 0 .. MaxWrites : f = CountedOn(call[w].floor) /\ f <= d.number
  <2>1. CASE transactions
    BY <1>1, <2>1, MaxWritesAssumption DEF CountedOn, Document
  <2>2. CASE ~ transactions
    BY <1>0, <1>1, <2>2 DEF CountedOn, Call, FreshInv, Sound
  <2> QED
    BY <2>1, <2>2
<1>4. ReadOf(w) = [rec |-> r, floor |-> f, found |-> None] /\ ReadOf(w) # None
  BY <1>0, <1>3, ReadOfReader
<1>5. ReadOf(w)' = [rec |-> r, floor |-> f, found |-> d]
  <2>1. CountedOn(call[w].floor)' = f
    BY <1>3 DEF CountedOn
  <2>2. call[w].op = "Read"
    BY <1>0, Busy DEF Prepared, Call
  <2> QED
    BY <1>1, <2>1, <2>2 DEF ReadOf
<1>6. Reads[w] = ReadOf(w) /\ Reads' = [Reads EXCEPT ![w] = ReadOf(w)'] /\ Through' = Through
  BY <1>0, ReadsStep, ThroughKept DEF Reads
<1>7. Reads' = [Reads EXCEPT ![w].found = d]
  <2>1. [Reads[w] EXCEPT !.found = d] = ReadOf(w)'
    BY <1>4, <1>5, <1>6
  <2> QED
    BY <1>6, <2>1
<1>8. /\ d \in Promise!Version(r)
      /\ d.number \in f .. db[r].number
  <2>1. d \in [of : {r}, number : 0 .. MaxWrites, live : BOOLEAN]
    BY <1>2 DEF Document
  <2>2. db[r].number \in Nat /\ d.number \in Nat
    BY <1>0, MaxWritesAssumption DEF TypeOK, Document
  <2> QED
    BY <1>2, <1>3, <2>1, <2>2 DEF Promise!Version
<1>9. Reads[w].rec = r /\ Reads[w].floor = f /\ Reads[w].found = None /\ Reads[w] # None
  BY <1>4, <1>6
<1> QED
  BY <1>2, <1>6, <1>7, <1>8, <1>9 DEF Promise!Find

LEMMA WriteStep ==
  ASSUME StoreInv, Through' = Through,
         NEW r \in Records, NEW d \in Document, d.of = r, d.number = db[r].number + 1,
         db' = [db EXCEPT ![r] = d], Reads' = Reads
  PROVE  Promise!Write(r)
<1>1. d \in Promise!Version(r)
  BY DEF Document, Promise!Version
<1> QED
  BY <1>1 DEF Promise!Write

LEMMA Stutter ==
  ASSUME StoreInv, UNCHANGED <<transactions, db, settled>>, NEW w \in Workers,
         \A v \in Workers \ {w} : call'[v] = call[v],
         ReadOf(w)' = ReadOf(w)
  PROVE  UNCHANGED Promise!vars
<1>1. Reads' = Reads /\ Through' = Through
  BY ReadsKept, ThroughKept DEF StoreInv, SeenInv
<1> QED
  BY <1>1 DEF Promise!vars

\* The reader has his answer, or an error.
LEMMA LeaveStep ==
  ASSUME StoreInv, TypeOK', UNCHANGED <<transactions, db, settled>>, NEW w \in Workers,
         call[w].at \in {"fetch", "load", "fill", "answer"}, Return(w)
  PROVE  Promise!Leave(w)
<1>0. TypeOK
  BY DEF StoreInv, SeenInv
<1>1. call'[w].at = "idle" /\ \A v \in Workers \ {w} : call'[v] = call[v]
  BY <1>0 DEF TypeOK, Return, IdleCall
<1>2. ReadOf(w)' = None
  BY <1>0 DEF ReadOf, Return, IdleCall, TypeOK
<1>3. Reads[w] # None /\ Reads' = [Reads EXCEPT ![w] = None]
  BY <1>0, <1>1, <1>2, ReadOfReader, ReadsStep DEF Reads
<1> QED
  BY <1>3, ThroughKept DEF Promise!Leave

LEMMA ReaderKeepsPromise ==
  ASSUME StoreInv, TypeOK', SeenInv', transactions' \/ FreshInv',
         UNCHANGED transactions, NEW w \in Workers,
         Fetch(w) \/ Load(w) \/ Fill(w) \/ Answer(w)
  PROVE  Promise!Next \/ UNCHANGED Promise!vars
<1>0. /\ call \in [Workers -> {IdleCall} \cup {c \in Call : Prepared(c)}] /\ TypeOK
      /\ UNCHANGED <<db, settled>>
      /\ call[w].at \in {"fetch", "load", "fill", "answer"}
  BY DEF StoreInv, SeenInv, TypeOK, Fetch, Load, Fill, Answer
<1>1. call[w] \in Call /\ call[w].op = "Read"
  BY <1>0, Busy DEF Prepared, Call
<1>2. CASE Answer(w)
  BY <1>0, <1>2, LeaveStep DEF Answer, Promise!Next
<1>3. CASE ~ Answer(w)
  <2>1. /\ call[w].at \in {"fetch", "load", "fill"}
        /\ call'[w].at \in {"load", "fill", "answer"}
        /\ call'[w].rec = call[w].rec /\ call'[w].op = call[w].op
        /\ call'[w].floor = call[w].floor
        /\ \A v \in Workers \ {w} : call'[v] = call[v]
    BY <1>0, <1>1, <1>3 DEF Fetch, Load, Fill, Goto, Call
  <2>2. CASE call'[w].at = "answer"
    BY <1>0, <2>1, <2>2, FindStep DEF Promise!Next
  <2>3. CASE call'[w].at # "answer"
    <3>1. ReadOf(w)' = ReadOf(w)
      BY <1>1, <2>1, <2>3 DEF ReadOf, CountedOn
    <3> QED
      BY <1>0, <2>1, <3>1, Stutter
  <2> QED
    BY <2>2, <2>3
<1> QED
  BY <1>2, <1>3

LEMMA WriterKeepsPromise ==
  ASSUME StoreInv, TypeOK', UNCHANGED transactions, NEW w \in Workers,
         \/ \E r \in Records, op \in {"Create", "Update", "Delete"} : BeginWrite(w, op, r)
         \/ Store(w) \/ Tag(w) \/ Commit(w) \/ Fail(w)
  PROVE  Promise!Next \/ UNCHANGED Promise!vars
<1>0. /\ call \in [Workers -> {IdleCall} \cup {c \in Call : Prepared(c)}] /\ TypeOK
      /\ db \in [Records -> Document] /\ settled \in [Records -> 0 .. MaxWrites]
      /\ SeenInv /\ Holds(w)
  BY DEF StoreInv, SeenInv, TypeOK
<1>1. CASE \E r \in Records, op \in {"Create", "Update", "Delete"} : BeginWrite(w, op, r)
  <2>1. PICK r \in Records, op \in {"Create", "Update", "Delete"} : BeginWrite(w, op, r)
    BY <1>1
  <2>2. /\ call[w].at = "idle" /\ call'[w].at = "write"
        /\ \A v \in Workers \ {w} : call'[v] = call[v]
    BY <1>0, <2>1 DEF BeginWrite, IdleCall
  <2>3. ReadOf(w)' = ReadOf(w)
    BY <1>0, <2>2, WriterUnseen
  <2> QED
    BY <2>1, <2>2, <2>3, Stutter DEF BeginWrite
<1>2. CASE Store(w)
  <2>1. PICK r \in Records, op \in {"Create", "Update", "Delete"} :
          r = call[w].rec /\ op = call[w].op
    BY <1>0, <1>2, Busy DEF Store, Call, Prepared
  <2>2. /\ call[w].at = "write" /\ call'[w].at \in {"idle", "tag"}
        /\ \A v \in Workers \ {w} : call'[v] = call[v]
    BY <1>0, <1>2, Busy DEF Store, Return, IdleCall, Call
  <2>3. ReadOf(w)' = ReadOf(w)
    BY <1>0, <2>2, WriterUnseen
  <2>4. UNCHANGED settled
    BY <1>2 DEF Store
  <2>5. CASE UNCHANGED db
    BY <2>2, <2>3, <2>4, <2>5, Stutter
  <2>6. CASE db[r].number < MaxWrites /\ db' = [db EXCEPT ![r] = Written(op, db[r])]
    <3>1. db[r].of = r
      BY <1>0 DEF SeenInv
    <3>2. PICK d \in Document : d = Written(op, db[r]) /\ d.number = db[r].number + 1 /\ d.of = r
      BY <1>0, <2>6, <3>1, WrittenType, WrittenOf
    <3>3. Reads' = Reads /\ Through' = Through
      BY <1>0, <2>2, <2>3, <2>4, ReadsKept, ThroughKept
    <3>4. Promise!Write(r)
      BY <2>6, <3>2, <3>3, WriteStep
    <3> QED
      BY <3>4 DEF Promise!Next
  <2> QED
    BY <1>2, <2>1, <2>5, <2>6 DEF Store
<1>3. CASE Tag(w)
  <2>1. PICK r \in Records, d \in Document :
          r = call[w].rec /\ d = call[w].doc /\ call[w].at = "tag"
    BY <1>0, <1>3, Busy DEF Tag, Call, Prepared
  <2>2. /\ call'[w].at \in {"idle", "commit"}
        /\ \A v \in Workers \ {w} : call'[v] = call[v]
        /\ UNCHANGED db
    BY <1>0, <1>3, Busy DEF Tag, Goto, Settle, Return, IdleCall, Call
  <2>3. ReadOf(w)' = ReadOf(w)
    BY <1>0, <2>1, <2>2, WriterUnseen
  <2>4. CASE UNCHANGED settled
    BY <2>2, <2>3, <2>4, Stutter
  <2>5. CASE ~ transactions /\ Settle(w)
    <3>1. Reads' = Reads
      BY <1>0, <2>2, <2>3, ReadsKept
    <3>2. /\ settled[r] <= db[r].number /\ d.number <= db[r].number
      BY <2>1, <2>5 DEF StoreInv, FreshInv, Kept, Sound
    <3>3. PICK n \in 0 .. MaxWrites : n = Later(settled[r], d.number)
      BY <1>0, <2>1 DEF Later, Document
    <3>4. n \in settled[r] .. db[r].number
      BY <1>0, <3>2, <3>3, MaxWritesAssumption DEF Later, Document
    <3>5. settled' = [settled EXCEPT ![r] = n]
      BY <2>1, <2>5, <3>3 DEF Settle
    <3>6. Through' = [Through EXCEPT ![r] = n] /\ Through[r] = settled[r]
      BY <1>0, <2>5, <3>5 DEF Through, CountedOn
    <3>7. Promise!GetThrough(r)
      BY <2>2, <3>1, <3>4, <3>6 DEF Promise!GetThrough
    <3> QED
      BY <3>7 DEF Promise!Next
  <2> QED
    BY <1>3, <2>4, <2>5 DEF Tag
<1>4. CASE Commit(w)
  <2>1. PICK r \in Records, d \in Document :
          r = call[w].rec /\ d = call[w].doc /\ call[w].at = "commit"
    BY <1>0, <1>4, Busy DEF Commit, Call, Prepared
  <2>2. call'[w].at = "idle" /\ \A v \in Workers \ {w} : call'[v] = call[v]
    BY <1>0, <1>4 DEF Commit, Settle, Return, IdleCall
  <2>3. transactions
    BY <2>1 DEF StoreInv, FreshInv, Sound
  <2>4. Reads' = Reads /\ Through' = Through
    <3>1. ReadOf(w)' = ReadOf(w)
      BY <1>0, <2>1, <2>2, WriterUnseen
    <3> QED
      BY <1>0, <2>2, <2>3, <3>1, ReadsKept DEF Through, CountedOn
  <2>5. CASE locked[r] = w
    <3>1. d.of = r /\ d.number = db[r].number + 1
      BY <1>0, <2>1, <2>5 DEF Holds, Pending
    <3>2. db' = [db EXCEPT ![r] = d]
      BY <1>4, <2>1, <2>5 DEF Commit
    <3>3. Promise!Write(r)
      BY <2>4, <3>1, <3>2, WriteStep
    <3> QED
      BY <3>3 DEF Promise!Next
  <2>6. CASE locked[r] # w
    BY <1>4, <2>1, <2>4, <2>6 DEF Commit, Promise!vars
  <2> QED
    BY <2>5, <2>6
<1>5. CASE Fail(w)
  <2>1. /\ call[w].at # "idle" /\ Return(w) /\ UNCHANGED <<db, settled>>
    BY <1>5 DEF Fail
  <2>2. CASE call[w].at \in {"fetch", "load", "fill", "answer"}
    BY <2>1, <2>2, LeaveStep DEF Promise!Next
  <2>3. CASE call[w].at \in {"write", "tag", "commit"}
    <3>1. call'[w].at = "idle" /\ \A v \in Workers \ {w} : call'[v] = call[v]
      BY <1>0, <2>1 DEF Return, IdleCall
    <3>2. ReadOf(w)' = ReadOf(w)
      BY <1>0, <2>3, <3>1, WriterUnseen
    <3> QED
      BY <2>1, <3>1, <3>2, Stutter
  <2> QED
    BY <1>0, <2>1, <2>2, <2>3, Busy DEF Call
<1> QED
  BY <1>1, <1>2, <1>3, <1>4, <1>5

\* Documents in MongoDB and copies in Redis, with locks that expire, removals that
\* fail and handlers that stop at any point, are a regular store: every version is
\* one more than the last, a reader finds one that is there, and none older than
\* what was through when he asked (MeetingStorageManager, UserStorageManager).
THEOREM StoreKeepsPromise ==
  ASSUME NamesDiffer
  PROVE  Spec => PromiseSpec
<1>1. Init => Promise!Init
  <2> SUFFICES ASSUME Init PROVE Promise!Init
    OBVIOUS
  <2>1. Through = [r \in Records |-> 0]
    BY DEF Init, Through, CountedOn
  <2>2. Reads = [w \in Workers |-> None]
    BY DEF Init, Reads, ReadOf, IdleCall
  <2> QED
    BY <2>1, <2>2 DEF Init, Promise!Init
<1>2. /\ SeenInv /\ (transactions \/ FreshInv) /\ TypeOK'
      /\ SeenInv' /\ (transactions \/ FreshInv)'
      /\ [Next]_vars
      => [Promise!Next]_(Promise!vars)
  <2> SUFFICES ASSUME StoreInv, TypeOK', SeenInv', transactions' \/ FreshInv', [Next]_vars
               PROVE  Promise!Next \/ UNCHANGED Promise!vars
    BY DEF StoreInv
  <2>0. UNCHANGED transactions
    BY DEF Next, vars
  <2>1. ASSUME NEW w \in Workers, NEW r \in Records, BeginRead(w, r)
        PROVE  Promise!Next \/ UNCHANGED Promise!vars
    BY <2>0, <2>1, AskStep DEF Promise!Next
  <2>2. ASSUME NEW w \in Workers, NEW r \in Records,
               NEW op \in {"Create", "Update", "Delete"}, BeginWrite(w, op, r)
        PROVE  Promise!Next \/ UNCHANGED Promise!vars
    BY <2>0, <2>2, WriterKeepsPromise
  <2>3. ASSUME NEW w \in Workers, Step(w)
        PROVE  Promise!Next \/ UNCHANGED Promise!vars
    BY <2>0, <2>3, ReaderKeepsPromise, WriterKeepsPromise DEF Step
  <2>4. ASSUME NEW key \in Keys, LockExpires(key) \/ CopyExpires(key)
        PROVE  UNCHANGED Promise!vars
    <3>1. UNCHANGED <<transactions, db, call, settled>>
      BY <2>0, <2>4 DEF LockExpires, CopyExpires
    <3>2. Reads' = Reads /\ Through' = Through
      BY <3>1 DEF Reads, ReadOf, Through, CountedOn
    <3> QED
      BY <3>1, <3>2 DEF Promise!vars
  <2>5. CASE UNCHANGED vars
    BY <2>5 DEF vars, Promise!vars, Reads, ReadOf, Through, CountedOn
  <2> QED
    BY <2>1, <2>2, <2>3, <2>4, <2>5 DEF Next
<1> QED
  BY <1>1, <1>2, SeenCorrect, FreshCorrect, StoreTypeCorrect, PTL
     DEF Spec, PromiseSpec, Promise!Spec
=============================================================================
