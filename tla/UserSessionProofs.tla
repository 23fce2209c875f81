-------------------------- MODULE UserSessionProofs --------------------------
(***************************************************************************)
(* Theorems about UserSession, for any number of users and devices and any *)
(* length of time.                                                         *)
(***************************************************************************)
EXTENDS UserSession, TLAPS

LEMMA Busy ==
  ASSUME TypeOK, NEW d \in Devices, call[d].at # "idle"
  PROVE  call[d] \in Call /\ Prepared(call[d])
<1>1. call[d] \in {IdleCall} \cup {c \in Call : Prepared(c)} /\ call[d] # IdleCall
  BY DEF TypeOK, IdleCall
<1> QED
  BY <1>1

LEMMA CallsType ==
  ASSUME TypeOK, NEW d \in Devices, NEW c, c = IdleCall \/ (c \in Call /\ Prepared(c)),
         call' = [call EXCEPT ![d] = c]
  PROVE  call' \in [Devices -> {IdleCall} \cup {e \in Call : Prepared(e)}]
BY DEF TypeOK

\* What is left of the type invariant where entries stay as they are.
LEMMA GotoType ==
  ASSUME TypeOK, NEW d \in Devices, call[d].at # "idle", NEW label,
         label \in {"store", "clean", "answer", "clear"},
         label = "store" => call[d].op \in Logins /\ call[d].token # None,
         label = "clear" => call[d].op \notin Logins,
         call[d].op # "Other",
         call[d].at # "sign",
         Goto(d, label)
  PROVE  call' \in [Devices -> {IdleCall} \cup {e \in Call : Prepared(e)}]
<1> DEFINE c == [call[d] EXCEPT !.at = label]
<1>1. call[d] \in Call /\ Prepared(call[d])
  BY Busy
<1>2. c \in Call /\ Prepared(c)
  BY <1>1 DEF Call, Prepared, Logins
<1>3. call' = [call EXCEPT ![d] = c]
  BY DEF TypeOK, Goto
<1> QED
  BY <1>2, <1>3, CallsType

LEMMA EntriesType ==
  ASSUME TypeOK, NEW u \in Users, NEW value,
         value = KickOff \/ (value \in Token /\ value.user = u),
         SetEntry(u, value)
  PROVE  /\ entry' \in [Users -> Entry \cup {None}]
         /\ \A v \in Users :
              entry'[v] # None /\ entry'[v].value # KickOff => entry'[v].value.user = v
<1>1. clock + EntryLife \in 0 .. MaxTime + EntryLife
  BY TimeAssumption DEF TypeOK, Times
<1>2. PICK e \in Entry : e = [value |-> value, until |-> clock + EntryLife]
  BY <1>1 DEF Entry
<1>3. e.value = value
  BY <1>2
<1>4. entry' = [entry EXCEPT ![u] = e]
  BY <1>2 DEF SetEntry
<1> QED
  BY <1>3, <1>4 DEF TypeOK

LEMMA LoginType ==
  ASSUME TypeOK, NEW d \in Devices,
         \/ \E u \in Users, op \in {"UserLogin", "AdminLogin"} : BeginLogin(d, op, u)
         \/ SignToken(d) \/ StoreToken(d) \/ Clean(d) \/ Answer(d)
  PROVE  TypeOK'
<1>1. CASE \E u \in Users, op \in {"UserLogin", "AdminLogin"} : BeginLogin(d, op, u)
  <2>1. PICK u \in Users, op \in {"UserLogin", "AdminLogin"} : BeginLogin(d, op, u)
    BY <1>1
  <2> DEFINE c == [at |-> "sign", op |-> op, user |-> u, token |-> None]
  <2>2. c \in Call /\ Prepared(c)
    BY DEF Call, Prepared, Logins
  <2>3. call' = [call EXCEPT ![d] = c]
    BY <2>1 DEF BeginLogin, FirstOfLogin
  <2> QED
    BY <2>1, <2>2, <2>3, CallsType DEF TypeOK, BeginLogin
<1>2. CASE SignToken(d)
  <2>1. call[d] \in Call /\ Prepared(call[d]) /\ call[d].at = "sign"
    BY <1>2, Busy DEF SignToken
  <2>2. PICK t \in Token : t = Signed(call[d].user) /\ t.user = call[d].user
    <3>1. PICK u \in Users : u = call[d].user
      BY <2>1 DEF Call
    <3>2. clock \in Times
      BY DEF TypeOK
    <3>3. Signed(u) \in Token /\ Signed(u).user = u
      BY <3>2 DEF Signed, Token
    <3> QED
      BY <3>1, <3>3
  <2> DEFINE c == [call[d] EXCEPT !.at = "store", !.token = t]
  <2>3. c \in Call /\ Prepared(c)
    BY <2>1, <2>2, NoneAssumption DEF Call, Prepared, Logins
  <2>4. call' = [call EXCEPT ![d] = c]
    BY <1>2, <2>2 DEF TypeOK, SignToken
  <2> QED
    BY <1>2, <2>2, <2>3, <2>4, CallsType DEF TypeOK, SignToken
<1>3. CASE StoreToken(d)
  <2>1. call[d] \in Call /\ Prepared(call[d]) /\ call[d].at = "store"
    BY <1>3, Busy DEF StoreToken
  <2>2. call' \in [Devices -> {IdleCall} \cup {e \in Call : Prepared(e)}]
    <3>1. call[d].op \in Logins /\ call[d].op # "Other" /\ call[d].token # None
      BY <2>1 DEF Call, Prepared, Logins
    <3>2. \E label \in {"clean", "answer"} : Goto(d, label)
      BY <1>3 DEF StoreToken
    <3> QED
      BY <2>1, <3>1, <3>2, GotoType
  <2>3. PICK u \in Users, t \in Token : u = call[d].user /\ t = call[d].token /\ t.user = u
    BY <2>1 DEF Call, Prepared
  <2>4. SetEntry(u, t)
    BY <1>3, <2>3 DEF StoreToken
  <2> QED
    BY <1>3, <2>2, <2>3, <2>4, EntriesType DEF TypeOK, StoreToken
<1>4. CASE Clean(d)
  <2>1. CASE Goto(d, "answer")
    <3>1. call[d].at = "clean" /\ call[d].op # "Other"
      BY <1>4, Busy DEF Clean, Prepared
    <3> QED
      BY <1>4, <2>1, <3>1, GotoType DEF TypeOK, Clean
  <2>2. CASE Return(d)
    BY <1>4, <2>2, CallsType DEF TypeOK, Clean, Return
  <2> QED
    BY <1>4, <2>1, <2>2 DEF Clean
<1>5. CASE Answer(d)
  <2>1. call[d].token \in Token
    BY <1>5, Busy DEF Answer, Call, Prepared
  <2>2. held' \in [Devices -> Token \cup {None}] /\ told' \subseteq Devices
    BY <1>5, <2>1 DEF TypeOK, Answer
  <2> QED
    BY <1>5, <2>2, CallsType DEF TypeOK, Answer, Return
<1> QED
  BY <1>1, <1>2, <1>3, <1>4, <1>5

LEMMA RequestType ==
  ASSUME TypeOK, NEW d \in Devices,
         \/ \E op \in {"UserLogout", "Other"} : BeginRequest(d, op)
         \/ CheckToken(d) \/ ClearToken(d) \/ Fail(d)
  PROVE  TypeOK'
<1>1. CASE \E op \in {"UserLogout", "Other"} : BeginRequest(d, op)
  <2>1. PICK op \in {"UserLogout", "Other"} : BeginRequest(d, op)
    BY <1>1
  <2>2. PICK t \in Token : t = held[d]
    BY <2>1 DEF BeginRequest, TypeOK
  <2> DEFINE c == [at |-> "check", op |-> op, user |-> t.user, token |-> t]
  <2>3. c \in Call /\ Prepared(c)
    BY NoneAssumption DEF Call, Prepared, Logins, Token
  <2>4. call' = [call EXCEPT ![d] = c]
    BY <2>1, <2>2 DEF BeginRequest
  <2> QED
    BY <2>1, <2>3, <2>4, CallsType DEF TypeOK, BeginRequest
<1>2. CASE CheckToken(d)
  <2>1. call[d].at = "check" /\ call[d].op \notin Logins
    BY <1>2, Busy DEF CheckToken, Prepared, Logins
  <2>2. CASE call[d].op = "UserLogout" /\ Goto(d, "clear")
    BY <1>2, <2>1, <2>2, GotoType DEF TypeOK, CheckToken
  <2>3. CASE Return(d)
    BY <1>2, <2>3, CallsType DEF TypeOK, CheckToken, Return
  <2> QED
    BY <1>2, <2>2, <2>3 DEF CheckToken
<1>3. CASE ClearToken(d)
  <2>1. call[d] \in Call /\ Prepared(call[d]) /\ call[d].at = "clear"
    BY <1>3, Busy DEF ClearToken
  <2>2. call' \in [Devices -> {IdleCall} \cup {e \in Call : Prepared(e)}]
    <3>1. call[d].op # "Other"
      BY <2>1 DEF Prepared
    <3> QED
      BY <1>3, <2>1, <3>1, GotoType DEF ClearToken
  <2>3. PICK u \in Users : u = call[d].user
    BY <2>1 DEF Call
  <2>4. entry' = [entry EXCEPT ![u] = None]
    BY <1>3, <2>3 DEF ClearToken, Removed
  <2> QED
    BY <1>3, <2>2, <2>4 DEF TypeOK, ClearToken
<1>4. CASE Fail(d)
  BY <1>4, CallsType DEF TypeOK, Fail, Return
<1> QED
  BY <1>1, <1>2, <1>3, <1>4

\* An entry in Redis holds a token of its own user, and no login stores or answers
\* a token it has not signed (UserLogin, AdminLogin), for any number of devices.
THEOREM SessionTypeCorrect == Spec => []TypeOK
<1>1. Init => TypeOK
  BY TimeAssumption DEF Init, TypeOK, Times
<1>2. TypeOK /\ [Next]_vars => TypeOK'
  <2> SUFFICES ASSUME TypeOK, [Next]_vars
               PROVE  TypeOK'
    OBVIOUS
  <2>1. ASSUME NEW d \in Devices, NEW u \in Users, NEW op \in {"UserLogin", "AdminLogin"},
               BeginLogin(d, op, u)
        PROVE  TypeOK'
    BY <2>1, LoginType
  <2>2. ASSUME NEW d \in Devices, NEW op \in {"UserLogout", "Other"}, BeginRequest(d, op)
        PROVE  TypeOK'
    BY <2>2, RequestType
  <2>3. ASSUME NEW d \in Devices, Step(d)
        PROVE  TypeOK'
    BY <2>3, LoginType, RequestType DEF Step
  <2>4. ASSUME NEW u \in Users, ClearUserToken(u)
        PROVE  TypeOK'
    BY <2>4, EntriesType DEF TypeOK, ClearUserToken
  <2>5. CASE Tick
    <3>1. entry' \in [Users -> Entry \cup {None}]
          /\ \A u \in Users : entry'[u] \in {None, entry[u]}
      BY <2>5 DEF TypeOK, Tick
    <3>2. clock' \in Times
      BY <2>5, TimeAssumption DEF TypeOK, Tick, Times
    <3> QED
      BY <2>5, <3>1, <3>2 DEF TypeOK, Tick
  <2>6. CASE UNCHANGED vars
    BY <2>6 DEF vars, TypeOK
  <2> QED
    BY <2>1, <2>2, <2>3, <2>4, <2>5, <2>6 DEF Next
<1> QED
  BY <1>1, <1>2, PTL DEF Spec

-----------------------------------------------------------------------------
(* One session for each user, where he does not log in twice in one second. *)

\* A login that has signed its token.
Carries(d) == call[d].op \in Logins /\ call[d].at # "sign"

\* The token in the entry is the one the device was given.
Current(d) ==
  /\ held[d] # None
  /\ entry[held[d].user] # None
  /\ entry[held[d].user].value = held[d]

\* Every token was signed once, for one device.
TokensAreSigned ==
  \A d \in Devices :
    /\ held[d] # None => held[d] \in issued
    /\ Carries(d) => call[d].token \in issued

TokensDiffer ==
  \A d, e \in Devices :
    /\ Carries(d) => call[d].token # held[e]
    /\ Carries(d) /\ Carries(e) /\ d # e => call[d].token # call[e].token
    /\ held[d] # None /\ d # e => held[d] # held[e]

\* Who is logging out has his own token to do it with, and has removed it.
LeavingInv ==
  \A d \in Devices :
    /\ call[d].op \in {"UserLogout", "Other"} => call[d].token = held[d]
    /\ call[d].op = "UserLogout" /\ call[d].at \in {"clean", "answer"} => ~ Current(d)

ToldInv == \A d \in told : ~ Current(d)

SessionInv == TypeOK /\ TokensAreSigned /\ TokensDiffer /\ LeavingInv /\ ToldInv

\* A step of a device that signs nothing, stores nothing and gives it no token.
LEMMA SessionFrame ==
  ASSUME SessionInv, TypeOK', UNCHANGED <<held, issued>>, NEW d \in Devices,
         \A e \in Devices \ {d} : call'[e] = call[e],
         \A u \in Users : entry'[u] = None \/ entry'[u] = entry[u],
         Carries(d)' => Carries(d) /\ call'[d].token = call[d].token,
         call'[d].op \in {"UserLogout", "Other"} => call'[d].token = held[d],
         call'[d].op = "UserLogout" /\ call'[d].at \in {"clean", "answer"} => ~ Current(d)',
         \A e \in told' : e \in told \/ ~ Current(e)'
  PROVE  SessionInv'
<1>1. \A e \in Devices : Carries(e)' => Carries(e) /\ call'[e].token = call[e].token
  BY DEF Carries
<1>2. TokensAreSigned' /\ TokensDiffer'
  BY <1>1 DEF SessionInv, TokensAreSigned, TokensDiffer
<1>3. \A e \in Devices : held[e] # None => held[e].user \in Users
  BY DEF SessionInv, TypeOK, Token
<1>4. \A e \in Devices : ~ Current(e) => ~ Current(e)'
  BY <1>3 DEF Current
<1>5. LeavingInv'
  BY <1>4 DEF SessionInv, LeavingInv
<1>6. ToldInv'
  BY <1>4 DEF SessionInv, ToldInv, TypeOK
<1> QED
  BY <1>2, <1>5, <1>6 DEF SessionInv

LEMMA SessionLogin ==
  ASSUME SessionInv, TypeOK', ~ SameSecond, NEW d \in Devices,
         \/ \E u \in Users, op \in {"UserLogin", "AdminLogin"} : BeginLogin(d, op, u)
         \/ SignToken(d) \/ StoreToken(d) \/ Clean(d) \/ Answer(d)
  PROVE  SessionInv'
<1>0. /\ call \in [Devices -> {IdleCall} \cup {c \in Call : Prepared(c)}]
      /\ held \in [Devices -> Token \cup {None}]
      /\ entry \in [Users -> Entry \cup {None}]
      /\ told \subseteq Devices
      /\ \A e \in Devices : Carries(e) => call[e].token \in Token
      /\ \A e \in Devices : held[e] # None => held[e].user \in Users
  <2>1. ASSUME NEW e \in Devices, Carries(e) PROVE call[e].token \in Token
    <3>1. call[e] # IdleCall
      BY <2>1 DEF Carries, IdleCall, Logins
    <3>2. call[e] \in Call /\ Prepared(call[e])
      BY <3>1 DEF SessionInv, TypeOK
    <3> QED
      BY <2>1, <3>2 DEF Carries, Call, Prepared
  <2> QED
    BY <2>1 DEF SessionInv, TypeOK, Token
<1>1. CASE \E u \in Users, op \in {"UserLogin", "AdminLogin"} : BeginLogin(d, op, u)
  <2>1. PICK u \in Users, op \in {"UserLogin", "AdminLogin"} : BeginLogin(d, op, u)
    BY <1>1
  <2>2. /\ call'[d].at = "sign" /\ call'[d].op = op
        /\ \A e \in Devices \ {d} : call'[e] = call[e]
    BY <1>0, <2>1 DEF BeginLogin, FirstOfLogin
  <2> QED
    BY <2>1, <2>2, SessionFrame DEF BeginLogin, Carries
<1>2. CASE SignToken(d)
  <2>1. call[d].at = "sign" /\ call[d].op \in Logins
    BY <1>2, Busy DEF SignToken, SessionInv, Call, Prepared, Logins
  <2>2. PICK t : /\ t \notin issued /\ issued' = issued \cup {t}
                 /\ call' = [call EXCEPT ![d].at = "store", ![d].token = t]
    BY <1>2 DEF SignToken
  <2>3. /\ call'[d].at = "store" /\ call'[d].op = call[d].op /\ call'[d].token = t
        /\ \A e \in Devices \ {d} : call'[e] = call[e]
    BY <1>0, <2>1, <2>2, Busy DEF SessionInv, Call
  <2>4. UNCHANGED <<held, entry, told>>
    BY <1>2 DEF SignToken
  <2>5. /\ ~ Carries(d) /\ Carries(d)'
        /\ \A e \in Devices \ {d} : (Carries(e)' <=> Carries(e)) /\ call'[e].token = call[e].token
    BY <2>1, <2>3 DEF Carries, Logins
  <2>6. TokensAreSigned'
    <3>1. issued \subseteq issued' /\ t \in issued'
      BY <2>2
    <3>2. ASSUME NEW e \in Devices, held'[e] # None PROVE held'[e] \in issued'
      BY <2>4, <3>1, <3>2 DEF SessionInv, TokensAreSigned
    <3>3. ASSUME NEW e \in Devices, Carries(e)' PROVE call'[e].token \in issued'
      BY <2>3, <2>5, <3>1, <3>3 DEF SessionInv, TokensAreSigned
    <3> QED
      BY <3>2, <3>3 DEF TokensAreSigned
  <2>7. \A e \in Devices : t # held[e]
    BY <1>0, <2>2, <1>2, NoneAssumption DEF SessionInv, TokensAreSigned, TypeOK, SignToken
  <2>8. \A e \in Devices : Carries(e) => t # call[e].token
    BY <2>2 DEF SessionInv, TokensAreSigned
  <2>9. \A e \in Devices : Current(e)' <=> Current(e)
    BY <2>4 DEF Current
  <2>10. LeavingInv' /\ ToldInv'
    BY <2>1, <2>3, <2>4, <2>9 DEF SessionInv, LeavingInv, ToldInv, Logins, TypeOK
  <2>11. TokensDiffer'
    <3>1. ASSUME NEW e \in Devices, Carries(e)', NEW f \in Devices
          PROVE  call'[e].token # held[f]
      <4>1. CASE e = d
        BY <2>3, <2>7, <4>1
      <4>2. CASE e # d
        BY <2>5, <3>1, <4>2 DEF SessionInv, TokensDiffer
      <4> QED
        BY <4>1, <4>2
    <3>2. ASSUME NEW e \in Devices, NEW f \in Devices, Carries(e)', Carries(f)', e # f
          PROVE  call'[e].token # call'[f].token
      <4>1. CASE e = d
        BY <2>3, <2>5, <2>8, <3>2, <4>1
      <4>2. CASE f = d
        BY <2>3, <2>5, <2>8, <3>2, <4>2
      <4>3. CASE e # d /\ f # d
        BY <2>5, <3>2, <4>3 DEF SessionInv, TokensDiffer
      <4> QED
        BY <4>1, <4>2, <4>3
    <3> QED
      BY <2>4, <3>1, <3>2 DEF SessionInv, TokensDiffer
  <2> QED
    BY <2>6, <2>10, <2>11 DEF SessionInv
<1>3. CASE StoreToken(d)
  <2>1. /\ call[d].at = "store" /\ call[d].op \in Logins /\ call[d].user \in Users
        /\ call[d].token \in Token /\ call[d].token.user = call[d].user
    BY <1>3, Busy DEF StoreToken, SessionInv, Call, Prepared, Logins
  <2>2. /\ call'[d].at \in {"clean", "answer"} /\ call'[d].op = call[d].op
        /\ call'[d].token = call[d].token
        /\ \A e \in Devices \ {d} : call'[e] = call[e]
    BY <1>0, <1>3, <2>1, Busy DEF StoreToken, Goto, SessionInv, Call
  <2>3. UNCHANGED <<held, issued, told>>
    BY <1>3 DEF StoreToken
  <2>4. \A e \in Devices : (Carries(e)' <=> Carries(e)) /\ call'[e].token = call[e].token
    BY <2>1, <2>2 DEF Carries
  <2>5. TokensAreSigned' /\ TokensDiffer'
    BY <2>3, <2>4 DEF SessionInv, TokensAreSigned, TokensDiffer
  <2>6. /\ entry'[call[d].user].value = call[d].token
        /\ \A u \in Users \ {call[d].user} : entry'[u] = entry[u]
    BY <1>0, <1>3, <2>1 DEF StoreToken, SetEntry
  <2>7. \A e \in Devices : call[d].token # held[e]
    BY <2>1 DEF SessionInv, TokensDiffer, Carries
  <2>8. \A e \in Devices : ~ Current(e) => ~ Current(e)'
    BY <1>0, <2>3, <2>6, <2>7 DEF Current
  <2>9. LeavingInv' /\ ToldInv'
    BY <1>0, <2>1, <2>2, <2>3, <2>8 DEF SessionInv, LeavingInv, ToldInv, Logins
  <2> QED
    BY <2>5, <2>9 DEF SessionInv
<1>4. CASE Clean(d)
  <2>1. call[d].at = "clean" /\ call[d] \in Call /\ UNCHANGED <<entry, held, issued, told>>
    BY <1>4, Busy DEF Clean, SessionInv
  <2>2. CASE Goto(d, "answer")
    <3>1. /\ call'[d].at = "answer" /\ call'[d].op = call[d].op
          /\ call'[d].token = call[d].token
          /\ \A e \in Devices \ {d} : call'[e] = call[e]
      BY <1>0, <2>1, <2>2 DEF Goto, Call
    <3>2. call'[d].op = "UserLogout" => ~ Current(d)'
      BY <2>1, <3>1 DEF SessionInv, LeavingInv, Current
    <3>3. call'[d].op \in {"UserLogout", "Other"} => call'[d].token = held[d]
      BY <3>1 DEF SessionInv, LeavingInv
    <3> QED
      BY <1>0, <2>1, <3>1, <3>2, <3>3, SessionFrame DEF Carries
  <2>3. CASE Return(d)
    <3>1. /\ call'[d].at = "idle" /\ call'[d].op = "none"
          /\ \A e \in Devices \ {d} : call'[e] = call[e]
      BY <1>0, <2>3 DEF Return, IdleCall
    <3> QED
      BY <2>1, <3>1, SessionFrame DEF Carries, Logins
  <2> QED
    BY <1>4, <2>2, <2>3 DEF Clean
<1>5. CASE Answer(d)
  <2>1. /\ call[d].at = "answer" /\ call[d] \in Call /\ Prepared(call[d])
        /\ UNCHANGED <<entry, issued>>
    BY <1>5, Busy DEF Answer, SessionInv
  <2>2. /\ call'[d].at = "idle" /\ call'[d].op = "none"
        /\ \A e \in Devices \ {d} : call'[e] = call[e]
    BY <1>0, <1>5 DEF Answer, Return, IdleCall
  <2>3. CASE call[d].op = "UserLogout"
    <3>1. UNCHANGED held /\ told' = told \cup {d}
      BY <1>5, <2>3 DEF Answer
    <3>2. ~ Current(d)'
      BY <2>1, <2>3, <3>1 DEF SessionInv, LeavingInv, Current
    <3> QED
      BY <2>1, <2>2, <3>1, <3>2, SessionFrame DEF Carries, Logins
  <2>4. CASE call[d].op # "UserLogout"
    <3>1. held' = [held EXCEPT ![d] = call[d].token] /\ told' = told \ {d}
      BY <1>5, <2>4 DEF Answer
    <3>2. Carries(d)
      <4>1. call[d].op \in Logins
        BY <2>1, <2>4 DEF Prepared, Call
      <4> QED
        BY <2>1, <4>1 DEF Carries
    <3>3. /\ held'[d] = call[d].token /\ call[d].token \in Token
          /\ \A e \in Devices \ {d} : held'[e] = held[e]
      BY <1>0, <3>1, <3>2
    <3>4. /\ ~ Carries(d)'
          /\ \A e \in Devices \ {d} : (Carries(e)' <=> Carries(e)) /\ call'[e].token = call[e].token
      BY <2>2 DEF Carries, Logins
    <3>5. TokensAreSigned'
      BY <2>1, <3>2, <3>3, <3>4 DEF SessionInv, TokensAreSigned
    <3>6. TokensDiffer'
      BY <3>2, <3>3, <3>4 DEF SessionInv, TokensDiffer
    <3>7. \A e \in Devices \ {d} : ~ Current(e) => ~ Current(e)'
      BY <2>1, <3>3 DEF Current
    <3>8. LeavingInv'
      BY <2>2, <3>3, <3>7 DEF SessionInv, LeavingInv
    <3>9. ToldInv'
      BY <1>0, <3>1, <3>7 DEF SessionInv, ToldInv
    <3> QED
      BY <3>5, <3>6, <3>8, <3>9 DEF SessionInv
  <2> QED
    BY <2>3, <2>4
<1> QED
  BY <1>1, <1>2, <1>3, <1>4, <1>5

LEMMA SessionRequest ==
  ASSUME SessionInv, TypeOK', NEW d \in Devices,
         \/ \E op \in {"UserLogout", "Other"} : BeginRequest(d, op)
         \/ CheckToken(d) \/ ClearToken(d) \/ Fail(d)
  PROVE  SessionInv'
<1>0. /\ call \in [Devices -> {IdleCall} \cup {c \in Call : Prepared(c)}]
      /\ held \in [Devices -> Token \cup {None}]
      /\ entry \in [Users -> Entry \cup {None}]
  BY DEF SessionInv, TypeOK
<1>1. CASE \E op \in {"UserLogout", "Other"} : BeginRequest(d, op)
  <2>1. PICK op \in {"UserLogout", "Other"} : BeginRequest(d, op)
    BY <1>1
  <2>2. /\ call'[d].at = "check" /\ call'[d].op = op /\ call'[d].token = held[d]
        /\ \A e \in Devices \ {d} : call'[e] = call[e]
    BY <1>0, <2>1 DEF BeginRequest
  <2> QED
    BY <2>1, <2>2, SessionFrame DEF BeginRequest, Carries, Logins
<1>2. CASE CheckToken(d)
  <2>1. /\ call[d].at = "check" /\ call[d] \in Call /\ call[d].op \in {"UserLogout", "Other"}
        /\ call[d].token \in Token /\ call[d].token = held[d]
        /\ UNCHANGED <<entry, held, issued>>
    BY <1>2, Busy DEF CheckToken, SessionInv, Call, Prepared, Logins, LeavingInv
  <2>2. /\ call'[d].at \in {"idle", "clear"}
        /\ call'[d].op = "none" \/ (call'[d].op = call[d].op /\ call'[d].token = call[d].token)
        /\ \A e \in Devices \ {d} : call'[e] = call[e]
    <3>1. CASE Goto(d, "clear")
      BY <1>0, <2>1, <3>1 DEF Goto, Call
    <3>2. CASE Return(d)
      BY <1>0, <3>2 DEF Return, IdleCall
    <3> QED
      BY <1>2, <3>1, <3>2 DEF CheckToken
  <2>3. Verdict(held[d]) = "login again" => ~ Current(d)
    BY <2>1 DEF Verdict, GetUserToken, Matches, Current
  <2>4. \A e \in told' : e \in told \/ ~ Current(e)'
    BY <1>2, <2>1, <2>3 DEF CheckToken, Current
  <2> QED
    BY <2>1, <2>2, <2>4, SessionFrame DEF Carries, Logins
<1>3. CASE ClearToken(d)
  <2>1. /\ call[d].at = "clear" /\ call[d] \in Call /\ call[d].op \in {"UserLogout", "Other"}
        /\ call[d].token \in Token /\ call[d].token = held[d]
        /\ call[d].user \in Users /\ call[d].token.user = call[d].user
        /\ UNCHANGED <<held, issued, told>>
    BY <1>3, Busy DEF ClearToken, SessionInv, Call, Prepared, Logins, LeavingInv
  <2>2. /\ call'[d].at = "clean" /\ call'[d].op = call[d].op /\ call'[d].token = call[d].token
        /\ \A e \in Devices \ {d} : call'[e] = call[e]
    BY <1>0, <1>3, <2>1 DEF ClearToken, Goto, Call
  <2>3. /\ entry'[call[d].user] = None
        /\ \A u \in Users : entry'[u] = None \/ entry'[u] = entry[u]
    BY <1>0, <1>3, <2>1 DEF ClearToken, Removed
  <2>4. ~ Current(d)'
    BY <2>1, <2>3 DEF Current
  <2> QED
    BY <2>1, <2>2, <2>3, <2>4, SessionFrame DEF Carries, Logins
<1>4. CASE Fail(d)
  <2>1. /\ call'[d].at = "idle" /\ call'[d].op = "none"
        /\ \A e \in Devices \ {d} : call'[e] = call[e]
    BY <1>0, <1>4 DEF Fail, Return, IdleCall
  <2> QED
    BY <1>4, <2>1, SessionFrame DEF Fail, Carries, Logins
<1> QED
  BY <1>1, <1>2, <1>3, <1>4

LEMMA SessionOther ==
  ASSUME SessionInv, TypeOK', Tick \/ (\E u \in Users : ClearUserToken(u))
  PROVE  SessionInv'
<1>1. UNCHANGED <<held, call, issued, told>>
  BY DEF Tick, ClearUserToken
<1>2. \A e \in Devices : Current(e)' => Current(e)
  <2> SUFFICES ASSUME NEW e \in Devices, Current(e)'
               PROVE  Current(e)
    OBVIOUS
  <2>1. held[e] \in Token /\ held[e].user \in Users
    BY <1>1 DEF SessionInv, TypeOK, Current, Token
  <2>2. CASE Tick
    BY <1>1, <2>1, <2>2 DEF Tick, Current
  <2>3. CASE \E u \in Users : ClearUserToken(u)
    <3>1. PICK u \in Users : ClearUserToken(u)
      BY <2>3
    <3>2. /\ entry'[u].value = KickOff
          /\ \A v \in Users \ {u} : entry'[v] = entry[v]
      BY <3>1 DEF ClearUserToken, SetEntry, SessionInv, TypeOK
    <3> QED
      BY <1>1, <2>1, <3>2, NoneAssumption DEF Current
  <2> QED
    BY <2>2, <2>3
<1>3. TokensAreSigned' /\ TokensDiffer'
  BY <1>1 DEF SessionInv, TokensAreSigned, TokensDiffer, Carries
<1>4. LeavingInv' /\ ToldInv'
  BY <1>1, <1>2 DEF SessionInv, LeavingInv, ToldInv, TypeOK
<1> QED
  BY <1>3, <1>4 DEF SessionInv

LEMMA SessionInductive ==
  ASSUME ~ SameSecond
  PROVE  Spec => []SessionInv
<1>1. Init /\ TypeOK => SessionInv
  BY DEF Init, SessionInv, TokensAreSigned, TokensDiffer, LeavingInv, ToldInv,
         Carries, IdleCall, Logins
<1>2. SessionInv /\ TypeOK' /\ [Next]_vars => SessionInv'
  <2> SUFFICES ASSUME SessionInv, TypeOK', [Next]_vars
               PROVE  SessionInv'
    OBVIOUS
  <2>1. ASSUME NEW d \in Devices, NEW u \in Users, NEW op \in {"UserLogin", "AdminLogin"},
               BeginLogin(d, op, u)
        PROVE  SessionInv'
    BY <2>1, SessionLogin
  <2>2. ASSUME NEW d \in Devices, NEW op \in {"UserLogout", "Other"}, BeginRequest(d, op)
        PROVE  SessionInv'
    BY <2>2, SessionRequest
  <2>3. ASSUME NEW d \in Devices, Step(d)
        PROVE  SessionInv'
    BY <2>3, SessionLogin, SessionRequest DEF Step
  <2>4. CASE Tick \/ (\E u \in Users : ClearUserToken(u))
    BY <2>4, SessionOther
  <2>5. CASE UNCHANGED vars
    BY <2>5 DEF vars, SessionInv, TokensAreSigned, TokensDiffer, LeavingInv, ToldInv,
                Carries, Current
  <2> QED
    BY <2>1, <2>2, <2>3, <2>4, <2>5 DEF Next
<1> QED
  BY <1>1, <1>2, SessionTypeCorrect, PTL DEF Spec

\* A user has one device that is let in, whatever logs in, logs out, fails and
\* expires at the same time (UserLogin, isValidToken), if no two tokens of a user
\* are signed in one second.
THEOREM OneSessionOnly ==
  ASSUME ~ SameSecond
  PROVE  Spec => []OneSession
<1>1. SessionInv => OneSession
  BY DEF SessionInv, TokensDiffer, OneSession, Accepted, Verdict, GetUserToken, Matches
<1> QED
  BY <1>1, SessionInductive, PTL

\* Who was told to log in again, or has logged out, is not let in before he has
\* (isValidToken, UserLogout): no login under way elsewhere revives his token.
THEOREM ToldToLogIn ==
  ASSUME ~ SameSecond
  PROVE  Spec => []LoginAgain
<1>1. SessionInv => LoginAgain
  <2> SUFFICES ASSUME SessionInv, NEW d \in told, Accepted(d)
               PROVE  FALSE
    BY DEF LoginAgain
  <2>1. entry[held[d].user] # None /\ entry[held[d].user].value = held[d]
    BY DEF Accepted, Verdict, GetUserToken, Matches
  <2> QED
    BY <2>1 DEF SessionInv, ToldInv, Current, Accepted
<1> QED
  BY <1>1, SessionInductive, PTL
=============================================================================
