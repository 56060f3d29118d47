--------------------------- MODULE Accounts_proofs ---------------------------
(***************************************************************************)
(* What TLAPS proves of Accounts for every set of accounts, sessions and   *)
(* requests, every limit, time-out and number of time steps.               *)
(***************************************************************************)
EXTENDS Accounts, FiniteSetTheorems, TLAPS

-----------------------------------------------------------------------------
(* The inductive invariant                                                 *)

(* A request that creates an account was let in by an administrator; one   *)
(* that deletes an account is not about an administrator's.                *)
CreatesBeside ==
    \A r \in Requests : req[r].kind = "create" => Live # {}

DeleteSpares ==
    \A r \in Requests :
        req[r].kind = "delete" =>
            req[r].user \in spent /\ ~users[req[r].user].admin

Founded == TypeOK /\ OneAdmin /\ CreatesBeside /\ DeleteSpares

-----------------------------------------------------------------------------
(* Type correctness                                                        *)

LEMMA AgesAreBounded ==
    /\ 0 \in Ages
    /\ \A age \in Ages : Older(age) \in Ages
  BY IdleAssumption DEF Ages, MaxAge, Older

LEMMA RowTypes ==
    ASSUME NEW exists \in BOOLEAN, NEW admin \in BOOLEAN
    PROVE  LET row == Unenrolled(exists, admin)
           IN  row \in RowType /\ row.exists = exists /\ row.admin = admin
<1>1. 0 \in 0..MaxStep
  BY BoundsAssumption
<1>2. QED
  BY <1>1 DEF Unenrolled, RowType

LEMMA TakenTypes ==
    ASSUME TypeOK, NEW u \in Users, NEW k \in Secrets, NEW c \in Codes, Takes(u, k, c)
    PROVE  taken' \in [Users -> SUBSET (Secrets \X Codes)]
  BY DEF TypeOK, Takes

LEMMA InitTypes == Init => TypeOK
<1> SUFFICES ASSUME Init
             PROVE  TypeOK
  OBVIOUS
<1>1. NoRow \in RowType /\ ~NoRow.exists
  BY RowTypes DEF NoRow
<1>2. NoOne \in SessionType /\ Waiting \in RequestType
  BY AgesAreBounded DEF NoOne, SessionType, Waiting, RequestType
<1>3. QED
  BY <1>1, <1>2 DEF Init, TypeOK, NoOffline, Live

(* What opening, touching and dropping sessions leave of their table.      *)
LEMMA OpensKeeps ==
    ASSUME TypeOK, NEW u \in Users, Opens(u)
    PROVE  /\ sessions' \in [Sessions -> SessionType]
           /\ \A s \in Sessions : sessions'[s].user = u \/ sessions'[s] = sessions[s]
  BY DEF Opens, TypeOK, SessionType

LEMMA TouchedKeeps ==
    ASSUME TypeOK, NEW s \in Sessions
    PROVE  /\ Touched(s) \in [Sessions -> SessionType]
           /\ Touched(s)[s].user = sessions[s].user
           /\ \A t \in Sessions \ {s} : Touched(s)[t] = sessions[t]
  BY AgesAreBounded DEF Touched, TypeOK, SessionType

LEMMA SignedOutKeeps ==
    ASSUME TypeOK, NEW u
    PROVE  /\ SignedOut(u) \in [Sessions -> SessionType]
           /\ \A s \in Sessions : SignedOut(u)[s] = NoOne
                                  \/ (SignedOut(u)[s] = sessions[s] /\ sessions[s].user # u)
  BY AgesAreBounded DEF SignedOut, TypeOK, SessionType, NoOne

LEMMA ClearedKeeps ==
    ASSUME TypeOK, NEW u
    PROVE  /\ Cleared(u) \in [Users -> RowType]
           /\ \A v \in Users : /\ Cleared(u)[v].exists = users[v].exists
                               /\ Cleared(u)[v].admin = users[v].admin
                               /\ ~users[v].exists => Cleared(u)[v] = users[v]
<1>1. CASE u \notin Live
  BY <1>1 DEF Cleared, TypeOK
<1>2. CASE u \in Live
  <2>1. u \in Users /\ users[u].exists /\ users[u].admin \in BOOLEAN /\ users \in [Users -> RowType]
    BY <1>2 DEF TypeOK, Live, RowType
  <2>2. Cleared(u) = [users EXCEPT ![u] = Unenrolled(TRUE, users[u].admin)]
    BY <1>2, <2>1 DEF Cleared
  <2>3. QED
    BY <2>1, <2>2, RowTypes
<1>3. QED
  BY <1>1, <1>2

(* The three handlers that write one row, and how they find it.            *)
LEMMA RowWritten ==
    ASSUME TypeOK, NEW u \in Live, NEW row \in RowType,
           row.exists = TRUE, row.admin = users[u].admin, users' = [users EXCEPT ![u] = row]
    PROVE  /\ users' \in [Users -> RowType]
           /\ Live' = Live
           /\ users'[u] = row
           /\ \A v \in Users \ {u} : users'[v] = users[v]
           /\ \A v \in Users : /\ users'[v].exists = users[v].exists
                               /\ users'[v].admin = users[v].admin
<1>1. u \in Users /\ users[u].exists /\ users \in [Users -> RowType]
  BY DEF TypeOK, Live
<1>2. /\ users' \in [Users -> RowType]
      /\ users'[u] = row
      /\ \A v \in Users \ {u} : users'[v] = users[v]
  BY <1>1
<1>3. \A v \in Users : users'[v].exists = users[v].exists /\ users'[v].admin = users[v].admin
  <2>1. users[u].exists = TRUE
    BY <1>1 DEF RowType
  <2>2. QED
    BY <1>2, <2>1
<1>4. Live' = Live
  BY <1>3 DEF Live
<1>5. QED
  BY <1>2, <1>3, <1>4

(* The row a code leaves.                                                  *)
RowForCode(row, u, c) ==
    /\ row.exists = TRUE /\ row.admin = users[u].admin
    /\ row.secret = users[u].secret /\ row.last = c
    /\ users' = [users EXCEPT ![u] = row]

LEMMA CodeWrites ==
    ASSUME TypeOK, NEW r \in Requests, NEW c \in Codes, NEW trust, LoginByCode(r, c, trust)
    PROVE  LET u == req[r].user
           IN  /\ u \in Live /\ users[u].last < c /\ req[r].secret \in Secrets
               /\ Takes(u, req[r].secret, c)
               /\ \E row \in RowType : RowForCode(row, u, c)
<1> DEFINE u == req[r].user
<1>1. u \in Live /\ users[u].last < c /\ req[r].secret \in Secrets
  BY DEF LoginByCode, Consumable, TypeOK, RequestType
<1>2. users[u] \in RowType /\ users[u].exists
  BY <1>1 DEF Live, TypeOK
<1>3. c \in 0..MaxStep
  BY BoundsAssumption DEF Codes
<1> DEFINE row == [users[u] EXCEPT !.last = c]
<1>4. row \in RowType /\ RowForCode(row, u, c)
  BY <1>1, <1>2, <1>3 DEF LoginByCode, RowType, RowForCode
<1>5. Takes(u, req[r].secret, c)
  BY DEF LoginByCode
<1>6. QED
  BY <1>1, <1>4, <1>5

LEMMA SetupWrites ==
    ASSUME TypeOK, NEW r \in Requests, SetupEnds(r), ~UNCHANGED <<users, taken>>
    PROVE  LET u == req[r].user
           IN  /\ u \in Live
               /\ \E k \in Secrets :
                     LET row == [users[u] EXCEPT !.secret = k]
                     IN  /\ k # users[u].secret
                         /\ row \in RowType /\ row.exists = TRUE
                         /\ row.admin = users[u].admin /\ row.secret = k
                         /\ row.last = users[u].last
                         /\ users' = [users EXCEPT ![u] = row]
                         /\ taken' = [taken EXCEPT ![u] = {code \in @ : code[1] # k}]
<1> DEFINE u == req[r].user
<1>1. u \in Live
  BY DEF SetupEnds
<1>2. users[u] \in RowType /\ users[u].exists
  BY <1>1 DEF Live, TypeOK
<1>3. PICK k \in Unread(u) : /\ users' = [users EXCEPT ![u].secret = k]
                             /\ taken' = [taken EXCEPT ![u] = {code \in @ : code[1] # k}]
  BY DEF SetupEnds
<1>4. k \in Secrets /\ k # users[u].secret
  BY <1>3 DEF Unread
<1>5. QED
  BY <1>1, <1>2, <1>3, <1>4 DEF RowType

LEMMA ConfirmWrites ==
    ASSUME TypeOK, NEW r \in Requests, NEW c \in Codes, ConfirmEnds(r, c),
           ~UNCHANGED <<users, taken>>
    PROVE  LET u == req[r].user
           IN  /\ u \in Live /\ users[u].last < c /\ req[r].secret \in Secrets
               /\ Takes(u, req[r].secret, c)
               /\ \E row \in RowType : RowForCode(row, u, c)
<1> DEFINE u == req[r].user
<1>1. u \in Live /\ users[u].last < c /\ req[r].secret \in Secrets
      /\ users' = [users EXCEPT ![u].last = c, ![u].confirmed = TRUE]
      /\ Takes(u, req[r].secret, c)
  BY DEF ConfirmEnds, Consumable, TypeOK, RequestType
<1>2. users[u] \in RowType /\ users[u].exists /\ u \in Users /\ users \in [Users -> RowType]
  BY <1>1 DEF Live, TypeOK
<1>3. c \in 0..MaxStep
  BY BoundsAssumption DEF Codes
<1> DEFINE row == [users[u] EXCEPT !.last = c, !.confirmed = TRUE]
<1>4. users' = [users EXCEPT ![u] = row]
  BY <1>1, <1>2 DEF RowType
<1>5. row \in RowType /\ RowForCode(row, u, c)
  BY <1>2, <1>3, <1>4 DEF RowType, RowForCode
<1>6. QED
  BY <1>1, <1>5

LEMMA RequestStepTypes ==
    ASSUME TypeOK, NEW r \in Requests, RequestSteps(r)
    PROVE  TypeOK'
<1> USE SentinelAssumption, BoundsAssumption DEF tables, Answers
<1>1. Waiting \in RequestType /\ \A u \in Users \union {NoUser} : Asks("admitted", u) \in RequestType
  BY DEF Waiting, RequestType, Asks
<1>2. ASSUME NEW u \in Users, RegisterEnds(r, u)
      PROVE  TypeOK'
  <2>1. NewRow(TRUE) \in RowType /\ NewRow(TRUE).exists
    BY RowTypes DEF NewRow
  <2>2. Live' = Live \union {u}
    <3>1. users' = [users EXCEPT ![u] = NewRow(TRUE)] /\ users \in [Users -> RowType]
      BY <1>2 DEF RegisterEnds, TypeOK
    <3>2. QED
      BY <2>1, <3>1 DEF Live
  <2>3. sessions' \in [Sessions -> SessionType]
        /\ \A s \in Sessions : sessions'[s].user = u \/ sessions'[s] = sessions[s]
    BY <1>2, OpensKeeps DEF RegisterEnds
  <2>4. QED
    BY <1>1, <1>2, <2>1, <2>2, <2>3 DEF RegisterEnds, TypeOK
<1>3. ASSUME NEW u \in Users, CreateEnds(r, u)
      PROVE  TypeOK'
  <2>1. NewRow(FALSE) \in RowType /\ NewRow(FALSE).exists
    BY RowTypes DEF NewRow
  <2>2. QED
    BY <1>1, <1>3, <2>1 DEF CreateEnds, TypeOK, Live
<1>4. CASE RegisterClosed(r)
  BY <1>1, <1>4 DEF RegisterClosed, TypeOK, Live
<1>5. CASE LoginFails(r) \/ LoginByPassword(r) \/ LoginWithoutCode(r)
  BY <1>1, <1>5 DEF LoginFails, LoginByPassword, LoginWithoutCode, TypeOK, Live, RequestType
<1>6. ASSUME NEW c \in Codes, NEW trust \in BOOLEAN, LoginByCode(r, c, trust)
      PROVE  TypeOK'
  <2>1. /\ users' \in [Users -> RowType] /\ Live' = Live
        /\ \A v \in Users : users'[v].exists = users[v].exists
        /\ \A v \in Users \ {req[r].user} : users'[v] = users[v]
        /\ req[r].user \in Live
    BY <1>6, CodeWrites, RowWritten DEF RowForCode
  <2>2. taken' \in [Users -> SUBSET (Secrets \X Codes)]
    BY <1>6, CodeWrites, TakenTypes DEF Live
  <2>3. \A v \in Users : ~users'[v].exists => users'[v] = NoRow
    BY <2>1 DEF TypeOK, Live
  <2>4. trusted' \subseteq Live /\ req' \in [Requests -> RequestType]
        /\ UNCHANGED <<spent, sessions, fails, offline>>
    BY <1>1, <1>6, <2>1 DEF LoginByCode, TypeOK, RequestType
  <2>5. QED
    BY <2>1, <2>2, <2>3, <2>4 DEF TypeOK
<1>7. CASE LoginEnds(r)
  <2>1. CASE req[r].user \in Live
    BY <1>1, <1>7, <2>1, OpensKeeps DEF LoginEnds, TypeOK, Live, RequestType
  <2>2. CASE req[r].user \notin Live
    BY <1>1, <1>7, <2>2 DEF LoginEnds, TypeOK, Live
  <2>3. QED
    BY <2>1, <2>2
<1>8. CASE DeleteEnds(r)
  <2> DEFINE u == req[r].user
  <2>1. NoRow \in RowType /\ ~NoRow.exists
    BY RowTypes DEF NoRow
  <2>2. users' = [users EXCEPT ![u] = NoRow] /\ sessions' = SignedOut(u)
        /\ trusted' = trusted \ {u} /\ req' = [req EXCEPT ![r] = Waiting]
        /\ UNCHANGED <<spent, fails, offline, taken>>
    BY <1>8 DEF DeleteEnds
  <2>3. Live' = Live \ {u}
    BY <2>1, <2>2 DEF TypeOK, Live
  <2>4. sessions' \in [Sessions -> SessionType]
        /\ \A s \in Sessions : sessions'[s] = NoOne
                               \/ (sessions'[s] = sessions[s] /\ sessions[s].user # u)
    BY <2>2, SignedOutKeeps
  <2>5. QED
    BY <1>1, <2>1, <2>2, <2>3, <2>4 DEF TypeOK
<1>9. CASE ResetEnds(r)
  BY <1>1, <1>9, SignedOutKeeps, ClearedKeeps DEF ResetEnds, TypeOK, Live
<1>10. ASSUME SetupEnds(r) \/ \E c \in Codes : ConfirmEnds(r, c)
       PROVE  TypeOK'
  <2>1. req' \in [Requests -> RequestType] /\ UNCHANGED <<spent, sessions, trusted, fails, offline>>
    BY <1>1, <1>10 DEF SetupEnds, ConfirmEnds, TypeOK
  <2>2. /\ users' \in [Users -> RowType] /\ Live' = Live
        /\ \A v \in Users : users'[v].exists = users[v].exists
        /\ \A v \in Users \ Live : users'[v] = users[v]
        /\ taken' \in [Users -> SUBSET (Secrets \X Codes)]
    <3>1. CASE UNCHANGED <<users, taken>>
      BY <3>1 DEF TypeOK, Live
    <3>2. CASE SetupEnds(r) /\ ~UNCHANGED <<users, taken>>
      <4>1. taken' \in [Users -> SUBSET (Secrets \X Codes)]
        <5>1. PICK k : taken' = [taken EXCEPT ![req[r].user] = {code \in @ : code[1] # k}]
          BY <3>2, SetupWrites
        <5>2. QED
          BY <5>1 DEF TypeOK
      <4>2. PICK u \in Live, row \in RowType :
                row.exists = TRUE /\ row.admin = users[u].admin /\ users' = [users EXCEPT ![u] = row]
        BY <3>2, SetupWrites
      <4>3. QED
        BY <4>1, <4>2, RowWritten
    <3>3. ASSUME NEW c \in Codes, ConfirmEnds(r, c), ~UNCHANGED <<users, taken>>
          PROVE  /\ users' \in [Users -> RowType] /\ Live' = Live
                 /\ \A v \in Users : users'[v].exists = users[v].exists
                 /\ \A v \in Users \ Live : users'[v] = users[v]
                 /\ taken' \in [Users -> SUBSET (Secrets \X Codes)]
      <4>1. taken' \in [Users -> SUBSET (Secrets \X Codes)]
        BY <3>3, ConfirmWrites, TakenTypes DEF Live
      <4>2. PICK u \in Live, row \in RowType :
                row.exists = TRUE /\ row.admin = users[u].admin /\ users' = [users EXCEPT ![u] = row]
        BY <3>3, ConfirmWrites DEF RowForCode
      <4>3. QED
        BY <4>1, <4>2, RowWritten
    <3>4. QED
      BY <1>10, <3>1, <3>2, <3>3
  <2>3. \A v \in Users : ~users'[v].exists => users'[v] = NoRow
    BY <2>2 DEF TypeOK, Live
  <2>4. QED
    BY <2>1, <2>2, <2>3 DEF TypeOK
<1>11. QED
  BY <1>2, <1>3, <1>4, <1>5, <1>6, <1>7, <1>8, <1>9, <1>10 DEF RequestSteps

LEMMA RequestBeginTypes ==
    ASSUME TypeOK, NEW r \in Requests, RequestBegins(r)
    PROVE  TypeOK'
<1> USE DEF tables
<1>1. \A kind \in OwnKinds \union {"login"}, u \in Live : Reads(kind, u) \in RequestType
  BY DEF TypeOK, Reads, RequestType, OwnKinds, Live, RowType
<1>2. \A kind \in AdminKinds \union {"login", "register", "create"}, u \in Users \union {NoUser} :
          Asks(kind, u) \in RequestType
  BY DEF Asks, Waiting, RequestType, AdminKinds
<1>3. CASE RegisterBegins(r)
  BY <1>2, <1>3 DEF RegisterBegins, TypeOK, Live
<1>4. ASSUME NEW u \in Live \union {NoUser}, LoginBegins(r, u)
      PROVE  TypeOK'
  BY <1>1, <1>2, <1>4 DEF LoginBegins, Tries, TypeOK, Live
<1>5. ASSUME NEW s \in Sessions, Asking(r, s)
      PROVE  /\ sessions[s].user \in Live
             /\ sessions' \in [Sessions -> SessionType]
             /\ \A t \in Sessions : sessions'[t].user = sessions[t].user
             /\ \A t \in Sessions \ {s} : sessions'[t] = sessions[t]
  BY <1>5, TouchedKeeps DEF Asking, TypeOK
<1>6. ASSUME NEW s \in Sessions, NEW kind \in OwnKinds, AskOwn(r, s, kind)
      PROVE  TypeOK'
  BY <1>1, <1>5, <1>6 DEF AskOwn, TypeOK, Live
<1>7. ASSUME NEW s \in Sessions, NEW kind \in AdminKinds, NEW u \in Live, AskAbout(r, s, kind, u)
      PROVE  TypeOK'
  BY <1>2, <1>5, <1>7 DEF AskAbout, TypeOK, Live
<1>8. ASSUME NEW s \in Sessions, AskCreate(r, s)
      PROVE  TypeOK'
  BY <1>2, <1>5, <1>8 DEF AskCreate, TypeOK, Live
<1>9. QED
  BY <1>3, <1>4, <1>6, <1>7, <1>8 DEF RequestBegins

LEMMA OtherTypes ==
    ASSUME TypeOK,
           \/ \E s \in Sessions : UseSession(s) \/ IdleEnds(s) \/ SessionEnds(s)
           \/ \E u \in Users : DeviceExpires(u) \/ OfflineClears(u)
           \/ OfflineSignsOut \/ OfflineForgets
           \/ Restart \/ TimePasses \/ AttemptAges
    PROVE  TypeOK'
<1> USE DEF tables
<1>1. NoOne \in SessionType /\ Waiting \in RequestType
  BY AgesAreBounded DEF NoOne, SessionType, Waiting, RequestType
<1>2. ASSUME NEW s \in Sessions, UseSession(s)
      PROVE  TypeOK'
  BY <1>2, TouchedKeeps DEF UseSession, TypeOK, Live
<1>3. ASSUME NEW s \in Sessions, IdleEnds(s) \/ SessionEnds(s)
      PROVE  TypeOK'
  BY <1>1, <1>3 DEF IdleEnds, SessionEnds, TypeOK, Live
<1>4. ASSUME NEW u \in Users, DeviceExpires(u)
      PROVE  TypeOK'
  BY <1>4 DEF DeviceExpires, TypeOK, Live
<1>5. ASSUME NEW u \in Users, OfflineClears(u)
      PROVE  TypeOK'
  BY <1>5, ClearedKeeps DEF OfflineClears, TypeOK, Live
<1>6. CASE OfflineSignsOut
  BY <1>6, SignedOutKeeps DEF OfflineSignsOut, TypeOK, Live
<1>7. CASE OfflineForgets
  BY <1>7 DEF OfflineForgets, TypeOK, Live, NoOffline
<1>8. CASE Restart
  BY <1>1, <1>8 DEF Restart, TypeOK, Live
<1>9. CASE TimePasses
  <2>1. sessions' \in [Sessions -> SessionType]
    BY <1>1, <1>9, AgesAreBounded DEF TimePasses, TypeOK, SessionType
  <2>2. \A s \in Sessions : sessions'[s] = NoOne \/ sessions'[s].user \in Live
    BY <1>9 DEF TimePasses, TypeOK, SessionType
  <2>3. QED
    BY <1>9, <2>1, <2>2 DEF TimePasses, TypeOK, Live
<1>10. CASE AttemptAges
  BY <1>10 DEF AttemptAges, TypeOK, Live
<1>11. QED
  BY <1>2, <1>3, <1>4, <1>5, <1>6, <1>7, <1>8, <1>9, <1>10

LEMMA StepTypes == TypeOK /\ [Next]_vars => TypeOK'
<1>1. ASSUME TypeOK, UNCHANGED vars
      PROVE  TypeOK'
  BY <1>1 DEF vars, tables, TypeOK, Live
<1>2. QED
  BY <1>1, RequestStepTypes, RequestBeginTypes, OtherTypes DEF Next

(* Every account, session and request keeps its type, and what hangs on an *)
(* account goes with it.                                                   *)
THEOREM AccountTypesCorrect == Spec => []TypeOK
  BY InitTypes, StepTypes, PTL DEF Spec

-----------------------------------------------------------------------------
(* One administrator                                                       *)

LEMMA KindsOfRequests ==
    /\ Waiting.kind = "none"
    /\ \A kind, u : Asks(kind, u).kind = kind /\ Asks(kind, u).user = u
    /\ \A kind, u : Reads(kind, u).kind = kind /\ Reads(kind, u).user = u
  BY DEF Waiting, Asks, Reads

LEMMA InitFounded == Init => Founded
<1> SUFFICES ASSUME Init
             PROVE  Founded
  OBVIOUS
<1>1. ~NoRow.exists
  BY RowTypes DEF NoRow
<1>2. Live = {}
  BY <1>1 DEF Init, Live
<1>3. QED
  BY <1>2, InitTypes DEF Init, Founded, OneAdmin, CreatesBeside, DeleteSpares, Waiting

(* A step that neither adds nor removes an account, nor changes who is an  *)
(* administrator, and lets in no creation or deletion wrongly.             *)
LEMMA SameAccounts ==
    ASSUME Founded, TypeOK', spent \subseteq spent',
           \A u \in Users : users'[u].exists = users[u].exists
                            /\ users'[u].admin = users[u].admin,
           \A r \in Requests :
               \/ req'[r] = req[r]
               \/ req'[r].kind \notin {"create", "delete"}
               \/ req'[r].kind = "create" /\ Live # {}
               \/ req'[r].kind = "delete" /\ req'[r].user \in Live /\ ~users[req'[r].user].admin
    PROVE  Founded'
<1>1. Live' = Live
  BY DEF Live, Founded
<1>2. OneAdmin'
  BY <1>1 DEF Founded, OneAdmin, Live
<1>3. CreatesBeside'
  BY <1>1 DEF Founded, CreatesBeside
<1>4. DeleteSpares'
  <2> SUFFICES ASSUME NEW r \in Requests, req'[r].kind = "delete"
               PROVE  req'[r].user \in spent' /\ ~users'[req'[r].user].admin
    BY DEF DeleteSpares
  <2>1. req'[r].user \in spent /\ ~users[req'[r].user].admin
    BY DEF Founded, DeleteSpares, TypeOK
  <2>2. QED
    BY <2>1 DEF Founded, TypeOK
<1>5. QED
  BY <1>2, <1>3, <1>4 DEF Founded

LEMMA FoundedStep == Founded /\ [Next]_vars => Founded'
<1> SUFFICES ASSUME Founded, [Next]_vars
             PROVE  Founded'
  OBVIOUS
<1>1. TypeOK /\ TypeOK'
  BY StepTypes DEF Founded
<1> USE <1>1
<1>2. ASSUME NEW r \in Requests, NEW u \in Users, RegisterEnds(r, u)
      PROVE  Founded'
  <2>1. NewRow(TRUE).exists /\ NewRow(TRUE).admin
    BY RowTypes DEF NewRow
  <2>2. Live = {} /\ u \notin spent /\ spent' = spent \union {u}
        /\ users' = [users EXCEPT ![u] = NewRow(TRUE)]
        /\ req' = [req EXCEPT ![r] = Waiting]
    BY <1>2 DEF RegisterEnds, Answers
  <2>3. Live' = {u}
    BY <2>1, <2>2 DEF TypeOK, Live
  <2>4. OneAdmin'
    BY <2>1, <2>2, <2>3 DEF OneAdmin, TypeOK
  <2>5. CreatesBeside' /\ DeleteSpares'
    BY <2>2, <2>3 DEF Founded, CreatesBeside, DeleteSpares, Waiting, TypeOK
  <2>6. QED
    BY <2>4, <2>5 DEF Founded
<1>3. ASSUME NEW r \in Requests, NEW u \in Users, CreateEnds(r, u)
      PROVE  Founded'
  <2>1. NewRow(FALSE).exists /\ ~NewRow(FALSE).admin
    BY RowTypes DEF NewRow
  <2>2. req[r].kind = "create" /\ u \notin spent /\ spent' = spent \union {u}
        /\ users' = [users EXCEPT ![u] = NewRow(FALSE)]
        /\ req' = [req EXCEPT ![r] = Waiting]
    BY <1>3 DEF CreateEnds, Answers
  <2>3. Live # {} /\ u \notin Live
    BY <2>2 DEF Founded, CreatesBeside, TypeOK
  <2>4. Live' = Live \union {u}
    BY <2>1, <2>2 DEF TypeOK, Live
  <2>5. OneAdmin'
    <3>1. PICK a \in Live : \A v \in Live : users[v].admin <=> v = a
      BY <2>3 DEF Founded, OneAdmin
    <3>2. \A v \in Live' : users'[v].admin <=> v = a
      BY <2>1, <2>2, <2>3, <2>4, <3>1 DEF TypeOK
    <3>3. QED
      BY <2>4, <3>1, <3>2 DEF OneAdmin
  <2>6. CreatesBeside' /\ DeleteSpares'
    <3>1. \A x \in Requests : req'[x] = req[x] \/ req'[x].kind = "none"
      BY <2>2, KindsOfRequests DEF TypeOK
    <3>2. \A v \in spent : v \in spent' /\ users'[v] = users[v]
      BY <2>2 DEF TypeOK
    <3>3. QED
      BY <2>4, <3>1, <3>2 DEF Founded, CreatesBeside, DeleteSpares
  <2>7. QED
    BY <2>5, <2>6 DEF Founded
<1>4. ASSUME NEW r \in Requests, DeleteEnds(r)
      PROVE  Founded'
  <2> DEFINE u == req[r].user
  <2>1. ~NoRow.exists /\ ~NoRow.admin
    BY RowTypes DEF NoRow
  <2>2. u \in spent /\ ~users[u].admin /\ spent' = spent
        /\ users' = [users EXCEPT ![u] = NoRow]
        /\ req' = [req EXCEPT ![r] = Waiting]
    BY <1>4 DEF DeleteEnds, Answers, Founded, DeleteSpares
  <2>3. Live' = Live \ {u}
    BY <2>1, <2>2 DEF TypeOK, Live
  <2>4. OneAdmin'
    BY <2>2, <2>3 DEF Founded, OneAdmin, TypeOK, Live
  <2>5. Live # {} => Live' # {}
    BY <2>2, <2>3 DEF Founded, OneAdmin
  <2>6. CreatesBeside' /\ DeleteSpares'
    BY <2>1, <2>2, <2>5 DEF Founded, CreatesBeside, DeleteSpares, Waiting, TypeOK
  <2>7. QED
    BY <2>4, <2>6 DEF Founded
<1>5. ASSUME NEW r \in Requests, RequestBegins(r)
      PROVE  Founded'
  <2>1. UNCHANGED <<users, spent>>
    BY <1>5 DEF RequestBegins, RegisterBegins, LoginBegins, AskOwn, AskAbout, AskCreate, tables
  <2>2. \A x \in Requests \ {r} : req'[x] = req[x]
    BY <1>5 DEF RequestBegins, RegisterBegins, LoginBegins, AskOwn, AskAbout, AskCreate, TypeOK
  <2>3. \/ req'[r].kind \notin {"create", "delete"}
        \/ req'[r].kind = "create" /\ Live # {}
        \/ req'[r].kind = "delete" /\ req'[r].user \in Live /\ ~users[req'[r].user].admin
    <3>1. CASE RegisterBegins(r) \/ \E u \in Live \union {NoUser} : LoginBegins(r, u)
      BY <3>1, KindsOfRequests DEF RegisterBegins, LoginBegins, Tries, TypeOK
    <3>2. ASSUME NEW s \in Sessions, NEW kind \in OwnKinds, AskOwn(r, s, kind)
          PROVE  req'[r].kind \notin {"create", "delete"}
      BY <3>2 DEF AskOwn, Asking, Reads, OwnKinds, TypeOK
    <3>3. ASSUME NEW s \in Sessions, Asking(r, s), users[sessions[s].user].admin
          PROVE  /\ sessions[s].user \in Live
                 /\ \A v \in Live : users[v].admin <=> v = sessions[s].user
      BY <3>3 DEF Asking, Founded, OneAdmin, TypeOK
    <3>4. ASSUME NEW s \in Sessions, NEW kind \in AdminKinds, NEW u \in Live, AskAbout(r, s, kind, u)
          PROVE  /\ req'[r].kind \in AdminKinds /\ req'[r].user = u
                 /\ ~users[u].admin
      BY <3>3, <3>4 DEF AskAbout, Asks, Waiting, TypeOK
    <3>5. ASSUME NEW s \in Sessions, AskCreate(r, s)
          PROVE  req'[r].kind = "create" /\ Live # {}
      BY <3>3, <3>5 DEF AskCreate, Asks, Waiting, TypeOK
    <3>6. QED
      BY <1>5, <3>1, <3>2, <3>4, <3>5 DEF RequestBegins, AdminKinds
  <2>4. QED
    BY <2>1, <2>2, <2>3, SameAccounts
<1>6. ASSUME NEW r \in Requests,
             \/ RegisterClosed(r) \/ LoginFails(r) \/ LoginByPassword(r)
             \/ LoginWithoutCode(r) \/ LoginEnds(r)
             \/ \E c \in Codes, trust \in BOOLEAN : LoginByCode(r, c, trust)
             \/ ResetEnds(r) \/ SetupEnds(r) \/ \E c \in Codes : ConfirmEnds(r, c)
      PROVE  Founded'
  <2>1. spent' = spent
    BY <1>6 DEF RegisterClosed, LoginFails, LoginByPassword, LoginWithoutCode, LoginEnds,
                LoginByCode, ResetEnds, SetupEnds, ConfirmEnds, tables
  <2>2. req' = [req EXCEPT ![r] = Waiting] \/ req' = [req EXCEPT ![r] = Asks("admitted", req[r].user)]
    BY <1>6 DEF RegisterClosed, LoginFails, LoginByPassword, LoginWithoutCode, LoginEnds,
                LoginByCode, ResetEnds, SetupEnds, ConfirmEnds, Answers
  <2>3. \A x \in Requests : req'[x] = req[x] \/ req'[x].kind \notin {"create", "delete"}
    BY <2>2, KindsOfRequests DEF TypeOK
  <2>4. \A v \in Users : users'[v].exists = users[v].exists /\ users'[v].admin = users[v].admin
    <3>1. CASE ResetEnds(r)
      BY <3>1, ClearedKeeps DEF ResetEnds
    <3>2. ASSUME NEW c \in Codes, NEW trust \in BOOLEAN, LoginByCode(r, c, trust)
          PROVE  \A v \in Users : users'[v].exists = users[v].exists /\ users'[v].admin = users[v].admin
      BY <3>2, CodeWrites, RowWritten DEF RowForCode
    <3>3. CASE SetupEnds(r)
      BY <3>3, SetupWrites, RowWritten
    <3>4. ASSUME NEW c \in Codes, ConfirmEnds(r, c)
          PROVE  \A v \in Users : users'[v].exists = users[v].exists /\ users'[v].admin = users[v].admin
      BY <3>4, ConfirmWrites, RowWritten DEF RowForCode
    <3>5. QED
      BY <1>6, <3>1, <3>2, <3>3, <3>4
         DEF RegisterClosed, LoginFails, LoginByPassword, LoginWithoutCode, LoginEnds, tables
  <2>5. QED
    BY <2>1, <2>3, <2>4, SameAccounts
<1>7. ASSUME \/ \E s \in Sessions : UseSession(s) \/ IdleEnds(s) \/ SessionEnds(s)
             \/ \E u \in Users : DeviceExpires(u) \/ OfflineClears(u)
             \/ OfflineSignsOut \/ OfflineForgets
             \/ Restart \/ TimePasses \/ AttemptAges
             \/ UNCHANGED vars
      PROVE  Founded'
  <2>1. spent' = spent
    BY <1>7 DEF UseSession, IdleEnds, SessionEnds, DeviceExpires, OfflineClears, OfflineSignsOut,
                OfflineForgets, Restart, TimePasses, AttemptAges, vars, tables
  <2>2. \A x \in Requests : req'[x] = req[x] \/ req'[x].kind \notin {"create", "delete"}
    <3>1. req' = req \/ req' = [r \in Requests |-> Waiting]
      BY <1>7 DEF UseSession, IdleEnds, SessionEnds, DeviceExpires, OfflineClears, OfflineSignsOut,
                  OfflineForgets, Restart, TimePasses, AttemptAges, vars
    <3>2. QED
      BY <3>1, KindsOfRequests
  <2>3. \A v \in Users : users'[v].exists = users[v].exists /\ users'[v].admin = users[v].admin
    <3>1. ASSUME NEW u \in Users, OfflineClears(u)
          PROVE  \A v \in Users : users'[v].exists = users[v].exists /\ users'[v].admin = users[v].admin
      BY <3>1, ClearedKeeps DEF OfflineClears
    <3>2. QED
      BY <1>7, <3>1 DEF UseSession, IdleEnds, SessionEnds, DeviceExpires, OfflineSignsOut,
                        OfflineForgets, Restart, TimePasses, AttemptAges, vars, tables
  <2>4. QED
    BY <2>1, <2>2, <2>3, SameAccounts
<1>8. QED
  BY <1>2, <1>3, <1>4, <1>5, <1>6, <1>7 DEF Next, RequestSteps

(* However many registrations hash at once, one account is an              *)
(* administrator's, and it stays (register, admin_delete_user).            *)
THEOREM OneAdminHolds == Spec => []OneAdmin
<1>1. Founded => OneAdmin
  BY DEF Founded
<1>2. QED
  BY <1>1, InitFounded, FoundedStep, PTL DEF Spec

-----------------------------------------------------------------------------
(* Failed logins                                                           *)

(* Logins that passed the limiter and have not been answered.              *)
Trying == {r \in Requests : req[r].kind = "login"}

Counted == TypeOK /\ fails + Cardinality(Trying) < MaxAttempts + Cardinality(Requests)

LEMMA TryingIsFinite ==
    /\ IsFiniteSet(Trying) /\ Cardinality(Trying) \in Nat
    /\ Cardinality(Requests) \in Nat
    /\ Cardinality(Trying) <= Cardinality(Requests)
  BY FiniteAssumption, FS_Subset, FS_CardinalityType DEF Trying

LEMMA TryingOfNext ==
    /\ IsFiniteSet(Trying') /\ Cardinality(Trying') \in Nat
    /\ Cardinality(Trying') <= Cardinality(Requests)
  BY FiniteAssumption, FS_Subset, FS_CardinalityType DEF Trying

LEMMA CountedStep == Counted /\ [Next]_vars => Counted'
<1> SUFFICES ASSUME Counted, [Next]_vars
             PROVE  Counted'
  OBVIOUS
<1>1. TypeOK /\ TypeOK' /\ MaxAttempts \in Nat \ {0}
  BY StepTypes, LimitAssumption DEF Counted
<1>2. ASSUME Trying' \subseteq Trying, fails' <= fails
      PROVE  Counted'
  <2>1. Cardinality(Trying') <= Cardinality(Trying)
    BY <1>2, TryingIsFinite, FS_Subset
  <2>2. QED
    BY <1>1, <1>2, <2>1, TryingIsFinite, TryingOfNext DEF Counted, TypeOK
<1>3. ASSUME NEW r \in Requests, LoginFails(r)
      PROVE  Counted'
  <2>1. r \in Trying /\ Trying' = Trying \ {r} /\ fails' = fails + 1
    BY <1>1, <1>3, KindsOfRequests DEF LoginFails, Answers, Trying, TypeOK
  <2>2. Cardinality(Trying') = Cardinality(Trying) - 1
    BY <2>1, TryingIsFinite, FS_RemoveElement
  <2>3. QED
    BY <1>1, <2>1, <2>2, TryingIsFinite DEF Counted, TypeOK
<1>4. ASSUME NEW r \in Requests, NEW u \in Live \union {NoUser}, LoginBegins(r, u)
      PROVE  Counted'
  <2>1. fails < MaxAttempts /\ fails' = fails
    BY <1>1, <1>4 DEF LoginBegins, Locked, TypeOK
  <2>2. QED
    BY <1>1, <2>1, TryingOfNext, TryingIsFinite DEF Counted, TypeOK
<1>5. ASSUME NEW r \in Requests, RequestSteps(r), ~LoginFails(r)
      PROVE  Trying' \subseteq Trying /\ fails' <= fails
  <2>1. \/ req' = [req EXCEPT ![r] = Waiting]
        \/ req' = [req EXCEPT ![r] = Asks("admitted", req[r].user)]
    BY <1>5 DEF RequestSteps, RegisterEnds, CreateEnds, RegisterClosed, LoginByPassword, LoginByCode,
                LoginWithoutCode, LoginEnds, DeleteEnds, ResetEnds, SetupEnds, ConfirmEnds, Answers
  <2>2. Trying' \subseteq Trying
    BY <1>1, <2>1, KindsOfRequests DEF Trying, TypeOK
  <2>3. fails' = fails \/ fails' = 0
    BY <1>5 DEF RequestSteps, RegisterEnds, CreateEnds, RegisterClosed, LoginByPassword, LoginByCode,
                LoginWithoutCode, LoginEnds, DeleteEnds, ResetEnds, SetupEnds, ConfirmEnds
  <2>4. QED
    BY <1>1, <2>2, <2>3 DEF TypeOK
<1>6. ASSUME NEW r \in Requests, RequestBegins(r),
             ~ \E u \in Live \union {NoUser} : LoginBegins(r, u)
      PROVE  Trying' \subseteq Trying /\ fails' <= fails
  <2>1. fails' = fails
    BY <1>6 DEF RequestBegins, RegisterBegins, AskOwn, AskAbout, AskCreate
  <2>2. \E a \in RequestType : a.kind # "login" /\ req' = [req EXCEPT ![r] = a]
    <3>1. CASE RegisterBegins(r)
      BY <3>1, KindsOfRequests DEF RegisterBegins, Asks, Waiting, RequestType
    <3>2. ASSUME NEW s \in Sessions, NEW kind \in OwnKinds, AskOwn(r, s, kind)
          PROVE  req' = [req EXCEPT ![r] = Reads(kind, sessions[s].user)] /\ kind # "login"
                 /\ Reads(kind, sessions[s].user) \in RequestType
      BY <1>1, <3>2 DEF AskOwn, Asking, OwnKinds, Reads, TypeOK, RequestType, RowType, Live
    <3>3. ASSUME NEW s \in Sessions, NEW kind \in AdminKinds, NEW u \in Live, AskAbout(r, s, kind, u)
          PROVE  req' = [req EXCEPT ![r] = Asks(kind, u)] /\ kind # "login"
                 /\ Asks(kind, u) \in RequestType
      BY <3>3 DEF AskAbout, AdminKinds, Asks, Waiting, RequestType, Live
    <3>4. ASSUME NEW s \in Sessions, AskCreate(r, s)
          PROVE  req' = [req EXCEPT ![r] = Asks("create", NoUser)]
                 /\ Asks("create", NoUser) \in RequestType
      BY <3>4 DEF AskCreate, Asks, Waiting, RequestType
    <3>5. QED
      BY <1>6, <3>1, <3>2, <3>3, <3>4, KindsOfRequests DEF RequestBegins
  <2>3. Trying' \subseteq Trying
    BY <1>1, <2>2 DEF Trying, TypeOK
  <2>4. QED
    BY <1>1, <2>1, <2>3 DEF TypeOK
<1>7. ASSUME \/ \E s \in Sessions : UseSession(s) \/ IdleEnds(s) \/ SessionEnds(s)
             \/ \E u \in Users : DeviceExpires(u) \/ OfflineClears(u)
             \/ OfflineSignsOut \/ OfflineForgets
             \/ Restart \/ TimePasses \/ AttemptAges
             \/ UNCHANGED vars
      PROVE  Trying' \subseteq Trying /\ fails' <= fails
  <2>1. req' = req \/ req' = [r \in Requests |-> Waiting]
    BY <1>7 DEF UseSession, IdleEnds, SessionEnds, DeviceExpires, OfflineClears, OfflineSignsOut,
                OfflineForgets, Restart, TimePasses, AttemptAges, vars
  <2>2. fails' = fails \/ fails' = 0 \/ (fails > 0 /\ fails' = fails - 1)
    BY <1>7 DEF UseSession, IdleEnds, SessionEnds, DeviceExpires, OfflineClears, OfflineSignsOut,
                OfflineForgets, Restart, TimePasses, AttemptAges, vars
  <2>3. Trying' \subseteq Trying
    BY <2>1, KindsOfRequests DEF Trying
  <2>4. QED
    BY <1>1, <2>2, <2>3 DEF TypeOK
<1>8. QED
  BY <1>2, <1>3, <1>4, <1>5, <1>6, <1>7 DEF Next

(* Logins that were let in together may all fail, and no more than those   *)
(* count beyond the limit: every failure that counts was of a login that   *)
(* began below it (login, RateLimiter).                                    *)
THEOREM FailuresBoundedHolds == Spec => []FailuresBounded
<1>1. Init => Counted
  <2> SUFFICES ASSUME Init
               PROVE  Counted
    OBVIOUS
  <2>1. Trying = {} /\ fails = 0
    BY KindsOfRequests DEF Init, Trying
  <2>2. Cardinality(Trying) = 0
    BY <2>1, FS_EmptySet
  <2>3. QED
    BY <2>1, <2>2, TryingIsFinite, InitTypes, LimitAssumption DEF Counted
<1>2. Counted => FailuresBounded
  BY TryingIsFinite, LimitAssumption DEF Counted, FailuresBounded, TypeOK
<1>3. QED
  BY <1>1, <1>2, CountedStep, PTL DEF Spec

-----------------------------------------------------------------------------
(* Idle sessions                                                           *)

(* The stamp is never younger than the last use and lags it by less than   *)
(* the write interval.                                                     *)
StampLags ==
    \A s \in Sessions : /\ sessions[s].used <= sessions[s].stamp
                        /\ sessions[s].stamp < sessions[s].used + WriteInterval

LEMMA StampLagsStep == TypeOK /\ StampLags /\ [Next]_vars => StampLags'
<1> SUFFICES ASSUME TypeOK, StampLags, [Next]_vars
             PROVE  StampLags'
  OBVIOUS
<1> USE IdleAssumption
<1>1. \A s \in Sessions : sessions[s].stamp \in 0..MaxAge /\ sessions[s].used \in 0..MaxAge
  BY DEF TypeOK, SessionType, Ages
<1>2. MaxAge \in Nat /\ NoOne.used = 0 /\ NoOne.stamp = 0
  BY DEF MaxAge, NoOne
<1>3. ASSUME \A s \in Sessions : \/ sessions'[s] = sessions[s]
                                 \/ sessions'[s] = NoOne
                                 \/ sessions'[s].used = 0 /\ sessions'[s].stamp = 0
                                 \/ sessions'[s].used = 0 /\ sessions'[s].stamp = sessions[s].stamp
                                    /\ sessions[s].stamp < WriteInterval
      PROVE  StampLags'
  BY <1>1, <1>2, <1>3 DEF StampLags
<1>4. ASSUME NEW u \in Users, Opens(u)
      PROVE  StampLags'
  <2>1. PICK s \in Sessions : sessions[s] = NoOne /\ sessions' = [sessions EXCEPT ![s].user = u]
    BY <1>4 DEF Opens
  <2>2. sessions'[s].used = 0 /\ sessions'[s].stamp = 0
    BY <1>2, <2>1 DEF TypeOK, SessionType
  <2>3. \A t \in Sessions \ {s} : sessions'[t] = sessions[t]
    BY <2>1 DEF TypeOK
  <2>4. QED
    BY <1>3, <2>2, <2>3
<1>5. ASSUME NEW s \in Sessions, sessions' = Touched(s)
      PROVE  StampLags'
  <2>1. sessions'[s].used = 0 /\ sessions'[s].stamp = IF sessions[s].stamp < WriteInterval
                                                      THEN sessions[s].stamp ELSE 0
    BY <1>5 DEF Touched, TypeOK, SessionType
  <2>2. \A t \in Sessions \ {s} : sessions'[t] = sessions[t]
    BY <1>5, TouchedKeeps
  <2>3. QED
    BY <1>3, <2>1, <2>2
<1>6. ASSUME NEW u, sessions' = SignedOut(u)
      PROVE  StampLags'
  BY <1>3, <1>6, SignedOutKeeps
<1>7. CASE TimePasses
  <2>1. \A age \in 0..MaxAge : Older(age) = IF age < MaxAge THEN age + 1 ELSE age
    BY DEF Older
  <2>2. \A s \in Sessions : sessions'[s] = NoOne
                            \/ (sessions'[s].stamp = Older(sessions[s].stamp)
                                /\ sessions'[s].used = Older(sessions[s].used))
    BY <1>7 DEF TimePasses, TypeOK, SessionType
  <2>3. QED
    BY <1>1, <1>2, <2>1, <2>2 DEF StampLags
<1>8. ASSUME NEW r \in Requests, RequestSteps(r)
      PROVE  StampLags'
  <2>1. \/ sessions' = sessions
        \/ \E u \in Users : Opens(u)
        \/ \E u : sessions' = SignedOut(u)
    BY <1>8 DEF RequestSteps, RegisterEnds, CreateEnds, RegisterClosed, LoginFails, LoginByPassword,
                LoginByCode, LoginWithoutCode, LoginEnds, DeleteEnds, ResetEnds, SetupEnds,
                ConfirmEnds, tables, Live
  <2>2. QED
    BY <1>3, <1>4, <1>6, <2>1
<1>9. ASSUME NEW r \in Requests, RequestBegins(r)
      PROVE  StampLags'
  <2>1. sessions' = sessions \/ \E s \in Sessions : sessions' = Touched(s)
    BY <1>9 DEF RequestBegins, RegisterBegins, LoginBegins, AskOwn, AskAbout, AskCreate, Asking, tables
  <2>2. QED
    BY <1>3, <1>5, <2>1
<1>10. ASSUME \/ \E s \in Sessions : UseSession(s) \/ IdleEnds(s) \/ SessionEnds(s)
              \/ \E u \in Users : DeviceExpires(u) \/ OfflineClears(u)
              \/ OfflineSignsOut \/ OfflineForgets
              \/ Restart \/ AttemptAges
              \/ UNCHANGED vars
       PROVE  StampLags'
  <2>1. CASE sessions' = sessions
    BY <1>3, <2>1
  <2>2. ASSUME NEW s \in Sessions, UseSession(s)
        PROVE  StampLags'
    BY <1>5, <2>2 DEF UseSession
  <2>3. ASSUME NEW s \in Sessions, IdleEnds(s) \/ SessionEnds(s)
        PROVE  StampLags'
    BY <1>3, <2>3 DEF IdleEnds, SessionEnds, TypeOK
  <2>4. CASE OfflineSignsOut
    BY <1>6, <2>4 DEF OfflineSignsOut
  <2>5. CASE Restart
    BY <1>3, <2>5 DEF Restart
  <2>6. QED
    BY <1>10, <2>1, <2>2, <2>3, <2>4, <2>5
       DEF DeviceExpires, OfflineClears, OfflineForgets, AttemptAges, vars, tables
<1>11. QED
  BY <1>7, <1>8, <1>9, <1>10 DEF Next

(* Writing the stamp only now and then neither keeps a session beyond its  *)
(* time-out nor ends it much before (_refresh_last_seen).                  *)
THEOREM IdleWindowHolds == Spec => []IdleWindow
<1>1. Init => StampLags
  BY IdleAssumption DEF Init, StampLags, NoOne
<1>2. TypeOK /\ StampLags => IdleWindow
  <2> SUFFICES ASSUME TypeOK, StampLags, NEW s \in Sessions, Idle > 0
               PROVE  /\ IdledOut(s) => sessions[s].used + WriteInterval > Idle
                      /\ ~IdledOut(s) => sessions[s].used <= Idle
    BY DEF IdleWindow
  <2>1. sessions[s].stamp \in 0..MaxAge /\ sessions[s].used \in 0..MaxAge
    BY DEF TypeOK, SessionType, Ages
  <2>2. QED
    BY <2>1, IdleAssumption DEF StampLags, IdledOut, MaxAge
<1>3. QED
  BY <1>1, <1>2, InitTypes, StepTypes, StampLagsStep, PTL DEF Spec

-----------------------------------------------------------------------------
(* One-time codes                                                          *)

(* Of its present secret an account has taken no later step than the row   *)
(* remembers.                                                              *)
StepsRemembered ==
    \A u \in Users : \A c \in Codes :
        <<users[u].secret, c>> \in taken[u] => c <= users[u].last

(* The last step of an account goes back only with its factor.             *)
Forward ==
    \A u \in Users :
        users'[u].last < users[u].last => users'[u] \in {NoRow, Unenrolled(TRUE, users[u].admin)}

LEMMA StepNumbers ==
    ASSUME TypeOK, NEW u \in Users
    PROVE  users[u].last \in Nat /\ \A c \in Codes : c \in Nat
<1>1. users[u] \in RowType
  BY DEF TypeOK
<1>2. QED
  BY <1>1 DEF RowType, Codes

LEMMA NoSecretNoCode ==
    ASSUME TypeOK, NEW u \in Users
    PROVE  \A c \in Codes : <<NoSecret, c>> \notin taken[u]
  BY SentinelAssumption DEF TypeOK

(* A row written without a factor, or not at all.                          *)
LEMMA RowsWithoutFactor ==
    ASSUME TypeOK, TypeOK', StepsRemembered, taken' = taken,
           \A u \in Users : \/ users'[u] = users[u]
                           \/ users'[u] \in {NoRow, Unenrolled(TRUE, users[u].admin)}
                           \/ (users[u] = NoRow /\ users'[u].secret = NoSecret)
    PROVE  StepsRemembered' /\ Forward
<1>1. /\ NoRow.secret = NoSecret /\ NoRow.last = 0
      /\ \A admin : Unenrolled(TRUE, admin).secret = NoSecret
  BY DEF NoRow, Unenrolled
<1>2. StepsRemembered'
  BY <1>1, NoSecretNoCode DEF StepsRemembered
<1>3. Forward
  <2>1. \A u \in Users : users[u].last \in Nat /\ users'[u] \in RowType
    BY StepNumbers DEF TypeOK
  <2>2. \A u \in Users : users'[u].last \in Nat
    BY <2>1 DEF RowType
  <2>3. \A n \in Nat : ~(n < 0) /\ ~(n < n)
    OBVIOUS
  <2>4. QED
    BY <1>1, <2>1, <2>2, <2>3 DEF Forward
<1>4. QED
  BY <1>2, <1>3

(* A code that one of the two handlers takes is later than all its like.   *)
LEMMA CodeTaken ==
    ASSUME TypeOK, StepsRemembered, NEW u \in Live, NEW k \in Secrets, NEW c \in Codes,
           users[u].last < c, NEW row \in RowType, RowForCode(row, u, c), Takes(u, k, c)
    PROVE  /\ StepsRemembered' /\ Forward
           /\ <<k, c>> \in taken[u] => users[u].secret # k
<1>1. u \in Users /\ users \in [Users -> RowType] /\ taken \in [Users -> SUBSET (Secrets \X Codes)]
  BY DEF TypeOK, Live
<1>2. /\ users'[u] = row
      /\ \A v \in Users \ {u} : users'[v] = users[v] /\ taken'[v] = taken[v]
      /\ taken'[u] = taken[u] \union {<<k, c>>}
  BY <1>1 DEF Takes, RowForCode
<1>3. \A v \in Users : users[v].last \in Nat /\ \A d \in Codes : d \in Nat
  BY StepNumbers
<1> USE DEF RowForCode
<1>4. StepsRemembered'
  <2> SUFFICES ASSUME NEW v \in Users, NEW d \in Codes, <<users'[v].secret, d>> \in taken'[v]
               PROVE  d <= users'[v].last
    BY DEF StepsRemembered
  <2>1. CASE v # u
    BY <1>2, <2>1 DEF StepsRemembered
  <2>2. CASE v = u /\ d = c
    BY <1>2, <1>3, <2>2
  <2>3. CASE v = u /\ d # c
    <3>1. <<users[u].secret, d>> \in taken[u]
      BY <1>2, <2>3
    <3>2. d <= users[u].last
      BY <1>1, <3>1 DEF StepsRemembered
    <3>3. QED
      BY <1>1, <1>2, <1>3, <2>3, <3>2
  <2>4. QED
    BY <2>1, <2>2, <2>3
<1>5. Forward
  BY <1>1, <1>2, <1>3 DEF Forward
<1>6. ASSUME <<k, c>> \in taken[u], users[u].secret = k
      PROVE  FALSE
  BY <1>1, <1>3, <1>6 DEF StepsRemembered
<1>7. QED
  BY <1>4, <1>5, <1>6

(* A setup gives the account a secret of which no code was taken.          *)
LEMMA SecretGiven ==
    ASSUME TypeOK, StepsRemembered, NEW r \in Requests, SetupEnds(r),
           ~UNCHANGED <<users, taken>>
    PROVE  StepsRemembered' /\ Forward
<1> DEFINE u == req[r].user
<1>1. PICK k \in Secrets, row \in RowType :
          /\ row.secret = k /\ row.last = users[u].last
          /\ users' = [users EXCEPT ![u] = row]
          /\ taken' = [taken EXCEPT ![u] = {code \in @ : code[1] # k}]
  BY SetupWrites
<1>2. u \in Users /\ users \in [Users -> RowType] /\ taken \in [Users -> SUBSET (Secrets \X Codes)]
  BY SetupWrites DEF TypeOK, Live
<1>3. /\ users'[u] = row
      /\ \A v \in Users \ {u} : users'[v] = users[v] /\ taken'[v] = taken[v]
      /\ \A c \in Codes : <<k, c>> \notin taken'[u]
  BY <1>1, <1>2
<1>4. StepsRemembered'
  BY <1>1, <1>3 DEF StepsRemembered
<1>5. Forward
  BY <1>1, <1>2, <1>3, StepNumbers DEF Forward
<1>6. QED
  BY <1>4, <1>5

(* What a step does to the codes: nothing, but where a handler takes one.  *)
LEMMA StepsOfCodes ==
    ASSUME TypeOK, StepsRemembered, [Next]_vars
    PROVE  StepsRemembered' /\ Forward
<1>1. TypeOK'
  BY StepTypes
<1>2. ASSUME UNCHANGED <<users, taken>>
      PROVE  StepsRemembered' /\ Forward
  BY <1>1, <1>2, RowsWithoutFactor
<1>3. ASSUME NEW r \in Requests, RequestBegins(r)
      PROVE  UNCHANGED <<users, taken>>
  BY <1>3 DEF RequestBegins, RegisterBegins, LoginBegins, AskOwn, AskAbout, AskCreate, tables
<1>4. ASSUME NEW r \in Requests,
             \/ RegisterClosed(r) \/ LoginFails(r) \/ LoginByPassword(r) \/ LoginWithoutCode(r)
             \/ LoginEnds(r)
      PROVE  UNCHANGED <<users, taken>>
  BY <1>4 DEF RegisterClosed, LoginFails, LoginByPassword, LoginWithoutCode, LoginEnds, tables
<1>5. ASSUME NEW r \in Requests, NEW u \in Users, RegisterEnds(r, u) \/ CreateEnds(r, u)
      PROVE  StepsRemembered' /\ Forward
  <2>1. \A admin : NewRow(admin).secret = NoSecret
    BY DEF NewRow, Unenrolled
  <2>2. u \notin spent /\ taken' = taken
        /\ (users' = [users EXCEPT ![u] = NewRow(TRUE)] \/ users' = [users EXCEPT ![u] = NewRow(FALSE)])
    BY <1>5 DEF RegisterEnds, CreateEnds
  <2>3. users[u] = NoRow
    BY <2>2 DEF TypeOK, Live
  <2>4. \A v \in Users : users'[v] = users[v] \/ (users[v] = NoRow /\ users'[v].secret = NoSecret)
    BY <2>1, <2>2, <2>3 DEF TypeOK
  <2>5. QED
    BY <1>1, <2>2, <2>4, RowsWithoutFactor
<1>6. ASSUME NEW r \in Requests, DeleteEnds(r)
      PROVE  StepsRemembered' /\ Forward
  <2>1. taken' = taken /\ \A v \in Users : users'[v] = users[v] \/ users'[v] = NoRow
    BY <1>6 DEF DeleteEnds, TypeOK
  <2>2. QED
    BY <1>1, <2>1, RowsWithoutFactor
<1>7. ASSUME NEW u, users' = Cleared(u), taken' = taken
      PROVE  StepsRemembered' /\ Forward
  <2>1. \A v \in Users : users'[v] = users[v] \/ users'[v] = Unenrolled(TRUE, users[v].admin)
    BY <1>7 DEF Cleared, TypeOK
  <2>2. QED
    BY <1>1, <1>7, <2>1, RowsWithoutFactor
<1>8. ASSUME NEW r \in Requests, NEW c \in Codes, NEW trust \in BOOLEAN, LoginByCode(r, c, trust)
      PROVE  StepsRemembered' /\ Forward
  BY <1>8, CodeWrites, CodeTaken
<1>9. ASSUME NEW r \in Requests, SetupEnds(r)
      PROVE  StepsRemembered' /\ Forward
  BY <1>2, <1>9, SecretGiven
<1>10. ASSUME NEW r \in Requests, NEW c \in Codes, ConfirmEnds(r, c)
       PROVE  StepsRemembered' /\ Forward
  BY <1>2, <1>10, ConfirmWrites, CodeTaken
<1>11. ASSUME NEW r \in Requests, RequestSteps(r)
       PROVE  StepsRemembered' /\ Forward
  BY <1>2, <1>4, <1>5, <1>6, <1>7, <1>8, <1>9, <1>10, <1>11 DEF RequestSteps, ResetEnds
<1>12. ASSUME \/ \E s \in Sessions : UseSession(s) \/ IdleEnds(s) \/ SessionEnds(s)
              \/ \E u \in Users : DeviceExpires(u) \/ OfflineClears(u)
              \/ OfflineSignsOut \/ OfflineForgets
              \/ Restart \/ TimePasses \/ AttemptAges
              \/ UNCHANGED vars
       PROVE  StepsRemembered' /\ Forward
  <2>1. taken' = taken /\ (users' = users \/ \E u \in Users : users' = Cleared(u))
    BY <1>12 DEF UseSession, IdleEnds, SessionEnds, DeviceExpires, OfflineClears, OfflineSignsOut,
                 OfflineForgets, Restart, TimePasses, AttemptAges, vars, tables
  <2>2. QED
    BY <1>2, <1>7, <2>1
<1>13. QED
  BY <1>2, <1>3, <1>11, <1>12 DEF Next

(* Whoever takes a code of the secret the account still has takes one that *)
(* was not taken.                                                          *)
LEMMA CodeIsNew ==
    ASSUME TypeOK, StepsRemembered, NEW r \in Requests, NEW c \in Codes, ByCode(r, c),
           <<req[r].secret, c>> \in taken[req[r].user]
    PROVE  users[req[r].user].secret # req[r].secret
<1>1. CASE \E trust \in BOOLEAN : LoginByCode(r, c, trust)
  BY <1>1, CodeWrites, CodeTaken
<1>2. CASE ConfirmEnds(r, c) /\ users' # users
  BY <1>2, ConfirmWrites, CodeTaken
<1>3. QED
  BY <1>1, <1>2 DEF ByCode

(* A code is taken once, by whichever of the requests that wait on one     *)
(* another's password hash, while the account keeps the secret they read   *)
(* (consume_totp_step).                                                    *)
THEOREM CodesTakenOnceHolds == Spec => CodesTakenOnce
<1> DEFINE Body == /\ \A u \in Users :
                          users'[u].last < users[u].last =>
                              users'[u] \in {NoRow, Unenrolled(TRUE, users[u].admin)}
                   /\ \A r \in Requests, c \in Codes :
                          ByCode(r, c) /\ <<req[r].secret, c>> \in taken[req[r].user] =>
                              users[req[r].user].secret # req[r].secret
<1>1. Init => StepsRemembered
  BY DEF Init, StepsRemembered
<1>2. TypeOK /\ StepsRemembered /\ [Next]_vars => StepsRemembered'
  BY StepsOfCodes
<1>3. TypeOK /\ StepsRemembered /\ [Next]_vars => [Body]_vars
  BY StepsOfCodes, CodeIsNew DEF Forward
<1>4. Spec => []StepsRemembered
  BY <1>1, <1>2, AccountTypesCorrect, PTL DEF Spec
<1>5. Spec => [][Body]_vars
  BY <1>3, <1>4, AccountTypesCorrect, PTL DEF Spec
<1>6. QED
  BY <1>5 DEF CodesTakenOnce
=============================================================================
