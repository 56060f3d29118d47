-------------------------- MODULE HostTrust_proofs --------------------------
(***************************************************************************)
(* What TLAPS proves of HostTrust for any number of accounts, endpoints,   *)
(* keys, servers, concurrent requests and crashes.                         *)
(***************************************************************************)
EXTENDS HostTrust, TargetHost, TLAPS

-----------------------------------------------------------------------------
(* The inductive invariant                                                 *)

(* Only a request that will roll them back says it has pinned keys.        *)
PinnedByAsker ==
    \A r \in RequestIds : req[r].pinned # NoKeys => req[r].kind \in {"add", "probe"}

(* A row's endpoint is a real one: it was typed into a form.               *)
RowsAreReal == \A s \in servers : endpoint[s] \in Endpoints

(* So is the endpoint of a request that is in flight.                      *)
RequestsAreReal ==
    \A r \in RequestIds : req[r].kind # "idle" => req[r].endpoint \in Endpoints

(* A connection is opened for a row that is, or was, there.                *)
NamesAreUsed ==
    \A r \in RequestIds :
        req[r].kind \in {"test", "start"} => req[r].server \in used

IBase == TypeOK /\ PinnedByAsker /\ RowsAreReal /\ RequestsAreReal /\ NamesAreUsed

(* The steps of Next, each with its parameters in their sets.              *)
LEMMA NextCases ==
    ASSUME Next
    PROVE  \/ \E r \in RequestIds, u \in Users, e \in Endpoints :
                  AddBegins(r, u, e) \/ ProbeBegins(r, u, e)
           \/ \E r \in RequestIds, u \in Users, s \in ServerIds : StoredBegins(r, u, s)
           \/ \E r \in RequestIds :
                  Connect(r) \/ AddFails(r) \/ ProbeEnds(r) \/ StoredAnswers(r)
           \/ \E r \in RequestIds, s \in ServerIds : AddCreates(r, s)
           \/ \E u \in Users, s \in ServerIds : RemoveServer(u, s) \/ TrustHost(u, s)
           \/ \E u \in Users, s \in ServerIds, e \in Endpoints : UpdateServer(u, s, e)
           \/ \E e \in Endpoints : AdminConfirm(e) \/ AdminForget(e)
           \/ \E u \in Users : DeleteUser(u)
           \/ Restart
BY DEF Next, RequestNext

-----------------------------------------------------------------------------
(* Type correctness                                                        *)

LEMMA IdleType ==
    /\ Idle \in RequestType
    /\ Idle.pinned = NoKeys /\ Idle.kind = "idle"
BY DEF Idle, RequestType, Kind, Answer

LEMMA AskType ==
    ASSUME NEW kind \in Kind, NEW u \in Users, NEW e \in Endpoints,
           NEW s \in ServerIds \union {NoServer}, NEW pinned \in Keys \union {NoKeys}
    PROVE  Ask(kind, u, e, s, pinned) \in RequestType
BY DEF Ask, RequestType, Answer

LEMMA UserKeysStored == \A k \in Keys : UserKeys(k) \in Stored /\ UserKeys(k) # NoKeys
BY NoKeysAssumption DEF UserKeys, Stored

LEMMA InitBase == Init => IBase
BY IdleType, HostRestartsAssumption
   DEF Init, IBase, TypeOK, PinnedByAsker, RowsAreReal, RequestsAreReal, NamesAreUsed

(* What asking, pinning and forgetting leave of the types.                 *)
LEMMA PinTypes ==
    ASSUME TypeOK, NEW e \in Endpoints, NEW k \in Keys \union {NoKeys}, PinIfNone(e, k)
    PROVE  /\ known' \in [Endpoints -> Stored \union {NoKeys}]
           /\ PinsOf(e, k) \in Keys \union {NoKeys}
BY UserKeysStored DEF PinIfNone, PinsOf, TypeOK

LEMMA ForgetTypes ==
    ASSUME TypeOK, NEW e, NEW u, NEW rows, NEW ends, ForgetIfLast(e, u, rows, ends)
    PROVE  known' \in [Endpoints -> Stored \union {NoKeys}]
BY DEF ForgetIfLast, TypeOK

LEMMA RollbackTypes ==
    ASSUME TypeOK, NEW r \in RequestIds, Rollback(r)
    PROVE  /\ known' \in [Endpoints -> Stored \union {NoKeys}]
           /\ disturbed' \subseteq RequestIds
BY DEF Rollback, Pinning, TypeOK

LEMMA DisturbsTypes ==
    ASSUME TypeOK, NEW e, Disturbs(e)
    PROVE  disturbed' \subseteq RequestIds
BY DEF Disturbs, Pinning, TypeOK

LEMMA DropTypes ==
    ASSUME TypeOK, RowsAreReal, NEW gone \in SUBSET ServerIds, DropRows(gone)
    PROVE  /\ servers' = servers \ gone
           /\ owner' \in [ServerIds -> Users \union {NoUser}]
           /\ endpoint' \in [ServerIds -> Endpoints \union {NoEndpoint}]
           /\ verified' \in [ServerIds -> Endpoints \union {NoEndpoint}]
           /\ finding' \in [ServerIds -> Endpoints \union {NoEndpoint}]
           /\ overtaken' \subseteq servers'
           /\ \A s \in servers' : /\ owner'[s] = owner[s] /\ endpoint'[s] = endpoint[s]
                                  /\ verified'[s] = verified[s] /\ finding'[s] = finding[s]
           /\ RowsAreReal'
<1>1. /\ servers' = servers \ gone /\ overtaken' = overtaken \ gone
      /\ owner' = [s \in ServerIds |-> IF s \in gone THEN NoUser ELSE owner[s]]
      /\ endpoint' = [s \in ServerIds |-> IF s \in gone THEN NoEndpoint ELSE endpoint[s]]
      /\ verified' = [s \in ServerIds |-> IF s \in gone THEN NoEndpoint ELSE verified[s]]
      /\ finding' = [s \in ServerIds |-> IF s \in gone THEN NoEndpoint ELSE finding[s]]
  BY DEF DropRows
<1>2. /\ servers \subseteq ServerIds /\ overtaken \subseteq servers
      /\ owner \in [ServerIds -> Users \union {NoUser}]
      /\ endpoint \in [ServerIds -> Endpoints \union {NoEndpoint}]
      /\ verified \in [ServerIds -> Endpoints \union {NoEndpoint}]
      /\ finding \in [ServerIds -> Endpoints \union {NoEndpoint}]
  BY DEF TypeOK
<1>3. \A s \in servers' : /\ owner'[s] = owner[s] /\ endpoint'[s] = endpoint[s]
                          /\ verified'[s] = verified[s] /\ finding'[s] = finding[s]
  BY <1>1, <1>2
<1>4. RowsAreReal'
  BY <1>1, <1>3 DEF RowsAreReal
<1>5. QED
  BY <1>1, <1>2, <1>3, <1>4

LEMMA BaseStep == IBase /\ [Next]_vars => IBase'
<1> SUFFICES ASSUME IBase, [Next]_vars PROVE IBase'
  OBVIOUS
<1> USE DEF IBase
<1>1. ASSUME NEW r \in RequestIds, NEW u \in Users, NEW e \in Endpoints,
             AddBegins(r, u, e) \/ ProbeBegins(r, u, e)
      PROVE  IBase'
  <2>1. PICK reviewed \in Keys \union {NoKeys}, kind \in {"add", "probe"} :
            /\ PinIfNone(e, reviewed)
            /\ req' = [req EXCEPT ![r] = Ask(kind, u, e, NoServer, PinsOf(e, reviewed))]
    BY <1>1 DEF AddBegins, ProbeBegins
  <2>2. UNCHANGED <<users, servers, used, owner, endpoint, verified, finding,
                    overtaken, abandoned, disturbed, restarts>>
    BY <1>1 DEF AddBegins, ProbeBegins, rowVars
  <2>3. Ask(kind, u, e, NoServer, PinsOf(e, reviewed)) \in RequestType
    BY <2>1, PinTypes, AskType DEF Kind
  <2>4. TypeOK'
    BY <2>1, <2>2, <2>3, PinTypes DEF TypeOK
  <2>5. PinnedByAsker' /\ NamesAreUsed'
    BY <2>1, <2>2 DEF PinnedByAsker, NamesAreUsed, Ask, TypeOK
  <2>6. RowsAreReal' /\ RequestsAreReal'
    BY <2>1, <2>2 DEF RowsAreReal, RequestsAreReal, Ask, TypeOK
  <2>7. QED
    BY <2>4, <2>5, <2>6
<1>2. ASSUME NEW r \in RequestIds, NEW u \in Users, NEW s \in ServerIds,
             StoredBegins(r, u, s)
      PROVE  IBase'
  <2>1. PICK kind \in {"test", "start"} :
            req' = [req EXCEPT ![r] = Ask(kind, u, endpoint[s], s, NoKeys)]
    BY <1>2 DEF StoredBegins
  <2>2. endpoint[s] \in Endpoints /\ s \in used
    BY <1>2 DEF StoredBegins, Owns, RowsAreReal, TypeOK
  <2>3. Ask(kind, u, endpoint[s], s, NoKeys) \in RequestType
    BY AskType, <2>2 DEF Kind
  <2>4. TypeOK' /\ RowsAreReal'
    BY <1>2, <2>1, <2>3 DEF StoredBegins, TypeOK, rowVars, RowsAreReal
  <2>5. PinnedByAsker' /\ RequestsAreReal' /\ NamesAreUsed'
    BY <1>2, <2>1, <2>2
       DEF StoredBegins, rowVars, PinnedByAsker, RequestsAreReal, NamesAreUsed, Ask, TypeOK
  <2>6. QED
    BY <2>4, <2>5
<1>3. ASSUME NEW r \in RequestIds, Connect(r)
      PROVE  IBase'
  <2>1. PICK a \in {"unreachable", "same", "other"} : req' = [req EXCEPT ![r].answer = a]
    BY <1>3 DEF Connect
  <2>2. TypeOK' /\ RowsAreReal'
    BY <1>3, <2>1 DEF Connect, TypeOK, rowVars, RowsAreReal, RequestType, Answer
  <2>3. PinnedByAsker' /\ RequestsAreReal' /\ NamesAreUsed'
    BY <1>3, <2>1
       DEF Connect, rowVars, PinnedByAsker, RequestsAreReal, NamesAreUsed, TypeOK, RequestType
  <2>4. QED
    BY <2>2, <2>3
<1>4. ASSUME NEW r \in RequestIds, AddFails(r) \/ ProbeEnds(r)
      PROVE  IBase'
  <2>1. /\ Rollback(r) /\ req' = [req EXCEPT ![r] = Idle]
        /\ UNCHANGED <<users, servers, used, owner, endpoint, verified, finding,
                       overtaken, abandoned, restarts>>
    BY <1>4 DEF AddFails, ProbeEnds, rowVars
  <2>2. TypeOK' /\ RowsAreReal'
    BY <2>1, RollbackTypes, IdleType DEF TypeOK, RowsAreReal
  <2>3. PinnedByAsker' /\ RequestsAreReal' /\ NamesAreUsed'
    BY <2>1, IdleType DEF PinnedByAsker, RequestsAreReal, NamesAreUsed, TypeOK
  <2>4. QED
    BY <2>2, <2>3
<1>5. ASSUME NEW r \in RequestIds, StoredAnswers(r)
      PROVE  IBase'
  <2>1. req' = [req EXCEPT ![r] = Idle] /\ used' = used
    BY <1>5 DEF StoredAnswers
  <2>2. req[r].endpoint \in Endpoints \union {NoEndpoint}
    BY DEF TypeOK, RequestType
  <2>3. finding' \in [ServerIds -> Endpoints \union {NoEndpoint}]
    BY <1>5, <2>2 DEF StoredAnswers, TypeOK
  <2>4. verified' \in [ServerIds -> Endpoints \union {NoEndpoint}]
    BY <1>5, <2>2 DEF StoredAnswers, TypeOK
  <2>5. TypeOK' /\ RowsAreReal'
    BY <1>5, <2>1, <2>3, <2>4, IdleType DEF StoredAnswers, TypeOK, RowsAreReal
  <2>6. PinnedByAsker' /\ RequestsAreReal' /\ NamesAreUsed'
    BY <2>1, IdleType DEF PinnedByAsker, RequestsAreReal, NamesAreUsed, TypeOK
  <2>7. QED
    BY <2>5, <2>6
<1>6. ASSUME NEW r \in RequestIds, NEW s \in ServerIds, AddCreates(r, s)
      PROVE  IBase'
  <2>1. req[r].endpoint \in Endpoints /\ req[r].user \in Users
    BY <1>6 DEF AddCreates, RequestsAreReal, TypeOK, RequestType
  <2>2. /\ owner' \in [ServerIds -> Users \union {NoUser}]
        /\ endpoint' \in [ServerIds -> Endpoints \union {NoEndpoint}]
        /\ verified' \in [ServerIds -> Endpoints \union {NoEndpoint}]
        /\ finding' \in [ServerIds -> Endpoints \union {NoEndpoint}]
        /\ req' \in [RequestIds -> RequestType]
    BY <1>6, <2>1, IdleType DEF AddCreates, TypeOK
  <2>3. /\ servers' \subseteq used' /\ used' \subseteq ServerIds
        /\ overtaken' \subseteq servers' /\ disturbed' \subseteq RequestIds
        /\ \A x \in servers' : owner'[x] \in users'
    BY <1>6 DEF AddCreates, TypeOK
  <2>4. TypeOK'
    BY <1>6, <2>2, <2>3 DEF AddCreates, TypeOK
  <2>5. RowsAreReal'
    BY <1>6, <2>1 DEF AddCreates, TypeOK, RowsAreReal
  <2>6. PinnedByAsker' /\ RequestsAreReal' /\ NamesAreUsed'
    BY <1>6, IdleType DEF AddCreates, PinnedByAsker, RequestsAreReal, NamesAreUsed, TypeOK
  <2>7. QED
    BY <2>4, <2>5, <2>6
<1>7. ASSUME NEW u \in Users, NEW s \in ServerIds, RemoveServer(u, s)
      PROVE  IBase'
  <2>1. /\ DropRows({s}) /\ Disturbs(endpoint[s])
        /\ ForgetIfLast(endpoint[s], u, servers', endpoint)
        /\ UNCHANGED <<users, used, req, abandoned, restarts>>
    BY <1>7 DEF RemoveServer
  <2>2. TypeOK' /\ RowsAreReal'
    BY <2>1, DropTypes, ForgetTypes, DisturbsTypes DEF TypeOK
  <2>3. PinnedByAsker' /\ RequestsAreReal' /\ NamesAreUsed'
    BY <2>1 DEF PinnedByAsker, RequestsAreReal, NamesAreUsed
  <2>4. QED
    BY <2>2, <2>3
<1>8. ASSUME NEW u \in Users, NEW s \in ServerIds, TrustHost(u, s)
      PROVE  IBase'
  <2>1. known' \in [Endpoints -> Stored \union {NoKeys}]
    BY <1>8, UserKeysStored DEF TrustHost, TypeOK
  <2>2. QED
    BY <1>8, <2>1 DEF TrustHost, TypeOK, RowsAreReal, PinnedByAsker, RequestsAreReal,
       NamesAreUsed, rowVars
<1>9. ASSUME NEW u \in Users, NEW s \in ServerIds, NEW e \in Endpoints,
             UpdateServer(u, s, e)
      PROVE  IBase'
  <2>1. /\ s \in servers
        /\ endpoint' = [endpoint EXCEPT ![s] = e]
        /\ verified' = [verified EXCEPT ![s] = NoEndpoint]
        /\ finding' = [finding EXCEPT ![s] = NoEndpoint]
        /\ ForgetIfLast(endpoint[s], u, servers, endpoint') /\ Disturbs(endpoint[s])
        /\ UNCHANGED <<users, servers, used, owner, req, abandoned, restarts>>
    BY <1>9 DEF UpdateServer, Owns
  <2>2. overtaken' \subseteq servers
    BY <1>9, <2>1 DEF UpdateServer, TypeOK
  <2>3. TypeOK' /\ RowsAreReal'
    BY <2>1, <2>2, ForgetTypes, DisturbsTypes DEF TypeOK, RowsAreReal
  <2>4. PinnedByAsker' /\ RequestsAreReal' /\ NamesAreUsed'
    BY <2>1 DEF PinnedByAsker, RequestsAreReal, NamesAreUsed
  <2>5. QED
    BY <2>3, <2>4
<1>10. ASSUME NEW e \in Endpoints, AdminConfirm(e) \/ AdminForget(e)
       PROVE  IBase'
  <2>1. known' \in [Endpoints -> Stored \union {NoKeys}]
    BY <1>10 DEF AdminConfirm, AdminForget, TypeOK, Stored
  <2>2. /\ Disturbs(e)
        /\ UNCHANGED <<users, servers, used, owner, endpoint, verified, finding,
                       overtaken, req, abandoned, restarts>>
    BY <1>10 DEF AdminConfirm, AdminForget, rowVars
  <2>3. TypeOK'
    BY <2>1, <2>2, DisturbsTypes DEF TypeOK
  <2>4. QED
    BY <2>2, <2>3 DEF RowsAreReal, PinnedByAsker, RequestsAreReal, NamesAreUsed
<1>11. ASSUME NEW u \in Users, DeleteUser(u)
       PROVE  IBase'
  <2> DEFINE gone == {s \in servers : owner[s] = u}
  <2>1. /\ DropRows(gone) /\ users' = users \ {u}
        /\ UNCHANGED <<known, used, req, disturbed, restarts>>
        /\ abandoned' \subseteq Endpoints
    BY <1>11 DEF DeleteUser, TypeOK
  <2>2. gone \in SUBSET ServerIds
    BY DEF TypeOK
  <2>3. \A s \in servers \ gone : owner[s] \in users \ {u}
    BY DEF TypeOK
  <2> HIDE DEF gone
  <2>4. TypeOK' /\ RowsAreReal'
    BY <2>1, <2>2, <2>3, DropTypes DEF TypeOK
  <2>5. PinnedByAsker' /\ RequestsAreReal' /\ NamesAreUsed'
    BY <2>1 DEF PinnedByAsker, RequestsAreReal, NamesAreUsed
  <2>6. QED
    BY <2>4, <2>5
<1>12. CASE Restart
  <2>1. abandoned' \subseteq Endpoints
    <3>1. \A r \in RequestIds : req[r].pinned # NoKeys => req[r].endpoint \in Endpoints
      BY DEF PinnedByAsker, RequestsAreReal
    <3>2. QED
      BY <1>12, <3>1 DEF Restart, TypeOK
  <2>2. restarts' \in 0..MaxRestarts
    BY <1>12, HostRestartsAssumption DEF Restart, TypeOK
  <2>3. QED
    BY <1>12, <2>1, <2>2, IdleType DEF Restart, TypeOK, RowsAreReal, PinnedByAsker,
       RequestsAreReal, NamesAreUsed, rowVars
<1>13. CASE UNCHANGED vars
  BY <1>13 DEF vars, TypeOK, RowsAreReal, PinnedByAsker, RequestsAreReal, NamesAreUsed
<1>14. QED
  BY <1>1, <1>2, <1>3, <1>4, <1>5, <1>6, <1>7, <1>8, <1>9, <1>10, <1>11, <1>12,
     <1>13, NextCases

LEMMA Invariance == Spec => []IBase
BY InitBase, BaseStep, PTL DEF Spec

(* Every table keeps its type and every server row its account.            *)
THEOREM TrustTypeCorrect == Spec => []TypeOK
<1>1. IBase => TypeOK
  BY DEF IBase
<1>2. QED
  BY <1>1, Invariance, PTL

-----------------------------------------------------------------------------
(* Checks are of the row                                                   *)

(* What an open connection will say is of the endpoint its row names.      *)
AnswersFit ==
    \A s \in servers \ overtaken : \A r \in ConnectedFor(s) :
        req[r].endpoint = endpoint[s]

ChecksFit == ChecksAreOfTheRow /\ AnswersFit

(* Rows that stay as they are, with no new connection, keep their checks.  *)
LEMMA RowsKept ==
    ASSUME ChecksFit, servers' \subseteq servers,
           overtaken \intersect servers' \subseteq overtaken',
           \A s \in servers' : /\ endpoint'[s] = endpoint[s] /\ verified'[s] = verified[s]
                               /\ finding'[s] = finding[s],
           \A r \in RequestIds : req'[r].kind \in {"test", "start"} =>
               /\ req[r].kind = req'[r].kind /\ req[r].server = req'[r].server
               /\ req[r].endpoint = req'[r].endpoint
    PROVE  ChecksFit'
BY DEF ChecksFit, ChecksAreOfTheRow, AnswersFit, ConnectedFor

LEMMA ChecksStep == IBase /\ ChecksFit /\ [Next]_vars => ChecksFit'
<1> SUFFICES ASSUME IBase, ChecksFit, [Next]_vars PROVE ChecksFit'
  OBVIOUS
<1>0. TypeOK
  BY DEF IBase
<1>1. ASSUME NEW r \in RequestIds, NEW u \in Users, NEW e \in Endpoints,
             AddBegins(r, u, e) \/ ProbeBegins(r, u, e)
      PROVE  ChecksFit'
  <2>1. PICK kind \in {"add", "probe"}, pinned \in Keys \union {NoKeys} :
            req' = [req EXCEPT ![r] = Ask(kind, u, e, NoServer, pinned)]
    BY <1>0, <1>1, PinTypes DEF AddBegins, ProbeBegins
  <2>2. \A x \in RequestIds : req'[x].kind \in {"test", "start"} => req'[x] = req[x]
    BY <1>0, <2>1 DEF Ask, TypeOK
  <2>3. UNCHANGED <<servers, overtaken, endpoint, verified, finding>>
    BY <1>1 DEF AddBegins, ProbeBegins, rowVars
  <2>4. QED
    BY <2>2, <2>3, RowsKept
<1>2. ASSUME NEW r \in RequestIds, NEW u \in Users, NEW t \in ServerIds,
             StoredBegins(r, u, t)
      PROVE  ChecksFit'
  <2>1. PICK kind \in {"test", "start"} :
            req' = [req EXCEPT ![r] = Ask(kind, u, endpoint[t], t, NoKeys)]
    BY <1>2 DEF StoredBegins
  <2>2. UNCHANGED <<servers, overtaken, endpoint, verified, finding>>
    BY <1>2 DEF StoredBegins, rowVars
  <2>3. \A x \in RequestIds : req'[x] = IF x = r THEN Ask(kind, u, endpoint[t], t, NoKeys)
                                        ELSE req[x]
    BY <1>0, <2>1 DEF TypeOK
  <2>4. AnswersFit'
    BY <2>2, <2>3 DEF ChecksFit, AnswersFit, ConnectedFor, Ask
  <2>5. QED
    BY <2>2, <2>4 DEF ChecksFit, ChecksAreOfTheRow
<1>3. ASSUME NEW r \in RequestIds, Connect(r)
      PROVE  ChecksFit'
  <2>1. \A x \in RequestIds : /\ req'[x].kind = req[x].kind /\ req'[x].server = req[x].server
                              /\ req'[x].endpoint = req[x].endpoint
    BY <1>0, <1>3 DEF Connect, TypeOK, RequestType
  <2>2. UNCHANGED <<servers, overtaken, endpoint, verified, finding>>
    BY <1>3 DEF Connect, rowVars
  <2>3. QED
    BY <2>1, <2>2, RowsKept
<1>4. ASSUME NEW r \in RequestIds, AddFails(r) \/ ProbeEnds(r)
      PROVE  ChecksFit'
  <2>1. req' = [req EXCEPT ![r] = Idle]
        /\ UNCHANGED <<servers, overtaken, endpoint, verified, finding>>
    BY <1>4 DEF AddFails, ProbeEnds, rowVars
  <2>2. \A x \in RequestIds : req'[x].kind \in {"test", "start"} => req'[x] = req[x]
    BY <1>0, <2>1, IdleType DEF TypeOK
  <2>3. QED
    BY <2>1, <2>2, RowsKept
<1>5. ASSUME NEW r \in RequestIds, StoredAnswers(r)
      PROVE  ChecksFit'
  <2>1. req' = [req EXCEPT ![r] = Idle] /\ UNCHANGED <<servers, overtaken, endpoint>>
    BY <1>5 DEF StoredAnswers
  <2>2. \A x \in RequestIds : req'[x].kind \in {"test", "start"} => req'[x] = req[x]
    BY <1>0, <2>1, IdleType DEF TypeOK
  <2>3. AnswersFit'
    BY <2>1, <2>2 DEF ChecksFit, AnswersFit, ConnectedFor
  <2>4. ASSUME NEW s \in servers' \ overtaken'
        PROVE  {verified'[s], finding'[s]} \subseteq {NoEndpoint, endpoint'[s]}
    <3>1. s \in servers \ overtaken /\ s \in ServerIds
          /\ {verified[s], finding[s]} \subseteq {NoEndpoint, endpoint[s]}
      BY <1>0, <2>1 DEF TypeOK, ChecksFit, ChecksAreOfTheRow
    <3>2. CASE req[r].server = s
      <4>1. req[r].endpoint = endpoint[s]
        BY <1>5, <3>1, <3>2 DEF StoredAnswers, ConnectedFor, ChecksFit, AnswersFit
      <4>2. /\ verified'[s] \in {verified[s], req[r].endpoint}
            /\ finding'[s] \in {finding[s], NoEndpoint, req[r].endpoint}
        BY <1>0, <1>5, <3>1, <3>2 DEF StoredAnswers, TypeOK
      <4>3. QED
        BY <2>1, <3>1, <4>1, <4>2
    <3>3. CASE req[r].server # s
      <4>1. verified'[s] = verified[s] /\ finding'[s] = finding[s]
        BY <1>0, <1>5, <3>1, <3>3 DEF StoredAnswers, TypeOK
      <4>2. QED
        BY <2>1, <3>1, <4>1
    <3>4. QED
      BY <3>2, <3>3
  <2>5. QED
    BY <2>3, <2>4 DEF ChecksFit, ChecksAreOfTheRow
<1>6. ASSUME NEW r \in RequestIds, NEW t \in ServerIds, AddCreates(r, t)
      PROVE  ChecksFit'
  <2>1. /\ t \notin used /\ servers' = servers \union {t} /\ overtaken' = overtaken
        /\ endpoint' = [endpoint EXCEPT ![t] = req[r].endpoint]
        /\ verified'[t] \in {NoEndpoint, req[r].endpoint} /\ finding'[t] = NoEndpoint
        /\ \A s \in ServerIds \ {t} : verified'[s] = verified[s] /\ finding'[s] = finding[s]
        /\ req' = [req EXCEPT ![r] = Idle]
    BY <1>0, <1>6 DEF AddCreates, TypeOK
  <2>2. \A x \in RequestIds : req'[x].kind \in {"test", "start"} =>
            req'[x] = req[x] /\ req[x].server # t
    BY <1>0, <2>1, IdleType DEF TypeOK, IBase, NamesAreUsed
  <2>3. \A s \in servers : s # t /\ s \in ServerIds /\ endpoint'[s] = endpoint[s]
    BY <1>0, <2>1 DEF TypeOK
  <2>4. endpoint'[t] = req[r].endpoint
    BY <1>0, <2>1 DEF TypeOK
  <2>5. AnswersFit'
    BY <2>1, <2>2, <2>3 DEF ChecksFit, AnswersFit, ConnectedFor
  <2>6. ChecksAreOfTheRow'
    BY <2>1, <2>3, <2>4 DEF ChecksFit, ChecksAreOfTheRow
  <2>7. QED
    BY <2>5, <2>6 DEF ChecksFit
<1>7. ASSUME NEW gone \in SUBSET ServerIds, DropRows(gone), req' = req
      PROVE  ChecksFit'
  <2>1. overtaken' = overtaken \ gone /\ servers' = servers \ gone
    BY <1>7 DEF DropRows
  <2>2. \A s \in servers' : /\ endpoint'[s] = endpoint[s] /\ verified'[s] = verified[s]
                            /\ finding'[s] = finding[s]
    BY <1>0, <1>7, DropTypes DEF IBase
  <2>3. QED
    BY <1>7, <2>1, <2>2, RowsKept
<1>8. ASSUME NEW u \in Users, NEW t \in ServerIds, RemoveServer(u, t)
      PROVE  ChecksFit'
  BY <1>7, <1>8 DEF RemoveServer
<1>9. ASSUME NEW u \in Users, DeleteUser(u)
      PROVE  ChecksFit'
  <2>1. {s \in servers : owner[s] = u} \in SUBSET ServerIds
    BY <1>0 DEF TypeOK
  <2>2. QED
    BY <1>7, <1>9, <2>1 DEF DeleteUser
<1>10. ASSUME NEW u \in Users, NEW t \in ServerIds, NEW e \in Endpoints,
              UpdateServer(u, t, e)
       PROVE  ChecksFit'
  <2>1. /\ UNCHANGED <<servers, req>>
        /\ overtaken' = IF ConnectedFor(t) # {} THEN overtaken \union {t}
                        ELSE overtaken \ {t}
        /\ \A s \in servers \ {t} : /\ endpoint'[s] = endpoint[s] /\ verified'[s] = verified[s]
                                    /\ finding'[s] = finding[s]
        /\ verified'[t] = NoEndpoint /\ finding'[t] = NoEndpoint
    BY <1>0, <1>10 DEF UpdateServer, TypeOK
  <2>2. ConnectedFor(t)' = ConnectedFor(t)
    BY <2>1 DEF ConnectedFor
  <2>3. \A s \in servers' \ overtaken' : s # t => s \in servers \ overtaken
    BY <2>1
  <2>4. AnswersFit'
    <3> SUFFICES ASSUME NEW s \in servers' \ overtaken', NEW r \in ConnectedFor(s)'
                 PROVE  req'[r].endpoint = endpoint'[s]
      BY DEF AnswersFit
    <3>1. s # t
      BY <2>1, <2>2
    <3>2. r \in ConnectedFor(s)
      BY <2>1 DEF ConnectedFor
    <3>3. QED
      BY <2>1, <2>3, <3>1, <3>2 DEF ChecksFit, AnswersFit
  <2>5. ChecksAreOfTheRow'
    BY <2>1, <2>3 DEF ChecksFit, ChecksAreOfTheRow
  <2>6. QED
    BY <2>4, <2>5 DEF ChecksFit
<1>11. CASE Restart
  <2>1. \A x \in RequestIds : req'[x].kind = "idle"
    BY <1>11, IdleType DEF Restart
  <2>2. UNCHANGED <<servers, overtaken, endpoint, verified, finding>>
    BY <1>11 DEF Restart, rowVars
  <2>3. QED
    BY <2>1, <2>2, RowsKept
<1>12. ASSUME UNCHANGED <<servers, overtaken, endpoint, verified, finding, req>>
       PROVE  ChecksFit'
  BY <1>12, RowsKept
<1>13. ASSUME NEW e \in Endpoints, AdminConfirm(e) \/ AdminForget(e)
       PROVE  ChecksFit'
  BY <1>12, <1>13 DEF AdminConfirm, AdminForget, rowVars
<1>14. ASSUME NEW u \in Users, NEW t \in ServerIds, TrustHost(u, t)
       PROVE  ChecksFit'
  BY <1>12, <1>14 DEF TrustHost, rowVars
<1>15. CASE UNCHANGED vars
  BY <1>12, <1>15 DEF vars
<1>16. QED
  BY <1>1, <1>2, <1>3, <1>4, <1>5, <1>6, <1>8, <1>9, <1>10, <1>11, <1>13, <1>14, <1>15,
     NextCases

(* However rows are edited, removed and tested, what a row says was checked*)
(* is of the endpoint it names, outside an edit that met a connection.     *)
THEOREM ChecksAreOfTheRowHolds == Spec => []ChecksAreOfTheRow
<1>1. Init => ChecksFit
  BY DEF Init, ChecksFit, ChecksAreOfTheRow, AnswersFit
<1>2. ChecksFit => ChecksAreOfTheRow
  BY DEF ChecksFit
<1>3. QED
  BY <1>1, <1>2, Invariance, ChecksStep, PTL DEF Spec

-----------------------------------------------------------------------------
(* A rollback forgets what its request pinned                              *)

(* Who may forget keys, and where they are stored.                         *)
LEMMA PinningFacts ==
    ASSUME IBase
    PROVE  /\ \A e : \A r \in Pinning(e) :
                  r \in RequestIds /\ req[r].kind \in {"add", "probe"} /\ e \in Endpoints
           /\ \A r \in RequestIds : req[r].pinned # NoKeys => r \in Pinning(req[r].endpoint)
BY DEF IBase, PinnedByAsker, RequestsAreReal, Pinning

(* Where there are no keys, nobody undisturbed has pinned any.             *)
LEMMA NoKeysNoPins ==
    ASSUME IBase, RollsBackItsOwn, NEW e, known[e] = NoKeys
    PROVE  Pinning(e) \subseteq disturbed
<1> SUFFICES ASSUME NEW r \in Pinning(e), r \notin disturbed PROVE FALSE
  OBVIOUS
<1>1. r \in RequestIds /\ req[r].pinned # NoKeys /\ req[r].endpoint = e
  BY DEF Pinning
<1>2. req[r].pinned \in Keys
  BY <1>1 DEF IBase, TypeOK, RequestType
<1>3. known[e] = UserKeys(req[r].pinned)
  BY <1>1 DEF RollsBackItsOwn
<1>4. QED
  BY <1>2, <1>3, UserKeysStored

(* A change of one endpoint's keys that is recorded as a disturbance.      *)
LEMMA DisturbKeeps ==
    ASSUME IBase, RollsBackItsOwn, NEW e, Disturbs(e), req' = req,
           \A f \in Endpoints : f # e => known'[f] = known[f]
    PROVE  RollsBackItsOwn'
<1> SUFFICES ASSUME NEW r \in RequestIds \ disturbed', req[r].pinned # NoKeys
             PROVE  /\ known'[req[r].endpoint] = UserKeys(req[r].pinned)
                    /\ Pinning(req[r].endpoint)' \subseteq disturbed' \union {r}
  BY DEF RollsBackItsOwn
<1>1. disturbed \subseteq disturbed' /\ \A f : Pinning(f)' = Pinning(f)
  BY DEF Disturbs, Pinning
<1>2. r \in Pinning(req[r].endpoint) /\ req[r].endpoint \in Endpoints
  BY PinningFacts
<1>3. known'[req[r].endpoint] = known[req[r].endpoint]
  BY <1>2 DEF Disturbs
<1>4. QED
  BY <1>1, <1>3 DEF RollsBackItsOwn

LEMMA RollbackStep == IBase /\ RollsBackItsOwn /\ [Next]_vars => RollsBackItsOwn'
<1> SUFFICES ASSUME IBase, RollsBackItsOwn, [Next]_vars PROVE RollsBackItsOwn'
  OBVIOUS
<1>0. TypeOK
  BY DEF IBase
<1>1. ASSUME NEW q \in RequestIds, NEW u \in Users, NEW e \in Endpoints,
             AddBegins(q, u, e) \/ ProbeBegins(q, u, e)
      PROVE  RollsBackItsOwn'
  <2>1. PICK reviewed \in Keys \union {NoKeys}, kind \in {"add", "probe"} :
            /\ PinIfNone(e, reviewed)
            /\ req' = [req EXCEPT ![q] = Ask(kind, u, e, NoServer, PinsOf(e, reviewed))]
    BY <1>1 DEF AddBegins, ProbeBegins
  <2>2. disturbed' = disturbed /\ req[q].kind = "idle"
    BY <1>1 DEF AddBegins, ProbeBegins
  <2>3. req[q].pinned = NoKeys
    BY <2>2 DEF IBase, PinnedByAsker
  <2>4. \A x \in RequestIds : x # q => req'[x] = req[x]
    BY <1>0, <2>1 DEF TypeOK
  <2>5. req'[q].pinned = PinsOf(e, reviewed) /\ req'[q].endpoint = e
    BY <1>0, <2>1 DEF TypeOK, Ask
  <2>6. CASE PinsOf(e, reviewed) = NoKeys
    <3>1. known' = known
      BY <2>1, <2>6 DEF PinIfNone, PinsOf
    <3>2. \A f : Pinning(f)' = Pinning(f)
      BY <2>3, <2>4, <2>5, <2>6 DEF Pinning
    <3>3. QED
      BY <2>2, <2>4, <2>5, <2>6, <3>1, <3>2 DEF RollsBackItsOwn
  <2>7. CASE PinsOf(e, reviewed) # NoKeys
    <3>1. known[e] = NoKeys /\ reviewed = PinsOf(e, reviewed)
      BY <2>7 DEF PinsOf
    <3>2. known' = [known EXCEPT ![e] = UserKeys(reviewed)]
      BY <2>1, <2>7, <3>1 DEF PinIfNone
    <3>3. Pinning(e) \subseteq disturbed
      BY <3>1, NoKeysNoPins
    <3>4. /\ Pinning(e)' = Pinning(e) \union {q}
          /\ \A f : f # e => Pinning(f)' = Pinning(f)
      BY <2>3, <2>4, <2>5, <2>7 DEF Pinning
    <3>5. ASSUME NEW r \in RequestIds \ disturbed', req'[r].pinned # NoKeys
          PROVE  /\ known'[req'[r].endpoint] = UserKeys(req'[r].pinned)
                 /\ Pinning(req[r].endpoint)' \subseteq disturbed' \union {r}
      <4>1. CASE r = q
        BY <1>0, <2>2, <2>5, <3>1, <3>2, <3>3, <3>4, <4>1 DEF TypeOK
      <4>2. CASE r # q
        <5>1. req'[r] = req[r] /\ r \notin disturbed
          BY <2>2, <2>4, <3>5, <4>2
        <5>2. r \in Pinning(req[r].endpoint) /\ req[r].endpoint \in Endpoints
          BY <3>5, <5>1, PinningFacts
        <5>3. req[r].endpoint # e
          BY <3>3, <5>1, <5>2
        <5>4. known'[req[r].endpoint] = known[req[r].endpoint]
          BY <1>0, <3>2, <5>2, <5>3 DEF TypeOK
        <5>5. QED
          BY <2>2, <3>4, <3>5, <5>1, <5>3, <5>4 DEF RollsBackItsOwn
      <4>3. QED
        BY <4>1, <4>2
    <3>6. QED
      BY <3>5 DEF RollsBackItsOwn
  <2>8. QED
    BY <2>6, <2>7
<1>2. ASSUME known' = known, disturbed' = disturbed,
             \A x \in RequestIds : req'[x].pinned # NoKeys =>
                 req'[x].pinned = req[x].pinned /\ req'[x].endpoint = req[x].endpoint
      PROVE  RollsBackItsOwn'
  <2>1. \A f : Pinning(f)' \subseteq Pinning(f)
    BY <1>2 DEF Pinning
  <2>2. QED
    BY <1>2, <2>1 DEF RollsBackItsOwn
<1>3. ASSUME NEW q \in RequestIds, NEW u \in Users, NEW s \in ServerIds,
             StoredBegins(q, u, s)
      PROVE  RollsBackItsOwn'
  <2>1. PICK kind \in {"test", "start"} :
            req' = [req EXCEPT ![q] = Ask(kind, u, endpoint[s], s, NoKeys)]
    BY <1>3 DEF StoredBegins
  <2>2. \A x \in RequestIds : req'[x].pinned # NoKeys => req'[x] = req[x]
    BY <1>0, <2>1 DEF TypeOK, Ask
  <2>3. QED
    BY <1>2, <1>3, <2>2 DEF StoredBegins
<1>4. ASSUME NEW q \in RequestIds, Connect(q)
      PROVE  RollsBackItsOwn'
  <2>1. \A x \in RequestIds :
            req'[x].pinned = req[x].pinned /\ req'[x].endpoint = req[x].endpoint
    BY <1>0, <1>4 DEF Connect, TypeOK, RequestType
  <2>2. QED
    BY <1>2, <1>4, <2>1 DEF Connect
<1>5. ASSUME NEW q \in RequestIds, StoredAnswers(q)
      PROVE  RollsBackItsOwn'
  <2>1. req' = [req EXCEPT ![q] = Idle]
    BY <1>5 DEF StoredAnswers
  <2>2. \A x \in RequestIds : req'[x].pinned # NoKeys => req'[x] = req[x]
    BY <1>0, <2>1, IdleType DEF TypeOK
  <2>3. QED
    BY <1>2, <1>5, <2>2 DEF StoredAnswers
<1>6. ASSUME NEW q \in RequestIds, AddFails(q) \/ ProbeEnds(q)
      PROVE  RollsBackItsOwn'
  <2>1. Rollback(q) /\ req' = [req EXCEPT ![q] = Idle]
    BY <1>6 DEF AddFails, ProbeEnds
  <2>2. /\ \A x \in RequestIds : x # q => req'[x] = req[x]
        /\ req'[q].pinned = NoKeys
    BY <1>0, <2>1, IdleType DEF TypeOK
  <2>3. \A f : Pinning(f)' = Pinning(f) \ {q}
    BY <2>2 DEF Pinning
  <2>4. disturbed \ {q} \subseteq disturbed' /\ q \notin disturbed'
    BY <2>1 DEF Rollback
  <2>5. ASSUME NEW r \in RequestIds \ disturbed', req'[r].pinned # NoKeys
        PROVE  /\ known'[req'[r].endpoint] = UserKeys(req'[r].pinned)
               /\ Pinning(req[r].endpoint)' \subseteq disturbed' \union {r}
    <3>1. r # q /\ req'[r] = req[r] /\ r \notin disturbed
      BY <2>2, <2>4, <2>5
    <3> DEFINE e == req[r].endpoint
    <3>2. r \in Pinning(e) /\ e \in Endpoints
      BY <2>5, <3>1, PinningFacts
    <3>3. known[e] = UserKeys(req[r].pinned) /\ Pinning(e) \subseteq disturbed \union {r}
      BY <2>5, <3>1 DEF RollsBackItsOwn
    <3>4. known'[e] = known[e]
      <4>1. CASE req[q].pinned = NoKeys \/ req[q].endpoint # e
        BY <1>0, <2>1, <3>2, <4>1 DEF Rollback, TypeOK
      <4>2. CASE req[q].pinned # NoKeys /\ req[q].endpoint = e
        <5>1. q \in Pinning(e)
          BY <4>2, PinningFacts
        <5>2. q \in disturbed
          BY <3>1, <3>3, <5>1
        <5>3. known' # known => r \in disturbed'
          BY <2>1, <3>1, <3>2, <4>2, <5>2 DEF Rollback
        <5>4. QED
          BY <2>5, <5>3
      <4>3. QED
        BY <4>1, <4>2
    <3>5. QED
      BY <2>3, <2>4, <3>1, <3>3, <3>4
  <2>6. QED
    BY <2>5 DEF RollsBackItsOwn
<1>7. ASSUME NEW q \in RequestIds, NEW s \in ServerIds, AddCreates(q, s)
      PROVE  RollsBackItsOwn'
  <2>1. /\ req' = [req EXCEPT ![q] = Idle] /\ known' = known
        /\ disturbed' = disturbed \ {q}
    BY <1>7 DEF AddCreates
  <2>2. /\ \A x \in RequestIds : x # q => req'[x] = req[x]
        /\ req'[q].pinned = NoKeys
    BY <1>0, <2>1, IdleType DEF TypeOK
  <2>3. \A f : Pinning(f)' = Pinning(f) \ {q}
    BY <2>2 DEF Pinning
  <2>4. ASSUME NEW r \in RequestIds \ disturbed', req'[r].pinned # NoKeys
        PROVE  /\ known'[req'[r].endpoint] = UserKeys(req'[r].pinned)
               /\ Pinning(req[r].endpoint)' \subseteq disturbed' \union {r}
    <3>1. r # q /\ req'[r] = req[r] /\ r \notin disturbed
      BY <2>1, <2>2, <2>4
    <3>2. /\ known[req[r].endpoint] = UserKeys(req[r].pinned)
          /\ Pinning(req[r].endpoint) \subseteq disturbed \union {r}
      BY <2>4, <3>1 DEF RollsBackItsOwn
    <3>3. QED
      BY <2>1, <2>3, <3>1, <3>2
  <2>5. QED
    BY <2>4 DEF RollsBackItsOwn
<1>8. ASSUME NEW u \in Users, NEW s \in ServerIds, RemoveServer(u, s)
      PROVE  RollsBackItsOwn'
  BY <1>0, <1>8, DisturbKeeps DEF RemoveServer, ForgetIfLast, TypeOK
<1>9. ASSUME NEW u \in Users, NEW s \in ServerIds, NEW e \in Endpoints,
             UpdateServer(u, s, e)
      PROVE  RollsBackItsOwn'
  BY <1>0, <1>9, DisturbKeeps DEF UpdateServer, ForgetIfLast, TypeOK
<1>10. ASSUME NEW e \in Endpoints, AdminConfirm(e) \/ AdminForget(e)
       PROVE  RollsBackItsOwn'
  BY <1>0, <1>10, DisturbKeeps DEF AdminConfirm, AdminForget, TypeOK
<1>11. ASSUME NEW u \in Users, NEW s \in ServerIds, TrustHost(u, s)
       PROVE  RollsBackItsOwn'
  <2>1. /\ known[endpoint[s]] = NoKeys /\ req' = req /\ disturbed' = disturbed
        /\ \A f \in Endpoints : f # endpoint[s] => known'[f] = known[f]
    BY <1>0, <1>11 DEF TrustHost, TypeOK
  <2>2. Pinning(endpoint[s]) \subseteq disturbed
    BY <2>1, NoKeysNoPins
  <2>3. ASSUME NEW r \in RequestIds \ disturbed', req'[r].pinned # NoKeys
        PROVE  /\ known'[req'[r].endpoint] = UserKeys(req'[r].pinned)
               /\ Pinning(req[r].endpoint)' \subseteq disturbed' \union {r}
    <3>1. r \in Pinning(req[r].endpoint) /\ req[r].endpoint \in Endpoints
      BY <2>1, <2>3, PinningFacts
    <3>2. req[r].endpoint # endpoint[s]
      BY <2>1, <2>2, <2>3, <3>1
    <3>3. \A f : Pinning(f)' = Pinning(f)
      BY <2>1 DEF Pinning
    <3>4. QED
      BY <2>1, <2>3, <3>1, <3>2, <3>3 DEF RollsBackItsOwn
  <2>4. QED
    BY <2>3 DEF RollsBackItsOwn
<1>12. ASSUME NEW u \in Users, DeleteUser(u)
       PROVE  RollsBackItsOwn'
  BY <1>2, <1>12 DEF DeleteUser
<1>13. CASE Restart
  <2>1. \A x \in RequestIds : req'[x].pinned = NoKeys
    BY <1>13, IdleType DEF Restart
  <2>2. QED
    BY <2>1 DEF RollsBackItsOwn
<1>14. CASE UNCHANGED vars
  BY <1>2, <1>14 DEF vars
<1>15. QED
  BY <1>1, <1>3, <1>4, <1>5, <1>6, <1>7, <1>8, <1>9, <1>10, <1>11, <1>12, <1>13, <1>14,
     NextCases

(* However many requests pin, probe and fail at once, a rollback forgets   *)
(* what its request pinned, unless an admin or a clean-up came between.    *)
THEOREM RollsBackItsOwnHolds == Spec => []RollsBackItsOwn
<1>1. Init => RollsBackItsOwn
  BY IdleType DEF Init, RollsBackItsOwn
<1>2. QED
  BY <1>1, Invariance, RollbackStep, PTL DEF Spec

-----------------------------------------------------------------------------
(* Keys have a subject                                                     *)

(* What makes TrustHasSubject true of one endpoint.                        *)
Accounted(e) == ServersAt(e) # {} \/ Pinning(e) # {} \/ e \in abandoned

LEMMA OfUserFacts ==
    /\ ~OfUser(NoKeys)
    /\ \A k \in Keys : OfUser(UserKeys(k)) /\ ~OfUser([by |-> "admin", keys |-> k])
<1>1. [by : {"user"}, keys : Keys] \subseteq Stored
  BY DEF Stored
<1>2. ~OfUser(NoKeys)
  BY <1>1, NoKeysAssumption DEF OfUser
<1>3. \A k \in Keys : OfUser(UserKeys(k))
  BY DEF OfUser, UserKeys
<1>4. ASSUME NEW k \in Keys PROVE ~OfUser([by |-> "admin", keys |-> k])
  <2>1. \A x \in [by : {"user"}, keys : Keys] : x.by = "user"
    OBVIOUS
  <2>2. [by |-> "admin", keys |-> k].by # "user"
    OBVIOUS
  <2>3. QED
    BY <2>1, <2>2 DEF OfUser
<1>5. QED
  BY <1>2, <1>3, <1>4

LEMMA SubjectStep ==
    IBase /\ TrustHasSubject /\ [Next]_vars => TrustHasSubject'
<1> SUFFICES ASSUME IBase, TrustHasSubject, [Next]_vars,
                    NEW f \in Endpoints, OfUser(known'[f])
             PROVE  Accounted(f)'
  BY DEF TrustHasSubject, Accounted
<1>0. TypeOK /\ (OfUser(known[f]) => Accounted(f))
  BY DEF IBase, TrustHasSubject, Accounted
<1>1. ASSUME NEW r \in RequestIds, NEW u \in Users, NEW e \in Endpoints,
             AddBegins(r, u, e) \/ ProbeBegins(r, u, e)
      PROVE  Accounted(f)'
  <2>1. PICK reviewed \in Keys \union {NoKeys}, kind \in {"add", "probe"} :
            /\ PinIfNone(e, reviewed)
            /\ req' = [req EXCEPT ![r] = Ask(kind, u, e, NoServer, PinsOf(e, reviewed))]
    BY <1>1 DEF AddBegins, ProbeBegins
  <2>2. UNCHANGED <<servers, endpoint, abandoned>> /\ req[r].kind = "idle"
    BY <1>1 DEF AddBegins, ProbeBegins, rowVars
  <2>3. r \notin Pinning(f)
    BY <2>2, PinningFacts
  <2>4. \A x \in RequestIds : x # r => req'[x] = req[x]
    BY <1>0, <2>1 DEF TypeOK
  <2>5. CASE OfUser(known[f])
    <3>1. Pinning(f) \subseteq Pinning(f)'
      BY <2>3, <2>4 DEF Pinning
    <3>2. QED
      BY <1>0, <2>2, <2>5, <3>1 DEF Accounted, ServersAt
  <2>6. CASE ~OfUser(known[f])
    <3>1. known'[f] # known[f]
      BY <2>6
    <3>2. reviewed # NoKeys /\ known[e] = NoKeys /\ e = f
      BY <1>0, <2>1, <3>1 DEF PinIfNone, TypeOK
    <3>3. r \in Pinning(f)'
      BY <1>0, <2>1, <3>2 DEF Pinning, Ask, PinsOf, TypeOK
    <3>4. QED
      BY <3>3 DEF Accounted
  <2>7. QED
    BY <2>5, <2>6
<1>2. ASSUME NEW r \in RequestIds, NEW u \in Users, NEW s \in ServerIds,
             StoredBegins(r, u, s)
      PROVE  Accounted(f)'
  <2>1. r \notin Pinning(f)
    BY <1>2, PinningFacts DEF StoredBegins
  <2>2. \A x \in RequestIds : x # r => req'[x] = req[x]
    BY <1>0, <1>2 DEF StoredBegins, TypeOK
  <2>3. Pinning(f) \subseteq Pinning(f)'
    BY <2>1, <2>2 DEF Pinning
  <2>4. QED
    BY <1>0, <1>2, <2>3 DEF StoredBegins, Accounted, ServersAt, rowVars
<1>3. ASSUME NEW r \in RequestIds, Connect(r)
      PROVE  Accounted(f)'
  <2>1. \A x \in RequestIds :
            req'[x].pinned = req[x].pinned /\ req'[x].endpoint = req[x].endpoint
    BY <1>0, <1>3 DEF Connect, TypeOK, RequestType
  <2>2. Pinning(f)' = Pinning(f)
    BY <2>1 DEF Pinning
  <2>3. QED
    BY <1>0, <1>3, <2>2 DEF Connect, Accounted, ServersAt, rowVars
<1>4. ASSUME NEW r \in RequestIds, AddFails(r) \/ ProbeEnds(r)
      PROVE  Accounted(f)'
  <2>1. Rollback(r) /\ req' = [req EXCEPT ![r] = Idle]
        /\ UNCHANGED <<servers, endpoint, abandoned>>
    BY <1>4 DEF AddFails, ProbeEnds, rowVars
  <2>2. known'[f] # NoKeys
    BY OfUserFacts
  <2>3. known'[f] = known[f] /\ ~(req[r].pinned # NoKeys /\ req[r].endpoint = f)
    BY <1>0, <2>1, <2>2 DEF Rollback, TypeOK
  <2>4. Pinning(f) \subseteq Pinning(f)'
    BY <1>0, <2>1, <2>3 DEF Pinning, TypeOK
  <2>5. QED
    BY <1>0, <2>1, <2>3, <2>4 DEF Accounted, ServersAt
<1>5. ASSUME NEW r \in RequestIds, StoredAnswers(r)
      PROVE  Accounted(f)'
  <2>1. r \notin Pinning(f)
    BY <1>5, PinningFacts DEF StoredAnswers
  <2>2. Pinning(f) \subseteq Pinning(f)'
    BY <1>0, <1>5, <2>1 DEF StoredAnswers, Pinning, TypeOK
  <2>3. QED
    BY <1>0, <1>5, <2>2 DEF StoredAnswers, Accounted, ServersAt
<1>6. ASSUME NEW r \in RequestIds, NEW s \in ServerIds, AddCreates(r, s)
      PROVE  Accounted(f)'
  <2>1. OfUser(known[f])
    BY <1>6 DEF AddCreates
  <2>2. s \notin servers
    BY <1>0, <1>6 DEF AddCreates, TypeOK
  <2>3. CASE req[r].endpoint = f
    <3>1. s \in servers' /\ endpoint'[s] = f
      BY <1>0, <1>6, <2>3 DEF AddCreates, TypeOK
    <3>2. QED
      BY <3>1 DEF Accounted, ServersAt
  <2>4. CASE req[r].endpoint # f
    <3>1. \A x \in servers : x \in servers' /\ endpoint'[x] = endpoint[x]
      BY <1>0, <1>6, <2>2 DEF AddCreates, TypeOK
    <3>2. ServersAt(f) \subseteq ServersAt(f)'
      BY <3>1 DEF ServersAt
    <3>3. Pinning(f) \subseteq Pinning(f)'
      BY <1>0, <1>6, <2>4 DEF AddCreates, Pinning, TypeOK
    <3>4. abandoned' = abandoned
      BY <1>6 DEF AddCreates
    <3>5. QED
      BY <1>0, <2>1, <3>2, <3>3, <3>4 DEF Accounted
  <2>5. QED
    BY <2>3, <2>4
<1>7. ASSUME NEW u \in Users, NEW s \in ServerIds, RemoveServer(u, s)
      PROVE  Accounted(f)'
  <2>1. /\ UNCHANGED <<req, abandoned>> /\ servers' = servers \ {s}
        /\ \A x \in servers' : endpoint'[x] = endpoint[x]
    BY <1>0, <1>7, DropTypes DEF RemoveServer, IBase
  <2>2. Pinning(f)' = Pinning(f)
    BY <2>1 DEF Pinning
  <2>3. CASE endpoint[s] = f
    <3>1. known'[f] # NoKeys
      BY OfUserFacts
    <3>2. \E x \in servers' : endpoint[x] = f
      BY <1>0, <1>7, <2>3, <3>1 DEF RemoveServer, ForgetIfLast, TypeOK
    <3>3. QED
      BY <2>1, <3>2 DEF Accounted, ServersAt
  <2>4. CASE endpoint[s] # f
    <3>1. known'[f] = known[f]
      BY <1>0, <1>7, <2>4 DEF RemoveServer, ForgetIfLast, TypeOK
    <3>2. ServersAt(f) \subseteq ServersAt(f)'
      BY <2>1, <2>4 DEF ServersAt
    <3>3. QED
      BY <1>0, <2>1, <2>2, <3>1, <3>2 DEF Accounted
  <2>5. QED
    BY <2>3, <2>4
<1>8. ASSUME NEW u \in Users, NEW s \in ServerIds, TrustHost(u, s)
      PROVE  Accounted(f)'
  <2>1. UNCHANGED <<servers, endpoint, req, abandoned>>
    BY <1>8 DEF TrustHost, rowVars
  <2>2. CASE endpoint[s] = f
    BY <1>8, <2>1, <2>2 DEF TrustHost, Owns, Accounted, ServersAt
  <2>3. CASE endpoint[s] # f
    <3>1. known'[f] = known[f]
      BY <1>0, <1>8, <2>3 DEF TrustHost, TypeOK
    <3>2. QED
      BY <1>0, <2>1, <3>1 DEF Accounted, ServersAt, Pinning
  <2>4. QED
    BY <2>2, <2>3
<1>9. ASSUME NEW u \in Users, NEW s \in ServerIds, NEW e \in Endpoints,
             UpdateServer(u, s, e)
      PROVE  Accounted(f)'
  <2>1. UNCHANGED <<servers, req, abandoned>> /\ endpoint' = [endpoint EXCEPT ![s] = e]
    BY <1>9 DEF UpdateServer
  <2>2. Pinning(f)' = Pinning(f)
    BY <2>1 DEF Pinning
  <2>3. CASE endpoint[s] = f
    <3>1. known'[f] # NoKeys
      BY OfUserFacts
    <3>2. \E x \in servers : endpoint'[x] = f
      BY <1>0, <1>9, <2>3, <3>1 DEF UpdateServer, ForgetIfLast, TypeOK
    <3>3. QED
      BY <2>1, <3>2 DEF Accounted, ServersAt
  <2>4. CASE endpoint[s] # f
    <3>1. known'[f] = known[f]
      BY <1>0, <1>9, <2>4 DEF UpdateServer, ForgetIfLast, TypeOK
    <3>2. ServersAt(f) \subseteq ServersAt(f)'
      BY <1>0, <2>1, <2>4 DEF ServersAt, TypeOK
    <3>3. QED
      BY <1>0, <2>1, <2>2, <3>1, <3>2 DEF Accounted
  <2>5. QED
    BY <2>3, <2>4
<1>10. ASSUME NEW e \in Endpoints, AdminConfirm(e) \/ AdminForget(e)
       PROVE  Accounted(f)'
  <2>1. known'[f] = known[f]
    BY <1>0, <1>10, OfUserFacts DEF AdminConfirm, AdminForget, TypeOK
  <2>2. QED
    BY <1>0, <1>10, <2>1 DEF AdminConfirm, AdminForget, Accounted, ServersAt, Pinning, rowVars
<1>11. ASSUME NEW u \in Users, DeleteUser(u)
       PROVE  Accounted(f)'
  <2>1. UNCHANGED <<known, req>> /\ abandoned \subseteq abandoned'
    BY <1>11 DEF DeleteUser
  <2>2. Pinning(f)' = Pinning(f)
    BY <2>1 DEF Pinning
  <2>3. CASE \E s \in ServersAt(f) : owner[s] # u
    <3>1. PICK s \in servers : endpoint[s] = f /\ owner[s] # u
      BY <2>3 DEF ServersAt
    <3>2. s \in servers' /\ endpoint'[s] = endpoint[s]
      BY <1>0, <1>11, <3>1 DEF DeleteUser, DropRows, TypeOK
    <3>3. QED
      BY <3>1, <3>2 DEF Accounted, ServersAt
  <2>4. CASE \A s \in ServersAt(f) : owner[s] = u
    <3>1. ServersAt(f) # {} => f \in abandoned'
      BY <1>11, <2>4 DEF DeleteUser
    <3>2. QED
      BY <1>0, <2>1, <2>2, <3>1 DEF Accounted
  <2>5. QED
    BY <2>3, <2>4
<1>12. CASE Restart
  <2>1. UNCHANGED <<known, servers, endpoint>> /\ abandoned \subseteq abandoned'
    BY <1>12 DEF Restart, rowVars
  <2>2. CASE Pinning(f) # {}
    BY <1>12, <2>2 DEF Restart, Accounted, Pinning
  <2>3. CASE Pinning(f) = {}
    BY <1>0, <2>1, <2>3 DEF Accounted, ServersAt
  <2>4. QED
    BY <2>2, <2>3
<1>13. CASE UNCHANGED vars
  BY <1>0, <1>13 DEF vars, Accounted, ServersAt, Pinning
<1>14. QED
  BY <1>1, <1>2, <1>3, <1>4, <1>5, <1>6, <1>7, <1>8, <1>9, <1>10, <1>11, <1>12,
     <1>13, NextCases

(* Keys a user pinned are always there for a row or a request in flight,   *)
(* except where an account was deleted or the process died.                *)
THEOREM TrustHasSubjectHolds == Spec => []TrustHasSubject
<1>1. Init => TrustHasSubject
  BY OfUserFacts DEF Init, TrustHasSubject
<1>2. QED
  BY <1>1, Invariance, SubjectStep, PTL DEF Spec

-----------------------------------------------------------------------------
(* How keys may change                                                     *)

(* Each step leaves the keys of an endpoint alone, or is one of these.     *)
LEMMA KeysStep ==
    ASSUME IBase, Next, NEW e \in Endpoints, known'[e] # known[e], known[e] # NoKeys
    PROVE  \/ AdminConfirm(e) \/ AdminForget(e)
           \/ ~ \E s \in servers' : endpoint'[s] = e
           \/ known'[e] = NoKeys /\ \E r \in Pinning(e) : req'[r].pinned = NoKeys
<1>0. TypeOK
  BY DEF IBase
<1>1. ASSUME NEW r \in RequestIds, NEW u \in Users, NEW x \in Endpoints,
             AddBegins(r, u, x) \/ ProbeBegins(r, u, x)
      PROVE  FALSE
  BY <1>0, <1>1 DEF AddBegins, ProbeBegins, PinIfNone, TypeOK
<1>2. ASSUME NEW r \in RequestIds, AddFails(r) \/ ProbeEnds(r)
      PROVE  known'[e] = NoKeys /\ r \in Pinning(e) /\ req'[r].pinned = NoKeys
  <2>1. Rollback(r) /\ req' = [req EXCEPT ![r] = Idle]
    BY <1>2 DEF AddFails, ProbeEnds
  <2>2. known'[e] = NoKeys /\ req[r].pinned # NoKeys /\ req[r].endpoint = e
    BY <1>0, <2>1 DEF Rollback, TypeOK
  <2>3. req'[r].pinned = NoKeys
    BY <1>0, <2>1, IdleType DEF TypeOK
  <2>4. QED
    BY <2>2, <2>3 DEF Pinning
<1>3. ASSUME NEW u \in Users, NEW s \in ServerIds, RemoveServer(u, s)
      PROVE  ~ \E x \in servers' : endpoint'[x] = e
  <2>1. ~ \E x \in servers' : endpoint[x] = e
    BY <1>0, <1>3 DEF RemoveServer, ForgetIfLast, TypeOK
  <2>2. \A x \in servers' : endpoint'[x] = endpoint[x]
    BY <1>0, <1>3, DropTypes DEF RemoveServer, IBase
  <2>3. QED
    BY <2>1, <2>2
<1>4. ASSUME NEW u \in Users, NEW s \in ServerIds, NEW x \in Endpoints,
             UpdateServer(u, s, x)
      PROVE  ~ \E t \in servers' : endpoint'[t] = e
  BY <1>0, <1>4 DEF UpdateServer, ForgetIfLast, TypeOK
<1>5. ASSUME NEW u \in Users, NEW s \in ServerIds, TrustHost(u, s)
      PROVE  FALSE
  BY <1>0, <1>5 DEF TrustHost, TypeOK
<1>6. ASSUME NEW x \in Endpoints, AdminConfirm(x) \/ AdminForget(x)
      PROVE  AdminConfirm(e) \/ AdminForget(e)
  <2>1. x = e
    BY <1>0, <1>6 DEF AdminConfirm, AdminForget, TypeOK
  <2>2. QED
    BY <1>6, <2>1
<1>7. QED
  <2>1. \A r \in RequestIds, u \in Users, s \in ServerIds : ~StoredBegins(r, u, s)
    BY DEF StoredBegins
  <2>2. \A r \in RequestIds : ~Connect(r) /\ ~StoredAnswers(r)
    BY DEF Connect, StoredAnswers
  <2>3. \A r \in RequestIds, s \in ServerIds : ~AddCreates(r, s)
    BY DEF AddCreates
  <2>4. \A u \in Users : ~DeleteUser(u)
    BY DEF DeleteUser
  <2>5. ~Restart
    BY DEF Restart
  <2>6. QED
    BY <1>1, <1>2, <1>3, <1>4, <1>5, <1>6, <2>1, <2>2, <2>3, <2>4, <2>5, NextCases

(* While a row points at an endpoint, only an admin puts other keys there, *)
(* and only the admin or a request that pinned keys there forgets them.    *)
THEOREM SharedTrustKeptHolds == Spec => SharedTrustKept
<1> DEFINE Step ==
        \A e \in Endpoints :
            known[e] # NoKeys /\ known'[e] # known[e]
                /\ (\E s \in servers' : endpoint'[s] = e)
                => \/ AdminConfirm(e) \/ AdminForget(e)
                   \/ /\ known'[e] = NoKeys
                      /\ \E r \in Pinning(e) : req'[r].pinned = NoKeys
<1>1. IBase /\ [Next]_vars => [Step]_vars
  BY KeysStep
<1>2. QED
  BY <1>1, Invariance, PTL DEF Spec, SharedTrustKept

-----------------------------------------------------------------------------
(* What a passed checklist promises and what a failed one means, for every *)
(* host that TargetHost describes.                                         *)

LEMMA HostFields ==
    ASSUME NEW h \in Hosts
    PROVE  /\ h.tcpdump \in {"path", "sbin", "local", "noexec", "absent"}
           /\ h.group \in {"own", "privileged", "unknown"}
           /\ h.caps \in {"none", "raw", "refused"}
           /\ h.sudo \in {"absent", "password", "scoped", "all"}
           /\ h.world \in BOOLEAN /\ h.getcap \in BOOLEAN
           /\ h.root \in BOOLEAN /\ h.tmp \in {"anyone", "root", "nobody"}
           /\ h.root => h.tcpdump # "noexec"
BY DEF Hosts

LEMMA CheckFields ==
    \A n, s, x : Check(n, s, x).status = s /\ Check(n, s, x).fix = x
BY DEF Check

LEMMA NotFailed ==
    \A n, x : /\ Check(n, "ok", x).status # "fail"
              /\ Check(n, "info", x).status # "fail"
              /\ Check(n, "warn", x).status # "fail"
BY DEF Check

(* Why sudo is refused: nothing lets it run, and the remedy follows from   *)
(* what the target has instead.                                            *)
LEMMA SudoFails ==
    ASSUME NEW f
    PROVE  /\ f.sudoTrue => \A c \in SudoChecks(f) : c.status # "fail"
           /\ ~f.sudoTrue => \E c \in SudoChecks(f) : c.status = "fail"
           /\ ~f.sudoTrue => \A c \in SudoChecks(f) :
                 \/ f.caps /\ c.fix = "untick"
                 \/ ~f.caps /\ f.sudo /\ c.fix = "sudoers_or_setcap"
                 \/ ~f.caps /\ ~f.sudo /\ c.fix = "setcap"
<1>1. CASE f.sudoTrue
  BY <1>1, NotFailed DEF SudoChecks
<1>2. CASE ~f.sudoTrue /\ f.caps
  <2>1. SudoChecks(f) = {Check("privilege", "fail", "untick")}
    BY <1>2 DEF SudoChecks
  <2>2. QED BY <1>2, <2>1, CheckFields
<1>3. CASE ~f.sudoTrue /\ ~f.caps /\ f.sudo
  <2>1. SudoChecks(f) = {Check("privilege", "fail", "sudoers_or_setcap")}
    BY <1>3 DEF SudoChecks
  <2>2. \A c \in SudoChecks(f) : c.status = "fail" /\ c.fix = "sudoers_or_setcap"
    BY <2>1, CheckFields
  <2>3. SudoChecks(f) # {}
    BY <2>1
  <2>4. QED BY <1>3, <2>2, <2>3
<1>4. CASE ~f.sudoTrue /\ ~f.caps /\ ~f.sudo
  <2>1. SudoChecks(f) = {Check("privilege", "fail", "setcap")}
    BY <1>4 DEF SudoChecks
  <2>2. \A c \in SudoChecks(f) : c.status = "fail" /\ c.fix = "setcap"
    BY <2>1, CheckFields
  <2>3. SudoChecks(f) # {}
    BY <2>1
  <2>4. QED BY <1>4, <2>2, <2>3
<1>5. QED BY <1>1, <1>2, <1>3, <1>4

(* What the probe's test of /tmp finds, as the login user.                 *)
TmpOpen(h) == h.tmp = "anyone" \/ (h.root /\ h.tmp = "root")

(* A finished probe that found tcpdump lists these checks, and no other    *)
(* can fail.                                                               *)
LEMMA FoundReport ==
    ASSUME NEW h \in Hosts, NEW useSudo \in BOOLEAN, Found(h)
    PROVE  /\ Check("tmp", IF TmpOpen(h) THEN "ok" ELSE "fail", "open_tmp") \in Report(h, useSudo)
           /\ PrivilegeChecks(Facts(h), useSudo) \subseteq Report(h, useSudo)
           /\ \A c \in Report(h, useSudo) : c.status = "fail" =>
                 \/ c \in PrivilegeChecks(Facts(h), useSudo)
                 \/ ~TmpOpen(h) /\ c.fix = "open_tmp"
<1>1. Facts(h).path /\ Facts(h).tmp = TmpOpen(h)
  BY DEF Facts, TmpOpen
<1> DEFINE f == Facts(h)
           plain == {Check("installed", "ok", ""), MultiInterfaceCheck(f),
                     Check("PATH", IF f.onPath THEN "ok" ELSE "warn", ""),
                     Check("tmp", IF f.tmp THEN "ok" ELSE "fail", "open_tmp")}
           unread == {c \in {Check("capabilities", "warn", "install_getcap")} :
                         f.capsUnavailable /\ ~f.caps /\ ~f.root}
<1>2. Report(h, useSudo) = (plain \union PrivilegeChecks(f, useSudo)) \union unread
  BY <1>1 DEF Report, Checks
<1>3. \A c \in unread : c.status # "fail"
  BY NotFailed
<1>4. \A c \in plain : c.status = "fail" => ~TmpOpen(h) /\ c.fix = "open_tmp"
  <2>1. MultiInterfaceCheck(f).status # "fail"
    BY NotFailed DEF MultiInterfaceCheck
  <2>2. Check("PATH", IF f.onPath THEN "ok" ELSE "warn", "").status # "fail"
    BY NotFailed
  <2>3. CASE TmpOpen(h)
    <3>1. Check("tmp", IF f.tmp THEN "ok" ELSE "fail", "open_tmp").status # "fail"
      BY <2>3, <1>1, NotFailed
    <3>2. QED BY <3>1, <2>1, <2>2, NotFailed
  <2>4. CASE ~TmpOpen(h)
    <3>1. ~f.tmp
      BY <2>4, <1>1
    <3>2. Check("tmp", IF f.tmp THEN "ok" ELSE "fail", "open_tmp") = Check("tmp", "fail", "open_tmp")
      BY <3>1
    <3>3. Check("tmp", IF f.tmp THEN "ok" ELSE "fail", "open_tmp").fix = "open_tmp"
      BY <3>2, CheckFields
    <3>4. QED BY <2>4, <3>3, <2>1, <2>2, NotFailed
  <2>5. QED BY <2>3, <2>4
<1> HIDE DEF unread
<1>5. Check("tmp", IF TmpOpen(h) THEN "ok" ELSE "fail", "open_tmp") \in plain
  BY <1>1
<1> HIDE DEF plain, f
<1>6. QED
  BY <1>2, <1>3, <1>4, <1>5 DEF f

(* Without tcpdump there is one check, and it fails.                       *)
LEMMA MissingReport ==
    ASSUME NEW h \in Hosts, NEW useSudo \in BOOLEAN, ~Found(h)
    PROVE  Report(h, useSudo) =
              {IF h.tcpdump = "noexec"
                 THEN Check("installed", "fail",
                            IF h.group = "own" THEN "join_group" ELSE "limit_to_group")
               ELSE Check("installed", "fail", "install")}
<1>1. Facts(h).path = FALSE /\ Facts(h).noexec = (h.tcpdump = "noexec") /\ Facts(h).group = h.group
  BY DEF Facts
<1>2. QED
  BY <1>1 DEF Report, Checks, UnrunnableTcpdump

(* Which privilege check can fail, and what else each of them tells.       *)
LEMMA PrivilegeFails ==
    ASSUME NEW f, NEW useSudo \in BOOLEAN
    PROVE  /\ (\A c \in PrivilegeChecks(f, useSudo) : c.status # "fail") =>
                  /\ ~(f.caps /\ f.version = "refused")
                  /\ f.root \/ (useSudo /\ f.sudoTrue) \/ (~useSudo /\ f.caps)
           /\ \A c \in PrivilegeChecks(f, useSudo) : c.status = "fail" =>
                  \/ f.caps /\ f.version = "refused" /\ c.fix = "narrow"
                  \/ /\ ~(f.caps /\ f.version = "refused")
                     /\ ~f.root /\ useSudo /\ ~f.sudoTrue
                     /\ \/ f.caps /\ c.fix = "untick"
                        \/ ~f.caps /\ f.sudo /\ c.fix = "sudoers_or_setcap"
                        \/ ~f.caps /\ ~f.sudo /\ c.fix = "setcap"
                  \/ ~f.root /\ ~useSudo /\ ~f.caps /\ c.fix = "sudoers_or_setcap"
<1> DEFINE refused == f.caps /\ f.version = "refused"
           who == {c \in {Check("who", "info", "limit_to_group")} : f.caps /\ ~f.root /\ f.world}
<1>1. \A c \in who : c.status # "fail"
  BY NotFailed
<1>2. ~refused => PrivilegeChecks(f, useSudo) =
          (IF f.root THEN {Check("privilege", "ok", "")}
           ELSE IF useSudo THEN SudoChecks(f)
           ELSE IF f.caps THEN {Check("privilege", "ok", "")}
           ELSE {Check("privilege", "fail", "sudoers_or_setcap")}) \union who
  BY DEF PrivilegeChecks
<1> HIDE DEF who
<1>3. CASE refused
  <2>1. PrivilegeChecks(f, useSudo) = {Check("privilege", "fail", "narrow")}
    BY <1>3 DEF PrivilegeChecks
  <2>2. QED BY <2>1, <1>3, CheckFields
<1>4. CASE ~refused /\ (f.root \/ (~useSudo /\ f.caps))
  <2>1. PrivilegeChecks(f, useSudo) = {Check("privilege", "ok", "")} \union who
    BY <1>2, <1>4
  <2>2. QED BY <2>1, <1>1, <1>4, NotFailed
<1>5. CASE ~refused /\ ~f.root /\ useSudo
  <2>1. PrivilegeChecks(f, useSudo) = SudoChecks(f) \union who
    BY <1>2, <1>5
  <2>2. QED BY <2>1, <1>1, <1>5, SudoFails
<1>6. CASE ~refused /\ ~f.root /\ ~useSudo /\ ~f.caps
  <2>1. PrivilegeChecks(f, useSudo) = {Check("privilege", "fail", "sudoers_or_setcap")} \union who
    BY <1>2, <1>6
  <2>2. Check("privilege", "fail", "sudoers_or_setcap").status = "fail"
    BY CheckFields
  <2>3. \A c \in PrivilegeChecks(f, useSudo) :
           c.status = "fail" => c.fix = "sudoers_or_setcap"
    BY <2>1, <1>1, CheckFields
  <2>4. QED BY <2>1, <2>2, <2>3, <1>6
<1>7. QED
  BY <1>3, <1>4, <1>5, <1>6

(* The facts the verdict rests on, for a host.                             *)
LEMMA FactsOf ==
    ASSUME NEW h \in Hosts
    PROVE  /\ Facts(h).root = h.root
           /\ Facts(h).caps <=> Asked(h) /\ h.getcap /\ h.caps # "none"
           /\ Facts(h).version = "refused" <=> Asked(h) /\ h.caps = "refused"
           /\ Facts(h).sudo <=> h.sudo # "absent"
           /\ Facts(h).sudoTrue <=> h.sudo = "all" \/ (h.root /\ h.sudo # "absent")
<1>1. /\ Facts(h).root = h.root
      /\ Facts(h).caps = (Asked(h) /\ h.getcap /\ h.caps # "none")
      /\ Facts(h).sudo = (h.sudo # "absent")
      /\ Facts(h).sudoTrue = (h.sudo = "all" \/ (h.root /\ h.sudo # "absent"))
  BY DEF Facts
<1>2. Facts(h).version = IF Asked(h) THEN IF h.caps = "refused" THEN "refused" ELSE "known" ELSE ""
  BY DEF Facts
<1>3. CASE Asked(h) /\ h.caps = "refused"
  BY <1>1, <1>2, <1>3
<1>4. CASE Asked(h) /\ h.caps # "refused"
  <2>1. Facts(h).version = "known"
    BY <1>2, <1>4
  <2>2. QED BY <1>1, <1>4, <2>1
<1>5. CASE ~Asked(h)
  <2>1. Facts(h).version = ""
    BY <1>2, <1>5
  <2>2. QED BY <1>1, <1>5, <2>1
<1>6. QED BY <1>3, <1>4, <1>5

(* A host that passes the check lets a capture run (evaluate_prereqs and   *)
(* run_tcpdump agree), but for a root login with sudo ticked and no sudo,  *)
(* and capabilities that the probe cannot read.                            *)
THEOREM PassedHostsCapture ==
    \A h \in Hosts, useSudo \in BOOLEAN : PassMeansCapture(h, useSudo)
<1> SUFFICES ASSUME NEW h \in Hosts, NEW useSudo \in BOOLEAN, Passed(Report(h, useSudo)),
                    ~(h.root /\ useSudo /\ h.sudo = "absent"),
                    ~(h.caps = "refused" /\ CapsUnread(h))
             PROVE  CanCapture(h, useSudo)
  BY DEF PassMeansCapture
<1>1. \A c \in Report(h, useSudo) : c.status # "fail"
  BY DEF Passed
<1>2. Found(h)
  <2>1. SUFFICES ASSUME ~Found(h) PROVE FALSE
    OBVIOUS
  <2>2. CASE h.tcpdump = "noexec"
    BY <2>1, <2>2, <1>1, MissingReport, CheckFields
  <2>3. CASE h.tcpdump # "noexec"
    BY <2>1, <2>3, <1>1, MissingReport, CheckFields
  <2>4. QED BY <2>2, <2>3
<1>3. TmpOpen(h)
  <2>1. SUFFICES ASSUME ~TmpOpen(h) PROVE FALSE
    OBVIOUS
  <2>2. Check("tmp", "fail", "open_tmp") \in Report(h, useSudo)
    BY <1>2, <2>1, FoundReport
  <2>3. QED BY <2>2, <1>1, CheckFields
<1>4. \A c \in PrivilegeChecks(Facts(h), useSudo) : c.status # "fail"
  BY <1>1, <1>2, FoundReport
<1>5. /\ ~(Facts(h).caps /\ Facts(h).version = "refused")
      /\ \/ Facts(h).root
         \/ useSudo /\ Facts(h).sudoTrue
         \/ ~useSudo /\ Facts(h).caps
  BY <1>4, PrivilegeFails
<1>6. h.caps # "refused"
  BY <1>5, FactsOf DEF CapsUnread
<1>7. Privileged(h, useSudo)
  BY <1>5, <1>6, FactsOf, HostFields DEF Privileged, SudoRuns
<1>8. QED BY <1>2, <1>3, <1>6, <1>7 DEF CanCapture, Starts, Writes, TmpOpen

(* A host that fails the check does not let a capture run, but for a       *)
(* grant of sudo for tcpdump alone, capabilities the probe cannot read,    *)
(* and a binary that only sudo may run or a /tmp only root may write to.   *)
THEOREM FailedHostsDoNot ==
    \A h \in Hosts, useSudo \in BOOLEAN : FailMeansNoCapture(h, useSudo)
<1> SUFFICES ASSUME NEW h \in Hosts, NEW useSudo \in BOOLEAN, ~Passed(Report(h, useSudo)),
                    CanCapture(h, useSudo),
                    ~(useSudo /\ h.sudo = "scoped"),
                    ~(h.caps = "raw" /\ CapsUnread(h)),
                    ~(useSudo /\ (h.tcpdump = "noexec" \/ h.tmp = "root"))
             PROVE  FALSE
  BY DEF FailMeansNoCapture
<1>1. Found(h) /\ h.caps # "refused" /\ TmpOpen(h) /\ Privileged(h, useSudo)
  BY HostFields DEF CanCapture, Starts, Writes, TmpOpen
<1>2. PICK c \in Report(h, useSudo) : c.status = "fail"
  BY DEF Passed
<1>3. c \in PrivilegeChecks(Facts(h), useSudo)
  BY <1>1, <1>2, FoundReport
<1>4. \/ Facts(h).caps /\ Facts(h).version = "refused"
      \/ ~Facts(h).root /\ useSudo /\ ~Facts(h).sudoTrue
      \/ ~Facts(h).root /\ ~useSudo /\ ~Facts(h).caps
  BY <1>2, <1>3, PrivilegeFails
<1>5. QED
  BY <1>1, <1>4, FactsOf, HostFields DEF Privileged, SudoRuns, CapsUnread

(* A capture that runs leaves neither file nor process on the target,      *)
(* unless sudo is granted for tcpdump alone.                               *)
THEOREM CapturesLeaveNothing ==
    \A h \in Hosts, useSudo \in BOOLEAN : CapturesCleanUp(h, useSudo)
BY HostFields DEF CapturesCleanUp, CanCapture, Privileged, CleansUp, SudoRuns

(* What a way printed for a failed check is to lead to.                    *)
Works(h, c, s) ==
    \/ Cured(c.fix, s.host, s.useSudo)
    \/ c.fix = "sudoers_or_setcap" /\ s.useSudo /\ h.sudo = "absent"
    \/ c.fix = "open_tmp" /\ s.host = h

(* Remedies with one way: what they lead to.                               *)
LEMMA OneWay ==
    ASSUME NEW h \in Hosts, NEW useSudo \in BOOLEAN
    PROVE  /\ Follow(h, useSudo, "install") =
                 {[host |-> [h EXCEPT !.tcpdump = "sbin", !.caps = "none", !.world = TRUE],
                   useSudo |-> useSudo]}
           /\ Follow(h, useSudo, "join_group") =
                 {[host |-> [h EXCEPT !.tcpdump = "sbin"], useSudo |-> useSudo]}
           /\ Follow(h, useSudo, "limit_to_group") = {[host |-> Limited(h), useSudo |-> useSudo]}
           /\ Follow(h, useSudo, "narrow") =
                 {[host |-> [h EXCEPT !.caps = "raw"], useSudo |-> useSudo]}
           /\ Follow(h, useSudo, "setcap") = {[host |-> Limited(h), useSudo |-> FALSE]}
           /\ Follow(h, useSudo, "untick") = {[host |-> h, useSudo |-> FALSE]}
BY DEF Follow

LEMMA LimitedHost ==
    ASSUME NEW h \in Hosts
    PROVE  /\ Limited(h).caps = "raw"
           /\ Limited(h).tcpdump = IF h.tcpdump = "noexec" THEN "sbin" ELSE h.tcpdump
BY DEF Limited, Hosts

(* A set with one member has one that cures, and only such.                *)
LEMMA OnlyWay ==
    ASSUME NEW h, NEW c, NEW way, NEW S, S = {way}, Cured(c.fix, way.host, way.useSudo)
    PROVE  /\ \E s \in S : Cured(c.fix, s.host, s.useSudo)
           /\ \A s \in S : Works(h, c, s)
BY DEF Works

(* Each printed remedy, for the check that prints it.                      *)
LEMMA Cures ==
    ASSUME NEW h \in Hosts, NEW useSudo \in BOOLEAN, NEW c,
           \/ c.fix = "install"
           \/ c.fix \in {"join_group", "limit_to_group"} /\ h.tcpdump = "noexec"
           \/ c.fix = "narrow" /\ Found(h)
           \/ c.fix = "untick" /\ h.caps = "raw"
           \/ c.fix \in {"setcap", "sudoers_or_setcap", "open_tmp"}
    PROVE  /\ \E s \in Follow(h, useSudo, c.fix) : Cured(c.fix, s.host, s.useSudo)
           /\ \A s \in Follow(h, useSudo, c.fix) : Works(h, c, s)
<1>1. CASE c.fix = "install"
  <2> DEFINE way == [host |-> [h EXCEPT !.tcpdump = "sbin", !.caps = "none", !.world = TRUE],
                     useSudo |-> useSudo]
  <2>1. way.host.tcpdump = "sbin"
    BY DEF Hosts
  <2>2. Follow(h, useSudo, c.fix) = {way}
    BY <1>1, OneWay
  <2> HIDE DEF way
  <2>3. Cured(c.fix, way.host, way.useSudo)
    BY <1>1, <2>1 DEF Cured, Found
  <2>4. QED
    BY <2>2, <2>3, OnlyWay
<1>2. CASE c.fix = "join_group" /\ h.tcpdump = "noexec"
  <2> DEFINE way == [host |-> [h EXCEPT !.tcpdump = "sbin"], useSudo |-> useSudo]
  <2>1. way.host.tcpdump = "sbin"
    BY DEF Hosts
  <2>2. Follow(h, useSudo, c.fix) = {way}
    BY <1>2, OneWay
  <2> HIDE DEF way
  <2>3. Cured(c.fix, way.host, way.useSudo)
    BY <1>2, <2>1 DEF Cured, Found
  <2>4. QED
    BY <2>2, <2>3, OnlyWay
<1>3. CASE c.fix = "limit_to_group" /\ h.tcpdump = "noexec"
  <2> DEFINE way == [host |-> Limited(h), useSudo |-> useSudo]
  <2>1. way.host.tcpdump = "sbin"
    BY <1>3, LimitedHost
  <2>2. Follow(h, useSudo, c.fix) = {way}
    BY <1>3, OneWay
  <2> HIDE DEF way
  <2>3. Cured(c.fix, way.host, way.useSudo)
    BY <1>3, <2>1 DEF Cured, Found
  <2>4. QED
    BY <2>2, <2>3, OnlyWay
<1>4. CASE c.fix = "narrow" /\ Found(h)
  <2> DEFINE way == [host |-> [h EXCEPT !.caps = "raw"], useSudo |-> useSudo]
  <2>1. way.host.caps = "raw" /\ way.host.tcpdump = h.tcpdump
    BY DEF Hosts
  <2>2. Follow(h, useSudo, c.fix) = {way}
    BY <1>4, OneWay
  <2> HIDE DEF way
  <2>3. Cured(c.fix, way.host, way.useSudo)
    BY <1>4, <2>1 DEF Cured, Starts, Found
  <2>4. QED
    BY <2>2, <2>3, OnlyWay
<1>5. CASE c.fix = "setcap"
  <2> DEFINE way == [host |-> Limited(h), useSudo |-> FALSE]
  <2>1. way.host.caps = "raw" /\ way.useSudo = FALSE
    BY LimitedHost
  <2>2. Follow(h, useSudo, c.fix) = {way}
    BY <1>5, OneWay
  <2> HIDE DEF way
  <2>3. Cured(c.fix, way.host, way.useSudo)
    BY <1>5, <2>1 DEF Cured, Privileged
  <2>4. QED
    BY <2>2, <2>3, OnlyWay
<1>6. CASE c.fix = "untick" /\ h.caps = "raw"
  <2> DEFINE way == [host |-> h, useSudo |-> FALSE]
  <2>1. way.host.caps = "raw" /\ way.useSudo = FALSE
    BY <1>6
  <2>2. Follow(h, useSudo, c.fix) = {way}
    BY <1>6, OneWay
  <2> HIDE DEF way
  <2>3. Cured(c.fix, way.host, way.useSudo)
    BY <1>6, <2>1 DEF Cured, Privileged
  <2>4. QED
    BY <2>2, <2>3, OnlyWay
<1>7. CASE c.fix = "sudoers_or_setcap"
  <2> DEFINE granted == [h EXCEPT !.sudo = IF @ = "password" THEN "scoped" ELSE @]
             free == [host |-> Limited(h), useSudo |-> FALSE]
             ruled == [host |-> granted, useSudo |-> TRUE]
  <2>1. h.sudo # "absent" => granted.sudo \in {"all", "scoped"}
    BY HostFields DEF Hosts
  <2>2. free.host.caps = "raw" /\ free.useSudo = FALSE
    BY LimitedHost
  <2>3. ruled.host = granted /\ ruled.useSudo = TRUE
    OBVIOUS
  <2>4. Follow(h, useSudo, c.fix) = {free, ruled}
    BY <1>7 DEF Follow
  <2> HIDE DEF free, ruled, granted
  <2>5. Cured(c.fix, free.host, free.useSudo)
    BY <1>7, <2>2 DEF Cured, Privileged
  <2>6. h.sudo # "absent" => Cured(c.fix, ruled.host, ruled.useSudo)
    BY <1>7, <2>1, <2>3 DEF Cured, Privileged, SudoRuns
  <2>7. Works(h, c, free) /\ Works(h, c, ruled)
    BY <1>7, <2>3, <2>5, <2>6 DEF Works
  <2>8. QED
    BY <2>4, <2>5, <2>7
<1>8. CASE c.fix = "open_tmp"
  <2> DEFINE opened == [host |-> [h EXCEPT !.tmp = "anyone"], useSudo |-> useSudo]
             elsewhere == [host |-> h, useSudo |-> useSudo]
  <2>1. opened.host.tmp = "anyone" /\ elsewhere.host = h
    BY DEF Hosts
  <2>2. Follow(h, useSudo, c.fix) = {opened, elsewhere}
    BY <1>8 DEF Follow
  <2> HIDE DEF opened, elsewhere
  <2>3. Cured(c.fix, opened.host, opened.useSudo)
    BY <1>8, <2>1 DEF Cured, Writes
  <2>4. Works(h, c, opened) /\ Works(h, c, elsewhere)
    BY <1>8, <2>1, <2>3 DEF Works
  <2>5. QED
    BY <2>2, <2>3, <2>4
<1>9. QED
  BY <1>1, <1>2, <1>3, <1>4, <1>5, <1>6, <1>7, <1>8

(* Every failed check of a finished probe prints a way out that works, and *)
(* the others work too, but for a sudoers rule where there is no sudo and  *)
(* a writable directory other than /tmp.                                   *)
THEOREM RemediesWork ==
    \A h \in Hosts, useSudo \in BOOLEAN : FixesWork(h, useSudo)
<1> SUFFICES ASSUME NEW h \in Hosts, NEW useSudo \in BOOLEAN,
                    NEW c \in Report(h, useSudo), c.status = "fail"
             PROVE  /\ \E s \in Follow(h, useSudo, c.fix) : Cured(c.fix, s.host, s.useSudo)
                    /\ \A s \in Follow(h, useSudo, c.fix) : Works(h, c, s)
  BY DEF FixesWork, Works
<1>1. CASE ~Found(h) /\ h.tcpdump = "noexec"
  <2>1. c.fix \in {"join_group", "limit_to_group"}
    BY <1>1, MissingReport, CheckFields
  <2>2. QED BY <1>1, <2>1, Cures
<1>2. CASE ~Found(h) /\ h.tcpdump # "noexec"
  <2>1. c.fix = "install"
    BY <1>2, MissingReport, CheckFields
  <2>2. QED BY <2>1, Cures
<1>3. CASE Found(h) /\ c \notin PrivilegeChecks(Facts(h), useSudo)
  <2>1. c.fix = "open_tmp"
    BY <1>3, FoundReport
  <2>2. QED BY <2>1, Cures
<1>4. CASE Found(h) /\ c \in PrivilegeChecks(Facts(h), useSudo)
  <2>1. \/ Facts(h).caps /\ Facts(h).version = "refused" /\ c.fix = "narrow"
        \/ c.fix \in {"sudoers_or_setcap", "setcap"}
        \/ Facts(h).caps /\ ~(Facts(h).version = "refused") /\ c.fix = "untick"
    BY <1>4, PrivilegeFails
  <2>2. Facts(h).caps /\ ~(Facts(h).version = "refused") => h.caps = "raw"
    BY FactsOf, HostFields
  <2>3. CASE c.fix = "narrow"
    BY <1>4, <2>3, Cures
  <2>4. CASE c.fix \in {"sudoers_or_setcap", "setcap"}
    BY <2>4, Cures
  <2>5. CASE c.fix = "untick"
    <3>1. h.caps = "raw" BY <2>1, <2>2, <2>5
    <3>2. QED BY <2>5, <3>1, Cures
  <2>6. QED BY <2>1, <2>3, <2>4, <2>5
<1>5. QED BY <1>1, <1>2, <1>3, <1>4
=============================================================================
