----------------------------- MODULE HostTrust -----------------------------
(***************************************************************************)
(* Which hosts this installation trusts and what it knows about the        *)
(* servers users configured (backend/main.py: the server, probe, known-host*)
(* and user routes; backend/database.py: active_servers and known_hosts).  *)
(*                                                                         *)
(* Host keys are one table for the whole installation, keyed by endpoint;  *)
(* servers are rows of one user each.  A request that connects to a host   *)
(* awaits the answer, and any other request may run in between: each       *)
(* action is one stretch of a handler between two awaits.                  *)
(*                                                                         *)
(* Left out: the check of a server's name against this machine's addresses *)
(* (whatever it lets through is checked again over the connection), hosts  *)
(* with keys of several algorithms (the admin may then drop or replace one *)
(* of them alone), and rows older than the verification columns (they may  *)
(* capture unverified).                                                    *)
(***************************************************************************)
EXTENDS FiniteSets, Naturals

CONSTANTS
    Users,
    Endpoints,     \* (hostname, port) pairs
    Keys,          \* host keys
    ServerIds,     \* uuids for server rows
    RequestIds,    \* requests in flight at once
    NoUser,
    NoServer,
    NoEndpoint,
    NoKeys,
    MaxRestarts    \* bound: crashes of the process in a behaviour

(* Keys as stored: who reviewed them, a user or an admin.                  *)
Stored == [by : {"user", "admin"}, keys : Keys]
UserKeys(k) == [by |-> "user", keys |-> k]

ASSUME NoUserAssumption == NoUser \notin Users
ASSUME NoEndpointAssumption == NoEndpoint \notin Endpoints
ASSUME NoServerAssumption == NoServer \notin ServerIds
ASSUME NoKeysAssumption == NoKeys \notin Keys /\ NoKeys \notin Stored
ASSUME HostRestartsAssumption == MaxRestarts \in Nat

VARIABLES
    users,     \* rows of users
    known,     \* known_hosts: the keys stored for each endpoint
    servers,   \* ids with a row in active_servers
    used,      \* ids ever given to a row
    owner,     \* user_id of each row
    endpoint,  \* (hostname, port) of each row
    verified,  \* kernel_verified_at: the endpoint whose check it records
    finding,   \* self_target_reason: the endpoint it was found about
    req,       \* the requests in flight
    abandoned, \* history: endpoints whose rows or requests went without cleanup
    overtaken, \* history: rows last repointed while a connection of theirs was open
    disturbed, \* history: requests whose pinned keys an admin, a clean-up or such
               \* a request has taken away
    restarts

rowVars == <<servers, used, owner, endpoint, verified, finding, overtaken>>
vars == <<users, known, servers, used, owner, endpoint, verified, finding, req,
          abandoned, overtaken, disturbed, restarts>>

(* add: POST /api/servers; probe: the add form's Test connection and Check *)
(* prerequisites; test: the same on a stored server; start: a capture.     *)
Kind   == {"idle", "add", "probe", "test", "start"}
(* What the connection came to; "pending" before it.  "same": both boot    *)
(* ids were read and are equal.  "other": they differ, or one of them could*)
(* not be read, which the code does not tell apart.                        *)
Answer == {"pending", "unreachable", "same", "other"}
RequestType == [kind : Kind, user : Users \union {NoUser},
                endpoint : Endpoints \union {NoEndpoint},
                server : ServerIds \union {NoServer}, pinned : Keys \union {NoKeys},
                answer : Answer]

TypeOK ==
    /\ users \subseteq Users
    /\ known \in [Endpoints -> Stored \union {NoKeys}]
    /\ servers \subseteq used
    /\ used \subseteq ServerIds
    /\ owner \in [ServerIds -> Users \union {NoUser}]
    /\ endpoint \in [ServerIds -> Endpoints \union {NoEndpoint}]
    /\ verified \in [ServerIds -> Endpoints \union {NoEndpoint}]
    /\ finding \in [ServerIds -> Endpoints \union {NoEndpoint}]
    /\ req \in [RequestIds -> RequestType]
    /\ abandoned \subseteq Endpoints
    /\ overtaken \subseteq servers
    /\ disturbed \subseteq RequestIds
    /\ restarts \in 0..MaxRestarts
    /\ \A s \in servers : owner[s] \in users   \* the foreign key

(* count_servers_for_endpoint: rows of any user.                           *)
ServersAt(e) == {s \in servers : endpoint[s] = e}

(* _require_server: the signed-in user's own row, or 404.                  *)
Owns(u, s) == u \in users /\ s \in servers /\ owner[s] = u

(* The requests that will forget the keys of an endpoint if they fail.     *)
Pinning(e) == {r \in RequestIds : req[r].pinned # NoKeys /\ req[r].endpoint = e}

(* The connections open on behalf of a row.                                *)
ConnectedFor(s) ==
    {r \in RequestIds : req[r].kind \in {"test", "start"} /\ req[r].server = s}

Idle == [kind |-> "idle", user |-> NoUser, endpoint |-> NoEndpoint,
         server |-> NoServer, pinned |-> NoKeys, answer |-> "pending"]

Init ==
    /\ users = Users
    /\ known = [e \in Endpoints |-> NoKeys]
    /\ servers = {}
    /\ used = {}
    /\ owner = [s \in ServerIds |-> NoUser]
    /\ endpoint = [s \in ServerIds |-> NoEndpoint]
    /\ verified = [s \in ServerIds |-> NoEndpoint]
    /\ finding = [s \in ServerIds |-> NoEndpoint]
    /\ req = [r \in RequestIds |-> Idle]
    /\ abandoned = {}
    /\ overtaken = {}
    /\ disturbed = {}
    /\ restarts = 0

-----------------------------------------------------------------------------
(* Requests that connect                                                   *)

Ask(kind, u, e, s, pinned) ==
    [kind |-> kind, user |-> u, endpoint |-> e, server |-> s, pinned |-> pinned,
     answer |-> "pending"]

(* Reviewed keys are pinned only where the endpoint has none.              *)
PinIfNone(e, reviewed) ==
    known' = IF reviewed # NoKeys /\ known[e] = NoKeys
             THEN [known EXCEPT ![e] = UserKeys(reviewed)] ELSE known

(* What this request has to forget again.                                  *)
PinsOf(e, reviewed) == IF known[e] = NoKeys THEN reviewed ELSE NoKeys

(* add_server up to its probe.  Without stored or reviewed keys it goes on *)
(* only as add_unverified, and pins nothing.                               *)
AddBegins(r, u, e) ==
    /\ req[r].kind = "idle"
    /\ u \in users
    /\ \E reviewed \in Keys \union {NoKeys} :
           /\ PinIfNone(e, reviewed)
           /\ req' = [req EXCEPT ![r] = Ask("add", u, e, NoServer, PinsOf(e, reviewed))]
    /\ UNCHANGED <<users, rowVars, abandoned, disturbed, restarts>>

(* _transient_host_keys around a probe.                                    *)
ProbeBegins(r, u, e) ==
    /\ req[r].kind = "idle"
    /\ u \in users
    /\ \E reviewed \in Keys \union {NoKeys} :
           /\ PinIfNone(e, reviewed)
           /\ req' = [req EXCEPT ![r] = Ask("probe", u, e, NoServer, PinsOf(e, reviewed))]
    /\ UNCHANGED <<users, rowVars, abandoned, disturbed, restarts>>

(* test_server, prereq_check and start_capture take the row as it is now.  *)
(* A capture needs a recorded check and no finding.                        *)
StoredBegins(r, u, s) ==
    /\ req[r].kind = "idle"
    /\ Owns(u, s)
    /\ \E k \in {"test", "start"} :
           /\ k = "start" => verified[s] # NoEndpoint /\ finding[s] = NoEndpoint
           /\ req' = [req EXCEPT ![r] = Ask(k, u, endpoint[s], s, NoKeys)]
    /\ UNCHANGED <<users, known, rowVars, abandoned, disturbed, restarts>>

(* _connect: fails closed without stored keys; with them the host may      *)
(* still be down, or answer with another key.  What answers at an endpoint *)
(* may change from one connection to the next.                             *)
Connect(r) ==
    /\ req[r].kind # "idle" /\ req[r].answer = "pending"
    /\ \E a \in {"unreachable", "same", "other"} :
           /\ a # "unreachable" => known[req[r].endpoint] # NoKeys
           /\ req' = [req EXCEPT ![r].answer = a]
    /\ UNCHANGED <<users, known, rowVars, abandoned, disturbed, restarts>>

(* describe_if_same_kernel over the connection.                            *)
IsSelf(r) == req[r].answer = "same"

(* Keys that other requests count as theirs to forget went or changed.     *)
Disturbs(e) ==
    disturbed' = IF known'[e] # known[e] THEN disturbed \union Pinning(e) ELSE disturbed

(* The finally of add_server and of _transient_host_keys: whatever keys    *)
(* the endpoint has by now go.                                             *)
Rollback(r) ==
    /\ known' = IF req[r].pinned # NoKeys
                THEN [known EXCEPT ![req[r].endpoint] = NoKeys] ELSE known
    /\ disturbed' = (IF r \in disturbed /\ known' # known
                        THEN disturbed \union Pinning(req[r].endpoint) ELSE disturbed) \ {r}

(* The probe found another machine, or none that answers: the row is made, *)
(* verified only in the first case.                                        *)
AddCreates(r, s) ==
    /\ req[r].kind = "add" /\ req[r].answer # "pending"
    /\ ~IsSelf(r)
    /\ req[r].user \in users
    /\ s \notin used
    /\ used' = used \union {s}
    /\ servers' = servers \union {s}
    /\ owner' = [owner EXCEPT ![s] = req[r].user]
    /\ endpoint' = [endpoint EXCEPT ![s] = req[r].endpoint]
    /\ verified' = [verified EXCEPT ![s] = IF req[r].answer = "other"
                                           THEN req[r].endpoint ELSE NoEndpoint]
    /\ finding' = [finding EXCEPT ![s] = NoEndpoint]
    /\ req' = [req EXCEPT ![r] = Idle]
    /\ disturbed' = disturbed \ {r}
    /\ UNCHANGED <<users, known, abandoned, overtaken, restarts>>

(* Fault: the exception of a refused probe skips the rollback.             *)
AddFailsPinned(r) ==
    /\ req[r].kind = "add"
    /\ req' = [req EXCEPT ![r] = Idle]
    /\ disturbed' = disturbed \ {r}
    /\ UNCHANGED <<users, known, rowVars, abandoned, restarts>>

(* It is this machine, the SSH key is missing, the request was cancelled,  *)
(* or the account is gone and the row cannot be inserted.                  *)
AddFails(r) ==
    /\ req[r].kind = "add"
    /\ Rollback(r)
    /\ req' = [req EXCEPT ![r] = Idle]
    /\ UNCHANGED <<users, rowVars, abandoned, restarts>>

ProbeEnds(r) ==
    /\ req[r].kind = "probe"
    /\ Rollback(r)
    /\ req' = [req EXCEPT ![r] = Idle]
    /\ UNCHANGED <<users, rowVars, abandoned, restarts>>

(* _reject_self_kernel, or a capture refused on its own connection: what   *)
(* the connection showed is written to the row the request named, if it is *)
(* still there.  A capture that was not refused records nothing.           *)
StoredAnswers(r) ==
    /\ req[r].kind \in {"test", "start"} /\ req[r].answer # "pending"
    /\ LET s == req[r].server
           e == req[r].endpoint
           writes == s \in servers /\ req[r].answer # "unreachable"
       IN  /\ finding' = IF writes /\ (IsSelf(r) \/ req[r].kind = "test")
                         THEN [finding EXCEPT ![s] = IF IsSelf(r) THEN e ELSE NoEndpoint]
                         ELSE finding
           /\ verified' = IF writes /\ ~IsSelf(r) /\ req[r].kind = "test"
                          THEN [verified EXCEPT ![s] = e] ELSE verified
    /\ req' = [req EXCEPT ![r] = Idle]
    /\ UNCHANGED <<users, known, servers, used, owner, endpoint, abandoned, overtaken,
                   disturbed, restarts>>

-----------------------------------------------------------------------------
(* Requests that do not connect                                            *)

(* Fault: only the caller's own rows are counted.                          *)
ForgetIfNotMine(e, u, rows, ends) ==
    known' = IF \E s \in rows : ends[s] = e /\ owner[s] = u THEN known
             ELSE [known EXCEPT ![e] = NoKeys]

(* The keys of an endpoint go with the last row that points at it.         *)
ForgetIfLast(e, u, rows, ends) ==
    known' = IF \E s \in rows : ends[s] = e THEN known
             ELSE [known EXCEPT ![e] = NoKeys]

(* A row goes with all its columns.                                        *)
DropRows(gone) ==
    /\ servers' = servers \ gone
    /\ owner' = [s \in ServerIds |-> IF s \in gone THEN NoUser ELSE owner[s]]
    /\ endpoint' = [s \in ServerIds |-> IF s \in gone THEN NoEndpoint ELSE endpoint[s]]
    /\ verified' = [s \in ServerIds |-> IF s \in gone THEN NoEndpoint ELSE verified[s]]
    /\ finding' = [s \in ServerIds |-> IF s \in gone THEN NoEndpoint ELSE finding[s]]
    /\ overtaken' = overtaken \ gone

RemoveServer(u, s) ==
    /\ Owns(u, s)
    /\ DropRows({s})
    /\ ForgetIfLast(endpoint[s], u, servers', endpoint)
    /\ Disturbs(endpoint[s])
    /\ UNCHANGED <<users, used, req, abandoned, restarts>>

(* Fault: what was learned about the old endpoint is kept.                 *)
UpdateServerKeepsCheck(u, s, e) ==
    /\ Owns(u, s)
    /\ e # endpoint[s]
    /\ endpoint' = [endpoint EXCEPT ![s] = e]
    /\ overtaken' = IF ConnectedFor(s) # {} THEN overtaken \union {s}
                    ELSE overtaken \ {s}
    /\ ForgetIfLast(endpoint[s], u, servers, endpoint')
    /\ Disturbs(endpoint[s])
    /\ UNCHANGED <<users, servers, used, owner, verified, finding, req, abandoned, restarts>>

(* update_server: everything learned about the old endpoint is cleared.    *)
UpdateServer(u, s, e) ==
    /\ Owns(u, s)
    /\ e # endpoint[s]
    /\ endpoint' = [endpoint EXCEPT ![s] = e]
    /\ verified' = [verified EXCEPT ![s] = NoEndpoint]
    /\ finding' = [finding EXCEPT ![s] = NoEndpoint]
    /\ overtaken' = IF ConnectedFor(s) # {} THEN overtaken \union {s}
                    ELSE overtaken \ {s}
    /\ ForgetIfLast(endpoint[s], u, servers, endpoint')
    /\ Disturbs(endpoint[s])
    /\ UNCHANGED <<users, servers, used, owner, req, abandoned, restarts>>

(* Fault: the keys the caller reviewed replace what is stored by then.     *)
TrustHostAnyway(u, s) ==
    /\ Owns(u, s)
    /\ \E k \in Keys : known' = [known EXCEPT ![endpoint[s]] = UserKeys(k)]
    /\ UNCHANGED <<users, rowVars, req, abandoned, disturbed, restarts>>

(* trust_server_host: trust where there is none, never a replacement.      *)
TrustHost(u, s) ==
    /\ Owns(u, s)
    /\ known[endpoint[s]] = NoKeys
    /\ \E k \in Keys : known' = [known EXCEPT ![endpoint[s]] = UserKeys(k)]
    /\ UNCHANGED <<users, rowVars, req, abandoned, disturbed, restarts>>

(* admin_confirm_host and admin_forget_host, for any endpoint.             *)
AdminConfirm(e) ==
    /\ \E k \in Keys : known' = [known EXCEPT ![e] = [by |-> "admin", keys |-> k]]
    /\ Disturbs(e)
    /\ UNCHANGED <<users, rowVars, req, abandoned, restarts>>

AdminForget(e) ==
    /\ known[e] # NoKeys
    /\ known' = [known EXCEPT ![e] = NoKeys]
    /\ Disturbs(e)
    /\ UNCHANGED <<users, rowVars, req, abandoned, restarts>>

(* delete_user: the rows of active_servers go by foreign key.              *)
DeleteUser(u) ==
    /\ u \in users
    /\ users \ {u} # {}
    /\ users' = users \ {u}
    /\ DropRows({s \in servers : owner[s] = u})
    /\ abandoned' = abandoned \union
                       {e \in Endpoints : ServersAt(e) # {}
                           /\ \A s \in ServersAt(e) : owner[s] = u}
    /\ UNCHANGED <<known, used, req, disturbed, restarts>>

(* A crash: no finally runs.                                               *)
Restart ==
    /\ restarts < MaxRestarts
    /\ restarts' = restarts + 1
    /\ abandoned' = abandoned \union
                       {req[r].endpoint : r \in {x \in RequestIds : req[x].pinned # NoKeys}}
    /\ req' = [r \in RequestIds |-> Idle]
    /\ disturbed' = {}
    /\ UNCHANGED <<users, known, rowVars>>

-----------------------------------------------------------------------------
RequestNext(r) ==
    \/ \E u \in Users, e \in Endpoints : AddBegins(r, u, e) \/ ProbeBegins(r, u, e)
    \/ \E u \in Users, s \in ServerIds : StoredBegins(r, u, s)
    \/ Connect(r)
    \/ \E s \in ServerIds : AddCreates(r, s)
    \/ AddFails(r)
    \/ ProbeEnds(r)
    \/ StoredAnswers(r)

Next ==
    \/ \E r \in RequestIds : RequestNext(r)
    \/ \E u \in Users, s \in ServerIds : RemoveServer(u, s) \/ TrustHost(u, s)
    \/ \E u \in Users, s \in ServerIds, e \in Endpoints : UpdateServer(u, s, e)
    \/ \E e \in Endpoints : AdminConfirm(e) \/ AdminForget(e)
    \/ \E u \in Users : DeleteUser(u)
    \/ Restart

Spec == Init /\ [][Next]_vars

-----------------------------------------------------------------------------
(* Properties                                                              *)

OfUser(stored) == stored \in [by : {"user"}, keys : Keys]

(* Keys a user pinned never outlive what asked for them: a row points at   *)
(* the endpoint, or a request that will forget them is in flight -- unless *)
(* an account was deleted or the process died, which clean nothing up.     *)
TrustHasSubject ==
    \A e \in Endpoints :
        OfUser(known[e]) => ServersAt(e) # {} \/ Pinning(e) # {} \/ e \in abandoned

(* What a row says was checked, or found, is of the endpoint the row names,*)
(* however edits and connections interleave -- unless the edit that gave   *)
(* it the endpoint met a connection to the old one, whose answer is then   *)
(* written to the new row (_record_self_target, _record_kernel_verified).  *)
ChecksAreOfTheRow ==
    \A s \in servers \ overtaken :
        {verified[s], finding[s]} \subseteq {NoEndpoint, endpoint[s]}

(* What the finally of add_server and _transient_host_keys forgets is what *)
(* its own request pinned, and no other request's: the keys it may forget  *)
(* are stored as it left them, unless an admin, the clean-up after a last  *)
(* row or a request so robbed has taken them away meanwhile.               *)
RollsBackItsOwn ==
    \A r \in RequestIds \ disturbed :
        req[r].pinned # NoKeys =>
            /\ known[req[r].endpoint] = UserKeys(req[r].pinned)
            /\ Pinning(req[r].endpoint) \subseteq disturbed \union {r}

(* The keys of an endpoint some row still points at are replaced by an     *)
(* admin only, and forgotten by an admin or by a request that pinned keys  *)
(* there, never because another user's server was added, trusted, deleted  *)
(* or repointed.                                                           *)
SharedTrustKept ==
    [][\A e \in Endpoints :
           known[e] # NoKeys /\ known'[e] # known[e]
               /\ (\E s \in servers' : endpoint'[s] = e)
               => \/ AdminConfirm(e) \/ AdminForget(e)
                  \/ /\ known'[e] = NoKeys
                     /\ \E r \in Pinning(e) : req'[r].pinned = NoKeys]_vars

-----------------------------------------------------------------------------
(* What comments of the code say and the code does not do                  *)

(* No keys a user pinned outlive the last server of their endpoint.        *)
TrustNeverOutlives ==
    \A e \in Endpoints :
        OfUser(known[e]) => ServersAt(e) # {} \/ Pinning(e) # {}

(* Keys pinned by a request are kept if and only if a row references them: *)
(* a rollback never takes the keys of a row.                               *)
KeptIfReferenced ==
    [][\A e \in Endpoints, r \in RequestIds :
           req[r].kind = "add" /\ req[r].endpoint = e /\ AddFails(r)
               /\ known[e] # NoKeys /\ ServersAt(e) # {}
               => known'[e] # NoKeys]_vars

(* A check proves something about the endpoint the row points at.          *)
VerifiedIsCurrent ==
    \A s \in servers : verified[s] \in {NoEndpoint, endpoint[s]}

(* Only an admin, or the removal of the last server, drops keys an admin   *)
(* has reviewed.                                                           *)
AdminKeysKept ==
    [][\A e \in Endpoints :
           known[e] # NoKeys /\ ~OfUser(known[e]) /\ known'[e] = NoKeys =>
               AdminForget(e) \/ servers' # servers \/ endpoint' # endpoint]_vars
=============================================================================
