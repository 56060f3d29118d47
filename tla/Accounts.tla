------------------------------ MODULE Accounts ------------------------------
(***************************************************************************)
(* Accounts, sessions, the second factor and the limit on failed logins    *)
(* (backend/auth.py, the auth and admin user routes of backend/main.py,    *)
(* their tables in backend/database.py, backend/resetmfa.py).              *)
(*                                                                         *)
(* A handler reads a row and acts on it later: a login awaits the password *)
(* hash in between, and what depends on a session is checked in a worker   *)
(* thread before the handler runs on the event loop.  Statements on the    *)
(* database are atomic and checked against its foreign keys.  The reset    *)
(* program for a locked-out administrator runs beside the application and  *)
(* commits three times.                                                    *)
(*                                                                         *)
(* A session carries the ages of its last_seen stamp and of its last use.  *)
(* A one-time code stands for the secret and the time step it is for; that *)
(* this is near now is left out, so any of them may come at any time.  Left*)
(* out too: names, hashes, the addresses the limiter counts (there is one  *)
(* client) and everything an account owns (CaptureLibrary, HostTrust).     *)
(***************************************************************************)
EXTENDS Naturals, FiniteSets

CONSTANTS
    Users,         \* account ids; an id is never used twice
    Sessions,      \* bound on the sessions there are at once
    Requests,      \* requests in flight at once
    NoUser,
    Secrets,       \* bound on the TOTP secrets of an account there are at once
    NoSecret,
    MaxAttempts,   \* rate_limit_max_attempts
    Idle,          \* session_idle_timeout_minutes, 0 for none
    WriteInterval, \* _LAST_SEEN_WRITE_INTERVAL
    MaxStep        \* the time steps of codes are 1..MaxStep

ASSUME SentinelAssumption == NoUser \notin Users /\ NoSecret \notin Secrets
ASSUME FiniteAssumption == IsFiniteSet(Requests)
ASSUME LimitAssumption == MaxAttempts \in Nat \ {0}
ASSUME IdleAssumption == Idle \in Nat /\ WriteInterval \in Nat \ {0}
ASSUME BoundsAssumption == MaxStep \in Nat \ {0}

VARIABLES
    users,    \* the rows of users
    spent,    \* account ids that have been used
    sessions, \* the rows of sessions
    trusted,  \* accounts with a trusted device that has not expired
    fails,    \* failed attempts the limiter still remembers
    req,      \* where each request stands
    offline,  \* where the reset program stands
    taken     \* history: the codes each account was admitted or confirmed by

tables == <<users, spent, sessions, trusted, taken>>
vars == <<users, spent, sessions, trusted, fails, req, offline, taken>>

Codes == 1..MaxStep

(* last: totp_last_step, 0 for NULL.                                       *)
Unenrolled(exists, admin) ==
    [exists |-> exists, admin |-> admin, secret |-> NoSecret, confirmed |-> FALSE, last |-> 0]
NoRow == Unenrolled(FALSE, FALSE)
NewRow(admin) == Unenrolled(TRUE, admin)
RowType == [exists : BOOLEAN, admin : BOOLEAN, secret : Secrets \union {NoSecret},
            confirmed : BOOLEAN, last : 0..MaxStep]

(* Ages stop where no comparison that matters can tell them apart.         *)
MaxAge == IF Idle = 0 THEN 0 ELSE Idle + WriteInterval
Ages == 0..MaxAge
Older(age) == IF age < MaxAge THEN age + 1 ELSE age
NoOne == [user |-> NoUser, stamp |-> 0, used |-> 0]
SessionType == [user : Users \union {NoUser}, stamp : Ages, used : Ages]

(* A request: the account it is about, and what it has read of the row of  *)
(* that account when it decides by it.                                     *)
Waiting == [kind |-> "none", user |-> NoUser, secret |-> NoSecret, confirmed |-> FALSE]
AdminKinds == {"delete", "reset"}
OwnKinds == {"setup", "confirm"}
RequestType == [kind : {"none", "register", "create", "login", "admitted"}
                         \union AdminKinds \union OwnKinds,
                user : Users \union {NoUser}, secret : Secrets \union {NoSecret},
                confirmed : BOOLEAN]
Asks(kind, u) == [Waiting EXCEPT !.kind = kind, !.user = u]
Reads(kind, u) == [kind |-> kind, user |-> u,
                   secret |-> users[u].secret, confirmed |-> users[u].confirmed]

Live == {u \in Users : users[u].exists}
NoOffline == [step |-> "idle", user |-> NoUser]

Init ==
    /\ users = [u \in Users |-> NoRow]
    /\ spent = {}
    /\ sessions = [s \in Sessions |-> NoOne]
    /\ trusted = {}
    /\ fails = 0
    /\ req = [r \in Requests |-> Waiting]
    /\ offline = NoOffline
    /\ taken = [u \in Users |-> {}]

Answers(r) == req' = [req EXCEPT ![r] = Waiting]

Opens(u) ==
    \E s \in Sessions :
        /\ sessions[s] = NoOne
        /\ sessions' = [sessions EXCEPT ![s].user = u]

SignedOut(u) == [s \in Sessions |-> IF sessions[s].user = u THEN NoOne ELSE sessions[s]]

-----------------------------------------------------------------------------
(* The first account, and the others *)

RegisterBegins(r) ==
    /\ req[r] = Waiting
    /\ Live = {}
    /\ req' = [req EXCEPT ![r] = Asks("register", NoUser)]
    /\ UNCHANGED <<tables, fails, offline>>

(* Mutant: the look before the hash is the only one. *)
RegisterEndsUnchecked(r, u) ==
    /\ req[r].kind = "register"
    /\ u \notin spent
    /\ users' = [users EXCEPT ![u] = NewRow(TRUE)]
    /\ spent' = spent \union {u}
    /\ Opens(u)
    /\ Answers(r)
    /\ UNCHANGED <<trusted, fails, offline, taken>>

(* After the hash one statement looks for any account and inserts.         *)
RegisterEnds(r, u) ==
    /\ req[r].kind = "register"
    /\ Live = {}
    /\ u \notin spent
    /\ users' = [users EXCEPT ![u] = NewRow(TRUE)]
    /\ spent' = spent \union {u}
    /\ Opens(u)
    /\ Answers(r)
    /\ UNCHANGED <<trusted, fails, offline, taken>>

RegisterClosed(r) ==
    /\ req[r].kind = "register"
    /\ Live # {}
    /\ Answers(r)
    /\ UNCHANGED <<tables, fails, offline>>

CreateEnds(r, u) ==
    /\ req[r].kind = "create"
    /\ u \notin spent
    /\ users' = [users EXCEPT ![u] = NewRow(FALSE)]
    /\ spent' = spent \union {u}
    /\ Answers(r)
    /\ UNCHANGED <<sessions, trusted, fails, offline, taken>>

-----------------------------------------------------------------------------
(* Logging in *)

Locked == fails >= MaxAttempts
Tries(u) == IF u \in Live THEN Reads("login", u) ELSE Asks("login", u)

(* Mutant: the limiter is not asked before the hash. *)
LoginBeginsUnasked(r, u) ==
    /\ req[r] = Waiting
    /\ req' = [req EXCEPT ![r] = Tries(u)]
    /\ UNCHANGED <<tables, fails, offline>>

(* The limiter is asked, the row is read, the password is being hashed; an *)
(* account that is not there (NoUser) costs the same.                      *)
LoginBegins(r, u) ==
    /\ req[r] = Waiting
    /\ ~Locked
    /\ req' = [req EXCEPT ![r] = Tries(u)]
    /\ UNCHANGED <<tables, fails, offline>>

(* The password is wrong, or the code, or the code was used before.        *)
LoginFails(r) ==
    /\ req[r].kind = "login"
    /\ fails' = fails + 1
    /\ Answers(r)
    /\ UNCHANGED <<tables, offline>>

(* One statement takes a code if the account has used none as late: the    *)
(* step is the row's, the secret the request's.                            *)
Consumable(u, c) == u \in Live /\ users[u].last < c
Takes(u, k, c) == taken' = [taken EXCEPT ![u] = @ \union {<<k, c>>}]

(* Without a confirmed factor, or from a trusted device, the password is   *)
(* enough.  The row decides that was read before the hash.                 *)
LoginByPassword(r) ==
    /\ req[r].kind = "login"
    /\ req[r].user # NoUser
    /\ req[r].confirmed => req[r].user \in trusted
    /\ req' = [req EXCEPT ![r] = Asks("admitted", req[r].user)]
    /\ UNCHANGED <<tables, fails, offline>>

(* Mutant: the step of the code is recorded without a look at the last.    *)
LoginByCodeAgain(r, c, trust) ==
    /\ req[r].kind = "login"
    /\ req[r].confirmed
    /\ req[r].secret # NoSecret
    /\ LET u == req[r].user IN
         /\ u \in Live
         /\ users' = [users EXCEPT ![u].last = c]
         /\ Takes(u, req[r].secret, c)
         /\ trusted' = IF trust THEN trusted \union {u} ELSE trusted
    /\ req' = [req EXCEPT ![r] = Asks("admitted", req[r].user)]
    /\ UNCHANGED <<spent, sessions, fails, offline>>

(* With a code: taken, it admits, and the device may be trusted.           *)
LoginByCode(r, c, trust) ==
    /\ req[r].kind = "login"
    /\ req[r].confirmed
    /\ req[r].secret # NoSecret
    /\ LET u == req[r].user IN
         /\ Consumable(u, c)
         /\ users' = [users EXCEPT ![u].last = c]
         /\ Takes(u, req[r].secret, c)
         /\ trusted' = IF trust THEN trusted \union {u} ELSE trusted
    /\ req' = [req EXCEPT ![r] = Asks("admitted", req[r].user)]
    /\ UNCHANGED <<spent, sessions, fails, offline>>

(* No code, or no secret to compare it with: answered without counting.    *)
LoginWithoutCode(r) ==
    /\ req[r].kind = "login"
    /\ req[r].confirmed
    /\ Answers(r)
    /\ UNCHANGED <<tables, fails, offline>>

(* Replacing a hash of weaker parameters awaits once more; then the        *)
(* session, refused by its foreign key when the account is gone.           *)
LoginEnds(r) ==
    /\ req[r].kind = "admitted"
    /\ fails' = 0
    /\ IF req[r].user \in Live THEN Opens(req[r].user) ELSE UNCHANGED sessions
    /\ Answers(r)
    /\ UNCHANGED <<users, spent, trusted, offline, taken>>

-----------------------------------------------------------------------------
(* Sessions *)

IdledOut(s) == Idle > 0 /\ sessions[s].stamp > Idle

(* Mutant: a request puts off the next write of the stamp. *)
TouchedNever(s) == [sessions EXCEPT ![s].used = 0]

(* The stamp is written unless the one there is younger than the interval. *)
Touched(s) ==
    [sessions EXCEPT ![s].used = 0,
                     ![s].stamp = IF @ < WriteInterval THEN @ ELSE 0]

(* A request of a live session: validate_session, alone or before what an  *)
(* administrator or the account itself asks for.                           *)
UseSession(s) ==
    /\ sessions[s] # NoOne
    /\ ~IdledOut(s)
    /\ sessions' = Touched(s)
    /\ UNCHANGED <<users, spent, trusted, fails, req, offline, taken>>

IdleEnds(s) ==
    /\ sessions[s] # NoOne
    /\ IdledOut(s)
    /\ sessions' = [sessions EXCEPT ![s] = NoOne]
    /\ UNCHANGED <<users, spent, trusted, fails, req, offline, taken>>

(* Logging out, expiring, and the hourly sweep of what has expired.        *)
SessionEnds(s) ==
    /\ sessions[s] # NoOne
    /\ sessions' = [sessions EXCEPT ![s] = NoOne]
    /\ UNCHANGED <<users, spent, trusted, fails, req, offline, taken>>

DeviceExpires(u) ==
    /\ u \in trusted
    /\ trusted' = trusted \ {u}
    /\ UNCHANGED <<users, spent, sessions, fails, req, offline, taken>>

(* What a route depends on has been checked, in a worker thread; its       *)
(* handler is still to run.                                                *)
Asking(r, s) ==
    /\ req[r] = Waiting
    /\ sessions[s] # NoOne
    /\ ~IdledOut(s)
    /\ sessions' = Touched(s)

(* Enrolment asks for a session, and decides by the row read with it.      *)
AskOwn(r, s, kind) ==
    /\ Asking(r, s)
    /\ req' = [req EXCEPT ![r] = Reads(kind, sessions[s].user)]
    /\ UNCHANGED <<users, spent, trusted, fails, offline, taken>>

(* The rest asks for both factors and, here, for an administrator, who may *)
(* delete or reset any account but their own.                              *)
AskAbout(r, s, kind, u) ==
    /\ Asking(r, s)
    /\ LET own == users[sessions[s].user] IN own.confirmed /\ own.admin
    /\ u # sessions[s].user
    /\ req' = [req EXCEPT ![r] = Asks(kind, u)]
    /\ UNCHANGED <<users, spent, trusted, fails, offline, taken>>

AskCreate(r, s) ==
    /\ Asking(r, s)
    /\ LET own == users[sessions[s].user] IN own.confirmed /\ own.admin
    /\ req' = [req EXCEPT ![r] = Asks("create", NoUser)]
    /\ UNCHANGED <<users, spent, trusted, fails, offline, taken>>

-----------------------------------------------------------------------------
(* What the handlers then do *)

(* Sessions and devices go with the row they reference. *)
DeleteEnds(r) ==
    /\ req[r].kind = "delete"
    /\ LET u == req[r].user IN
         /\ users' = [users EXCEPT ![u] = NoRow]
         /\ sessions' = SignedOut(u)
         /\ trusted' = trusted \ {u}
    /\ Answers(r)
    /\ UNCHANGED <<spent, fails, offline, taken>>

Cleared(u) ==
    IF u \in Live
    THEN [users EXCEPT ![u] = Unenrolled(TRUE, @.admin)]
    ELSE users

ResetEnds(r) ==
    /\ req[r].kind = "reset"
    /\ LET u == req[r].user IN
         /\ users' = Cleared(u)
         /\ sessions' = SignedOut(u)
         /\ trusted' = trusted \ {u}
    /\ Answers(r)
    /\ UNCHANGED <<spent, fails, offline, taken>>

(* A secret that no row and no request knows stands for a new one.         *)
Unread(u) == Secrets \ ({users[u].secret} \union
                          {req[x].secret : x \in {y \in Requests : req[y].user = u}})

SetupEnds(r) ==
    /\ req[r].kind = "setup"
    /\ LET u == req[r].user IN
         IF ~req[r].confirmed /\ req[r].secret = NoSecret /\ u \in Live
         THEN \E k \in Unread(u) :
                  /\ users' = [users EXCEPT ![u].secret = k]
                  /\ taken' = [taken EXCEPT ![u] = {code \in @ : code[1] # k}]
         ELSE UNCHANGED <<users, taken>>
    /\ Answers(r)
    /\ UNCHANGED <<spent, sessions, trusted, fails, offline>>

ConfirmEnds(r, c) ==
    /\ req[r].kind = "confirm"
    /\ LET u == req[r].user IN
         IF ~req[r].confirmed /\ req[r].secret # NoSecret /\ Consumable(u, c)
         THEN /\ users' = [users EXCEPT ![u].last = c, ![u].confirmed = TRUE]
              /\ Takes(u, req[r].secret, c)
         ELSE UNCHANGED <<users, taken>>
    /\ Answers(r)
    /\ UNCHANGED <<spent, sessions, trusted, fails, offline>>

-----------------------------------------------------------------------------
(* The reset program beside the application: three commits *)

OfflineClears(u) ==
    /\ offline = NoOffline
    /\ u \in Live
    /\ users' = Cleared(u)
    /\ offline' = [step |-> "cleared", user |-> u]
    /\ UNCHANGED <<spent, sessions, trusted, fails, req, taken>>

OfflineSignsOut ==
    /\ offline.step = "cleared"
    /\ sessions' = SignedOut(offline.user)
    /\ offline' = [offline EXCEPT !.step = "signedOut"]
    /\ UNCHANGED <<users, spent, trusted, fails, req, taken>>

OfflineForgets ==
    /\ offline.step = "signedOut"
    /\ trusted' = trusted \ {offline.user}
    /\ offline' = NoOffline
    /\ UNCHANGED <<users, spent, sessions, fails, req, taken>>

-----------------------------------------------------------------------------
(* Restart and time *)

(* No session outlives the process, nor does what it counted.              *)
Restart ==
    /\ sessions' = [s \in Sessions |-> NoOne]
    /\ req' = [r \in Requests |-> Waiting]
    /\ fails' = 0
    /\ UNCHANGED <<users, spent, trusted, offline, taken>>

TimePasses ==
    /\ sessions' = [s \in Sessions |->
                      IF sessions[s] = NoOne THEN NoOne
                      ELSE [sessions[s] EXCEPT !.stamp = Older(@), !.used = Older(@)]]
    /\ UNCHANGED <<users, spent, trusted, fails, req, offline, taken>>

(* An attempt is older than the lockout lasts, and no longer counts.       *)
AttemptAges ==
    /\ fails > 0
    /\ fails' = fails - 1
    /\ UNCHANGED <<tables, req, offline>>

RequestSteps(r) ==
    \/ \E u \in Users : RegisterEnds(r, u) \/ CreateEnds(r, u)
    \/ RegisterClosed(r)
    \/ LoginFails(r) \/ LoginByPassword(r) \/ LoginWithoutCode(r) \/ LoginEnds(r)
    \/ \E c \in Codes, trust \in BOOLEAN : LoginByCode(r, c, trust)
    \/ DeleteEnds(r) \/ ResetEnds(r) \/ SetupEnds(r)
    \/ \E c \in Codes : ConfirmEnds(r, c)

RequestBegins(r) ==
    \/ RegisterBegins(r)
    \/ \E u \in Live \union {NoUser} : LoginBegins(r, u)
    \/ \E s \in Sessions :
          \/ \E kind \in OwnKinds : AskOwn(r, s, kind)
          \/ \E kind \in AdminKinds, u \in Live : AskAbout(r, s, kind, u)
          \/ AskCreate(r, s)

Next ==
    \/ \E r \in Requests : RequestBegins(r) \/ RequestSteps(r)
    \/ \E s \in Sessions : UseSession(s) \/ IdleEnds(s) \/ SessionEnds(s)
    \/ \E u \in Users : DeviceExpires(u) \/ OfflineClears(u)
    \/ OfflineSignsOut \/ OfflineForgets
    \/ Restart \/ TimePasses \/ AttemptAges

Spec == Init /\ [][Next]_vars

-----------------------------------------------------------------------------
(* Properties *)

(* Every variable keeps its type; sessions, devices and what a row holds   *)
(* belong to an account that is there (the foreign keys of database.py).   *)
TypeOK ==
    /\ users \in [Users -> RowType]
    /\ spent \subseteq Users
    /\ sessions \in [Sessions -> SessionType]
    /\ trusted \subseteq Live
    /\ fails \in Nat
    /\ req \in [Requests -> RequestType]
    /\ offline \in [step : {"idle", "cleared", "signedOut"}, user : Users \union {NoUser}]
    /\ taken \in [Users -> SUBSET (Secrets \X Codes)]
    /\ \A s \in Sessions : sessions[s] = NoOne \/ sessions[s].user \in Live
    /\ \A u \in Users : ~users[u].exists => users[u] = NoRow
    /\ Live \subseteq spent

(* Registration makes one administrator and no more, however many of them  *)
(* hash a password at once, and the account stays: "several registrations  *)
(* racing during the slow password hash each saw an empty table and each   *)
(* became admin" is over (register, admin_delete_user).                    *)
OneAdmin ==
    Live # {} => \E u \in Live : \A v \in Live : users[v].admin <=> v = u

(* A code is taken once -- by a login or as the confirmation of a new      *)
(* factor, by whichever requests wait on one another's hash -- as long as  *)
(* the account has the secret the request read: only a reset, or a second  *)
(* enrolment under way, lets a late request repeat one.  The last step of  *)
(* an account never goes back but to none, with its factor ("Accept a TOTP *)
(* time step for this account at most once", consume_totp_step).           *)
ByCode(r, c) ==
    \/ \E trust \in BOOLEAN : LoginByCode(r, c, trust)
    \/ ConfirmEnds(r, c) /\ users' # users

CodesTakenOnce ==
    [][/\ \A u \in Users :
             users'[u].last < users[u].last =>
                 users'[u] \in {NoRow, Unenrolled(TRUE, users[u].admin)}
       /\ \A r \in Requests, c \in Codes :
             ByCode(r, c) /\ <<req[r].secret, c>> \in taken[req[r].user] =>
                 users[req[r].user].secret # req[r].secret]_vars

(* A session is refused for idleness only when it has not been used for    *)
(* all but the write interval of the timeout, and is served only when it   *)
(* has been used within it: "throttling can never cause a session to       *)
(* outlive its timeout" (_refresh_last_seen), nor end it much sooner.      *)
IdleWindow ==
    \A s \in Sessions : sessions[s] # NoOne /\ Idle > 0 =>
        /\ IdledOut(s) => sessions[s].used + WriteInterval > Idle
        /\ ~IdledOut(s) => sessions[s].used <= Idle

(* Attempts that passed the limiter together may all fail: no more are     *)
(* remembered than the limit and what was in flight ("a failure is only    *)
(* recorded AFTER the hash", auth.py).                                     *)
FailuresBounded == fails < MaxAttempts + Cardinality(Requests)

-----------------------------------------------------------------------------
(* What the code does not keep *)

(* Who is asked for a code has a secret to compare it with: a reset clears *)
(* both columns, but a confirmation under way sets one of them again.      *)
ConfirmedHasSecret == \A u \in Users : users[u].confirmed => users[u].secret # NoSecret

(* No code is taken twice at all: a login that read the row before a reset *)
(* compares with the old secret, and the reset has forgotten its steps.    *)
NoCodeTwice ==
    [][\A r \in Requests, c \in Codes :
          ByCode(r, c) => <<req[r].secret, c>> \notin taken[req[r].user]]_vars

(* The secret of a confirmed factor stays until it is reset: a second setup*)
(* that read the row before the first one wrote replaces it.               *)
ConfirmedSecretStays ==
    [][\A u \in Users : users[u].confirmed /\ users'[u].confirmed =>
          users'[u].secret = users[u].secret]_vars
=============================================================================
