--------------------------- MODULE CaptureLibrary ---------------------------
(***************************************************************************)
(* What is kept for the accounts: a capture's record in                    *)
(* CaptureManager._captures, its row, its file on the captures volume, the *)
(* views and diagrams hanging off the row, and the filters, presets and    *)
(* column layout of each account (backend/capture.py import_upload,        *)
(* backend/database.py, the routes of backend/main.py), while users are    *)
(* deleted, uploads fail half-way and the process crashes.                 *)
(*                                                                         *)
(* The life of a capture's coroutines is module CaptureLifecycle; here a   *)
(* capture is asked for, launched, live, perhaps cancelled, and then over. *)
(***************************************************************************)
EXTENDS FiniteSets, Integers

CONSTANTS
    Users,       \* accounts
    Admin,       \* the account that deletes others; it cannot delete itself
    Captures,    \* ids uuid4 will hand out, to captures and uploads alike
    SavedIds,    \* ids uuid4 will hand out to saved rows
    Names,       \* names and labels of saved rows
    Account,     \* what a row is saved on when it is on no capture
    MaxViews,    \* MAX_VIEWS_PER_CAPTURE
    MaxFilters,  \* MAX_CUSTOM_FILTERS_PER_USER
    MaxRows,     \* bound: saved rows and layouts at any time, of all accounts
    MaxPosition, \* bound: highest tab position in a behaviour
    MaxRestarts  \* bound: crashes and restarts in a behaviour

ASSUME AdminAssumption == Admin \in Users
ASSUME AccountAssumption == Account \notin Captures
ASSUME CapsAssumption == {MaxViews, MaxFilters, MaxRows, MaxPosition} \subseteq Nat
ASSUME MaxRestartsAssumption == MaxRestarts \in Nat

VARIABLES
    users,       \* rows of the users table
    owner,       \* the user_id a capture id was asked for
    step,        \* where the request or the monitor of each id is
    mem,         \* keys of _captures
    status,      \* status of each record
    row,         \* status column of the captures table; "absent" = no row
    file,        \* the file under captures/
    saved,       \* rows of the five tables of saved things
    arranging,   \* accounts whose PUT of a column layout awaits tshark
    arranged,    \* accounts with a row in column_layouts
    deleting,    \* captures a delete() of which awaits their monitor or host
    interrupted, \* history: ids whose request a crash cut off
    restarts     \* number of restarts so far (bounded by MaxRestarts)

vars == <<users, owner, step, mem, status, row, file, saved, arranging, arranged, deleting,
          interrupted, restarts>>
accountVars == <<arranging, arranged>>

Kept == {"active", "completed", "failed"}
(* asked: start() before its synchronous stretch; launching: registered,   *)
(* run_tcpdump() awaited; live: launched and monitored; closing: the       *)
(* monitor is cancelled and has not run its finally; writing: an upload's  *)
(* body arriving; checking: renamed into place, capinfos and the interface *)
(* names running.                                                          *)
Step == {"unused", "asked", "launching", "live", "closing", "writing", "checking", "over"}
(* partial: "<name>.partial" or half a fetch; placed: under its final name,*)
(* not yet known to be a capture file; stored: a whole, readable capture.  *)
File == {"none", "partial", "placed", "stored"}

CaptureTables == {"capture_views", "diagram_views"}
FilterTables == {"custom_filters", "custom_display_filters"}
AccountTables == FilterTables \union {"capture_presets"}
Place(t) == IF t \in CaptureTables THEN Captures ELSE {Account}
SavedType == [id : SavedIds, table : CaptureTables \union AccountTables,
              on : Captures \union {Account}, user : Users, name : Names,
              position : 0..MaxPosition]

TypeOK ==
    /\ users \subseteq Users
    /\ owner \in [Captures -> Users]
    /\ step \in [Captures -> Step]
    /\ mem \subseteq Captures
    /\ status \in [Captures -> Kept]
    /\ row \in [Captures -> Kept \union {"absent"}]
    /\ file \in [Captures -> File]
    /\ saved \subseteq SavedType
    /\ \A r \in saved : r.on \in Place(r.table)
    /\ arranging \subseteq Users /\ arranged \subseteq Users
    /\ deleting \subseteq Captures
    /\ interrupted \subseteq Captures
    /\ restarts \in 0..MaxRestarts

(* The rows of one table that one account saved in one place.              *)
Siblings(t, on, u) == {r \in saved : r.table = t /\ r.on = on /\ r.user = u}
Off(c) == {r \in saved : r.on # c}

Init ==
    /\ users = Users
    /\ owner = [c \in Captures |-> Admin]
    /\ step = [c \in Captures |-> "unused"]
    /\ mem = {}
    /\ status = [c \in Captures |-> "failed"]
    /\ row = [c \in Captures |-> "absent"]
    /\ file = [c \in Captures |-> "none"]
    /\ saved = {}
    /\ arranging = {} /\ arranged = {} /\ deleting = {}
    /\ interrupted = {}
    /\ restarts = 0

(* Fault: foreign keys are not enforced.                                   *)
UpsertUnchecked(c, u, s) ==
    /\ row' = [row EXCEPT ![c] = s]
    /\ saved' = Off(c)

(* upsert_capture: INSERT OR REPLACE.  REPLACE deletes the old row first,  *)
(* and with foreign_keys=ON that fires the views' and diagrams' ON DELETE  *)
(* CASCADE.                                                                *)
(* Without the owner's row the insert fails and nothing changes.           *)
Upsert(c, u, s) ==
    IF u \in users
    THEN /\ row' = [row EXCEPT ![c] = s]
         /\ saved' = Off(c)
    ELSE UNCHANGED <<row, saved>>

(* _require_own_capture: the signed-in user's own record, or 404.          *)
Owns(u, c) == u \in users /\ c \in mem /\ owner[c] = u

-----------------------------------------------------------------------------
(* Captures                                                                *)

(* POST /api/captures passed authentication; the pre-flight checks and the *)
(* interface lookup are awaited.                                           *)
AskStart(c, u) ==
    /\ step[c] = "unused"
    /\ u \in users
    /\ step' = [step EXCEPT ![c] = "asked"]
    /\ owner' = [owner EXCEPT ![c] = u]
    /\ UNCHANGED <<users, mem, status, row, file, saved, accountVars, deleting, interrupted,
                   restarts>>

(* A pre-flight check refused it.                                          *)
RefuseStart(c) ==
    /\ step[c] = "asked"
    /\ step' = [step EXCEPT ![c] = "over"]
    /\ UNCHANGED <<users, owner, mem, status, row, file, saved, accountVars, deleting,
                   interrupted, restarts>>

(* The synchronous stretch of start(): the record first, then its row.  If *)
(* the row cannot be written the exception leaves start() there, before    *)
(* the try that would close the record.                                    *)
Register(c) ==
    /\ step[c] = "asked"
    /\ mem' = mem \union {c}
    /\ status' = [status EXCEPT ![c] = "active"]
    /\ Upsert(c, owner[c], "active")
    /\ step' = [step EXCEPT ![c] = IF owner[c] \in users THEN "launching" ELSE "over"]
    /\ UNCHANGED <<users, owner, file, accountVars, deleting, interrupted, restarts>>

(* The launch returned.  The monitor of a capture that was deleted         *)
(* meanwhile ends on its first line, which looks the record up.            *)
Launched(c) ==
    /\ step[c] = "launching"
    /\ step' = [step EXCEPT ![c] = IF c \in mem THEN "live" ELSE "over"]
    /\ UNCHANGED <<users, owner, mem, status, row, file, saved, accountVars, deleting,
                   interrupted, restarts>>

(* It failed: the record is persisted, whether it is still listed or not.  *)
LaunchFails(c) ==
    /\ step[c] = "launching"
    /\ step' = [step EXCEPT ![c] = "over"]
    /\ status' = [status EXCEPT ![c] = "failed"]
    /\ Upsert(c, owner[c], "failed")
    /\ UNCHANGED <<users, owner, mem, file, accountVars, deleting, interrupted, restarts>>

(* The monitor ends the capture, with its file or without, and persists    *)
(* the record last.                                                        *)
Ends(c) ==
    /\ step[c] = "live"
    /\ step' = [step EXCEPT ![c] = "over"]
    /\ \E s \in {"completed", "failed"} :
           /\ status' = [status EXCEPT ![c] = s]
           /\ file' = [file EXCEPT ![c] = IF s = "completed" THEN "stored" ELSE "none"]
           /\ Upsert(c, owner[c], s)
    /\ UNCHANGED <<users, owner, mem, accountVars, deleting, interrupted, restarts>>

(* stop, rename, the live packet count and the interface names all write   *)
(* the whole record back.  The last two hold it themselves: they write     *)
(* until the monitor's finally cancels them, listed or not.                *)
Persist(c) ==
    /\ (c \in mem /\ Owns(owner[c], c)) \/ step[c] \in {"live", "closing"}
    /\ Upsert(c, owner[c], status[c])
    /\ UNCHANGED <<users, owner, step, mem, status, file, accountVars, deleting,
                   interrupted, restarts>>

(* The end of delete(), without an await: row, record and file go; the row *)
(* takes its views with it.                                                *)
Discard(c) ==
    /\ row' = [row EXCEPT ![c] = "absent"]
    /\ saved' = Off(c)
    /\ mem' = mem \ {c}
    /\ file' = [file EXCEPT ![c] = "none"]
    /\ UNCHANGED <<users, owner, status, step, accountVars, interrupted, restarts>>

(* DELETE /api/captures/{id} of a capture without a monitor to await: one  *)
(* that is over, one whose launch is awaited, which goes on, or one whose  *)
(* monitor another delete has taken.                                       *)
Delete(c, u) ==
    /\ Owns(u, c)
    /\ step[c] # "live"
    /\ Discard(c)
    /\ UNCHANGED deleting

(* With one: it is cancelled, and awaited.                                 *)
DeleteBegins(c, u) ==
    /\ Owns(u, c)
    /\ step[c] = "live"
    /\ step' = [step EXCEPT ![c] = "closing"]
    /\ deleting' = deleting \union {c}
    /\ UNCHANGED <<users, owner, mem, status, row, file, saved, accountVars, interrupted,
                   restarts>>

(* The cancelled monitor: interrupted in its try, it persists a failure;   *)
(* in its finally, while that closes the connection, it persists nothing.  *)
(* Half a fetch stays, unless a second delete has removed it.              *)
MonitorCancelled(c) ==
    /\ step[c] = "closing"
    /\ step' = [step EXCEPT ![c] = "over"]
    /\ \E s \in {"completed", "failed"}, f \in {"none", "partial", "stored"} :
           /\ s = "completed" => f = "stored"
           /\ status' = [status EXCEPT ![c] = s]
           /\ file' = IF c \in mem THEN [file EXCEPT ![c] = f] ELSE file
           /\ \/ s = "failed" /\ Upsert(c, owner[c], s)
              \/ UNCHANGED <<row, saved>>
    /\ UNCHANGED <<users, owner, mem, accountVars, deleting, interrupted, restarts>>

(* Monitor and tcpdump have ended: the awaiting delete goes on.            *)
DeleteEnds(c) ==
    /\ c \in deleting /\ step[c] # "closing"
    /\ Discard(c)
    /\ deleting' = deleting \ {c}

-----------------------------------------------------------------------------
(* import_upload()                                                         *)

UploadBegins(c, u) ==
    /\ step[c] = "unused"
    /\ u \in users
    /\ owner' = [owner EXCEPT ![c] = u]
    /\ step' = [step EXCEPT ![c] = "writing"]
    /\ file' = [file EXCEPT ![c] = "partial"]
    /\ UNCHANGED <<users, mem, status, row, saved, accountVars, deleting, interrupted, restarts>>

(* The body arrived and was sealed: renamed into place.                    *)
UploadPlaced(c) ==
    /\ step[c] = "writing"
    /\ step' = [step EXCEPT ![c] = "checking"]
    /\ file' = [file EXCEPT ![c] = "placed"]
    /\ UNCHANGED <<users, owner, mem, status, row, saved, accountVars, deleting, interrupted,
                   restarts>>

(* Fault: only the .partial is removed.                                    *)
UploadLeft(c) ==
    /\ step[c] \in {"writing", "checking"}
    /\ step' = [step EXCEPT ![c] = "over"]
    /\ file' = IF file[c] = "partial" THEN [file EXCEPT ![c] = "none"] ELSE file
    /\ UNCHANGED <<users, owner, mem, status, row, saved, accountVars, deleting, interrupted,
                   restarts>>

(* Too big, not a pcap, empty, the client gone, or capinfos could not read *)
(* it: whatever was written is removed.                                    *)
UploadRefused(c) ==
    /\ step[c] \in {"writing", "checking"}
    /\ step' = [step EXCEPT ![c] = "over"]
    /\ file' = [file EXCEPT ![c] = "none"]
    /\ UNCHANGED <<users, owner, mem, status, row, saved, accountVars, deleting, interrupted,
                   restarts>>

(* Fault: registered as soon as the body is there.                         *)
UploadUnchecked(c) ==
    /\ step[c] \in {"writing", "checking"}
    /\ step' = [step EXCEPT ![c] = "over"]
    /\ mem' = mem \union {c}
    /\ status' = [status EXCEPT ![c] = "completed"]
    /\ Upsert(c, owner[c], "completed")
    /\ UNCHANGED <<users, owner, file, accountVars, deleting, interrupted, restarts>>

(* capinfos read it: the record, then its row.                             *)
UploadRegistered(c) ==
    /\ step[c] = "checking"
    /\ step' = [step EXCEPT ![c] = "over"]
    /\ file' = [file EXCEPT ![c] = "stored"]
    /\ mem' = mem \union {c}
    /\ status' = [status EXCEPT ![c] = "completed"]
    /\ Upsert(c, owner[c], "completed")
    /\ UNCHANGED <<users, owner, accountVars, deleting, interrupted, restarts>>

-----------------------------------------------------------------------------
(* Saved rows: views and diagrams on a capture, filters and presets on     *)
(* the account                                                             *)

keptVars == <<users, owner, step, mem, status, row, file, accountVars, deleting,
              interrupted, restarts>>

(* _require_own_capture for the tables of a capture; the insert itself     *)
(* needs the row its foreign key names.                                    *)
MaySave(on, u) ==
    /\ u \in users
    /\ on # Account => Owns(u, on) /\ row[on] # "absent"

Limit(t) == IF t \in CaptureTables THEN MaxViews ELSE MaxFilters

(* The per-user cap, then the insert, which the UNIQUE name may refuse.    *)
Insert(id, t, on, u, n, p) ==
    /\ \A r \in saved : r.id # id
    /\ Cardinality(saved) + Cardinality(arranging \union arranged) < MaxRows
    /\ Cardinality(Siblings(t, on, u)) < Limit(t)
    /\ \A r \in Siblings(t, on, u) : r.name # n
    /\ saved' = saved \union {[id |-> id, table |-> t, on |-> on, user |-> u,
                               name |-> n, position |-> p]}
    /\ UNCHANGED keptVars

(* Fault: any signed-in user may save a view on any capture.               *)
AddViewAnywhere(id, c, u, n) ==
    /\ u \in users /\ c \in mem /\ row[c] # "absent"
    /\ Siblings("capture_views", c, u) = {}
    /\ Insert(id, "capture_views", c, u, n, 0)

(* Fault: the position is the number of tabs.                              *)
AddViewByCount(id, c, u, n) ==
    /\ MaySave(c, u)
    /\ Insert(id, "capture_views", c, u, n,
              Cardinality(Siblings("capture_views", c, u)))

(* add_capture_view: one past the highest position of the tab strip.       *)
AddView(id, c, u, n) ==
    /\ MaySave(c, u)
    /\ \E p \in 0..MaxPosition :
           /\ \A w \in Siblings("capture_views", c, u) : w.position < p
           /\ p = 0 \/ \E w \in Siblings("capture_views", c, u) : w.position = p - 1
           /\ Insert(id, "capture_views", c, u, n, p)

AddDiagram(id, c, u, n) ==
    MaySave(c, u) /\ Insert(id, "diagram_views", c, u, n, 0)

(* add_custom_filter, of either kind.                                      *)
AddFilter(id, kind, u, n) ==
    MaySave(Account, u) /\ Insert(id, kind, Account, u, n, 0)

AddPreset(id, u, n) ==
    MaySave(Account, u) /\ Insert(id, "capture_presets", Account, u, n, 0)

(* _view_or_404, _diagram_view_or_404 and the WHERE of every statement:    *)
(* the row is the signed-in user's, on a capture that is theirs too.       *)
Reaches(u, r) ==
    r \in saved /\ r.user = u /\ u \in users /\ (r.on # Account => Owns(u, r.on))

(* update_capture_view, update_diagram_view: a new name, which no other of *)
(* the capture has; filters and presets are never changed, only deleted.   *)
Rename(r, t, u, n) ==
    /\ Reaches(u, r) /\ r.table = t
    /\ \A w \in Siblings(t, r.on, u) \ {r} : w.name # n
    /\ saved' = (saved \ {r}) \union {[r EXCEPT !.name = n]}
    /\ UNCHANGED keptVars
UpdateView(r, u, n) == Rename(r, "capture_views", u, n)
UpdateDiagram(r, u, n) == Rename(r, "diagram_views", u, n)

Remove(r, tables, u) ==
    /\ Reaches(u, r) /\ r.table \in tables
    /\ saved' = saved \ {r}
    /\ UNCHANGED keptVars
DeleteView(r, u) == Remove(r, {"capture_views"}, u)
DeleteDiagram(r, u) == Remove(r, {"diagram_views"}, u)
DeleteFilter(r, u) == Remove(r, FilterTables, u)
DeletePreset(r, u) == Remove(r, {"capture_presets"}, u)

-----------------------------------------------------------------------------
(* The column layout of an account                                         *)

layoutOnly == <<users, owner, step, mem, status, row, file, saved, deleting, interrupted,
                restarts>>

(* PUT /api/column-layout: the fields are looked up in tshark's registry,  *)
(* which is awaited.                                                       *)
AskLayout(u) ==
    /\ u \in users \ arranging
    /\ Cardinality(saved) + Cardinality(arranging \union arranged \union {u}) <= MaxRows
    /\ arranging' = arranging \union {u}
    /\ UNCHANGED <<arranged, layoutOnly>>

(* set_column_layout: an upsert, which the foreign key refuses when the    *)
(* account was deleted during the lookup.                                  *)
SetLayout(u) ==
    /\ u \in arranging
    /\ arranging' = arranging \ {u}
    /\ arranged' = IF u \in users THEN arranged \union {u} ELSE arranged
    /\ UNCHANGED layoutOnly

(* A field tshark does not know, or the lookup failed.                     *)
RefuseLayout(u) ==
    /\ u \in arranging
    /\ arranging' = arranging \ {u}
    /\ UNCHANGED <<arranged, layoutOnly>>

(* DELETE /api/column-layout, also while a PUT of the account is waiting.  *)
ClearLayout(u) ==
    /\ u \in users \intersect arranged
    /\ arranged' = arranged \ {u}
    /\ UNCHANGED <<arranging, layoutOnly>>

-----------------------------------------------------------------------------
(* Accounts, crash and restart                                             *)

(* DELETE /api/admin/users/{id}: the row goes, and by foreign keys every   *)
(* row that hangs off it.  _captures, monitors and files are not touched.  *)
DeleteUser(u) ==
    /\ u \in users \ {Admin}
    /\ users' = users \ {u}
    /\ row' = [c \in Captures |-> IF owner[c] = u THEN "absent" ELSE row[c]]
    /\ saved' = {r \in saved : r.user # u /\ (r.on # Account => owner[r.on] # u)}
    /\ arranged' = arranged \ {u}
    /\ UNCHANGED <<owner, step, mem, status, file, arranging, deleting, interrupted, restarts>>

(* A crash, perhaps inside a delete that has removed the row and not yet   *)
(* the file, and the next start: _restore lists the rows and closes the    *)
(* live ones, writing them back.                                           *)
Restart ==
    /\ restarts < MaxRestarts
    /\ restarts' = restarts + 1
    /\ \E cut \in {{}} \union {{c} : c \in {d \in mem : step[d] \notin {"live", "closing"}}},
          fetched \in [{c \in mem : step[c] \in {"live", "closing"}} -> {"none", "partial", "stored"}] :
           LET left == [c \in Captures |-> IF c \in cut THEN "absent" ELSE row[c]]
           IN  /\ \A c \in cut : owner[c] \in users \/ c \in deleting
               /\ mem' = {c \in Captures : left[c] # "absent"}
               /\ row' = [c \in Captures |-> IF left[c] = "active" THEN "failed" ELSE left[c]]
               /\ status' = [c \in Captures |-> IF left[c] \in {"absent", "active"} THEN "failed"
                                                ELSE left[c]]
               /\ saved' = {r \in saved : r.on # Account => left[r.on] \notin {"absent", "active"}}
               /\ file' = [c \in Captures |-> IF c \in DOMAIN fetched THEN fetched[c] ELSE file[c]]
               /\ interrupted' = interrupted \union cut \union
                      {c \in Captures : step[c] \in {"live", "closing", "writing", "checking"}}
    /\ step' = [c \in Captures |-> IF step[c] = "unused" THEN "unused" ELSE "over"]
    /\ arranging' = {} /\ deleting' = {}
    /\ UNCHANGED <<users, owner, arranged>>

-----------------------------------------------------------------------------
CaptureNext(c) ==
    \/ \E u \in Users : AskStart(c, u)
    \/ RefuseStart(c)
    \/ Register(c)
    \/ Launched(c) \/ LaunchFails(c)
    \/ Ends(c)
    \/ Persist(c)
    \/ \E u \in Users : Delete(c, u) \/ DeleteBegins(c, u)
    \/ MonitorCancelled(c)
    \/ DeleteEnds(c)

UploadNext(c) ==
    \/ \E u \in Users : UploadBegins(c, u)
    \/ UploadPlaced(c)
    \/ UploadRefused(c)
    \/ UploadRegistered(c)

(* The routes under /api/captures/{id}.                                    *)
CaptureSavedNext(u) ==
    \/ \E id \in SavedIds, c \in Captures, n \in Names :
           AddView(id, c, u, n) \/ AddDiagram(id, c, u, n)
    \/ \E r \in saved, n \in Names : UpdateView(r, u, n) \/ UpdateDiagram(r, u, n)
    \/ \E r \in saved : DeleteView(r, u) \/ DeleteDiagram(r, u)

(* Those under /api/filters, /api/capture-presets, /api/display-filters.   *)
AccountSavedNext(u) ==
    \/ \E id \in SavedIds, n \in Names :
           \/ \E kind \in FilterTables : AddFilter(id, kind, u, n)
           \/ AddPreset(id, u, n)
    \/ \E r \in saved : DeleteFilter(r, u) \/ DeletePreset(r, u)

LayoutNext(u) == AskLayout(u) \/ SetLayout(u) \/ RefuseLayout(u) \/ ClearLayout(u)

UserNext(u) ==
    \/ CaptureSavedNext(u)
    \/ AccountSavedNext(u)
    \/ LayoutNext(u)
    \/ DeleteUser(u)

Next ==
    \/ \E c \in Captures : CaptureNext(c) \/ UploadNext(c)
    \/ \E u \in Users : UserNext(u)
    \/ Restart

Spec == Init /\ [][Next]_vars

-----------------------------------------------------------------------------
(* Properties                                                              *)

(* A file on the volume is never lost while its process lives: it belongs  *)
(* to a listed record or to an upload still in flight.  The only files no  *)
(* record leads to are those of requests a crash cut off and those of      *)
(* deleted accounts.                                                       *)
NoLostFile ==
    \A c \in Captures :
        file[c] # "none" =>
            \/ c \in mem
            \/ step[c] \in {"writing", "checking"}
            \/ c \in interrupted
            \/ owner[c] \notin users

(* A record or a row says COMPLETED only when its file is whole and was    *)
(* read once as a capture, whether it was recorded here or uploaded, and   *)
(* whatever crashed in between.                                            *)
CompletedIsStored ==
    \A c \in Captures :
        (c \in mem /\ status[c] = "completed") \/ row[c] = "completed"
            => file[c] = "stored"

(* What an account saves is private and never dangles: every saved row     *)
(* belongs to an account that exists, and a view or a diagram is on a      *)
(* listed capture of that account.                                         *)
ViewsBelongToOwner ==
    \A r \in saved :
        /\ r.user \in users
        /\ r.on # Account => owner[r.on] = r.user /\ r.on \in mem

(* The tab strip of a capture is an order: no two tabs share a position,   *)
(* whatever was added and deleted before; and in no table do two rows of   *)
(* one account in one place share a name, whatever was renamed.            *)
TabsAreOrdered ==
    \A r, w \in saved :
        r # w /\ r.table = w.table /\ r.on = w.on /\ r.user = w.user =>
            /\ r.name # w.name
            /\ r.table = "capture_views" => r.position # w.position

(* A deleted account stays deleted: none of its captures' rows and no      *)
(* column layout of it comes back, though its launches, its monitors, its  *)
(* uploads, its deletes and a layout it was saving go on and write at the  *)
(* end.                                                                    *)
NoRowOutlivesItsUser ==
    /\ \A c \in Captures : row[c] # "absent" => owner[c] \in users
    /\ arranged \subseteq users

-----------------------------------------------------------------------------
(* What comments and docs of the code say and the code does not do         *)

(* A view or a diagram goes when it is deleted, or when its capture does.  *)
ViewsGoOnlyWithCapture ==
    [][\A r \in saved :
           \/ \E w \in saved' : w.id = r.id
           \/ r.on # Account /\ row'[r.on] = "absent"
           \/ r.user \notin users'
           \/ Remove(r, CaptureTables \union AccountTables, r.user)]_vars

(* An active record has something that will close it.                      *)
ActiveHasMonitor ==
    \A c \in mem : status[c] = "active" => step[c] \in {"launching", "live", "closing"}

(* Deleting an account discards every capture it owns.                     *)
DeletedUserLeavesNothing ==
    \A c \in Captures : owner[c] \notin users => c \notin mem /\ file[c] = "none"
=============================================================================
