-------------------------- MODULE CaptureLifecycle --------------------------
(***************************************************************************)
(* backend/capture.py: CaptureManager, from the start of a capture to its  *)
(* record's last write, with the tcpdump it runs on the target host.       *)
(*                                                                         *)
(* The manager is one asyncio event loop: code between two awaits runs     *)
(* without interruption, so every action below is one such stretch of one  *)
(* coroutine -- a request handler (start, stop, rename, delete), the       *)
(* capture's own _monitor task, or shutdown() -- and the interleavings TLC *)
(* explores are the orders in which the loop may resume them.              *)
(***************************************************************************)
EXTENDS FiniteSets, Naturals

CONSTANTS
    Captures,      \* the ids uuid4 will hand out, one per start
    Servers,       \* target hosts
    Links,         \* network interfaces of a host
    AnyInterface,  \* the interface name "any" (ANY_INTERFACE)
    Requests,      \* the CaptureRequests users send
    Deleters,      \* concurrent DELETE requests for one capture
    MaxConcurrent, \* setting max_concurrent_captures
    MaxRestarts    \* bound: crashes and restarts of the process in a behaviour

(* A request names a server and either one interface or several.           *)
RequestType == [server : Servers,
                interface : Links \union {AnyInterface},
                interfaces : SUBSET Links]

ASSUME CapturesAssumption == IsFiniteSet(Captures)
ASSUME AnyInterfaceAssumption == AnyInterface \notin Links
ASSUME RequestsAssumption == Requests \subseteq RequestType
ASSUME LimitAssumption == MaxConcurrent \in Nat
ASSUME RestartsAssumption == MaxRestarts \in Nat

VARIABLES
    mem,       \* keys of CaptureManager._captures
    status,    \* status of each CaptureInfo object, in _captures or not
    row,       \* status column of the captures table; "absent" = no row
    wanted,    \* the narrowed request a capture was started with
    sets,      \* keys of _interface_sets
    procs,     \* keys of _processes
    tasks,     \* keys of _tasks
    launch,    \* where start() of each capture is
    mon,       \* where the capture's _monitor coroutine is
    cancelled, \* monitors with a cancellation they have not yet received
    tcpdump,   \* the process on the target
    signalled, \* captures whose tcpdump stop_tcpdump() has been asked to end
    conn,      \* captures whose SSH connection is open
    remote,    \* captures whose pcap is on the target's /tmp
    local,     \* the pcap on the captures volume
    del,       \* where each delete() of each capture is
    phase,     \* the application: serving, shutting down, down
    ending,    \* the capture shutdown() is waiting on, as a set of at most one
    restarts   \* number of restarts so far (bounded by MaxRestarts)

managerVars == <<mem, sets, procs, tasks>>
targetVars  == <<tcpdump, signalled, conn, remote>>
appVars     == <<phase, ending, restarts>>
vars == <<mem, status, row, wanted, sets, procs, tasks, launch, mon, cancelled,
          tcpdump, signalled, conn, remote, local, del, phase, ending, restarts>>

Active     == {"running", "stopping", "transferring"}   \* _ACTIVE_STATUSES
Terminal   == {"completed", "failed"}
Status     == Active \union Terminal
LaunchStep == {"unused", "launching", "launched", "failed"}
MonStep    == {"none", "created", "waiting", "fetching", "tidying", "counting",
               "closing", "ended"}
(* A delete that popped the process owns it: its steps carry a P.          *)
DelStep    == {"idle", "gather", "gatherP", "stopP", "closeP", "done"}
(* Before start() has run; never compared with a server.                   *)
NoRequest  == [server |-> AnyInterface, interface |-> AnyInterface,
               interfaces |-> {}]

TypeOK ==
    /\ mem \subseteq Captures
    /\ status \in [Captures -> Status]
    /\ row \in [Captures -> Status \union {"absent"}]
    /\ wanted \in [Captures -> RequestType \union {NoRequest}]
    /\ sets \subseteq Captures
    /\ procs \subseteq Captures
    /\ tasks \subseteq Captures
    /\ launch \in [Captures -> LaunchStep]
    /\ mon \in [Captures -> MonStep]
    /\ cancelled \subseteq Captures
    /\ tcpdump \in [Captures -> {"none", "running", "exited", "errored"}]
    /\ signalled \subseteq Captures
    /\ conn \subseteq Captures
    /\ remote \subseteq Captures
    /\ local \in [Captures -> {"none", "partial", "whole"}]
    /\ del \in [Captures -> [Deleters -> DelStep]]
    /\ phase \in {"up", "stopping", "cancelling", "down"}
    /\ ending \subseteq Captures
    /\ restarts \in 0..MaxRestarts

-----------------------------------------------------------------------------
(* Helpers                                                                 *)

(* narrow_to_interfaces: one named interface is just that interface; two   *)
(* or more run on "any" and keep their names.                              *)
Narrow(r) ==
    IF r.interfaces = {} THEN r
    ELSE IF \E l \in Links : r.interfaces = {l}
         THEN [r EXCEPT !.interface = CHOOSE l \in Links : r.interfaces = {l},
                        !.interfaces = {}]
         ELSE [r EXCEPT !.interface = AnyInterface]

(* _covered: the links a capture reads, every one of them for plain "any". *)
Covered(r, named) ==
    IF named THEN r.interfaces
    ELSE IF r.interface = AnyInterface THEN Links ELSE {r.interface}

(* What the busy check in start() believes a registered capture reads: the *)
(* names only while _interface_sets still holds them.                      *)
Reads(c) == Covered(wanted[c], c \in sets)

(* What the tcpdump of a capture really reads.                             *)
Covers(c) == Covered(wanted[c], wanted[c].interfaces # {})

ActiveCaptures == {c \in mem : status[c] \in Active}

Alive(c) == mon[c] \in {"created", "waiting", "fetching", "tidying", "counting",
                        "closing"}

Deleting(c) == \E d \in Deleters : del[c][d] \notin {"idle", "done"}

-----------------------------------------------------------------------------
Init ==
    /\ mem = {}
    /\ status = [c \in Captures |-> "failed"]
    /\ row = [c \in Captures |-> "absent"]
    /\ wanted = [c \in Captures |-> NoRequest]
    /\ sets = {}
    /\ procs = {}
    /\ tasks = {}
    /\ launch = [c \in Captures |-> "unused"]
    /\ mon = [c \in Captures |-> "none"]
    /\ cancelled = {}
    /\ tcpdump = [c \in Captures |-> "none"]
    /\ signalled = {}
    /\ conn = {}
    /\ remote = {}
    /\ local = [c \in Captures |-> "none"]
    /\ del = [c \in Captures |-> [d \in Deleters |-> "idle"]]
    /\ phase = "up"
    /\ ending = {}
    /\ restarts = 0

-----------------------------------------------------------------------------
(* start()                                                                 *)

(* Two captures would both read a link: _overlap is None (both read every  *)
(* link) or not empty.                                                     *)
Overlap(a, b) == a \intersect b # {}

(* Fault: compared by the interface string, as an earlier version did.     *)
BusyByName(r) ==
    \E c \in ActiveCaptures :
        wanted[c].server = r.server /\ wanted[c].interface = r.interface

Busy(r) ==
    \E c \in ActiveCaptures :
        /\ wanted[c].server = r.server
        /\ Overlap(Covered(r, r.interfaces # {}), Reads(c))

HasSlot == Cardinality(ActiveCaptures) < MaxConcurrent

(* The synchronous stretch of start(): the limit, the busy check and the   *)
(* registration, up to the await of run_tcpdump.                           *)
Start(c, request) ==
    LET r == Narrow(request) IN
    /\ phase = "up"
    /\ launch[c] = "unused"
    /\ HasSlot
    /\ ~Busy(r)
    /\ wanted' = [wanted EXCEPT ![c] = r]
    /\ status' = [status EXCEPT ![c] = "running"]
    /\ row' = [row EXCEPT ![c] = "running"]
    /\ mem' = mem \union {c}
    /\ sets' = IF r.interfaces # {} THEN sets \union {c} ELSE sets
    /\ launch' = [launch EXCEPT ![c] = "launching"]
    /\ UNCHANGED <<procs, tasks, mon, cancelled, targetVars, local, del, appVars>>

(* run_tcpdump returned: the process is registered and the monitor task    *)
(* created.  Nothing looks at _captures again.                             *)
LaunchReturns(c) ==
    /\ launch[c] = "launching"
    /\ launch' = [launch EXCEPT ![c] = "launched"]
    /\ tcpdump' = [tcpdump EXCEPT ![c] = "running"]
    /\ conn' = conn \union {c}
    /\ remote' = remote \union {c}
    /\ procs' = procs \union {c}
    /\ tasks' = tasks \union {c}
    /\ mon' = [mon EXCEPT ![c] = "created"]
    /\ UNCHANGED <<mem, status, row, wanted, sets, cancelled, signalled, local,
                   del, appVars>>

(* run_tcpdump raised (unreachable host, changed key, self-capture refused *)
(* on the connection itself): start() closes the record itself.            *)
LaunchFails(c) ==
    /\ launch[c] = "launching"
    /\ launch' = [launch EXCEPT ![c] = "failed"]
    /\ status' = [status EXCEPT ![c] = "failed"]
    /\ row' = [row EXCEPT ![c] = "failed"]
    /\ UNCHANGED <<managerVars, wanted, mon, cancelled, targetVars, local, del,
                   appVars>>

-----------------------------------------------------------------------------
(* stop() and rename()                                                     *)

(* Fault: a second stop, or one that comes late, is not turned away.       *)
StopAnytime(c) ==
    /\ phase = "up"
    /\ c \in mem
    /\ status' = [status EXCEPT ![c] = "stopping"]
    /\ row' = [row EXCEPT ![c] = "stopping"]
    /\ signalled' = IF c \in procs THEN signalled \union {c} ELSE signalled
    /\ UNCHANGED <<managerVars, wanted, launch, mon, cancelled, tcpdump, conn,
                   remote, local, del, appVars>>

(* stop(): only a RUNNING capture; the status and its row first, then      *)
(* stop_tcpdump if there is a process to signal.  What stop_tcpdump awaits *)
(* afterwards changes no state.                                            *)
Stop(c) ==
    /\ phase = "up"
    /\ c \in mem
    /\ status[c] = "running"
    /\ status' = [status EXCEPT ![c] = "stopping"]
    /\ row' = [row EXCEPT ![c] = "stopping"]
    /\ signalled' = IF c \in procs THEN signalled \union {c} ELSE signalled
    /\ UNCHANGED <<managerVars, wanted, launch, mon, cancelled, tcpdump, conn,
                   remote, local, del, appVars>>

(* rename() in any state: the whole record is written back.                *)
Rename(c) ==
    /\ phase = "up"
    /\ c \in mem
    /\ row' = [row EXCEPT ![c] = status[c]]
    /\ UNCHANGED <<status, managerVars, wanted, launch, mon, cancelled,
                   targetVars, local, del, appVars>>

-----------------------------------------------------------------------------
(* The target host                                                         *)

(* tcpdump ends: the packet count is reached, timeout(1) fires, a signal   *)
(* arrives -- or it fails on its own (exit status not 0, 124 or 130).      *)
TcpdumpExits(c) ==
    /\ tcpdump[c] = "running"
    /\ \E s \in {"exited", "errored"} : tcpdump' = [tcpdump EXCEPT ![c] = s]
    /\ UNCHANGED <<mem, status, row, wanted, sets, procs, tasks, launch, mon,
                   cancelled, signalled, conn, remote, local, del, appVars>>

-----------------------------------------------------------------------------
(* _monitor()                                                              *)

(* A monitor step happens only when no cancellation is pending: asyncio    *)
(* delivers it at the coroutine's next resumption.                         *)
Monitoring(c, step) == mon[c] = step /\ c \notin cancelled

(* Fault: the process is forgotten without being closed.                   *)
FinishUnclosed(c, s) ==
    /\ status' = [status EXCEPT ![c] = s]
    /\ procs' = procs \ {c}
    /\ mon' = [mon EXCEPT ![c] = "ended"]
    /\ row' = [row EXCEPT ![c] = s]
    /\ tasks' = tasks \ {c}
    /\ sets' = sets \ {c}

(* The except clause and finally of _monitor from the moment the outcome s *)
(* is known.  The process, if delete() or shutdown() has not taken it, is  *)
(* popped and closed across an await; otherwise the closing row is written *)
(* and the task leaves in the same step.                                   *)
Finish(c, s) ==
    /\ status' = [status EXCEPT ![c] = s]
    /\ IF c \in procs
       THEN /\ procs' = procs \ {c}
            /\ mon' = [mon EXCEPT ![c] = "closing"]
            /\ UNCHANGED <<row, tasks, sets>>
       ELSE /\ mon' = [mon EXCEPT ![c] = "ended"]
            /\ row' = [row EXCEPT ![c] = s]
            /\ tasks' = tasks \ {c}
            /\ sets' = sets \ {c}
            /\ UNCHANGED procs

(* The first step of the task.  _captures[capture_id] is read outside the  *)
(* try: if the record is gone, the KeyError ends the task with nothing     *)
(* released.                                                               *)
MonitorBegins(c) ==
    /\ Monitoring(c, "created")
    /\ mon' = [mon EXCEPT ![c] = IF c \in mem THEN "waiting" ELSE "ended"]
    /\ UNCHANGED <<mem, status, row, wanted, sets, procs, tasks, launch,
                   cancelled, targetVars, local, del, appVars>>

(* _LiveCount and the first _record_interface_names write the record back  *)
(* while the capture runs.                                                 *)
LiveCount(c) ==
    /\ mon[c] = "waiting"
    /\ row' = [row EXCEPT ![c] = status[c]]
    /\ UNCHANGED <<status, managerVars, wanted, launch, mon, cancelled,
                   targetVars, local, del, appVars>>

(* _await_exit returned: TRANSFERRING, persisted, and _collect begins.     *)
MonitorExit(c) ==
    /\ Monitoring(c, "waiting")
    /\ tcpdump[c] = "exited"
    /\ status' = [status EXCEPT ![c] = "transferring"]
    /\ row' = [row EXCEPT ![c] = "transferring"]
    /\ mon' = [mon EXCEPT ![c] = "fetching"]
    /\ UNCHANGED <<managerVars, wanted, launch, cancelled, targetVars, local,
                   del, appVars>>

(* tcpdump exited with another status: the Exception clause.               *)
MonitorExitError(c) ==
    /\ Monitoring(c, "waiting")
    /\ tcpdump[c] = "errored"
    /\ Finish(c, "failed")
    /\ local' = [local EXCEPT ![c] = "none"]
    /\ UNCHANGED <<mem, wanted, launch, cancelled, targetVars, del, appVars>>

(* Fault: no backstop.                                                     *)
MonitorWaits(c) == FALSE

(* monitor_timeout passed before the process ended: the backstop.          *)
MonitorTimeout(c) ==
    /\ Monitoring(c, "waiting")
    /\ tcpdump[c] = "running"
    /\ Finish(c, "failed")
    /\ UNCHANGED <<mem, wanted, launch, cancelled, targetVars, local, del,
                   appVars>>

FetchReturns(c) ==
    /\ Monitoring(c, "fetching")
    /\ c \in remote
    /\ local' = [local EXCEPT ![c] = "whole"]
    /\ mon' = [mon EXCEPT ![c] = "tidying"]
    /\ UNCHANGED <<mem, status, row, wanted, sets, procs, tasks, launch,
                   cancelled, targetVars, del, appVars>>

(* Fault: a failed fetch is logged and the capture goes on to COMPLETED.   *)
FetchFailsQuietly(c) ==
    /\ Monitoring(c, "fetching")
    /\ mon' = [mon EXCEPT ![c] = "tidying"]
    /\ UNCHANGED <<mem, status, row, wanted, sets, procs, tasks, launch,
                   cancelled, targetVars, local, del, appVars>>

(* Any other exception of the fetch: _discard_partial.                     *)
FetchFails(c) ==
    /\ Monitoring(c, "fetching")
    /\ Finish(c, "failed")
    /\ local' = [local EXCEPT ![c] = "none"]
    /\ UNCHANGED <<mem, wanted, launch, cancelled, targetVars, del, appVars>>

(* FETCH_TIMEOUT, or a connect that timed out before the file was opened.  *)
FetchTimesOut(c) ==
    /\ Monitoring(c, "fetching")
    /\ Finish(c, "failed")
    /\ \E f \in {"none", "partial"} : local' = [local EXCEPT ![c] = f]
    /\ UNCHANGED <<mem, wanted, launch, cancelled, targetVars, del, appVars>>

(* delete_remote_file, best effort.                                        *)
TidyReturns(c) ==
    /\ Monitoring(c, "tidying")
    /\ \E r \in {remote, remote \ {c}} : remote' = r
    /\ mon' = [mon EXCEPT ![c] = "counting"]
    /\ UNCHANGED <<mem, status, row, wanted, sets, procs, tasks, launch,
                   cancelled, tcpdump, signalled, conn, local, del, appVars>>

(* The packets are counted, or not: either way the capture is COMPLETED.   *)
CountReturns(c) ==
    /\ Monitoring(c, "counting")
    /\ Finish(c, "completed")
    /\ UNCHANGED <<mem, wanted, launch, cancelled, targetVars, local, del,
                   appVars>>

(* capture.close() returned: the closing row, then the tables.             *)
MonitorCloses(c) ==
    /\ Monitoring(c, "closing")
    /\ conn' = conn \ {c}
    /\ row' = [row EXCEPT ![c] = status[c]]
    /\ tasks' = tasks \ {c}
    /\ sets' = sets \ {c}
    /\ mon' = [mon EXCEPT ![c] = "ended"]
    /\ UNCHANGED <<mem, status, wanted, procs, launch, cancelled, tcpdump,
                   signalled, remote, local, del, appVars>>

(* The cancellation arrives.  A task that never ran leaves no trace; in    *)
(* the body it is FAILED "cancelled"; inside finally's close() it leaves   *)
(* at once, and the statements after close() do not run.                   *)
MonitorCancelled(c) ==
    /\ c \in cancelled
    /\ cancelled' = cancelled \ {c}
    /\ \/ /\ mon[c] = "created"
          /\ mon' = [mon EXCEPT ![c] = "ended"]
          /\ UNCHANGED <<status, row, sets, procs, tasks, conn, local>>
       \/ /\ mon[c] \in {"waiting", "fetching", "tidying", "counting"}
          /\ Finish(c, "failed")
          /\ \E f \in IF mon[c] = "fetching" THEN {"none", "partial"}
                      ELSE {local[c]} :
                 local' = [local EXCEPT ![c] = f]
          /\ UNCHANGED conn
       \/ /\ mon[c] = "closing"
          /\ mon' = [mon EXCEPT ![c] = "ended"]
          /\ conn' = conn \ {c}
          /\ UNCHANGED <<status, row, sets, procs, tasks, local>>
    /\ UNCHANGED <<mem, wanted, launch, tcpdump, signalled, remote, del, appVars>>

-----------------------------------------------------------------------------
(* delete()                                                                *)

(* The last synchronous stretch: the row, the interface set, the record    *)
(* and the local copy (only the delete that still finds the record knows   *)
(* the file's path).                                                       *)
DropRecord(c) ==
    /\ row' = [row EXCEPT ![c] = "absent"]
    /\ sets' = sets \ {c}
    /\ mem' = mem \ {c}
    /\ local' = IF c \in mem THEN [local EXCEPT ![c] = "none"] ELSE local

(* The first stretch: the process and the task are taken; a task is        *)
(* cancelled and awaited; without a task, a process is stopped at once;    *)
(* without either, the record is dropped at once.                          *)
DeleteBegins(c, d) ==
    /\ phase = "up"
    /\ c \in mem
    /\ del[c][d] = "idle"
    /\ procs' = procs \ {c}
    /\ tasks' = tasks \ {c}
    /\ LET next == IF c \in tasks THEN (IF c \in procs THEN "gatherP" ELSE "gather")
                   ELSE IF c \in procs THEN "stopP" ELSE "done"
       IN  /\ del' = [del EXCEPT ![c][d] = next]
           /\ cancelled' = IF c \in tasks /\ Alive(c) THEN cancelled \union {c}
                           ELSE cancelled
           /\ signalled' = IF next = "stopP" THEN signalled \union {c}
                           ELSE signalled
           /\ IF next = "done" THEN DropRecord(c)
              ELSE UNCHANGED <<row, sets, mem, local>>
    /\ UNCHANGED <<status, wanted, launch, mon, tcpdump, conn, remote, appVars>>

(* Fault: the cancelled monitor is not awaited.                            *)
DeleteUngathered(c, d) ==
    /\ del[c][d] \in {"gather", "gatherP"}
    /\ del' = [del EXCEPT ![c][d] = "done"]
    /\ DropRecord(c)
    /\ UNCHANGED <<status, wanted, procs, tasks, launch, mon, cancelled,
                   targetVars, appVars>>

(* gather() returned: the monitor, and with it its finally, is over.       *)
DeleteGathered(c, d) ==
    /\ ~Alive(c)
    /\ \/ /\ del[c][d] = "gatherP"
          /\ del' = [del EXCEPT ![c][d] = "stopP"]
          /\ signalled' = signalled \union {c}
          /\ UNCHANGED <<row, sets, mem, local>>
       \/ /\ del[c][d] = "gather"
          /\ del' = [del EXCEPT ![c][d] = "done"]
          /\ DropRecord(c)
          /\ UNCHANGED signalled
    /\ UNCHANGED <<status, wanted, procs, tasks, launch, mon, cancelled,
                   tcpdump, conn, remote, appVars>>

(* Fault: the wait for the interrupted process has no timeout.             *)
DeleteWaitsForExit(c, d) ==
    /\ del[c][d] = "stopP"
    /\ tcpdump[c] # "running"
    /\ del' = [del EXCEPT ![c][d] = "closeP"]
    /\ \E r \in {remote, remote \ {c}} : remote' = r
    /\ UNCHANGED <<mem, status, row, wanted, sets, procs, tasks, launch, mon,
                   cancelled, tcpdump, signalled, conn, local, appVars>>

(* stop_tcpdump returned -- the process ended, or ignored INT, INT by      *)
(* command and KILL -- and the file on the target is removed, best effort. *)
DeleteStopped(c, d) ==
    /\ del[c][d] = "stopP"
    /\ del' = [del EXCEPT ![c][d] = "closeP"]
    /\ \E r \in {remote, remote \ {c}} : remote' = r
    /\ UNCHANGED <<mem, status, row, wanted, sets, procs, tasks, launch, mon,
                   cancelled, tcpdump, signalled, conn, local, appVars>>

(* close() returned: the connection is gone, and the record with it.       *)
DeleteCloses(c, d) ==
    /\ del[c][d] = "closeP"
    /\ del' = [del EXCEPT ![c][d] = "done"]
    /\ conn' = conn \ {c}
    /\ DropRecord(c)
    /\ UNCHANGED <<status, wanted, procs, tasks, launch, mon, cancelled,
                   tcpdump, signalled, remote, appVars>>

-----------------------------------------------------------------------------
(* shutdown(), crash and restart                                           *)

(* The lifespan's shutdown runs once uvicorn has let every request in      *)
(* flight finish: no start is launching, no delete is between its steps.   *)
ShutdownBegins ==
    /\ phase = "up"
    /\ \A c \in Captures : launch[c] # "launching" /\ ~Deleting(c)
    /\ phase' = "stopping"
    /\ UNCHANGED <<mem, status, row, wanted, sets, procs, tasks, launch, mon,
                   cancelled, targetVars, local, del, ending, restarts>>

(* The loop over _processes, one at a time: popped and interrupted.        *)
ShutdownStops(c) ==
    /\ phase = "stopping"
    /\ ending = {}
    /\ c \in procs
    /\ procs' = procs \ {c}
    /\ signalled' = signalled \union {c}
    /\ ending' = {c}
    /\ UNCHANGED <<mem, status, row, wanted, sets, tasks, launch, mon, cancelled,
                   tcpdump, conn, remote, local, del, phase, restarts>>

(* stop_tcpdump returned, ended or not, and the connection is closed.      *)
ShutdownCloses(c) ==
    /\ c \in ending
    /\ ending' = {}
    /\ conn' = conn \ {c}
    /\ UNCHANGED <<mem, status, row, wanted, sets, procs, tasks, launch, mon,
                   cancelled, tcpdump, signalled, remote, local, del, phase,
                   restarts>>

(* Every remaining task is cancelled.                                      *)
ShutdownCancels ==
    /\ phase = "stopping"
    /\ ending = {}
    /\ procs = {}
    /\ cancelled' = cancelled \union {c \in tasks : Alive(c)}
    /\ phase' = "cancelling"
    /\ UNCHANGED <<mem, status, row, wanted, sets, procs, tasks, launch, mon,
                   targetVars, local, del, ending, restarts>>

(* gather() returned: the process exits, its connections with it.          *)
ShutdownEnds ==
    /\ phase = "cancelling"
    /\ \A c \in Captures : ~Alive(c)
    /\ phase' = "down"
    /\ tasks' = {}
    /\ UNCHANGED <<mem, status, row, wanted, sets, procs, launch, mon, cancelled,
                   targetVars, local, del, ending, restarts>>

(* _restore(): what was live when the process went is over.                *)
Restored(c) == IF row[c] \in Active THEN "failed" ELSE row[c]

(* A crash at any point, or the start after a shutdown: nothing in memory  *)
(* survives; tcpdump and its file on the target do.                        *)
Restart ==
    /\ restarts < MaxRestarts
    /\ restarts' = restarts + 1
    /\ phase' = "up"
    /\ ending' = {}
    /\ row' = [c \in Captures |-> Restored(c)]
    /\ mem' = {c \in Captures : row[c] # "absent"}
    /\ status' = [c \in Captures |-> IF row[c] = "absent" THEN "failed"
                                     ELSE Restored(c)]
    /\ sets' = {}
    /\ procs' = {}
    /\ tasks' = {}
    /\ launch' = [c \in Captures |-> IF launch[c] = "launching" THEN "failed"
                                     ELSE launch[c]]
    /\ mon' = [c \in Captures |-> "none"]
    /\ cancelled' = {}
    /\ conn' = {}
    /\ del' = [c \in Captures |-> [d \in Deleters |-> "idle"]]
    /\ UNCHANGED <<wanted, tcpdump, signalled, remote, local>>

-----------------------------------------------------------------------------
MonitorNext(c) ==
    \/ MonitorBegins(c)
    \/ LiveCount(c)
    \/ MonitorExit(c)
    \/ MonitorExitError(c)
    \/ MonitorTimeout(c)
    \/ FetchReturns(c)
    \/ FetchFails(c)
    \/ FetchTimesOut(c)
    \/ TidyReturns(c)
    \/ CountReturns(c)
    \/ MonitorCloses(c)
    \/ MonitorCancelled(c)

DeleteNext(c) ==
    \E d \in Deleters :
        \/ DeleteBegins(c, d)
        \/ DeleteGathered(c, d)
        \/ DeleteStopped(c, d)
        \/ DeleteCloses(c, d)

RequestNext(c) ==
    \/ \E r \in Requests : Start(c, r)
    \/ LaunchReturns(c)
    \/ LaunchFails(c)
    \/ Stop(c)
    \/ Rename(c)
    \/ TcpdumpExits(c)

ShutdownNext ==
    \/ ShutdownBegins
    \/ \E c \in Captures : ShutdownStops(c)
    \/ \E c \in Captures : ShutdownCloses(c)
    \/ ShutdownCancels
    \/ ShutdownEnds
    \/ Restart

Next ==
    \/ \E c \in Captures : RequestNext(c) \/ MonitorNext(c) \/ DeleteNext(c)
    \/ ShutdownNext

Spec == Init /\ [][Next]_vars

(* The event loop runs every ready coroutine, and each await of these      *)
(* ends: an SSH connect, fetch or close by its timeout, process.wait by    *)
(* monitor_timeout, stop_tcpdump by its three graces.  Nothing is assumed  *)
(* of users, of tcpdump or of the process being shut down.                 *)
Fairness ==
    \A c \in Captures :
        /\ WF_vars(LaunchReturns(c) \/ LaunchFails(c))
        /\ WF_vars(MonitorBegins(c))
        /\ WF_vars(MonitorExit(c) \/ MonitorExitError(c) \/ MonitorTimeout(c))
        /\ WF_vars(FetchReturns(c) \/ FetchFails(c) \/ FetchTimesOut(c))
        /\ WF_vars(TidyReturns(c))
        /\ WF_vars(CountReturns(c))
        /\ WF_vars(MonitorCloses(c))
        /\ WF_vars(MonitorCancelled(c))
        /\ \A d \in Deleters : WF_vars(DeleteGathered(c, d))
        /\ \A d \in Deleters : WF_vars(DeleteStopped(c, d))
        /\ \A d \in Deleters : WF_vars(DeleteCloses(c, d))
        /\ WF_vars(ShutdownStops(c))
        /\ WF_vars(ShutdownCloses(c))

FairSpec == Spec /\ Fairness /\ WF_vars(ShutdownCancels) /\ WF_vars(ShutdownEnds)

-----------------------------------------------------------------------------
(* Properties                                                              *)

(* start() never lets more captures be running, stopping or transferring   *)
(* than max_concurrent_captures: the check and the registration are one    *)
(* synchronous stretch, and nothing else makes a record active again.      *)
ActiveWithinLimit == Cardinality(ActiveCaptures) <= MaxConcurrent

(* One capture per interface per server: two records that are active on    *)
(* one server never both cover a link, whatever the order in which monitors*)
(* end, deletes pop tables and interface sets are forgotten.  It is about  *)
(* what was asked for, not about what _interface_sets still remembers.     *)
OneCapturePerLink ==
    \A a, b \in ActiveCaptures :
        a # b /\ wanted[a].server = wanted[b].server =>
            Covers(a) \intersect Covers(b) = {}

(* An open SSH connection of a capture that is still listed is in the      *)
(* hands of something that will close it.                                  *)
ConnectionHasOwner ==
    \A c \in conn \intersect mem :
        \/ c \in procs /\ Alive(c)
        \/ mon[c] = "closing"
        \/ \E d \in Deleters : del[c][d] \in {"gatherP", "stopP", "closeP"}
        \/ c \in ending
        \/ phase # "up"

(* A delete is final: once the deletes of a launched capture have returned *)
(* and its record is gone, no monitor, pump or rename has written its row  *)
(* back -- which is what awaiting the cancelled monitor is for.            *)
DeleteStaysDeleted ==
    \A c \in Captures :
        launch[c] = "launched" /\ c \notin mem /\ ~Deleting(c)
            => row[c] = "absent"

(* A capture is COMPLETED, in memory or in its row, only with its whole    *)
(* pcap on the volume; before that its download is refused.                *)
CompletedHasFile ==
    \A c \in Captures :
        (c \in mem /\ status[c] = "completed") \/ row[c] = "completed"
            => local[c] = "whole"

(* Every capture that is active is over some day, or no longer listed,     *)
(* though no user stops it and the tcpdump on the target never ends -- or  *)
(* the process itself has gone.                                            *)
EveryCaptureEnds ==
    \A c \in Captures :
        c \in ActiveCaptures ~> c \notin ActiveCaptures \/ phase = "down"

(* A delete, once begun, ends with the record gone, unless the process is  *)
(* restarted first.                                                        *)
DeleteEnds ==
    \A c \in Captures : Deleting(c) ~> ~Deleting(c)

-----------------------------------------------------------------------------
(* What a user sees of a capture, and what survives a restart, is the      *)
(* record of module CaptureRecord: a status that only moves forward, a row *)
(* that is always a status the record has had, and an id never used again. *)
Record == INSTANCE CaptureRecord WITH
    fresh <- {c \in Captures : launch[c] = "unused"},
    rec   <- [c \in Captures |-> IF c \in mem THEN status[c] ELSE "absent"],
    saved <- row

RefinesRecord == Record!Spec

-----------------------------------------------------------------------------
(* What comments of the code say and the code does not do                  *)

(* Two tcpdumps never read one link of a target at once.                   *)
OneTcpdumpPerLink ==
    \A a, b \in Captures :
        /\ a # b
        /\ tcpdump[a] = "running" /\ tcpdump[b] = "running"
        /\ wanted[a].server = wanted[b].server
        => Covers(a) \intersect Covers(b) = {}

(* The connection closes when the capture does, on every exit path.        *)
NoOrphanConnection ==
    \A c \in conn :
        c \in mem \/ launch[c] = "launching" \/ Deleting(c) \/ phase # "up"

(* A delete that has returned is final.                                    *)
DeleteIsFinal ==
    \A c \in Captures : launch[c] # "unused" /\ c \notin mem /\ ~Deleting(c)
        => row[c] = "absent"

(* Half a capture is never left on the volume by a transfer that failed.   *)
FailedKeepsNoHalfFile ==
    \A c \in mem : status[c] = "failed" => local[c] # "partial"

(* shutdown() returns with every closing row written.                      *)
ShutdownWritesClosingRows ==
    phase = "down" => \A c \in mem : row[c] = status[c]

(* A stop interrupts the tcpdump of the capture it stops.                  *)
StopReachesTcpdump ==
    \A c \in mem :
        status[c] = "stopping" /\ mon[c] = "waiting" => c \in signalled
=============================================================================
