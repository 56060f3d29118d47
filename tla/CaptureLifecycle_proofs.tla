----------------------- MODULE CaptureLifecycle_proofs -----------------------
(***************************************************************************)
(* What TLAPS proves of CaptureLifecycle for every set of captures,        *)
(* servers, links and requests, every limit, any number of deletes at once *)
(* and any number of restarts.  First its limits; then who has custody of  *)
(* a capture: it implements CaptureRecord, a deleted capture stays         *)
(* deleted, COMPLETED means a whole file, an open connection has an owner. *)
(***************************************************************************)
EXTENDS CaptureLifecycle, Sequences, FiniteSetTheorems, TLAPS

-----------------------------------------------------------------------------
(* The inductive invariant: the limits                                     *)

(* An id no start has used is in no table.                                 *)
NoTrace(c) == c \notin mem /\ c \notin sets /\ row[c] = "absent" /\ mon[c] = "none"

UnusedIsFresh ==
    \A c \in Captures : launch[c] = "unused" => NoTrace(c)

(* Where a coroutine is determines what the status can be: a record is     *)
(* never made active by a step of the monitor.                             *)
ConsistentStep(launched, step, s) ==
    /\ launched = "launching" => step = "none" /\ s \in {"running", "stopping"}
    /\ step \in {"created", "waiting"} => s \in {"running", "stopping"}
    /\ step \in {"fetching", "tidying", "counting"} => s = "transferring"
    /\ step = "closing" => s \in Terminal

StatusOfStep ==
    \A c \in Captures : ConsistentStep(launch[c], mon[c], status[c])

(* An active capture's interface set is exactly the one it was started for.*)
SetsKept ==
    \A c \in ActiveCaptures : c \in sets <=> wanted[c].interfaces # {}

Base == TypeOK /\ UnusedIsFresh /\ StatusOfStep

-----------------------------------------------------------------------------
(* Type correctness                                                        *)

LEMMA NarrowType ==
    ASSUME NEW r \in Requests
    PROVE  Narrow(r) \in RequestType
<1>1. r \in RequestType
  BY RequestsAssumption
<1>2. CASE r.interfaces = {}
  BY <1>1, <1>2 DEF Narrow
<1>3. CASE r.interfaces # {} /\ \E l \in Links : r.interfaces = {l}
  <2>1. PICK l \in Links : r.interfaces = {l}
    BY <1>3
  <2>2. (CHOOSE k \in Links : r.interfaces = {k}) \in Links
    BY <1>3
  <2>3. QED
    BY <1>1, <1>3, <2>2 DEF Narrow, RequestType
<1>4. CASE r.interfaces # {} /\ ~ \E l \in Links : r.interfaces = {l}
  BY <1>1, <1>4 DEF Narrow, RequestType
<1>5. QED
  BY <1>2, <1>3, <1>4

LEMMA InitType == Init => TypeOK
  BY RestartsAssumption DEF Init, TypeOK, Status, Active, Terminal, LaunchStep,
     MonStep, DelStep

LEMMA FinishType ==
    ASSUME TypeOK, NEW c \in Captures, NEW s \in Terminal, Finish(c, s)
    PROVE  /\ status' \in [Captures -> Status]
           /\ row' \in [Captures -> Status \union {"absent"}]
           /\ mon' \in [Captures -> MonStep]
           /\ procs' \subseteq Captures
           /\ tasks' \subseteq Captures
           /\ sets' \subseteq Captures
<1>1. CASE c \in procs
  BY <1>1 DEF Finish, TypeOK, Status, Active, Terminal, MonStep
<1>2. CASE c \notin procs
  <2>1. status' \in [Captures -> Status]
    BY DEF Finish, TypeOK, Status
  <2>2. row' \in [Captures -> Status \union {"absent"}]
    BY <1>2 DEF Finish, TypeOK, Status
  <2>3. mon' \in [Captures -> MonStep]
    BY <1>2 DEF Finish, TypeOK, MonStep
  <2>4. QED
    BY <1>2, <2>1, <2>2, <2>3 DEF Finish, TypeOK
<1>3. QED
  BY <1>1, <1>2

LEMMA TypeStep == TypeOK /\ [Next]_vars => TypeOK'
<1> SUFFICES ASSUME TypeOK, [Next]_vars
             PROVE  TypeOK'
  OBVIOUS
<1> USE DEF TypeOK, managerVars, targetVars, appVars
<1>1. ASSUME NEW c \in Captures, RequestNext(c)
      PROVE  TypeOK'
  <2>1. ASSUME NEW r \in Requests, Start(c, r)
        PROVE  TypeOK'
    <3>1. Narrow(r) \in RequestType
      BY NarrowType
    <3>2. QED
      BY <2>1, <3>1 DEF Start, Status, Active, LaunchStep
  <2>2. CASE LaunchReturns(c)
    BY <2>2 DEF LaunchReturns, LaunchStep, MonStep
  <2>3. CASE LaunchFails(c)
    BY <2>3 DEF LaunchFails, LaunchStep, Status, Terminal
  <2>4. CASE Stop(c)
    BY <2>4 DEF Stop, Status, Active
  <2>5. CASE Rename(c)
    BY <2>5 DEF Rename
  <2>6. CASE TcpdumpExits(c)
    BY <2>6 DEF TcpdumpExits
  <2>7. QED
    BY <1>1, <2>1, <2>2, <2>3, <2>4, <2>5, <2>6 DEF RequestNext
<1>2. ASSUME NEW c \in Captures, MonitorNext(c)
      PROVE  TypeOK'
  <2> USE DEF Monitoring
  <2>1. CASE MonitorBegins(c)
    BY <2>1 DEF MonitorBegins, MonStep
  <2>2. CASE LiveCount(c)
    BY <2>2 DEF LiveCount
  <2>3. CASE MonitorExit(c)
    BY <2>3 DEF MonitorExit, MonStep, Status, Active
  <2>4. CASE MonitorExitError(c)
    BY <2>4, FinishType DEF MonitorExitError, Terminal
  <2>5. CASE MonitorTimeout(c)
    BY <2>5, FinishType DEF MonitorTimeout, Terminal
  <2>6. CASE FetchReturns(c)
    BY <2>6 DEF FetchReturns, MonStep
  <2>7. CASE FetchFails(c)
    BY <2>7, FinishType DEF FetchFails, Terminal
  <2>8. CASE FetchTimesOut(c)
    BY <2>8, FinishType DEF FetchTimesOut, Terminal
  <2>9. CASE TidyReturns(c)
    BY <2>9 DEF TidyReturns, MonStep
  <2>10. CASE CountReturns(c)
    BY <2>10, FinishType DEF CountReturns, Terminal
  <2>11. CASE MonitorCloses(c)
    BY <2>11 DEF MonitorCloses, MonStep
  <2>12. CASE MonitorCancelled(c)
    <3>1. CASE mon[c] = "created" /\ mon' = [mon EXCEPT ![c] = "ended"]
               /\ UNCHANGED <<status, row, sets, procs, tasks, conn, local>>
      BY <2>12, <3>1 DEF MonitorCancelled, MonStep
    <3>2. CASE /\ mon[c] \in {"waiting", "fetching", "tidying", "counting"}
               /\ Finish(c, "failed")
               /\ \E f \in IF mon[c] = "fetching" THEN {"none", "partial"}
                           ELSE {local[c]} :
                      local' = [local EXCEPT ![c] = f]
               /\ UNCHANGED conn
      <4>1. "failed" \in Terminal
        BY DEF Terminal
      <4>2. local' \in [Captures -> {"none", "partial", "whole"}]
        BY <3>2
      <4>3. QED
        BY <2>12, <3>2, <4>1, <4>2, FinishType DEF MonitorCancelled
    <3>3. CASE mon[c] = "closing" /\ mon' = [mon EXCEPT ![c] = "ended"]
               /\ conn' = conn \ {c}
               /\ UNCHANGED <<status, row, sets, procs, tasks, local>>
      BY <2>12, <3>3 DEF MonitorCancelled, MonStep
    <3>4. QED
      BY <2>12, <3>1, <3>2, <3>3 DEF MonitorCancelled
  <2>13. QED
    BY <1>2, <2>1, <2>2, <2>3, <2>4, <2>5, <2>6, <2>7, <2>8, <2>9, <2>10, <2>11,
       <2>12 DEF MonitorNext
<1>3. ASSUME NEW c \in Captures, DeleteNext(c)
      PROVE  TypeOK'
  <2> USE DEF DropRecord
  <2>1. PICK d \in Deleters :
            DeleteBegins(c, d) \/ DeleteGathered(c, d) \/ DeleteStopped(c, d)
              \/ DeleteCloses(c, d)
    BY <1>3 DEF DeleteNext
  <2>2. CASE DeleteBegins(c, d)
    BY <2>2 DEF DeleteBegins, DelStep
  <2>3. CASE DeleteGathered(c, d)
    <3>1. CASE del[c][d] = "gatherP"
      <4>1. /\ del' = [del EXCEPT ![c][d] = "stopP"]
            /\ signalled' = signalled \union {c}
            /\ UNCHANGED <<row, sets, mem, local, status, wanted, procs, tasks, launch, mon,
                           cancelled, tcpdump, conn, remote, appVars>>
        BY <2>3, <3>1 DEF DeleteGathered
      <4>2. QED
        BY <4>1 DEF DelStep
    <3>2. CASE del[c][d] = "gather"
      <4>1. del' \in [Captures -> [Deleters -> DelStep]]
        BY <2>3, <3>2 DEF DeleteGathered, DelStep
      <4>2. row' \in [Captures -> Status \union {"absent"}]
        BY <2>3, <3>2 DEF DeleteGathered
      <4>3. local' \in [Captures -> {"none", "partial", "whole"}]
        BY <2>3, <3>2 DEF DeleteGathered
      <4>4. mem' \subseteq Captures /\ sets' \subseteq Captures
        BY <2>3, <3>2 DEF DeleteGathered
      <4>5. QED
        BY <2>3, <3>2, <4>1, <4>2, <4>3, <4>4 DEF DeleteGathered
    <3>3. QED
      BY <2>3, <3>1, <3>2 DEF DeleteGathered
  <2>4. CASE DeleteStopped(c, d)
    BY <2>4 DEF DeleteStopped, DelStep
  <2>5. CASE DeleteCloses(c, d)
    BY <2>5 DEF DeleteCloses, DelStep
  <2>6. QED
    BY <2>1, <2>2, <2>3, <2>4, <2>5
<1>4. CASE ShutdownNext
  <2>1. CASE ShutdownBegins
    BY <2>1 DEF ShutdownBegins
  <2>2. ASSUME NEW c \in Captures, ShutdownStops(c) \/ ShutdownCloses(c)
        PROVE  TypeOK'
    BY <2>2 DEF ShutdownStops, ShutdownCloses
  <2>3. CASE ShutdownCancels
    BY <2>3 DEF ShutdownCancels
  <2>4. CASE ShutdownEnds
    BY <2>4 DEF ShutdownEnds
  <2>5. CASE Restart
    BY <2>5, RestartsAssumption
       DEF Restart, Restored, Status, Terminal, Active, LaunchStep, MonStep, DelStep
  <2>6. QED
    BY <1>4, <2>1, <2>2, <2>3, <2>4, <2>5 DEF ShutdownNext
<1>5. CASE UNCHANGED vars
  BY <1>5 DEF vars
<1>6. QED
  BY <1>1, <1>2, <1>3, <1>4, <1>5 DEF Next

(* Every variable has its type in every reachable state.                   *)
THEOREM TypeCorrect == Spec => []TypeOK
<1>1. QED
  BY InitType, TypeStep, PTL DEF Spec

-----------------------------------------------------------------------------
(* The invariant about coroutines, and what a step can do to the set of    *)
(* active captures.                                                        *)

LEMMA InitBase == Init => Base /\ SetsKept
  BY InitType DEF Init, Base, UnusedIsFresh, NoTrace, StatusOfStep, ConsistentStep,
     SetsKept, ActiveCaptures

(* Every step except a start and a restart is about one capture c: it      *)
(* changes the tables of no other, it makes nothing active, and while c is *)
(* active it leaves its interface set alone.                               *)
OnlyAbout(c) ==
    /\ mem' \subseteq mem
    /\ wanted' = wanted
    /\ launch'[c] = "unused" => NoTrace(c)'
    /\ \A x \in Captures \ {c} :
           /\ status'[x] = status[x]
           /\ mon'[x] = mon[x]
           /\ row'[x] = row[x]
           /\ launch'[x] = launch[x]
           /\ x \in sets' <=> x \in sets
    /\ ConsistentStep(launch'[c], mon'[c], status'[c])
    /\ c \in mem' /\ status'[c] \in Active =>
           status[c] \in Active /\ (c \in sets' <=> c \in sets)

LEMMA OnlyAboutBase ==
    ASSUME Base, SetsKept, TypeOK', NEW c \in Captures, OnlyAbout(c)
    PROVE  Base' /\ SetsKept' /\ ActiveCaptures' \subseteq ActiveCaptures
<1>1. UnusedIsFresh'
  BY DEF UnusedIsFresh, NoTrace, OnlyAbout, Base, TypeOK
<1>2. StatusOfStep'
  <2>1. \A x \in Captures \ {c} :
            ConsistentStep(launch'[x], mon'[x], status'[x])
    BY DEF StatusOfStep, OnlyAbout, Base
  <2>2. QED
    BY <2>1 DEF StatusOfStep, OnlyAbout
<1>3. ActiveCaptures' \subseteq ActiveCaptures
  BY DEF ActiveCaptures, OnlyAbout, Base, TypeOK
<1>4. SetsKept'
  BY <1>3 DEF SetsKept, ActiveCaptures, OnlyAbout, Base, TypeOK
<1>5. QED
  BY <1>1, <1>2, <1>3, <1>4 DEF Base

LEMMA FinishOnlyAbout ==
    ASSUME Base, NEW c \in Captures, NEW s \in Terminal, Finish(c, s),
           mon[c] # "none",
           mem' = mem, wanted' = wanted, launch' = launch
    PROVE  OnlyAbout(c)
<1> USE DEF Base, TypeOK, MonStep, LaunchStep
<1>1. launch[c] # "unused" /\ launch[c] # "launching"
  BY DEF UnusedIsFresh, NoTrace, StatusOfStep, ConsistentStep
<1>2. \A x \in Captures \ {c} :
          /\ status'[x] = status[x]
          /\ mon'[x] = mon[x]
          /\ row'[x] = row[x]
          /\ launch'[x] = launch[x]
          /\ x \in sets' <=> x \in sets
  <2>1. CASE c \in procs
    BY <2>1 DEF Finish
  <2>2. CASE c \notin procs
    BY <2>2 DEF Finish
  <2>3. QED
    BY <2>1, <2>2
<1>3. status'[c] = s /\ mon'[c] \in {"closing", "ended"}
  <2>1. CASE c \in procs
    BY <2>1 DEF Finish
  <2>2. CASE c \notin procs
    BY <2>2 DEF Finish
  <2>3. QED
    BY <2>1, <2>2
<1>4. s \notin Active
  BY DEF Active, Terminal
<1>5. QED
  BY <1>1, <1>2, <1>3, <1>4 DEF OnlyAbout, ConsistentStep

LEMMA MonitorOnlyAbout ==
    ASSUME Base, NEW c \in Captures, MonitorNext(c)
    PROVE  OnlyAbout(c)
<1> USE DEF Base, TypeOK, MonStep, LaunchStep, managerVars, targetVars, appVars,
            Monitoring
<1>1. mon[c] # "none" => launch[c] # "unused" /\ launch[c] # "launching"
  BY DEF UnusedIsFresh, NoTrace, StatusOfStep, ConsistentStep
<1>2. ConsistentStep(launch[c], mon[c], status[c])
  BY DEF StatusOfStep, ConsistentStep
<1>3. CASE MonitorBegins(c)
  BY <1>1, <1>2, <1>3 DEF MonitorBegins, OnlyAbout, ConsistentStep, Active
<1>4. CASE LiveCount(c)
  BY <1>1, <1>2, <1>4 DEF LiveCount, OnlyAbout, ConsistentStep
<1>5. CASE MonitorExit(c)
  BY <1>1, <1>2, <1>5 DEF MonitorExit, OnlyAbout, ConsistentStep, Active
<1>6. CASE MonitorExitError(c)
  BY <1>6, FinishOnlyAbout DEF MonitorExitError, Terminal
<1>7. CASE MonitorTimeout(c)
  BY <1>7, FinishOnlyAbout DEF MonitorTimeout, Terminal
<1>8. CASE FetchReturns(c)
  BY <1>1, <1>2, <1>8 DEF FetchReturns, OnlyAbout, ConsistentStep, Active
<1>9. CASE FetchFails(c)
  BY <1>9, FinishOnlyAbout DEF FetchFails, Terminal
<1>10. CASE FetchTimesOut(c)
  BY <1>10, FinishOnlyAbout DEF FetchTimesOut, Terminal
<1>11. CASE TidyReturns(c)
  BY <1>1, <1>2, <1>11 DEF TidyReturns, OnlyAbout, ConsistentStep, Active
<1>12. CASE CountReturns(c)
  BY <1>12, FinishOnlyAbout DEF CountReturns, Terminal
<1>13. CASE MonitorCloses(c)
  BY <1>1, <1>2, <1>13
     DEF MonitorCloses, OnlyAbout, ConsistentStep, Active, Terminal
<1>14. CASE MonitorCancelled(c)
  <2>1. CASE mon[c] = "created"
    BY <1>1, <1>2, <1>14, <2>1 DEF MonitorCancelled, OnlyAbout, ConsistentStep
  <2>2. CASE mon[c] \in {"waiting", "fetching", "tidying", "counting"}
    BY <1>14, <2>2, FinishOnlyAbout DEF MonitorCancelled, Terminal
  <2>3. CASE mon[c] = "closing"
    BY <1>1, <1>2, <1>14, <2>3 DEF MonitorCancelled, OnlyAbout, ConsistentStep
  <2>4. QED
    BY <1>14, <2>1, <2>2, <2>3 DEF MonitorCancelled
<1>15. QED
  BY <1>3, <1>4, <1>5, <1>6, <1>7, <1>8, <1>9, <1>10, <1>11, <1>12, <1>13, <1>14
     DEF MonitorNext

LEMMA RequestOnlyAbout ==
    ASSUME Base, NEW c \in Captures, RequestNext(c),
           ~ \E r \in Requests : Start(c, r)
    PROVE  OnlyAbout(c)
<1> USE DEF Base, TypeOK, MonStep, LaunchStep, managerVars, targetVars, appVars
<1>1. /\ ConsistentStep(launch[c], mon[c], status[c])
      /\ launch[c] = "unused" => NoTrace(c)
  BY DEF StatusOfStep, UnusedIsFresh
<1>2. CASE LaunchReturns(c)
  BY <1>1, <1>2 DEF LaunchReturns, OnlyAbout, NoTrace, ConsistentStep
<1>3. CASE LaunchFails(c)
  BY <1>1, <1>3 DEF LaunchFails, OnlyAbout, NoTrace, ConsistentStep, Active
<1>4. CASE Stop(c)
  BY <1>1, <1>4 DEF Stop, OnlyAbout, NoTrace, ConsistentStep, Active, Terminal
<1>5. CASE Rename(c)
  BY <1>1, <1>5 DEF Rename, OnlyAbout, NoTrace, ConsistentStep
<1>6. CASE TcpdumpExits(c)
  BY <1>1, <1>6 DEF TcpdumpExits, OnlyAbout, NoTrace, ConsistentStep
<1>7. QED
  BY <1>2, <1>3, <1>4, <1>5, <1>6 DEF RequestNext

LEMMA DeleteOnlyAbout ==
    ASSUME Base, NEW c \in Captures, DeleteNext(c)
    PROVE  OnlyAbout(c)
<1> USE DEF Base, TypeOK, MonStep, LaunchStep, appVars, targetVars
<1>1. /\ ConsistentStep(launch[c], mon[c], status[c])
      /\ launch[c] = "unused" => NoTrace(c)
  BY DEF StatusOfStep, UnusedIsFresh
<1>2. ASSUME DropRecord(c), UNCHANGED <<status, mon, launch, wanted>>
      PROVE  OnlyAbout(c)
  BY <1>1, <1>2 DEF DropRecord, OnlyAbout, NoTrace
<1>3. ASSUME UNCHANGED <<mem, sets, row, status, mon, launch, wanted>>
      PROVE  OnlyAbout(c)
  BY <1>1, <1>3 DEF OnlyAbout, NoTrace
<1>4. PICK d \in Deleters :
          DeleteBegins(c, d) \/ DeleteGathered(c, d) \/ DeleteStopped(c, d)
            \/ DeleteCloses(c, d)
  BY DEF DeleteNext
<1>5. CASE DeleteBegins(c, d)
  <2>1. DropRecord(c) \/ UNCHANGED <<row, sets, mem>>
    BY <1>5 DEF DeleteBegins
  <2>2. QED
    BY <1>2, <1>3, <1>5, <2>1 DEF DeleteBegins
<1>6. CASE DeleteGathered(c, d)
  BY <1>2, <1>3, <1>6 DEF DeleteGathered
<1>7. CASE DeleteStopped(c, d)
  BY <1>3, <1>7 DEF DeleteStopped
<1>8. CASE DeleteCloses(c, d)
  BY <1>2, <1>8 DEF DeleteCloses
<1>9. QED
  BY <1>4, <1>5, <1>6, <1>7, <1>8

(* The steps of shutdown() leave every record and row as it is.            *)
LEMMA ShutdownKeeps ==
    ASSUME ShutdownNext, ~ Restart
    PROVE  UNCHANGED <<mem, sets, row, status, mon, launch, wanted>>
  BY DEF ShutdownNext, ShutdownBegins, ShutdownStops, ShutdownCloses,
         ShutdownCancels, ShutdownEnds, targetVars

(* A restart leaves nothing active.                                        *)
LEMMA RestartBase ==
    ASSUME Base, TypeOK', Restart
    PROVE  Base' /\ SetsKept' /\ ActiveCaptures' = {}
<1> USE DEF Base, TypeOK
<1>1. ActiveCaptures' = {}
  <2>1. \A c \in Captures : status'[c] \notin Active
    BY DEF Restart, Restored, Active, Terminal, Status
  <2>2. QED
    BY <2>1 DEF ActiveCaptures, Restart
<1>2. UnusedIsFresh'
  BY DEF UnusedIsFresh, NoTrace, Restart, Restored, LaunchStep, Active
<1>3. StatusOfStep'
  BY DEF StatusOfStep, ConsistentStep, Restart, LaunchStep
<1>4. SetsKept'
  BY <1>1 DEF SetsKept
<1>5. QED
  BY <1>1, <1>2, <1>3, <1>4

(* A start registers one new active capture, with its interface set.       *)
LEMMA StartBase ==
    ASSUME Base, SetsKept, TypeOK', NEW c \in Captures, NEW r \in Requests,
           Start(c, r)
    PROVE  /\ Base'
           /\ SetsKept'
           /\ ActiveCaptures' = ActiveCaptures \union {c}
           /\ c \notin ActiveCaptures
           /\ wanted' = [wanted EXCEPT ![c] = Narrow(r)]
<1> USE DEF Base, TypeOK
<1>1. NoTrace(c)
  BY DEF UnusedIsFresh, Start
<1>2. ActiveCaptures' = ActiveCaptures \union {c}
  BY DEF ActiveCaptures, Start, Active
<1>3. c \notin ActiveCaptures
  BY <1>1 DEF ActiveCaptures, NoTrace
<1>4. wanted' = [wanted EXCEPT ![c] = Narrow(r)]
  BY DEF Start
<1>5. UnusedIsFresh'
  BY DEF UnusedIsFresh, NoTrace, Start
<1>6. StatusOfStep'
  BY <1>1 DEF StatusOfStep, ConsistentStep, NoTrace, Start
<1>7. c \in sets' <=> Narrow(r).interfaces # {}
  BY <1>1 DEF NoTrace, Start
<1>8. \A x \in Captures \ {c} : x \in sets' <=> x \in sets
  BY DEF Start
<1>9. SetsKept'
  BY <1>2, <1>3, <1>4, <1>7, <1>8 DEF SetsKept, ActiveCaptures
<1>10. QED
  BY <1>2, <1>3, <1>4, <1>5, <1>6, <1>9

(* So the active set grows only by a start.                                *)
LEMMA BaseStep ==
    ASSUME Base, SetsKept, [Next]_vars
    PROVE  /\ Base'
           /\ SetsKept'
           /\ \/ ActiveCaptures' \subseteq ActiveCaptures
                   /\ (ActiveCaptures' = {} \/ wanted' = wanted)
              \/ \E c \in Captures, r \in Requests : Start(c, r)
<1>1. TypeOK'
  BY TypeStep DEF Base
<1>2. ASSUME UNCHANGED <<mem, sets, row, status, mon, launch, wanted>>
      PROVE  Base' /\ SetsKept' /\ ActiveCaptures' = ActiveCaptures
  BY <1>1, <1>2 DEF Base, UnusedIsFresh, NoTrace, StatusOfStep, SetsKept,
                    ActiveCaptures
<1>3. CASE \E c \in Captures, r \in Requests : Start(c, r)
  BY <1>1, <1>3, StartBase
<1>4. ASSUME NEW c \in Captures, OnlyAbout(c)
      PROVE  /\ Base' /\ SetsKept'
             /\ ActiveCaptures' \subseteq ActiveCaptures
             /\ wanted' = wanted
  BY <1>1, <1>4, OnlyAboutBase DEF OnlyAbout
<1>5. CASE \E c \in Captures : RequestNext(c) /\ ~ \E r \in Requests : Start(c, r)
  BY <1>4, <1>5, RequestOnlyAbout
<1>6. CASE \E c \in Captures : MonitorNext(c)
  BY <1>4, <1>6, MonitorOnlyAbout
<1>7. CASE \E c \in Captures : DeleteNext(c)
  BY <1>4, <1>7, DeleteOnlyAbout
<1>8. CASE ShutdownNext /\ ~ Restart
  BY <1>2, <1>8, ShutdownKeeps
<1>9. CASE Restart
  BY <1>1, <1>9, RestartBase
<1>10. CASE UNCHANGED vars
  BY <1>2, <1>10 DEF vars
<1>11. QED
  BY <1>3, <1>5, <1>6, <1>7, <1>8, <1>9, <1>10 DEF Next

-----------------------------------------------------------------------------
(* The theorems                                                            *)

(* However the coroutines interleave, two active captures never read one   *)
(* link of one server.                                                     *)
THEOREM OneCapturePerLinkHolds == Spec => []OneCapturePerLink
<1> DEFINE IInv == Base /\ SetsKept /\ OneCapturePerLink
<1>1. Init => IInv
  BY InitBase DEF OneCapturePerLink, ActiveCaptures, Init
<1>2. ASSUME IInv, [Next]_vars
      PROVE  IInv'
  <2>1. CASE ActiveCaptures' \subseteq ActiveCaptures
               /\ (ActiveCaptures' = {} \/ wanted' = wanted)
    BY <1>2, <2>1, BaseStep DEF OneCapturePerLink, Covers, Covered
  <2>2. ASSUME NEW c \in Captures, NEW r \in Requests, Start(c, r)
        PROVE  IInv'
    <3>1. /\ Base' /\ SetsKept'
          /\ ActiveCaptures' = ActiveCaptures \union {c}
          /\ c \notin ActiveCaptures
          /\ wanted' = [wanted EXCEPT ![c] = Narrow(r)]
      BY <1>2, <2>2, BaseStep, StartBase, TypeStep DEF Base
    <3>2. Covers(c)' = Covered(Narrow(r), Narrow(r).interfaces # {})
      BY <1>2, <3>1 DEF Covers, Covered, Base, TypeOK
    <3>3. ASSUME NEW a \in ActiveCaptures
          PROVE  Covers(a)' = Covers(a) /\ Reads(a) = Covers(a)
                   /\ wanted'[a] = wanted[a]
      BY <1>2, <3>1, <3>3 DEF Covers, Reads, Covered, SetsKept, Base, TypeOK,
                              ActiveCaptures
    <3>4. ASSUME NEW a \in ActiveCaptures, wanted[a].server = wanted'[c].server
          PROVE  Covers(a)' \intersect Covers(c)' = {}
      <4>1. wanted[a].server = Narrow(r).server
        BY <1>2, <3>1, <3>4 DEF Base, TypeOK
      <4>2. QED
        BY <2>2, <3>2, <3>3, <4>1 DEF Start, Busy, Overlap
    <3>5. OneCapturePerLink'
      BY <1>2, <3>1, <3>3, <3>4 DEF OneCapturePerLink
    <3>6. QED
      BY <3>1, <3>5
  <2>3. QED
    BY <1>2, <2>1, <2>2, BaseStep
<1>3. QED
  BY <1>1, <1>2, PTL DEF Spec

(* The limit holds at every moment, not only at the moment it is checked.  *)
THEOREM ActiveWithinLimitHolds == Spec => []ActiveWithinLimit
<1> DEFINE IInv == Base /\ SetsKept /\ ActiveWithinLimit
<1>1. Init => IInv
  <2>1. Init => ActiveCaptures = {}
    BY DEF Init, ActiveCaptures
  <2>2. QED
    BY <2>1, InitBase, FS_EmptySet, LimitAssumption DEF ActiveWithinLimit
<1>2. ASSUME IInv, [Next]_vars
      PROVE  IInv'
  <2>1. IsFiniteSet(ActiveCaptures) /\ Cardinality(ActiveCaptures) \in Nat
    <3>1. ActiveCaptures \subseteq Captures
      BY <1>2 DEF ActiveCaptures, Base, TypeOK
    <3>2. QED
      BY <3>1, CapturesAssumption, FS_Subset, FS_CardinalityType
  <2>2. CASE ActiveCaptures' \subseteq ActiveCaptures
    <3>1. /\ Cardinality(ActiveCaptures') \in Nat
          /\ Cardinality(ActiveCaptures') <= Cardinality(ActiveCaptures)
      BY <2>1, <2>2, FS_Subset, FS_CardinalityType
    <3>2. QED
      BY <1>2, <2>1, <3>1, BaseStep, LimitAssumption DEF ActiveWithinLimit
  <2>3. ASSUME NEW c \in Captures, NEW r \in Requests, Start(c, r)
        PROVE  IInv'
    <3>1. /\ Base' /\ SetsKept'
          /\ ActiveCaptures' = ActiveCaptures \union {c}
          /\ c \notin ActiveCaptures
      BY <1>2, <2>3, StartBase, TypeStep DEF Base
    <3>2. Cardinality(ActiveCaptures') = Cardinality(ActiveCaptures) + 1
      BY <2>1, <3>1, FS_AddElement
    <3>3. Cardinality(ActiveCaptures) < MaxConcurrent
      BY <2>3 DEF Start, HasSlot
    <3>4. QED
      BY <2>1, <3>1, <3>2, <3>3, LimitAssumption DEF ActiveWithinLimit
  <2>4. QED
    BY <1>2, <2>2, <2>3, BaseStep
<1>3. QED
  BY <1>1, <1>2, PTL DEF Spec

-----------------------------------------------------------------------------
(* The inductive invariant: who has custody of a capture                   *)

(* Steps of the monitor's body: what a cancellation ends as FAILED.        *)
Working == {"waiting", "fetching", "tidying", "counting"}

(* What is in a table was launched; what a delete has taken has no task    *)
(* left, what is cancelled no process.                                     *)
TakenWasLaunched(c) ==
    /\ c \in tasks \union procs \union conn \union cancelled => launch[c] = "launched"
    /\ Deleting(c) => launch[c] = "launched" /\ c \notin tasks
    /\ c \in cancelled => c \notin procs

(* A monitor without a task is being awaited by the delete that took it,   *)
(* and is cancelled, unless it has failed and is closing.                  *)
UntaskedIsCancelled(c) ==
    Alive(c) /\ c \notin tasks =>
        /\ \E d \in Deleters : del[c][d] \in {"gather", "gatherP"}
        /\ c \in cancelled \/ (mon[c] = "closing" /\ status[c] = "failed")

(* A monitor that outlives its record is one of those.                     *)
UnlistedIsUntasked(c) ==
    c \notin mem /\ mon[c] \in Working \union {"closing"} => c \notin tasks

(* Once a record is gone its row is, but for a delete still under way or a *)
(* launch that failed afterwards.                                          *)
GoneHasNoRow(c) ==
    c \notin mem /\ ~Deleting(c) /\ launch[c] \in {"launching", "launched"} =>
        row[c] = "absent"

(* COMPLETED is written last: of a listed capture, its file fetched.       *)
CompletedIsLast(c) ==
    /\ row[c] = "completed" => c \in mem /\ status[c] = "completed"
    /\ c \in mem /\ status[c] = "completed" => local[c] = "whole"
    /\ c \in mem /\ mon[c] \in {"tidying", "counting"} => local[c] = "whole"

(* ConnectionHasOwner, of one capture.                                     *)
Owned(c) ==
    c \in conn /\ c \in mem =>
        \/ c \in procs /\ Alive(c)
        \/ mon[c] = "closing"
        \/ \E d \in Deleters : del[c][d] \in {"gatherP", "stopP", "closeP"}
        \/ c \in ending
        \/ phase # "up"

Custody(c) ==
    /\ TakenWasLaunched(c)
    /\ UntaskedIsCancelled(c)
    /\ UnlistedIsUntasked(c)
    /\ GoneHasNoRow(c)
    /\ CompletedIsLast(c)
    /\ Owned(c)

(* shutdown() waits on a process only in its loop over the processes.      *)
EndingIsStopping == ending # {} => phase = "stopping"

Kept == Base /\ SetsKept /\ (\A c \in Captures : Custody(c)) /\ EndingIsStopping

-----------------------------------------------------------------------------
(* A step about one capture leaves the others as they are.                 *)

Same(x) ==
    /\ x \in mem' <=> x \in mem
    /\ x \in tasks' <=> x \in tasks
    /\ x \in procs' <=> x \in procs
    /\ x \in conn' <=> x \in conn
    /\ x \in cancelled' <=> x \in cancelled
    /\ x \in ending' <=> x \in ending
    /\ status'[x] = status[x]
    /\ row'[x] = row[x]
    /\ launch'[x] = launch[x]
    /\ mon'[x] = mon[x]
    /\ local'[x] = local[x]
    /\ del'[x] = del[x]
    /\ phase' = phase

LEMMA SameKeeps ==
    ASSUME NEW x \in Captures, Custody(x), Same(x)
    PROVE  Custody(x)'
<1>1. (Alive(x)' <=> Alive(x)) /\ (Deleting(x)' <=> Deleting(x))
  BY DEF Same, Alive, Deleting
<1>2. TakenWasLaunched(x)' /\ GoneHasNoRow(x)'
  BY <1>1 DEF Same, Custody, TakenWasLaunched, GoneHasNoRow
<1>3. UntaskedIsCancelled(x)' /\ UnlistedIsUntasked(x)'
  BY <1>1 DEF Same, Custody, UntaskedIsCancelled, UnlistedIsUntasked
<1>4. CompletedIsLast(x)' /\ Owned(x)'
  BY <1>1 DEF Same, Custody, CompletedIsLast, Owned
<1>5. QED
  BY <1>2, <1>3, <1>4 DEF Custody

LEMMA FinishSame ==
    ASSUME TypeOK, NEW c \in Captures, NEW s, Finish(c, s), NEW x \in Captures \ {c}
    PROVE  /\ status'[x] = status[x] /\ row'[x] = row[x] /\ mon'[x] = mon[x]
           /\ x \in tasks' <=> x \in tasks
           /\ x \in procs' <=> x \in procs
<1>1. CASE c \in procs
  BY <1>1 DEF Finish, TypeOK
<1>2. CASE c \notin procs
  BY <1>2 DEF Finish, TypeOK
<1>3. QED
  BY <1>1, <1>2

LEMMA RequestSame ==
    ASSUME TypeOK, NEW c \in Captures, RequestNext(c), NEW x \in Captures \ {c}
    PROVE  Same(x)
<1> USE DEF TypeOK, Same, managerVars, targetVars, appVars
<1>1. ASSUME NEW r \in Requests, Start(c, r)
      PROVE  Same(x)
  BY <1>1 DEF Start
<1>2. CASE LaunchReturns(c)
  BY <1>2 DEF LaunchReturns
<1>3. CASE LaunchFails(c)
  BY <1>3 DEF LaunchFails
<1>4. CASE Stop(c)
  BY <1>4 DEF Stop
<1>5. CASE Rename(c)
  BY <1>5 DEF Rename
<1>6. CASE TcpdumpExits(c)
  BY <1>6 DEF TcpdumpExits
<1>7. QED
  BY <1>1, <1>2, <1>3, <1>4, <1>5, <1>6 DEF RequestNext

LEMMA MonitorSame ==
    ASSUME TypeOK, NEW c \in Captures, MonitorNext(c), NEW x \in Captures \ {c}
    PROVE  Same(x)
<1> USE DEF TypeOK, Same, managerVars, targetVars, appVars
<1>1. CASE MonitorBegins(c)
  BY <1>1 DEF MonitorBegins
<1>2. CASE LiveCount(c)
  BY <1>2 DEF LiveCount
<1>3. CASE MonitorExit(c)
  BY <1>3 DEF MonitorExit
<1>4. CASE MonitorExitError(c)
  BY <1>4, FinishSame DEF MonitorExitError
<1>5. CASE MonitorTimeout(c)
  BY <1>5, FinishSame DEF MonitorTimeout
<1>6. CASE FetchReturns(c)
  BY <1>6 DEF FetchReturns
<1>7. CASE FetchFails(c)
  BY <1>7, FinishSame DEF FetchFails
<1>8. CASE FetchTimesOut(c)
  BY <1>8, FinishSame DEF FetchTimesOut
<1>9. CASE TidyReturns(c)
  BY <1>9 DEF TidyReturns
<1>10. CASE CountReturns(c)
  BY <1>10, FinishSame DEF CountReturns
<1>11. CASE MonitorCloses(c)
  BY <1>11 DEF MonitorCloses
<1>12. CASE MonitorCancelled(c)
  <2>1. CASE mon[c] \in {"created", "closing"}
    BY <1>12, <2>1 DEF MonitorCancelled
  <2>2. CASE mon[c] \notin {"created", "closing"}
    BY <1>12, <2>2, FinishSame DEF MonitorCancelled
  <2>3. QED
    BY <2>1, <2>2
<1>13. QED
  BY <1>1, <1>2, <1>3, <1>4, <1>5, <1>6, <1>7, <1>8, <1>9, <1>10, <1>11, <1>12
     DEF MonitorNext

LEMMA DeleteSame ==
    ASSUME TypeOK, NEW c \in Captures, DeleteNext(c), NEW x \in Captures \ {c}
    PROVE  Same(x)
<1> USE DEF TypeOK, Same, managerVars, targetVars, appVars
<1>1. PICK d \in Deleters :
          DeleteBegins(c, d) \/ DeleteGathered(c, d) \/ DeleteStopped(c, d)
            \/ DeleteCloses(c, d)
  BY DEF DeleteNext
<1>2. ASSUME DropRecord(c)
      PROVE  /\ x \in mem' <=> x \in mem
             /\ row'[x] = row[x]
             /\ local'[x] = local[x]
  BY <1>2 DEF DropRecord
<1>3. CASE DeleteBegins(c, d)
  BY <1>2, <1>3 DEF DeleteBegins
<1>4. CASE DeleteGathered(c, d)
  BY <1>2, <1>4 DEF DeleteGathered
<1>5. CASE DeleteStopped(c, d)
  BY <1>5 DEF DeleteStopped
<1>6. CASE DeleteCloses(c, d)
  BY <1>2, <1>6 DEF DeleteCloses
<1>7. QED
  BY <1>1, <1>3, <1>4, <1>5, <1>6

-----------------------------------------------------------------------------
(* What a step about a capture leaves of its own custody                   *)

LEMMA StartCustody ==
    ASSUME Kept, NEW c \in Captures, NEW r \in Requests, Start(c, r)
    PROVE  Custody(c)'
<1>1. /\ c \notin tasks \union procs \union conn \union cancelled
      /\ ~Deleting(c) /\ mon[c] = "none"
  BY DEF Kept, Base, UnusedIsFresh, NoTrace, Custody, TakenWasLaunched, Start
<1>2. /\ c \in mem' /\ status'[c] = "running" /\ row'[c] = "running"
      /\ launch'[c] = "launching" /\ mon'[c] = "none"
      /\ UNCHANGED <<tasks, procs, conn, cancelled, del>>
  BY <1>1 DEF Kept, Base, TypeOK, Start, targetVars
<1>3. ~Deleting(c)' /\ ~Alive(c)'
  BY <1>1, <1>2 DEF Deleting, Alive
<1>4. QED
  BY <1>1, <1>2, <1>3
     DEF Custody, TakenWasLaunched, UntaskedIsCancelled, UnlistedIsUntasked, GoneHasNoRow,
         CompletedIsLast, Owned

LEMMA RequestCustody ==
    ASSUME Kept, NEW c \in Captures, RequestNext(c)
    PROVE  Custody(c)'
<1> USE DEF Kept, Base, TypeOK, managerVars, targetVars, appVars
<1>0. /\ Custody(c) /\ ConsistentStep(launch[c], mon[c], status[c])
      /\ launch[c] = "unused" => NoTrace(c)
  BY DEF StatusOfStep, UnusedIsFresh
<1>1. ASSUME NEW r \in Requests, Start(c, r)
      PROVE  Custody(c)'
  BY <1>1, StartCustody
<1>2. CASE LaunchReturns(c)
  <2>1. ~Deleting(c) /\ c \notin cancelled
    BY <1>0, <1>2 DEF LaunchReturns, Custody, TakenWasLaunched
  <2>2. /\ c \in tasks' /\ c \in procs' /\ launch'[c] = "launched" /\ mon'[c] = "created"
        /\ UNCHANGED <<mem, status, row, cancelled, local, del, ending, phase>>
    BY <1>2 DEF LaunchReturns
  <2>3. Alive(c)' /\ ~Deleting(c)'
    BY <2>1, <2>2 DEF Alive, Deleting
  <2>4. row[c] # "completed" /\ (c \notin mem => row[c] = "absent")
        /\ (c \in mem => status[c] # "completed")
    BY <1>0, <1>2, <2>1
       DEF LaunchReturns, Custody, GoneHasNoRow, CompletedIsLast, ConsistentStep
  <2>5. QED
    BY <2>1, <2>2, <2>3, <2>4
       DEF Custody, TakenWasLaunched, UntaskedIsCancelled, UnlistedIsUntasked, GoneHasNoRow,
           CompletedIsLast, Owned, Working
<1>3. CASE LaunchFails(c)
  <2>1. /\ mon[c] = "none" /\ ~Deleting(c)
        /\ c \notin tasks \union procs \union conn \union cancelled
    BY <1>0, <1>3 DEF LaunchFails, Custody, TakenWasLaunched, ConsistentStep
  <2>2. /\ launch'[c] = "failed" /\ status'[c] = "failed" /\ row'[c] = "failed"
        /\ UNCHANGED <<mem, procs, tasks, mon, cancelled, conn, local, del>>
    BY <1>3 DEF LaunchFails
  <2>3. ~Alive(c)' /\ ~Deleting(c)'
    BY <2>1, <2>2 DEF Alive, Deleting
  <2>4. QED
    BY <2>1, <2>2, <2>3
       DEF Custody, TakenWasLaunched, UntaskedIsCancelled, UnlistedIsUntasked, GoneHasNoRow,
           CompletedIsLast, Owned, Working
<1>4. CASE Stop(c)
  <2>1. /\ c \in mem /\ status[c] = "running" /\ status'[c] = "stopping" /\ row'[c] = "stopping"
        /\ UNCHANGED <<mem, procs, tasks, launch, mon, cancelled, conn, local, del, ending, phase>>
    BY <1>4 DEF Stop
  <2>2. (Alive(c)' <=> Alive(c)) /\ (Deleting(c)' <=> Deleting(c))
    BY <2>1 DEF Alive, Deleting
  <2>3. TakenWasLaunched(c)' /\ UnlistedIsUntasked(c)' /\ GoneHasNoRow(c)' /\ Owned(c)'
    BY <1>0, <2>1, <2>2
       DEF Custody, TakenWasLaunched, UnlistedIsUntasked, GoneHasNoRow, Owned, Working
  <2>4. UntaskedIsCancelled(c)'
    BY <1>0, <2>1, <2>2 DEF Custody, UntaskedIsCancelled
  <2>5. CompletedIsLast(c)'
    BY <1>0, <2>1, <2>2 DEF Custody, CompletedIsLast
  <2>6. QED
    BY <2>3, <2>4, <2>5 DEF Custody
<1>5. CASE Rename(c)
  <2>1. /\ c \in mem /\ row'[c] = status[c]
        /\ UNCHANGED <<mem, status, procs, tasks, launch, mon, cancelled, conn, local, del, ending,
                       phase>>
    BY <1>5 DEF Rename
  <2>2. (Alive(c)' <=> Alive(c)) /\ (Deleting(c)' <=> Deleting(c))
    BY <2>1 DEF Alive, Deleting
  <2>3. TakenWasLaunched(c)' /\ UnlistedIsUntasked(c)' /\ GoneHasNoRow(c)' /\ Owned(c)'
    BY <1>0, <2>1, <2>2
       DEF Custody, TakenWasLaunched, UnlistedIsUntasked, GoneHasNoRow, Owned, Working
  <2>4. UntaskedIsCancelled(c)' /\ CompletedIsLast(c)'
    BY <1>0, <2>1, <2>2 DEF Custody, UntaskedIsCancelled, CompletedIsLast
  <2>5. QED
    BY <2>3, <2>4 DEF Custody
<1>6. CASE TcpdumpExits(c)
  <2>1. Same(c)
    BY <1>6 DEF TcpdumpExits, Same
  <2>2. QED
    BY <1>0, <2>1, SameKeeps
<1>7. QED
  BY <1>1, <1>2, <1>3, <1>4, <1>5, <1>6 DEF RequestNext

(* What is known of a monitor at work: it has its task, or is cancelled.    *)
LEMMA AtWork ==
    ASSUME Kept, NEW c \in Captures, mon[c] \in Working
    PROVE  /\ Custody(c)
           /\ launch[c] = "launched" /\ Alive(c)
           /\ status[c] \in Active /\ row[c] # "completed"
           /\ c \notin mem => c \notin tasks
           /\ c \notin tasks => c \in cancelled /\ Deleting(c)
<1> USE DEF Kept, Base, TypeOK
<1>1. /\ Custody(c) /\ ConsistentStep(launch[c], mon[c], status[c])
      /\ launch[c] = "unused" => NoTrace(c)
  BY DEF StatusOfStep, UnusedIsFresh
<1>2. launch[c] = "launched" \/ launch[c] = "failed"
  BY <1>1 DEF ConsistentStep, NoTrace, Working, LaunchStep
<1>3. status[c] \in Active
  BY <1>1 DEF ConsistentStep, Working, Active
<1>4. row[c] # "completed"
  BY <1>1, <1>3 DEF Custody, CompletedIsLast, Active
<1>5. Alive(c)
  BY DEF Alive, Working
<1>6. c \notin tasks => c \in cancelled /\ Deleting(c)
  BY <1>1, <1>5 DEF Custody, UntaskedIsCancelled, Deleting, Working
<1>7. launch[c] = "launched"
  BY <1>1, <1>6 DEF Custody, TakenWasLaunched
<1>8. c \notin mem => c \notin tasks
  BY <1>1 DEF Custody, UnlistedIsUntasked
<1>9. QED
  BY <1>1, <1>3, <1>4, <1>5, <1>6, <1>7, <1>8

(* The monitor has its outcome, a cancellation if one was pending.         *)
LEMMA FinishCustody ==
    ASSUME Kept, NEW c \in Captures, NEW s \in Terminal, Finish(c, s),
           mon[c] \in Working, c \notin cancelled',
           s = "completed" => c \notin cancelled /\ local[c] = "whole" /\ local' = local,
           UNCHANGED <<mem, launch, del, conn, ending, phase>>
    PROVE  Custody(c)'
<1> USE DEF Kept, Base, TypeOK
<1>1. /\ Custody(c) /\ launch[c] = "launched" /\ row[c] # "completed"
      /\ c \notin mem => c \notin tasks
      /\ c \notin tasks => c \in cancelled /\ Deleting(c)
  BY AtWork
<1>2. Deleting(c)' <=> Deleting(c)
  BY DEF Deleting
<1>3. GoneHasNoRow(c)'
  BY <1>1, <1>2 DEF GoneHasNoRow
<1>4. CASE c \in procs
  <2>1. /\ status'[c] = s /\ procs' = procs \ {c} /\ mon'[c] = "closing"
        /\ UNCHANGED <<row, tasks>>
    BY <1>4 DEF Finish
  <2>2. c \in tasks /\ c \in mem
    BY <1>1, <1>4 DEF Custody, TakenWasLaunched
  <2>3. TakenWasLaunched(c)'
    BY <1>1, <1>2, <2>1 DEF Custody, TakenWasLaunched
  <2>4. UntaskedIsCancelled(c)' /\ UnlistedIsUntasked(c)' /\ Owned(c)'
    BY <2>1, <2>2 DEF UntaskedIsCancelled, UnlistedIsUntasked, Owned
  <2>5. CompletedIsLast(c)'
    BY <1>1, <2>1, <2>2 DEF CompletedIsLast, Terminal
  <2>6. QED
    BY <1>3, <2>3, <2>4, <2>5 DEF Custody
<1>5. CASE c \notin procs
  <2>1. /\ status'[c] = s /\ mon'[c] = "ended" /\ row'[c] = s
        /\ tasks' = tasks \ {c} /\ procs' = procs
    BY <1>5 DEF Finish
  <2>2. ~Alive(c)'
    BY <2>1 DEF Alive
  <2>3. TakenWasLaunched(c)'
    BY <1>1, <1>2, <2>1 DEF Custody, TakenWasLaunched
  <2>4. UntaskedIsCancelled(c)' /\ UnlistedIsUntasked(c)'
    BY <2>1, <2>2 DEF UntaskedIsCancelled, UnlistedIsUntasked, Working
  <2>5. Owned(c)'
    BY <1>1, <1>5 DEF Custody, Owned, Working
  <2>6. CompletedIsLast(c)'
    BY <1>1, <2>1 DEF CompletedIsLast, Terminal
  <2>7. QED
    BY <1>3, <2>3, <2>4, <2>5, <2>6 DEF Custody
<1>6. QED
  BY <1>4, <1>5

LEMMA MonitorCustody ==
    ASSUME Kept, NEW c \in Captures, MonitorNext(c)
    PROVE  Custody(c)'
<1> USE DEF Kept, Base, TypeOK, managerVars, targetVars, appVars
<1>0. Custody(c) /\ ConsistentStep(launch[c], mon[c], status[c])
  BY DEF StatusOfStep
<1>1. CASE MonitorBegins(c)
  <2>1. mon[c] = "created" /\ c \notin cancelled /\ Alive(c)
    BY <1>1 DEF MonitorBegins, Monitoring, Alive
  <2>2. c \in tasks
    BY <1>0, <2>1 DEF Custody, UntaskedIsCancelled
  <2>3. /\ mon'[c] = IF c \in mem THEN "waiting" ELSE "ended"
        /\ UNCHANGED <<mem, status, row, procs, tasks, launch, cancelled, conn, local, del, ending,
                       phase>>
    BY <1>1 DEF MonitorBegins
  <2>4. /\ Deleting(c)' <=> Deleting(c)
        /\ c \in mem => Alive(c)'
    BY <2>3 DEF Deleting, Alive
  <2>5. QED
    BY <1>0, <2>1, <2>2, <2>3, <2>4
       DEF Custody, TakenWasLaunched, UntaskedIsCancelled, UnlistedIsUntasked, GoneHasNoRow,
           CompletedIsLast, Owned, Working
<1>2. CASE LiveCount(c)
  <2>1. /\ row'[c] = status[c]
        /\ UNCHANGED <<mem, status, procs, tasks, launch, mon, cancelled, conn, local, del, ending,
                       phase>>
    BY <1>2 DEF LiveCount
  <2>2. /\ status[c] \in Active
        /\ c \notin mem => Deleting(c)
    BY <1>2, AtWork DEF LiveCount, Working
  <2>3. (Alive(c)' <=> Alive(c)) /\ (Deleting(c)' <=> Deleting(c))
    BY <2>1 DEF Alive, Deleting
  <2>4. TakenWasLaunched(c)' /\ UnlistedIsUntasked(c)' /\ GoneHasNoRow(c)' /\ Owned(c)'
    BY <1>0, <2>1, <2>2, <2>3
       DEF Custody, TakenWasLaunched, UnlistedIsUntasked, GoneHasNoRow, Owned
  <2>5. UntaskedIsCancelled(c)' /\ CompletedIsLast(c)'
    BY <1>0, <2>1, <2>2, <2>3 DEF Custody, UntaskedIsCancelled, CompletedIsLast, Active
  <2>6. QED
    BY <2>4, <2>5 DEF Custody
<1>3. CASE MonitorExit(c)
  <2>1. /\ status'[c] = "transferring" /\ row'[c] = "transferring" /\ mon'[c] = "fetching"
        /\ mon[c] = "waiting" /\ c \notin cancelled
        /\ UNCHANGED <<mem, procs, tasks, launch, cancelled, conn, local, del, ending, phase>>
    BY <1>3 DEF MonitorExit, Monitoring
  <2>2. c \in tasks /\ c \in mem
    BY <2>1, AtWork DEF Working
  <2>3. Alive(c)' /\ Alive(c) /\ (Deleting(c)' <=> Deleting(c))
    BY <2>1 DEF Alive, Deleting
  <2>4. QED
    BY <1>0, <2>1, <2>2, <2>3
       DEF Custody, TakenWasLaunched, UntaskedIsCancelled, UnlistedIsUntasked, GoneHasNoRow,
           CompletedIsLast, Owned
<1>4. CASE MonitorExitError(c) \/ MonitorTimeout(c) \/ FetchFails(c) \/ FetchTimesOut(c)
  <2>1. /\ mon[c] \in Working /\ c \notin cancelled /\ cancelled' = cancelled
        /\ Finish(c, "failed")
        /\ UNCHANGED <<mem, launch, del, conn, ending, phase>>
    BY <1>4 DEF MonitorExitError, MonitorTimeout, FetchFails, FetchTimesOut, Monitoring, Working
  <2>2. QED
    BY <2>1, FinishCustody DEF Terminal
<1>5. CASE FetchReturns(c)
  <2>1. /\ mon[c] = "fetching" /\ mon'[c] = "tidying" /\ local'[c] = "whole" /\ c \notin cancelled
        /\ UNCHANGED <<mem, status, row, procs, tasks, launch, cancelled, conn, del, ending, phase>>
    BY <1>5 DEF FetchReturns, Monitoring
  <2>2. c \in tasks /\ c \in mem /\ row[c] # "completed"
    BY <2>1, AtWork DEF Working
  <2>3. Alive(c)' /\ Alive(c) /\ (Deleting(c)' <=> Deleting(c))
    BY <2>1 DEF Alive, Deleting
  <2>4. QED
    BY <1>0, <2>1, <2>2, <2>3
       DEF Custody, TakenWasLaunched, UntaskedIsCancelled, UnlistedIsUntasked, GoneHasNoRow,
           CompletedIsLast, Owned
<1>6. CASE TidyReturns(c)
  <2>1. /\ mon[c] = "tidying" /\ mon'[c] = "counting" /\ c \notin cancelled
        /\ UNCHANGED <<mem, status, row, procs, tasks, launch, cancelled, conn, local, del, ending,
                       phase>>
    BY <1>6 DEF TidyReturns, Monitoring
  <2>2. c \in tasks /\ c \in mem
    BY <2>1, AtWork DEF Working
  <2>3. Alive(c)' /\ Alive(c) /\ (Deleting(c)' <=> Deleting(c))
    BY <2>1 DEF Alive, Deleting
  <2>4. QED
    BY <1>0, <2>1, <2>2, <2>3
       DEF Custody, TakenWasLaunched, UntaskedIsCancelled, UnlistedIsUntasked, GoneHasNoRow,
           CompletedIsLast, Owned
<1>7. CASE CountReturns(c)
  <2>1. /\ mon[c] = "counting" /\ c \notin cancelled /\ cancelled' = cancelled
        /\ Finish(c, "completed") /\ local' = local
        /\ UNCHANGED <<mem, launch, del, conn, ending, phase>>
    BY <1>7 DEF CountReturns, Monitoring
  <2>2. c \in mem
    BY <2>1, AtWork DEF Working
  <2>3. local[c] = "whole"
    BY <1>0, <2>1, <2>2 DEF Custody, CompletedIsLast
  <2>4. QED
    BY <2>1, <2>3, FinishCustody DEF Terminal, Working
<1>8. CASE MonitorCloses(c)
  <2>1. /\ mon[c] = "closing" /\ c \notin cancelled /\ Alive(c) /\ mon'[c] = "ended"
        /\ row'[c] = status[c] /\ tasks' = tasks \ {c} /\ conn' = conn \ {c}
        /\ UNCHANGED <<mem, status, procs, launch, cancelled, local, del, ending, phase>>
    BY <1>8 DEF MonitorCloses, Monitoring, Alive
  <2>2. c \notin mem => Deleting(c) /\ status[c] = "failed"
    BY <1>0, <2>1 DEF Custody, UnlistedIsUntasked, UntaskedIsCancelled, Deleting
  <2>3. ~Alive(c)' /\ (Deleting(c)' <=> Deleting(c))
    BY <2>1 DEF Alive, Deleting
  <2>4. QED
    BY <1>0, <2>1, <2>2, <2>3
       DEF Custody, TakenWasLaunched, UntaskedIsCancelled, UnlistedIsUntasked, GoneHasNoRow,
           CompletedIsLast, Owned, Working
<1>9. CASE MonitorCancelled(c)
  <2>1. /\ c \in cancelled /\ cancelled' = cancelled \ {c}
        /\ UNCHANGED <<mem, launch, del, ending, phase>>
    BY <1>9 DEF MonitorCancelled
  <2>2. CASE mon[c] \in Working
    BY <1>9, <2>1, <2>2, FinishCustody DEF MonitorCancelled, Terminal, Working
  <2>3. CASE mon[c] \notin Working
    <3>1. /\ mon[c] \in {"created", "closing"} /\ mon'[c] = "ended"
          /\ conn' = conn \/ conn' = conn \ {c}
          /\ mon[c] = "closing" => c \notin conn'
          /\ UNCHANGED <<status, row, procs, tasks, local>>
      BY <1>9, <2>3 DEF MonitorCancelled, Working
    <3>2. ~Alive(c)' /\ (Deleting(c)' <=> Deleting(c))
      BY <2>1, <3>1 DEF Alive, Deleting
    <3>3. QED
      BY <1>0, <2>1, <3>1, <3>2
         DEF Custody, TakenWasLaunched, UntaskedIsCancelled, UnlistedIsUntasked, GoneHasNoRow,
             CompletedIsLast, Owned, Working
  <2>4. QED
    BY <2>2, <2>3
<1>10. QED
  BY <1>1, <1>2, <1>3, <1>4, <1>5, <1>6, <1>7, <1>8, <1>9 DEF MonitorNext

(* A delete takes the task and the process, and drops the record when the  *)
(* monitor is over.                                                        *)
LEMMA DeleteCustody ==
    ASSUME Kept, NEW c \in Captures, DeleteNext(c)
    PROVE  Custody(c)'
<1> USE DEF Kept, Base, TypeOK, managerVars, targetVars, appVars
<1>0. Custody(c)
  OBVIOUS
<1>1. PICK d \in Deleters :
          DeleteBegins(c, d) \/ DeleteGathered(c, d) \/ DeleteStopped(c, d)
            \/ DeleteCloses(c, d)
  BY DEF DeleteNext
<1>2. ASSUME NEW e \in Deleters, e # d
      PROVE  del'[c][e] = del[c][e]
  BY <1>1, <1>2 DEF DeleteBegins, DeleteGathered, DeleteStopped, DeleteCloses
<1>3. UNCHANGED <<launch, mon, status, phase, ending>> /\ (Alive(c)' <=> Alive(c))
  BY <1>1 DEF DeleteBegins, DeleteGathered, DeleteStopped, DeleteCloses, Alive
<1>4. ASSUME c \notin tasks', c \notin mem', row'[c] = "absent", UNCHANGED cancelled,
             procs' \subseteq procs, conn' \subseteq conn,
             c \notin tasks, del[c][d] \in {"gather", "gatherP"} => ~Alive(c)
      PROVE  Custody(c)'
  <2>1. Deleting(c) /\ del[c][d] = "idle" => Deleting(c)'
    BY <1>2 DEF Deleting
  <2>2. TakenWasLaunched(c)'
    <3>1. Deleting(c)' => Deleting(c) \/ del'[c][d] \notin {"idle", "done"}
      BY <1>2 DEF Deleting
    <3>2. del'[c][d] \notin {"idle", "done"} => Deleting(c)
      BY <1>1, <1>4 DEF DeleteBegins, DeleteGathered, DeleteStopped, DeleteCloses, Deleting
    <3>3. QED
      BY <1>0, <1>3, <1>4, <3>1, <3>2 DEF Custody, TakenWasLaunched
  <2>3. UntaskedIsCancelled(c)'
    <3>1. SUFFICES ASSUME Alive(c)
                   PROVE  /\ \E e \in Deleters : del'[c][e] \in {"gather", "gatherP"}
                          /\ c \in cancelled' \/ (mon'[c] = "closing" /\ status'[c] = "failed")
      BY <1>3 DEF UntaskedIsCancelled
    <3>2. PICK e \in Deleters : del[c][e] \in {"gather", "gatherP"}
      BY <1>0, <1>4, <3>1 DEF Custody, UntaskedIsCancelled
    <3>3. del'[c][e] \in {"gather", "gatherP"}
      BY <1>2, <1>4, <3>1, <3>2
    <3>4. QED
      BY <1>0, <1>3, <1>4, <3>1, <3>3 DEF Custody, UntaskedIsCancelled
  <2>4. QED
    BY <1>4, <2>2, <2>3
       DEF Custody, UnlistedIsUntasked, GoneHasNoRow, CompletedIsLast, Owned
<1>5. CASE DeleteBegins(c, d)
  <2>1. CASE c \in tasks
    <3>1. /\ c \notin tasks' /\ c \notin procs' /\ c \in mem /\ launch[c] = "launched"
          /\ del'[c][d] = IF c \in procs THEN "gatherP" ELSE "gather"
          /\ Alive(c) => c \in cancelled'
          /\ cancelled' \subseteq cancelled \union {c}
          /\ UNCHANGED <<row, mem, local, conn>>
      BY <1>0, <1>5, <2>1 DEF DeleteBegins, Custody, TakenWasLaunched
    <3>2. TakenWasLaunched(c)' /\ UntaskedIsCancelled(c)' /\ UnlistedIsUntasked(c)'
            /\ GoneHasNoRow(c)'
      BY <1>0, <1>3, <3>1
         DEF TakenWasLaunched, UntaskedIsCancelled, UnlistedIsUntasked, GoneHasNoRow
    <3>3. CompletedIsLast(c)'
      BY <1>0, <1>3, <3>1 DEF Custody, CompletedIsLast
    <3>4. Owned(c)'
      BY <1>0, <1>2, <1>3, <1>5, <3>1 DEF Custody, Owned, DeleteBegins
    <3>5. QED
      BY <3>2, <3>3, <3>4 DEF Custody
  <2>2. CASE c \notin tasks /\ c \in procs
    <3>1. /\ c \notin tasks' /\ c \notin procs' /\ c \in mem /\ launch[c] = "launched"
          /\ del'[c][d] = "stopP" /\ del[c][d] = "idle"
          /\ UNCHANGED <<row, mem, local, conn, cancelled>>
      BY <1>0, <1>5, <2>2 DEF DeleteBegins, Custody, TakenWasLaunched
    <3>2. TakenWasLaunched(c)' /\ UnlistedIsUntasked(c)' /\ GoneHasNoRow(c)' /\ Owned(c)'
      BY <1>0, <1>3, <3>1
         DEF TakenWasLaunched, UnlistedIsUntasked, GoneHasNoRow, Owned, Custody
    <3>3. UntaskedIsCancelled(c)'
      BY <1>0, <1>2, <1>3, <2>2, <3>1 DEF Custody, UntaskedIsCancelled
    <3>4. CompletedIsLast(c)'
      BY <1>0, <1>3, <3>1 DEF Custody, CompletedIsLast
    <3>5. QED
      BY <3>2, <3>3, <3>4 DEF Custody
  <2>3. CASE c \notin tasks /\ c \notin procs
    BY <1>4, <1>5, <2>3 DEF DeleteBegins, DropRecord
  <2>4. QED
    BY <2>1, <2>2, <2>3
<1>6. CASE DeleteGathered(c, d)
  <2>1. /\ ~Alive(c) /\ Deleting(c) /\ c \notin tasks /\ launch[c] = "launched"
        /\ UNCHANGED <<procs, tasks, cancelled, conn>>
    BY <1>0, <1>6 DEF DeleteGathered, Deleting, Custody, TakenWasLaunched
  <2>2. CASE del[c][d] = "gatherP"
    <3>1. del'[c][d] = "stopP" /\ UNCHANGED <<row, mem, local>>
      BY <1>6, <2>2 DEF DeleteGathered
    <3>2. Deleting(c)'
      BY <3>1 DEF Deleting
    <3>3. QED
      BY <1>0, <1>3, <2>1, <3>1, <3>2
         DEF Custody, TakenWasLaunched, UntaskedIsCancelled, UnlistedIsUntasked, GoneHasNoRow,
             CompletedIsLast, Owned
  <2>3. CASE del[c][d] = "gather"
    BY <1>0, <1>4, <1>6, <2>1, <2>3 DEF DeleteGathered, DropRecord, Custody, Owned
  <2>4. QED
    BY <1>6, <2>2, <2>3 DEF DeleteGathered
<1>7. CASE DeleteStopped(c, d)
  <2>1. /\ del[c][d] = "stopP" /\ del'[c][d] = "closeP"
        /\ UNCHANGED <<mem, row, procs, tasks, cancelled, conn, local>>
    BY <1>7 DEF DeleteStopped
  <2>2. Deleting(c) /\ Deleting(c)'
    BY <2>1 DEF Deleting
  <2>3. UntaskedIsCancelled(c)'
    BY <1>0, <1>2, <1>3, <2>1 DEF Custody, UntaskedIsCancelled
  <2>4. QED
    BY <1>0, <1>3, <2>1, <2>2, <2>3
       DEF Custody, TakenWasLaunched, UnlistedIsUntasked, GoneHasNoRow, CompletedIsLast, Owned
<1>8. CASE DeleteCloses(c, d)
  <2>1. Deleting(c) /\ c \notin tasks /\ launch[c] = "launched"
    BY <1>0, <1>8 DEF DeleteCloses, Deleting, Custody, TakenWasLaunched
  <2>2. QED
    BY <1>4, <1>8, <2>1 DEF DeleteCloses, DropRecord
<1>9. QED
  BY <1>1, <1>5, <1>6, <1>7, <1>8

(* shutdown() takes processes and cancels monitors, and ends when none is  *)
(* left.                                                                   *)
LEMMA ShutdownCustody ==
    ASSUME Kept, ShutdownNext, ~Restart, NEW x \in Captures
    PROVE  Custody(x)'
<1> USE DEF Kept, Base, TypeOK, targetVars
<1>0. Custody(x)
  OBVIOUS
<1>2. ASSUME UNCHANGED <<mem, row, status, mon, launch, local, del>>,
             UNCHANGED tasks \/ (tasks' = {} /\ ~Alive(x)),
             procs' \subseteq procs, conn' \subseteq conn, phase' # "up",
             UNCHANGED cancelled \/ (/\ cancelled' = cancelled \union {c \in tasks : Alive(c)}
                                    /\ procs' = {})
      PROVE  Custody(x)'
  <2>1. (Alive(x)' <=> Alive(x)) /\ (Deleting(x)' <=> Deleting(x))
    BY <1>2 DEF Alive, Deleting
  <2>2. TakenWasLaunched(x)'
    BY <1>0, <1>2, <2>1 DEF Custody, TakenWasLaunched
  <2>3. UntaskedIsCancelled(x)'
    BY <1>0, <1>2, <2>1 DEF Custody, UntaskedIsCancelled
  <2>4. UnlistedIsUntasked(x)'
    BY <1>0, <1>2 DEF Custody, UnlistedIsUntasked
  <2>5. GoneHasNoRow(x)' /\ CompletedIsLast(x)' /\ Owned(x)'
    BY <1>0, <1>2, <2>1 DEF Custody, GoneHasNoRow, CompletedIsLast, Owned
  <2>6. QED
    BY <2>2, <2>3, <2>4, <2>5 DEF Custody
<1>3. CASE ShutdownBegins
  BY <1>2, <1>3 DEF ShutdownBegins
<1>4. ASSUME NEW c \in Captures, ShutdownStops(c)
      PROVE  Custody(x)'
  BY <1>2, <1>4 DEF ShutdownStops
<1>5. ASSUME NEW c \in Captures, ShutdownCloses(c)
      PROVE  Custody(x)'
  BY <1>2, <1>5 DEF ShutdownCloses, EndingIsStopping
<1>6. CASE ShutdownCancels
  BY <1>2, <1>6 DEF ShutdownCancels
<1>7. CASE ShutdownEnds
  BY <1>2, <1>7 DEF ShutdownEnds
<1>8. QED
  BY <1>3, <1>4, <1>5, <1>6, <1>7 DEF ShutdownNext

(* A new process has the rows and nothing else.                            *)
LEMMA RestartCustody ==
    ASSUME Kept, Restart, NEW x \in Captures
    PROVE  Custody(x)'
<1> USE DEF Kept, Base, TypeOK
<1>1. /\ mon'[x] = "none" /\ row'[x] = Restored(x)
      /\ x \in mem' <=> row[x] # "absent"
      /\ row[x] # "absent" => status'[x] = Restored(x)
      /\ \A d \in Deleters : del'[x][d] = "idle"
      /\ tasks' = {} /\ procs' = {} /\ conn' = {} /\ cancelled' = {}
      /\ local' = local
  BY DEF Restart
<1>2. ~Alive(x)' /\ ~Deleting(x)'
  BY <1>1 DEF Alive, Deleting
<1>3. CompletedIsLast(x)'
  BY <1>1 DEF Custody, CompletedIsLast, Restored, Active
<1>4. GoneHasNoRow(x)'
  BY <1>1 DEF GoneHasNoRow, Restored, Active
<1>5. TakenWasLaunched(x)' /\ UntaskedIsCancelled(x)' /\ UnlistedIsUntasked(x)' /\ Owned(x)'
  BY <1>1, <1>2
     DEF TakenWasLaunched, UntaskedIsCancelled, UnlistedIsUntasked, Owned, Working
<1>6. QED
  BY <1>3, <1>4, <1>5 DEF Custody

(* Only shutdown() and a restart change what the application is doing.     *)
LEMMA CaptureKeepsPhase ==
    ASSUME NEW c \in Captures, RequestNext(c) \/ MonitorNext(c) \/ DeleteNext(c)
    PROVE  UNCHANGED <<phase, ending>>
<1> USE DEF appVars
<1>1. CASE RequestNext(c)
  BY <1>1 DEF RequestNext, Start, LaunchReturns, LaunchFails, Stop, Rename, TcpdumpExits
<1>2. CASE MonitorNext(c)
  BY <1>2 DEF MonitorNext, MonitorBegins, LiveCount, MonitorExit, MonitorExitError,
     MonitorTimeout, FetchReturns, FetchFails, FetchTimesOut, TidyReturns, CountReturns,
     MonitorCloses, MonitorCancelled
<1>3. CASE DeleteNext(c)
  BY <1>3 DEF DeleteNext, DeleteBegins, DeleteGathered, DeleteStopped, DeleteCloses
<1>4. QED
  BY <1>1, <1>2, <1>3

LEMMA InitKept == Init => Kept
<1> SUFFICES ASSUME Init
             PROVE  Kept
  OBVIOUS
<1>1. Base /\ SetsKept
  BY InitBase
<1>2. ASSUME NEW c \in Captures
      PROVE  Custody(c)
  BY DEF Init, Custody, TakenWasLaunched, UntaskedIsCancelled, UnlistedIsUntasked, GoneHasNoRow,
         CompletedIsLast, Owned, Alive, Deleting, Working
<1>3. QED
  BY <1>1, <1>2 DEF Init, Kept, EndingIsStopping

LEMMA KeptStep == Kept /\ [Next]_vars => Kept'
<1> SUFFICES ASSUME Kept, [Next]_vars
             PROVE  Kept'
  OBVIOUS
<1>1. TypeOK /\ Base' /\ SetsKept'
  BY BaseStep DEF Kept, Base
<1>2. ASSUME NEW c \in Captures, RequestNext(c) \/ MonitorNext(c) \/ DeleteNext(c)
      PROVE  Kept'
  <2>1. Custody(c)'
    BY <1>2, RequestCustody, MonitorCustody, DeleteCustody
  <2>2. ASSUME NEW x \in Captures \ {c}
        PROVE  Custody(x)'
    <3>1. Same(x)
      BY <1>1, <1>2, RequestSame, MonitorSame, DeleteSame
    <3>2. QED
      BY <3>1, SameKeeps DEF Kept
  <2>3. EndingIsStopping'
    BY <1>2, CaptureKeepsPhase DEF Kept, EndingIsStopping
  <2>4. QED
    BY <1>1, <2>1, <2>2, <2>3 DEF Kept
<1>3. CASE ShutdownNext /\ ~Restart
  <2>1. EndingIsStopping'
    BY <1>3 DEF ShutdownNext, ShutdownBegins, ShutdownStops, ShutdownCloses, ShutdownCancels,
       ShutdownEnds, Kept, EndingIsStopping
  <2>2. QED
    BY <1>1, <1>3, <2>1, ShutdownCustody DEF Kept
<1>4. CASE Restart
  <2>1. EndingIsStopping'
    BY <1>4 DEF Restart, EndingIsStopping
  <2>2. QED
    BY <1>1, <1>4, <2>1, RestartCustody DEF Kept
<1>5. CASE UNCHANGED vars
  <2>1. ASSUME NEW x \in Captures
        PROVE  Same(x)
    BY <1>5 DEF vars, Same
  <2>2. QED
    BY <1>1, <1>5, <2>1, SameKeeps DEF vars, Kept, EndingIsStopping
<1>6. QED
  BY <1>2, <1>3, <1>4, <1>5 DEF Next

-----------------------------------------------------------------------------
(* The theorems                                                            *)

(* COMPLETED, in memory or in a row, means the whole pcap is on the volume *)
(* -- over any number of crashes, deletes and late writes.                 *)
THEOREM CompletedHasFileHolds == Spec => []CompletedHasFile
<1>1. Kept => CompletedHasFile
  BY DEF Kept, Custody, CompletedIsLast, CompletedHasFile
<1>2. QED
  BY <1>1, InitKept, KeptStep, PTL DEF Spec

(* Once every delete of a launched capture has returned, nothing has       *)
(* written its row back.                                                   *)
THEOREM DeleteStaysDeletedHolds == Spec => []DeleteStaysDeleted
<1>1. Kept => DeleteStaysDeleted
  BY DEF Kept, Custody, GoneHasNoRow, DeleteStaysDeleted
<1>2. QED
  BY <1>1, InitKept, KeptStep, PTL DEF Spec

(* While the application serves, the open connection of a listed capture   *)
(* is in the hands of its monitor or of a delete.                          *)
THEOREM ConnectionHasOwnerHolds == Spec => []ConnectionHasOwner
<1>1. Kept => ConnectionHasOwner
  BY DEF Kept, Base, TypeOK, Custody, Owned, ConnectionHasOwner
<1>2. QED
  BY <1>1, InitKept, KeptStep, PTL DEF Spec

-----------------------------------------------------------------------------
(* CaptureLifecycle implements CaptureRecord                               *)

Fresh == {c \in Captures : launch[c] = "unused"}
Shown == [c \in Captures |-> IF c \in mem THEN status[c] ELSE "absent"]

(* What a step about a capture that start() has used may do to its record  *)
(* and its row: nothing, move the status on, save it, remove both, or, of  *)
(* a record that is gone, write a row late.                                *)
Effect(c) ==
    \/ Shown'[c] = Shown[c] /\ row'[c] = row[c]
    \/ /\ c \in mem /\ c \in mem'
       /\ status'[c] \in Record!After(status[c])
       /\ row'[c] \in {row[c], status'[c]}
    \/ c \in mem /\ c \in mem' /\ status'[c] = status[c] /\ row'[c] = status[c]
    \/ c \notin mem' /\ row'[c] = "absent"
    \/ c \notin mem /\ c \notin mem' /\ row'[c] \in Status \ {"completed"}

Used(c) == launch[c] # "unused" /\ launch'[c] # "unused"

LEMMA EffectMaps ==
    ASSUME TypeOK, TypeOK', NEW c \in Captures, Effect(c), Used(c),
           \A x \in Captures \ {c} : Same(x)
    PROVE  [Record!Next]_Record!vars
<1>1. /\ Shown' = [Shown EXCEPT ![c] = Shown'[c]]
      /\ row' = [row EXCEPT ![c] = row'[c]]
      /\ Fresh' = Fresh /\ c \notin Fresh
  <2>1. \A x \in Captures \ {c} : Shown'[x] = Shown[x]
    BY DEF Same, Shown
  <2>2. Shown' = [Shown EXCEPT ![c] = Shown'[c]]
    BY <2>1 DEF Shown
  <2>3. row' = [row EXCEPT ![c] = row'[c]]
    BY DEF TypeOK, Same
  <2>4. Fresh' = Fresh /\ c \notin Fresh
    BY DEF Same, Fresh, Used
  <2>5. QED
    BY <2>2, <2>3, <2>4
<1>2. /\ Shown[c] = IF c \in mem THEN status[c] ELSE "absent"
      /\ Shown'[c] = IF c \in mem' THEN status'[c] ELSE "absent"
  BY DEF Shown
<1>3. status[c] # "absent" /\ Shown \in [Captures -> Status \union {"absent"}]
        /\ row \in [Captures -> Status \union {"absent"}]
  BY DEF TypeOK, Shown, Status, Active, Terminal
<1>4. CASE Shown'[c] = Shown[c] /\ row'[c] = row[c]
  <2>1. Shown' = Shown /\ row' = row
    BY <1>1, <1>3, <1>4
  <2>2. QED
    BY <1>1, <2>1 DEF Record!vars, Shown, Fresh
<1>5. CASE /\ c \in mem /\ c \in mem'
           /\ status'[c] \in Record!After(status[c])
           /\ row'[c] \in {row[c], status'[c]}
  <2>1. Record!Advance(c)
    BY <1>1, <1>2, <1>5 DEF Record!Advance, Shown, Fresh
  <2>2. QED
    BY <2>1 DEF Record!Next
<1>6. CASE c \in mem /\ c \in mem' /\ status'[c] = status[c] /\ row'[c] = status[c]
  <2>1. Shown' = Shown
    <3>1. Shown'[c] = Shown[c]
      BY <1>2, <1>6
    <3>2. QED
      BY <1>1, <1>3, <3>1
  <2>2. Record!Save(c)
    BY <1>1, <1>2, <1>3, <1>6, <2>1 DEF Record!Save, Shown, Fresh
  <2>3. QED
    BY <2>2 DEF Record!Next
<1>7. CASE c \notin mem' /\ row'[c] = "absent"
  <2>1. Record!Remove(c)
    BY <1>1, <1>2, <1>7 DEF Record!Remove, Shown, Fresh
  <2>2. QED
    BY <2>1 DEF Record!Next
<1>8. CASE c \notin mem /\ c \notin mem' /\ row'[c] \in Status \ {"completed"}
  <2>1. Shown' = Shown
    BY <1>1, <1>2, <1>3, <1>8
  <2>2. Record!LateWrite(c)
    BY <1>1, <1>2, <1>8, <2>1
       DEF Record!LateWrite, Record!Status, Record!Active, Record!Terminal, Status, Active,
           Terminal, Shown, Fresh
  <2>3. QED
    BY <2>2 DEF Record!Next
<1>9. QED
  BY <1>4, <1>5, <1>6, <1>7, <1>8 DEF Effect

LEMMA StartMaps ==
    ASSUME Kept, TypeOK', NEW c \in Captures, NEW r \in Requests, Start(c, r)
    PROVE  Record!Register(c)
<1>1. /\ c \in Fresh /\ Fresh' = Fresh \ {c}
      /\ Shown' = [Shown EXCEPT ![c] = "running"]
      /\ row' = [row EXCEPT ![c] = "running"]
  BY DEF Kept, Base, TypeOK, Start, Fresh, Shown
<1>2. QED
  BY <1>1 DEF Record!Register, Fresh, Shown

LEMMA RequestEffect ==
    ASSUME Kept, NEW c \in Captures, RequestNext(c), ~ \E r \in Requests : Start(c, r)
    PROVE  (Effect(c) /\ Used(c)) \/ UNCHANGED <<mem, status, row, launch>>
<1> USE DEF Kept, Base, TypeOK, managerVars
<1>1. /\ ConsistentStep(launch[c], mon[c], status[c])
      /\ launch[c] = "unused" => NoTrace(c)
  BY DEF StatusOfStep, UnusedIsFresh
<1>2. CASE LaunchReturns(c)
  BY <1>2 DEF LaunchReturns, Effect, Used, Shown
<1>3. CASE LaunchFails(c)
  BY <1>1, <1>3 DEF LaunchFails, Effect, Used, ConsistentStep, Record!After, Status, Terminal
<1>4. CASE Stop(c)
  BY <1>1, <1>4 DEF Stop, Effect, Used, NoTrace, Record!After
<1>5. CASE Rename(c)
  BY <1>1, <1>5 DEF Rename, Effect, Used, NoTrace
<1>6. CASE TcpdumpExits(c)
  BY <1>6 DEF TcpdumpExits
<1>7. QED
  BY <1>2, <1>3, <1>4, <1>5, <1>6 DEF RequestNext

(* The outcome of a monitor at work.                                       *)
LEMMA FinishEffect ==
    ASSUME Kept, NEW c \in Captures, NEW s \in Terminal, Finish(c, s),
           mon[c] \in Working,
           s = "completed" => c \notin cancelled /\ mon[c] = "counting",
           UNCHANGED <<mem, launch>>
    PROVE  Effect(c) /\ Used(c)
<1> USE DEF Kept, Base, TypeOK
<1>1. /\ launch[c] = "launched"
      /\ c \notin mem => c \in cancelled
      /\ ConsistentStep(launch[c], mon[c], status[c])
  BY AtWork DEF StatusOfStep
<1>2. status'[c] = s /\ row'[c] \in {row[c], s}
        /\ (row'[c] = row[c] \/ row'[c] = s)
  <2>1. CASE c \in procs
    BY <2>1 DEF Finish
  <2>2. CASE c \notin procs
    BY <2>2 DEF Finish
  <2>3. QED
    BY <2>1, <2>2
<1>3. CASE c \in mem
  <2>1. s = "failed" \/ (s = "completed" /\ mon[c] = "counting")
    BY DEF Terminal
  <2>2. status[c] \in {"running", "stopping", "transferring"}
          /\ (mon[c] = "counting" => status[c] = "transferring")
    BY <1>1 DEF ConsistentStep, Working
  <2>3. s \in Record!After(status[c])
    BY <2>1, <2>2 DEF Record!After
  <2>4. QED
    BY <1>1, <1>2, <1>3, <2>3 DEF Effect, Used
<1>4. CASE c \notin mem
  <2>1. s = "failed"
    BY <1>1, <1>4 DEF Terminal
  <2>2. Shown'[c] = Shown[c]
    BY <1>4 DEF Shown
  <2>3. "failed" \in Status \ {"completed"}
    BY DEF Status, Terminal
  <2>4. c \notin mem' /\ (row'[c] = row[c] \/ row'[c] = "failed")
    BY <1>2, <1>4, <2>1
  <2>5. QED
    BY <1>1, <1>4, <2>2, <2>3, <2>4 DEF Effect, Used
<1>5. QED
  BY <1>3, <1>4

LEMMA MonitorEffect ==
    ASSUME Kept, NEW c \in Captures, MonitorNext(c)
    PROVE  (Effect(c) /\ Used(c)) \/ UNCHANGED <<mem, status, row, launch>>
<1> USE DEF Kept, Base, TypeOK, managerVars, Monitoring
<1>1. /\ Custody(c) /\ ConsistentStep(launch[c], mon[c], status[c])
      /\ mon[c] # "none" => launch[c] # "unused"
  BY DEF StatusOfStep, UnusedIsFresh, NoTrace
<1>2. CASE MonitorBegins(c) \/ FetchReturns(c) \/ TidyReturns(c)
  BY <1>2 DEF MonitorBegins, FetchReturns, TidyReturns
<1>3. CASE LiveCount(c)
  <2>1. mon[c] = "waiting" /\ row'[c] = status[c] /\ UNCHANGED <<mem, status, launch>>
    BY <1>3 DEF LiveCount
  <2>2. status[c] \in Active
    BY <2>1, AtWork DEF Working
  <2>3. QED
    BY <1>1, <2>1, <2>2 DEF Effect, Used, Active, Status, Terminal
<1>4. CASE MonitorExit(c)
  <2>1. c \in mem
    BY <1>4, AtWork DEF MonitorExit, Working
  <2>2. QED
    BY <1>1, <1>4, <2>1 DEF MonitorExit, Effect, Used, ConsistentStep, Record!After
<1>5. CASE MonitorExitError(c) \/ MonitorTimeout(c) \/ FetchFails(c) \/ FetchTimesOut(c)
  BY <1>5, FinishEffect
     DEF MonitorExitError, MonitorTimeout, FetchFails, FetchTimesOut, Working, Terminal
<1>6. CASE CountReturns(c)
  BY <1>6, FinishEffect DEF CountReturns, Working, Terminal
<1>7. CASE MonitorCloses(c)
  <2>1. /\ mon[c] = "closing" /\ c \notin cancelled /\ row'[c] = status[c]
        /\ UNCHANGED <<mem, status, launch>> /\ Alive(c)
    BY <1>7 DEF MonitorCloses, Alive
  <2>2. c \notin mem => status[c] = "failed"
    BY <1>1, <2>1 DEF Custody, UnlistedIsUntasked, UntaskedIsCancelled
  <2>3. QED
    BY <1>1, <2>1, <2>2 DEF Effect, Used, Status, Terminal
<1>8. CASE MonitorCancelled(c)
  <2>1. CASE mon[c] \in Working
    BY <1>8, <2>1, FinishEffect DEF MonitorCancelled, Working, Terminal
  <2>2. CASE mon[c] \notin Working
    BY <1>8, <2>2 DEF MonitorCancelled, Working
  <2>3. QED
    BY <2>1, <2>2
<1>9. QED
  BY <1>2, <1>3, <1>4, <1>5, <1>6, <1>7, <1>8 DEF MonitorNext

LEMMA DeleteEffect ==
    ASSUME Kept, NEW c \in Captures, DeleteNext(c)
    PROVE  (Effect(c) /\ Used(c)) \/ UNCHANGED <<mem, status, row, launch>>
<1> USE DEF Kept, Base, TypeOK, managerVars
<1>1. /\ Custody(c)
      /\ launch[c] = "unused" => NoTrace(c)
  BY DEF UnusedIsFresh
<1>2. PICK d \in Deleters :
          DeleteBegins(c, d) \/ DeleteGathered(c, d) \/ DeleteStopped(c, d)
            \/ DeleteCloses(c, d)
  BY DEF DeleteNext
<1>3. c \in mem \/ Deleting(c)
  BY <1>2 DEF DeleteBegins, DeleteGathered, DeleteStopped, DeleteCloses, Deleting
<1>4. launch[c] # "unused"
  BY <1>1, <1>3 DEF NoTrace, Custody, TakenWasLaunched
<1>5. /\ launch' = launch /\ status' = status
      /\ DropRecord(c) \/ UNCHANGED <<mem, row>>
  BY <1>2 DEF DeleteBegins, DeleteGathered, DeleteStopped, DeleteCloses
<1>6. CASE DropRecord(c)
  BY <1>4, <1>5, <1>6 DEF DropRecord, Effect, Used
<1>7. QED
  BY <1>5, <1>6

LEMMA RestartMaps ==
    ASSUME Kept, TypeOK', Restart
    PROVE  Record!Restart
<1> USE DEF Kept, Base, TypeOK
<1>1. row' = [c \in Captures |-> IF row[c] \in Record!Active THEN "failed" ELSE row[c]]
  BY DEF Restart, Restored, Active, Record!Active
<1>2. Shown' = row'
  <2>1. ASSUME NEW c \in Captures
        PROVE  Shown'[c] = row'[c]
    BY DEF Restart, Restored, Active, Shown
  <2>2. QED
    BY <2>1 DEF Shown
<1>3. Fresh' = Fresh
  BY DEF Restart, Fresh, LaunchStep
<1>4. QED
  BY <1>1, <1>2, <1>3 DEF Record!Restart, Shown, Fresh

LEMMA Mapped == Kept /\ Kept' /\ [Next]_vars => [Record!Next]_Record!vars
<1> SUFFICES ASSUME Kept, Kept', [Next]_vars
             PROVE  [Record!Next]_Record!vars
  OBVIOUS
<1>1. TypeOK /\ TypeOK'
  BY DEF Kept, Base
<1>2. ASSUME UNCHANGED <<mem, status, row, launch>>
      PROVE  [Record!Next]_Record!vars
  BY <1>2 DEF Record!vars
<1>3. ASSUME NEW c \in Captures, NEW r \in Requests, Start(c, r)
      PROVE  [Record!Next]_Record!vars
  BY <1>1, <1>3, StartMaps DEF Record!Next
<1>4. ASSUME NEW c \in Captures, RequestNext(c), ~ \E r \in Requests : Start(c, r)
      PROVE  [Record!Next]_Record!vars
  BY <1>1, <1>2, <1>4, RequestEffect, RequestSame, EffectMaps
<1>5. ASSUME NEW c \in Captures, MonitorNext(c)
      PROVE  [Record!Next]_Record!vars
  BY <1>1, <1>2, <1>5, MonitorEffect, MonitorSame, EffectMaps
<1>6. ASSUME NEW c \in Captures, DeleteNext(c)
      PROVE  [Record!Next]_Record!vars
  BY <1>1, <1>2, <1>6, DeleteEffect, DeleteSame, EffectMaps
<1>7. CASE ShutdownNext /\ ~Restart
  BY <1>2, <1>7, ShutdownKeeps
<1>8. CASE Restart
  BY <1>1, <1>8, RestartMaps DEF Record!Next
<1>9. CASE UNCHANGED vars
  BY <1>2, <1>9 DEF vars
<1>10. QED
  BY <1>3, <1>4, <1>5, <1>6, <1>7, <1>8, <1>9 DEF Next

(* However coroutines interleave and processes crash, what a user sees of  *)
(* a capture is a record: its status only moves forward, its row is one of *)
(* its statuses, and a removed capture is never written back as completed. *)
THEOREM RefinesRecordHolds == Spec => RefinesRecord
<1>1. Init => Record!Init
  BY DEF Init, Record!Init
<1>2. QED
  BY <1>1, InitKept, KeptStep, Mapped, PTL DEF Spec, RefinesRecord, Record!Spec
=============================================================================
