------------------------ MODULE CaptureLibrary_proofs ------------------------
(***************************************************************************)
(* What TLAPS proves of CaptureLibrary for every set of captures, accounts *)
(* and saved rows, every limit and any number of crashes.                  *)
(***************************************************************************)
EXTENDS CaptureLibrary, TLAPS

-----------------------------------------------------------------------------
(* The inductive invariant                                                 *)

(* A request that has not registered its capture is in no table; a launch  *)
(* and a monitor are those of an active record, which only a launch or a   *)
(* cancelled monitor can have lost; a cancelled monitor is awaited; and    *)
(* nothing is on the volume before a fetch or an upload.                   *)
Pending ==
    \A c \in Captures :
        step[c] \in {"unused", "asked", "writing", "checking"} =>
            c \notin mem /\ row[c] = "absent"

LiveIsActive ==
    \A c \in Captures :
        step[c] \in {"launching", "live", "closing"} =>
            /\ status[c] = "active" /\ row[c] \in {"active", "absent"}
            /\ step[c] = "live" => c \in mem
            /\ step[c] = "closing" => c \in deleting

Awaited == \A c \in deleting : step[c] \in {"closing", "over"}

NothingBefore ==
    \A c \in Captures :
        step[c] \in {"unused", "asked", "launching", "live", "closing"} => file[c] = "none"

(* What is listed has a row as long as its account has one, and what is    *)
(* saved on a capture hangs off the capture's row.                         *)
ListedHasRow == \A c \in mem : owner[c] \in users => row[c] # "absent"

SavedHasRow == \A r \in saved : r.on # Account => row[r.on] # "absent"

(* Record, row and file of each capture; the rows saved beside them.       *)
Recorded ==
    /\ TypeOK
    /\ Pending /\ LiveIsActive /\ Awaited /\ NothingBefore /\ ListedHasRow
    /\ NoLostFile /\ CompletedIsStored /\ NoRowOutlivesItsUser

Saved == SavedHasRow /\ ViewsBelongToOwner /\ TabsAreOrdered

Library == Recorded /\ Saved

(* What the actions on a capture change of it.                             *)
LEMMA InitHolds == Init => Library
BY AdminAssumption, MaxRestartsAssumption
   DEF Init, Library, Recorded, Saved, TypeOK, Kept, Step, File, Pending, LiveIsActive,
       Awaited, NothingBefore, ListedHasRow, NoLostFile, CompletedIsStored, NoRowOutlivesItsUser,
       SavedHasRow, ViewsBelongToOwner, TabsAreOrdered

-----------------------------------------------------------------------------
(* Records, rows and files                                                 *)

LEMMA CaptureSteps ==
    ASSUME Recorded, NEW c \in Captures, CaptureNext(c)
    PROVE  Recorded'
<1> USE DEF Recorded, TypeOK, Kept, Step, File, Pending, LiveIsActive, Awaited, NothingBefore, ListedHasRow,
            NoLostFile, CompletedIsStored, NoRowOutlivesItsUser, accountVars
<1>1. ASSUME NEW u \in Users, AskStart(c, u) PROVE Recorded'
  BY <1>1 DEF AskStart
<1>2. CASE RefuseStart(c)
  BY <1>2 DEF RefuseStart
<1>3. CASE Register(c)
  BY <1>3 DEF Register, Upsert, Off
<1>4. CASE Launched(c) \/ LaunchFails(c)
  BY <1>4 DEF Launched, LaunchFails, Upsert, Off
<1>5. CASE Ends(c)
  BY <1>5 DEF Ends, Upsert, Off
<1>6. CASE Persist(c)
  BY <1>6 DEF Persist, Upsert, Off
<1>7. ASSUME NEW u \in Users, Delete(c, u) PROVE Recorded'
  BY <1>7 DEF Delete, Discard, Off
<1>8. ASSUME NEW u \in Users, DeleteBegins(c, u) PROVE Recorded'
  BY <1>8 DEF DeleteBegins, Owns
<1>9. CASE MonitorCancelled(c)
  BY <1>9 DEF MonitorCancelled, Upsert, Off
<1>10. CASE DeleteEnds(c)
  BY <1>10 DEF DeleteEnds, Discard, Off
<1>11. QED
  BY <1>1, <1>2, <1>3, <1>4, <1>5, <1>6, <1>7, <1>8, <1>9, <1>10 DEF CaptureNext

LEMMA UploadSteps ==
    ASSUME Recorded, NEW c \in Captures, UploadNext(c)
    PROVE  Recorded'
<1> USE DEF Recorded, TypeOK, Kept, Step, File, Pending, LiveIsActive, Awaited, NothingBefore, ListedHasRow,
            NoLostFile, CompletedIsStored, NoRowOutlivesItsUser, accountVars
<1>1. ASSUME NEW u \in Users, UploadBegins(c, u) PROVE Recorded'
  BY <1>1 DEF UploadBegins
<1>2. CASE UploadPlaced(c)
  BY <1>2 DEF UploadPlaced
<1>3. CASE UploadRefused(c)
  BY <1>3 DEF UploadRefused
<1>4. CASE UploadRegistered(c)
  BY <1>4 DEF UploadRegistered, Upsert, Off
<1>5. QED
  BY <1>1, <1>2, <1>3, <1>4 DEF UploadNext

LEMMA LayoutSteps ==
    ASSUME Recorded, NEW u \in Users, LayoutNext(u)
    PROVE  Recorded'
BY DEF Recorded, TypeOK, Pending, LiveIsActive, Awaited, NothingBefore, ListedHasRow, NoLostFile,
       CompletedIsStored, NoRowOutlivesItsUser, layoutOnly, LayoutNext, AskLayout, SetLayout,
       RefuseLayout, ClearLayout

LEMMA DeleteUserStep ==
    ASSUME Recorded, NEW u \in Users, DeleteUser(u)
    PROVE  Recorded'
BY DEF Recorded, TypeOK, Pending, LiveIsActive, Awaited, NothingBefore, ListedHasRow, NoLostFile,
       CompletedIsStored, NoRowOutlivesItsUser, DeleteUser

LEMMA RestartStep ==
    ASSUME Recorded, Restart
    PROVE  Recorded'
BY MaxRestartsAssumption DEF Recorded, TypeOK, Kept, Step, File, Pending, LiveIsActive, Awaited, NothingBefore, ListedHasRow, NoLostFile,
       CompletedIsStored, NoRowOutlivesItsUser, Restart

-----------------------------------------------------------------------------
(* Saved rows                                                              *)

(* What a write of a capture's row leaves of what is saved.                *)
LEMMA UpsertKeeps ==
    ASSUME Library, NEW c \in Captures, NEW u \in Users, NEW s, Upsert(c, u, s), s # "absent",
           users' = users, owner' = owner, mem \subseteq mem'
    PROVE  Saved'
BY DEF Library, Recorded, TypeOK, Saved, Upsert, Off, SavedHasRow, ViewsBelongToOwner, TabsAreOrdered

LEMMA CaptureStepsSaved ==
    ASSUME Library, NEW c \in Captures, CaptureNext(c)
    PROVE  Saved'
<1>1. owner[c] \in Users
  BY DEF Library, Recorded, TypeOK
<1>2. ASSUME NEW u \in Users, AskStart(c, u) PROVE Saved'
  BY <1>2 DEF AskStart, Library, Recorded, TypeOK, Pending, Saved, SavedHasRow, ViewsBelongToOwner,
              TabsAreOrdered
<1>3. CASE RefuseStart(c)
  BY <1>3 DEF RefuseStart, Library, Saved, SavedHasRow, ViewsBelongToOwner, TabsAreOrdered
<1>4. CASE Register(c)
  BY <1>1, <1>4, UpsertKeeps DEF Register
<1>5. CASE Launched(c)
  BY <1>5 DEF Launched, Library, Saved, SavedHasRow, ViewsBelongToOwner, TabsAreOrdered
<1>6. CASE LaunchFails(c)
  BY <1>1, <1>6, UpsertKeeps DEF LaunchFails
<1>7. CASE Ends(c)
  BY <1>1, <1>7, UpsertKeeps DEF Ends
<1>8. CASE Persist(c)
  <2>1. status[c] # "absent"
    BY DEF Library, Recorded, TypeOK, Kept
  <2>2. QED
    BY <1>1, <1>8, <2>1, UpsertKeeps DEF Persist
<1>9. ASSUME Discard(c) PROVE Saved'
  BY <1>9 DEF Discard, Off, Library, Recorded, TypeOK, Saved, SavedHasRow, ViewsBelongToOwner,
              TabsAreOrdered
<1>10. ASSUME NEW u \in Users, DeleteBegins(c, u) PROVE Saved'
  BY <1>10 DEF DeleteBegins, Library, Saved, SavedHasRow, ViewsBelongToOwner, TabsAreOrdered
<1>11. CASE MonitorCancelled(c)
  <2>1. CASE UNCHANGED <<row, saved>>
    BY <1>11, <2>1 DEF MonitorCancelled, Library, Saved, SavedHasRow, ViewsBelongToOwner,
                       TabsAreOrdered
  <2>2. CASE Upsert(c, owner[c], "failed")
    BY <1>1, <1>11, <2>2, UpsertKeeps DEF MonitorCancelled
  <2>3. QED
    BY <1>11, <2>1, <2>2 DEF MonitorCancelled
<1>12. QED
  BY <1>2, <1>3, <1>4, <1>5, <1>6, <1>7, <1>8, <1>9, <1>10, <1>11 DEF CaptureNext, Delete, DeleteEnds

LEMMA UploadStepsSaved ==
    ASSUME Library, NEW c \in Captures, UploadNext(c)
    PROVE  Saved'
<1>1. owner[c] \in Users
  BY DEF Library, Recorded, TypeOK
<1>2. ASSUME NEW u \in Users, UploadBegins(c, u) PROVE Saved'
  BY <1>2 DEF UploadBegins, Library, Recorded, TypeOK, Pending, Saved, SavedHasRow,
              ViewsBelongToOwner, TabsAreOrdered
<1>3. CASE UploadPlaced(c) \/ UploadRefused(c)
  BY <1>3 DEF UploadPlaced, UploadRefused, Library, Saved, SavedHasRow, ViewsBelongToOwner,
              TabsAreOrdered
<1>4. CASE UploadRegistered(c)
  BY <1>1, <1>4, UpsertKeeps DEF UploadRegistered
<1>5. QED
  BY <1>2, <1>3, <1>4 DEF UploadNext

(* No action on saved rows, and none on layouts, touches a capture.        *)
LEMMA KeptKeepsRecords ==
    ASSUME Recorded, UNCHANGED <<users, owner, step, mem, status, row, file, deleting, interrupted, restarts>>,
           saved' \subseteq SavedType, \A r \in saved' : r.on \in Place(r.table),
           arranging' \subseteq Users, arranged' \subseteq users
    PROVE  Recorded'
BY DEF Recorded, TypeOK, Pending, LiveIsActive, Awaited, NothingBefore, ListedHasRow, NoLostFile,
       CompletedIsStored, NoRowOutlivesItsUser

(* A new row is one that its account may save there, beside siblings of    *)
(* other names and, in a tab strip, of lower positions.                    *)
LEMMA InsertKeeps ==
    ASSUME Library, NEW t \in CaptureTables \union AccountTables, NEW on \in Place(t),
           NEW id \in SavedIds, NEW u \in Users, NEW n \in Names, NEW p \in 0..MaxPosition,
           MaySave(on, u), Insert(id, t, on, u, n, p),
           t = "capture_views" => \A w \in Siblings(t, on, u) : w.position < p
    PROVE  Library'
<1> DEFINE new == [id |-> id, table |-> t, on |-> on, user |-> u, name |-> n, position |-> p]
<1>1. saved' = saved \union {new} /\ UNCHANGED keptVars
  BY DEF Insert
<1>2. new \in SavedType /\ on \in Captures \union {Account} /\ (on # Account => on \in Captures)
  BY DEF SavedType, Place
<1>3. Recorded'
  BY <1>1, <1>2, KeptKeepsRecords
     DEF Library, Recorded, TypeOK, NoRowOutlivesItsUser, keptVars, accountVars
<1>4. SavedHasRow' /\ ViewsBelongToOwner'
  BY <1>1 DEF Library, Saved, SavedHasRow, ViewsBelongToOwner, MaySave, Owns, keptVars
<1>5. TabsAreOrdered'
  <2>1. ASSUME NEW w \in saved, w.table = t, w.on = on, w.user = u
        PROVE  w.name # n /\ (t = "capture_views" => w.position < p /\ w.position \in Nat)
    BY <2>1, CapsAssumption DEF Insert, Siblings, Library, Recorded, TypeOK, SavedType
  <2>2. QED
    BY <1>1, <2>1 DEF Library, Saved, TabsAreOrdered
<1>6. QED
  BY <1>3, <1>4, <1>5 DEF Library, Saved

LEMMA RenameKeeps ==
    ASSUME Library, NEW r \in saved, NEW t, NEW u \in Users, NEW n \in Names, Rename(r, t, u, n)
    PROVE  Library'
<1> DEFINE new == [r EXCEPT !.name = n]
<1>1. saved' = (saved \ {r}) \union {new} /\ UNCHANGED keptVars
  BY DEF Rename
<1>2. /\ r \in SavedType /\ r.on \in Place(r.table) /\ r.table = t /\ r.user = u
      /\ new \in SavedType /\ new.name = n
      /\ new.table = t /\ new.on = r.on /\ new.user = u /\ new.position = r.position
  BY DEF Library, Recorded, TypeOK, SavedType, Rename, Reaches
<1>3. Recorded'
  <2>1. \A w \in saved' : w.on \in Place(w.table)
    BY <1>1, <1>2 DEF Library, Recorded, TypeOK
  <2>2. QED
    BY <1>1, <1>2, <2>1, KeptKeepsRecords
       DEF Library, Recorded, TypeOK, NoRowOutlivesItsUser, keptVars, accountVars
<1>4. SavedHasRow' /\ ViewsBelongToOwner'
  BY <1>1, <1>2 DEF Library, Saved, SavedHasRow, ViewsBelongToOwner, keptVars
<1>5. TabsAreOrdered'
  <2>1. ASSUME NEW w \in saved, w # r, w.table = t, w.on = r.on, w.user = u
        PROVE  w.name # n /\ (t = "capture_views" => w.position # r.position)
    BY <1>2, <2>1 DEF Rename, Siblings, Library, Saved, TabsAreOrdered
  <2>2. SUFFICES ASSUME NEW v \in saved', NEW w \in saved', v # w,
                        v.table = w.table, v.on = w.on, v.user = w.user
                 PROVE  v.name # w.name /\ (v.table = "capture_views" => v.position # w.position)
    BY DEF TabsAreOrdered
  <2>3. CASE v # new /\ w # new
    BY <1>1, <2>2, <2>3 DEF Library, Saved, TabsAreOrdered
  <2>4. CASE v = new
    <3>1. w \in saved /\ w # r /\ w.table = t /\ w.on = r.on /\ w.user = u
      BY <1>1, <1>2, <2>2, <2>4
    <3>2. QED
      BY <1>2, <2>1, <2>4, <3>1
  <2>5. CASE w = new
    <3>1. v \in saved /\ v # r /\ v.table = t /\ v.on = r.on /\ v.user = u
      BY <1>1, <1>2, <2>2, <2>5
    <3>2. QED
      BY <1>2, <2>1, <2>5, <3>1
  <2>6. QED
    BY <2>3, <2>4, <2>5
<1>6. QED
  BY <1>3, <1>4, <1>5 DEF Library, Saved

LEMMA RemoveKeeps ==
    ASSUME Library, NEW r, NEW tables, NEW u, Remove(r, tables, u)
    PROVE  Library'
<1>1. saved' \subseteq saved /\ UNCHANGED keptVars
  BY DEF Remove
<1>2. Recorded'
  BY <1>1, KeptKeepsRecords DEF Library, Recorded, TypeOK, NoRowOutlivesItsUser, keptVars, accountVars
<1>3. QED
  BY <1>1, <1>2 DEF Library, Saved, SavedHasRow, ViewsBelongToOwner, TabsAreOrdered, keptVars

LEMMA CaptureSavedSteps ==
    ASSUME Library, NEW u \in Users, CaptureSavedNext(u)
    PROVE  Library'
<1>1. ASSUME NEW id \in SavedIds, NEW c \in Captures, NEW n \in Names,
             AddView(id, c, u, n) \/ AddDiagram(id, c, u, n)
      PROVE  Library'
  <2>1. c \in Place("capture_views") /\ c \in Place("diagram_views") /\ 0 \in 0..MaxPosition
        /\ {"capture_views", "diagram_views"} \subseteq CaptureTables \union AccountTables
    BY CapsAssumption DEF Place, CaptureTables
  <2>2. CASE AddView(id, c, u, n)
    <3>1. PICK p \in 0..MaxPosition :
              /\ \A w \in Siblings("capture_views", c, u) : w.position < p
              /\ Insert(id, "capture_views", c, u, n, p)
      BY <2>2 DEF AddView
    <3>2. MaySave(c, u)
      BY <2>2 DEF AddView
    <3>3. QED
      BY <2>1, <3>1, <3>2, InsertKeeps
  <2>3. CASE AddDiagram(id, c, u, n)
    BY <2>1, <2>3, InsertKeeps DEF AddDiagram
  <2>4. QED
    BY <1>1, <2>2, <2>3
<1>2. ASSUME NEW r \in saved, NEW n \in Names, UpdateView(r, u, n) \/ UpdateDiagram(r, u, n)
      PROVE  Library'
  BY <1>2, RenameKeeps DEF UpdateView, UpdateDiagram
<1>3. ASSUME NEW r \in saved, DeleteView(r, u) \/ DeleteDiagram(r, u)
      PROVE  Library'
  BY <1>3, RemoveKeeps DEF DeleteView, DeleteDiagram
<1>4. QED
  BY <1>1, <1>2, <1>3 DEF CaptureSavedNext

LEMMA AccountSavedSteps ==
    ASSUME Library, NEW u \in Users, AccountSavedNext(u)
    PROVE  Library'
<1>1. /\ \A t \in AccountTables : Account \in Place(t)
      /\ FilterTables \union {"capture_presets"} = AccountTables
      /\ "capture_views" \notin AccountTables /\ 0 \in 0..MaxPosition
  BY CapsAssumption DEF Place, AccountTables, FilterTables, CaptureTables
<1>2. ASSUME NEW id \in SavedIds, NEW n \in Names, NEW kind \in FilterTables, AddFilter(id, kind, u, n)
      PROVE  Library'
  BY <1>1, <1>2, InsertKeeps DEF AddFilter
<1>3. ASSUME NEW id \in SavedIds, NEW n \in Names, AddPreset(id, u, n)
      PROVE  Library'
  BY <1>1, <1>3, InsertKeeps DEF AddPreset
<1>4. ASSUME NEW r \in saved, DeleteFilter(r, u) \/ DeletePreset(r, u)
      PROVE  Library'
  BY <1>4, RemoveKeeps DEF DeleteFilter, DeletePreset
<1>5. QED
  BY <1>2, <1>3, <1>4 DEF AccountSavedNext

-----------------------------------------------------------------------------
(* Layouts, accounts, restarts                                             *)

LEMMA LayoutStepsSaved ==
    ASSUME Library, NEW u \in Users, LayoutNext(u)
    PROVE  Saved'
BY DEF Library, Saved, SavedHasRow, ViewsBelongToOwner, TabsAreOrdered, layoutOnly, LayoutNext,
       AskLayout, SetLayout, RefuseLayout, ClearLayout

LEMMA DeleteUserSaved ==
    ASSUME Library, NEW u \in Users, DeleteUser(u)
    PROVE  Saved'
<1>1. \A r \in saved : r.on # Account => r.on \in Captures
  BY DEF Library, Recorded, TypeOK, Place
<1>2. QED
  BY <1>1 DEF Library, Saved, SavedHasRow, ViewsBelongToOwner, TabsAreOrdered, DeleteUser

LEMMA RestartSaved ==
    ASSUME Library, Restart
    PROVE  Saved'
<1>1. \A r \in saved : r.on # Account => r.on \in Captures
  BY DEF Library, Recorded, TypeOK, Place
<1>2. QED
  BY <1>1 DEF Library, Saved, SavedHasRow, ViewsBelongToOwner, TabsAreOrdered, Restart

-----------------------------------------------------------------------------
(* The theorems                                                            *)

(* Library is inductive.                                                   *)
THEOREM LibraryInvariant == Spec => []Library
<1>1. Init => Library
  BY InitHolds
<1>2. ASSUME Library, [Next]_vars
      PROVE  Library'
  <2>1. ASSUME NEW c \in Captures, CaptureNext(c) \/ UploadNext(c) PROVE Library'
    BY <1>2, <2>1, CaptureSteps, CaptureStepsSaved, UploadSteps, UploadStepsSaved DEF Library
  <2>2. ASSUME NEW u \in Users, UserNext(u) PROVE Library'
    BY <1>2, <2>2, CaptureSavedSteps, AccountSavedSteps, LayoutSteps, LayoutStepsSaved,
       DeleteUserStep, DeleteUserSaved DEF UserNext, Library
  <2>3. CASE Restart
    BY <1>2, <2>3, RestartStep, RestartSaved DEF Library
  <2>4. CASE UNCHANGED vars
    <3>1. Recorded'
      BY <1>2, <2>4, KeptKeepsRecords
         DEF Library, Recorded, TypeOK, NoRowOutlivesItsUser, vars
    <3>2. Saved'
      BY <1>2, <2>4 DEF Library, Saved, SavedHasRow, ViewsBelongToOwner, TabsAreOrdered, vars
    <3>3. QED
      BY <3>1, <3>2 DEF Library
  <2>5. QED
    BY <1>2, <2>1, <2>2, <2>3, <2>4 DEF Next
<1>3. QED
  BY <1>1, <1>2, PTL DEF Spec

(* NoLostFile: whatever uploads fail, crashes and deletions of accounts    *)
(* come in between, a file no record leads to is one a crash cut off or    *)
(* one of a deleted account.                                               *)
THEOREM NoLostFileHolds == Spec => []NoLostFile
BY LibraryInvariant, PTL DEF Library, Recorded

(* CompletedIsStored: COMPLETED, in memory or in a row, is said of whole   *)
(* files only.                                                             *)
THEOREM CompletedIsStoredHolds == Spec => []CompletedIsStored
BY LibraryInvariant, PTL DEF Library, Recorded

(* ViewsBelongToOwner: no order of registering, persisting and deleting    *)
(* captures and accounts leaves a saved row to another account or to a     *)
(* capture that is not listed.                                             *)
THEOREM ViewsBelongToOwnerHolds == Spec => []ViewsBelongToOwner
BY LibraryInvariant, PTL DEF Library, Saved

(* TabsAreOrdered: names and tab positions stay distinct, for any limit.   *)
THEOREM TabsAreOrderedHolds == Spec => []TabsAreOrdered
BY LibraryInvariant, PTL DEF Library, Saved

(* NoRowOutlivesItsUser: what still runs for a deleted account, failing    *)
(* launches and cancelled monitors of deleted captures included, writes no *)
(* row and no layout of it.                                                *)
THEOREM NoRowOutlivesItsUserHolds == Spec => []NoRowOutlivesItsUser
BY LibraryInvariant, PTL DEF Library, Recorded
=============================================================================
