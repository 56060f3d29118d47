------------------------ MODULE CaptureVault_proofs ------------------------
(***************************************************************************)
(* What TLAPS proves of CaptureVault for any number of captures, keys and  *)
(* concurrent unlock attempts, in every mode.                              *)
(***************************************************************************)
EXTENDS CaptureVault, SealedEnvelope, SequenceTheorems, WellFoundedInduction, TLAPS

-----------------------------------------------------------------------------
(* Sealed contents                                                         *)

LEMMA SealType ==
    ASSUME NEW k \in Keys \union {NoKey}, NEW x \in Seq(Keys)
    PROVE  Seal(k, x) \in Seq(Keys)
BY AppendProperties DEF Seal

LEMMA ClearType == Clear \in Seq(Keys) /\ Clear # NoFile /\ NoFile \in Content
BY NoFileAssumption, EmptySeq DEF Clear, Content

LEMMA RewrapProperties ==
    ASSUME NEW s \in Seq(Keys), s # Clear, NEW k \in Keys
    PROVE  /\ [s EXCEPT ![Len(s)] = k] \in Seq(Keys)
           /\ [s EXCEPT ![Len(s)] = k] # Clear
           /\ [s EXCEPT ![Len(s)] = k][Len([s EXCEPT ![Len(s)] = k])] = k
<1> DEFINE t == [s EXCEPT ![Len(s)] = k]
<1>1. Len(s) \in 1 .. Len(s)
  <2>1. Len(s) \in Nat \ {0}
    BY EmptySeq DEF Clear
  <2>2. QED
    BY <2>1
<1>2. t \in Seq(Keys) /\ Len(t) = Len(s) /\ t[Len(s)] = k
  BY <1>1, ExceptSeq
<1>3. t # Clear
  BY <1>1, <1>2, EmptySeq DEF Clear
<1>4. QED
  BY <1>2, <1>3

-----------------------------------------------------------------------------
(* The inductive invariant                                                 *)

(* A migration has an original to seal, and a sealed copy for what it is   *)
(* about to unlink.                                                        *)
MigrationIsReal ==
    /\ \A c \in todo : pcap[c] # NoFile
    /\ \A c \in placed : enc[c] # NoFile

(* A rotation has the volume to itself, and a key to move it to.           *)
RotationIsAlone ==
    /\ app = "down" => \A u \in Unlockers : unlock[u] = Idle
    /\ rekey # NoRekey => app = "down" /\ rekey.new \in Keys /\ Sealed \subseteq EncFiles

(* What an untroubled rotation has passed is under its key.                *)
RotationSoFar ==
    rekey # NoRekey /\ rekey.ok =>
        \A c \in Sealed : c \in rekey.left \/ HeaderKey(c) = rekey.new

Base == TypeOK /\ ContentKept /\ MigrationIsReal /\ RotationIsAlone
IInv == Base /\ RotationSoFar

LEMMA InitIInv == Init => IInv
<1> SUFFICES ASSUME Init PROVE IInv
  OBVIOUS
<1>1. TypeOK
  BY ClearType DEF Init, TypeOK, Stage, Idle, UnlockType, NoRekey, RekeyType
<1>2. ContentKept /\ MigrationIsReal /\ RotationIsAlone /\ RotationSoFar
  BY DEF Init, ContentKept, MigrationIsReal, RotationIsAlone, RotationSoFar
<1>3. QED
  BY <1>1, <1>2 DEF IInv, Base

LEMMA PutProperties ==
    ASSUME TypeOK, NEW c \in Captures, NEW x \in Content, Put(c, x)
    PROVE  /\ pcap' \in [Captures -> Content]
           /\ enc' \in [Captures -> Content]
           /\ \A d \in Captures \ {c} : pcap'[d] = pcap[d] /\ enc'[d] = enc[d]
           /\ x # NoFile => pcap'[c] # NoFile \/ enc'[c] # NoFile
BY DEF TypeOK, Put

(* Steps that leave files and rotations alone.                             *)
LEMMA UnlockStep ==
    ASSUME Base, NEW u \in Unlockers,
           \/ \E k \in Passphrases : UnlockBegins(u, k)
           \/ UnlockSets(u) \/ UnlockVerifies(u) \/ UnlockUndone(u) \/ UnlockReturns(u)
    PROVE  Base'
<1> USE DEF Base
<1>1. UNCHANGED <<app, mode, pcap, enc, stage, path, under, written, placed, rekey, settled>>
  BY DEF UnlockBegins, UnlockSets, UnlockVerifies, UnlockUndone, UnlockReturns,
         fileVars, rowVars, loopVars
<1>2. app = "up"
  <2>1. unlock[u] # Idle => app = "up"
    BY DEF TypeOK, RotationIsAlone
  <2>2. QED
    BY <2>1 DEF Idle, UnlockBegins, UnlockSets, UnlockVerifies, UnlockUndone,
                UnlockReturns, LoopFree
<1>3. cryptor' \in Keys \union {NoKey} /\ unlock' \in [Unlockers -> UnlockType]
  <2>1. Idle \in UnlockType
    BY DEF Idle, UnlockType
  <2>2. CASE \E k \in Passphrases : UnlockBegins(u, k)
    BY <2>1, <2>2, PassphrasesAssumption DEF UnlockBegins, TypeOK, UnlockType, Idle
  <2>3. CASE UnlockSets(u)
    BY <2>3 DEF UnlockSets, TypeOK, UnlockType
  <2>4. CASE UnlockVerifies(u)
    BY <2>1, <2>4 DEF UnlockVerifies, TypeOK, UnlockType
  <2>5. CASE UnlockUndone(u)
    BY <2>1, <2>5 DEF UnlockUndone, TypeOK, UnlockType
  <2>6. CASE UnlockReturns(u)
    BY <2>1, <2>6 DEF UnlockReturns, TypeOK
  <2>7. QED
    BY <2>2, <2>3, <2>4, <2>5, <2>6
<1>4. todo' \subseteq Captures /\ placed' \subseteq todo' /\ \A c \in todo' : pcap[c] # NoFile
  BY DEF UnlockBegins, UnlockSets, UnlockVerifies, UnlockUndone, UnlockReturns,
         loopVars, LoopFree, ClearFiles, TypeOK, MigrationIsReal
<1>5. TypeOK'
  BY <1>1, <1>2, <1>3, <1>4 DEF TypeOK
<1>6. ContentKept' /\ MigrationIsReal'
  BY <1>1, <1>4 DEF ContentKept, MigrationIsReal, TypeOK
<1>7. RotationIsAlone'
  BY <1>1, <1>2 DEF RotationIsAlone, Sealed, EncFiles
<1>8. QED
  BY <1>5, <1>6, <1>7

(* Steps of a request for one capture that only move it along.             *)
LEMMA RequestStep ==
    ASSUME Base, NEW c \in Captures,
           Ask(c) \/ Name(c) \/ Collect(c) \/ TakeKey(c) \/ FetchEnds(c) \/ UploadFails(c)
    PROVE  Base'
<1> USE DEF Base
<1>1. UNCHANGED <<app, mode, cryptor, pcap, enc, written, unlock, todo, placed, rekey, settled>>
  BY DEF Ask, Name, Collect, TakeKey, FetchEnds, UploadFails, fileVars, loopVars
<1>2. /\ stage' \in [Captures -> Stage]
      /\ path' \in [Captures -> {"none", "pcap", "enc"}]
      /\ under' \in [Captures -> Keys \union {NoKey}]
  BY DEF Ask, Name, Collect, TakeKey, FetchEnds, UploadFails, TypeOK, Stage
<1>3. \A d \in Captures : path'[d] = "none" <=> stage'[d] \in {"unused", "asked", "gone"}
  BY DEF Ask, Name, Collect, TakeKey, FetchEnds, UploadFails, TypeOK
<1>4. \A d \in Captures : stage'[d] \in {"fetching", "done"} => stage[d] \in {"fetching", "done"}
  BY DEF Ask, Name, Collect, TakeKey, FetchEnds, UploadFails, TypeOK
<1>5. TypeOK'
  BY <1>1, <1>2, <1>3 DEF TypeOK
<1>6. ContentKept'
  BY <1>1, <1>4 DEF ContentKept
<1>7. MigrationIsReal' /\ RotationIsAlone'
  BY <1>1 DEF MigrationIsReal, RotationIsAlone, Sealed, EncFiles
<1>8. QED
  BY <1>5, <1>6, <1>7

(* Steps that write or remove the file of one capture.                     *)
LEMMA FileStep ==
    ASSUME Base, NEW c \in Captures,
           FetchWrites(c) \/ CaptureFails(c) \/ UploadEnds(c) \/ Delete(c)
    PROVE  Base'
<1> USE DEF Base
<1>1. /\ LoopFree
      /\ UNCHANGED <<app, mode, cryptor, under, unlock, todo, placed, rekey, settled>>
  BY DEF FetchWrites, CaptureFails, UploadEnds, Delete, loopVars
<1>2. Seal(under[c], Clear) \in Content /\ Seal(under[c], Clear) # NoFile
  <2>1. under[c] \in Keys \union {NoKey} /\ Clear \in Seq(Keys)
    BY ClearType DEF TypeOK
  <2>2. Seal(under[c], Clear) \in Seq(Keys)
    BY <2>1, SealType
  <2>3. QED
    BY <2>2, NoFileAssumption DEF Content
<1>3. /\ pcap' \in [Captures -> Content]
      /\ enc' \in [Captures -> Content]
      /\ \A d \in Captures \ {c} : pcap'[d] = pcap[d] /\ enc'[d] = enc[d]
      /\ stage'[c] \in {"fetching", "done"} => pcap'[c] # NoFile \/ enc'[c] # NoFile
  <2>1. CASE FetchWrites(c) \/ UploadEnds(c)
    <3>1. Put(c, Seal(under[c], Clear))
      BY <2>1 DEF FetchWrites, UploadEnds
    <3>2. QED
      BY <3>1, <1>2, PutProperties
  <2>2. CASE CaptureFails(c) \/ Delete(c)
    <3>1. Put(c, NoFile) \/ UNCHANGED <<pcap, enc>>
      BY <2>2 DEF CaptureFails, Delete, fileVars
    <3>2. stage'[c] \notin {"fetching", "done"}
      BY <2>2 DEF CaptureFails, Delete, TypeOK
    <3>3. CASE Put(c, NoFile)
      BY <3>2, <3>3, ClearType, PutProperties
    <3>4. CASE UNCHANGED <<pcap, enc>>
      BY <3>2, <3>4 DEF TypeOK
    <3>5. QED
      BY <3>1, <3>3, <3>4
  <2>3. QED
    BY <2>1, <2>2
<1>4. /\ stage' \in [Captures -> Stage]
      /\ path' \in [Captures -> {"none", "pcap", "enc"}]
      /\ written' \in [Captures -> {"none", "off", "key", "passphrase"}]
  BY DEF FetchWrites, CaptureFails, UploadEnds, Delete, TypeOK, Stage
<1>5. \A d \in Captures : path'[d] = "none" <=> stage'[d] \in {"unused", "asked", "gone"}
  BY DEF FetchWrites, CaptureFails, UploadEnds, Delete, TypeOK
<1>6. \A d \in Captures \ {c} : stage'[d] = stage[d]
  BY DEF FetchWrites, CaptureFails, UploadEnds, Delete, TypeOK
<1>7. TypeOK'
  BY <1>1, <1>3, <1>4, <1>5 DEF TypeOK
<1>8. ContentKept'
  BY <1>3, <1>6 DEF ContentKept
<1>9. MigrationIsReal' /\ RotationIsAlone'
  BY <1>1 DEF MigrationIsReal, RotationIsAlone, LoopFree, TypeOK
<1>10. QED
  BY <1>7, <1>8, <1>9

(* Steps of a migration.                                                   *)
LEMMA MigrateStep ==
    ASSUME Base, NEW c \in Captures,
           MigratePlaces(c) \/ MigrateUnlinks(c) \/ MigrateFails(c)
    PROVE  Base'
<1> USE DEF Base
<1>1. /\ c \in todo
      /\ app = "up"
      /\ UNCHANGED <<app, mode, cryptor, stage, path, under, written, unlock, rekey, settled>>
  BY DEF MigratePlaces, MigrateUnlinks, MigrateFails, rowVars, TypeOK
<1>2. /\ pcap' \in [Captures -> Content]
      /\ enc' \in [Captures -> Content]
      /\ \A d \in Captures : pcap[d] # NoFile \/ enc[d] # NoFile =>
                                 pcap'[d] # NoFile \/ enc'[d] # NoFile
      /\ todo' \subseteq Captures /\ placed' \subseteq todo'
      /\ \A d \in todo' : pcap'[d] # NoFile
      /\ \A d \in placed' : enc'[d] # NoFile
  <2>1. CASE MigratePlaces(c)
    <3>1. pcap[c] \in Seq(Keys)
      BY <1>1 DEF MigrationIsReal, TypeOK, Content
    <3>2. Seal(cryptor, pcap[c]) \in Content \ {NoFile}
      BY <3>1, SealType, NoFileAssumption DEF TypeOK, Content
    <3>3. QED
      BY <2>1, <3>2 DEF MigratePlaces, MigrationIsReal, TypeOK
  <2>2. CASE MigrateUnlinks(c)
    BY <2>2, ClearType DEF MigrateUnlinks, MigrationIsReal, TypeOK
  <2>3. CASE MigrateFails(c)
    BY <2>3 DEF MigrateFails, fileVars, MigrationIsReal, TypeOK
  <2>4. QED
    BY <2>1, <2>2, <2>3
<1>3. TypeOK'
  BY <1>1, <1>2 DEF TypeOK
<1>4. ContentKept' /\ MigrationIsReal' /\ RotationIsAlone'
  BY <1>1, <1>2 DEF ContentKept, MigrationIsReal, RotationIsAlone
<1>5. QED
  BY <1>3, <1>4

(* Steps of the process.                                                   *)
LEMMA ProcessStep ==
    ASSUME Base, Crash \/ \E m \in Modes, k \in Keys : StartApp(m, k)
    PROVE  Base'
<1> USE DEF Base
<1>1. CASE Crash
  <2>1. UNCHANGED <<mode, pcap, enc, under, written, rekey, settled>>
    BY <1>1 DEF Crash, fileVars
  <2>2. /\ app' = "down" /\ cryptor' = NoKey /\ todo' = {} /\ placed' = {}
        /\ unlock' = [u \in Unlockers |-> Idle]
    BY <1>1 DEF Crash
  <2>3. /\ stage' \in [Captures -> Stage]
        /\ \A c \in Captures : stage'[c] \in {"fetching", "done"} => stage[c] = "done"
        /\ \A c \in Captures : stage'[c] # "gone" => stage'[c] \in {stage[c], "failed"}
        /\ \A c \in Captures : stage'[c] = "failed" => stage[c] \notin {"unused", "asked", "gone"}
        /\ \A c \in Captures : stage'[c] # "asked"
        /\ \A c \in Captures : stage'[c] = stage[c] => stage[c] \notin {"asked"}
    BY <1>1 DEF Crash, TypeOK, Stage
  <2>4. path' = [c \in Captures |-> IF stage'[c] = "gone" THEN "none" ELSE path[c]]
    BY <1>1 DEF Crash
  <2>5. path' \in [Captures -> {"none", "pcap", "enc"}]
    BY <2>4 DEF TypeOK
  <2>6. \A c \in Captures : path'[c] = "none" <=> stage'[c] \in {"unused", "asked", "gone"}
    BY <2>3, <2>4 DEF TypeOK
  <2>7. unlock' \in [Unlockers -> UnlockType]
    BY <2>2 DEF Idle, UnlockType
  <2>8. TypeOK'
    BY <2>1, <2>2, <2>3, <2>5, <2>6, <2>7 DEF TypeOK
  <2>9. ContentKept' /\ MigrationIsReal' /\ RotationIsAlone'
    BY <2>1, <2>2, <2>3 DEF ContentKept, MigrationIsReal, RotationIsAlone, Sealed, EncFiles
  <2>10. QED
    BY <2>8, <2>9
<1>2. ASSUME NEW m \in Modes, NEW k \in Keys, StartApp(m, k)
      PROVE  Base'
  <2>1. /\ UNCHANGED <<pcap, enc, stage, path, under, written, unlock, placed, rekey>>
        /\ app' = "up" /\ mode' = m /\ cryptor' \in Keys \union {NoKey}
        /\ settled' \in BOOLEAN
        /\ todo' \subseteq ClearFiles /\ rekey = NoRekey /\ app = "down"
    BY <1>2 DEF StartApp, fileVars, rowVars
  <2>2. TypeOK'
    BY <2>1, ModesAssumption DEF TypeOK, ClearFiles
  <2>3. ContentKept' /\ MigrationIsReal' /\ RotationIsAlone'
    BY <2>1 DEF ContentKept, MigrationIsReal, RotationIsAlone, ClearFiles, TypeOK
  <2>4. QED
    BY <2>2, <2>3
<1>3. QED
  BY <1>1, <1>2

(* What moving one file does to the volume.                                *)
LEMMA RewrapStep ==
    ASSUME Base, NEW c \in Captures, c \in rekey.left, enc' = Rewrap(c)
    PROVE  /\ enc' \in [Captures -> Content]
           /\ Sealed' = Sealed
           /\ EncFiles' = EncFiles
           /\ \A d \in Captures \ {c} : enc'[d] = enc[d]
           /\ c \in Sealed /\ HeaderKey(c) \in {rekey.old, rekey.new} =>
                  HeaderKey(c)' = rekey.new
<1> USE DEF Base
<1>1. rekey.new \in Keys
  BY DEF RotationIsAlone, NoRekey
<1>2. CASE c \in Sealed /\ HeaderKey(c) = rekey.old
  <2> DEFINE t == [enc[c] EXCEPT ![Len(enc[c])] = rekey.new]
  <2>1. enc[c] \in Seq(Keys) /\ enc[c] # Clear
    BY <1>2 DEF Sealed, EncFiles, TypeOK, Content
  <2>2. t \in Seq(Keys) /\ t # Clear /\ t[Len(t)] = rekey.new
    BY <1>1, <2>1, RewrapProperties
  <2>3. enc' = [enc EXCEPT ![c] = t]
    BY <1>2 DEF Rewrap, TypeOK
  <2> HIDE DEF t
  <2>4. t \in Content /\ t # NoFile
    BY <2>2, NoFileAssumption DEF Content
  <2>5. QED
    BY <1>2, <2>2, <2>3, <2>4 DEF TypeOK, Sealed, EncFiles, HeaderKey
<1>3. CASE ~(c \in Sealed /\ HeaderKey(c) = rekey.old)
  <2>1. enc' = enc
    BY <1>3 DEF Rewrap
  <2>2. QED
    BY <1>3, <2>1 DEF TypeOK, Sealed, EncFiles, HeaderKey
<1>4. QED
  BY <1>2, <1>3

(* Steps of a rotation.                                                    *)
LEMMA RekeyStep ==
    ASSUME Base,
           \/ \E old, new \in Keys : RekeyBegins(old, new)
           \/ \E c \in Captures : RekeyFile(c)
           \/ RekeyEnds
    PROVE  Base'
<1> USE DEF Base
<1>1. ASSUME NEW old \in Keys, NEW new \in Keys, RekeyBegins(old, new)
      PROVE  Base'
  <2>1. /\ UNCHANGED <<app, mode, cryptor, pcap, enc, stage, path, under, written, unlock,
                       todo, placed, settled>>
        /\ app = "down"
        /\ rekey' = [old |-> old, new |-> new, left |-> EncFiles, ok |-> TRUE]
    BY <1>1 DEF RekeyBegins, fileVars, rowVars, loopVars
  <2>2. rekey' \in RekeyType
    BY <2>1 DEF RekeyType, EncFiles
  <2>3. TypeOK'
    BY <2>1, <2>2 DEF TypeOK
  <2>4. ContentKept' /\ MigrationIsReal' /\ RotationIsAlone'
    BY <2>1 DEF ContentKept, MigrationIsReal, RotationIsAlone, Sealed
  <2>5. QED
    BY <2>3, <2>4
<1>2. ASSUME NEW c \in Captures, RekeyFile(c)
      PROVE  Base'
  <2>1. /\ UNCHANGED <<app, mode, cryptor, pcap, stage, path, under, written, unlock,
                       todo, placed, settled>>
        /\ c \in rekey.left
        /\ enc' = Rewrap(c) \/ enc' = enc
    BY <1>2 DEF RekeyFile, rowVars, loopVars
  <2>2. rekey' \in RekeyType /\ rekey'.new = rekey.new
    BY <1>2 DEF RekeyFile, RekeyType, TypeOK
  <2>3. enc' \in [Captures -> Content] /\ EncFiles' = EncFiles
    BY <2>1, RewrapStep DEF TypeOK, EncFiles
  <2>4. rekey.new \in Keys /\ app = "down"
    BY <2>1 DEF RotationIsAlone, NoRekey
  <2>5. TypeOK'
    BY <2>1, <2>2, <2>3 DEF TypeOK
  <2>6. ContentKept' /\ MigrationIsReal'
    BY <2>1, <2>3, <2>4 DEF ContentKept, MigrationIsReal, EncFiles, TypeOK
  <2>7. RotationIsAlone'
    BY <2>1, <2>2, <2>4 DEF RotationIsAlone, Sealed
  <2>8. QED
    BY <2>5, <2>6, <2>7
<1>3. CASE RekeyEnds
  <2>1. /\ UNCHANGED <<app, mode, cryptor, pcap, enc, stage, path, under, written, unlock,
                       todo, placed>>
        /\ rekey' = NoRekey
        /\ settled' \in BOOLEAN
    BY <1>3 DEF RekeyEnds, fileVars, rowVars, loopVars, TypeOK, RekeyType
  <2>2. TypeOK'
    BY <2>1 DEF TypeOK, NoRekey, RekeyType
  <2>3. ContentKept' /\ MigrationIsReal' /\ RotationIsAlone'
    BY <2>1 DEF ContentKept, MigrationIsReal, RotationIsAlone
  <2>4. QED
    BY <2>2, <2>3
<1>4. QED
  BY <1>1, <1>2, <1>3

LEMMA BaseStep == Base /\ [Next]_vars => Base'
<1> SUFFICES ASSUME Base, [Next]_vars PROVE Base'
  OBVIOUS
<1>1. CASE Next
  BY <1>1, UnlockStep, RequestStep, FileStep, MigrateStep, ProcessStep, RekeyStep DEF Next
<1>2. CASE UNCHANGED vars
  BY <1>2 DEF vars, fileVars, rowVars, loopVars, Base, TypeOK, ContentKept,
              MigrationIsReal, RotationIsAlone, Sealed, EncFiles
<1>3. QED
  BY <1>1, <1>2

-----------------------------------------------------------------------------
(* Rotations                                                               *)

(* Only a rotation's own steps matter to what it has passed: while it runs *)
(* nothing else touches a sealed file.                                     *)
LEMMA RotationStep == Base /\ RotationSoFar /\ [Next]_vars => RotationSoFar'
<1> SUFFICES ASSUME Base, RotationSoFar, [Next]_vars, rekey' # NoRekey, rekey'.ok
             PROVE  \A c \in Sealed' : c \in rekey'.left \/ HeaderKey(c)' = rekey'.new
  BY DEF RotationSoFar, HeaderKey
<1>1. CASE \E old, new \in Keys : RekeyBegins(old, new)
  BY <1>1 DEF RekeyBegins, fileVars, Sealed, EncFiles
<1>2. ASSUME NEW c \in Captures, RekeyFile(c)
      PROVE  \A d \in Sealed' : d \in rekey'.left \/ HeaderKey(d)' = rekey'.new
  <2>1. /\ c \in rekey.left
        /\ c \in Sealed => HeaderKey(c) \in {rekey.old, rekey.new}
        /\ enc' = Rewrap(c)
        /\ rekey' = [rekey EXCEPT !.left = @ \ {c}]
    BY <1>2 DEF RekeyFile, Base, TypeOK, RekeyType
  <2>2. rekey # NoRekey /\ rekey.ok /\ rekey'.new = rekey.new /\ rekey'.left = rekey.left \ {c}
    BY <2>1 DEF NoRekey, Base, TypeOK, RekeyType
  <2>3. /\ Sealed' = Sealed
        /\ \A d \in Captures \ {c} : enc'[d] = enc[d]
        /\ c \in Sealed => HeaderKey(c)' = rekey.new
    BY <2>1, RewrapStep
  <2>4. \A d \in Sealed \ {c} : d \in Captures /\ HeaderKey(d)' = HeaderKey(d)
    BY <2>3 DEF HeaderKey, Sealed, EncFiles
  <2>5. QED
    BY <2>2, <2>3, <2>4 DEF RotationSoFar
<1>3. CASE UNCHANGED <<enc, rekey>>
  BY <1>3 DEF RotationSoFar, Sealed, EncFiles, HeaderKey
<1>4. CASE \E c \in Captures :
              \/ FetchWrites(c) \/ CaptureFails(c) \/ UploadEnds(c) \/ Delete(c)
              \/ MigratePlaces(c)
  <2>1. UNCHANGED rekey
    BY <1>4 DEF FetchWrites, CaptureFails, UploadEnds, Delete, MigratePlaces
  <2>2. app = "up"
    BY <1>4 DEF FetchWrites, CaptureFails, UploadEnds, Delete, MigratePlaces, LoopFree,
                Base, TypeOK
  <2>3. QED
    BY <2>1, <2>2 DEF Base, RotationIsAlone
<1>5. CASE RekeyEnds
  BY <1>5 DEF RekeyEnds
<1>6. CASE UNCHANGED vars
  BY <1>3, <1>6 DEF vars, fileVars
<1>7. CASE Crash \/ \E m \in Modes, k \in Keys : StartApp(m, k)
  BY <1>3, <1>7 DEF Crash, StartApp, fileVars
<1>8. CASE \E u \in Unlockers :
              \/ \E k \in Passphrases : UnlockBegins(u, k)
              \/ UnlockSets(u) \/ UnlockVerifies(u) \/ UnlockUndone(u) \/ UnlockReturns(u)
  BY <1>3, <1>8 DEF UnlockBegins, UnlockSets, UnlockVerifies, UnlockUndone, UnlockReturns,
                    fileVars
<1>9. CASE \E c \in Captures :
              \/ Ask(c) \/ Name(c) \/ Collect(c) \/ TakeKey(c) \/ FetchEnds(c)
              \/ UploadFails(c) \/ MigrateUnlinks(c) \/ MigrateFails(c)
  BY <1>3, <1>9 DEF Ask, Name, Collect, TakeKey, FetchEnds, UploadFails, MigrateUnlinks,
                    MigrateFails, fileVars
<1>10. QED
  BY <1>1, <1>2, <1>4, <1>5, <1>6, <1>7, <1>8, <1>9 DEF Next

THEOREM VaultInvariant == Spec => []IInv
<1>1. IInv /\ [Next]_vars => IInv'
  BY BaseStep, RotationStep DEF IInv
<1>2. QED
  BY InitIInv, <1>1, PTL DEF Spec

(* The vault's variables keep their types, a row has a path exactly while  *)
(* there is a row, and a process that is down holds no key.                *)
THEOREM VaultTypeCorrect == Spec => []TypeOK
<1>1. IInv => TypeOK
  BY DEF IInv, Base
<1>2. QED
  BY VaultInvariant, <1>1, PTL

(* A finished capture is on the volume under one of its names, whatever    *)
(* crashes, migrations, rotations and unlock attempts come together        *)
(* (migrate_plaintext, rekey_file).                                        *)
THEOREM ContentKeptHolds == Spec => []ContentKept
<1>1. IInv => ContentKept
  BY DEF IInv, Base
<1>2. QED
  BY VaultInvariant, <1>1, PTL

(* A rotation that reports success has every sealed capture under the new  *)
(* key (rekey_all).                                                        *)
THEOREM RotationCompleteHolds == Spec => RotationComplete
<1> DEFINE Complete == rekey # NoRekey /\ rekey' = NoRekey /\ settled' =>
                           \A c \in Sealed : HeaderKey(c) = rekey.new
<1>1. IInv /\ [Next]_vars => [Complete]_vars
  <2> SUFFICES ASSUME IInv, Next, rekey # NoRekey, rekey' = NoRekey, settled'
               PROVE  \A c \in Sealed : HeaderKey(c) = rekey.new
    OBVIOUS
  <2>1. CASE RekeyEnds
    BY <2>1 DEF RekeyEnds, IInv, RotationSoFar
  <2>2. CASE \E c \in Captures : RekeyFile(c)
    <3>1. rekey'.new = rekey.new
      BY <2>2 DEF RekeyFile, IInv, Base, TypeOK, RekeyType
    <3>2. rekey.new \in Keys
      BY DEF IInv, Base, RotationIsAlone
    <3>3. QED
      BY <3>1, <3>2, NoKeyAssumption DEF NoRekey
  <2>3. CASE \E old, new \in Keys : RekeyBegins(old, new)
    BY <2>3 DEF RekeyBegins
  <2>4. QED
    BY <2>1, <2>2, <2>3 DEF Next, Crash, StartApp, Ask, Name, Collect, TakeKey, FetchWrites,
       FetchEnds, CaptureFails, UploadEnds, UploadFails, Delete, MigratePlaces,
       MigrateUnlinks, MigrateFails, UnlockBegins, UnlockSets, UnlockVerifies,
       UnlockUndone, UnlockReturns
<1>2. QED
  BY VaultInvariant, <1>1, PTL DEF Spec, RotationComplete

-----------------------------------------------------------------------------
(* One key, while keys are configured and not typed                        *)

(* Without passphrases no thread touches the key: a writer's key is the    *)
(* vault's, and, after a rotation that ended well, every sealed file's.    *)
KeyInPlace ==
    /\ app = "up" /\ mode = "passphrase" => ~settled
    /\ \A u \in Unlockers : unlock[u] # Idle => app = "up" /\ mode = "passphrase"
    /\ \A c \in Captures : stage[c] \in {"asked", "opening", "writing"} => app = "up"
    /\ \A c \in Captures :
          stage[c] = "writing" /\ mode # "passphrase" => under[c] = cryptor
    /\ app = "up" /\ settled => \A c \in Sealed : HeaderKey(c) = cryptor

KInv == IInv /\ KeyInPlace /\ OneKeyPerVolume

LEMMA SealHeader ==
    ASSUME NEW k \in Keys, NEW x \in Seq(Keys)
    PROVE  Seal(k, x)[Len(Seal(k, x))] = k
<1>1. Seal(k, x) = Append(x, k)
  BY NoKeyAssumption DEF Seal
<1>2. QED
  BY <1>1, AppendProperties

(* The steps of the files, with the process up.                            *)
LEMMA KeyFileStep ==
    ASSUME KInv, NEW c \in Captures,
           \/ FetchWrites(c) \/ CaptureFails(c) \/ UploadEnds(c) \/ Delete(c)
           \/ MigratePlaces(c)
    PROVE  settled => \A d \in Sealed' : HeaderKey(d)' = cryptor
<1> USE DEF KInv, IInv, Base
<1>1. app = "up"
  BY DEF FetchWrites, CaptureFails, UploadEnds, Delete, MigratePlaces, LoopFree, TypeOK
<1>2. \A d \in Captures \ {c} : enc'[d] = enc[d]
  BY PutProperties, SealType, ClearType
     DEF FetchWrites, CaptureFails, UploadEnds, Delete, MigratePlaces, Put, TypeOK,
         fileVars
<1>3. ASSUME settled, NEW d \in Sealed', d # c
      PROVE  HeaderKey(d)' = cryptor
  BY <1>1, <1>2, <1>3 DEF KeyInPlace, Sealed, EncFiles, HeaderKey
<1>4. ASSUME settled, c \in Sealed'
      PROVE  HeaderKey(c)' = cryptor
  <2>1. CASE enc'[c] = enc[c]
    BY <1>1, <1>4, <2>1 DEF KeyInPlace, Sealed, EncFiles, HeaderKey
  <2>2. CASE FetchWrites(c) \/ UploadEnds(c)
    <3>1. stage[c] = "writing" /\ Put(c, Seal(cryptor, Clear))
      BY <1>1, <1>4, <2>2 DEF FetchWrites, UploadEnds, KeyInPlace
    <3>2. CASE cryptor = NoKey
      BY <1>4, <2>1, <3>1, <3>2 DEF KeyInPlace, Put, Seal, Sealed, EncFiles, TypeOK
    <3>3. CASE cryptor \in Keys
      <4>1. enc'[c] = Seal(cryptor, Clear) \/ enc'[c] = enc[c]
        BY <3>1 DEF KeyInPlace, Put, TypeOK
      <4>2. QED
        BY <2>1, <3>3, <4>1, SealHeader, ClearType DEF HeaderKey
    <3>4. QED
      BY <3>2, <3>3 DEF TypeOK
  <2>3. CASE CaptureFails(c) \/ Delete(c)
    BY <1>4, <2>1, <2>3 DEF CaptureFails, Delete, Put, Sealed, EncFiles, fileVars, TypeOK
  <2>4. CASE MigratePlaces(c)
    <3>1. cryptor \in Keys /\ pcap[c] \in Seq(Keys)
      BY <2>4 DEF MigratePlaces, MigrationIsReal, TypeOK, Content
    <3>2. enc'[c] = Seal(cryptor, pcap[c])
      BY <2>4 DEF MigratePlaces, TypeOK
    <3>3. QED
      BY <3>1, <3>2, SealHeader DEF HeaderKey
  <2>5. QED
    BY <2>2, <2>3, <2>4
<1>5. QED
  BY <1>3, <1>4

LEMMA KeyStep == KInv /\ IInv' /\ [Next]_vars => KInv'
<1> SUFFICES ASSUME KInv, IInv', [Next]_vars PROVE KeyInPlace' /\ OneKeyPerVolume'
  BY DEF KInv
<1> USE DEF KInv, IInv, Base
<1>1. ASSUME NEW m \in Modes, NEW k \in Keys, StartApp(m, k)
      PROVE  KeyInPlace' /\ OneKeyPerVolume'
  <2>1. /\ UNCHANGED <<enc, stage, under, unlock, rekey>>
        /\ mode' = m /\ app = "down" /\ rekey = NoRekey
        /\ settled' = (settled /\ m # "passphrase")
    BY <1>1 DEF StartApp, fileVars, rowVars
  <2>2. settled' => \A c \in Sealed : HeaderKey(c) = cryptor'
    <3>1. CASE m = "off"
      BY <1>1, <3>1 DEF StartApp, Sealed
    <3>2. CASE m = "key"
      BY <1>1, <2>1, <3>2 DEF StartApp, Verdicts, OneKeyPerVolume
    <3>3. QED
      BY <2>1, <3>1, <3>2, ModesAssumption
  <2>3. KeyInPlace'
    BY <2>1, <2>2 DEF KeyInPlace, Sealed, EncFiles, HeaderKey
  <2>4. OneKeyPerVolume'
    BY <2>1 DEF OneKeyPerVolume, Sealed, EncFiles, HeaderKey
  <2>5. QED
    BY <2>3, <2>4
<1>2. CASE Crash
  <2>1. /\ UNCHANGED <<mode, enc, under, rekey, settled>>
        /\ app' = "down"
        /\ unlock' = [u \in Unlockers |-> Idle]
        /\ \A c \in Captures : stage'[c] \notin {"asked", "opening", "writing"}
    BY <1>2 DEF Crash, fileVars, TypeOK, Stage
  <2>2. QED
    BY <2>1 DEF KeyInPlace, OneKeyPerVolume, Sealed, EncFiles, HeaderKey
<1>3. ASSUME NEW c \in Captures,
             \/ FetchWrites(c) \/ CaptureFails(c) \/ UploadEnds(c) \/ Delete(c)
             \/ MigratePlaces(c)
      PROVE  KeyInPlace' /\ OneKeyPerVolume'
  <2>1. /\ UNCHANGED <<app, mode, cryptor, under, unlock, rekey, settled>>
        /\ app = "up"
    BY <1>3 DEF FetchWrites, CaptureFails, UploadEnds, Delete, MigratePlaces, LoopFree,
                TypeOK, rowVars, loopVars
  <2>2. \A d \in Captures : stage'[d] = "writing" => stage[d] = "writing"
    BY <1>3 DEF FetchWrites, CaptureFails, UploadEnds, Delete, MigratePlaces, TypeOK,
                rowVars
  <2>3. settled' => \A d \in Sealed' : HeaderKey(d)' = cryptor'
    BY <1>3, <2>1, KeyFileStep
  <2>4. KeyInPlace'
    BY <2>1, <2>2, <2>3 DEF KeyInPlace, HeaderKey
  <2>5. OneKeyPerVolume'
    BY <2>3 DEF OneKeyPerVolume, HeaderKey
  <2>6. QED
    BY <2>4, <2>5
<1>4. ASSUME NEW c \in Captures,
             \/ Ask(c) \/ Name(c) \/ Collect(c) \/ TakeKey(c) \/ FetchEnds(c)
             \/ UploadFails(c) \/ MigrateUnlinks(c) \/ MigrateFails(c)
      PROVE  KeyInPlace' /\ OneKeyPerVolume'
  <2>1. UNCHANGED <<app, mode, cryptor, enc, unlock, rekey, settled>>
    BY <1>4 DEF Ask, Name, Collect, TakeKey, FetchEnds, UploadFails, MigrateUnlinks,
                MigrateFails, fileVars
  <2>2. \A d \in Captures : stage'[d] \in {"asked", "opening", "writing"} => app = "up"
    BY <1>4 DEF Ask, Name, Collect, TakeKey, FetchEnds, UploadFails, MigrateUnlinks,
                MigrateFails, TypeOK, KeyInPlace, rowVars, LoopFree
  <2>3. \A d \in Captures :
           stage'[d] = "writing" /\ mode # "passphrase" => under'[d] = cryptor
    BY <1>4 DEF Ask, Name, Collect, TakeKey, FetchEnds, UploadFails, MigrateUnlinks,
                MigrateFails, TypeOK, KeyInPlace, rowVars
  <2>4. QED
    BY <2>1, <2>2, <2>3 DEF KeyInPlace, OneKeyPerVolume, Sealed, EncFiles, HeaderKey
<1>5. ASSUME NEW u \in Unlockers,
             \/ \E k \in Passphrases : UnlockBegins(u, k)
             \/ UnlockSets(u) \/ UnlockVerifies(u) \/ UnlockUndone(u) \/ UnlockReturns(u)
      PROVE  KeyInPlace' /\ OneKeyPerVolume'
  <2>1. /\ UNCHANGED <<app, mode, enc, stage, under, rekey, settled>>
        /\ app = "up" /\ mode = "passphrase"
    <3>1. UNCHANGED <<app, mode, enc, stage, under, rekey, settled>>
      BY <1>5 DEF UnlockBegins, UnlockSets, UnlockVerifies, UnlockUndone, UnlockReturns,
                  fileVars, rowVars
    <3>2. CASE \E k \in Passphrases : UnlockBegins(u, k)
      BY <3>1, <3>2 DEF UnlockBegins, Locked, LoopFree
    <3>3. CASE UnlockSets(u) \/ UnlockVerifies(u) \/ UnlockUndone(u) \/ UnlockReturns(u)
      BY <3>1, <3>3 DEF UnlockSets, UnlockVerifies, UnlockUndone, UnlockReturns,
                        KeyInPlace, Idle
    <3>4. QED
      BY <1>5, <3>1, <3>2, <3>3
  <2>2. ~settled
    BY <2>1 DEF KeyInPlace
  <2>3. QED
    BY <2>1, <2>2 DEF KeyInPlace, OneKeyPerVolume
<1>6. CASE (\E old, new \in Keys : RekeyBegins(old, new)) \/ \E c \in Captures : RekeyFile(c)
  <2>1. UNCHANGED <<app, mode, cryptor, stage, under, unlock, settled>>
    BY <1>6 DEF RekeyBegins, RekeyFile, rowVars
  <2>2. app = "down" /\ rekey' # NoRekey
    <3>1. CASE \E old, new \in Keys : RekeyBegins(old, new)
      BY <3>1, NoKeyAssumption DEF RekeyBegins, NoRekey
    <3>2. CASE \E c \in Captures : RekeyFile(c)
      <4>1. PICK c \in Captures : RekeyFile(c)
        BY <3>2
      <4>2. rekey.new \in Keys /\ app = "down"
        BY <4>1 DEF RekeyFile, RotationIsAlone, NoRekey
      <4>3. rekey \in RekeyType
        BY DEF TypeOK
      <4>4. rekey'.new = rekey.new
        BY <4>1, <4>3 DEF RekeyFile, RekeyType
      <4>5. QED
        BY <4>2, <4>4, NoKeyAssumption DEF NoRekey
    <3>3. QED
      BY <1>6, <3>1, <3>2
  <2>3. QED
    BY <2>1, <2>2 DEF KeyInPlace, OneKeyPerVolume
<1>7. CASE RekeyEnds
  <2>1. /\ UNCHANGED <<app, mode, cryptor, enc, stage, under, unlock>>
        /\ app = "down" /\ rekey # NoRekey /\ settled' = (rekey.ok /\ rekey.left = {})
    BY <1>7 DEF RekeyEnds, fileVars, rowVars, RotationIsAlone
  <2>2. settled' => \A c \in Sealed : HeaderKey(c) = rekey.new
    BY <2>1 DEF RotationSoFar
  <2>3. QED
    BY <2>1, <2>2 DEF KeyInPlace, OneKeyPerVolume, Sealed, EncFiles, HeaderKey
<1>8. CASE UNCHANGED vars
  BY <1>8 DEF vars, fileVars, rowVars, loopVars, KeyInPlace, OneKeyPerVolume, Sealed,
              EncFiles, HeaderKey
<1>9. QED
  BY <1>1, <1>2, <1>3, <1>4, <1>5, <1>6, <1>7, <1>8 DEF Next

(* A volume never has files under two keys unless a rotation stopped short *)
(* or a passphrase may have been typed since (_resolve, start,             *)
(* import_upload, migrate_plaintext, rekey_all).                           *)
THEOREM OneKeyHolds == Spec => []OneKeyPerVolume
<1>1. Init => KInv
  BY InitIInv DEF Init, KInv, KeyInPlace, OneKeyPerVolume, Sealed, EncFiles
<1>2. KInv /\ IInv' /\ [Next]_vars => KInv'
  BY KeyStep
<1>3. IInv /\ [Next]_vars => IInv'
  BY BaseStep, RotationStep DEF IInv
<1>4. KInv /\ [Next]_vars => KInv'
  BY <1>2, <1>3 DEF KInv
<1>5. KInv => OneKeyPerVolume
  BY DEF KInv
<1>6. QED
  BY <1>1, <1>4, <1>5, PTL DEF Spec

-----------------------------------------------------------------------------
(* What a sealed file can be read as (SealedEnvelope), for every set of    *)
(* files, every damage and every number of chunks.                         *)

(* What is assumed of the bytes: an empty piece is none of the pieces, and *)
(* a chunk that is no sealed chunk is none.                                *)
Distinct(Deks) ==
    /\ Empty \notin Pieces
    /\ \A dek \in Deks, n \in Nat, p \in Pieces \union {Empty} : SealOne(dek, n, p) # Damaged

(* Reading stops somewhere: Yielded is such a number.                      *)
LEMMA YieldedStops ==
    ASSUME NEW S, NEW chunks \in Seq(S), NEW dek
    PROVE  LET n == Yielded(dek, chunks)
           IN  /\ n \in 0..Len(chunks)
               /\ \A i \in 1..n : Yields(dek, chunks, i)
               /\ ~Yields(dek, chunks, n + 1)
<1> DEFINE Stops == {n \in 0..Len(chunks) : ~Yields(dek, chunks, n + 1)}
<1>1. Stops \subseteq Nat /\ Len(chunks) \in Stops
  BY DEF Yields
<1>2. \E n \in Stops : \A m \in Stops : ~(<<m, n>> \in OpToRel(<, Nat))
  <2> HIDE DEF Stops
  <2> QED BY <1>1, NatLessThanWellFounded, WFMin
<1>3. PICK n \in Stops : \A m \in Stops : ~(<<m, n>> \in OpToRel(<, Nat))
  BY <1>2
<1>4. \A i \in 1..n : Yields(dek, chunks, i)
  <2> SUFFICES ASSUME NEW i \in 1..n, ~Yields(dek, chunks, i) PROVE FALSE
    OBVIOUS
  <2>0. n \in 0..Len(chunks) /\ Len(chunks) \in Nat /\ i \in Nat
    <3>1. n \in 0..Len(chunks)
      BY <1>3
    <3>2. QED BY <3>1
  <2>a. i - 1 \in 0..Len(chunks) /\ (i - 1) + 1 = i /\ i - 1 < n
    BY <2>0
  <2>1. i - 1 \in Stops /\ i - 1 < n /\ i - 1 \in Nat /\ n \in Nat
    <3>1. ~Yields(dek, chunks, (i - 1) + 1)
      BY <2>a
    <3>2. QED BY <3>1, <2>0, <2>a
  <2>2. <<i - 1, n>> \in OpToRel(<, Nat)
    BY <2>1 DEF OpToRel
  <2>3. QED BY <2>1, <2>2, <1>3
<1>5. n \in 0..Len(chunks) /\ ~Yields(dek, chunks, n + 1)
  BY <1>3
<1>6. QED BY <1>4, <1>5 DEF Yielded

(* A chunk that opens under a key at an index is the one that was sealed   *)
(* there.                                                                  *)
LEMMA OpensAsSealed ==
    ASSUME NEW Deks, Distinct(Deks), NEW texts \in [Deks -> Seq(Pieces)],
           NEW file, Genuine(texts, file),
           NEW dek, NEW i \in 1..Len(file.chunks), Authentic(dek, file.chunks, i)
    PROVE  /\ dek \in Deks
           /\ i \in 1..(Len(texts[dek]) + 1)
           /\ file.chunks[i].piece = IF i <= Len(texts[dek]) THEN texts[dek][i] ELSE Empty
<1>0. PICK d \in Deks : \E j \in 1..(Len(texts[d]) + 1) :
          file.chunks[i] = Chunks(d, texts[d])[j]
  BY DEF Genuine, Authentic
<1>1. PICK j \in 1..(Len(texts[d]) + 1) : file.chunks[i] = Chunks(d, texts[d])[j]
  BY <1>0
<1>2. texts[d] \in Seq(Pieces) /\ Len(texts[d]) \in Nat
  OBVIOUS
<1>3. file.chunks[i] = SealOne(d, j - 1, IF j <= Len(texts[d]) THEN texts[d][j] ELSE Empty)
  BY <1>1, <1>2 DEF Chunks
<1>4. d = dek /\ j - 1 = i - 1
  BY <1>3 DEF SealOne, Authentic
<1>5. j = i
  BY <1>4, <1>2
<1>6. QED
  BY <1>2, <1>3, <1>4, <1>5 DEF SealOne

(* The stream yields a beginning of what was sealed, and all of it when it *)
(* ends cleanly.                                                           *)
ReadsSealed(sealed, dek, chunks) ==
    LET out == Plaintext(dek, chunks)
    IN  /\ out \in Seq(Pieces) /\ Len(out) <= Len(sealed)
        /\ \A i \in 1..Len(out) : out[i] = sealed[i]
        /\ EndOf(dek, chunks) = "clean" => out = sealed

LEMMA ListedIsSeq ==
    ASSUME NEW S, NEW len \in Nat, NEW f \in [1..len -> S]
    PROVE  f \in Seq(S) /\ Len(f) = len
<1>1. f \in Seq(S) OBVIOUS
<1>2. QED BY <1>1

(* What a stream yields, and that all was read when it ends cleanly.       *)
LEMMA ReadsAsSealed ==
    ASSUME NEW Deks, Distinct(Deks), NEW texts \in [Deks -> Seq(Pieces)],
           NEW S, NEW file, file.chunks \in Seq(S), Genuine(texts, file),
           NEW dek \in Deks
    PROVE  ReadsSealed(texts[dek], dek, file.chunks)
<1> DEFINE n == Yielded(dek, file.chunks)
           out == Plaintext(dek, file.chunks)
           sealed == texts[dek]
<1>1. /\ n \in 0..Len(file.chunks)
      /\ \A i \in 1..n : Yields(dek, file.chunks, i)
      /\ ~Yields(dek, file.chunks, n + 1)
  BY YieldedStops
<1>2. sealed \in Seq(Pieces) /\ Len(sealed) \in Nat /\ Len(file.chunks) \in Nat
  OBVIOUS
<1>0. ASSUME NEW i \in 1..Len(file.chunks), Authentic(dek, file.chunks, i)
      PROVE  /\ i \in 1..(Len(sealed) + 1)
             /\ file.chunks[i].piece = IF i <= Len(sealed) THEN sealed[i] ELSE Empty
  BY <1>0, OpensAsSealed
<1>3. ASSUME NEW i \in 1..n PROVE i <= Len(sealed) /\ file.chunks[i].piece = sealed[i]
  <2>1. Yields(dek, file.chunks, i)
    BY <1>1
  <2>2. i \in 1..Len(file.chunks) /\ Authentic(dek, file.chunks, i) /\ file.chunks[i].piece # Empty
    BY <2>1 DEF Yields
  <2>3. file.chunks[i].piece = IF i <= Len(sealed) THEN sealed[i] ELSE Empty
    BY <2>2, <1>0
  <2>4. QED BY <2>2, <2>3
<1>4. n <= Len(sealed)
  BY <1>1, <1>2, <1>3
<1>5. \A i \in 1..n : file.chunks[i].piece \in Pieces
  BY <1>2, <1>3
<1>6. out \in Seq(Pieces) /\ Len(out) = n /\ \A i \in 1..n : out[i] = sealed[i]
  <2>1. n \in Nat /\ out = [i \in 1..n |-> file.chunks[i].piece]
    BY <1>1 DEF Plaintext
  <2>3. \A i \in 1..n : file.chunks[i].piece = sealed[i] /\ file.chunks[i].piece \in Pieces
    BY <1>3, <1>5
  <2> HIDE DEF n, out, sealed
  <2>4. out \in [1..n -> Pieces] /\ \A i \in 1..n : out[i] = sealed[i]
    BY <2>1, <2>3
  <2>5. n \in Nat /\ out \in [1..n -> Pieces]
    BY <2>1, <2>4
  <2>6. out \in Seq(Pieces) /\ Len(out) = n
    BY <2>5, ListedIsSeq
  <2>2. QED BY <2>4, <2>5, <2>6
<1>7. ASSUME EndOf(dek, file.chunks) = "clean" PROVE out = sealed
  <2>1. n + 1 \in 1..Len(file.chunks) /\ Authentic(dek, file.chunks, n + 1)
    BY <1>7, <1>1, <1>2 DEF EndOf
  <2>2. file.chunks[n + 1].piece = Empty
    BY <2>1, <1>1 DEF Yields
  <2>3. file.chunks[n + 1].piece = IF n + 1 <= Len(sealed) THEN sealed[n + 1] ELSE Empty
    BY <2>1, <1>0
  <2>4. ~(n + 1 <= Len(sealed))
    <3>1. n + 1 <= Len(sealed) => sealed[n + 1] \in Pieces
      BY <1>1, <1>2
    <3>2. QED BY <3>1, <2>2, <2>3 DEF Distinct
  <2>5. n = Len(sealed)
    BY <2>4, <1>1, <1>2, <1>4
  <2> HIDE DEF n, out, sealed
  <2>6. QED BY <2>5, <1>2, <1>6
<1>8. QED BY <1>4, <1>6, <1>7 DEF ReadsSealed

(* NothingWrongIsRead: of a file in any state, what a reader gets is a     *)
(* beginning of what was sealed in it.                                     *)
THEOREM OnlyWhatWasSealed ==
    ASSUME NEW Deks, Distinct(Deks), NEW texts \in [Deks -> Seq(Pieces)],
           NEW S, NEW file, file.chunks \in Seq(S), Genuine(texts, file), NEW kek
    PROVE  NothingWrongIsRead(texts, kek, file)
<1>1. CASE file.header = NoHeader \/ file.header.kek # kek
  BY <1>1 DEF NothingWrongIsRead, OpenStream
<1>2. CASE file.header # NoHeader /\ file.header.kek = kek
  <2>1. file.header.dek \in Deks
    BY <1>2 DEF Genuine
  <2>2. OpenStream(kek, file).out = Plaintext(file.header.dek, file.chunks)
    BY <1>2 DEF OpenStream
  <2>3. ReadsSealed(texts[file.header.dek], file.header.dek, file.chunks)
    BY <2>1, ReadsAsSealed
  <2>4. QED BY <2>1, <2>2, <2>3 DEF ReadsSealed, NothingWrongIsRead
<1>3. QED BY <1>1, <1>2

(* CleanEndIsWhole: a file that was cut, put together from others or       *)
(* altered is read to a clean end only if it is whole.                     *)
THEOREM CleanMeansWhole ==
    ASSUME NEW Deks, Distinct(Deks), NEW texts \in [Deks -> Seq(Pieces)],
           NEW S, NEW file, file.chunks \in Seq(S), Genuine(texts, file), NEW kek
    PROVE  CleanEndIsWhole(texts, kek, file)
<1>1. CASE file.header = NoHeader \/ file.header.kek # kek
  BY <1>1 DEF CleanEndIsWhole, OpenStream
<1>2. CASE file.header # NoHeader /\ file.header.kek = kek
  <2>1. file.header.dek \in Deks
    BY <1>2 DEF Genuine
  <2>2. /\ OpenStream(kek, file).out = Plaintext(file.header.dek, file.chunks)
        /\ OpenStream(kek, file).end = EndOf(file.header.dek, file.chunks)
    BY <1>2 DEF OpenStream
  <2>3. ReadsSealed(texts[file.header.dek], file.header.dek, file.chunks)
    BY <2>1, ReadsAsSealed
  <2>4. QED BY <2>1, <2>2, <2>3 DEF ReadsSealed, CleanEndIsWhole
<1>3. QED BY <1>1, <1>2

(* RekeyKeepsContent: a rotation that rewrites the header loses nothing    *)
(* and shuts the old key out.                                              *)
THEOREM RotationKeepsContent ==
    ASSUME NEW Keks, NEW Deks, NEW kek \in Keks, NEW next \in Keks,
           NEW header \in [kek : Keks, dek : Deks], NEW chunks,
           NoHeader \notin [kek : Keks, dek : Deks]
    PROVE  RekeyKeepsContent(kek, next, [header |-> header, chunks |-> chunks])
<1> DEFINE file == [header |-> header, chunks |-> chunks]
           rewritten == [kek |-> next, dek |-> header.dek]
<1>1. /\ Rekeyed(file, next) = [header |-> rewritten, chunks |-> chunks]
      /\ Rekeyed(file, next).header = rewritten /\ Rekeyed(file, next).chunks = chunks
      /\ rewritten.kek = next /\ rewritten.dek = header.dek
  BY DEF Rekeyed, HeaderForDek
<1>2. rewritten # NoHeader /\ header # NoHeader
  OBVIOUS
<1>3. OpenStream(next, Rekeyed(file, next)) =
          [end |-> EndOf(header.dek, chunks), out |-> Plaintext(header.dek, chunks)]
  BY <1>1, <1>2 DEF OpenStream
<1>4. OpenStream(header.kek, file) =
          [end |-> EndOf(header.dek, chunks), out |-> Plaintext(header.dek, chunks)]
  BY <1>2 DEF OpenStream
<1>5. kek # next => OpenStream(kek, Rekeyed(file, next)).end = "wrong key"
  BY <1>1, <1>2 DEF OpenStream
<1>6. QED BY <1>3, <1>4, <1>5 DEF RekeyKeepsContent
=============================================================================
