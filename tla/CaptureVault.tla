---------------------------- MODULE CaptureVault ----------------------------
(***************************************************************************)
(* The files of the captures and the keys they are sealed under            *)
(* (backend/vault.py, backend/rekey.py, the writers of backend/capture.py).*)
(*                                                                         *)
(* A capture's bytes are in "<id>.pcap" or "<id>.pcap.enc", chosen when    *)
(* the capture is named; its row keeps that path for good.  The event loop *)
(* runs one stretch between awaits at a time, but an unlock attempt runs   *)
(* in a worker thread, so its steps come in between any two reads of the   *)
(* vault.  rekey is another program, run while the application is down.    *)
(*                                                                         *)
(* Left out: the SSH keys and the TLS material the same key seals, how     *)
(* tcpdump is run (CaptureLifecycle), and how much of a file has arrived:  *)
(* a torn file is a file.                                                  *)
(***************************************************************************)
EXTENDS Sequences, Naturals

CONSTANTS
    Captures,    \* capture ids
    Uploads,     \* those that are uploaded rather than taken here
    Keys,        \* master keys
    NoKey,
    Modes,       \* the configurations the operator restarts into
    Passphrases, \* keys of the passphrases admins may type
    Unlockers,   \* unlock requests in flight at once
    NoFile

ASSUME UploadsAssumption == Uploads \subseteq Captures
ASSUME ModesAssumption == Modes \subseteq {"off", "key", "passphrase"}
ASSUME PassphrasesAssumption == Passphrases \subseteq Keys
ASSUME NoKeyAssumption == NoKey \notin Keys
ASSUME NoFileAssumption == NoFile \notin Seq(Keys)

VARIABLES
    app,     \* "up" while the server process runs
    mode,    \* the key source of this run of it
    cryptor, \* _cryptor: the key in memory
    pcap,    \* what "<id>.pcap" holds
    enc,     \* what "<id>.pcap.enc" holds
    stage,   \* how far the request for each capture has come
    path,    \* local_path: which of its two names it goes by
    under,   \* the key its writer took from the vault
    written, \* history: the mode of the run that wrote it
    unlock,  \* the unlock requests
    todo,    \* plaintext files a migration still has to seal
    placed,  \* the one it has put in place and not yet unlinked
    rekey,   \* the rotation under way
    settled  \* history: the last rotation moved every file, and no run since asked
             \* for a passphrase

fileVars == <<pcap, enc>>
rowVars == <<stage, path, under, written>>
loopVars == <<todo, placed>>
vars == <<app, mode, cryptor, pcap, enc, stage, path, under, written, unlock,
          todo, placed, rekey, settled>>

(* A file's bytes, as the keys they were sealed under, innermost first.    *)
Content == Seq(Keys) \union {NoFile}
Clear == <<>>
Seal(k, content) == IF k = NoKey THEN content ELSE Append(content, k)

(* asked: the request passed the check for a locked vault; started: named, *)
(* tcpdump runs; opening: checked again, about to take the key; writing:   *)
(* the key is taken; fetching: the file exists.                            *)
Stage == {"unused", "asked", "started", "opening", "writing", "fetching",
          "done", "failed", "gone"}
Idle == [step |-> "idle", key |-> NoKey, previous |-> NoKey]
UnlockType == [step : {"idle", "derived", "set", "refused", "opened"},
               key : Keys \union {NoKey}, previous : Keys \union {NoKey}]
NoRekey == [old |-> NoKey, new |-> NoKey, left |-> {}, ok |-> TRUE]
RekeyType == [old : Keys \union {NoKey}, new : Keys \union {NoKey},
              left : SUBSET Captures, ok : BOOLEAN]

-----------------------------------------------------------------------------
(* State of the volume and of the process *)

EncFiles == {c \in Captures : enc[c] # NoFile}
ClearFiles == {c \in Captures : pcap[c] # NoFile}
Sealed == {c \in EncFiles : enc[c] # Clear}
HeaderKey(c) == enc[c][Len(enc[c])]

(* Mutant: the key is taken without a look at the files. *)
VerdictsAny(k) == {TRUE}

(* The first file that is not damaged decides, and the directory is listed *)
(* in any order: with files of two keys the answer may be either.          *)
Verdicts(k) ==
    {v \in BOOLEAN :
        IF v THEN \/ \E c \in Sealed : HeaderKey(c) = k
                  \/ \A c \in Sealed : HeaderKey(c) = k
             ELSE \E c \in Sealed : HeaderKey(c) # k}

Locked == mode = "passphrase" /\ cryptor = NoKey

(* The event loop is between two stretches that await nothing.             *)
LoopFree ==
    /\ app = "up"
    /\ todo = {}
    /\ \A c \in Captures : stage[c] # "opening"
    /\ \A c \in Uploads : stage[c] # "asked"

FileAt(c) == IF path[c] = "enc" THEN enc[c] ELSE pcap[c]

(* Write x under the name the row has.                                     *)
Put(c, x) ==
    /\ enc' = IF path[c] = "enc" THEN [enc EXCEPT ![c] = x] ELSE enc
    /\ pcap' = IF path[c] = "enc" THEN pcap ELSE [pcap EXCEPT ![c] = x]

Init ==
    /\ app = "down"
    /\ mode = "off"
    /\ cryptor = NoKey
    /\ pcap = [c \in Captures |-> NoFile]
    /\ enc = [c \in Captures |-> NoFile]
    /\ stage = [c \in Captures |-> "unused"]
    /\ path = [c \in Captures |-> "none"]
    /\ under = [c \in Captures |-> NoKey]
    /\ written = [c \in Captures |-> "none"]
    /\ unlock = [u \in Unlockers |-> Idle]
    /\ todo = {}
    /\ placed = {}
    /\ rekey = NoRekey
    /\ settled = TRUE

-----------------------------------------------------------------------------
(* The process *)

(* The policy of _resolve: without a key the volume must hold nothing      *)
(* sealed, a configured key must open what is there, a passphrase is asked *)
(* for later.  The plaintext files are sealed before anything is served.   *)
StartApp(m, k) ==
    /\ app = "down"
    /\ rekey = NoRekey
    /\ m = "off" => EncFiles = {}
    /\ m = "key" => TRUE \in Verdicts(k)
    /\ app' = "up"
    /\ mode' = m
    /\ cryptor' = IF m = "key" THEN k ELSE NoKey
    /\ todo' = IF m = "key" THEN ClearFiles ELSE {}
    /\ settled' = (settled /\ m # "passphrase")
    /\ UNCHANGED <<fileVars, rowVars, unlock, placed, rekey>>

(* Requests without a row vanish; rows of unfinished captures are marked   *)
(* failed when the next run loads them.                                    *)
Crash ==
    /\ app = "up"
    /\ app' = "down"
    /\ cryptor' = NoKey
    /\ stage' = [c \in Captures |->
          CASE stage[c] = "asked" -> "gone"
            [] stage[c] \in {"started", "opening", "writing", "fetching"} ->
                  IF c \in Uploads THEN "gone" ELSE "failed"
            [] OTHER -> stage[c]]
    /\ path' = [c \in Captures |-> IF stage'[c] = "gone" THEN "none" ELSE path[c]]
    /\ unlock' = [u \in Unlockers |-> Idle]
    /\ todo' = {}
    /\ placed' = {}
    /\ UNCHANGED <<mode, fileVars, under, written, rekey, settled>>

-----------------------------------------------------------------------------
(* Captures and uploads *)

Ask(c) ==
    /\ LoopFree
    /\ stage[c] = "unused"
    /\ ~Locked
    /\ stage' = [stage EXCEPT ![c] = "asked"]
    /\ UNCHANGED <<app, mode, cryptor, fileVars, path, under, written, unlock,
                   loopVars, rekey, settled>>

(* A capture may have awaited the target's list of interfaces since the    *)
(* check; an upload goes straight on.                                      *)
Name(c) ==
    /\ stage[c] = "asked"
    /\ c \in Uploads \/ LoopFree
    /\ path' = [path EXCEPT ![c] = IF cryptor = NoKey THEN "pcap" ELSE "enc"]
    /\ stage' = [stage EXCEPT ![c] = IF c \in Uploads THEN "opening" ELSE "started"]
    /\ UNCHANGED <<app, mode, cryptor, fileVars, under, written, unlock, loopVars,
                   rekey, settled>>

Collect(c) ==
    /\ LoopFree
    /\ stage[c] = "started"
    /\ ~Locked
    /\ stage' = [stage EXCEPT ![c] = "opening"]
    /\ UNCHANGED <<app, mode, cryptor, fileVars, path, under, written, unlock,
                   loopVars, rekey, settled>>

TakeKey(c) ==
    /\ stage[c] = "opening"
    /\ under' = [under EXCEPT ![c] = cryptor]
    /\ stage' = [stage EXCEPT ![c] = "writing"]
    /\ UNCHANGED <<app, mode, cryptor, fileVars, path, written, unlock, loopVars,
                   rekey, settled>>

(* The connection is open and the local file is made.                      *)
FetchWrites(c) ==
    /\ LoopFree
    /\ c \notin Uploads
    /\ stage[c] = "writing"
    /\ Put(c, Seal(under[c], Clear))
    /\ written' = [written EXCEPT ![c] = mode]
    /\ stage' = [stage EXCEPT ![c] = "fetching"]
    /\ UNCHANGED <<app, mode, cryptor, path, under, unlock, loopVars, rekey, settled>>

FetchEnds(c) ==
    /\ LoopFree
    /\ stage[c] = "fetching"
    /\ stage' = [stage EXCEPT ![c] = "done"]
    /\ UNCHANGED <<app, mode, cryptor, fileVars, path, under, written, unlock,
                   loopVars, rekey, settled>>

(* Refused while locked, or the transfer failed: what there is of the file *)
(* goes, unless the failure was a timeout or a cancellation.               *)
CaptureFails(c) ==
    /\ LoopFree
    /\ c \notin Uploads
    /\ stage[c] \in {"started", "writing", "fetching"}
    /\ stage' = [stage EXCEPT ![c] = "failed"]
    /\ Put(c, NoFile) \/ UNCHANGED fileVars
    /\ UNCHANGED <<app, mode, cryptor, path, under, written, unlock, loopVars,
                   rekey, settled>>

(* The whole body has arrived beside the real name, moves there, and is    *)
(* read back through the vault as it is now.                               *)
UploadEnds(c) ==
    /\ LoopFree
    /\ c \in Uploads
    /\ stage[c] = "writing"
    /\ under[c] = NoKey \/ under[c] = cryptor
    /\ Put(c, Seal(under[c], Clear))
    /\ written' = [written EXCEPT ![c] = mode]
    /\ stage' = [stage EXCEPT ![c] = "done"]
    /\ UNCHANGED <<app, mode, cryptor, path, under, unlock, loopVars, rekey, settled>>

UploadFails(c) ==
    /\ LoopFree
    /\ c \in Uploads
    /\ stage[c] = "writing"
    /\ stage' = [stage EXCEPT ![c] = "gone"]
    /\ path' = [path EXCEPT ![c] = "none"]
    /\ UNCHANGED <<app, mode, cryptor, fileVars, under, written, unlock, loopVars,
                   rekey, settled>>

Delete(c) ==
    /\ LoopFree
    /\ stage[c] \in {"done", "failed"}
    /\ Put(c, NoFile)
    /\ stage' = [stage EXCEPT ![c] = "gone"]
    /\ path' = [path EXCEPT ![c] = "none"]
    /\ UNCHANGED <<app, mode, cryptor, under, written, unlock, loopVars, rekey, settled>>

-----------------------------------------------------------------------------
(* Unlocking, and sealing what was written before encryption *)

(* Only the route asks whether the vault is locked; the thread derives the *)
(* key, installs it, and only then looks at the files.                     *)
UnlockBegins(u, k) ==
    /\ LoopFree
    /\ Locked
    /\ unlock[u].step = "idle"
    /\ unlock' = [unlock EXCEPT ![u] = [step |-> "derived", key |-> k, previous |-> NoKey]]
    /\ UNCHANGED <<app, mode, cryptor, fileVars, rowVars, loopVars, rekey, settled>>

UnlockSets(u) ==
    /\ unlock[u].step = "derived"
    /\ cryptor' = unlock[u].key
    /\ unlock' = [unlock EXCEPT ![u].step = "set", ![u].previous = cryptor]
    /\ UNCHANGED <<app, mode, fileVars, rowVars, loopVars, rekey, settled>>

(* Verified with the vault's key of this moment; without one the thread    *)
(* dies of it if there is a file to open.                                  *)
UnlockVerifies(u) ==
    /\ unlock[u].step = "set"
    /\ \/ /\ cryptor # NoKey \/ EncFiles = {}
          /\ \E v \in Verdicts(cryptor) :
                unlock' = [unlock EXCEPT ![u].step = IF v THEN "opened" ELSE "refused"]
       \/ /\ cryptor = NoKey /\ EncFiles # {}
          /\ unlock' = [unlock EXCEPT ![u] = Idle]
    /\ UNCHANGED <<app, mode, cryptor, fileVars, rowVars, loopVars, rekey, settled>>

UnlockUndone(u) ==
    /\ unlock[u].step = "refused"
    /\ cryptor' = unlock[u].previous
    /\ unlock' = [unlock EXCEPT ![u] = Idle]
    /\ UNCHANGED <<app, mode, fileVars, rowVars, loopVars, rekey, settled>>

UnlockReturns(u) ==
    /\ LoopFree
    /\ unlock[u].step = "opened"
    /\ todo' = IF cryptor = NoKey THEN {} ELSE ClearFiles
    /\ unlock' = [unlock EXCEPT ![u] = Idle]
    /\ UNCHANGED <<app, mode, cryptor, fileVars, rowVars, placed, rekey, settled>>

(* One file: the sealed copy, verified, takes its place; the original goes *)
(* in a later step.  Its row is not touched.                               *)
MigratePlaces(c) ==
    /\ c \in todo
    /\ placed = {}
    /\ cryptor # NoKey
    /\ enc' = [enc EXCEPT ![c] = Seal(cryptor, pcap[c])]
    /\ placed' = {c}
    /\ UNCHANGED <<app, mode, cryptor, pcap, rowVars, unlock, todo, rekey, settled>>

MigrateUnlinks(c) ==
    /\ c \in placed
    /\ pcap' = [pcap EXCEPT ![c] = NoFile]
    /\ todo' = todo \ {c}
    /\ placed' = {}
    /\ UNCHANGED <<app, mode, cryptor, enc, rowVars, unlock, rekey, settled>>

(* Mutant: the original is unlinked on the way out, sealed or not. *)
MigrateFailsUnlinks(c) ==
    /\ c \in todo
    /\ placed \subseteq {c}
    /\ pcap' = [pcap EXCEPT ![c] = NoFile]
    /\ todo' = todo \ {c}
    /\ placed' = {}
    /\ UNCHANGED <<app, mode, cryptor, enc, rowVars, unlock, rekey, settled>>

(* An error is logged and the next file taken; a key that an unlock thread *)
(* took away ends the whole migration.                                     *)
MigrateFails(c) ==
    /\ c \in todo
    /\ placed \subseteq {c}
    /\ \/ todo' = todo \ {c}
       \/ placed = {} /\ cryptor = NoKey /\ todo' = {}
    /\ placed' = {}
    /\ UNCHANGED <<app, mode, cryptor, fileVars, rowVars, unlock, rekey, settled>>

-----------------------------------------------------------------------------
(* Rotating the master key *)

RekeyBegins(old, new) ==
    /\ app = "down"
    /\ rekey = NoRekey
    /\ old # new
    /\ EncFiles # {}
    /\ rekey' = [old |-> old, new |-> new, left |-> EncFiles, ok |-> TRUE]
    /\ UNCHANGED <<app, mode, cryptor, fileVars, rowVars, unlock, loopVars, settled>>

(* A file under neither key, or one that cannot be written, is reported    *)
(* and left as it is; one already moved, or in the clear, is passed over.  *)
Rewrap(c) ==
    IF c \in Sealed /\ HeaderKey(c) = rekey.old
        THEN [enc EXCEPT ![c][Len(enc[c])] = rekey.new]
        ELSE enc

(* Mutant: a file that could not be moved is passed over without a word. *)
RekeyFileSilent(c) ==
    /\ c \in rekey.left
    /\ enc' \in {enc, Rewrap(c)}
    /\ rekey' = [rekey EXCEPT !.left = @ \ {c}]
    /\ UNCHANGED <<app, mode, cryptor, pcap, rowVars, unlock, loopVars, settled>>

RekeyFile(c) ==
    /\ c \in rekey.left
    /\ \/ /\ c \in Sealed => HeaderKey(c) \in {rekey.old, rekey.new}
          /\ enc' = Rewrap(c)
          /\ rekey' = [rekey EXCEPT !.left = @ \ {c}]
       \/ /\ rekey' = [rekey EXCEPT !.left = @ \ {c}, !.ok = FALSE]
          /\ UNCHANGED enc
    /\ UNCHANGED <<app, mode, cryptor, pcap, rowVars, unlock, loopVars, settled>>

(* Run to the end, or interrupted.                                         *)
RekeyEnds ==
    /\ rekey # NoRekey
    /\ settled' = (rekey.ok /\ rekey.left = {})
    /\ rekey' = NoRekey
    /\ UNCHANGED <<app, mode, cryptor, fileVars, rowVars, unlock, loopVars>>

-----------------------------------------------------------------------------

Next ==
    \/ \E m \in Modes, k \in Keys : StartApp(m, k)
    \/ Crash
    \/ \E c \in Captures :
          \/ Ask(c) \/ Name(c) \/ Collect(c) \/ TakeKey(c)
          \/ FetchWrites(c) \/ FetchEnds(c) \/ CaptureFails(c)
          \/ UploadEnds(c) \/ UploadFails(c) \/ Delete(c)
          \/ MigratePlaces(c) \/ MigrateUnlinks(c) \/ MigrateFails(c)
          \/ RekeyFile(c)
    \/ \E u \in Unlockers :
          \/ \E k \in Passphrases : UnlockBegins(u, k)
          \/ UnlockSets(u) \/ UnlockVerifies(u) \/ UnlockUndone(u) \/ UnlockReturns(u)
    \/ \E old, new \in Keys : RekeyBegins(old, new)
    \/ RekeyEnds

Spec == Init /\ [][Next]_vars

-----------------------------------------------------------------------------
(* Properties *)

(* Every variable keeps its type, a row has a path exactly while there is  *)
(* a row, and only a running process holds a key or works on files         *)
(* (CaptureManager.start, import_upload, delete).                          *)
TypeOK ==
    /\ app \in {"down", "up"}
    /\ mode \in {"off", "key", "passphrase"}
    /\ cryptor \in Keys \union {NoKey}
    /\ pcap \in [Captures -> Content]
    /\ enc \in [Captures -> Content]
    /\ stage \in [Captures -> Stage]
    /\ path \in [Captures -> {"none", "pcap", "enc"}]
    /\ under \in [Captures -> Keys \union {NoKey}]
    /\ written \in [Captures -> {"none", "off", "key", "passphrase"}]
    /\ unlock \in [Unlockers -> UnlockType]
    /\ todo \subseteq Captures
    /\ placed \subseteq todo
    /\ rekey \in RekeyType
    /\ settled \in BOOLEAN
    /\ \A c \in Captures : path[c] = "none" <=> stage[c] \in {"unused", "asked", "gone"}
    /\ app = "down" => cryptor = NoKey /\ todo = {}

(* A finished capture is on the volume under one of its two names, through *)
(* any crash in a migration or a rotation: "a crash at any point leaves    *)
(* either the original or a verified replacement" (migrate_plaintext).     *)
ContentKept ==
    \A c \in Captures :
        stage[c] \in {"fetching", "done"} => pcap[c] # NoFile \/ enc[c] # NoFile

(* Unless a rotation stopped short, or passphrases were typed since,       *)
(* everything sealed is sealed under one key: "continuing would leave the  *)
(* existing captures unreadable while new ones were written under a        *)
(* different key" (_resolve).                                              *)
OneKeyPerVolume ==
    settled /\ rekey = NoRekey =>
        \A c, d \in Sealed : HeaderKey(c) = HeaderKey(d)

(* A rotation that reports success has every sealed capture under the new  *)
(* key, whatever earlier rotations left behind: "There is no 'mostly       *)
(* rotated'" (rekey_all).                                                  *)
RotationComplete ==
    [][rekey # NoRekey /\ rekey' = NoRekey /\ settled' =>
          \A c \in Sealed : HeaderKey(c) = rekey.new]_vars

-----------------------------------------------------------------------------
(* What comments of the code say and the code does not do                  *)

(* A capture is in the clear only if the operator asked for that when it   *)
(* was written: a locked vault never counts as encryption switched off     *)
(* (_refuse_while_locked).                                                 *)
NeverInTheClear ==
    \A c \in Captures : Clear \in {pcap[c], enc[c]} => written[c] = "off"

(* The file of a finished capture is where its row says: what the reader's *)
(* routes need after "sealed in place at the next start".                  *)
RowLeadsToFile ==
    \A c \in Captures : stage[c] = "done" => FileAt(c) # NoFile

(* A configured key the process comes up with opens every sealed capture:  *)
(* "the app will refuse to start against a mix it cannot fully open".      *)
MixRefused ==
    [][app = "down" /\ app' = "up" /\ mode' = "key" =>
          \A c \in Sealed : HeaderKey(c) = cryptor']_vars

(* The last attempt to be refused leaves the vault locked or with a key    *)
(* that opens what is stored: "that passphrase does not open the stored    *)
(* captures" comes after the key is put back (unlock).                     *)
RefusedLeavesNoWrongKey ==
    [][(\E u \in Unlockers : unlock[u].step = "refused")
          /\ (\A u \in Unlockers : unlock'[u] = Idle) /\ cryptor' # NoKey =>
          TRUE \in Verdicts(cryptor')]_vars

(* No file is sealed twice over: "guessing would risk double-sealing".     *)
SealedOnce ==
    \A c \in Captures : enc[c] # NoFile => Len(enc[c]) <= 1
=============================================================================
