-------------------------- MODULE TlsMaterial_proofs --------------------------
(***************************************************************************)
(* What TLAPS proves of TlsMaterial for every set of requests and of runs  *)
(* of the command line, any number of issuances, removals and processes    *)
(* killed.                                                                 *)
(***************************************************************************)
EXTENDS TlsMaterial, TLAPS

-----------------------------------------------------------------------------
(* The inductive invariant                                                 *)

(* Where a run can be: threads of the server run while it is up and the    *)
(* start, in the sweep's place, while it starts; the command line has no   *)
(* context to reload and removes nothing.                                  *)
StartSteps == {"startOpens", "startLoads"}
CommandSteps == {"idle", "asked", "lego", "keyed", "saving", "filing"}
InPlace(r) ==
    /\ r \in CliRuns => run[r].step \in CommandSteps
    /\ r \in ServerRuns /\ phase # "up" => run[r].step \in StartSteps \union {"idle"}
    /\ run[r].step \in StartSteps <=> r = Sweep /\ phase = "starting"

(* What it has: it asks for settings, and with its key lego has succeeded  *)
(* with them; the holder of the lock has the newest certificate, and the   *)
(* key on the volume is that one's.                                        *)
Owed(r) ==
    /\ run[r].step \in {"asked", "lego"} => run[r].for \in Settings
    /\ run[r].step \in {"keyed", "saving", "filing"} => run[r].for \in won
    /\ run[r].step \in {"reload", "opening", "loading", "loaded"} /\ run[r].saves =>
         run[r].for \in won
    /\ run[r].step = "keyed" => run[r].cert = issued /\ keyFile \in {0, issued}

(* What is stored is at least as new as what is served.                    *)
Newest ==
    /\ certFile # 0 => served.cert <= certFile
    /\ certFile <= issued /\ served.cert <= issued

Material ==
    /\ TypeOK
    /\ \A r \in Runs : InPlace(r) /\ Owed(r)
    /\ Newest /\ PairsMatch /\ SavedOnSuccess

-----------------------------------------------------------------------------
LEMMA RunKinds ==
    /\ \A r \in CliRuns : r \notin ServerRuns
    /\ \A r \in WebRuns : r # Sweep
    /\ Sweep \in ServerRuns /\ Sweep \notin CliRuns
    /\ NoRun \notin Runs
    /\ \A r \in Runs : r \in CliRuns \/ r \in ServerRuns
BY RunsAssumption DEF Runs, ServerRuns

LEMMA IdleRun == Idle \in RunType /\ Idle.step = "idle" /\ Idle.saves = FALSE
BY BoundsAssumption DEF Idle, RunType, Step, Issuance, MaybeSettings

LEMMA InitMaterial == Init => Material
<1> SUFFICES ASSUME Init
             PROVE  Material
  OBVIOUS
<1>1. 0 \in Issuance /\ NoContext \in [cert : Issuance, key : Issuance] /\ 0 \in 0..MaxRestarts
  BY BoundsAssumption DEF Issuance, NoContext
<1>2. TypeOK
  BY <1>1, IdleRun, RunKinds DEF Init, TypeOK, MaybeSettings
<1>3. \A r \in Runs : InPlace(r) /\ Owed(r)
  BY IdleRun DEF Init, InPlace, Owed, StartSteps, CommandSteps
<1>4. Newest /\ PairsMatch /\ SavedOnSuccess
  BY IdleRun DEF Init, Newest, PairsMatch, SavedOnSuccess, HasMaterial, NoContext
<1>5. QED
  BY <1>2, <1>3, <1>4 DEF Material

(* How a step changes the run it is of, and no other.                      *)
Only(r) == run' \in [Runs -> RunType] /\ \A q \in Runs \ {r} : run'[q] = run[q]
Keeps(r) == run'[r].for = run[r].for /\ run'[r].saves = run[r].saves

LEMMA StepChanges ==
    ASSUME TypeOK, NEW r \in Runs
    PROVE  /\ \A s \in Step : GoesTo(r, s) =>
                 Only(r) /\ Keeps(r) /\ run'[r].step = s /\ run'[r].cert = run[r].cert
           /\ Returns(r) => Only(r) /\ run'[r] = Idle
           /\ GoesOn(r) => Only(r) /\ IF run[r].saves THEN Keeps(r) /\ run'[r].step = "saving"
                                      ELSE run'[r] = Idle
           /\ \A s \in Step, g \in Issuance :
                 /\ run' = [run EXCEPT ![r].step = s, ![r].cert = g] =>
                      Only(r) /\ Keeps(r) /\ run'[r].step = s /\ run'[r].cert = g
                 /\ run' = [run EXCEPT ![r].step = s, ![r].key = g] =>
                      Only(r) /\ Keeps(r) /\ run'[r].step = s /\ run'[r].cert = run[r].cert
<1>1. run \in [Runs -> RunType]
  BY DEF TypeOK
<1>2. ASSUME NEW s \in Step, GoesTo(r, s)
      PROVE  Only(r) /\ Keeps(r) /\ run'[r].step = s /\ run'[r].cert = run[r].cert
  BY <1>1, <1>2 DEF GoesTo, Only, Keeps, RunType
<1>3. ASSUME Returns(r)
      PROVE  Only(r) /\ run'[r] = Idle
  BY <1>1, <1>3, IdleRun DEF Returns, Only
<1>4. ASSUME GoesOn(r)
      PROVE  Only(r) /\ IF run[r].saves THEN Keeps(r) /\ run'[r].step = "saving"
                        ELSE run'[r] = Idle
  <2>1. 0 \in Issuance /\ "saving" \in Step
    BY BoundsAssumption DEF Issuance, Step
  <2>2. QED
    BY <1>1, <1>4, <2>1, IdleRun DEF GoesOn, Only, Keeps, RunType
<1>5. ASSUME NEW s \in Step, NEW g \in Issuance,
             run' = [run EXCEPT ![r].step = s, ![r].cert = g]
      PROVE  Only(r) /\ Keeps(r) /\ run'[r].step = s /\ run'[r].cert = g
  BY <1>1, <1>5 DEF Only, Keeps, RunType
<1>6. ASSUME NEW s \in Step, NEW g \in Issuance,
             run' = [run EXCEPT ![r].step = s, ![r].key = g]
      PROVE  Only(r) /\ Keeps(r) /\ run'[r].step = s /\ run'[r].cert = run[r].cert
  BY <1>1, <1>6 DEF Only, Keeps, RunType
<1>7. QED
  BY <1>2, <1>3, <1>4, <1>5, <1>6

LEMMA StepNames == {"lego", "keyed", "reload", "opening", "loading", "loaded", "filing"} \subseteq Step
BY DEF Step

(* The other runs stay as they should be when nothing of theirs changes.   *)
LEMMA OthersStay ==
    ASSUME Material, NEW r \in Runs, Only(r), phase' = phase, won \subseteq won',
           \/ UNCHANGED <<issued, keyFile>>
           \/ UNCHANGED issued /\ keyFile' = 0
           \/ \A q \in Runs \ {r} : run[q].step # "keyed"
    PROVE  \A q \in Runs \ {r} : InPlace(q)' /\ Owed(q)'
BY DEF Material, Only, InPlace, Owed

-----------------------------------------------------------------------------
(* lego *)

LEMMA LegoKeeps ==
    ASSUME Material, NEW r \in Runs,
           LegoBegins(r) \/ LegoFails(r) \/ KeyPlaced(r) \/ CertPlaced(r)
    PROVE  Material'
<1> USE DEF files, stored, process, context, history
<1>0. TypeOK /\ InPlace(r) /\ Owed(r) /\ run[r] \in RunType
  BY DEF Material, TypeOK
<1>1. CASE LegoBegins(r) /\ flock = NoRun
  <2>1. /\ Only(r) /\ Keeps(r) /\ run'[r].step = "lego" /\ flock' = r
        /\ run[r].step = "asked" /\ UNCHANGED <<files, stored, process, context, recent, history>>
    BY <1>0, <1>1, StepChanges, StepNames DEF LegoBegins
  <2>2. \A q \in Runs \ {r} : InPlace(q)' /\ Owed(q)'
    BY <2>1, OthersStay
  <2>3. InPlace(r)' /\ Owed(r)'
    BY <1>0, <2>1 DEF InPlace, Owed, StartSteps, CommandSteps, Keeps
  <2>4. TypeOK'
    BY <1>0, <1>1, <2>1, RunKinds DEF TypeOK, Only
  <2>5. Newest' /\ PairsMatch' /\ SavedOnSuccess'
    BY <2>1 DEF Material, Only, Newest, PairsMatch, SavedOnSuccess, HasMaterial
  <2>6. QED
    BY <2>2, <2>3, <2>4, <2>5 DEF Material
<1>2. CASE \/ LegoBegins(r) /\ flock # NoRun
           \/ LegoFails(r)
  <2>1. /\ Only(r) /\ run'[r] = Idle
        /\ \/ run[r].step = "asked" /\ flock' = flock /\ recent' = recent
           \/ run[r].step = "lego" /\ flock' = NoRun /\ recent' = (recent \/ r \in ServerRuns)
        /\ UNCHANGED <<files, stored, process, context, history>>
    BY <1>0, <1>2, StepChanges DEF LegoBegins, LegoFails
  <2>2. \A q \in Runs \ {r} : InPlace(q)' /\ Owed(q)'
    BY <2>1, OthersStay
  <2>3. InPlace(r)' /\ Owed(r)'
    BY <1>0, <2>1, IdleRun DEF InPlace, Owed, StartSteps, CommandSteps
  <2>4. TypeOK'
    BY <1>0, <2>1, RunKinds, IdleRun DEF TypeOK, Only
  <2>5. Newest' /\ PairsMatch' /\ SavedOnSuccess'
    BY <2>1 DEF Material, Only, Newest, PairsMatch, SavedOnSuccess, HasMaterial
  <2>6. QED
    BY <2>2, <2>3, <2>4, <2>5 DEF Material
<1>3. CASE KeyPlaced(r)
  <2>0. issued \in Issuance /\ issued + 1 \in Issuance /\ flock = r /\ run[r].for \in Settings
        /\ \A q \in Runs \ {r} : run[q].step # "keyed"
    BY <1>0, <1>3, BoundsAssumption DEF KeyPlaced, TypeOK, Owed, Issuance
  <2>1. /\ Only(r) /\ Keeps(r) /\ run'[r].step = "keyed" /\ run'[r].cert = issued + 1
        /\ run[r].step = "lego" /\ issued' = issued + 1 /\ keyFile' = issued + 1
        /\ won' = won \union {run[r].for}
        /\ UNCHANGED <<certFile, stored, flock, process, context, recent, due, torn, restarts>>
    <3>1. run' = [run EXCEPT ![r].step = "keyed", ![r].cert = issued + 1]
      BY <1>3 DEF KeyPlaced
    <3>2. "keyed" \in Step
      BY StepNames
    <3>3. Only(r) /\ Keeps(r) /\ run'[r].step = "keyed" /\ run'[r].cert = issued + 1
      BY <1>0, <2>0, <3>1, <3>2, StepChanges
    <3>4. QED
      BY <1>3, <3>3 DEF KeyPlaced
  <2>2. \A q \in Runs \ {r} : InPlace(q)' /\ Owed(q)'
    BY <2>0, <2>1, OthersStay
  <2>3. InPlace(r)' /\ Owed(r)'
    BY <1>0, <2>1 DEF InPlace, Owed, StartSteps, CommandSteps, Keeps
  <2>4. TypeOK'
    BY <1>0, <2>0, <2>1, RunKinds DEF TypeOK, Only
  <2>5. Newest' /\ PairsMatch' /\ SavedOnSuccess'
    BY <1>0, <2>0, <2>1 DEF Material, Only, Newest, PairsMatch, SavedOnSuccess, HasMaterial, TypeOK, Issuance
  <2>6. QED
    BY <2>2, <2>3, <2>4, <2>5 DEF Material
<1>4. CASE CertPlaced(r)
  <2>0. run[r].cert \in Issuance /\ flock = r /\ \A q \in Runs \ {r} : run[q].step # "keyed"
    BY <1>0, <1>4 DEF CertPlaced, TypeOK, RunType
  <2>1. /\ Only(r)
        /\ \/ r \in ServerRuns /\ Keeps(r) /\ run'[r].step = "reload"
           \/ r \notin ServerRuns /\ run[r].saves /\ Keeps(r) /\ run'[r].step = "saving"
           \/ r \notin ServerRuns /\ ~run[r].saves /\ run'[r] = Idle
        /\ run[r].step = "keyed" /\ certFile' = run[r].cert /\ flock' = NoRun
        /\ torn' = FALSE /\ due' = FALSE /\ recent' = (recent /\ r \notin ServerRuns)
        /\ UNCHANGED <<keyFile, stored, process, context, issued, won, restarts>>
    <3>1. 0 \in Issuance
      BY BoundsAssumption DEF Issuance
    <3>2. QED
      BY <1>0, <1>4, <3>1, StepChanges, StepNames DEF CertPlaced
  <2>2. \A q \in Runs \ {r} : InPlace(q)' /\ Owed(q)'
    BY <2>0, <2>1, OthersStay
  <2>3. InPlace(r)' /\ Owed(r)'
    BY <1>0, <2>1, IdleRun, RunKinds DEF InPlace, Owed, StartSteps, CommandSteps, Keeps
  <2>4. TypeOK'
    BY <1>0, <2>0, <2>1, RunKinds, IdleRun DEF TypeOK, Only
  <2>5. Newest' /\ PairsMatch' /\ SavedOnSuccess'
    BY <1>0, <2>0, <2>1 DEF Material, Newest, PairsMatch, SavedOnSuccess, HasMaterial, TypeOK, Issuance, Owed
  <2>6. QED
    BY <2>2, <2>3, <2>4, <2>5 DEF Material
<1>5. QED
  BY <1>1, <1>2, <1>3, <1>4 DEF LegoBegins

-----------------------------------------------------------------------------
(* Reloading                                                               *)

LEMMA ReloadKeeps ==
    ASSUME Material, NEW r \in Runs,
           ReloadLooks(r) \/ ReloadOpens(r) \/ ReloadLoads(r) \/ ReloadSettles(r)
    PROVE  Material'
<1> USE DEF files, stored, process, context, history
<1>0. /\ TypeOK /\ InPlace(r) /\ Owed(r) /\ run[r] \in RunType
      /\ certFile \in Issuance /\ keyFile \in Issuance /\ run[r].cert \in Issuance
      /\ run[r].key \in Issuance /\ 0 \in Issuance
  BY BoundsAssumption DEF Material, TypeOK, RunType, Issuance
(* Everything but the context.                                             *)
<1>1. /\ Only(r)
      /\ \/ run'[r] = Idle
         \/ Keeps(r) /\ run'[r].step \in {"opening", "loading", "loaded"}
         \/ run[r].saves /\ Keeps(r) /\ run'[r].step = "saving"
      /\ run[r].step \in {"reload", "opening", "loading", "loaded"}
      /\ UNCHANGED <<files, stored, flock, process, recent, history>>
  <2>1. CASE ReloadLooks(r)
    BY <1>0, <2>1, StepChanges, StepNames DEF ReloadLooks
  <2>2. CASE ReloadOpens(r)
    BY <1>0, <2>2, StepChanges, StepNames DEF ReloadOpens
  <2>3. CASE ReloadLoads(r)
    BY <1>0, <2>3, StepChanges, StepNames DEF ReloadLoads
  <2>4. CASE ReloadSettles(r)
    BY <1>0, <2>4, StepChanges, StepNames DEF ReloadSettles
  <2>5. QED
    BY <2>1, <2>2, <2>3, <2>4
<1>2. r \in ServerRuns /\ phase = "up"
  BY <1>0, <1>1, RunKinds DEF InPlace, StartSteps, CommandSteps
<1>3. /\ served' = served \/ (served'.cert = certFile /\ served' \in [cert : Issuance, key : Issuance])
      /\ loaded' \in Issuance
  <2>1. CASE ReloadLoads(r)
    BY <1>0, <2>1 DEF ReloadLoads, TypeOK
  <2>2. CASE ~ReloadLoads(r)
    BY <1>0, <2>2 DEF ReloadLooks, ReloadOpens, ReloadSettles, TypeOK
  <2>3. QED
    BY <2>1, <2>2
<1>4. \A q \in Runs \ {r} : InPlace(q)' /\ Owed(q)'
  BY <1>1, OthersStay
<1>5. InPlace(r)' /\ Owed(r)'
  BY <1>0, <1>1, <1>2, RunKinds, IdleRun DEF InPlace, Owed, StartSteps, Keeps
<1>6. TypeOK'
  BY <1>0, <1>1, <1>2, <1>3, RunKinds, IdleRun DEF TypeOK, Only
<1>7. Newest' /\ PairsMatch' /\ SavedOnSuccess'
  BY <1>0, <1>1, <1>3 DEF Material, Newest, PairsMatch, SavedOnSuccess, HasMaterial, Only, Issuance
<1>8. QED
  BY <1>4, <1>5, <1>6, <1>7 DEF Material

-----------------------------------------------------------------------------
(* Saving and removing                                                     *)

LEMMA SavingKeeps ==
    ASSUME Material, NEW r \in Runs, SaveConfig(r) \/ SaveCredentials(r)
    PROVE  Material'
<1> USE DEF files, stored, process, context, history
<1>0. TypeOK /\ InPlace(r) /\ Owed(r) /\ run[r] \in RunType /\ run[r].for \in won /\ won \subseteq Settings
  BY DEF Material, TypeOK, Owed, SaveConfig, SaveCredentials
<1>1. /\ Only(r)
      /\ run'[r] = Idle \/ (Keeps(r) /\ run'[r].step = "filing")
      /\ run[r].step \in {"saving", "filing"}
      /\ config' \in {config, run[r].for} /\ creds' \in {creds, run[r].for}
      /\ UNCHANGED <<files, flock, process, context, recent, history>>
  <2>1. CASE SaveConfig(r)
    <3>1. Only(r) /\ Keeps(r) /\ run'[r].step = "filing"
      BY <1>0, <2>1, StepChanges, StepNames DEF SaveConfig
    <3>2. QED
      BY <2>1, <3>1 DEF SaveConfig
  <2>2. CASE SaveCredentials(r)
    <3>1. Only(r) /\ run'[r] = Idle
      BY <1>0, <2>2, StepChanges DEF SaveCredentials
    <3>2. QED
      BY <2>2, <3>1 DEF SaveCredentials
  <2>3. QED
    BY <2>1, <2>2
<1>2. \A q \in Runs \ {r} : InPlace(q)' /\ Owed(q)'
  BY <1>1, OthersStay
<1>3. InPlace(r)' /\ Owed(r)'
  BY <1>0, <1>1, RunKinds, IdleRun DEF InPlace, Owed, StartSteps, CommandSteps, Keeps
<1>4. TypeOK'
  BY <1>0, <1>1, RunKinds, IdleRun DEF TypeOK, Only, MaybeSettings
<1>5. Newest' /\ PairsMatch' /\ SavedOnSuccess'
  BY <1>0, <1>1 DEF Material, Newest, PairsMatch, SavedOnSuccess, HasMaterial, Only
<1>6. QED
  BY <1>2, <1>3, <1>4, <1>5 DEF Material

LEMMA RemoveUnlinksKeeps ==
    ASSUME Material, NEW r \in Runs, RemoveUnlinks(r)
    PROVE  Material'
<1> USE DEF files, stored, process, context, history
<1>0. TypeOK /\ InPlace(r) /\ Owed(r) /\ run[r] \in RunType /\ 0 \in Issuance
  BY BoundsAssumption DEF Material, TypeOK, Issuance
<1>1. /\ Only(r)
      /\ run'[r] = Idle \/ (Keeps(r) /\ run'[r].step \in {"unlinkKey", "unlinkCreds", "unlinkConfig"})
      /\ run[r].step \in {"unlinkCert", "unlinkKey", "unlinkCreds", "unlinkConfig"}
      /\ keyFile' \in {keyFile, 0} /\ certFile' \in {certFile, 0}
      /\ config' \in {config, NoSettings} /\ creds' \in {creds, NoSettings} /\ due' \in {due, FALSE}
      /\ UNCHANGED <<flock, process, context, recent, issued, won, torn, restarts>>
  <2>1. {"unlinkKey", "unlinkCreds", "unlinkConfig"} \subseteq Step
    BY DEF Step
  <2>2. /\ run[r].step = "unlinkCert" => GoesTo(r, "unlinkKey")
        /\ run[r].step = "unlinkKey" => GoesTo(r, "unlinkCreds")
        /\ run[r].step = "unlinkCreds" => GoesTo(r, "unlinkConfig")
        /\ run[r].step = "unlinkConfig" => Returns(r)
        /\ run[r].step \in {"unlinkCert", "unlinkKey", "unlinkCreds", "unlinkConfig"}
    BY DEF RemoveUnlinks
  <2>3. /\ Only(r)
        /\ \/ run'[r] = Idle
           \/ Keeps(r) /\ run'[r].step \in {"unlinkKey", "unlinkCreds", "unlinkConfig"}
    <3>1. CASE run[r].step = "unlinkConfig"
      BY <1>0, <2>2, <3>1, StepChanges
    <3>2. CASE run[r].step # "unlinkConfig"
      <4>1. PICK s \in {"unlinkKey", "unlinkCreds", "unlinkConfig"} : GoesTo(r, s)
        BY <2>2, <3>2
      <4>2. s \in Step
        BY <2>1
      <4>3. QED
        BY <1>0, <4>1, <4>2, StepChanges
    <3>3. QED
      BY <3>1, <3>2
  <2>4. QED
    BY <2>2, <2>3 DEF RemoveUnlinks
<1>2. \A q \in Runs \ {r} : InPlace(q)' /\ Owed(q)'
  BY <1>1, OthersStay
<1>3. InPlace(r)' /\ Owed(r)'
  BY <1>0, <1>1, RunKinds, IdleRun DEF InPlace, Owed, StartSteps, CommandSteps, Keeps
<1>4. TypeOK'
  <2>1. due' \in BOOLEAN
    BY <1>0, <1>1 DEF TypeOK
  <2>2. run'[r].step \notin {"lego", "keyed"} /\ run[r].step \notin {"lego", "keyed"}
    BY <1>1, IdleRun
  <2>3. QED
    BY <1>0, <1>1, <2>1, <2>2, RunKinds DEF TypeOK, Only, MaybeSettings
<1>5. Newest' /\ PairsMatch' /\ SavedOnSuccess'
  BY <1>0, <1>1 DEF Material, Newest, PairsMatch, SavedOnSuccess, HasMaterial, Only, TypeOK, Issuance
<1>6. QED
  BY <1>2, <1>3, <1>4, <1>5 DEF Material

LEMMA RunStepsKeep ==
    ASSUME Material, NEW r \in Runs, RunSteps(r)
    PROVE  Material'
BY LegoKeeps, ReloadKeeps, SavingKeeps, RemoveUnlinksKeeps DEF RunSteps

-----------------------------------------------------------------------------
(* Asking                                                                  *)

(* A run that begins, one of the server while that is up.                  *)
LEMMA BeginsKeeps ==
    ASSUME Material, NEW r \in Runs, phase = "up", run[r].step = "idle", NEW new \in RunType,
           run' = [run EXCEPT ![r] = new],
           \/ new.step = "asked" /\ new.for \in Settings
           \/ r \in ServerRuns /\ new.step = "reload" /\ ~new.saves
           \/ r \in ServerRuns /\ new.step = "unlinkCert",
           UNCHANGED <<files, stored, flock, process, context, recent, history>>
    PROVE  Material'
<1> USE DEF files, stored, process, context, history
<1>0. TypeOK /\ InPlace(r) /\ Owed(r)
  BY DEF Material
<1>1. Only(r) /\ run'[r] = new
  BY <1>0 DEF TypeOK, Only
<1>2. \A q \in Runs \ {r} : InPlace(q)' /\ Owed(q)'
  BY <1>1, OthersStay
<1>3. InPlace(r)' /\ Owed(r)'
  BY <1>0, <1>1, RunKinds DEF InPlace, Owed, StartSteps, CommandSteps
<1>4. TypeOK'
  BY <1>0, <1>1, RunKinds DEF TypeOK, Only
<1>5. Newest' /\ PairsMatch' /\ SavedOnSuccess'
  BY <1>0, <1>1 DEF Material, Newest, PairsMatch, SavedOnSuccess, HasMaterial, Only
<1>6. QED
  BY <1>2, <1>3, <1>4, <1>5 DEF Material

LEMMA RenewsMeans ==
    ASSUME TypeOK, NEW r \in Runs, Renews(r)
    PROVE  \E new \in RunType : /\ run' = [run EXCEPT ![r] = new]
                                /\ new.step = "asked" /\ new.for \in Settings
<1> DEFINE new == [Idle EXCEPT !.step = "asked", !.for = config]
<1>1. config \in Settings
  BY DEF Renews, TypeOK, MaybeSettings
<1>2. new \in RunType /\ new.step = "asked" /\ new.for = config
  BY <1>1, IdleRun DEF RunType, Step, MaybeSettings
<1>3. QED
  BY <1>1, <1>2 DEF Renews

LEMMA AskingKeeps ==
    ASSUME Material,
           \/ \E r \in WebRuns \union CliRuns, s \in Settings : AskIssue(r, s)
           \/ \E r \in WebRuns \union CliRuns : AskRenew(r)
           \/ SweepLooks
           \/ \E r \in WebRuns : RemoveBegins(r)
    PROVE  Material'
<1>0. TypeOK /\ WebRuns \union CliRuns \subseteq Runs /\ WebRuns \subseteq ServerRuns /\ Sweep \in Runs
  BY DEF Material, Runs, ServerRuns
<1>1. ASSUME NEW r \in WebRuns \union CliRuns, NEW s \in Settings, AskIssue(r, s)
      PROVE  Material'
  <2> DEFINE new == [Idle EXCEPT !.step = "asked", !.for = s, !.saves = TRUE]
  <2>1. new \in RunType /\ new.step = "asked" /\ new.for = s
    BY IdleRun DEF RunType, Step, MaybeSettings
  <2>2. QED
    BY <1>0, <1>1, <2>1, BeginsKeeps DEF AskIssue, MayBegin
<1>2. ASSUME NEW r \in WebRuns \union CliRuns, AskRenew(r)
      PROVE  Material'
  BY <1>0, <1>2, RenewsMeans, BeginsKeeps DEF AskRenew, MayBegin
<1>3. CASE SweepLooks
  <2>1. CASE due
    BY <1>0, <1>3, <2>1, RenewsMeans, BeginsKeeps DEF SweepLooks, MayBegin
  <2>2. CASE ~due
    <3> DEFINE new == [Idle EXCEPT !.step = "reload"]
    <3>1. new \in RunType /\ new.step = "reload" /\ ~new.saves
      BY IdleRun DEF RunType, Step
    <3>2. QED
      BY <1>0, <1>3, <2>2, <3>1, RunKinds, BeginsKeeps DEF SweepLooks, MayBegin
  <2>3. QED
    BY <2>1, <2>2
<1>4. ASSUME NEW r \in WebRuns, RemoveBegins(r)
      PROVE  Material'
  <2> DEFINE new == [run[r] EXCEPT !.step = "unlinkCert"]
  <2>1. new \in RunType /\ new.step = "unlinkCert"
    BY <1>0 DEF TypeOK, RunType, Step
  <2>2. run' = [run EXCEPT ![r] = new]
    BY <1>0, <1>4 DEF RemoveBegins, GoesTo, TypeOK
  <2>3. QED
    BY <1>0, <1>4, <2>1, <2>2, BeginsKeeps DEF RemoveBegins, MayBegin
<1>5. QED
  BY <1>1, <1>2, <1>3, <1>4

-----------------------------------------------------------------------------
(* Starting                                                                *)

LEMMA StartKeeps ==
    ASSUME Material, Start
    PROVE  Material'
<1> USE DEF files, stored, process, context, history
<1>0. /\ TypeOK /\ InPlace(Sweep) /\ Owed(Sweep) /\ run[Sweep] \in RunType /\ Sweep \in Runs
      /\ certFile \in Issuance /\ keyFile \in Issuance /\ run[Sweep].key \in Issuance
      /\ run[Sweep].cert \in Issuance
  BY DEF Material, TypeOK, Runs, ServerRuns, RunType
<1>1. ASSUME NEW m \in Modes, StartLooks(m), HasMaterial /\ m = "key"
      PROVE  Material'
  <2> DEFINE new == [Idle EXCEPT !.step = "startOpens", !.cert = certFile]
  <2>1. new \in RunType /\ new.step = "startOpens"
    BY <1>0, IdleRun DEF RunType, Step
  <2>2. /\ Only(Sweep) /\ run'[Sweep].step = "startOpens" /\ run[Sweep].step = "idle"
        /\ phase = "down" /\ phase' = "starting" /\ mode' = m /\ restart' = FALSE
        /\ UNCHANGED <<files, stored, flock, context, recent, history>>
    BY <1>0, <1>1, <2>1, RunKinds DEF StartLooks, Only, TypeOK, InPlace, StartSteps
  <2>3. \A q \in Runs : InPlace(q)' /\ Owed(q)'
    BY <1>0, <2>2, RunKinds DEF Material, Only, InPlace, Owed, StartSteps
  <2>4. TypeOK'
    BY <1>0, <2>2 DEF TypeOK, Only
  <2>5. Newest' /\ PairsMatch' /\ SavedOnSuccess'
    BY <1>0, <2>2 DEF Material, Newest, PairsMatch, SavedOnSuccess, HasMaterial, Only
  <2>6. QED
    BY <2>3, <2>4, <2>5 DEF Material
<1>2. ASSUME NEW m \in Modes, StartLooks(m), ~(HasMaterial /\ m = "key")
      PROVE  Material'
  <2>1. /\ run' = run /\ phase = "down" /\ phase' = "up" /\ mode' = m /\ restart' = FALSE
        /\ UNCHANGED <<files, stored, flock, context, recent, history>>
    BY <1>2 DEF StartLooks
  <2>2. \A q \in Runs : InPlace(q)' /\ Owed(q)'
    BY <2>1 DEF Material, InPlace, Owed
  <2>3. TypeOK'
    BY <1>0, <2>1 DEF TypeOK
  <2>4. Newest' /\ PairsMatch' /\ SavedOnSuccess'
    BY <2>1 DEF Material, Newest, PairsMatch, SavedOnSuccess, HasMaterial
  <2>5. QED
    BY <2>2, <2>3, <2>4 DEF Material
<1>3. CASE StartOpens /\ keyFile # 0
  <2>1. run' = [run EXCEPT ![Sweep].step = "startLoads", ![Sweep].key = keyFile]
        /\ "startLoads" \in Step
    BY <1>3 DEF StartOpens, Step
  <2>2. Only(Sweep) /\ run'[Sweep].step = "startLoads"
    BY <1>0, <2>1, StepChanges
  <2>3. /\ run[Sweep].step = "startOpens"
        /\ UNCHANGED <<files, stored, flock, phase, mode, restart, context, recent, history>>
    BY <1>3 DEF StartOpens
  <2>4. \A q \in Runs : InPlace(q)' /\ Owed(q)'
    BY <1>0, <2>2, <2>3 DEF Material, Only, InPlace, Owed, StartSteps, CommandSteps
  <2>5. TypeOK'
    BY <1>0, <2>2, <2>3 DEF TypeOK, Only
  <2>6. Newest' /\ PairsMatch' /\ SavedOnSuccess'
    BY <2>2, <2>3 DEF Material, Newest, PairsMatch, SavedOnSuccess, HasMaterial, Only
  <2>7. QED
    BY <2>4, <2>5, <2>6 DEF Material
<1>4. CASE (StartOpens /\ keyFile = 0) \/ StartLoads
  <2>1. /\ Only(Sweep) /\ run'[Sweep] = Idle /\ run[Sweep].step \in StartSteps
        /\ \/ phase' = "up" /\ UNCHANGED context
           \/ phase' = "down" /\ UNCHANGED context
           \/ phase' = "up" /\ served' = [cert |-> certFile, key |-> certFile]
              /\ loaded' = run[Sweep].cert
        /\ UNCHANGED <<files, stored, flock, mode, restart, recent, history>>
    <3>1. Returns(Sweep)
      BY <1>4 DEF StartOpens, StartLoads
    <3>2. Only(Sweep) /\ run'[Sweep] = Idle
      BY <1>0, <3>1, StepChanges
    <3>3. QED
      BY <1>4, <3>2 DEF StartOpens, StartLoads, StartSteps
  <2>2. phase = "starting" /\ served = NoContext
    BY <1>0, <2>1 DEF InPlace, TypeOK
  <2>3. \A q \in Runs : InPlace(q)' /\ Owed(q)'
    BY <1>0, <2>1, <2>2, IdleRun, RunKinds DEF Material, Only, InPlace, Owed, StartSteps
  <2>4. TypeOK'
    BY <1>0, <2>1, <2>2, IdleRun DEF TypeOK, Only, StartSteps
  <2>5. Newest' /\ PairsMatch' /\ SavedOnSuccess'
    BY <1>0, <2>1 DEF Material, Newest, PairsMatch, SavedOnSuccess, HasMaterial, Only, StartSteps, Issuance
  <2>6. QED
    BY <2>3, <2>4, <2>5 DEF Material
<1>5. QED
  BY <1>1, <1>2, <1>3, <1>4 DEF Start, StartOpens

-----------------------------------------------------------------------------
(* Ending                                                                  *)

(* What goes with a process: its runs, its lock, and who has placed a key  *)
(* and no certificate leaves a torn pair.                                  *)
LEMMA GoneKeeps ==
    ASSUME Material, NEW S \in SUBSET Runs, Gone(S),
           \/ phase' = phase /\ UNCHANGED context /\ S \subseteq CliRuns
           \/ phase' = "down" /\ served' = NoContext /\ loaded' = 0 /\ ServerRuns \subseteq S,
           recent' \in BOOLEAN, restart' \in BOOLEAN, restarts' \in 0..MaxRestarts,
           UNCHANGED <<files, stored, mode, issued, due, won>>
    PROVE  Material'
<1> USE DEF files, stored, process, context, history
<1>0. TypeOK /\ 0 \in Issuance
  BY BoundsAssumption DEF Material, TypeOK, Issuance
<1>1. /\ run' \in [Runs -> RunType]
      /\ \A r \in S : run'[r] = Idle
      /\ \A r \in Runs \ S : run'[r] = run[r]
  BY <1>0, IdleRun DEF Gone, TypeOK
<1>2. \A q \in Runs : InPlace(q)' /\ Owed(q)'
  <2>1. ASSUME NEW q \in S PROVE InPlace(q)' /\ Owed(q)'
    <3>1. InPlace(q) /\ q \in Runs
      BY DEF Material
    <3>2. QED
      BY <1>1, <2>1, <3>1, IdleRun, RunKinds DEF InPlace, Owed, StartSteps, CommandSteps
  <2>2. ASSUME NEW q \in Runs \ S PROVE InPlace(q)' /\ Owed(q)'
    BY <1>1, <2>2, RunKinds DEF Material, InPlace, Owed, StartSteps, CommandSteps
  <2>3. QED
    BY <2>1, <2>2
<1>3. TypeOK'
  <2>1. flock' \in Runs \union {NoRun} /\ torn' \in BOOLEAN
    BY <1>0 DEF Gone, TypeOK
  <2>2. \A r \in Runs : run'[r].step \in {"lego", "keyed"} <=> flock' = r
    BY <1>0, <1>1, IdleRun, RunKinds DEF Gone, TypeOK
  <2>3. /\ served' \in [cert : Issuance, key : Issuance] /\ loaded' \in Issuance
        /\ phase' \in {"down", "starting", "up"} /\ (phase' # "up" => served' = NoContext)
    BY <1>0 DEF TypeOK, NoContext
  <2>4. QED
    BY <1>0, <1>1, <2>1, <2>2, <2>3 DEF TypeOK
<1>4. Newest' /\ SavedOnSuccess'
  BY <1>0 DEF Material, Newest, SavedOnSuccess, NoContext, TypeOK, Issuance
<1>5. PairsMatch'
  BY <1>1 DEF Material, PairsMatch, HasMaterial, Gone
<1>6. QED
  BY <1>2, <1>3, <1>4, <1>5 DEF Material

LEMMA EndingKeeps ==
    ASSUME Material, Crash \/ RestartHappens \/ (\E r \in CliRuns : CliKilled(r))
    PROVE  Material'
<1>0. /\ {recent, restart} \subseteq BOOLEAN /\ restarts \in 0..MaxRestarts
      /\ ServerRuns \subseteq Runs /\ CliRuns \subseteq Runs
  BY DEF Material, TypeOK, Runs
<1>1. CASE Crash
  <2>1. restarts' \in 0..MaxRestarts
    BY <1>0, <1>1, BoundsAssumption DEF Crash
  <2>2. QED
    BY <1>0, <1>1, <2>1, GoneKeeps DEF Crash, Ends
<1>2. CASE RestartHappens
  BY <1>0, <1>2, GoneKeeps DEF RestartHappens, Ends
<1>3. ASSUME NEW r \in CliRuns, CliKilled(r)
      PROVE  Material'
  <2>1. restarts' \in 0..MaxRestarts
    BY <1>0, <1>3, BoundsAssumption DEF CliKilled
  <2>2. {r} \subseteq CliRuns /\ {r} \in SUBSET Runs
    BY <1>0
  <2>3. QED
    BY <1>0, <1>3, <2>1, <2>2, GoneKeeps DEF CliKilled, process
<1>4. QED
  BY <1>1, <1>2, <1>3

(* Nothing moves but the flags of the clock and of the operator.           *)
LEMMA FlagsKeep ==
    ASSUME Material, UNCHANGED <<files, stored, flock, run, phase, mode, context, issued, won, torn, restarts>>,
           {restart', recent', due'} \subseteq BOOLEAN
    PROVE  Material'
<1> USE DEF files, stored, context
<1>1. \A q \in Runs : InPlace(q)' /\ Owed(q)'
  BY DEF Material, InPlace, Owed
<1>2. TypeOK'
  BY DEF Material, TypeOK
<1>3. Newest' /\ PairsMatch' /\ SavedOnSuccess'
  BY DEF Material, Newest, PairsMatch, SavedOnSuccess, HasMaterial
<1>4. QED
  BY <1>1, <1>2, <1>3 DEF Material

-----------------------------------------------------------------------------
(* The theorems                                                            *)

LEMMA MaterialStep == Material /\ [Next]_vars => Material'
<1> SUFFICES ASSUME Material, [Next]_vars
             PROVE  Material'
  OBVIOUS
<1>0. {recent, restart, due} \subseteq BOOLEAN
  BY DEF Material, TypeOK
<1>1. CASE \E r \in Runs : RunSteps(r)
  BY <1>1, RunStepsKeep
<1>2. CASE RestartAsked \/ ComesDue \/ BackoffPasses \/ UNCHANGED vars
  BY <1>0, <1>2, FlagsKeep
     DEF RestartAsked, ComesDue, BackoffPasses, vars, process, history
<1>3. QED
  BY <1>1, <1>2, StartKeeps, AskingKeeps, EndingKeeps DEF Next

(* Material is inductive.                                                  *)
THEOREM MaterialInvariant == Spec => []Material
BY InitMaterial, MaterialStep, PTL DEF Spec

(* TypeOK, with the lock: whoever runs lego or has placed a key alone      *)
(* holds it, across processes that die.                                    *)
THEOREM MaterialTypeCorrect == Spec => []TypeOK
BY MaterialInvariant, PTL DEF Material

(* PairsMatch: however issues, renewals, removals, restarts and kills      *)
(* interleave, a stored pair that does not match is being replaced or was  *)
(* torn by a process that died between its two files.                      *)
THEOREM PairsMatchHolds == Spec => []PairsMatch
BY MaterialInvariant, PTL DEF Material

(* SavedOnSuccess: no run that failed leaves its settings or credentials.  *)
THEOREM SavedOnSuccessHolds == Spec => []SavedOnSuccess
BY MaterialInvariant, PTL DEF Material

(* ServedNeverOlder: no reload puts an older certificate into the context, *)
(* whoever replaced or removed the files while it looked.                  *)
THEOREM ServedNeverOlderHolds == Spec => ServedNeverOlder
<1>1. ASSUME Material, [Next]_vars
      PROVE  served.cert # 0 /\ served'.cert # 0 => served'.cert >= served.cert
  <2>0. TypeOK /\ served.cert \in Nat /\ Newest
    BY <1>1 DEF Material, TypeOK, Issuance
  <2>1. CASE served' = served
    BY <2>0, <2>1
  <2>2. CASE served' # served
    <3>1. served' = NoContext \/ served = NoContext \/ served'.cert = certFile
      <4>1. CASE \E r \in Runs : RunSteps(r)
        BY <1>1, <2>2, <4>1
           DEF RunSteps, LegoBegins, LegoFails, KeyPlaced, CertPlaced, ReloadLooks, ReloadOpens,
               ReloadLoads, ReloadSettles, SaveConfig, SaveCredentials, RemoveUnlinks, context
      <4>2. CASE Start
        BY <1>1, <2>2, <4>2 DEF Start, StartLooks, StartOpens, StartLoads, context
      <4>3. CASE Crash \/ RestartHappens
        BY <4>3 DEF Crash, RestartHappens, Ends
      <4>4. QED
        BY <1>1, <2>2, <4>1, <4>2, <4>3
           DEF Next, AskIssue, AskRenew, SweepLooks, RemoveBegins, CliKilled, RestartAsked,
               ComesDue, BackoffPasses, context, vars
    <3>2. QED
      BY <2>0, <3>1 DEF Newest, NoContext
  <2>3. QED
    BY <2>1, <2>2
<1>2. QED
  BY <1>1, MaterialInvariant, PTL DEF Spec, ServedNeverOlder
=============================================================================
