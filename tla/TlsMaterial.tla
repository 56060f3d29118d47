---------------------------- MODULE TlsMaterial ----------------------------
(***************************************************************************)
(* Built-in HTTPS (backend/tls/manager.py, store.py, lego.py, routes.py,   *)
(* cli.py and backend/serve.py).                                           *)
(*                                                                         *)
(* Four files: the sealed private key, the certificate, the settings and   *)
(* the DNS credentials.  They are written by requests of administrators in *)
(* worker threads, by the hourly sweep in another, and by the command line *)
(* program in a process of its own.  A file lock lets one of them run lego *)
(* at a time; the threads of the server also share a lock in memory, which *)
(* is held by exactly those of them that hold the file lock.  Reading the  *)
(* files, saving the settings and removing everything take no lock.        *)
(*                                                                         *)
(* A certificate and its key are the number of the issuance they come      *)
(* from, 0 where there is none.  Settings stand for a domain together with *)
(* its DNS provider.  Left out: the contents of certificates, the checks   *)
(* of settings and of lego's output (a bad answer is a failed run).        *)
(***************************************************************************)
EXTENDS Naturals, FiniteSets

CONSTANTS
    WebRuns,     \* requests of administrators, each a worker thread
    Sweep,       \* the hourly housekeeping pass
    CliRuns,     \* runs of python -m backend.tls
    Settings,    \* a domain and the provider of its DNS
    NoSettings,
    Modes,       \* key sources the operator restarts into
    NoRun,
    MaxIssued,   \* bound on certificates issued
    MaxRestarts  \* bound on processes killed

ASSUME RunsAssumption ==
    /\ Sweep \notin WebRuns \union CliRuns
    /\ WebRuns \intersect CliRuns = {}
    /\ NoRun \notin WebRuns \union CliRuns \union {Sweep}
ASSUME SettingsAssumption == NoSettings \notin Settings
ASSUME ModesAssumption == Modes \subseteq {"off", "key", "passphrase"}
ASSUME BoundsAssumption == MaxIssued \in Nat /\ MaxRestarts \in Nat

VARIABLES
    keyFile,   \* the sealed key on the volume
    certFile,  \* the certificate on the volume
    config,    \* the stored settings
    creds,     \* the settings the stored credentials are for
    flock,     \* the run that holds the issuance lock
    run,       \* where each run stands
    phase,     \* the server: down, starting or up
    mode,      \* the key source of this container
    served,    \* the TLS context: its certificate and its key
    loaded,    \* _loaded_fingerprint
    recent,    \* _last_failure lies less than RENEW_RETRY_AFTER back
    restart,   \* restart_requested
    issued,    \* certificates issued so far
    due,       \* the stored certificate expires within RENEW_WITHIN_DAYS
    won,       \* history: settings lego has succeeded for
    torn,      \* history: a process died between a key and its certificate
    restarts   \* processes killed so far

files == <<keyFile, certFile>>
stored == <<config, creds>>
context == <<served, loaded>>
process == <<phase, mode, restart>>
history == <<issued, due, won, torn, restarts>>
vars == <<files, stored, flock, run, process, context, recent, history>>

ServerRuns == WebRuns \union {Sweep}
Runs == ServerRuns \union CliRuns
Issuance == 0..MaxIssued
MaybeSettings == Settings \union {NoSettings}

(* asked: settings and credentials are read; lego: it runs, under the      *)
(* lock; keyed: the new key is in place and the certificate is not;        *)
(* reload, opening, loading, loaded: the steps of reload_if_changed;       *)
(* saving, filing: settings, then credentials are still to be written.     *)
(* The unlink steps are those of remove_all, the start steps those of      *)
(* serving_material and uvicorn, in the sweep's place as it runs later.    *)
Step == {"idle", "asked", "lego", "keyed", "reload", "opening", "loading",
         "loaded", "saving", "filing", "unlinkCert", "unlinkKey",
         "unlinkCreds", "unlinkConfig", "startOpens", "startLoads"}
Idle == [step |-> "idle", for |-> NoSettings, saves |-> FALSE, cert |-> 0, key |-> 0]
RunType == [step : Step, for : MaybeSettings, saves : BOOLEAN,
            cert : Issuance, key : Issuance]
NoContext == [cert |-> 0, key |-> 0]

HasMaterial == keyFile # 0 /\ certFile # 0
Serving == served.cert # 0

Init ==
    /\ keyFile = 0 /\ certFile = 0
    /\ config = NoSettings /\ creds = NoSettings
    /\ flock = NoRun
    /\ run = [r \in Runs |-> Idle]
    /\ phase = "down" /\ mode \in Modes
    /\ served = NoContext /\ loaded = 0
    /\ recent = FALSE
    /\ restart = FALSE
    /\ issued = 0 /\ due = FALSE /\ won = {}
    /\ torn = FALSE
    /\ restarts = 0

GoesTo(r, step) == run' = [run EXCEPT ![r].step = step]
Returns(r) == run' = [run EXCEPT ![r] = Idle]

(* What follows a reload that did something or nothing or failed: its      *)
(* error is kept for the panel and the caller goes on.                     *)
GoesOn(r) ==
    run' = [run EXCEPT ![r] =
              IF @.saves THEN [@ EXCEPT !.step = "saving", !.cert = 0, !.key = 0] ELSE Idle]

-----------------------------------------------------------------------------
(* Asking for a certificate *)

(* Every entry refuses unless the key opens unattended; the command line   *)
(* starts in the container of a running server and shares its key source.  *)
MayBegin(r) ==
    /\ phase = "up"
    /\ run[r].step = "idle"

AskIssue(r, s) ==
    /\ MayBegin(r)
    /\ mode = "key"
    /\ run' = [run EXCEPT ![r] = [Idle EXCEPT !.step = "asked", !.for = s, !.saves = TRUE]]
    /\ UNCHANGED <<files, stored, flock, process, context, recent, history>>

(* A renewal runs with what is stored, credentials for another provider    *)
(* refuse it.                                                              *)
Renews(r) ==
    /\ mode = "key"
    /\ config # NoSettings
    /\ creds = config
    /\ run' = [run EXCEPT ![r] = [Idle EXCEPT !.step = "asked", !.for = config]]

AskRenew(r) ==
    /\ MayBegin(r)
    /\ Renews(r)
    /\ UNCHANGED <<files, stored, flock, process, context, recent, history>>

(* Mutant: the back-off is looked at before the date. *)
SweepLooksBackoffFirst ==
    /\ MayBegin(Sweep)
    /\ certFile # 0
    /\ config # NoSettings
    /\ ~recent
    /\ IF due THEN Renews(Sweep)
       ELSE run' = [run EXCEPT ![Sweep] = [Idle EXCEPT !.step = "reload"]]
    /\ UNCHANGED <<files, stored, flock, process, context, recent, history>>

(* The hourly pass: renews what is due unless a run failed lately, reloads *)
(* what is not, and leaves alone what has no settings.                     *)
SweepLooks ==
    /\ MayBegin(Sweep)
    /\ certFile # 0
    /\ config # NoSettings
    /\ IF due
       THEN ~recent /\ Renews(Sweep)
       ELSE run' = [run EXCEPT ![Sweep] = [Idle EXCEPT !.step = "reload"]]
    /\ UNCHANGED <<files, stored, flock, process, context, recent, history>>

-----------------------------------------------------------------------------
(* Running lego *)

(* Neither lock is waited for, and being refused is not a failure.         *)
LegoBegins(r) ==
    /\ run[r].step = "asked"
    /\ IF flock = NoRun
       THEN flock' = r /\ GoesTo(r, "lego")
       ELSE flock' = flock /\ Returns(r)
    /\ UNCHANGED <<files, stored, process, context, recent, history>>

(* Mutant: the key is written before the pair is found not to match. *)
LegoFailsKeyWritten(r) ==
    /\ run[r].step = "lego"
    /\ issued < MaxIssued
    /\ issued' = issued + 1
    /\ keyFile' = issued + 1
    /\ flock' = NoRun
    /\ Returns(r)
    /\ recent' = (recent \/ r \in ServerRuns)
    /\ UNCHANGED <<certFile, stored, process, context, due, won, torn, restarts>>

(* Mutant: the settings are kept although the run failed. *)
LegoFailsSaves(r) ==
    /\ run[r].step = "lego"
    /\ flock' = NoRun
    /\ GoesOn(r)
    /\ recent' = (recent \/ r \in ServerRuns)
    /\ UNCHANGED <<files, stored, process, context, history>>

(* Only the server's manager remembers: the command line's ends with it.   *)
LegoFails(r) ==
    /\ run[r].step = "lego"
    /\ flock' = NoRun
    /\ Returns(r)
    /\ recent' = (recent \/ r \in ServerRuns)
    /\ UNCHANGED <<files, stored, process, context, history>>

(* lego's output has been checked: the key is replaced first, *)
KeyPlaced(r) ==
    /\ run[r].step = "lego"
    /\ issued < MaxIssued
    /\ issued' = issued + 1
    /\ won' = won \union {run[r].for}
    /\ keyFile' = issued + 1
    /\ run' = [run EXCEPT ![r].step = "keyed", ![r].cert = issued + 1]
    /\ UNCHANGED <<certFile, stored, flock, process, context, recent, due, torn, restarts>>

(* then the certificate, and the locks are given back.  The command line   *)
(* has no context to reload.                                               *)
CertPlaced(r) ==
    /\ run[r].step = "keyed"
    /\ certFile' = run[r].cert
    /\ torn' = FALSE
    /\ flock' = NoRun
    /\ recent' = (recent /\ r \notin ServerRuns)
    /\ due' = FALSE
    /\ IF r \in ServerRuns
       THEN run' = [run EXCEPT ![r].step = "reload", ![r].cert = 0]
       ELSE GoesOn(r)
    /\ UNCHANGED <<keyFile, stored, process, context, issued, won, restarts>>

-----------------------------------------------------------------------------
(* Serving what is stored: reload_if_changed *)

ReloadLooks(r) ==
    /\ run[r].step = "reload"
    /\ IF Serving /\ certFile \notin {0, loaded}
       THEN run' = [run EXCEPT ![r].step = "opening", ![r].cert = certFile]
       ELSE GoesOn(r)
    /\ UNCHANGED <<files, stored, flock, process, context, recent, history>>

ReloadOpens(r) ==
    /\ run[r].step = "opening"
    /\ IF keyFile # 0
       THEN run' = [run EXCEPT ![r].step = "loading", ![r].key = keyFile]
       ELSE GoesOn(r)
    /\ UNCHANGED <<files, stored, flock, process, context, recent, history>>

(* Mutant: loads the certificate that was read for its fingerprint. *)
ReloadLoadsRead(r) ==
    /\ run[r].step = "loading"
    /\ IF run[r].cert = run[r].key
       THEN /\ served' = [cert |-> run[r].cert, key |-> run[r].key]
            /\ GoesTo(r, "loaded")
       ELSE served' = served /\ GoesOn(r)
    /\ UNCHANGED <<files, stored, flock, process, loaded, recent, history>>

(* The certificate is read again, from its file.  A key that does not fit  *)
(* it raises, but by then the context has taken the certificate, and       *)
(* dropped a key that fits another one.                                    *)
ReloadLoads(r) ==
    /\ run[r].step = "loading"
    /\ IF certFile = 0
       THEN GoesOn(r) /\ UNCHANGED served
       ELSE IF certFile = run[r].key
            THEN /\ served' = [cert |-> certFile, key |-> certFile]
                 /\ run' = [run EXCEPT ![r].step = "loaded", ![r].key = 0]
            ELSE /\ served' = IF served.cert = certFile THEN served
                              ELSE [cert |-> certFile, key |-> 0]
                 /\ GoesOn(r)
    /\ UNCHANGED <<files, stored, flock, process, loaded, recent, history>>

(* The fingerprint kept is that of the first reading. *)
ReloadSettles(r) ==
    /\ run[r].step = "loaded"
    /\ loaded' = run[r].cert
    /\ GoesOn(r)
    /\ UNCHANGED <<files, stored, flock, process, served, recent, history>>

-----------------------------------------------------------------------------
(* What issue() keeps after a success, and removal; neither takes a lock *)

SaveConfig(r) ==
    /\ run[r].step = "saving"
    /\ config' = run[r].for
    /\ GoesTo(r, "filing")
    /\ UNCHANGED <<files, creds, flock, process, context, recent, history>>

SaveCredentials(r) ==
    /\ run[r].step = "filing"
    /\ creds' = run[r].for
    /\ Returns(r)
    /\ UNCHANGED <<files, config, flock, process, context, recent, history>>

RemoveBegins(r) ==
    /\ MayBegin(r)
    /\ GoesTo(r, "unlinkCert")
    /\ UNCHANGED <<files, stored, flock, process, context, recent, history>>

RemoveUnlinks(r) ==
    /\ \/ /\ run[r].step = "unlinkCert"
          /\ certFile' = 0
          /\ due' = FALSE
          /\ GoesTo(r, "unlinkKey")
          /\ UNCHANGED <<keyFile, stored>>
       \/ /\ run[r].step = "unlinkKey"
          /\ keyFile' = 0
          /\ GoesTo(r, "unlinkCreds")
          /\ UNCHANGED <<certFile, stored, due>>
       \/ /\ run[r].step = "unlinkCreds"
          /\ creds' = NoSettings
          /\ GoesTo(r, "unlinkConfig")
          /\ UNCHANGED <<files, config, due>>
       \/ /\ run[r].step = "unlinkConfig"
          /\ config' = NoSettings
          /\ Returns(r)
          /\ UNCHANGED <<files, creds, due>>
    /\ UNCHANGED <<flock, process, context, recent, issued, won, torn, restarts>>

-----------------------------------------------------------------------------
(* The process *)

(* A stored pair and a key only a person can type is refused; without an   *)
(* unattended key, or without a pair, plain HTTP is served.  A process     *)
(* that replaced itself has the environment of the one before.             *)
StartLooks(m) ==
    /\ phase = "down"
    /\ restart => m = mode
    /\ m = "passphrase" => ~HasMaterial
    /\ mode' = m
    /\ restart' = FALSE
    /\ IF HasMaterial /\ m = "key"
       THEN /\ phase' = "starting"
            /\ run' = [run EXCEPT ![Sweep] =
                         [Idle EXCEPT !.step = "startOpens", !.cert = certFile]]
       ELSE phase' = "up" /\ UNCHANGED run
    /\ UNCHANGED <<files, stored, flock, context, recent, history>>

StartOpens ==
    /\ run[Sweep].step = "startOpens"
    /\ IF keyFile # 0
       THEN run' = [run EXCEPT ![Sweep].step = "startLoads", ![Sweep].key = keyFile]
            /\ UNCHANGED phase
       ELSE phase' = "up" /\ Returns(Sweep)
    /\ UNCHANGED <<files, stored, flock, mode, restart, context, recent, history>>

(* uvicorn loads the pair; its error is none that falls back to plain HTTP *)
(* and ends the process.                                                   *)
StartLoads ==
    /\ run[Sweep].step = "startLoads"
    /\ IF certFile = run[Sweep].key
       THEN /\ served' = [cert |-> certFile, key |-> certFile]
            /\ loaded' = run[Sweep].cert
            /\ phase' = "up"
       ELSE phase' = "down" /\ UNCHANGED context
    /\ Returns(Sweep)
    /\ UNCHANGED <<files, stored, flock, mode, restart, recent, history>>

(* What a process that ends takes with it. *)
Gone(S) ==
    /\ run' = [r \in Runs |-> IF r \in S THEN Idle ELSE run[r]]
    /\ flock' = IF flock \in S THEN NoRun ELSE flock
    /\ torn' = (torn \/ \E r \in S : run[r].step = "keyed")

Ends ==
    /\ phase' = "down"
    /\ served' = NoContext
    /\ loaded' = 0
    /\ recent' = FALSE

(* The container is killed, and every process in it. *)
Crash ==
    /\ phase # "down"
    /\ restarts < MaxRestarts
    /\ restarts' = restarts + 1
    /\ Gone(Runs)
    /\ Ends
    /\ restart' = FALSE
    /\ UNCHANGED <<files, stored, mode, issued, due, won>>

(* A command is interrupted at the terminal. *)
CliKilled(r) ==
    /\ run[r].step # "idle"
    /\ restarts < MaxRestarts
    /\ restarts' = restarts + 1
    /\ Gone({r})
    /\ UNCHANGED <<files, stored, process, context, recent, issued, due, won>>

(* The switch to HTTPS, while no capture runs (CaptureLifecycle): asked, *)
RestartAsked ==
    /\ phase = "up"
    /\ HasMaterial
    /\ mode = "key"
    /\ restart' = TRUE
    /\ UNCHANGED <<files, stored, flock, run, phase, mode, context, recent, history>>

(* and carried out a second later.  Worker threads are waited for, a run   *)
(* of lego not for as long as it may take.                                 *)
RestartHappens ==
    /\ phase = "up"
    /\ restart
    /\ \A r \in ServerRuns : run[r].step \in {"idle", "lego"}
    /\ Gone(ServerRuns)
    /\ Ends
    /\ UNCHANGED <<files, stored, mode, restart, issued, due, won, restarts>>

(* Time: the certificate comes due, RENEW_RETRY_AFTER passes. *)
ComesDue ==
    /\ certFile # 0
    /\ due' = TRUE
    /\ UNCHANGED <<files, stored, flock, run, process, context, recent, issued, won, torn, restarts>>

BackoffPasses ==
    /\ recent
    /\ recent' = FALSE
    /\ UNCHANGED <<files, stored, flock, run, process, context, history>>

RunSteps(r) ==
    \/ LegoBegins(r) \/ LegoFails(r) \/ KeyPlaced(r) \/ CertPlaced(r)
    \/ ReloadLooks(r) \/ ReloadOpens(r) \/ ReloadLoads(r) \/ ReloadSettles(r)
    \/ SaveConfig(r) \/ SaveCredentials(r) \/ RemoveUnlinks(r)

Start == (\E m \in Modes : StartLooks(m)) \/ StartOpens \/ StartLoads

Next ==
    \/ Start
    \/ \E r \in WebRuns \union CliRuns, s \in Settings : AskIssue(r, s)
    \/ \E r \in WebRuns \union CliRuns : AskRenew(r)
    \/ SweepLooks
    \/ \E r \in WebRuns : RemoveBegins(r)
    \/ \E r \in Runs : RunSteps(r)
    \/ Crash
    \/ \E r \in CliRuns : CliKilled(r)
    \/ RestartAsked \/ RestartHappens
    \/ ComesDue \/ BackoffPasses

Spec == Init /\ [][Next]_vars

(* The hourly pass comes round while the server is up, and what it starts  *)
(* runs to its end: lego is killed after LEGO_TIMEOUT_SECONDS.  Nothing is *)
(* assumed of the other runs.                                              *)
FairSpec ==
    /\ Spec
    /\ WF_vars(SweepLooks)
    /\ WF_vars(RunSteps(Sweep))

-----------------------------------------------------------------------------
(* Properties *)

(* Every variable keeps its type, the holder of the lock is the one run    *)
(* between asking lego and placing its certificate (issuance_lock), and a  *)
(* server that is down serves nothing.                                     *)
TypeOK ==
    /\ keyFile \in Issuance /\ certFile \in Issuance
    /\ config \in MaybeSettings /\ creds \in MaybeSettings
    /\ flock \in Runs \union {NoRun}
    /\ run \in [Runs -> RunType]
    /\ phase \in {"down", "starting", "up"}
    /\ mode \in Modes
    /\ served \in [cert : Issuance, key : Issuance]
    /\ loaded \in Issuance
    /\ {recent, restart, due, torn} \subseteq BOOLEAN
    /\ issued \in Issuance /\ won \subseteq Settings
    /\ restarts \in 0..MaxRestarts
    /\ \A r \in Runs : run[r].step \in {"lego", "keyed"} <=> flock = r
    /\ phase # "up" => served = NoContext

(* A stored key that does not belong to the stored certificate is the work *)
(* of a run under way, or of a process that died between the two, until    *)
(* the next issuance: "Check the pair, then replace what is stored"        *)
(* (store_issued), whoever issues, removes and restarts meanwhile.         *)
PairsMatch ==
    HasMaterial /\ keyFile # certFile =>
        torn \/ \E r \in Runs : run[r].step = "keyed"

(* Settings and credentials are kept for what lego has once succeeded      *)
(* with: "Saves the settings only on success" (TlsManager.issue).          *)
SavedOnSuccess == {config, creds} \subseteq won \union {NoSettings}

(* A reload never puts an older certificate back into the context.         *)
ServedNeverOlder ==
    [][served.cert # 0 /\ served'.cert # 0 => served'.cert >= served.cert]_vars

(* "A server already on HTTPS picks up a renewed certificate within the    *)
(* hour, without a restart" (cli.main): a matching pair that stays and is  *)
(* not due is served for good, also after a reload that failed half way.   *)
StoredGetsServed ==
    \A g \in 1..MaxIssued :
        <>[](/\ phase = "up" /\ Serving
             /\ keyFile = g /\ certFile = g /\ ~due
             /\ config # NoSettings)
        => <>[](served = [cert |-> g, key |-> g])

-----------------------------------------------------------------------------
(* What docs and comments say and the code does not do *)

(* The context keeps a key for its certificate: "The working certificate   *)
(* stays in place until a renewal succeeds" (docs/tls.md).                 *)
ServedIsWhole == served.key = served.cert

(* With no run under way and none killed, the credentials are those of the *)
(* settings, so that a renewal has what it needs.                          *)
RenewalHasCredentials ==
    restarts = 0 /\ (\A r \in Runs : run[r].step = "idle") => config = creds

(* A process that was down comes up: a stored pair that cannot be served   *)
(* falls back to plain HTTP (build_config).                                *)
StartSucceeds == [][phase = "starting" => phase' # "down"]_<<phase>>
=============================================================================
