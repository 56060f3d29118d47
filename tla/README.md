# pcap-server in TLA+

pcap-server records packets on other machines over SSH, keeps the pcaps sealed
on a volume, and shows them in a browser. This directory holds TLA+ modules of
its stateful core, the TLC instances they are checked on, and TLAPS proofs of
the properties that hold whatever the size of the instance.

The server is one Python process: an asyncio event loop, SQLite with synchronous
commits, `asyncio.to_thread` for slow work, and child processes (`tshark`,
`lego`). Code between two awaits is not interrupted by other coroutines. So an
action of a module is **one stretch of one handler between two awaits**, and
what TLC explores is every order in which the loop may resume the handlers. Two
things are not bound by that rule and get steps of their own: worker threads
(`vault.unlock`) and other programs (tcpdump on the target, `rekey`).

## Inventory

| Component | State it keeps | Operations | What is hard | What makes it correct |
|---|---|---|---|---|
| Capture lifecycle: `capture.py`, `ssh_manager.py` (launch, stop, fetch, close) | `_captures`, `_tasks`, `_processes`, `_interface_sets`, rows of `captures`, the tcpdump, the SSH connection | start, stop, rename, delete, `_monitor`, `shutdown`, `_restore` | every operation awaits SSH in the middle; any other may run there; cancellation | limits and exclusive links hold, a slot and a connection always have an owner, a deleted capture stays deleted, COMPLETED means a whole file |
| Capture library: `capture.py` (upload), `database.py`, `main.py` | records, rows, files, saved views, accounts | register, persist, upload, delete, views, delete account | requests in flight while the account or the row goes; foreign keys; crash between file and row | no file without a way to it, no view without its capture and owner, no row of a deleted account |
| Servers and host trust: `main.py`, `database.py`, `ssh_manager.py`, `localnet.py` | `known_hosts` per endpoint (shared by all accounts), `active_servers` per account, verification columns | add, probe, test, edit, remove, trust; admin confirm and forget; delete account | keys pinned before a connection and rolled back after it, while others rely on them | keys have a subject, a rollback takes its own keys only, shared keys are kept, a check is of the endpoint it is shown for |
| Vault and rotation: `vault.py`, `crypto.py`, `rekey.py` | files `<id>.pcap` and `<id>.pcap.enc`, key in memory | start-up policy, unlock, lock, seal, migrate, rotate | crash in migration or rotation, mixed keys, unlocking in a thread while the loop writes | content survives, one key per volume, nothing in the clear that should be sealed |
| Built-in HTTPS: `tls/`, `serve.py` | key, certificate, settings and credentials on disk; certificate in the TLS context | issue, renew, reload, remove, restart | server and CLI share the directory; crash between key and certificate | a matching pair is served, failed renewal changes nothing |
| Accounts, sessions, second factor, rate limiters: `auth.py`, `main.py`, `resetmfa.py` | users, sessions, devices, TOTP step, counters in memory | first account, login, password change, MFA reset, logout, housekeeping | user row read before the password hash is awaited | a code is used once, a session ends with what it stood on |
| Capture filter check: `bpf.py`, a route of `main.py` | calls of the last minute | `structural_check`, `compile_check` | sound "cannot match" from an incomplete search | a verdict is never wrong |
| Anonymizer: `anonymize.py` | maps of one run | address, prefix and name mapping | bit arithmetic | prefix preserving, injective |
| Sanitizer, frame walk: `sanitizer.py`, `framewalk.py` | summaries that expire, one stream per request | plan, rewrite, checksum | packet bytes against tshark's answer | every address found is rewritten |
| Packet viewer: `packet_parser.py`, `pcapsource.py`, `main.py` | cache of copy-scan tasks | tshark queries | a shared task, evicted, failed or cancelled while awaited | an answer belongs to the file asked for |
| Presets, filters, diagram views: `database.py`, `main.py` | tables per account | add, edit, delete | caps | as for saved views |
| Target host checklist: `ssh_manager.py` | what the host has | probe, evaluate, print remedies, run, clean up | the probe sees less than the capture needs | a passed check means a capture runs, a printed remedy cures |
| Sealed envelope: `crypto.py` | header and chunks of one file | seal, open, rotate | files cut, reordered, mixed, altered | what is read is a beginning of what was written, a clean end is all of it |
| Front end: `frontend/js` | page state | rendering, requests | late answers | the newest request wins |
| Packaging, scripts, tests | none | | | |

How they meet: a start asks the trust store whether its server was ever verified
and pins the keys of the connection; the lifecycle asks the vault for the name
and the key of every file; every status change is persisted through the library's
tables; deleting an account reaches the rows of all of them and none of the
objects in memory; HTTPS needs a key that no person has to type.

## Modules

| Module | Models | Lines of code it stands for |
|---|---|---|
| `CaptureRecord` | abstract: what a user sees of a capture, and what a restart finds | `CaptureStatus`, `_ACTIVE_STATUSES`, the writers of status |
| `CaptureLifecycle` | `CaptureManager` with the tcpdump it runs; implements `CaptureRecord` | `capture.py`, launch, stop and close of `ssh_manager.py` |
| `CaptureLibrary` | record, row, file and everything a user saves, under account deletion, failing uploads and crashes | `import_upload`, `database.py`, routes of captures, views, diagrams, filters, presets and layouts |
| `HostTrust` | shared host keys and per-user servers under concurrent requests | server and known-host routes of `main.py`, `database.py` |
| `TargetHost` | the checklist of a target, its remedies, and what a capture does there | the prerequisite half of `ssh_manager.py` |
| `CaptureVault` | the two files of a capture, the key in memory, unlocking, migration, rotation | `vault.py`, `rekey.py`, the writers of `capture.py` |
| `SealedEnvelope` | one sealed file: header, chunks, opening, rotation | `crypto.py` |
| `TlsMaterial` | key, certificate, settings and credentials of HTTPS between server, sweep and command line | `tls/`, `serve.py` |
| `Accounts` | accounts, sessions, second factor, login limit | `auth.py`, auth and user routes of `main.py`, `database.py`, `resetmfa.py` |
| `PortFilter`, `FilterCheck` | the verdict on port constraints; expressions, their parsing and the route | `bpf.py`, the check-filter route |
| `FrameWalk` | where a frame's addresses and checksums are, and what an edit does to the checksums | `framewalk.py`, the rewriter of `sanitizer.py` |
| `SanitizedCopy` | a download between frame reader, feeder and tshark, and its summary | `sanitizer.py`, `spawn_tool` and `reap_tool`, routes |
| `AddressMap` | what replaces an address | `anonymize.py` |
| `CopyScan` | the pass that finds one packet on several links, and the reading of each link | `find_interface_copies`, `_read_link_views` of `packet_parser.py` |
| `Packets_proofs` | theorems of `AddressMap`, `FrameWalk`, `PortFilter` and `FilterCheck`, and what they need of recursion | |
| other `*_proofs` | theorems of the module they are named after; `CaptureLifecycle_proofs` also of the refinement of `CaptureRecord`, `HostTrust_proofs` of `TargetHost`, `CaptureVault_proofs` of `SealedEnvelope`, `SanitizedCopy_proofs` of `CopyScan` | |
| `MC_*` | values for TLC: model values, request sets, symmetry | |

**How they compose.** `CaptureLifecycle` and `CaptureLibrary` cut one system
along different lines. The first keeps every coroutine of a capture and knows
nothing of accounts; the second folds a capture's coroutines into `asked`,
`live` and `over` and keeps accounts, uploads and what is saved. What joins them
is the record: `CaptureRecord` is what the first is shown to implement, and the
second uses no more of it than `active`, `completed` and `failed`.
`CaptureVault` takes up the file below both, and treats a file as the keys it
is sealed under; `SealedEnvelope` is what one such sealing is made of.
`HostTrust` decides whether a connection may be made, `TargetHost` whether a
capture can run at its other end. `FilterCheck` extends `PortFilter`: the
first turns an expression into constraints, the second judges them.
`SanitizedCopy` decides which frames are rewritten with what tshark said of
them, `FrameWalk` what rewriting one does to its bytes, `AddressMap` which
address takes the place of another. `MC_HostTrust`, `MC_CaptureVault` and
`MC_SanitizedCopy` instantiate `TargetHost`, `SealedEnvelope` and `AddressMap`
and have TLC evaluate their properties on every (small) input, as assumptions
of the runs `shared`, `keys` and `copy`.

### CaptureLifecycle

| Variables | In the code |
|---|---|
| `mem`, `status`, `procs`, `tasks`, `sets` | `_captures` and the `CaptureInfo` in it (an object may outlive its entry), `_processes`, `_tasks`, `_interface_sets` |
| `row` | the row in `captures` |
| `launch`, `mon`, `del` | where the coroutines of `start`, `_monitor` and each `delete` stand, one value for each await |
| `cancelled` | a `CancelledError` on its way to a monitor: `task.cancel()` marks, the task's next step receives |
| `tcpdump`, `signalled`, `conn`, `remote` | on the target: process, signal, SSH connection, pcap in `/tmp` |
| `local` | `none`, `partial` or `whole` file on the volume |
| `phase`, `ending`, `restarts` | lifespan of the process, the capture `shutdown` awaits, restarts so far |

`Start` is everything `start()` does before its first launch await: the check
of the limit, the busy links, the registration and the row. `LaunchReturns` and
`LaunchFails` are its two continuations. `MonitorExit`, `FetchReturns`,
`TidyReturns`, `CountReturns` and `MonitorCloses` walk `_monitor` through its
awaits; `Finish` is the part of its `finally` before `close()`.
`MonitorCancelled` is cancellation at whichever await the monitor had reached.
`DeleteBegins`, `DeleteGathered`, `DeleteStopped` and `DeleteCloses` are the
stretches of `delete()`. A crash drops every coroutine, and `Restart` is
`_restore`. When a request names several interfaces it runs on "any" with a
filter on interface indexes: `Narrow`, `Covered` and `Busy` keep that, since
the exclusion of links depends on it.

### CaptureLibrary

`Upsert` is `INSERT OR REPLACE` with foreign keys on: writing a row deletes the
old one, so the views hanging off it go, and a missing account refuses the
write. A launch and a delete are two stretches each: `Register` and `Launched`
or `LaunchFails`, which persists its record whether it is still listed or not;
`DeleteBegins`, which cancels the monitor, and `DeleteEnds`, with the late
writes of `MonitorCancelled` between them. Where there is no monitor to await,
`Delete` is one stretch, also beside a delete that still awaits one
(`deleting`). `UploadBegins`, `UploadPlaced`, `UploadRegistered` and
`UploadRefused` are the file's way through `.partial`, rename, check and row.
`saved` holds the rows of five tables, each under an account and either a
capture or the account itself; adding, renaming and deleting obey each table's
limit and unique names, and the positions of tabs. `arranging` are accounts
whose PUT of a column layout awaits tshark, `arranged` those with a stored one:
the write comes after the await and may find the account gone. `DeleteUser`
cascades over rows only. `interrupted` is a history variable: the requests a
crash cut off.

### HostTrust

`known[e]` is the key stored for an endpoint and who reviewed it: a user whose
request pinned it, or an admin who confirmed or rescanned it. A request record
`req[r]` holds what the handler carries over its connection await: kind, account,
endpoint, row, the key it pinned, and the answer. A connection comes to
`unreachable`, `same` (both boot ids were read and are equal) or `other`, which
is also what boot ids nobody could read come to (`describe_if_same_kernel`); what
answers at an endpoint may be another machine each time. `AddCreates`/`AddFails`,
`ProbeEnds` and `StoredAnswers` are what follows that await. `verified` and
`finding` are columns of a row; they hold the endpoint the connection was made
to, so that a row can be found to speak of another.

Three variables are history, each for one exception of a property: `abandoned`,
endpoints whose cleanup a crash or an account's deletion has skipped;
`overtaken`, rows repointed while a connection of theirs was open; `disturbed`,
requests whose pinned keys an admin, a clean-up after a last row or such a
request has taken away.

### TargetHost

No state: a host is a record of what decides whether tcpdump runs there.
`Facts` is what the read-only probe can see of it, `Report` the checklist,
`CanCapture` and `CleansUp` what a capture then does, `Follow` what the printed
commands make of the host, in each of the ways printed. No line installs sudo,
and the printed alternative to opening `/tmp`, a writable directory elsewhere,
changes nothing that a capture uses. Under sudo tcpdump opens its file as root
(`Writes`). Four properties compare them: a pass means a capture runs, a
failure that it does not, a failed check prints a way that cures it, a capture
leaves nothing behind. Each names its exceptions, and the exceptions are listed
below, where code and comments part.

### CaptureVault

A file is the sequence of keys it was sealed under (`<<>>` is plaintext), or
`NoFile`. A capture goes `asked` (lock checked) to `started` (named) to `opening` to
`writing` (key taken) to `done`; between these the vault may change, since an
unlock runs in a thread: `UnlockSets` installs the candidate, `UnlockVerifies`
looks at the files, `UnlockUndone` puts the previous key back. `MigratePlaces`
and `MigrateUnlinks` are the two steps of sealing one file in place.
`RekeyBegins`, `RekeyFile`, `RekeyEnds` are the offline program; it may be
killed after any file. Start-up (`StartApp`) is the policy of `_resolve`: which
combinations of key source and files are refused. `settled` is history: the
last rotation moved every file, and no run since has asked for a passphrase.

### SealedEnvelope

No state: a file is a header naming the master key that wraps its own key
(DEK), and a sequence of chunks each sealed with its index. `OpenStream` yields
the longest run of chunks that open in order and says how it ended.
Files may be cut, reordered, repeated, mixed with other files or altered;
`written` says what was sealed under each DEK. What is assumed of the
cipher is that a chunk opens under the key and index it was sealed with and no
other. Bytes after the terminator are ignored, as `open_stream` does.

### TlsMaterial

`keyFile`, `certFile`, `config` and `creds` are the four files; a certificate
and its key are the number of the issuance they come from. A run (an
administrator's request in a thread, the hourly sweep, the command line in its
own process) steps through lock, lego, key file, certificate file, reload and
saving; `flock` is the file lock, `served` and `loaded` the live TLS context
and the fingerprint the server believes it has loaded. `RemoveUnlinks` takes no
lock. `Crash`, `CliKilled` and `RestartHappens` end processes; `StartLooks`,
`StartOpens` and `StartLoads` are the start with its fall-back to plain HTTP.

### Accounts

A request holds what its handler read before its await: the login carries the
row as it was (`Reads`), registration and creation carry nothing, and what an
administrator asks carries the account it is about. The continuations look at
the tables as they are then. `sessions` keep the ages of the `last_seen` stamp
and of the last use, which differ by up to the write interval. `fails` is the
limiter of one client, and `Locked` its check before the hash. A one-time code
is the secret and the time step it is for: what a request compares it with is
the secret it has read, and the step it consumes is the row's as it is then.
`taken` is history: the codes an account was admitted or confirmed by.
`OfflineClears`, `OfflineSignsOut` and `OfflineForgets` are the three commits of
the reset program, which runs beside the server. How long a lockout lasts is an
input (`AttemptAges`).

### PortFilter and FilterCheck

A constraint is a set of alternatives (ports, source or destination, protocol),
a filter a family of constraints; `Verdict` is `structural_check`. An expression
of `FilterCheck` is a tree, written as a sequence of nodes that name their
operands by number: port terms, terms that are not understood, `not`, and
bracketed operands with `and`/`or` between them (`WellFormed`). libpcap reads
those with equal precedence from left to right (`HoldTogether`), the code splits
them at every `or` first; `Matches` is the reference, packet by packet, with each
term the code does not understand true or false at will. `AlternativeOf` is
`_parse_alternative`, `Collect` is `_collect`, and a constraint is indexed by the
node it was read at. The route with its limiter, and `tcpdump`'s own answer with
its absence and timeout, are inputs and actions around it.

### FrameWalk

`at` is the function of the walker about to read, `off`, `end` and `depth` its
arguments. What a header says is chosen when the walker reads it, so that every
choice is some frame; a frame cut short is a smaller `n`. `layout` collects
addresses and checksum scopes. `Rewrite` then replaces the addresses of the
kinds asked for (MAC, IP, both or neither) and the payload, in which tshark
places its fields, and refreshes the checksums with ones' complement sums of
words of two bits instead of sixteen. Every word has an old and a new value of
its own, which may be the same, and every checksum a value of its own. Stripping
the payload comes after the refresh and is left out.

### SanitizedCopy

A capture is its frames by number; `selected` are those tshark's filter picks.
Feeder, tshark and reader are three processes between two pipes of limited
room: `Feed`, `ToolReads`, `Advance`, `RewriteFrame`, `Finish`. tshark may die
anywhere, the feeder's source may end early or raise, the client may leave at
any frame. `summaries` is the list of what a browser may ask for later, with its
limit and its expiry.

### AddressMap and CopyScan

`AddressMap` has no state: AES under a key is any function of blocks to a bit.
`CopyScan` reads frames one at a time (`Sight`), keeps two tables (by everything
a router leaves alone, and by what NAT leaves alone too) and prunes them every
few frames; `whole` is the same pass with no pruning, run beside it. Afterwards
each link that carries copies is read alone and its lines are paired with frames
by rank: `order` is what the pass counted of each link, `OnLink` what tshark is
given of it, `viewed` which frame each line was kept for.

## Runs

| Run | Instance | Properties |
|---|---|---|
| `core` | 2 captures, 2 hosts, 2 links, four kinds of request (a link by name, one-link list, both links, "any"), limit 2, 1 delete each, 1 crash | `OneCapturePerLink`, `ConnectionHasOwner`, `CompletedHasFile`, and the manager implements `CaptureRecord` (`RefinesRecord`) |
| `live` | 1 capture, 2 deletes, 1 crash, fair scheduling | `EveryCaptureEnds`, `DeleteEnds`, `DeleteStaysDeleted` |
| `store` | 2 ids captured or uploaded, launches and deletes in stretches, 2 accounts, 2 saved rows, 2 names, 1 crash | `NoLostFile`, `CompletedIsStored`, `ViewsBelongToOwner`, `TabsAreOrdered`, `NoRowOutlivesItsUser` |
| `shared` | 2 endpoints, 2 keys: 2 accounts and 2 rows with 1 connecting request, or 1 account and row with 2 at once and 1 crash | `TrustHasSubject`, `ChecksAreOfTheRow`, `RollsBackItsOwn`, `SharedTrustKept`; and the four properties of `TargetHost` for every host |
| `keys` | a capture and an upload, 2 keys, three modes (off, key, passphrase), 2 unlock threads | `ContentKept`, `OneKeyPerVolume`, `RotationComplete`; and those of `SealedEnvelope` for files of up to two chunks |
| `renewed` | one web request, the sweep, one command line run, 3 issuances, 1 process killed, fair sweep | `PairsMatch`, `SavedOnSuccess`, `ServedNeverOlder`, `StoredGetsServed` |
| `logins` | 2 requests at once, 1 session, limit 1: 2 accounts within a minute, or 1 account with 2 secrets, 2 time steps, idle time-out 3, write interval 2 | `OneAdmin`, `FailuresBounded`, `IdleWindow`, `CodesTakenOnce` |
| `filter` | every expression of up to three of eleven terms, brackets and negations, 5 ports | `NeverWronglyEmpty`, `CrossMeansBetween`, `MissesNothing` |
| `walk` | short and whole frames, one tunnel, error or IP in IP deep | `WithinCaptured`, `FieldsAreDisjoint`, `AsWrongAsBefore` |
| `copy` | 1 download of 3 frames, pipes of one frame, summaries of 2 other downloads, room for 1, fair scheduling | `CleanMeansMasked`, `SummaryIsTrue`, `DownloadsEnd`; and those of `AddressMap` for 3-bit addresses |
| `scan` | 4 frames of 4 packets or no IP on 3 links, window 1, pruning every 2 | `CopiesAreRepeats`, `EveryRepeatIsMarked`, `ForgettingChangesNothing`, `ViewsAreOfTheirFrame` |
| `renamed` | one or two of everything | counterexample to `ViewsGoOnlyWithCapture`, below |

Each takes between seconds (`live`, `renamed`) and about two minutes (`store`,
`logins`, `renewed`) on two workers.

**Bounds.** `MaxRestarts` bounds crashes; `Deleters`, `RequestIds`, `Requests`,
`Unlockers` and the sets of runs bound what is in flight; `MaxConcurrent`,
`MaxViews`, `MaxFilters`, `MaxAttempts`, `MaxPerMinute`, `MaxCandidates`,
`Limit`, `LinkViews`, `Window` and `PruneEvery` are settings and constants of
the code made small; `MaxPosition`, `MaxRows`, `MaxIssued`, `MaxStep`,
`MaxFrames`, `MaxTime`, `MaxLoops` and `Frames` bound counters, `Secrets` the
TOTP secrets of an account that a row, a request or `taken` still knows. Ids are
never used twice, so the number of captures bounds a behaviour too. Two captures
are enough for anything about a pair (a link, a slot, a key); two deletes are
enough because a third finds what the second finds; one crash is enough because
nothing but rows and files survives one, and the state after a second crash is
one the first could have left. Two requests in `logins` and `shared` are one
that races another. In `logins` a write interval of two is the least at which a
use of a session leaves its stamp behind, and an idle time-out of three the
least that tells a stamp from the last use; two secrets and two steps are a code
before and one after a reset or a step. `shared` and `logins` explore two parts
of an instance that is too large as a whole, which their cfg names as a
constraint (`Scope`): what the sharing of keys and the first account need is two
accounts, what races need is two requests over one. Three issuances are one
served, one placed and one under way. Three frames are one taken, one held back
and one in the pipe. Four frames let pruning happen twice and a copy follow a
copy. Where a theorem exists it has none of these bounds. Captures, servers,
endpoints, keys, secrets, links and tabs are interchangeable where a cfg says
so; runs with liveness use no symmetry.

Deadlock checking is off where a proper end exists: ids used up, a process down
for good, a download over, a capture read. `filter` and `walk` have it on or
end by construction in states that step on.

**Fairness.** `live`: weak fairness of the steps the event loop and the timeouts
guarantee: a ready coroutine runs; `run_tcpdump`, `fetch_remote`,
`delete_remote` and `close` return, fail or time out; the wait for tcpdump ends by
`monitor_timeout`; `stop_tcpdump` ends after three graces whether or not the
process obeys. Nothing is assumed of users, of tcpdump exiting on its own, or of
a shutdown being asked for. `renewed`: the hourly sweep comes round while the
server is up, and what it started runs to its end because lego is killed after
`LEGO_TIMEOUT_SECONDS`; requests and the command line owe nothing. `copy`: the
loop resumes a download that can go on, tshark and the feeder run unless they
die; clients, failures and the clock owe nothing.

## Where code and comments part

Each of these was found by TLC (those of `TargetHost` by evaluating its
properties without their exceptions). The first has a run and an entry under
`findings` in `PROJECT.json`; of the others the property is stated at the end
of its module, and an instance of the size of the module's run, with that
property in its place, shows the counterexample.

| Property | Module | Counterexample |
|---|---|---|
| `ViewsGoOnlyWithCapture` | `CaptureLibrary` | any write of a capture's row replaces it, and the views and diagrams cascade: renaming a capture drops its saved tabs (run `renamed`) |
| `NoOrphanConnection` | `CaptureLifecycle` | delete while `start()` awaits a launch that then succeeds: the monitor fails on its first line, outside its `try`, and nothing closes the connection |
| `DeleteIsFinal` | `CaptureLifecycle` | delete during a launch that then fails: the failure is persisted and the row returns |
| `StopReachesTcpdump` | `CaptureLifecycle` | stop during the launch: no process to signal yet, and nobody signals it later |
| `OneTcpdumpPerLink` | `CaptureLifecycle` | delete frees the link before the tcpdump has ended; a start then runs a second one |
| `FailedKeepsNoHalfFile` | `CaptureLifecycle` | a fetch that times out is not an `Exception` the cleanup catches |
| `ShutdownWritesClosingRows` | `CaptureLifecycle` | a monitor cancelled in its own `finally` skips the row |
| `ActiveHasMonitor` | `CaptureLibrary` | account deleted while its start awaits: the insert fails after registration, outside the `try` |
| `DeletedUserLeavesNothing` | `CaptureLibrary` | rows go, records and files stay |
| `KeptIfReferenced` | `HostTrust` | two adds of one endpoint: the first pins and fails, its rollback forgets the keys the second's row relies on |
| `TrustNeverOutlives` | `HostTrust` | deleting an account leaves its servers' keys pinned |
| `VerifiedIsCurrent` | `HostTrust` | a test in flight writes its answer to a row that was edited meanwhile |
| `AdminKeysKept` | `HostTrust` | a rollback forgets keys an admin confirmed during the probe |
| `FailMeansNoCapture` without exceptions | `TargetHost` | the sudo rule for tcpdump alone, which the checklist prints and `docs/target-hosts.md` says "works either way", fails the check, which asks `sudo -n true`; and `rm` and `pkill` by sudo are then refused (`CapturesCleanUp`); a binary or a `/tmp` that only root may use fails it too, though sudo's tcpdump would do |
| `PassMeansCapture` without exceptions | `TargetHost` | a root login with sudo ticked on a host without sudo passes, and the capture then asks for sudo; capabilities are not read without `getcap` or in `/usr/local` |
| `FixesWork` without exceptions | `TargetHost` | where there is no sudo a sudoers rule is printed beside the way that works; a writable directory elsewhere is printed, and no capture uses it |
| `NeverInTheClear` | `CaptureVault` | a write let in while a wrong passphrase is being checked asks for its key after the key was put back |
| `RowLeadsToFile` | `CaptureVault` | migration renames the file, the row keeps the old path: downloads answer 404 and delete leaves the file |
| `MixRefused` | `CaptureVault` | one file the key opens is enough to start, on a mix |
| `RefusedLeavesNoWrongKey` | `CaptureVault` | two wrong attempts: the second puts the first's key back |
| `SealedOnce` | `CaptureVault` | named without a key, sealed on arrival, sealed again by migration |
| `ServedIsWhole` | `TlsMaterial` | a reload that fails between certificate and key leaves the context with one of each |
| `RenewalHasCredentials` | `TlsMaterial` | a removal between the two saves of an issue leaves settings without credentials, or the reverse |
| `StartSucceeds` | `TlsMaterial` | material removed between the start's look at it and its loading ends the process |
| `ConfirmedHasSecret` | `Accounts` | a confirmation that has compared its code sets its column after a reset cleared both: asked for a code, with no secret to check it |
| `NoCodeTwice` | `Accounts` | a login that read the row before a reset compares its code with the old secret, and the reset has forgotten the step it was used for: the code admits again |
| `ConfirmedSecretStays` | `Accounts` | a second setup that read the row before the first one wrote replaces the secret after it was confirmed |
| `EndsMasked` | `SanitizedCopy` | a feeder whose source fails between two records looks to tshark like the end of the capture, and nobody awaits its error: a download that ends well, unmasked from there on |

The passing properties next to these say what is true all the same. For instance
`DeleteStaysDeleted` is `DeleteIsFinal` for captures whose launch has returned,
and `NoRowOutlivesItsUser` says that the row it brings back is never one of a
deleted account; `TrustHasSubject` is `TrustNeverOutlives` but for the endpoints
in `abandoned`, `RollsBackItsOwn` says of a rollback what `KeptIfReferenced` and
`AdminKeysKept` would have it say, `ChecksAreOfTheRow` is `VerifiedIsCurrent`
(and the same of findings) but for rows in `overtaken`, `CodesTakenOnce` is
`NoCodeTwice` for a secret the account still has, `CleanMeansMasked` is
`EndsMasked` but for that feeder. `ContentKept` says that a migrated capture is
still there, though its row misses it. `OneKeyPerVolume` holds in volumes where
no passphrase has been typed since the last complete rotation.

## Proofs

Checked by TLAPS for any number of captures, servers, endpoints, accounts,
keys, requests, frames and restarts. The assumptions are the `ASSUME`s of each
module: finitely many captures, requests or ports, limits that are naturals,
sentinels distinct from what they stand beside, lengths that are naturals,
expressions that are trees. TLC checked
each inductive invariant on the instance of the module's run before it was
proved; where a first attempt was not inductive, what it lacked is said below.

### CaptureLifecycle_proofs

`TypeCorrect`; `OneCapturePerLinkHolds`; `ActiveWithinLimitHolds`. The two
safety properties are kept by `Start` because check and registration are one
stretch; the work is to show that *no other step makes a capture active or
makes it cover more*. That needs to know which statuses a monitor's position
allows (`StatusOfStep`), that an unused id is in no table (`UnusedIsFresh`), and
that an active capture's interface set is still remembered (`SetsKept`), since
the busy check of the code reads the set and the property does not. `Base` is
the conjunction of the first two with the types, inductive, and each property is
inductive relative to it.

`RefinesRecordHolds`: `CaptureLifecycle` implements `CaptureRecord`; with it
`CompletedHasFileHolds`, `DeleteStaysDeletedHolds` and
`ConnectionHasOwnerHolds`. All follow from one inductive invariant, `Kept`,
which says of each capture who has custody of it. None of the four is inductive
alone: that a late writer never writes COMPLETED needs to know that a monitor
whose task a delete has taken is already cancelled (`UntaskedIsCancelled`),
that one whose record is gone has no task (`UnlistedIsUntasked`), and that
what a delete has taken was launched (`TakenWasLaunched`), so that no launch can
put a task back. One lemma says a step about one capture leaves the others
alone, one lemma for each group of actions that it keeps its own custody, and
`Effect` lists the five things such a step can do to a record and its row, each
of which is a step of `CaptureRecord` or a stutter.

### CaptureLibrary_proofs

`NoLostFileHolds`, `CompletedIsStoredHolds`, `ViewsBelongToOwnerHolds`,
`NoRowOutlivesItsUserHolds`, `TabsAreOrderedHolds`, from the inductive
`Library`, in two halves. `Recorded` is about records, rows and files: a request
that has not registered its capture is in no table (`Pending`), what runs is
an active record, listed unless a delete has overtaken it (`LiveIsActive`,
`Awaited`), nothing is on the volume before a fetch
or an upload (`NothingBefore`), and a listed capture of a live account has its
row (`ListedHasRow`). `NoLostFile` needs these because the row's owner may be
deleted, and the process crash, at each await: whoever had the file must be
known to be listed, in flight or interrupted. `Saved` adds `SavedHasRow`: what
hangs off a capture's row goes when that is replaced or cascades, so that who
owns a view is never asked of a row that is gone. A row may have no listed
record: a launch that fails after its capture was deleted writes one, and
`NoRowOutlivesItsUser` does not say otherwise.

### HostTrust_proofs

`TrustTypeCorrect`, `ChecksAreOfTheRowHolds`, `RollsBackItsOwnHolds`,
`TrustHasSubjectHolds`, `SharedTrustKeptHolds`, from `IBase`: types, a request
that pinned is of a kind that rolls back (`PinnedByAsker`), rows and live
requests name real endpoints, and a connection is for an id that is or was a
row's (`NamesAreUsed`), so that a new row starts with none. `ChecksAreOfTheRow`
is inductive with `AnswersFit`: a connection open for a row that is not
`overtaken` was made to the endpoint the row still names. `RollsBackItsOwn` is
inductive relative to `IBase`: who pins finds no keys stored, so that no other
undisturbed request counts keys there as its own, and whoever changes stored
keys disturbs those who do.

Of `TargetHost`: `PassedHostsCapture`, `FailedHostsDoNot`, `RemediesWork`,
`CapturesLeaveNothing`, its four properties, by cases on the branches of the
checklist.

### CaptureVault_proofs

`VaultInvariant`, and from it `VaultTypeCorrect`, `ContentKeptHolds` and
`RotationCompleteHolds`. `ContentKept` is not inductive alone: `MigrationIsReal`
says that what a migration still has to unlink has a sealed copy in place,
`RotationIsAlone` that rotation and application never run together, and
`RotationSoFar` that every file a rotation is done with is under the new key.
`OneKeyHolds`, in any sequence of modes, adds `KeyInPlace`: while `settled`, the
key in memory, or taken by a writer, is that of the files.

Of `SealedEnvelope`: `OnlyWhatWasSealed`, `CleanMeansWhole`,
`RotationKeepsContent`, for every number of chunks, from the assumptions that
each DEK seals one object and that damage yields nothing that opens.
`Yielded` chooses a least number: `WellFoundedInduction` provides it.

### TlsMaterial_proofs

`MaterialTypeCorrect`, `PairsMatchHolds`, `SavedOnSuccessHolds`,
`ServedNeverOlderHolds`, from `Material`, for any number of requests, command
lines and issuances. That the lock's holder, and nobody else, is at the steps
the lock covers is part of the types. `InPlace` says which steps a run may be at
(the start takes the sweep's place while the server starts; the command line
reloads nothing), `Owed` what it has in its hands: settings lego has succeeded
with, and, between its two writes, the newest certificate, whose key is the one
stored or was removed. The second makes `PairsMatch` inductive: without it the
certificate a run is about to write need not be the stored key's. `Newest`, that
what is stored is at least as new as what is served, does the same for
`ServedNeverOlder`, since a reload reads whatever the last writer left.

### Accounts_proofs

`AccountTypesCorrect`, `OneAdminHolds`, `FailuresBoundedHolds`,
`IdleWindowHolds`, `CodesTakenOnceHolds`. `Founded` says that a request that
creates an account was let in by an administrator and one that deletes is not
about one; `Counted` adds the logins in flight to the failures, which is what
each of them may become; `StampLags` bounds how far `last_seen` is behind the
last use; `StepsRemembered` says that the last step of an account is past every
code taken of the secret it has, which is why a request that read that secret
cannot take one again.

### SanitizedCopy_proofs

*The download*: `CopyTypeCorrect`, `CleanMeansMaskedHolds`,
`SummaryIsTrueHolds`, `NothingLeftRunningHolds`, `PacketsInStep`,
`SummariesKept`, for any number of downloads and frames and pipes of any
length. The inductive invariant `Copied` says of each download: what was taken
from tshark it had read, what it had read it was fed, and a tool that ended
cleanly read all of the capture unless its source failed (`Piped`); of the
packets taken, all but one held back are accounted for, and that one is for a
frame not yet rewritten (`InStep`); who is to end without an error has masked
what tshark was fed (`Accounts`). `CleanMeansMasked` is not inductive because
the order matters: `finish()` sees only how tshark ended, and that nothing was
printed for a frame already sent unmasked is `InStep`. Summaries have one entry
to a ticket (`OneEach`) because remembering one replaces what its ticket had.

*The scan* (`CopyScan`): `CopiesAreRepeatsHolds`, `EveryRepeatIsMarkedHolds`,
`ForgettingChangesNothingHolds`, from `Scanned`, for every capture, window and
interval of pruning. `SeenBacked` and `NatBacked` say that an entry stands for
the frame that began it and was renewed only by copies of it, so that what is
marked repeats that frame. The converse needs `SightingsKept`: the unpruned
table keeps a first sighting until its packet comes again. `Forgets` compares
the pruned tables with the unpruned ones: what is missing is too old for
whatever comes, and the marks are the same.

### Packets_proofs

*Recursion*. A recursive function is a solution of its equation that is chosen,
if there is one. `Recursion` shows that there is: an equation that looks, at
each argument, only at arguments of a smaller rank has a solution, built up rank
by rank. `NoneAtAll` takes the place of induction: a set of exceptions each of
which finds another below it is empty. With these two, what sums, folds and the
readings of an expression compute is proved for every input.

*An address* (`AddressMap`): `PrefixPreservation`, `StandInsAreDistinct`,
`CacheChangesNothing`, for every address length, key and pad.

*A frame* (`FrameWalk`): `WithinCapturedHolds`, `FieldsAreDisjointHolds`,
`InnermostFirst`, from `Walked`. That fields do not overlap is not inductive:
everything found so far must lie before the place the walk looks at next
(`Frontier`), and for a tunnel that is not the walk's offset, but past the 8
bytes of the UDP header by which the tunnel was recognised. `InnermostFirst`
says that no checksum refreshed later, that of a header further out, is among
the words one refreshed before was computed from: the reason why one round of
`refresh_checksums` is enough, whatever the chain.

`AsWrongAsBeforeHolds` is what the round is for: whichever kinds of addresses are
replaced and whatever is written over each word of them and of the payload, each
checksum is afterwards exactly as wrong as it was, one of which no word that it
is computed from changed is untouched, so that an absent one stays absent, and
an updated one is never zero. Of one scope, `UpdateKeepsDifference` shows
that the arithmetic of RFC 1624 keeps the difference between the sum of the words
covered and the checksum, modulo `Top`, without ever writing zero.
`RefreshInRounds` unfolds the fold over the scopes into rounds, and
`RefreshKeepsWrong` follows one checksum through them: before its own round
nothing writes it, in it the inner checksums it covers have their new values,
and after it nothing writes a word it covers (`Ordered`). That the scopes of a
real walk are so ordered is `ScopesInOrder`; it needs one more invariant of the
walk, that the payload begins past every checksum found (`Headed`), or what is
written over the payload could be a checksum.

*A filter* (`PortFilter`, `FilterCheck`). Of the verdict on constraints, for any
number of ports and constraints: `NothingMeansNothing`,
`CrossMeansBetweenServices` and, within the search's limit,
`SearchMissesNothing`. The search tries the ports that are named and one
other; the argument is that a packet's port may be replaced by the one other if
no term names it (`Tried`), and the other way round. Of whole expressions,
nested to any depth: `NeverWronglyEmptyHolds`, `CrossMeansBetweenHolds` and
`MissesNothingHolds`. The invariant (`Answered`) only says that what was answered
is about the expression being edited; the work is in two lemmas about trees.
`GatheredAreNecessary`: where there is no `not`, a packet that a node matches
satisfies every constraint gathered below it; an `and` of the code is an `and`
of libpcap, because a group with an `or` in it is never split at its `and`s but
dropped, which is where the two readings differ. `GatheredAreEnough`: where
everything is understood, a packet that satisfies them is matched.

### Only model-checked

Liveness (`EveryCaptureEnds`, `DeleteEnds`, `StoredGetsServed`,
`DownloadsEnd`): liveness under fairness and `ENABLED` are beyond the installed
provers. `ViewsAreOfTheirFrame`: which frames of a capture are a link's is a
recursive selection from a sequence. Every other safety property the runs check
has a theorem. The counterexamples above are TLC's.

## Not modelled

Bytes, formats and parsing (pcap, tshark, capinfos), hashing, HTTP and HTML,
and logging. Torn files count as files: what is torn is refused by
authenticated decryption. Settings are constants of a run although an
administrator may change them. Further, by module:

- `CaptureLibrary`: what a view, filter or preset says. An insert that a foreign
  key refuses leaves the connection's implicit transaction open in
  `set_column_layout` and `upsert_capture`; the model has it rolled back. An
  upload is not cancelled while its interface names are read
  (`capture.py:576-580`), which would leave its file as a crash there does.
- `HostTrust`, `TargetHost`: the check of a server's name in `localnet.py` (what
  it lets through is checked again over the connection), scanning for keys, hosts
  with keys of several algorithms, rows older than the verification columns;
  SELinux (only ever a warning), the wording of the checklist.
- `CaptureVault`: SSH keys and TLS material under the same key.
- `TlsMaterial`: contents of certificates; the checks of settings and of lego's
  output are inputs.
- `Accounts`: names, hashes, cookies; absolute expiry ends a session at any
  time; the window in which a code is valid is any time; one client address.
  `SlidingWindowLimiter` is one dictionary update without an await.
- `FilterCheck`: terms that change what later terms are about (`vlan`, `geneve`).
- `FrameWalk`: odd lengths, the transport's name and ports, stripping the payload. IPv6 extension
  headers may run past `end`, as in the code.
- `SanitizedCopy`: the rules by which fields are chosen, how each style of text
  is masked, the install secret.
- `AddressMap`: MAC addresses, names, and the IPv4-mapped form, for which the
  docstring's "exactly one of them" does not hold; a mapped address may land on
  one that is kept.
- `CopyScan`: malformed lines, and the cache of scans with its shared tasks.
  Which links are read of too many is any choice.

Browser code renders what it is sent; `models.py` is validators without state;
the DNS provider table, packaging, previews and tests have no protocol. The
components marked `not_modelled` in `PROJECT.json` each say why.

## Plan

1. A module of the viewer's cache of scans: shared, evicted and failed tasks
   (`packet_parser.py`), and with it the theorem that an answer belongs to the
   file asked for.
2. Settings that change while captures, sessions and summaries depend on them.
3. Of the hazards without a property: the closing row of a monitor that is
   cancelled in its own `finally`, and a stop during a launch, each as what
   holds but for the divergence listed above.

## Running

    tlc -config MC_CaptureLifecycle_core.cfg MC_CaptureLifecycle.tla
    tlapm CaptureLifecycle_proofs.tla

`PROJECT.json` lists every run, the source lines behind every definition
(`map`), the hazards, the theorems, and for each checked property a mutant:
a definition whose changed form (`BusyByName`, `MonitorWaits`, ...) stands beside it
in the module and breaks the property.
