# Knowledge Hub: TLA+ specifications

A verification development for Knowledge Hub: TLA+ models of the parts of the hub that
keep state and that several processes, threads or requests work on at once, TLC runs that
check them on small instances, and TLAPS proofs of the safety properties for every instance.
Source paths below are relative to the repository root.

Contents: [the system](#the-system) · [modules](#modules) · [runs](#runs-and-bounds) ·
[fairness](#fairness) · [proofs](#proofs) · [where code and comments disagree](#where-code-and-comments-disagree) ·
[not modelled](#what-is-not-modelled) · [plan](#plan)

## The system

The hub is one Python server (`server.py`, ASGI) with MCP tools that run in worker threads,
HTTP handlers that run on the event loop (some of them awaiting worker threads), and build
threads. Beside it run a nightly shell script (`nightly-map.sh`) with its own Python
processes, a blue/green switch script, and deployment and backup jobs. They share files, not a
database; what keeps them apart is a set of `flock`s, two thread locks, the event loop, and
atomic replacement of files.

| Component | State it keeps | Operations | What is hard | What makes it correct |
|---|---|---|---|---|
| Vault (`vault.py`) | `vault.enc`, the data key in each process's memory | create, unlock, get/set/delete, change password, auto-unlock, migration of the old format | several processes with threads, a lock that nests, scrypt between read and write, a reader without lock, crashes | every wrap opens the file; the data key never changes; no update is lost; secret calls are atomic; no call alone locks everyone out |
| Sessions (`oauth.py`, `api/auth.py`) | `oauth_state.json`: clients, codes, access and refresh tokens | register, authorize, exchange, refresh, validate, login, logout, revoke, revoke all | load and save without any lock; awaits and worker threads in between | what was revoked or used stays out, nothing else is lost |
| Two-factor (`totp.py`, `api/system.py`) | one secret of the vault: secret, recovery codes, enabled | set up, activate, check, switch off | the endpoint asks, awaits, then acts | a recovery code works once; shown codes are stored codes |
| Rate limits (`ratelimit.py`) | failures (persisted), hits (memory), last sweep | check, record, throttle, reset, sweep | check and record are apart; windows slide; restarts | no failure on the disk or in memory is forgotten; bounds per window |
| Builds (`server.py`, `nightly-map.sh`, `buildmeta.py`, `locks.py`, `api/mapping.py`) | `graphify-out`, `.prev-generation`, the hub's copy, locks, `_builds` | build, nightly run, repair, add and remove a project, snapshot, gate, restore | two programs share a directory; every step may fail; crashes; full disk | only accepted generations are served; a failed build restores; locks and status end |
| Slot switch (`bluegreen/switch.sh`) | `slot-state.json`, proxy target, enabled unit, running slots | switch, fallback, force | dies between steps; health changes; systemctl fails; releases move between slots | proxy, state file and boot agree; blocked releases stay out; no flapping |
| Registry (`config.py`, `server.py`, `api/mapping.py`) | `config.yaml`: projects, model, targets, archived graphs | register (MCP), add, toggle, remove, save other sections | read, compute, lock, read again, write | no registration lost; names unique; locks given back |
| Knowledge (`semantic.py`, `api/knowledge.py`, MCP `graph_query`) | index and chunk index, parsed graph, response cache, stored answers | view, ask, explain, build index, nightly index, purge | everything is kept fresh by comparing modification times, read at one moment and used at another | nothing that counts as fresh belongs to another graph; no index outlives its graph |
| Extraction (`extraction.py`) | `graph.json` and `.extraction-cache.json` of a project | one run per night over changed files; restore after a rejected build | two files that must agree; a model that fails or runs out of credit half-way; kills | graph and cache of one piece; no file loses its place; incremental is as good as complete |
| Publishing (`tools/graphify-sync`, `backup.py`, the purge in `api/mapping.py`) | the hub's clone with its work tree, the backup clone, the remote, the status of the manual backup | copy, commit, push, fetch, rebase, abort; create, fetch, reset, add, commit, push, prune | two clones push one branch; the work tree is what the hub answers from; results of git that nobody looks at; kills | a backup called successful exists; nobody overwrites the other's part; the copy survives a failed push |
| Run log (`runlog.py`) | one file per run | start, project, finish, rotation | two runs in one second, read and write apart, builds that die with the server | no run unsays what another told; final is final |
| Setup wizard (`setup_wizard.py`, `backup_setup`) | the env file, the environment of the process, the vault's first key | submit, restart, passphrase of the backups | two submits that wait for their bodies, three files one after the other, crashes | a hub that is set up opens its vault; secrets shown stay good |
| Deployment (`deploy.sh`) | HEAD, ORIG_HEAD, the file `rollback-ziel`, the running commit | deploy, roll back, by hand or by itself | what to go back to after any history of pulls, rollbacks and aborted deployments | never back to the commit that failed |
| Health, LLM access, UI, pages, installation | none, or presentation | | | not modelled |

How they interact: sessions ask the vault for the password (`_password_ok`) and the second
factor, which is a secret of the vault; every login passes the rate limiter first. A build reads the
registry, works under the project lock, and publishes through the sync script; removing a project
purges its graphs under that lock and then saves the registry. A question reads what the sync has
published and builds the index under the same project lock. The switch script probes
`health.py` of a slot. Syncs, purges and backups push the same branch from two clones. The wizard, the deployment script
and crashes all restart the one server process, and with it end its builds in the run log.

## Modules

One specification module per component, an `MC` module with the instance's definitions, and
`.cfg` files. A line `\* MUTANT:` introduces a variant of the next definition with a plausible
bug; no specification uses it, it exists to show that the property notices the bug.

### Vault, SecretStore, Vault_proofs

`Vault` is the process/thread structure of `vault.py`: `rlock` is `_RLOCK`, `flock` the lock on
`vault.lock`, `mk[p]` the module variable `_mk`, `file` the content of `vault.enc`, `doc[t]` what
thread `t` has read. `Begin`, `TakeThreadLock`, `TakeFileLock` and `Leave` are `_transaktion`; the
actions in between are the bodies of the public functions, split where another process could look.
`Prove` (scrypt in `verify_password`) and `Derive` (scrypt in `unlock`, which holds no lock) are
steps of their own, because they take long and other threads run meanwhile. `Migrate` is
`_migrate_v1`, `Create` is `init` as the setup wizard calls it, `Crash(p)` ends one process.
`WriteFails` and `CreateFails` are the `OSError` of `_write_file`, in every call that writes: the old
file stays, and the exception leaves the transaction through its `finally`.

Simplifications: `_key()` reads `_mk` or the environment once per call; a file is replaced by
`os.replace`, so a write is one step and a crash leaves the old or the new file; a password is
itself, a wrap opens with exactly its word; the audit log (whose own failure raises after the change has
been made), the minimum length of a password and `lock()` (which the hub never calls) are left out.
`VAULT_KEY` is a constant: it does not change while the system runs. `OAUTH_PASSWORD` (`LegacyPassword`) is each process's own:
it is read from the environment the process was started with (`vault.py:277`).

Who can open the vault: `Opens(d)` holds of a document with a password wrap, or with an environment wrap that
`VAULT_KEY` opens. That it always holds (`CanBeReopened`) is false: a vault migrated without `OAUTH_PASSWORD` has
only the environment's wrap, and `set_auto_unlock(False)` takes that too (see below). What is true, and
checked on such vaults too, is `OnlyRestartLocksOut`: after the switch-off the key is still in the memory of the process
that did it, `change_password` can make a new wrap from it, and no login, failed proof, migration or failed write takes it
away; only a restart does. A vault made by the wizard has a password from the first moment and never loses it.

`SecretStore` is the abstract view of the callers: one map on which each `secret_get/set/delete`
takes effect at one instant between its call and its return, or is refused without effect.
`ImplementsSecretStore` says that `Vault` implements it, with the identity on the data (the
secrets of the file) and the answer of a call as soon as it is fixed.

### Sessions, Sessions_proofs

`db` is the file, `snap[r]` the copy request `r` has loaded, `loop` says which handler runs
between two awaits. Handlers that load and save without an await (`_token`, refresh,
`revoke_session`, login) own the loop meanwhile; `_authorize` awaits between load and save;
`logout` and the password change load and save in worker threads. `Save...` actions
write the loaded copy with the request's change, after `Pruned`; `SaveFails` is an `OSError` in
`_write_atomic`; `Restart` loses everything but the file.

The constant `Overlap` names the kinds of request that are served beside one another; every other
kind comes alone. It is not a feature of the code but a way to ask two questions: with
the handlers that never await in between, all properties hold; with the consent page or
the worker threads among them they do not (see below). `MaxPw` bounds password changes,
`MaxExpired` the number of items that expire, `MaxClients` is the code's constant made small. An
item may expire at any time, which covers every order of TTLs. Entries of older files without a
session id and the quarantine of an unreadable file are left out.

### TwoFactor, Login_proofs

`st` is the secret `__2fa__`. Since the vault's calls are atomic (`ImplementsSecretStore`) and
`enable`, `check` and `begin_setup` run inside one vault transaction, each is one step; the endpoints ask
`is_enabled` in one worker call and act in the next, so they are two. A TOTP code is the
secret it was computed from; recovery codes come in batches of two instead of eight.

`twofa_disable` asks for a code only if it finds the factor active, and switches off in a later call. So
"off only with a code" (`OffOnlyWithCode`) is false for a request that is overtaken by an activation; the history
variable `overtaken` names these requests, and `OffTakesACode` says that they are the only ones: no set-up, however it overlaps
with activations and other switch-offs, makes an active factor disappear.

### RateLimit, Login_proofs

`check`, `record_failure`, `record_success`, `throttle` and `unblock` are one step each (they hold
`_lock`), including the sweep they start with. An attempt that passed `check` is remembered in
`try` until its password check has ended. `now` is a clock that stops at `MaxTime`, which is the
bound of the run. `_persist` passes over an `OSError`: `Persist` writes the file or leaves the old one, and the history variable
`saved` tells whether the last write went through. A restart reads back what the file has, so `NothingForgotten` promises
the memory always and the file where `saved`; that a failed write and a restart do forget failures is a counterexample
below (`FailuresSurvive`). The cap on the number of addresses is modelled (`Capped`) but never reached in
the run: beyond it, the sweep drops counters by design, and `NothingForgotten` cannot hold.

### Builds, Builds_proofs

One project's directories, the workers that touch them and the locks between them: build threads
(`_build_worker`), the nightly run, the repair button, and add/remove on the event loop. A
generation is a graph (its quality and the build id it carries) and a manifest; `out`, `snap` and
`hub` are `graphify-out`, `.prev-generation` and the hub's copy. `Extract`, `Cluster`, `Fallback`
are the external programs: they may write any quality or fail, torn file included. `Gate` is
`finalize` and the zero-nodes check, `Restore` is `restore_generation`, `Crash` kills the server (all
its threads and their programs) or the nightly run. `DiskFull` is the path of a failed snapshot, manifest or restore.

History variables: `last` is the generation accepted last, `writer` who wrote the graph, `spoiled`
the projects whose build was cut off between its first write and its verdict (killed, no space
to restore) until the next acceptance. The sync is one step since it runs under the sync lock.

### SlotSwitch, SlotSwitch_proofs

One process per invocation of `switch.sh`; `pc` walks through the script: lock, guards, warm-up,
probe, `set_target`, observation, `state_update`, `persist_autostart`, `stop_standby`, and the
fallback. A refused lock or guard is no step. Health of a slot changes freely, a release is deployed to the standby slot
while no switch runs, the cooldown may end at any moment. `die` and `reboot` end the script
between any two steps; `torn` remembers a killed switch until another has run to its end. `systemctl` lets any `stop`, `enable` or `disable` of
the script fail, which it only logs: the standby slot stays online, or the boot units do not follow; the
history variable `warned` keeps which of the two failed when the switch was last recorded, and `BootFollows` says what is
left: without a warning for `enable` the active slot starts at boot, without one for `disable` no other does.

### Registry, ProjectList, Registry_proofs

`doc` is `config.yaml` with four sections. An MCP thread registers a project under `_projekt_lock`;
the event loop (`Loop`) performs the web interface's edits. Both compute a section from a first
read (`seen`), then `_update_yaml`: lock, read again (`fresh`), replace one section, write. Faults: the lock times out, the write fails, the process dies.
With `Overlap = FALSE` an edit of the project list by the web interface starts only when what it
read is current and no registration is running; edits of the other sections always overlap.
`ProjectList` is the abstract list: one registration, toggle or removal at a time.

### Knowledge, Content_proofs

What the hub answers from. A graph is its modification time (rsync keeps it, so the published copy has
the time of the file in `graphify-out`); every derived thing is a record of the graph it was made of and
the time it counts for. View requests follow `graph()`: the time on the event loop, then in a thread the
time again, then the file, then the cache entry on the loop. Questions follow `graph_query` and `graph_ask`:
`Read`, `Check`, the index build under the project lock (`IndexLock`, `IndexRead`, `IndexSave`),
the start nodes (`Seed`), the retries after an old format (`"force"` in `again`) and after an exception
(`"retry"`), the excerpts with their background thread, the stored answer, the model. `explain()` shares the
last part. Beside them run those that publish graphs (with the project lock, or without: `Unlocked`), the nightly
index run and the removal of the project, which runs on the event loop from end to end.

Two writers do not keep to the project lock. One is the repair (`Unlocked`), with which `IndexFresh` is false. The other is the
sync of another project: its rebase (`graphify-sync:55`) rewrites the work tree, this project's `graph.json` with it, and may leave an older one there for
a moment. It is in `Publish` (`ServedStays`), not here: `IndexFresh` speaks of publications under the lock only.

Simplifications: one project and one question; the generation bound in `semantic-index.meta.json` and the
project's notes in `graphify-out/memory` are left out. Waiting for the project lock is either getting it or giving up.

### Extraction, Content_proofs

The runs of `extraction.py` over one project. A file is the number of its content; an entry of the cache is the
hash it counts for, the content its facts are from, and whether a model gave them. `StartRun` is the
snapshot, the cache and the key; `Visit` one file of the loop with every outcome of `extract_file`; `WriteGraph` and
`WriteCache` the two files; `Accept` and `Reject` the build's verdict, which `Builds` has in
detail; `KillRun` the end between or within the two writes. `Edit` changes the tree at any time, during a run too.
The program that takes over when `extraction.py` fails itself (`server.py:404`) rewrites `graph.json` without the cache; it is in `Builds` only, so `GraphOfTheCache` says nothing of
a build that used it.

History variables: `clean` says that since the run began the model has answered and no file changed, `cut` that a
run was killed and no build was accepted since.

### SharedRemote, Publish, Content_proofs

`Publish` is how the knowledge repository leaves the machine. The hub's clone is `hub` (its branch: the graphs, the backups it
has seen, whether it is `ahead` of the remote or `behind` it), `wt` (its work tree, which the hub answers from) and
`mid` (a rebase that is going on). `Sync...` are the steps of `graphify-sync` under `sync-repo.lock`, one per git
command that changes something, `Purge...` those of `_purge_graph_data` and `_git_purge_commit`. The backup clone is
`clone`, `files` and `staged`; `Backup...` are the steps of `backup.run` for one target given by `url`, for the worker
thread of the manual backup and for the nightly run. What `git add`, `fetch` and `commit` return is not looked at, as in the code.
A push is taken from a branch that has all the remote's commits (`CanPush`), the only thing assumed of git.
`Kill` ends the server or the night's processes anywhere; git's state stays.

History variables: `synced` is what the last copy or purge put into the work tree, `reported` the backups a run called
successful. `Faults` and `Overlap` say what may go wrong and what may run beside what; the passing run leaves out what
the counterexamples below need: two backups at once, a removal during a rebase, a process killed during a rebase, a `git` command that fails
for no reason, a configuration that cannot be loaded.

`SharedRemote` is the remote as its two writers see it: one register of graphs and one set of backups; each step changes
one of them only, and a backup leaves it only for `Keep` newer ones. `ImplementsSharedRemote`
says that whole-tree pushes from two clones amount to that.

Left out: a local target, several targets, a target given by `repo`, the format and encryption of the
archive, `restore`, which writes into a folder of the user's.

### Service: RunLog, SetupWizard, Deploy, Service_proofs

Three modules of their own, each with its `Spec`, composed by `Service` through `INSTANCE`: they share the
server process. `RestartFromWizard`, `RestartFromScript`, `ServerCrashes` and `ServerBoots` are joint steps of all three:
a restart starts what lies in the work tree (`Deploy!Started`), reads the env file (`SetupWizard!Booted`) and ends the builds that
were to report into the log (`RunLog!Dead`).

`RunLog`: `runs` maps a run id (second and number) to its document. `project` and `finish` read the document, then write it whole, so
they are two steps (`Report` or `Finish`, then `Write`); `_rotiere` is part of every write. `Before` is the order of the file names, in which
`run-S-2.json` stands before `run-S.json`. The nightly run reports every project, a build of the server
one; a failed write ends a build's report and is ignored by the nightly run (`|| true`). The readers in `api/mapping.py` only show the files. The deletion after
60 days at the end of the night is a rotation by age and is left out.

`SetupWizard`: `env` is the env file (its `VAULT_KEY`, whether it has a passphrase), `live` the environment of the process, `vault` the key
the vault's env wrap was made with. `Submit` is the handler up to the body it awaits, `SetUp` the section under `_setup_lock`, which has no
await: its writes are numbered, and `EndsAfter` says after which of them it may end when the disk is full or the process dies. `_write_env` is not atomic: the file is
empty between two writes. The token goes with the key; `config.yaml` decides nothing here.

`Deploy`: commits are numbers of a linear history. `Begin`, `Pull`, `Save`, `Check`, `RestartService`, `Answers` or `GivesUp`, and `Reset` follow the script;
`RollbackByHand` is `--rollback`; `PullByHand` and `ServiceRestarts` happen outside it. A tree without git has nothing to go back to and is left out.

## Runs and bounds

| Run | Instance | Checks |
|---|---|---|
| `vault_two_processes` | server and job, one thread each, two passwords, three keys, one secret; the whole API; from no vault or an old one; only the server has `OAUTH_PASSWORD`, so an old vault is migrated with a password wrap or without; crashes and failing writes | `KeysOpenVault`, `SnapshotsAreCurrent`, `DataKeyIsForever`, `OnlyHolderChangesPassword`, `OnlyRestartLocksOut`, `FileLockReleased`, `ImplementsSecretStore` |
| `sessions` | two requests, four ids, one expiry, one password change, overlapping login/exchange/refresh/revoke, everything else alone | `RevokedStaysOut`, `UsedStaysOut`, `NothingLost`, `OneRefreshPerSession` |
| `twofactor_race` | two requests, two secrets, two batches of two recovery codes | `RecoveryOnce`, `ShownCodesWork`, `OffTakesACode` |
| `ratelimit` | one address, two attempts at once, limit 2, window 3, sweep every 2, clock to 6, writes that fail | `NothingForgotten`, `OvershootBounded`, `ThrottleBound` |
| `builds` | one build thread, the nightly run, add and remove, one project, crashes and full disk | `HubAccepted`, `AtRestAccepted`, `OwnGeneration` |
| `builds_ends` | a build thread, the repair button, removals, full disk, under fairness | `BuildEnds` |
| `switch` | two slots, two releases, two invocations, kills, reboots and failing `systemctl` calls | `ServedAtRest`, `BlockedNotServed`, `NoFlapping` |
| `registry` | two MCP threads, all web edits, three folders of which two share a name, all faults, under fairness | `UniqueNames`, `ImplementsProjectList`, `LocksReleased` |
| `knowledge` | one view and one question at a time, one build, the nightly index run, removals, two graphs | `IndexFresh`, `ResponseCurrent`, `NoGraphNoIndex` |
| `extraction` | two files with two contents each, any number of nights, kills | `GraphOfTheCache`, `CleanRunIsComplete`, `KnowledgeKept` |
| `publish` | one project with two generations, one build thread, the nightly run, the manual backup, two minutes, one backup kept; a dead network, a full disk, a failing rebase, a configuration that cannot be read, kills outside a rebase | `ReportedBackupsExist`, `CopyOutlivesPush`, `ImplementsSharedRemote` |
| `service` | two browsers, two keys, two commits, one script, one build thread and the nightly run with two run ids of one second; crashes, a full disk, no network | `ConfiguredOpens`, `ShownSecretsHold`, `GoesBackElsewhere`, `RunsAreFinal` |

Every module of a component states its type invariant `TypeOK` (`Shapes` in `Sessions`) and its inductive invariant `IInv` (`RemoteInv`, `BackupInv`
and `WorkTreeInv` in `Publish`); both can be added to the configurations. `Content_proofs` extends three components and `Login_proofs` two, so `Extraction`,
`Knowledge` and `RateLimit` name theirs apart from the others': `ExtractionSpec`, `KnowledgeInv`, `BrakeTypeOK` and so on.

Why these bounds are enough to be interesting: every race in this code is between two parties
around one shared file (a third only waits for the same lock), so two processes, two requests or
two threads show it. Three keys let two competing migrations or inits each draw one and leave
one over. Four ids let one session log in, refresh and leave a second session beside it. In
`ratelimit` the keys of the maps are independent but for the cap, so one address is enough; the
clock passes two windows, so hits leave a window while others stay. In `builds` the six build ids
are never used up (they can be in graphify-out, the snapshot, the hub, a copy and the history); one project suffices because
nothing but the cap on parallel builds connects two projects. In `builds_ends` build ids do not
matter and one is enough; the nightly run is off because its lock only delays a build there. In `knowledge` a second graph
is what makes anything stale; view and question run on one thread of the model, since they share no
state, and removals bring the case of no graph at all. In `extraction` contents recur, so a file can return to what it was, and
the second file is the one that is visited after the model has gone. In `publish` two generations
and two minutes tell an old copy from a new one and one backup from the next; with `Keep` = 1 every new backup prunes the one before. In `service` a second key is what a
wrong key is, and a second commit what there is to go back from; the run ids are the two that start in the same second.

Symmetry is used only for safety properties, over ids, requests, addresses and attempts, none of
which the specifications order.

## Fairness

Fairness is weak and stated per thread: whoever can take its next step eventually takes it.
- `Vault!FairSpec`: a thread inside a call goes on. Nothing in a transaction blocks but the locks;
  scrypt ends. `FileLockReleased` needs only the holder's progress.
- `Builds!FairSpec`: build threads, repairs and removals go on. The programs they run
  have timeouts (`server.py:363`, 30 minutes per step, and likewise the repair), and their end is a failed step of the model.
  The nightly run is off in the run under fairness: its programs have no such timeout, so nothing eventual is claimed of it. Starting a build,
  removing, and crashing are not fair: they need not happen.
- `Registry!FairSpec`: an MCP thread that has begun goes on, and so does the event loop. Waiting for the
  lock is bounded by ten seconds in `_config_lock`, so weak fairness is enough: a
  waiting writer can always either lock or give up.
- `Publish!FairSpec`, which only the counterexample to `BackupStatusEnds` below uses: a backup that has begun goes on: its git commands have timeouts of 300 s (30 s for one of them, `backup.py:249-278`), and
  their end is a failed step of the model. Nothing is assumed of syncs, whose push has no timeout.
The other specifications state no fairness and check safety only.

## Proofs

Every safety property that a run checks is also proved, for every value of the constants that
satisfies the hypotheses below: any number of processes, threads, requests, ids, keys, generations, files and
minutes. `TypeCorrect` (`BranchesStayWellFormed` for `Publish`) is `Spec => []TypeOK` of the module and is left out of the table.

| Module | Theorem | States | Under |
|---|---|---|---|
| `Vault_proofs` | `KeysAlwaysOpen` | `[]KeysOpenVault` | |
| | `NoLostUpdate` | `[]SnapshotsAreCurrent` | |
| | `DataKeyFixed` | `DataKeyIsForever` | |
| | `PasswordProved` | `OnlyHolderChangesPassword` | |
| | `VaultIsASecretStore` | `ImplementsSecretStore` | |
| | `NoCallLocksOut` | `OnlyRestartLocksOut` | |
| `Sessions_proofs` | `LoggedOutForGood` | `[]RevokedStaysOut` | `Overlap \subseteq LoopKinds`, here and below |
| | `UsedForGood` | `[]UsedStaysOut` | |
| | `HandedOutIsKept` | `[]NothingLost` | |
| | `SessionsNeverFork` | `[]OneRefreshPerSession` | |
| `Login_proofs` | `RecoveryCodeWorksOnce` | `[]RecoveryOnce` | |
| | `ShownCodesAreTheStoredOnes` | `[]ShownCodesWork` | |
| | `SwitchOffTakesACode` | `OffTakesACode` | |
| | `FailuresAreRemembered` | `BrakeSpec => []NothingForgotten` | finitely many attempts, at most `MaxKeys` addresses, here and below |
| | `OvershootHasABound` | `[]OvershootBounded` | |
| | `ThrottleHasABound` | `[]ThrottleBound` | |
| `Builds_proofs` | `OnlyAcceptedIsServed` | `[]HubAccepted` | `Repairers = {}`, here and below |
| | `RestHoldsTheLast` | `[]AtRestAccepted` | |
| | `BuildsJudgeTheirOwn` | `OwnGeneration` | |
| | `NothingSpoiledNothingLost` | `[]LastGoodKept` | `Faults = {}` too |
| `SlotSwitch_proofs` | `SwitchesEndInOrder` | `[]ServedAtRest` | |
| | `BlockedStaysOut` | `BlockedNotServed` | |
| | `CooldownHolds` | `NoFlapping` | |
| `Registry_proofs` | `NamesStayApart` | `[]UniqueNames` | |
| | `NoSectionIsLost` | `OneSectionAWrite` | |
| | `ListIsAtomic` | `ImplementsProjectList` | `~Overlap` |
| `Content_proofs` | `CacheAndGraphMatch` | `ExtractionSpec => []GraphOfTheCache` | |
| | `IncrementalIsComplete` | `[]CleanRunIsComplete` | |
| | `NoFileIsForgotten` | `KnowledgeKept` | |
| | `FreshMeansCurrent` | `KnowledgeSpec => []IndexFresh` | `Unlocked = {}`, here and below |
| | `ViewsAreCurrent` | `[]ResponseCurrent` | |
| | `NoIndexWithoutGraph` | `[]NoGraphNoIndex` | |
| | `WritersStayApart` | `ImplementsSharedRemote` | no two backups at once |
| | `BackupsLast` | `[]ReportedBackupsExist` | no two backups at once, no `git` command that fails for no reason |
| | `CopyIsServed` | `[]CopyOutlivesPush` | no removal during a rebase, no kill during a rebase |
| `Service_proofs` | `SetUpHubOpens` | `[]ConfiguredOpens` | |
| | `ShownSecretsStayGood` | `[]ShownSecretsHold` | |
| | `NeverBackToWhatFailed` | `[]GoesBackElsewhere` | one deployment script |
| | `FinalIsFinal` | `RunsAreFinal` | no two runs that draw one id |

**Assumptions.** Each module states what it takes of its constants in one or several named
`ASSUME`s (sentinels are not ordinary values, a thread runs in a process, a limit is a number), which
TLC evaluates in the runs.
The hypotheses in the last column mark the edge of what is true: for each there is a counterexample in the next section, in which the code does
what the hypothesis excludes and breaks a property proved under it (an overlap of handlers, a repair beside a build, two backups at
once, a second script, ...). The exceptions are those of `RateLimit`: there are finitely many attempts, and beyond `MaxKeys` addresses the sweep drops counters by design.

**The argument.** None of these properties is inductive by itself. What a step writes is right because of what
the actor read some steps ago, which is right because of a lock, or because nothing runs in between, which depends on
where everybody is. So each module has an inductive invariant that says these things, one lemma per action
that shows the action keeps it, and the theorems follow from it. TLC checked each of them on the
module's run first.

- `Vault!IInv`: both locks are held inside a transaction (`LocksHeld`), which call can be where and when
  its answer is fixed (`CallsFit`), what a thread has read is the file itself, or in `unlock`, which holds no lock, an old document
  whose password still opens it (`ReadsFit`), a vault is created once (`OneWizard`). For `NoCallLocksOut` each step is
  looked at for what it takes away (`StepKeepsAWayIn`): whoever writes has the file's key in memory, and the only step that puts an older key back is the failure of a proof, which only a vault with a password asks for.
  In the refinement every save maps to `Set` or `Delete`, the load of a get to `Get`, leaving to `Return`, all else to a stutter.
- `Sessions!IInv`: whoever is between load and save is alone (`ServedAlone`), so the copies are current (`CopiesAreCurrent`) and what a request
  names is still there when it has loaded the file (`NamedIsThere`); an id means one thing for good, and a session is named after its first token (`EntriesStand`).
- `TwoFactor!IInv`: the codes stored were made and shown, and an accepted code is struck off and never made again (`CodesTracked`); who is about to switch off has proved the factor that is stored, or was overtaken (`ProvedStands`).
- `RateLimit!BrakeInv`: the newest entry is the last (`LastIsNewest`), so a swept key had none in the window; the file holds fewer failures of a window than the bound, so neither does a memory read back from it (`FileWithinBound`); the failures of an address and the attempts
  under way are together below the limit plus all attempts (`UnderWay`); and at any later time the list of calls counts at least those let through (`CallsListed`),
  which holds although only `Limit + 1` entries are kept, because a list that long already refuses. It rests on lemmas about `Within`, the sliding window: of two windows
  one after the other the later one remains (`WithinTwice`), a list whose last entry is out has none left (`WithinNone`), without its first entry a list counts at most one less (`WithinTail`).
  They are proved by taking a shortest list that contradicts them (`ByLastEntry`).
- `Builds!IInv`: the locks (`LocksHeld`), where the generation accepted last is (in `graphify-out`, or in the snapshot while a build writes, unless it was spoiled: `WhereTheLastIs`),
  that what a worker is about to judge is its own and what it is about to publish accepted (`Judged`), and that a generation id stands only on a graph that passed the gate (`GatedGraphs`).
- `SlotSwitch!IInv`: one switch holds the lock (`LockHeld`), proxy, state file, boot (but for a warning) and slots are what the script has made of them at each of its
  lines (`Places`), and a fallback that forgot its rest is cooling down or about to (`Cooled`).
- `Registry!IInv`: what a writer has read under the lock is the file (`FreshIsCurrent`), and every list it holds, current or not, has unique names, since what is added was checked against that very list (`HeldListsApart`).
  In the refinement the write is the operation; without overlap it is one change of the list it meets.
- `Extraction!ExtractionInv`: unless a run was killed, a build finds graph and cache matching and has such a pair to put back (`InStep`), no visit takes the last facts of a file (`KeptSoFar`), and while
  the model answers and no file changes, what was visited is up to date (`CleanSoFar`).
- `Knowledge!KnowledgeInv`: nobody holds a time that is still to come (`Dated`), so a graph that is being published is newer than all anybody has seen (`Newer`); what a view is about to keep under the
  time of the published graph is that graph (`ViewsFit`); and the project lock is held from the reading of the graph to the saving of its index (`LocksHeld`, `IndexFits`).
- `Publish`: `TypeInv` (with what a rebase replays), `RemoteInv` (a clone that is not behind has the remote's commits: `HubFits`, `CloneFits`) for the refinement,
  `BackupInv` (a reported backup is on the remote, or `Keep` newer ones are) and `WorkTreeInv` (the copy is in the work tree, or comes back at the end of the
  rebase). That pruning twice, in two clones, drops no backup that has fewer than `Keep` newer ones (`PruningKeeps`, `PruningTwice`) is proved
  with the last of the backups dropped, which finite sets have.
- `RunLog!IInv`, `SetupWizard!IInv`, `Deploy!IInv`: a writer has the only claim to its run, and the document in its hand unsays nothing of the file (`RunsOwned`, `InHand`); neither the env file nor the server has a key other than the vault's, and a
  passphrase shown is in both (`KeysFit`, `PassphraseKept`); every goal a rollback may take lies behind the commit that is deployed (`GoalsBehind`). `Service` keeps all three: a step of one leaves the variables of
  the others, and the joint steps (restarts, crashes) are looked at one by one.

**Only model-checked.** What must eventually happen: `FileLockReleased`, `BuildEnds` and `LocksReleased`
need fairness, which these provers do not handle. The counterexamples below, of course.

## Where code and comments disagree

Counterexamples, each found by TLC in a configuration of its own (`tlc -config <cfg> <MC module>`) or in a run's
configuration with the change that is named, checking the property in the second column:

| Configuration | Property | What happens | What the source says |
|---|---|---|---|
| `MCRegistry_lost.cfg` | `ImplementsProjectList` | The web interface saves a project list it read before an MCP thread registered a project (`mapping.py:583`): the registration is lost, because `save_projects` replaces the whole list. | `config.py:193-197`, `server.py:583-586` "weil Lesen–Anhängen–Schreiben sonst Einträge verliert" |
| `vault_two_processes` | `CanBeReopened` | An old vault migrated without `OAUTH_PASSWORD` has only the environment's wrap; `set_auto_unlock(False)` (`vault.py:435`) removes the last one. | `vault.py:420-421` "gesperrt, bis sich jemand anmeldet" |
| `MCVault_typo.cfg` | `StaysUnlocked` | A mistyped old password in `change_password` puts back the key `verify_password` remembered (`vault.py:409`), over what a login set during its scrypt. | `vault.py:408` "ohne den Zustand zu ändern" |
| `MCSessions_consent_revoked.cfg` | `RevokedStaysOut` | The consent page loads the file (`oauth.py:442`), awaits the password check, and saves that copy (485): a session revoked in between is back. | `oauth.py:190` "Access- UND Refresh-Token verfallen sofort" |
| `MCSessions_consent_code.cfg` | `UsedStaysOut` | The same stale save of the consent page brings a used code or a rotated refresh token back. | `oauth.py:597` "Codes sind einmalig", `:616` "altes Refresh-Token stirbt" |
| `sessions` with `Overlap <- WithThreads`, `MaxPw = 0`, `MaxExpired = 0` | `RevokedStaysOut` | Logout revokes in a worker thread; a handler between load and save writes the session back (`api/auth.py:74`). | `api/auth.py:64` "verfällt sofort" |
| `MCSessions_password.cfg` | `NewLoginDue` | A code issued before a password change is exchanged after it (`oauth.py:210` leaves codes alone). | `api/auth.py:149-152` "Neu-Anmeldung wird überall fällig" |
| `MCTwoFactor_disable.cfg` | `OffOnlyWithCode` | `twofa_disable` finds the factor off, another request activates it, `disable()` switches it off without a code (`system.py:169`). | `system.py:148` "verlangt einen gültigen Code" |
| `MCRateLimit_parallel.cfg` | `FailuresBounded` | Attempts that passed `check` together all fail (`api/auth.py:35`); the excess is bounded (`OvershootBounded`). | `ratelimit.py:26` "5 Fehlversuche / 15 min" |
| `ratelimit` | `FailuresSurvive` | The file of the failures cannot be written (`ratelimit.py:88` passes over it), and the server restarts: the failures are forgotten, and a blocked address is let in again. | `ratelimit.py:20` "Sperren überstehen einen Neustart" |
| `ratelimit` with `Attempts = {p}`, `MaxTime = 5`, `Calls = {"throttle"}` | `OneFirstRejection` | As the window slides, a client that stays blocked is "just blocked" again (`ratelimit.py:164`). | `ratelimit.py:152` "genau beim ersten abgelehnten Aufruf wahr" |
| `builds` with `Faults = {"crash"}` | `LastGoodKept` | A build dies after it has begun to write. The next build snapshots the half-built state over the good `.prev-generation` (`buildmeta.py:187`), fails, and the accepted generation is gone. | `server.py:389-390` "ein Build, der mittendrin stirbt, darf den gesunden Graphen nicht ersetzen" |
| `builds` with `Builders = {}`, `Faults = {"disk"}` | `LastGoodKept` | The nightly run goes on after a failed snapshot (`nightly-map.sh:109`) and later restores an older generation. | `nightly-map.sh:108` "aktuelle Generation sichern, bevor der Build sie anfasst" |
| `builds` with `Repairers = {r1}`, `Faults = {}` | `OwnGeneration` | The repair button takes no project lock (`mapping.py:1077`) and writes into a running build. | `server.py:291-293` "dürfen NIE gleichzeitig dasselbe Projekt bauen" |
| the same | `HubAccepted` | The repair button publishes without the gate (`mapping.py:1089`). | `server.py:428-429` "nur eine validierte Generation ... darf veröffentlicht werden" |
| `builds` with `Builders = {}`, `Faults = {}` | `GraphsRegistered` | The nightly run read the list of projects once (`nightly-map.sh:63`) and maps a project removed since. | `README.md:102` "Every visible graph belongs to exactly one registered project" |
| `MCKnowledge_answers.cfg` | `StoredAnswersCurrent` | A build publishes while the model answers; `_antwort_schreiben` computes the key with the graph's time by then (`api/knowledge.py:248`), and the answer made from the old graph is served for the new one. | `api/knowledge.py:215-217` "eine veraltete Erklärung wäre schlimmer als gar keine" |
| `MCKnowledge_repair.cfg` | `IndexFresh` | The repair button publishes without the project lock while an index is built: the index of the old graph is the newer file and counts as fresh. | `semantic.py:193-194` "dieselbe Ordnung wie Graph-Build, Purge und Nachtlauf" |
| `MCKnowledge_answers.cfg` with `Trees = {1, 2}` | `ChunksOfTheTree` | Removing a project deletes the folder `chunk-index/<name>`, but the index is the file `<name>.npz` (`mapping.py:685`): a project registered under that name later is answered with excerpts of the removed one. | `mapping.py:642-643` "Löscht ALLE Graph-Artefakte eines Projekts" |
| `extraction` with `Files = {f1}`, `Crashes = FALSE` | `FailuresAreMadeUpFor` | When the model fails on a changed file, its old facts get the new hash (`extraction.py:536`): the file is not tried again until it changes once more. | `extraction.py:534` "alter Stand bleibt, statt Wissen zu verlieren" |
| `switch` with `Faults = {"die"}` | `RebootServes` | A switch that ends between `set_target` (`switch.sh:206`) and `persist_autostart` leaves the proxy on a slot that a reboot does not start. | `switch.sh:78-79` "Damit ein Reboot NICHT den falschen/keinen Slot hochbringt" |
| `switch` with `Faults = {"systemctl"}` | `RebootServes` | `enable` of the new slot fails and `disable` of the old one does not (`switch.sh:85-88`): the switch ends well, and after a reboot no slot starts. | the same; but `:80-81` "Ein Fehlschlag ist kein Switch-Abbruch" |
| `switch` with `Faults = {}` | `RefusedUnchanged` | The gate starts the standby slot (`switch.sh:193`), refuses the switch and leaves the slot running. | `switch.sh:8-9` "keine Änderung (Exit 69/65)" |
| `switch` with `Faults = {}` | `FailedBlocked` | A fallback where no active slot is recorded (`switch.sh:218`) does not block the release. | `switch.sh:13-15` "Release wandert in die Blockliste" |
| `publish` with `Overlap = {"backups"}` | `ReportedBackupsExist` | The manual and the nightly run share the backup clone without a lock: `reset --hard` of one drops the commit of the other (`backup.py:283`), whose push then has nothing to push, returns 0 (`:310`), and the backup is reported. | `backup.py:320-321` "an alle konfigurierten Ziele verteilen" |
| `publish` with `Faults = {"git"}` | `ReportedBackupsExist` | `git add` or `git commit` fails (`backup.py:296-308` look at no result): nothing is pushed, success is reported. | the same |
| `publish` with `Faults = {"kill", "cut"}` | `CopyOutlivesPush` | The sync dies during its rebase. The next sync commits on the detached HEAD, its push of `main` is rejected, its rebase is refused, and `rebase --abort` takes the fresh copy out of the work tree (`graphify-sync:62`). | `graphify-sync:50-51` "NIE vom Remote-Zustand abhängig" |
| `publish` with `Overlap = {"purge"}`, `Faults = {"rebase"}`, two projects | `CopyOutlivesPush` | A removal deletes graphs while a rebase goes on, since only its commit takes the sync lock (`mapping.py:673`): the abort of the rebase brings them back. | `mapping.py:622-625` "sonst verzahnen sich rsync und git mitten im Lauf" |
| `publish` with `Faults = {}` | `ServedStays` | While a rebase goes on, the work tree, which the hub answers from, is the remote's. | `graphify-sync:50` "Der lokale Sync (Hub liest von hier)" |
| `publish` with `Faults = {"offline"}` | `SkippedIsPublished` | A commit whose push failed is not pushed by the next sync if the graph is unchanged: the script ends before (`graphify-sync:33-36`). | `graphify-sync:50` "der nächste Sync versucht es erneut" |
| `publish` under `FairSpec` | `BackupStatusEnds` | `backup_now` sets "running" (`system.py:322`) and then fails to load the configuration (`:328`): no backup can be started until the server restarts. | `system.py:321` "Sicherung läuft bereits" |
| `service` with `Faults = {"kill"}` or `{"disk"}` | `ConfiguredMeansShown` | The wizard ends after `vault.init` and before its answer (crash, or `config.yaml` cannot be written): the hub is set up, and its key was never shown. | `setup_wizard.py:10-12` "Sicherheitskritisches (Vault-Key sichern!) klar kommuniziert" |
| `service` with `Faults = {"disk"}` | `EnvKeepsKey` | `backup_setup` rewrites the env file in place (`setup_wizard.py:70`): with a full disk the key is gone, and the wizard refuses a hub that has a vault. | `setup_wizard.py:50-51` "sonst könnte ein halb eingerichtetes System vom Wizard überschrieben werden" |
| `service` with `Faults = {"offline"}` | `NeverBackToFailed` | A deployment without network after a rollback finds no goal but the file's, which is the commit it deploys (`deploy.sh:133-135`). | `deploy.sh:18-19` "niemals auf den gerade (fehl-)deployten Stand" |
| `service` with `Scripts = {d1, d2}`, `Faults = {}` | `GoesBackElsewhere` | Two deployments at once: the script takes no lock. | the same |
| `service` with `Faults = {"overlap"}` | `RunsAreFinal` | Two runs find the same id free before either has written its file (`runlog.py:101`). | `runlog.py:99` "eindeutig machen statt überschreiben" |

## What is not modelled

Every component and its status is listed in `PROJECT.json`. In short: embedding and ranking
(numeric), how facts are taken from a text, encryption and archive formats (data transformations), provider calls,
pages and translations (no state), installation scripts (run once). Of the vault, sessions, rate limits, backup, wizard and deployment
single operations are left out, named in the module sections above and in the notes of `PROJECT.json`. Durations are not modelled: timeouts may fire at any time.

## Plan

Done: the modules above, in the order vault, sessions, second factor, rate limits, builds, switch,
registry, knowledge, extraction, publishing, run log, setup wizard, deployment; their proofs.

Next, extending the model: `Login`, which is to compose `Sessions`, `TwoFactor` and `RateLimit` with the vault's
password version; `Restore` of a backup into a running hub.

Next, proofs: that with overlapping awaits `Sessions` still keeps what no stale save can break, that a repair beside a build (`Repairers`) spoils nothing but the
generation it writes into, and `ThrottleBound` and `NothingForgotten` beyond `MaxKeys` for the addresses the sweep keeps.
