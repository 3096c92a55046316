------------------------------ MODULE Publish ------------------------------
(* How the knowledge repository leaves the machine.  Two clones push the same *)
(* branch: the hub's work tree, which it also answers from (sync of a graph,   *)
(* purge of a project, both under sync-repo.lock), and the clone of backup.py  *)
(* (manual run of the server, nightly run, no lock).  A push fails when the    *)
(* other clone was faster, or for any reason of the network's.                 *)
EXTENDS Integers, FiniteSets

CONSTANTS Projects, MaxGen, Minutes, Keep,  \* as in SharedRemote
          Builders,     \* build threads of the server that sync
          Night,        \* the nightly run
          Manual,       \* the worker thread of the manual backup
          None,
          Faults,       \* {"offline", "disk", "kill", "rebase", "config", "git", "cut"}
          Overlap       \* {"backups", "purge"}: what may run beside what, see below

VARIABLES
    gen,      \* accepted generation in the project's graphify-out, 0 is none
    wt,       \* graphs in the hub's work tree: what the hub answers from
    hub,      \* branch main of the hub's clone
    mid,      \* the rebase that is going on there, or None
    sync,     \* holder of sync-repo.lock and its place in the script
    purge,    \* the project whose removal is still to be committed, or None
    remote,   \* branch main of the remote
    clone,    \* branch main of the backup clone
    files,    \* backups in the work tree of that clone
    staged,   \* its work tree differs from its branch only by what is added
    backup,   \* per process: the backup run in progress
    running,  \* whether _backup_run["status"] is "running"
    minute,   \* the clock, as far as names of backups show it
    synced,   \* history: what the last copy or purge put into the work tree
    reported  \* history: backups a run called successful

hubVars    == <<gen, wt, hub, mid, sync, purge, synced>>
backupVars == <<clone, files, staged, backup, running, minute, reported>>
publishVars == <<hubVars, remote, backupVars>>

Syncers == Builders \cup {Night}
Backers == {Manual, Night}
Graphs  == [Projects -> 0..MaxGen]
Branch  == [graph: Graphs, backups: SUBSET Minutes, ahead: BOOLEAN, behind: BOOLEAN]
Onto    == [graph: Graphs, backups: SUBSET Minutes, behind: BOOLEAN]
NoSync  == [who |-> None, p |-> None, step |-> "idle"]
NoBackup == [step |-> "idle", name |-> 0]

ASSUME PublishAssumption ==
    /\ MaxGen \in Nat /\ Keep \in Nat \ {0} /\ Minutes \subseteq Nat /\ Minutes # {}
    /\ Night \notin Builders /\ Manual # Night /\ None \notin Projects \cup Branch \cup Onto

Newest(fs) == {f \in fs : Cardinality({g \in fs : g > f}) < Keep}

HubType ==
    /\ gen \in Graphs /\ wt \in Graphs /\ synced \in Graphs
    /\ hub \in Branch /\ mid \in Onto \cup {None}
    /\ sync \in [who: Syncers \cup {None}, p: Projects \cup {None},
                 step: {"idle", "commit", "push", "rebase", "replay", "again", "abort", "purge"}]
    /\ purge \in Projects \cup {None}

BackupType ==
    /\ clone \in Branch \cup {None}
    /\ files \subseteq Minutes /\ reported \subseteq Minutes /\ staged \in BOOLEAN /\ running \in BOOLEAN
    /\ backup \in [Backers -> [step: {"idle", "create", "fetch", "write", "add", "commit", "push"},
                               name: Minutes \cup {0}]]
    /\ minute \in Minutes

TypeOK == HubType /\ BackupType /\ remote \in [graph: Graphs, backups: SUBSET Minutes]

Init ==
    LET none == [p \in Projects |-> 0] IN
    /\ gen = none /\ wt = none /\ synced = none
    /\ hub = [graph |-> none, backups |-> {}, ahead |-> FALSE, behind |-> FALSE]
    /\ remote = [graph |-> none, backups |-> {}]
    /\ mid = None /\ sync = NoSync /\ purge = None
    /\ clone = None /\ files = {} /\ staged = FALSE
    /\ backup = [w \in Backers |-> NoBackup]
    /\ running = FALSE /\ reported = {}
    /\ minute = CHOOSE m \in Minutes : \A n \in Minutes : m <= n

------------------------------------------------------------------------------
\* The hub's clone.

\* What the checked-out commit holds: a commit of the rebase while one goes on.
CheckedOut == IF mid = None THEN hub.graph ELSE mid.graph

\* A build was accepted.
Rebuild(p) ==
    /\ sync.p # p
    /\ \E g \in 1..MaxGen \ {gen[p]} : gen' = [gen EXCEPT ![p] = g]
    /\ UNCHANGED <<wt, hub, mid, sync, purge, synced, remote, backupVars>>

\* The script gets the lock and copies the generation: rsync renames files into
\* place, so a copy that fails has replaced the graph or not.
SyncBegin(a, p) ==
    /\ sync = NoSync /\ gen[p] # 0
    /\ wt' = [wt EXCEPT ![p] = gen[p]]
    /\ synced' = [synced EXCEPT ![p] = gen[p]]
    /\ \/ sync' = [who |-> a, p |-> p, step |-> "commit"]
       \/ "disk" \in Faults /\ UNCHANGED sync
    /\ UNCHANGED <<gen, hub, mid, purge, remote, backupVars>>

\* The work tree becomes a commit of the checked-out branch.
Commit == IF mid = None THEN /\ hub' = [hub EXCEPT !.graph = wt, !.ahead = TRUE]
                             /\ UNCHANGED mid
                        ELSE /\ mid' = [mid EXCEPT !.graph = wt]
                             /\ UNCHANGED hub

SyncCommit ==
    /\ sync.step = "commit"
    /\ \/ /\ wt = CheckedOut
          /\ sync' = NoSync
          /\ UNCHANGED <<hub, mid>>
       \/ /\ wt # CheckedOut
          /\ Commit
          /\ sync' = [sync EXCEPT !.step = "push"]
       \/ /\ wt # CheckedOut /\ "disk" \in Faults
          /\ sync' = NoSync
          /\ UNCHANGED <<hub, mid>>
    /\ UNCHANGED <<gen, wt, purge, synced, remote, backupVars>>

\* MUTANT: the push is forced
CanPush_Forced(branch) == TRUE
\* git takes a push only from a branch that has all the remote's commits.
CanPush(branch) == ~branch.behind

\* main of the hub replaces the remote's; the backup clone falls behind.
HubPushed ==
    /\ remote' = [graph |-> hub.graph, backups |-> hub.backups]
    /\ hub' = [hub EXCEPT !.ahead = FALSE]
    /\ clone' = IF clone # None /\ hub.ahead THEN [clone EXCEPT !.behind = TRUE] ELSE clone

SyncPush ==
    /\ sync.step \in {"push", "again"}
    /\ \/ /\ CanPush(hub)
          /\ HubPushed
          /\ sync' = NoSync
       \/ /\ ~CanPush(hub) \/ "offline" \in Faults
          /\ sync' = IF sync.step = "push" THEN [sync EXCEPT !.step = "rebase"] ELSE NoSync
          /\ UNCHANGED <<hub, remote, clone>>
    /\ UNCHANGED <<gen, wt, mid, purge, synced, files, staged, backup, running, minute, reported>>

\* git fetch and the start of git rebase, which checks out the remote's branch.
\* It refuses a work tree with changes, and a second rebase.
SyncRebase ==
    /\ sync.step = "rebase"
    /\ \/ /\ mid = None /\ wt = hub.graph
          /\ IF hub.behind
             THEN /\ mid' = [graph |-> remote.graph, backups |-> remote.backups, behind |-> FALSE]
                  /\ wt' = remote.graph
                  /\ sync' = [sync EXCEPT !.step = "replay"]
             ELSE /\ sync' = [sync EXCEPT !.step = "again"]
                  /\ UNCHANGED <<mid, wt>>
       \/ /\ mid # None \/ wt # hub.graph \/ "offline" \in Faults
          /\ sync' = [sync EXCEPT !.step = "abort"]
          /\ UNCHANGED <<mid, wt>>
    /\ UNCHANGED <<gen, hub, purge, synced, remote, backupVars>>

\* MUTANT: rebase -X ours: at a conflict the remote's graph wins
Replayed_Ours == mid.graph
\* The hub's own commits on top of the remote's: nobody else writes graphs, and at
\* a conflict -X theirs takes the replayed commit.
Replayed == hub.graph

\* What was removed from the work tree meanwhile stays removed.
SyncReplay ==
    /\ sync.step = "replay"
    /\ \/ /\ hub' = [graph |-> Replayed, backups |-> mid.backups, ahead |-> TRUE, behind |-> mid.behind]
          /\ wt' = [p \in Projects |-> IF wt[p] = mid.graph[p] THEN Replayed[p] ELSE wt[p]]
          /\ mid' = None
          /\ sync' = [sync EXCEPT !.step = "again"]
       \/ /\ "rebase" \in Faults
          /\ sync' = [sync EXCEPT !.step = "abort"]
          /\ UNCHANGED <<hub, wt, mid>>
    /\ UNCHANGED <<gen, purge, synced, remote, backupVars>>

\* git rebase --abort: back to main, if a rebase is going on.
SyncAbort ==
    /\ sync.step = "abort"
    /\ wt' = IF mid = None THEN wt ELSE hub.graph
    /\ mid' = None
    /\ sync' = NoSync
    /\ UNCHANGED <<gen, hub, purge, synced, remote, backupVars>>

\* _purge_graph_data removes the graphs under the project lock, without the sync
\* lock.  Without "purge" in Overlap it does not happen during a rebase.
PurgeRemove(p) ==
    /\ purge = None /\ sync.p # p /\ wt[p] # 0
    /\ mid = None \/ "purge" \in Overlap
    /\ wt' = [wt EXCEPT ![p] = 0]
    /\ gen' = [gen EXCEPT ![p] = 0]
    /\ synced' = [synced EXCEPT ![p] = 0]
    /\ purge' = p
    /\ UNCHANGED <<hub, mid, sync, remote, backupVars>>

\* _git_purge_commit: under the lock, or not at all after a minute; a failed commit goes unnoticed.
PurgeCommit ==
    /\ purge # None
    /\ \/ sync # NoSync /\ purge' = None /\ UNCHANGED <<hub, mid, sync>>
       \/ sync = NoSync /\ wt = CheckedOut /\ purge' = None /\ UNCHANGED <<hub, mid, sync>>
       \/ /\ sync = NoSync /\ wt # CheckedOut
          /\ sync' = [NoSync EXCEPT !.step = "purge"]
          /\ \/ Commit
             \/ "disk" \in Faults /\ UNCHANGED <<hub, mid>>
          /\ UNCHANGED purge
    /\ UNCHANGED <<gen, wt, synced, remote, backupVars>>

PurgePush ==
    /\ sync.step = "purge"
    /\ sync' = NoSync /\ purge' = None
    /\ \/ CanPush(hub) /\ HubPushed
       \/ (~CanPush(hub) \/ "offline" \in Faults) /\ UNCHANGED <<hub, remote, clone>>
    /\ UNCHANGED <<gen, wt, mid, synced, files, staged, backup, running, minute, reported>>

------------------------------------------------------------------------------
\* The backup clone.

Moves(w, step) == backup' = [backup EXCEPT ![w].step = step]

\* How run() ends: for the manual run the worker thread publishes it in _backup_run.
Ended(w, ok) ==
    /\ backup' = [backup EXCEPT ![w] = NoBackup]
    /\ running' = (running /\ w # Manual)
    /\ reported' = IF ok THEN reported \cup {backup[w].name} ELSE reported

\* Without "backups" in Overlap, the manual and the nightly run do not meet.
MayBegin(w) == \A v \in Backers : backup[v].step = "idle" \/ (v # w /\ "backups" \in Overlap)

\* backup_now: one manual run at a time.  The configuration is read after the
\* status is set; if that fails there is no thread.
BackupNow ==
    /\ ~running /\ MayBegin(Manual)
    /\ running' = TRUE
    /\ \/ Moves(Manual, "create")
       \/ "config" \in Faults /\ UNCHANGED backup
    /\ UNCHANGED <<hubVars, remote, clone, files, staged, minute, reported>>

NightBackup ==
    /\ MayBegin(Night)
    /\ Moves(Night, "create")
    /\ UNCHANGED <<hubVars, remote, clone, files, staged, running, minute, reported>>

\* create() may find nothing or fail; the name is taken from the clock.
BackupCreate(w) ==
    /\ backup[w].step = "create"
    /\ \/ /\ backup' = [backup EXCEPT ![w] = [step |-> "fetch", name |-> minute]]
          /\ UNCHANGED <<running, reported>>
       \/ "disk" \in Faults /\ Ended(w, FALSE)
    /\ UNCHANGED <<hubVars, remote, clone, files, staged, minute>>

Fetched == [graph |-> remote.graph, backups |-> remote.backups, ahead |-> FALSE, behind |-> FALSE]

\* Clone, or fetch and reset --hard: files that were added go, files that were not stay.
Reset == /\ clone' = Fetched
         /\ files' = remote.backups \cup
                     (IF staged \/ clone = None THEN {} ELSE files \ clone.backups)
         /\ staged' = FALSE

\* A failed clone ends the run; a failed fetch is not noticed.
BackupFetch(w) ==
    /\ backup[w].step = "fetch"
    /\ \/ Reset /\ Moves(w, "write") /\ UNCHANGED <<running, reported>>
       \/ /\ "offline" \in Faults
          /\ IF clone = None THEN Ended(w, FALSE)
                             ELSE Moves(w, "write") /\ UNCHANGED <<running, reported>>
          /\ UNCHANGED <<clone, files, staged>>
    /\ UNCHANGED <<hubVars, remote, minute>>

\* The file is written atomically, older ones beyond the newest Keep are removed.
BackupWrite(w) ==
    /\ backup[w].step = "write"
    /\ \/ /\ files' = Newest(files \cup {backup[w].name})
          /\ Moves(w, "add")
          /\ UNCHANGED <<running, reported>>
       \/ "disk" \in Faults /\ Ended(w, FALSE) /\ UNCHANGED files
    /\ UNCHANGED <<hubVars, remote, clone, staged, minute>>

\* If nothing was added, there is "no change" and the target counts as done.
BackupAdd(w) ==
    /\ backup[w].step = "add"
    /\ \/ Moves(w, "commit") /\ staged' = TRUE /\ UNCHANGED <<running, reported>>
       \/ "git" \in Faults /\ Ended(w, TRUE) /\ UNCHANGED staged
    /\ UNCHANGED <<hubVars, remote, clone, files, minute>>

\* What the commit returns is not looked at.
BackupCommit(w) ==
    /\ backup[w].step = "commit"
    /\ Moves(w, "push")
    /\ \/ /\ staged
          /\ clone' = [clone EXCEPT !.backups = files, !.ahead = TRUE]
          /\ staged' = FALSE
       \/ (~staged \/ "git" \in Faults) /\ UNCHANGED <<clone, staged>>
    /\ UNCHANGED <<hubVars, remote, files, running, minute, reported>>

\* MUTANT: what the push returns is not looked at
PushVerdict_Ignored(pushed) == TRUE
PushVerdict(pushed) == pushed

\* The push brings the whole tree of the clone, graphs included.
BackupPush(w) ==
    /\ backup[w].step = "push"
    /\ \/ /\ CanPush(clone)
          /\ remote' = [graph |-> clone.graph, backups |-> clone.backups]
          /\ clone' = [clone EXCEPT !.ahead = FALSE]
          /\ hub' = IF clone.ahead THEN [hub EXCEPT !.behind = TRUE] ELSE hub
          /\ mid' = IF clone.ahead /\ mid # None THEN [mid EXCEPT !.behind = TRUE] ELSE mid
          /\ Ended(w, PushVerdict(TRUE))
       \/ /\ ~CanPush(clone) \/ "offline" \in Faults
          /\ Ended(w, PushVerdict(FALSE))
          /\ UNCHANGED <<remote, clone, hub, mid>>
    /\ UNCHANGED <<gen, wt, sync, purge, synced, files, staged, minute>>

BackupStep(w) == \/ BackupCreate(w) \/ BackupFetch(w) \/ BackupWrite(w)
                 \/ BackupAdd(w) \/ BackupCommit(w) \/ BackupPush(w)

------------------------------------------------------------------------------
\* The night's processes or the server's end; flock gives the lock back, git leaves
\* what it has done.  Only with "cut" in Faults does that happen during a rebase.
Kill(server) ==
    /\ "kill" \in Faults
    /\ LET mine == IF server THEN Builders ELSE {Night}
           w == IF server THEN Manual ELSE Night
           hits == sync.who \in mine \/ (server /\ sync.step = "purge")
       IN /\ hits \/ backup[w].step # "idle"
             \/ (server /\ (purge # None \/ running))
          /\ hits /\ mid # None => "cut" \in Faults
          /\ sync' = IF hits THEN NoSync ELSE sync
          /\ backup' = [backup EXCEPT ![w] = NoBackup]
          /\ purge' = IF server THEN None ELSE purge
          /\ running' = (running /\ ~server)
    /\ UNCHANGED <<gen, wt, hub, mid, synced, remote, clone, files, staged, minute, reported>>

Tick == /\ \E m \in Minutes : m = minute + 1 /\ minute' = m
        /\ UNCHANGED <<hubVars, remote, clone, files, staged, backup, running, reported>>

SyncStep == SyncCommit \/ SyncPush \/ SyncRebase \/ SyncReplay \/ SyncAbort \/ PurgePush

Next ==
    \/ \E p \in Projects : Rebuild(p) \/ PurgeRemove(p) \/ (\E a \in Syncers : SyncBegin(a, p))
    \/ SyncStep \/ PurgeCommit
    \/ BackupNow \/ NightBackup \/ \E w \in Backers : BackupStep(w)
    \/ \E server \in BOOLEAN : Kill(server)
    \/ Tick

Spec == Init /\ [][Next]_publishVars

FairSpec == Spec /\ \A w \in Backers : WF_publishVars(BackupStep(w))

------------------------------------------------------------------------------
\* A backup that a run called successful is on the remote until Keep newer ones
\* are there, whatever the hub pushes meanwhile (backup.py:310-317).
ReportedBackupsExist ==
    \A m \in reported : \/ m \in remote.backups
                        \/ Cardinality({n \in remote.backups : n > m}) >= Keep

\* What was copied or purged last is what the hub answers from, whatever becomes
\* of the push (graphify-sync:49-51, "NIE vom Remote-Zustand abhaengig"); while a
\* rebase rewrites the work tree it is not, see ServedStays.
CopyOutlivesPush == mid = None => wt = synced

\* A manual backup does not stay "running" (api/system.py:316-329).  (Not true of
\* the code when the configuration cannot be read, see the README.)
BackupStatusEnds == running ~> ~running

\* Each of the two writers changes its own part of the remote only, and no backup
\* leaves it but for Keep newer ones, although both push whole trees.
Remote == INSTANCE SharedRemote WITH graphs <- remote.graph, backups <- remote.backups
ImplementsSharedRemote == Remote!Spec

(* The invariants they follow from.                                           *)

\* A clone that has all the remote's commits has the other's part as it is there, and
\* all of it if it has no commit of its own.
HubFits ==
    /\ ~hub.behind => /\ hub.backups = remote.backups
                      /\ ~hub.ahead => hub.graph = remote.graph
    /\ mid # None /\ ~mid.behind => mid.backups = remote.backups

\* Some backups and further ones, pruned; or what may lie in the work tree above a
\* branch, pruned or not yet.
Pruned(S, from) == \E new \in SUBSET Minutes : IsFiniteSet(new) /\ S = Newest(from \cup new)
Upon(S, from)   == \/ Pruned(S, from)
                   \/ \E new \in SUBSET Minutes : IsFiniteSet(new) /\ S = from \cup new

\* A run that has fetched has a clone, and a name for its backup.
Cloned == clone = None =>
              files = {} /\ \A w \in Backers : backup[w].step \in {"idle", "create", "fetch"}
Named == \A w \in Backers : backup[w].step \notin {"idle", "create"} => backup[w].name \in Minutes

\* What is replayed is replayed onto something.
Replays == sync.step = "replay" => mid # None

CloneFits ==
    clone # None =>
        /\ ~clone.behind => clone.graph = remote.graph
        /\ ~clone.ahead => clone.backups = remote.backups
        /\ Pruned(clone.backups, remote.backups)
        /\ Upon(files, clone.backups)
        /\ (staged \/ \E w \in Backers : backup[w].step \in {"add", "commit"})
               => Pruned(files, clone.backups)

OneBackup ==
    \A v, w \in Backers : backup[v].step # "idle" /\ backup[w].step # "idle" => v = w

\* Nothing of the backups is infinite, the remote's are pruned.
FilesFinite ==
    /\ IsFiniteSet(remote.backups) /\ IsFiniteSet(files) /\ IsFiniteSet(hub.backups)
    /\ mid # None => IsFiniteSet(mid.backups)
    /\ clone # None => IsFiniteSet(clone.backups)
    /\ Newest(remote.backups) = remote.backups

\* A backup made stays until Keep newer ones are there.
Kept(m, S) == m \in S \/ Cardinality({n \in S : n > m}) >= Keep

\* Where the backup of a run is before the push.
BackupsFit ==
    \A w \in Backers :
        /\ backup[w].step \in {"add", "commit"} => Kept(backup[w].name, files)
        /\ backup[w].step = "commit" => staged
        /\ backup[w].step = "push" => Kept(backup[w].name, clone.backups)

\* While a rebase goes on, main has what was copied last, and the script is in it.
RebaseFits ==
    mid # None => /\ sync.step \in {"replay", "abort"}
                  /\ hub.graph = synced /\ wt = mid.graph

TypeInv     == TypeOK /\ Cloned /\ Named /\ Replays
RemoteInv   == TypeInv /\ HubFits /\ CloneFits /\ OneBackup /\ FilesFinite
BackupInv   == RemoteInv /\ BackupsFit /\ ReportedBackupsExist
WorkTreeInv == TypeInv /\ RebaseFits /\ CopyOutlivesPush

------------------------------------------------------------------------------
(* Not true of the code, see the README.                                      *)

\* CopyOutlivesPush, during the rebase too.
ServedStays == wt = synced

\* A sync that finds nothing to do has nothing left to push (graphify-sync:49-50,
\* "der naechste Sync versucht es erneut").
SkippedIsPublished == sync.step = "commit" /\ wt = CheckedOut => ~hub.ahead
==============================================================================
