------------------------------- MODULE Builds -------------------------------
(***************************************************************************)
(* Mapping a project: the build threads of the server (src/server.py), the *)
(* nightly run (src/nightly-map.sh), the repair button, adding and         *)
(* removing projects (src/api/mapping.py), and what they share: the        *)
(* project's graphify-out with its saved generation (src/buildmeta.py),    *)
(* the copy in the knowledge repository that the hub serves, and the       *)
(* project locks (src/locks.py).                                           *)
(*                                                                         *)
(* Data: a graph is a quality and the build id of the manifest whose hash  *)
(* it matches, None if there never was one; a manifest is its build id.    *)
(* The programs that write graphs (extraction, graphify) may succeed or    *)
(* fail, with any quality.  Sync is one step: it holds the sync lock.      *)
(***************************************************************************)
EXTENDS FiniteSets, Naturals

CONSTANTS Projects, Builders,   \* projects; server threads for graph_build
          Repairers,            \* threads of the repair button
          Night, Web,           \* the nightly run; the event loop
          Gens,                 \* build ids
          MaxParallel,          \* _MAX_PARALLELE_BUILDS
          Timer,                \* whether the nightly timer is on
          Faults,               \* which of "crash", "disk" happen
          None, Free

Server  == Builders \cup Repairers \cup {Web}
Workers == Server \cup {Night}

ASSUME BuildsAssumption ==
    /\ MaxParallel \in Nat /\ Timer \in BOOLEAN
    /\ Faults \subseteq {"crash", "disk"}
    /\ None \notin Projects \cup Gens /\ Free \notin Workers
    /\ Night \notin Server /\ Web \notin Builders \cup Repairers
    /\ Builders \cap Repairers = {} /\ Gens # {}

VARIABLES registered,  \* the projects in config.yaml
          out,         \* graphify-out of each project
          snap,        \* its .prev-generation
          hub,         \* its copy in the knowledge repository
          plock,       \* who holds build-<name>.lock
          status,      \* _builds
          todo,        \* what the nightly run has left of the list it read
          pc, proj,    \* where each worker is, and on which project
          copy,        \* .prev-generation.tmp of each worker
          writer,      \* history: whose programs wrote graph.json last
          last,        \* history: the last accepted generation of each project
          spoiled      \* history: projects whose build was cut off while it wrote

vars == <<registered, out, snap, hub, plock, status, todo, pc, proj, copy, writer, last,
          spoiled>>

Graph   == [id : Gens \cup {None}, q : {"none", "raw", "good", "empty", "broken"}]
NoGraph == [id |-> None, q |-> "none"]
Dir     == [graph : Graph, man : Gens \cup {None}]
NoDir   == [graph |-> NoGraph, man |-> None]

TypeOK == /\ registered \subseteq Projects /\ todo \subseteq Projects
          /\ out \in [Projects -> Dir] /\ snap \in [Projects -> Dir]
          /\ hub \in [Projects -> Dir]
          /\ plock \in [Projects -> Workers \cup {Free}]
          /\ status \in [Projects -> {"none", "running", "done", "failed"}]
          /\ pc \in [Workers -> {"idle", "next", "lock", "snapshot", "swap", "extract",
                        "cluster", "fallback", "check", "restore", "sync", "done", "failed",
                        "unlock", "purgeHub", "purgeLocal", "unregister", "purgeGraph",
                        "repair", "repairSync"}]
          /\ proj \in [Workers -> Projects \cup {None}]
          /\ copy \in [Workers -> Dir]
          /\ writer \in [Projects -> Workers \cup {None}]
          /\ last \in [Projects -> Gens \cup {None}]
          /\ spoiled \subseteq Projects

Init == /\ registered \in SUBSET Projects
        /\ out = [p \in Projects |-> NoDir] /\ snap = out /\ hub = out
        /\ plock = [p \in Projects |-> Free]
        /\ status = [p \in Projects |-> "none"]
        /\ todo = {}
        /\ pc = [w \in Workers |-> "idle"]
        /\ proj = [w \in Workers |-> None]
        /\ copy = [w \in Workers |-> NoDir]
        /\ writer = [p \in Projects |-> None]
        /\ last = [p \in Projects |-> None]
        /\ spoiled = {}
------------------------------------------------------------------------------
Goto(w, l) == pc' = [pc EXCEPT ![w] = l]
\* w ends; it keeps no memory.
End(w) == /\ Goto(w, "idle")
          /\ proj' = [proj EXCEPT ![w] = None]
          /\ copy' = [copy EXCEPT ![w] = NoDir]
\* A pipeline's way out: a build thread reports, the nightly run goes on.
Leave(w, result) == Goto(w, IF w = Night THEN "next" ELSE result)

\* A build id that no graph, manifest or history carries (time and hash).  Bound:
\* when Gens is used up an id comes back; the safety runs never use it up.
InUse(p) == UNION {{d.graph.id, d.man} : d \in {out[p], snap[p], hub[p]}
                       \cup {copy[w] : w \in {v \in Workers : proj[v] = p}}}
              \cup {last[p]}
Fresh(p) == CHOOSE g \in Gens : Gens \subseteq InUse(p) \/ g \notin InUse(p)

\* A program of worker w writes graph.json, with one of the qualities Q.
Write(w, Q) ==
    LET p == proj[w] IN
    /\ \E q \in Q : out' = [out EXCEPT ![p].graph = [id |-> None, q |-> q]]
    /\ writer' = [writer EXCEPT ![p] = w]
\* It fails: nothing written, or graph.json is torn.
Spoil(w) == UNCHANGED <<out, writer>> \/ Write(w, {"broken"})

Running == {p \in Projects : status[p] = "running"}

\* MUTANT: flock is not asked for.
CanLock_Always(p) == TRUE

CanLock(p) == plock[p] = Free
------------------------------------------------------------------------------
\* graph_build(): one build per project, MaxParallel in all; the thread may
\* fail to start.
GraphBuild(b) ==
    /\ pc[b] = "idle" /\ Cardinality(Running) < MaxParallel
    /\ \E p \in Projects \ Running :
          \/ /\ status' = [status EXCEPT ![p] = "running"]
             /\ proj' = [proj EXCEPT ![b] = p]
             /\ Goto(b, "lock")
          \/ /\ status' = [status EXCEPT ![p] = "failed"]
             /\ UNCHANGED <<proj, pc>>
    /\ UNCHANGED <<registered, out, snap, hub, plock, todo, copy, writer, last, spoiled>>

\* MUTANT: a refused lock ends the thread, but not the status.
Refused_Silent(p) == status

Refused(p) == [status EXCEPT ![p] = "failed"]

\* _build_worker(): the lock now, or not at all.
TryLock(b) ==
    LET p == proj[b] IN
    /\ pc[b] = "lock"
    /\ \/ /\ CanLock(p)
          /\ plock' = [plock EXCEPT ![p] = b]
          /\ Goto(b, "snapshot")
          /\ UNCHANGED <<status, proj, copy>>
       \/ /\ plock[p] # Free
          /\ status' = Refused(p)
          /\ End(b)
          /\ UNCHANGED plock
    /\ UNCHANGED <<registered, out, snap, hub, todo, writer, last, spoiled>>

\* The nightly run reads the list of projects once.
NightStart ==
    /\ Timer /\ pc[Night] = "idle" /\ registered # {}
    /\ todo' = registered
    /\ Goto(Night, "next")
    /\ UNCHANGED <<registered, out, snap, hub, plock, status, proj, copy, writer, last, spoiled>>

\* exec 8> (or 8>&-) closes the descriptor of the project before.
Reopened == [p \in Projects |-> IF plock[p] = Night THEN Free ELSE plock[p]]

NightNext ==
    /\ pc[Night] = "next"
    /\ plock' = Reopened
    /\ \/ /\ todo = {} /\ End(Night) /\ UNCHANGED todo
       \/ \E p \in todo : /\ todo' = todo \ {p}
                          /\ proj' = [proj EXCEPT ![Night] = p]
                          /\ copy' = [copy EXCEPT ![Night] = NoDir]
                          /\ Goto(Night, "lock")
    /\ UNCHANGED <<registered, out, snap, hub, status, writer, last, spoiled>>

\* flock -w 60, then preflight.
NightLock ==
    LET p == proj[Night] IN
    /\ pc[Night] = "lock"
    /\ \/ /\ CanLock(p)
          /\ plock' = [plock EXCEPT ![p] = Night]
          /\ \/ Goto(Night, "snapshot")
             \/ Goto(Night, "next")
       \/ /\ plock[p] # Free
          /\ Goto(Night, "next")
          /\ UNCHANGED plock
    /\ UNCHANGED <<registered, out, snap, hub, status, todo, proj, copy, writer, last, spoiled>>
------------------------------------------------------------------------------
(* The pipeline, by a build thread or the nightly run.                     *)

\* snapshot_generation(): copy to .tmp, drop the old snapshot ...
Snapshot(w) ==
    LET p == proj[w] IN
    /\ pc[w] = "snapshot"
    /\ IF out[p].graph.q = "none"
          THEN Goto(w, "extract") /\ UNCHANGED <<snap, copy>>
          ELSE /\ copy' = [copy EXCEPT ![w] = out[p]]
               /\ snap' = [snap EXCEPT ![p] = NoDir]
               /\ Goto(w, "swap")
    /\ UNCHANGED <<registered, out, hub, plock, status, todo, proj, writer, last, spoiled>>

\* ... and rename the new one.
Swap(w) ==
    /\ pc[w] = "swap"
    /\ snap' = [snap EXCEPT ![proj[w]] = copy[w]]
    /\ Goto(w, "extract")
    /\ UNCHANGED <<registered, out, hub, plock, status, todo, proj, copy, writer, last, spoiled>>

\* Where the graph is no longer the accepted one and not yet judged.
Writing == {"cluster", "fallback", "check", "restore"}

\* The disk is full: the nightly run goes on without a snapshot (|| true) and
\* without restoring; an exception ends a build thread at once (except Exception);
\* a manifest that cannot be written rejects the generation.
DiskFull(w) ==
    /\ "disk" \in Faults
    /\ \/ /\ pc[w] = "check" /\ Goto(w, "restore")
          /\ UNCHANGED spoiled
       \/ /\ pc[w] = "restore" /\ Leave(w, "failed")
          /\ spoiled' = spoiled \cup {proj[w]}
       \/ /\ w = Night /\ pc[w] = "snapshot" /\ Goto(w, "extract")
          /\ spoiled' = spoiled \cup {proj[w]}
       \/ /\ w # Night /\ pc[w] \in {"snapshot", "extract", "cluster", "fallback"}
          /\ Goto(w, "failed")
          /\ spoiled' = spoiled \cup (IF pc[w] \in Writing THEN {proj[w]} ELSE {})
    /\ UNCHANGED <<registered, out, snap, hub, plock, status, todo, proj, copy, writer, last>>

\* extraction.py
Extract(w) ==
    /\ pc[w] = "extract"
    /\ \/ Write(w, {"raw", "empty"}) /\ Goto(w, "cluster")
       \/ Spoil(w) /\ Goto(w, "fallback")
    /\ UNCHANGED <<registered, snap, hub, plock, status, todo, proj, copy, last, spoiled>>

\* graphify cluster-only, and label, whose failure is not fatal.
Cluster(w) ==
    /\ pc[w] = "cluster"
    /\ \/ /\ Write(w, IF out[proj[w]].graph.q = "raw" THEN {"good", "broken"} ELSE {"empty"})
          /\ Goto(w, "check")
       \/ Spoil(w) /\ Goto(w, "restore")
    /\ UNCHANGED <<registered, snap, hub, plock, status, todo, proj, copy, last, spoiled>>

\* graphify update, in the nightly run graphify extract.
Fallback(w) ==
    /\ pc[w] = "fallback"
    /\ \/ Write(w, {"good", "empty", "broken"}) /\ Goto(w, "check")
       \/ Spoil(w) /\ Goto(w, "restore")
    /\ UNCHANGED <<registered, snap, hub, plock, status, todo, proj, copy, last, spoiled>>

\* MUTANT: the gate only looks whether there is a graph.
Accepts_Any(w, g) == g.q # "none"

\* The gate: validate_graph(); the server also wants at least one node.
Accepts(w, g) == g.q = "good" \/ (w = Night /\ g.q = "empty")

\* finalize(): a valid generation gets its manifest.
Gate(w) ==
    LET p == proj[w] IN
    /\ pc[w] = "check"
    /\ IF Accepts(w, out[p].graph)
          THEN /\ out' = [out EXCEPT ![p].graph.id = Fresh(p), ![p].man = Fresh(p)]
               /\ last' = [last EXCEPT ![p] = Fresh(p)]
               /\ spoiled' = spoiled \ {p}
               /\ Goto(w, "sync")
          ELSE Goto(w, "restore") /\ UNCHANGED <<out, last, spoiled>>
    /\ UNCHANGED <<registered, snap, hub, plock, status, todo, proj, copy, writer>>

\* MUTANT: only the manifest is put back.
Restored_Manifest(p) == [out[p] EXCEPT !.man = snap[p].man]

\* restore_generation(): nothing to do without a snapshot.
Restored(p) == IF snap[p].graph.q = "none" THEN out[p] ELSE snap[p]

Restore(w) ==
    /\ pc[w] = "restore"
    /\ out' = [out EXCEPT ![proj[w]] = Restored(proj[w])]
    /\ Leave(w, "failed")
    /\ UNCHANGED <<registered, snap, hub, plock, status, todo, proj, copy, writer, last, spoiled>>

\* graphify-sync: rsync --delete under the sync lock; it may fail.
Published(p) == hub' = [hub EXCEPT ![p] = out[p]]

Sync(w) ==
    /\ pc[w] = "sync"
    /\ \/ Published(proj[w]) /\ Leave(w, "done")
       \/ Leave(w, "failed") /\ UNCHANGED hub
    /\ UNCHANGED <<registered, out, snap, plock, status, todo, proj, copy, writer, last, spoiled>>

\* The finally of _build_worker_gesperrt(): the status, with the lock held ...
Report(b) ==
    /\ pc[b] \in {"done", "failed"}
    /\ status' = [status EXCEPT ![proj[b]] = pc[b]]
    /\ Goto(b, "unlock")
    /\ UNCHANGED <<registered, out, snap, hub, plock, todo, proj, copy, writer, last, spoiled>>

\* ... and then the end of project_lock().
Unlock(b) ==
    /\ pc[b] = "unlock"
    /\ plock' = [plock EXCEPT ![proj[b]] = Free]
    /\ End(b)
    /\ UNCHANGED <<registered, out, snap, hub, status, todo, writer, last, spoiled>>
------------------------------------------------------------------------------
(* The repair button: no lock, no snapshot, no gate.                       *)

RepairStart(r) ==
    /\ pc[r] = "idle"
    /\ \E p \in registered :
          /\ \A s \in Repairers : proj[s] # p
          /\ proj' = [proj EXCEPT ![r] = p]
    /\ Goto(r, "repair")
    /\ UNCHANGED <<registered, out, snap, hub, plock, status, todo, copy, writer, last, spoiled>>

RepairExtract(r) ==
    /\ pc[r] = "repair"
    /\ \/ /\ Write(r, {"good", "empty", "broken"})
          /\ Goto(r, "repairSync")
          /\ UNCHANGED <<proj, copy>>
       \/ Spoil(r) /\ End(r)
    /\ UNCHANGED <<registered, snap, hub, plock, status, todo, last, spoiled>>

RepairSync(r) ==
    /\ pc[r] = "repairSync"
    /\ Published(proj[r]) \/ UNCHANGED hub
    /\ End(r)
    /\ UNCHANGED <<registered, out, snap, plock, status, todo, writer, last, spoiled>>
------------------------------------------------------------------------------
(* Adding and removing projects, on the event loop.                        *)

Add == /\ pc[Web] = "idle"
       /\ \E p \in Projects \ registered : registered' = registered \cup {p}
       /\ UNCHANGED <<out, snap, hub, plock, status, todo, pc, proj, copy, writer, last, spoiled>>

\* mapping_project_update(remove), or mapping_graph_action(remove) for a graph
\* that no project owns.  A lock that stays taken is a 409.
RemoveStart ==
    /\ pc[Web] = "idle"
    /\ \E p \in Projects :
          /\ CanLock(p)
          /\ plock' = [plock EXCEPT ![p] = Web]
          /\ proj' = [proj EXCEPT ![Web] = p]
          /\ \/ p \in registered /\ Goto(Web, "purgeHub")
             \/ p \notin registered /\ hub[p] # NoDir /\ Goto(Web, "purgeGraph")
    /\ UNCHANGED <<registered, out, snap, hub, status, todo, copy, writer, last, spoiled>>

\* _purge_graph_data(): each deletion may be skipped (OSError).
PurgeHub ==
    /\ pc[Web] = "purgeHub"
    /\ \/ hub' = [hub EXCEPT ![proj[Web]] = NoDir]
       \/ "disk" \in Faults /\ UNCHANGED hub
    /\ Goto(Web, "purgeLocal")
    /\ UNCHANGED <<registered, out, snap, plock, status, todo, proj, copy, writer, last, spoiled>>

PurgeLocal ==
    LET p == proj[Web] IN
    /\ pc[Web] = "purgeLocal"
    /\ \/ /\ out' = [out EXCEPT ![p] = NoDir]
          /\ snap' = [snap EXCEPT ![p] = NoDir]
          /\ last' = [last EXCEPT ![p] = None]
          /\ spoiled' = spoiled \ {p}
       \/ "disk" \in Faults /\ UNCHANGED <<out, snap, last, spoiled>>
    /\ plock' = [plock EXCEPT ![p] = Free]
    /\ Goto(Web, "unregister")
    /\ UNCHANGED <<registered, hub, status, todo, proj, copy, writer>>

\* save_projects(kept), after the lock is released.
Unregister ==
    /\ pc[Web] = "unregister"
    /\ registered' = registered \ {proj[Web]}
    /\ End(Web)
    /\ UNCHANGED <<out, snap, hub, plock, status, todo, writer, last, spoiled>>

\* _purge_hub_graph(): the copy only, never the project's folder.
PurgeGraph ==
    /\ pc[Web] = "purgeGraph"
    /\ hub' = [hub EXCEPT ![proj[Web]] = NoDir]
    /\ plock' = [plock EXCEPT ![proj[Web]] = Free]
    /\ End(Web)
    /\ UNCHANGED <<registered, out, snap, status, todo, writer, last, spoiled>>
------------------------------------------------------------------------------
\* A process dies (the server with all its threads, or the nightly run): flock
\* dies with it, _builds with the server.
Crash(W) ==
    /\ "crash" \in Faults
    /\ \E w \in W : pc[w] # "idle"
    /\ plock' = [p \in Projects |-> IF plock[p] \in W THEN Free ELSE plock[p]]
    /\ pc'   = [w \in Workers |-> IF w \in W THEN "idle" ELSE pc[w]]
    /\ proj' = [w \in Workers |-> IF w \in W THEN None ELSE proj[w]]
    /\ copy' = [w \in Workers |-> IF w \in W THEN NoDir ELSE copy[w]]
    /\ status' = IF Web \in W THEN [p \in Projects |-> "none"] ELSE status
    /\ todo' = IF Night \in W THEN {} ELSE todo
    /\ spoiled' = spoiled \cup {proj[w] : w \in {v \in W : pc[v] \in Writing}}
    /\ UNCHANGED <<registered, out, snap, hub, writer, last>>

Pipeline(w) == \/ Snapshot(w) \/ Swap(w) \/ Extract(w) \/ Cluster(w)
               \/ Fallback(w) \/ Gate(w) \/ Restore(w) \/ Sync(w)
BuildStep(b)  == TryLock(b) \/ Pipeline(b) \/ Report(b) \/ Unlock(b)
NightStep     == NightNext \/ NightLock \/ Pipeline(Night)
RepairStep(r) == RepairExtract(r) \/ RepairSync(r)
WebStep       == PurgeHub \/ PurgeLocal \/ Unregister \/ PurgeGraph

Next == \/ \E b \in Builders : GraphBuild(b) \/ BuildStep(b) \/ DiskFull(b)
        \/ NightStart \/ NightStep \/ DiskFull(Night)
        \/ \E r \in Repairers : RepairStart(r) \/ RepairStep(r)
        \/ Add \/ RemoveStart \/ WebStep
        \/ Crash(Server) \/ Crash({Night})

Spec == Init /\ [][Next]_vars
\* The nightly run's programs have no timeout: nothing is assumed of it.
FairSpec == /\ Spec
            /\ \A b \in Builders : WF_vars(BuildStep(b))
            /\ WF_vars(WebStep)
            /\ \A r \in Repairers : WF_vars(RepairStep(r))
------------------------------------------------------------------------------
(* Properties *)

\* What the hub serves passed the gate, and the manifest beside it is its own:
\* no failed, crashed, half-restored or removed build is ever published
\* ("nur eine validierte Generation ... darf veröffentlicht werden").
HubAccepted ==
    \A p \in Projects : hub[p].graph.q # "none" =>
        /\ hub[p].graph.q \in {"good", "empty"}
        /\ hub[p].man = hub[p].graph.id

\* The generation a build accepts is the one its own programs wrote: nobody
\* else writes to the project meanwhile (locks.py: "ein Build/Purge je Projekt").
OwnGeneration ==
    [][\A w \in Workers : (pc[w] = "check" /\ pc'[w] = "sync") =>
          writer[proj[w]] = w]_vars

\* Between builds a project that was ever accepted holds its last accepted
\* generation with its manifest: a failed build puts it back, whichever step
\* failed and whoever built before.  Only a build cut off between its first write
\* and its verdict (killed, or no room to put the snapshot back) may leave another,
\* and only until a build is accepted again.
AtRestAccepted ==
    \A p \in Projects : (plock[p] = Free /\ last[p] # None /\ p \notin spoiled) =>
        out[p].graph.id = last[p] /\ out[p].man = last[p]

\* The last accepted generation is in graphify-out or in .prev-generation
\* ("ein Build, der mittendrin stirbt, darf den gesunden Graphen nicht ersetzen").
LastGoodKept ==
    \A p \in Projects : last[p] # None =>
        \E d \in {out[p], snap[p]} : d.graph.id = last[p] /\ d.man = last[p]

(* What makes HubAccepted, OwnGeneration and AtRestAccepted inductive, for *)
(* Repairers = {}: the repair button takes no lock and asks no gate.       *)

\* A generation id stands only on a graph that passed the gate.
Gated(d) == d.graph.id # None => d.graph.q \in {"good", "empty"}
GatedGraphs == /\ \A p \in Projects : Gated(out[p]) /\ Gated(snap[p])
               /\ \A w \in Workers : Gated(copy[w])

\* Where a worker holds the lock of its project.
Inside == {"snapshot", "swap", "extract", "sync", "done", "failed", "unlock",
           "purgeHub", "purgeLocal", "purgeGraph"} \cup Writing

LocksHeld ==
    /\ \A w \in Workers : pc[w] \in Inside => proj[w] \in Projects /\ plock[proj[w]] = w
    /\ \A w \in Workers : pc[w] \in {"lock", "unregister"} => proj[w] \in Projects
    /\ \A w \in Workers : pc[w] = "next" => w = Night
    /\ pc[Night] \notin {"done", "failed", "unlock"}
    /\ \A w \in Workers \ {Web} :
          pc[w] \notin {"purgeHub", "purgeLocal", "unregister", "purgeGraph"}
    /\ pc[Web] \in {"idle", "purgeHub", "purgeLocal", "unregister", "purgeGraph"}

\* d is the last accepted generation of p, if p has one that no cut-off build spoiled.
IsLast(p, d) == (last[p] # None /\ p \notin spoiled) => d.graph.id = last[p] /\ d.man = last[p]

\* The last generation is in graphify-out until a build writes there, and in the
\* snapshot while it may have written.
WhereTheLastIs ==
    /\ \A p \in Projects :
          (\A w \in Workers : ~(pc[w] \in Writing /\ proj[w] = p)) => IsLast(p, out[p])
    /\ \A w \in Workers : /\ pc[w] \in Writing \cup {"extract"} => IsLast(proj[w], snap[proj[w]])
                          /\ pc[w] = "swap" => IsLast(proj[w], copy[w])

\* What a worker is about to judge is its own, what it is about to publish accepted.
Judged ==
    /\ \A w \in Workers : pc[w] = "check" => writer[proj[w]] = w
    /\ \A w \in Workers : pc[w] = "sync" =>
          LET d == out[proj[w]] IN d.graph.q \in {"good", "empty"} /\ d.man = d.graph.id

IInv == TypeOK /\ GatedGraphs /\ LocksHeld /\ WhereTheLastIs /\ Judged /\ HubAccepted

\* Every build ends as done or failed, and the project can be built again: the
\* status never stays "running" (_build_worker).
BuildEnds == \A p \in Projects : status[p] = "running" ~> status[p] # "running"

\* Every graph the hub serves belongs to a registered project, once nobody may
\* build others: removing takes all of it away.
GraphsRegistered ==
    \A p \in Projects : hub[p].graph.q # "none" => p \in registered
==============================================================================
