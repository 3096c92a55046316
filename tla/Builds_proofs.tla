---------------------------- MODULE Builds_proofs ----------------------------
(* The generations of Builds, for every number of projects, builders and     *)
(* build ids, with crashes and a full disk: what the hub serves passed the   *)
(* gate, and a project at rest holds its last accepted generation.  All of   *)
(* it without the repair button, which breaks the first of these by itself.  *)
EXTENDS Builds, TLAPS

(* Facts about the data. *)

Pipers == Builders \cup {Night}   \* who runs the pipeline
Labels == {"idle", "next", "lock", "snapshot", "swap", "extract", "cluster", "fallback",
           "check", "restore", "sync", "done", "failed", "unlock", "purgeHub", "purgeLocal",
           "unregister", "purgeGraph", "repair", "repairSync"}

LEMMA Who ==
    /\ Pipers \subseteq Workers /\ Web \in Workers /\ Night \in Workers /\ Free \notin Workers
    /\ Web \notin Pipers /\ Night \notin Builders /\ Night # Web
BY BuildsAssumption DEF Pipers, Workers, Server

LEMMA FreshType == ASSUME NEW p PROVE Fresh(p) \in Gens /\ Fresh(p) # None
<1>1. PICK g \in Gens : Gens \subseteq InUse(p) \/ g \notin InUse(p)
  BY BuildsAssumption
<1> QED BY <1>1, BuildsAssumption DEF Fresh

LEMMA NoDirFacts == NoDir \in Dir /\ Gated(NoDir) /\ NoDir.graph.q = "none"
BY DEF NoDir, Dir, NoGraph, Graph, Gated

\* Two workers are never inside the lock of one project.
LEMMA Exclusive ==
    ASSUME LocksHeld, NEW v \in Workers, NEW w \in Workers,
           pc[v] \in Inside, pc[w] \in Inside, proj[v] = proj[w]
    PROVE  v = w
BY DEF LocksHeld

LEMMA InitInv == Init => IInv
<1> SUFFICES ASSUME Init PROVE IInv
  OBVIOUS
<1> USE BuildsAssumption, Who, NoDirFacts DEF Init
<1>1. TypeOK
  BY DEF TypeOK
<1>2. GatedGraphs
  BY DEF GatedGraphs
<1>3. LocksHeld
  BY DEF LocksHeld, Inside, Writing
<1>4. WhereTheLastIs
  BY DEF WhereTheLastIs, IsLast, Writing
<1>5. Judged /\ HubAccepted
  BY DEF Judged, HubAccepted
<1> QED BY <1>1, <1>2, <1>3, <1>4, <1>5 DEF IInv

\* A step that changes no graph and lets nobody enter or leave a lock.
LEMMA AsideInv ==
    ASSUME IInv, TypeOK', LocksHeld',
           UNCHANGED <<out, snap, hub, writer, last, spoiled>>,
           NEW w \in Workers,
           pc[w] \notin Writing, pc'[w] \notin Writing \cup {"swap", "extract", "sync"},
           \A v \in Workers \ {w} : pc'[v] = pc[v] /\ proj'[v] = proj[v] /\ copy'[v] = copy[v],
           copy'[w] \in {copy[w], NoDir}
    PROVE  IInv'
<1> USE DEF IInv
<1>1. GatedGraphs'
  BY NoDirFacts DEF GatedGraphs, Gated
<1>2. WhereTheLastIs'
  BY DEF WhereTheLastIs, IsLast
<1>3. Judged'
  BY DEF Judged, Writing
<1>4. HubAccepted'
  BY DEF HubAccepted
<1> QED BY <1>1, <1>2, <1>3, <1>4

(* Entering and leaving: the server thread, the nightly run, the web.       *)

LEMMA GraphBuildInv == ASSUME IInv, NEW b \in Builders, GraphBuild(b) PROVE IInv'
<1> USE Who DEF IInv, GraphBuild, Goto, Pipers
<1>1. TypeOK'
  BY DEF TypeOK, Running
<1>2. LocksHeld'
  BY DEF LocksHeld, TypeOK, Inside, Writing
<1> QED BY <1>1, <1>2, AsideInv DEF TypeOK, Writing

LEMMA TryLockInv == ASSUME IInv, NEW b \in Builders, TryLock(b) PROVE IInv'
<1> USE Who, NoDirFacts DEF IInv, TryLock, Goto, End, Pipers
<1>1. TypeOK'
  BY DEF TypeOK, Refused, LocksHeld
<1>2. LocksHeld'
  BY DEF LocksHeld, TypeOK, Inside, Writing, CanLock
<1> QED BY <1>1, <1>2, AsideInv DEF TypeOK, Writing

LEMMA NightStartInv == ASSUME IInv, NightStart PROVE IInv'
<1> USE Who DEF IInv, NightStart, Goto
<1>1. TypeOK'
  BY DEF TypeOK
<1>2. LocksHeld'
  BY BuildsAssumption DEF LocksHeld, TypeOK, Inside, Writing
<1> QED BY <1>1, <1>2, AsideInv DEF TypeOK, Writing

LEMMA NightNextInv == ASSUME IInv, NightNext PROVE IInv'
<1> USE Who, NoDirFacts DEF IInv, NightNext, Goto, End, Reopened
<1>1. TypeOK'
  BY DEF TypeOK
<1>2. LocksHeld'
  BY BuildsAssumption DEF LocksHeld, TypeOK, Inside, Writing
<1> QED BY <1>1, <1>2, AsideInv DEF TypeOK, Writing

LEMMA NightLockInv == ASSUME IInv, NightLock PROVE IInv'
<1> USE Who DEF IInv, NightLock, Goto
<1>1. TypeOK'
  BY DEF TypeOK, LocksHeld
<1>2. LocksHeld'
  BY BuildsAssumption DEF LocksHeld, TypeOK, Inside, Writing, CanLock
<1> QED BY <1>1, <1>2, AsideInv DEF TypeOK, Writing

LEMMA ReportInv == ASSUME IInv, NEW b \in Builders, Report(b) PROVE IInv'
<1> USE Who DEF IInv, Report, Goto, Pipers
<1>1. TypeOK'
  BY DEF TypeOK
<1>2. LocksHeld'
  BY DEF LocksHeld, TypeOK, Inside, Writing
<1> QED BY <1>1, <1>2, AsideInv DEF TypeOK, Writing

LEMMA UnlockInv == ASSUME IInv, NEW b \in Builders, Unlock(b) PROVE IInv'
<1> USE Who, NoDirFacts DEF IInv, Unlock, End, Goto, Pipers
<1>1. TypeOK'
  BY DEF TypeOK
<1>2. LocksHeld'
  BY DEF LocksHeld, TypeOK, Inside, Writing
<1> QED BY <1>1, <1>2, AsideInv DEF TypeOK, Writing

LEMMA RemoveStartInv == ASSUME IInv, RemoveStart PROVE IInv'
<1> USE Who DEF IInv, RemoveStart, Goto, Pipers
<1>1. TypeOK'
  BY DEF TypeOK
<1>2. LocksHeld'
  BY DEF LocksHeld, TypeOK, Inside, Writing, CanLock
<1> QED BY <1>1, <1>2, AsideInv DEF TypeOK, Writing

LEMMA UnregisterInv == ASSUME IInv, Unregister PROVE IInv'
<1> USE Who, NoDirFacts DEF IInv, Unregister, End, Goto, Pipers
<1>1. TypeOK'
  BY DEF TypeOK
<1>2. LocksHeld'
  BY DEF LocksHeld, TypeOK, Inside, Writing
<1> QED BY <1>1, <1>2, AsideInv DEF TypeOK, Writing

LEMMA AddInv == ASSUME IInv, Add PROVE IInv'
<1> USE DEF IInv, Add
<1>1. TypeOK'
  BY DEF TypeOK
<1>2. GatedGraphs' /\ LocksHeld' /\ WhereTheLastIs' /\ Judged' /\ HubAccepted'
  BY DEF GatedGraphs, LocksHeld, WhereTheLastIs, IsLast, Judged, HubAccepted
<1> QED BY <1>1, <1>2

(* The pipeline.                                                            *)

\* A pipeline step keeps the locks: the worker stays inside, and nobody else moves.
LEMMA StaysInside ==
    ASSUME IInv, TypeOK', NEW w \in Pipers, pc[w] \in Inside,
           UNCHANGED <<plock, proj>>,
           \E l \in Labels : /\ pc' = [pc EXCEPT ![w] = l]
                             /\ \/ l \in Inside \ {"purgeHub", "purgeLocal", "purgeGraph"}
                                \/ l = "next"
                             /\ w = Night => l \notin {"done", "failed", "unlock"}
                             /\ w # Night => l # "next"
    PROVE  LocksHeld'
BY Who DEF IInv, LocksHeld, TypeOK, Inside, Writing, Labels, Pipers

LEMMA SnapshotInv == ASSUME IInv, NEW w \in Pipers, Snapshot(w) PROVE IInv'
<1> USE Who, NoDirFacts DEF IInv, Snapshot, Goto
<1> DEFINE p == proj[w]
<1>0. w \in Workers /\ p \in Projects /\ pc[w] \in Inside
  BY DEF LocksHeld, Inside
<1>1. TypeOK'
  BY <1>0 DEF TypeOK
<1>2. LocksHeld'
  BY <1>0, <1>1, StaysInside DEF Inside, Labels
<1>3. GatedGraphs'
  <2>1. \A q \in Projects : snap'[q] \in {snap[q], NoDir}
    BY <1>0 DEF TypeOK
  <2>2. \A v \in Workers : copy'[v] \in {copy[v], out[p]}
    BY <1>0 DEF TypeOK
  <2> QED BY <1>0, <2>1, <2>2 DEF GatedGraphs
<1>4. WhereTheLastIs'
  <2>1. \A v \in Workers : pc[v] \in Inside /\ proj[v] = p => v = w
    BY <1>0, Exclusive
  <2>2. \A v \in Workers : ~(pc[v] \in Writing /\ proj[v] = p)
    BY <2>1 DEF Inside, Writing
  <2>3. IsLast(p, out[p])
    BY <1>0, <2>2 DEF WhereTheLastIs
  <2>4. out[p].graph.q = "none" => out[p].graph.id = None
    BY <1>0 DEF GatedGraphs, Gated
  <2>5. CASE out[p].graph.q = "none"
    <3>1. last[p] = None \/ p \in spoiled
      BY <2>3, <2>4, <2>5 DEF IsLast
    <3> QED BY <1>0, <2>5, <3>1 DEF WhereTheLastIs, IsLast, TypeOK, Writing
  <2>6. CASE out[p].graph.q # "none"
    <3>1. /\ pc' = [pc EXCEPT ![w] = "swap"] /\ copy' = [copy EXCEPT ![w] = out[p]]
          /\ snap' = [snap EXCEPT ![p] = NoDir] /\ UNCHANGED <<out, proj, last, spoiled>>
      BY <2>6
    <3>2. \A v \in Workers \ {w} : /\ pc'[v] = pc[v] /\ copy'[v] = copy[v]
                                   /\ pc[v] \in Writing \cup {"extract"} => snap'[proj[v]] = snap[proj[v]]
      BY <1>0, <2>1, <3>1 DEF TypeOK, Inside
    <3>3. pc'[w] = "swap" /\ copy'[w] = out[p] /\ pc[w] = "snapshot"
      BY <1>0, <3>1 DEF TypeOK
    <3>4. \A q \in Projects : IsLast(q, out[q])' <=> IsLast(q, out[q])
      BY <3>1 DEF IsLast
    <3>5. \A q \in Projects : (\A v \in Workers : ~(pc'[v] \in Writing /\ proj'[v] = q))
                                  => IsLast(q, out[q])'
      BY <3>1, <3>2, <3>3, <3>4 DEF WhereTheLastIs, Writing
    <3>6. \A v \in Workers : /\ pc'[v] \in Writing \cup {"extract"} => IsLast(proj[v], snap[proj[v]])'
                             /\ pc'[v] = "swap" => IsLast(proj[v], copy[v])'
      BY <2>3, <3>1, <3>2, <3>3 DEF WhereTheLastIs, IsLast, Writing
    <3> QED BY <3>5, <3>6 DEF WhereTheLastIs
  <2> QED BY <2>5, <2>6
<1>5. Judged' /\ HubAccepted'
  BY <1>0 DEF Judged, HubAccepted, TypeOK
<1> QED BY <1>1, <1>2, <1>3, <1>4, <1>5

LEMMA SwapInv == ASSUME IInv, NEW w \in Pipers, Swap(w) PROVE IInv'
<1> USE Who, NoDirFacts DEF IInv, Swap, Goto
<1> DEFINE p == proj[w]
<1>0. w \in Workers /\ p \in Projects /\ pc[w] \in Inside
  BY DEF LocksHeld, Inside
<1>1. TypeOK'
  BY <1>0 DEF TypeOK
<1>2. LocksHeld'
  BY <1>0, <1>1, StaysInside DEF Inside, Labels
<1>3. GatedGraphs'
  BY <1>0 DEF GatedGraphs, Gated, TypeOK
<1>4. WhereTheLastIs'
  <2>1. \A v \in Workers : pc[v] \in Inside /\ proj[v] = p => v = w
    BY <1>0, Exclusive
  <2> QED BY <1>0, <2>1 DEF WhereTheLastIs, IsLast, TypeOK, Writing, Inside
<1>5. Judged' /\ HubAccepted'
  BY <1>0 DEF Judged, HubAccepted, TypeOK
<1> QED BY <1>1, <1>2, <1>3, <1>4, <1>5

\* The disk is full: a worker that may have written leaves a spoiled project.
LEMMA DiskFullInv == ASSUME IInv, NEW w \in Pipers, DiskFull(w) PROVE IInv'
<1> USE Who DEF IInv, DiskFull, Goto, Leave
<1> DEFINE p == proj[w]
<1>0. w \in Workers /\ p \in Projects /\ pc[w] \in Inside
  BY DEF LocksHeld, Inside, Writing
<1>1. TypeOK'
  BY <1>0 DEF TypeOK, Writing
<1>2. LocksHeld'
  BY <1>0, <1>1, StaysInside DEF Inside, Labels, Writing, TypeOK
<1>3. GatedGraphs'
  BY DEF GatedGraphs
<1>4. WhereTheLastIs'
  <2>1. \A v \in Workers : pc[v] \in Inside /\ proj[v] = p => v = w
    BY <1>0, Exclusive
  <2>2. \A v \in Workers : ~(pc[v] \in Writing /\ proj[v] = p) \/ v = w
    BY <2>1 DEF Inside
  <2> QED BY <1>0, <2>2 DEF WhereTheLastIs, IsLast, TypeOK, Writing
<1>5. Judged' /\ HubAccepted'
  BY <1>0 DEF Judged, HubAccepted, TypeOK
<1> QED BY <1>1, <1>2, <1>3, <1>4, <1>5

\* What a program's write does: a graph without an id, of its own writing.
LEMMA WriteEffect ==
    ASSUME TypeOK, NEW w \in Workers, proj[w] \in Projects,
           Write(w, {"raw", "good", "empty", "broken"})
    PROVE  /\ out' \in [Projects -> Dir] /\ writer' \in [Projects -> Workers \cup {None}]
           /\ out'[proj[w]].graph.id = None /\ writer'[proj[w]] = w
           /\ \A q \in Projects \ {proj[w]} : out'[q] = out[q] /\ writer'[q] = writer[q]
<1> DEFINE p == proj[w]
<1>1. PICK k \in {"raw", "good", "empty", "broken"} :
         out' = [out EXCEPT ![p].graph = [id |-> None, q |-> k]]
  BY DEF Write
<1> DEFINE g == [id |-> None, q |-> k]
           d == [out[p] EXCEPT !.graph = g]
<1>2. g \in Graph /\ g.id = None
  BY DEF Graph
<1> HIDE DEF g
<1>3. d \in Dir /\ d.graph = g
  BY <1>2 DEF TypeOK, Dir
<1>4. out' = [out EXCEPT ![p] = d]
  BY <1>1 DEF g
<1> HIDE DEF d
<1>5. writer' = [writer EXCEPT ![p] = w]
  BY DEF Write
<1> QED BY <1>2, <1>3, <1>4, <1>5 DEF TypeOK

\* A program writes (or tears) graph.json: it carries no id until the gate.
LEMMA WriteInv ==
    ASSUME IInv, NEW w \in Pipers,
           pc[w] \in {"extract", "cluster", "fallback"},
           \/ UNCHANGED <<out, writer>>
           \/ Write(w, {"raw", "good", "empty", "broken"}),
           NEW l \in {"cluster", "fallback", "check", "restore"},
           Goto(w, l),
           l = "check" => Write(w, {"raw", "good", "empty", "broken"}),
           UNCHANGED <<registered, snap, hub, plock, status, todo, proj, copy, last, spoiled>>
    PROVE  IInv'
<1> USE Who DEF IInv
<1> DEFINE p == proj[w]
<1>0. w \in Workers /\ p \in Projects /\ pc[w] \in Inside
  BY DEF LocksHeld, Inside, Writing
<1>b. /\ out' \in [Projects -> Dir] /\ writer' \in [Projects -> Workers \cup {None}]
      /\ out'[p] = out[p] \/ out'[p].graph.id = None
      /\ \A q \in Projects \ {p} : out'[q] = out[q] /\ writer'[q] = writer[q]
      /\ l = "check" => writer'[p] = w
  BY <1>0, WriteEffect DEF TypeOK
<1>c. pc' = [pc EXCEPT ![w] = l] /\ pc \in [Workers -> Labels]
  BY DEF Goto, TypeOK, Labels
<1>1. TypeOK'
  BY <1>b, <1>c DEF TypeOK, Labels
<1>2. LocksHeld'
  BY <1>0, <1>1, <1>c, StaysInside DEF Inside, Labels, Writing
<1>3. GatedGraphs'
  BY <1>b DEF GatedGraphs, Gated
<1>a. \A v \in Workers : pc[v] \in Inside /\ proj[v] = p => v = w
  BY <1>0, Exclusive
<1>4. WhereTheLastIs'
  <2>1. IsLast(p, snap[p])
    BY <1>0 DEF WhereTheLastIs, Writing, IsLast
  <2>2. \A q \in Projects \ {p} : (\A v \in Workers : ~(pc'[v] \in Writing /\ proj'[v] = q))
                                     => IsLast(q, out'[q])
    <3>1. SUFFICES ASSUME NEW q \in Projects \ {p},
                          \A v \in Workers : ~(pc'[v] \in Writing /\ proj'[v] = q)
                   PROVE  IsLast(q, out[q])
      BY <1>b
    <3>2. \A v \in Workers : ~(pc[v] \in Writing /\ proj[v] = q)
      BY <1>0, <1>c, <3>1
    <3> QED BY <3>2 DEF WhereTheLastIs
  <2>3. \A v \in Workers : /\ pc'[v] \in Writing \cup {"extract"} => IsLast(proj[v], snap[proj[v]])
                           /\ pc'[v] = "swap" => IsLast(proj[v], copy[v])
    BY <1>0, <1>c, <2>1 DEF WhereTheLastIs, Writing, IsLast
  <2>4. pc'[w] \in Writing /\ proj'[w] = p
    BY <1>0, <1>c DEF Writing
  <2> QED BY <1>0, <2>2, <2>3, <2>4 DEF WhereTheLastIs, IsLast
<1>5. Judged'
  <2>1. \A v \in Workers \ {w} : pc[v] \in {"check", "sync"} => proj[v] \in Projects \ {p}
    BY <1>a DEF LocksHeld, Inside, Writing
  <2> QED BY <1>0, <1>b, <1>c, <2>1 DEF Judged
<1>6. HubAccepted'
  BY DEF HubAccepted
<1> QED BY <1>1, <1>2, <1>3, <1>4, <1>5, <1>6

LEMMA ProgramsInv ==
    ASSUME IInv, NEW w \in Pipers, Extract(w) \/ Cluster(w) \/ Fallback(w)
    PROVE  IInv'
<1> USE WriteInv DEF Goto
<1>0. \A Q \in SUBSET {"raw", "good", "empty", "broken"} :
         Write(w, Q) => Write(w, {"raw", "good", "empty", "broken"})
  BY DEF Write
<1>1. CASE Extract(w)
  BY <1>0, <1>1 DEF Extract, Spoil
<1>2. CASE Cluster(w)
  BY <1>0, <1>2 DEF Cluster, Spoil
<1>3. CASE Fallback(w)
  BY <1>0, <1>3 DEF Fallback, Spoil
<1> QED BY <1>1, <1>2, <1>3

\* A generation that passes gets an id and a manifest, and is the last one.
LEMMA GateInv == ASSUME IInv, NEW w \in Pipers, Gate(w) PROVE IInv'
<1> USE Who DEF IInv, Gate, Goto
<1> DEFINE p == proj[w]
<1>0. w \in Workers /\ p \in Projects /\ pc[w] \in Inside /\ Fresh(p) \in Gens /\ Fresh(p) # None
  BY FreshType DEF LocksHeld, Inside, Writing
<1>a. \A v \in Workers : pc[v] \in Inside /\ proj[v] = p => v = w
  BY <1>0, Exclusive
<1>1. CASE ~Accepts(w, out[p].graph)
  <2>1. TypeOK'
    BY <1>0, <1>1 DEF TypeOK
  <2>2. LocksHeld'
    BY <1>0, <1>1, <2>1, StaysInside DEF Inside, Labels, Writing
  <2>3. WhereTheLastIs'
    BY <1>0, <1>1 DEF WhereTheLastIs, IsLast, TypeOK, Writing
  <2>4. GatedGraphs' /\ Judged' /\ HubAccepted'
    BY <1>0, <1>1 DEF GatedGraphs, Judged, HubAccepted, TypeOK
  <2> QED BY <2>1, <2>2, <2>3, <2>4
<1>2. CASE Accepts(w, out[p].graph)
  <2> DEFINE d == out'[p]
  <2>0. /\ d.graph.id = Fresh(p) /\ d.man = Fresh(p) /\ d.graph.q = out[p].graph.q /\ d \in Dir
        /\ \A q \in Projects \ {p} : out'[q] = out[q]
        /\ out[p].graph.q \in {"good", "empty"}
        /\ last' = [last EXCEPT ![p] = Fresh(p)] /\ spoiled' = spoiled \ {p}
        /\ pc' = [pc EXCEPT ![w] = "sync"]
    <3> DEFINE f == Fresh(p)
               h == [out[p] EXCEPT !.graph.id = f, !.man = f]
    <3>1. out' = [out EXCEPT ![p] = h]
      BY <1>2
    <3>2. out[p] \in Dir /\ out[p].graph \in Graph
      BY <1>0 DEF TypeOK, Dir
    <3>3. f \in Gens
      BY <1>0
    <3> HIDE DEF f
    <3>4. h.graph.id = f /\ h.man = f /\ h.graph.q = out[p].graph.q /\ h \in Dir
      BY <3>2, <3>3 DEF Dir, Graph
    <3> HIDE DEF h
    <3>5. out' \in [Projects -> Dir] /\ d = h /\ \A q \in Projects \ {p} : out'[q] = out[q]
      BY <1>0, <3>1, <3>4 DEF TypeOK
    <3> QED BY <1>2, <3>4, <3>5 DEF Accepts, f
  <2>1. TypeOK'
    BY <1>0, <1>2, <2>0 DEF TypeOK, Dir
  <2>2. LocksHeld'
    BY <1>0, <2>0, <2>1, StaysInside DEF Inside, Labels
  <2>3. GatedGraphs'
    BY <1>0, <2>0 DEF GatedGraphs, Gated
  <2>4. WhereTheLastIs'
    <3>1. \A v \in Workers \ {w} : pc[v] \in Writing \cup {"extract", "swap"} => proj[v] \in Projects \ {p}
      BY <1>a DEF LocksHeld, Inside
    <3>2. \A q \in Projects \ {p}, g \in Dir : IsLast(q, g) => IsLast(q, g)'
      BY <2>0 DEF IsLast, TypeOK
    <3>3. IsLast(p, out[p])'
      BY <1>0, <2>0 DEF IsLast, TypeOK
    <3> QED BY <1>0, <2>0, <3>1, <3>3 DEF WhereTheLastIs, TypeOK, Writing, IsLast
  <2>5. Judged'
    <3>1. \A v \in Workers \ {w} : pc[v] \in {"check", "sync"} => proj[v] \in Projects \ {p}
      BY <1>a DEF LocksHeld, Inside, Writing
    <3> QED BY <1>0, <2>0, <3>1 DEF Judged, TypeOK
  <2>6. HubAccepted'
    BY DEF HubAccepted
  <2> QED BY <2>1, <2>2, <2>3, <2>4, <2>5, <2>6
<1> QED BY <1>1, <1>2

\* The snapshot comes back: it is the last generation, or the project is spoiled.
LEMMA RestoreInv == ASSUME IInv, NEW w \in Pipers, Restore(w) PROVE IInv'
<1> USE Who DEF IInv, Restore, Goto, Leave, Restored
<1> DEFINE p == proj[w]
<1>0. w \in Workers /\ p \in Projects /\ pc[w] \in Inside /\ pc[w] = "restore"
  BY DEF LocksHeld, Inside, Writing
<1>1. TypeOK'
  BY <1>0 DEF TypeOK
<1>2. LocksHeld'
  BY <1>0, <1>1, StaysInside DEF Inside, Labels, Writing
<1>3. GatedGraphs'
  BY <1>0 DEF GatedGraphs, Gated, TypeOK
<1>a. \A v \in Workers : pc[v] \in Inside /\ proj[v] = p => v = w
  BY <1>0, Exclusive
<1>b. IsLast(p, snap[p])
  BY <1>0 DEF WhereTheLastIs, Writing, IsLast
<1>c. IsLast(p, out'[p])
  <2>1. snap[p].graph.q = "none" => last[p] = None \/ p \in spoiled
    BY <1>0, <1>b DEF GatedGraphs, Gated, IsLast
  <2> QED BY <1>0, <1>b, <2>1 DEF IsLast, TypeOK
<1>4. WhereTheLastIs'
  BY <1>0, <1>c DEF WhereTheLastIs, IsLast, TypeOK, Writing
<1>5. Judged'
  <2>1. \A v \in Workers \ {w} : pc[v] \in {"check", "sync"} => proj[v] \in Projects \ {p}
    BY <1>a DEF LocksHeld, Inside, Writing
  <2> QED BY <1>0, <2>1 DEF Judged, TypeOK
<1>6. HubAccepted'
  BY DEF HubAccepted
<1> QED BY <1>1, <1>2, <1>3, <1>4, <1>5, <1>6

LEMMA SyncInv == ASSUME IInv, NEW w \in Pipers, Sync(w) PROVE IInv'
<1> USE Who DEF IInv, Sync, Goto, Leave, Published
<1> DEFINE p == proj[w]
<1>0. w \in Workers /\ p \in Projects /\ pc[w] \in Inside /\ pc[w] = "sync"
  BY DEF LocksHeld, Inside
<1>1. TypeOK'
  BY <1>0 DEF TypeOK
<1>2. LocksHeld'
  BY <1>0, <1>1, StaysInside DEF Inside, Labels
<1>3. WhereTheLastIs'
  BY <1>0 DEF WhereTheLastIs, IsLast, TypeOK, Writing
<1>4. GatedGraphs' /\ Judged'
  BY <1>0 DEF GatedGraphs, Judged, TypeOK
<1>5. HubAccepted'
  BY <1>0 DEF HubAccepted, Judged, TypeOK
<1> QED BY <1>1, <1>2, <1>3, <1>4, <1>5

(* Removing, and dying.                                                     *)

\* A deletion of the hub's copy, by the event loop inside the lock.
LEMMA HubGoesInv ==
    ASSUME IInv, TypeOK', LocksHeld',
           pc[Web] \in {"purgeHub", "purgeGraph"}, pc'[Web] \in {"idle", "purgeLocal"},
           UNCHANGED <<out, snap, writer, last, spoiled>>,
           \A v \in Workers \ {Web} : pc'[v] = pc[v] /\ proj'[v] = proj[v] /\ copy'[v] = copy[v],
           copy'[Web] \in {copy[Web], NoDir},
           \A q \in Projects : hub'[q] \in {hub[q], NoDir}
    PROVE  IInv'
<1> USE Who DEF IInv
<1>1. GatedGraphs'
  BY NoDirFacts DEF GatedGraphs
<1>2. WhereTheLastIs'
  BY DEF WhereTheLastIs, IsLast, Writing
<1>3. Judged'
  BY DEF Judged
<1>4. HubAccepted'
  BY NoDirFacts DEF HubAccepted
<1> QED BY <1>1, <1>2, <1>3, <1>4

LEMMA PurgeHubInv == ASSUME IInv, PurgeHub \/ PurgeGraph PROVE IInv'
<1> USE Who, NoDirFacts DEF IInv, PurgeHub, PurgeGraph, Goto, End
<1>1. TypeOK'
  BY DEF TypeOK
<1>2. LocksHeld'
  BY DEF LocksHeld, TypeOK, Inside, Writing
<1>3. proj[Web] \in Projects /\ \A q \in Projects : hub'[q] \in {hub[q], NoDir}
  BY DEF LocksHeld, TypeOK, Inside
<1> QED BY <1>1, <1>2, <1>3, HubGoesInv DEF TypeOK

\* The project's folder goes, with its history; or nothing of it does.
LEMMA PurgeLocalInv == ASSUME IInv, PurgeLocal PROVE IInv'
<1> USE Who, NoDirFacts DEF IInv, PurgeLocal, Goto
<1> DEFINE p == proj[Web]
<1>0. p \in Projects /\ pc[Web] \in Inside
  BY DEF LocksHeld, Inside
<1>a. \A v \in Workers : pc[v] \in Inside /\ proj[v] = p => v = Web
  BY <1>0, Exclusive
<1>b. /\ pc' = [pc EXCEPT ![Web] = "unregister"] /\ UNCHANGED <<proj, copy, writer, hub>>
      /\ \A q \in Projects \ {p} : /\ out'[q] = out[q] /\ snap'[q] = snap[q] /\ last'[q] = last[q]
                                   /\ q \in spoiled' <=> q \in spoiled
      /\ \/ UNCHANGED <<out, snap, last, spoiled>>
         \/ out'[p] = NoDir /\ snap'[p] = NoDir /\ last'[p] = None
  BY <1>0 DEF TypeOK
<1>1. TypeOK'
  BY <1>0 DEF TypeOK
<1>2. LocksHeld'
  BY <1>0 DEF LocksHeld, TypeOK, Inside, Writing
<1>3. GatedGraphs'
  BY <1>0, <1>b DEF GatedGraphs
<1>4. WhereTheLastIs'
  <2>1. \A v \in Workers : pc'[v] \in Inside => pc'[v] = pc[v] /\ proj[v] \in Projects \ {p}
    BY <1>0, <1>a, <1>b DEF LocksHeld, TypeOK, Inside, Writing
  <2>2. \A q \in Projects : (\A v \in Workers : ~(pc'[v] \in Writing /\ proj'[v] = q))
                              => IsLast(q, out[q])'
    <3>1. \A v \in Workers : ~(pc[v] \in Writing /\ proj[v] = p)
      BY <1>0, <1>a DEF Inside, Writing
    <3>2. \A v \in Workers : pc'[v] \in Writing <=> pc[v] \in Writing
      BY <1>b DEF TypeOK, Writing
    <3> QED BY <1>b, <3>1, <3>2 DEF WhereTheLastIs, IsLast
  <2>3. \A v \in Workers : /\ pc'[v] \in Writing \cup {"extract"} => IsLast(proj[v], snap[proj[v]])'
                           /\ pc'[v] = "swap" => IsLast(proj[v], copy[v])'
    BY <1>b, <2>1 DEF WhereTheLastIs, IsLast, Inside
  <2> QED BY <2>2, <2>3 DEF WhereTheLastIs
<1>5. Judged'
  BY <1>0, <1>a, <1>b DEF Judged, LocksHeld, TypeOK, Inside, Writing
<1>6. HubAccepted'
  BY DEF HubAccepted
<1> QED BY <1>1, <1>2, <1>3, <1>4, <1>5, <1>6

\* Who dies while it may have written leaves a spoiled project; the others stay inside.
LEMMA CrashInv == ASSUME IInv, NEW W \in {Server, {Night}}, Crash(W) PROVE IInv'
<1> USE Who, NoDirFacts DEF IInv, Crash
<1>0. W \subseteq Workers /\ (Web \in W <=> W = Server)
  BY BuildsAssumption DEF Workers, Server
<1>a. \A v \in Workers : IF v \in W THEN pc'[v] = "idle" /\ proj'[v] = None /\ copy'[v] = NoDir
                                    ELSE pc'[v] = pc[v] /\ proj'[v] = proj[v] /\ copy'[v] = copy[v]
  OBVIOUS
<1>b. \A v \in Workers : pc[v] \in Writing => proj[v] \in Projects
  BY DEF LocksHeld, Inside
<1>1. TypeOK'
  BY <1>0, <1>b DEF TypeOK
<1>2. GatedGraphs'
  BY <1>a DEF GatedGraphs
<1>3. LocksHeld'
  BY <1>0, <1>a DEF LocksHeld, Inside, Writing
<1>4. WhereTheLastIs'
  <2>1. ASSUME NEW q \in Projects, \A v \in Workers : ~(pc'[v] \in Writing /\ proj'[v] = q)
        PROVE  IsLast(q, out[q])'
    <3>1. CASE \E v \in W : pc[v] \in Writing /\ proj[v] = q
      BY <3>1 DEF IsLast
    <3>2. CASE \A v \in W : ~(pc[v] \in Writing /\ proj[v] = q)
      <4>1. \A v \in Workers : ~(pc[v] \in Writing /\ proj[v] = q)
        BY <1>a, <2>1, <3>2
      <4> QED BY <4>1 DEF WhereTheLastIs, IsLast
    <3> QED BY <3>1, <3>2
  <2>2. \A v \in Workers : /\ pc'[v] \in Writing \cup {"extract"} => IsLast(proj[v], snap[proj[v]])'
                           /\ pc'[v] = "swap" => IsLast(proj[v], copy[v])'
    BY <1>a DEF WhereTheLastIs, IsLast, Writing
  <2> QED BY <2>1, <2>2 DEF WhereTheLastIs
<1>5. Judged' /\ HubAccepted'
  BY <1>a DEF Judged, HubAccepted
<1> QED BY <1>1, <1>2, <1>3, <1>4, <1>5

LEMMA PipelineInv == ASSUME IInv, NEW w \in Pipers, Pipeline(w) PROVE IInv'
BY SnapshotInv, SwapInv, ProgramsInv, GateInv, RestoreInv, SyncInv DEF Pipeline

LEMMA NextInv == Repairers = {} /\ IInv /\ [Next]_vars => IInv'
<1> SUFFICES ASSUME Repairers = {}, IInv, [Next]_vars PROVE IInv'
  OBVIOUS
<1>1. CASE UNCHANGED vars
  BY <1>1 DEF vars, IInv, TypeOK, GatedGraphs, LocksHeld, WhereTheLastIs, IsLast, Judged, HubAccepted
<1>2. ASSUME NEW b \in Builders, GraphBuild(b) \/ BuildStep(b) \/ DiskFull(b) PROVE IInv'
  BY <1>2, GraphBuildInv, TryLockInv, PipelineInv, ReportInv, UnlockInv, DiskFullInv DEF BuildStep, Pipers
<1>3. CASE NightStart \/ NightStep \/ DiskFull(Night)
  BY <1>3, NightStartInv, NightNextInv, NightLockInv, PipelineInv, DiskFullInv DEF NightStep, Pipers
<1>4. CASE Add \/ RemoveStart \/ WebStep
  BY <1>4, AddInv, RemoveStartInv, PurgeHubInv, PurgeLocalInv, UnregisterInv DEF WebStep
<1>5. CASE Crash(Server) \/ Crash({Night})
  BY <1>5, CrashInv
<1> QED BY <1>1, <1>2, <1>3, <1>4, <1>5 DEF Next

\* The types of the folders, the locks and the workers.
THEOREM TypeCorrect == ASSUME Repairers = {} PROVE Spec => []TypeOK
<1>1. IInv => TypeOK
  BY DEF IInv
<1> QED BY <1>1, InitInv, NextInv, PTL DEF Spec

\* The hub serves nothing that did not pass the gate, whatever fails or dies.
THEOREM OnlyAcceptedIsServed == ASSUME Repairers = {} PROVE Spec => []HubAccepted
<1>1. IInv => HubAccepted
  BY DEF IInv
<1> QED BY <1>1, InitInv, NextInv, PTL DEF Spec

\* A project nobody builds holds its last accepted generation (restore_generation).
THEOREM RestHoldsTheLast == ASSUME Repairers = {} PROVE Spec => []AtRestAccepted
<1>1. IInv => AtRestAccepted
  <2> SUFFICES ASSUME IInv, NEW p \in Projects, plock[p] = Free
               PROVE  IsLast(p, out[p])
    BY DEF AtRestAccepted, IsLast
  <2>1. \A w \in Workers : ~(pc[w] \in Writing /\ proj[w] = p)
    BY Who DEF IInv, LocksHeld, Inside
  <2> QED BY <2>1 DEF IInv, WhereTheLastIs
<1> QED BY <1>1, InitInv, NextInv, PTL DEF Spec

\* The gate judges the graph that its own build wrote (project_lock).
THEOREM BuildsJudgeTheirOwn == ASSUME Repairers = {} PROVE Spec => OwnGeneration
<1>1. IInv /\ [Next]_vars => [\A w \in Workers : (pc[w] = "check" /\ pc'[w] = "sync") =>
                                writer[proj[w]] = w]_vars
  BY DEF IInv, Judged
<1> QED BY <1>1, InitInv, NextInv, PTL DEF Spec, OwnGeneration

\* Unless a process dies or the disk fills up, the last accepted generation is
\* always in graphify-out or in the snapshot, also while a build runs.
THEOREM NothingSpoiledNothingLost ==
    ASSUME Repairers = {}, Faults = {}
    PROVE  Spec => []LastGoodKept
<1>1. Init => spoiled = {}
  BY DEF Init
<1>2. spoiled = {} /\ [Next]_vars => (spoiled = {})'
  BY DEF vars, Next, GraphBuild, BuildStep, TryLock, Pipeline, Snapshot, Swap, Extract, Cluster,
     Fallback, Gate, Restore, Sync, Report, Unlock, DiskFull, NightStart, NightStep, NightNext,
     NightLock, Add, RemoveStart, WebStep, PurgeHub, PurgeLocal, Unregister, PurgeGraph, Crash
<1>3. IInv /\ spoiled = {} => LastGoodKept
  <2> SUFFICES ASSUME IInv, spoiled = {}, NEW p \in Projects, last[p] # None
               PROVE  \E d \in {out[p], snap[p]} : d.graph.id = last[p] /\ d.man = last[p]
    BY DEF LastGoodKept
  <2>1. CASE \E w \in Workers : pc[w] \in Writing /\ proj[w] = p
    BY <2>1 DEF IInv, WhereTheLastIs, IsLast
  <2>2. CASE \A w \in Workers : ~(pc[w] \in Writing /\ proj[w] = p)
    BY <2>2 DEF IInv, WhereTheLastIs, IsLast
  <2> QED BY <2>1, <2>2
<1> QED BY <1>1, <1>2, <1>3, InitInv, NextInv, PTL DEF Spec
==============================================================================
