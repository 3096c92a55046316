----------------------------- MODULE Knowledge ------------------------------
(***************************************************************************)
(* What the hub answers from (src/semantic.py, src/api/knowledge.py): the  *)
(* published copy of a project's graph.json and everything derived from    *)
(* it, each kept fresh by comparing modification times: the semantic index *)
(* and the chunk index, the parsed graph and the finished response of the  *)
(* graph view, the stored answers.  Beside the requests: those that        *)
(* publish graphs (Builds.tla has their inside), the nightly index run and *)
(* the removal of the project.                                             *)
(*                                                                         *)
(* Data: a graph is its modification time, 0 if there is none: rsync -a    *)
(* and copy2 keep that time, and no two graphs written have the same.  A   *)
(* source tree is the number of its registration, 0 if there is none.      *)
(***************************************************************************)
EXTENDS Naturals

CONSTANTS Viewers, Askers,  \* requests for the graph view, questions
          Writers,          \* builds and repairs
          Unlocked,         \* the writers without the project lock: repairs
          Nightly, Web, Bg,   \* nightly index run; removal; chunk index thread
          Trees,            \* registrations
          MaxTime,          \* bound on graphs written
          Free, Unknown

Threads == Viewers \cup Askers \cup Writers \cup {Nightly, Web, Bg}

ASSUME KnowledgeAssumption ==
    /\ MaxTime \in Nat \ {0} /\ Unlocked \subseteq Writers
    /\ Trees \subseteq Nat \ {0} /\ 1 \in Trees
    /\ Free \notin Threads /\ Unknown \notin Nat
    /\ Writers \cap (Viewers \cup Askers) = {}
    /\ {Nightly, Web, Bg} \cap (Viewers \cup Askers \cup Writers) = {}
    /\ Nightly # Web /\ Nightly # Bg /\ Web # Bg

VARIABLES clock,     \* the time graph.json was last written
          tree,      \* the registered source tree
          src,       \* graph.json in its graphify-out
          graph,     \* graph.json in the knowledge repository
          index,     \* semantic-index.npz: of which graph, when, right format
          chunks,    \* the chunk index: of which tree, right format
          parsed,    \* _parsed_cache: time and graph
          payload,   \* _payload_cache: time and graph
          answers,   \* the stored answer by graph time: from which graph
          lock,      \* build-<name>.lock
          pc,
          key,       \* the time a view request has read first
          got,       \* the graph a request has read
          base,      \* the graph an index is being built of
          reads,     \* the tree the chunk index thread reads
          seeds,     \* the graph the start nodes of a question come from
          again      \* "force": after an unusable index; "retry": the second stage

onDisk   == <<src, graph, index, chunks, answers>>
caches  == <<parsed, payload>>
locals  == <<key, got, base, reads, seeds, again>>
knowledgeVars    == <<clock, tree, onDisk, caches, lock, pc, locals>>

Times   == 0..MaxTime
NoIndex == [of |-> 0, at |-> 0, fit |-> FALSE]
NoTree  == [of |-> 0, fit |-> FALSE]
Nothing == [key |-> 0, of |-> 0]
Stages  == {"idle", "stat", "parse", "keep", "read", "check", "lock", "build", "save", "seed",
            "fallback", "excerpts", "stored", "llm", "write", "publish", "rsync", "unlock",
            "purge", "forget", "chunk", "context"}

KnowledgeTypeOK == /\ clock \in Times /\ src \in Times /\ graph \in Times
                   /\ tree \in Trees \cup {0}
                   /\ index \in [of : Times, at : Times, fit : BOOLEAN]
                   /\ chunks \in [of : Trees \cup {0}, fit : BOOLEAN]
                   /\ parsed \in [key : Times, of : Times]
                   /\ payload \in [key : Times, of : Times]
                   /\ answers \in [Times -> Times \cup {Unknown}]
                   /\ lock \in Threads \cup {Free}
                   /\ pc \in [Threads -> Stages]
                   /\ key \in [Viewers -> Times]
                   /\ got \in [Viewers \cup Askers -> Times]
                   /\ base \in [Askers \cup {Nightly} -> Times]
                   /\ reads \in Trees \cup {0}
                   /\ seeds \in [Askers -> Times]
                   /\ again \in [Askers -> SUBSET {"force", "retry"}]

\* The files an older version may have left behind, in a format of its own.
KnowledgeInit == /\ clock = 1 /\ tree = 1 /\ src = 1 /\ graph = 1
                 /\ index \in {NoIndex, [of |-> 1, at |-> 1, fit |-> FALSE]}
                 /\ chunks \in {NoTree, [of |-> 1, fit |-> FALSE]}
                 /\ parsed = Nothing /\ payload = Nothing
                 /\ answers = [t \in Times |-> Unknown]
                 /\ lock = Free
                 /\ pc = [t \in Threads |-> "idle"]
                 /\ key = [v \in Viewers |-> 0]
                 /\ got = [t \in Viewers \cup Askers |-> 0]
                 /\ base = [t \in Askers \cup {Nightly} |-> 0]
                 /\ reads = 0
                 /\ seeds = [r \in Askers |-> 0]
                 /\ again = [r \in Askers |-> {}]
------------------------------------------------------------------------------
Goto(t, l) == pc' = [pc EXCEPT ![t] = l]
Got(t, x)  == got' = [got EXCEPT ![t] = x]

\* The event loop: handlers run there between two awaits, the removal all through.
LoopFree == pc[Web] = "idle"

\* A request ends: its thread keeps nothing.
End(t) == /\ Goto(t, "idle")
          /\ got'   = [r \in Viewers \cup Askers |-> IF r = t THEN 0 ELSE got[r]]
          /\ base'  = [r \in Askers \cup {Nightly} |-> IF r = t THEN 0 ELSE base[r]]
          /\ reads' = IF t = Bg THEN 0 ELSE reads
          /\ key'   = [v \in Viewers |-> IF v = t THEN 0 ELSE key[v]]
          /\ seeds' = [r \in Askers |-> IF r = t THEN 0 ELSE seeds[r]]
          /\ again' = [r \in Askers |-> IF r = t THEN {} ELSE again[r]]
------------------------------------------------------------------------------
(* The graph view: graph(), _build_graph_payload(), _read_graph().         *)

\* The time first; a response kept under it is served at once (no step).
View(v) ==
    /\ pc[v] = "idle" /\ LoopFree
    /\ graph # 0 /\ payload.key # graph
    /\ key' = [key EXCEPT ![v] = graph]
    /\ Goto(v, "stat")
    /\ UNCHANGED <<clock, tree, onDisk, caches, lock, got, base, reads, seeds, again>>

\* In a thread: the time again, and the parsed graph kept under it.
Stat(v) ==
    /\ pc[v] = "stat"
    /\ \/ /\ graph = 0
          /\ parsed' = Nothing
          /\ End(v)
       \/ /\ graph # 0 /\ parsed.key = graph
          /\ IF parsed.of = 0 THEN End(v)
                              ELSE Got(v, parsed.of) /\ Goto(v, "keep") /\ UNCHANGED <<key, base, reads, seeds, again>>
          /\ UNCHANGED parsed
       \/ /\ graph # 0 /\ parsed.key # graph
          /\ Got(v, graph) /\ Goto(v, "parse")
          /\ UNCHANGED <<parsed, key, base, reads, seeds, again>>
    /\ UNCHANGED <<clock, tree, onDisk, payload, lock>>

\* It reads the file, which may be another by now, or gone (not readable).
Parse(v) ==
    /\ pc[v] = "parse"
    /\ parsed' = [key |-> got[v], of |-> graph]
    /\ IF graph = 0 THEN End(v)
                    ELSE Got(v, graph) /\ Goto(v, "keep") /\ UNCHANGED <<key, base, reads, seeds, again>>
    /\ UNCHANGED <<clock, tree, onDisk, payload, lock>>

\* MUTANT: the response is kept under the time the file has by now.
PayloadKey_Now(v) == graph

PayloadKey(v) == key[v]

KeepPayload(v) ==
    /\ pc[v] = "keep" /\ LoopFree
    /\ payload' = [key |-> PayloadKey(v), of |-> got[v]]
    /\ End(v)
    /\ UNCHANGED <<clock, tree, onDisk, parsed, lock>>

\* The graphs of other projects fill a cache: it is emptied.
Crowded == /\ \/ parsed' = Nothing /\ UNCHANGED payload
              \/ payload' = Nothing /\ UNCHANGED parsed
           /\ UNCHANGED <<clock, tree, onDisk, lock, pc, locals>>
------------------------------------------------------------------------------
(* A question: graph_ask(), hybrid_query(), query(), build_index().        *)

Ask(r) ==
    /\ pc[r] = "idle" /\ LoopFree /\ graph # 0
    /\ Goto(r, "read")
    /\ UNCHANGED <<clock, tree, onDisk, caches, lock, locals>>

\* The graph whose nodes the context will name.  Without one there is no index
\* to look at.
Read(r) ==
    /\ pc[r] = "read"
    /\ Got(r, graph)
    /\ Goto(r, IF graph = 0 THEN "excerpts" ELSE "check")
    /\ UNCHANGED <<clock, tree, onDisk, caches, lock, key, base, reads, seeds, again>>

Fresh(g) == index # NoIndex /\ index.at >= g

\* An index that is missing or older than graph.json is built first.  The time of
\* a graph that is gone by now cannot be read.
Check(r) ==
    /\ pc[r] = "check"
    /\ \/ index = NoIndex /\ Goto(r, IF graph = 0 THEN "seed" ELSE "lock")
       \/ index # NoIndex /\ graph = 0 /\ Goto(r, "fallback")
       \/ index # NoIndex /\ graph # 0 /\ Goto(r, IF Fresh(graph) THEN "seed" ELSE "lock")
    /\ UNCHANGED <<clock, tree, onDisk, caches, lock, locals>>

NightIndex ==
    /\ pc[Nightly] = "idle" /\ graph # 0
    /\ Goto(Nightly, "lock")
    /\ UNCHANGED <<clock, tree, onDisk, caches, lock, locals>>

\* MUTANT: the index is built without the project lock.
MayBuild_Always == TRUE

MayBuild == lock = Free

\* Where build_index() leads: back into the question, or on to the chunk index;
\* LockedError: to the next stage of the chain, or out of the nightly index run.
Built(t)  == IF t = Nightly THEN "chunk" ELSE "seed"
Failed(t) == IF t = Nightly THEN "unlock" ELSE "fallback"

\* _build_lock(): the project lock, or LockedError after 30 s.
IndexLock(t) ==
    /\ pc[t] = "lock"
    /\ \/ MayBuild /\ lock' = t /\ Goto(t, "build")
       \/ lock # Free /\ Goto(t, Failed(t)) /\ UNCHANGED lock
    /\ UNCHANGED <<clock, tree, onDisk, caches, locals>>

\* _build_lock(): finally.
Released(t) == IF lock = t THEN Free ELSE lock

Forced(t) == t \in Askers /\ "force" \in again[t]

\* Under the lock it reads the graph again; somebody may have been faster.
IndexRead(t) ==
    /\ pc[t] = "build"
    /\ \/ /\ graph = 0
          /\ lock' = Released(t)
          /\ Goto(t, Failed(t))
          /\ UNCHANGED base
       \/ /\ graph # 0 /\ ~Forced(t) /\ Fresh(graph)
          /\ lock' = Free
          /\ Goto(t, Built(t))
          /\ UNCHANGED base
       \/ /\ graph # 0 /\ (Forced(t) \/ ~Fresh(graph))
          /\ base' = [base EXCEPT ![t] = graph]
          /\ Goto(t, "save")
          /\ UNCHANGED lock
    /\ UNCHANGED <<clock, tree, onDisk, caches, key, got, reads, seeds, again>>

\* _save_npz_atomic(), with whatever time it is by now; the model may fail.
IndexSave(t) ==
    /\ pc[t] = "save"
    /\ \/ /\ index' = [of |-> base[t], at |-> clock, fit |-> TRUE]
          /\ Goto(t, Built(t))
       \/ Goto(t, Failed(t)) /\ UNCHANGED index
    /\ lock' = Released(t)
    /\ base' = [base EXCEPT ![t] = 0]
    /\ UNCHANGED <<clock, tree, src, graph, chunks, answers, caches, key, got, reads, seeds,
                   again>>

\* The start nodes.  No index: none, or it vanished while it was opened; an old
\* format or dimension: built once more, then given up.
Seed(r) ==
    /\ pc[r] = "seed"
    /\ \/ /\ index = NoIndex /\ "force" \notin again[r]
          /\ Goto(r, "excerpts") /\ UNCHANGED <<seeds, again>>
       \/ /\ index = NoIndex
          /\ Goto(r, "fallback") /\ UNCHANGED <<seeds, again>>
       \/ /\ index.fit
          /\ seeds' = [seeds EXCEPT ![r] = index.of]
          /\ Goto(r, "excerpts") /\ UNCHANGED again
       \/ /\ index # NoIndex /\ ~index.fit
          /\ IF "force" \notin again[r]
                THEN again' = [again EXCEPT ![r] = @ \cup {"force"}] /\ Goto(r, "lock")
                ELSE Goto(r, "fallback") /\ UNCHANGED again
          /\ UNCHANGED seeds
    /\ UNCHANGED <<clock, tree, onDisk, caches, lock, key, got, base, reads>>

\* query() once more, without excerpts; then the graphify program, which reads
\* the graph itself.
Fallback(r) ==
    /\ pc[r] = "fallback"
    /\ IF "retry" \notin again[r]
          THEN /\ again' = [again EXCEPT ![r] = {"retry"}]
               /\ Goto(r, "read")
               /\ UNCHANGED <<got, seeds>>
          ELSE /\ Got(r, graph)
               /\ seeds' = [seeds EXCEPT ![r] = graph]
               /\ Goto(r, "stored")
               /\ UNCHANGED again
    /\ UNCHANGED <<clock, tree, onDisk, caches, lock, key, base, reads>>
------------------------------------------------------------------------------
(* Excerpts from the source tree: hybrid_query(), _top_chunks().           *)

\* No registered tree: no excerpts.  No chunk index: a thread builds it, one per
\* project.  One in an old format is thrown away.
Excerpts(r) ==
    /\ pc[r] = "excerpts"
    /\ IF "retry" \notin again[r] /\ tree # 0 /\ chunks = NoTree /\ pc[Bg] = "idle"
          THEN /\ pc' = [pc EXCEPT ![r] = "stored", ![Bg] = "chunk"]
               /\ reads' = tree
          ELSE Goto(r, "stored") /\ UNCHANGED reads
    /\ chunks' = IF "retry" \notin again[r] /\ tree # 0 /\ ~chunks.fit THEN NoTree ELSE chunks
    /\ UNCHANGED <<clock, tree, src, graph, index, answers, caches, lock, key, got, base,
                   seeds, again>>

\* build_chunk_index(): reads the tree, saves under the project lock or not at all.
ChunkSave(t) ==
    /\ pc[t] = "chunk"
    /\ LET from == IF t = Bg THEN reads ELSE tree IN
       chunks' = IF lock = Free /\ from # 0 THEN [of |-> from, fit |-> TRUE] ELSE chunks
    /\ End(t)
    /\ UNCHANGED <<clock, tree, src, graph, index, answers, caches, lock>>

\* LockedError, or no graph: the nightly index run is over.
NightGivesUp ==
    /\ pc[Nightly] = "unlock"
    /\ End(Nightly)
    /\ UNCHANGED <<clock, tree, onDisk, caches, lock>>
------------------------------------------------------------------------------
(* The stored answers: _antwort_lesen(), _antwort_schreiben(); explain(),  *)
(* which stores them the same way.  One question, asked in one of the ways. *)

\* Nothing was found: once more with terms of the model's, or the end.  Without a key
\* the request ends, too, and with the answer stored for the graph as it is now,
\* unless a fresh one was asked for.
Stored(r) ==
    /\ pc[r] = "stored" /\ LoopFree
    /\ \/ /\ Goto(r, "read")
          /\ again' = [again EXCEPT ![r] = {}]
          /\ seeds' = [seeds EXCEPT ![r] = 0]
          /\ UNCHANGED <<key, got, base, reads>>
       \/ End(r)
       \/ Goto(r, "llm") /\ UNCHANGED locals
    /\ UNCHANGED <<clock, tree, onDisk, caches, lock>>

\* A node to be explained; an explanation stored for the graph is served (no step).
Explain(r) ==
    /\ pc[r] = "idle" /\ LoopFree /\ graph # 0
    /\ Goto(r, "context")
    /\ UNCHANGED <<clock, tree, onDisk, caches, lock, locals>>

\* The graphify program reads the graph, or fails, or there is no key.
Context(r) ==
    /\ pc[r] = "context"
    /\ \/ graph # 0 /\ Got(r, graph) /\ Goto(r, "llm") /\ UNCHANGED <<key, base, reads, seeds, again>>
       \/ End(r)
    /\ UNCHANGED <<clock, tree, onDisk, caches, lock>>

\* The model answers from the context, or fails.  _speicher_pfad() takes the time
\* of the graph now.
Answer(r) ==
    /\ pc[r] = "llm" /\ LoopFree
    /\ \/ answers' = [answers EXCEPT ![graph] = got[r]]
       \/ UNCHANGED answers
    /\ End(r)
    /\ UNCHANGED <<clock, tree, src, graph, index, chunks, caches, lock>>
------------------------------------------------------------------------------
(* Those that publish graphs, as Builds.tla has them.                      *)

Start(w) ==
    /\ pc[w] = "idle" /\ tree # 0
    /\ w \in Unlocked \/ lock = Free
    /\ lock' = IF w \in Unlocked THEN lock ELSE w
    /\ Goto(w, "write")
    /\ UNCHANGED <<clock, tree, onDisk, caches, locals>>

\* A new graph in graphify-out; or none, or the one before put back.
Write(w) ==
    /\ pc[w] = "write"
    /\ \/ /\ clock < MaxTime
          /\ clock' = clock + 1 /\ src' = clock + 1
          /\ Goto(w, "publish")
       \/ Goto(w, "unlock") /\ UNCHANGED <<clock, src>>
    /\ UNCHANGED <<tree, graph, index, chunks, answers, caches, lock, locals>>

\* rsync --delete: what is not in graphify-out goes, the index with it.
Deleted == NoIndex

\* graphify-sync, one at a time (sync-repo.lock): first the deletions ...
Publish(w) ==
    /\ pc[w] = "publish"
    /\ \/ /\ \A o \in Writers : pc[o] # "rsync"
          /\ src # 0
          /\ index' = Deleted
          /\ Goto(w, "rsync")
       \/ Goto(w, "unlock") /\ UNCHANGED index
    /\ UNCHANGED <<clock, tree, src, graph, chunks, answers, caches, lock, locals>>

\* ... then graph.json, renamed into place with the time it has.
Rsync(w) ==
    /\ pc[w] = "rsync"
    /\ graph' = src
    /\ Goto(w, "unlock")
    /\ UNCHANGED <<clock, tree, src, index, chunks, answers, caches, lock, locals>>

Finish(w) ==
    /\ pc[w] = "unlock"
    /\ lock' = IF lock = w THEN Free ELSE lock
    /\ Goto(w, "idle")
    /\ UNCHANGED <<clock, tree, onDisk, caches, locals>>
------------------------------------------------------------------------------
(* Removing the project, under its lock, and registering it again.         *)

\* MUTANT: the removal does not ask for the lock.
MayPurge_Always == TRUE

MayPurge == lock = Free

\* Refused (409) if the lock is not free within 5 s.
Remove ==
    /\ pc[Web] = "idle" /\ tree # 0 /\ MayPurge
    /\ lock' = Web
    /\ Goto(Web, "purge")
    /\ UNCHANGED <<clock, tree, onDisk, caches, locals>>

\* _purge_graph_data(): the published copy ...
PurgeHub ==
    /\ pc[Web] = "purge"
    /\ graph' = 0 /\ index' = NoIndex
    /\ Goto(Web, "forget")
    /\ UNCHANGED <<clock, tree, src, chunks, answers, caches, lock, locals>>

\* What the removal leaves of the chunk index: it deletes the folder of the
\* project's name, and the index is a file <name>.npz.
LeftChunks == chunks

\* ... graphify-out and the answers; then the registration.
Forget ==
    /\ pc[Web] = "forget"
    /\ src' = 0
    /\ answers' = [t \in Times |-> Unknown]
    /\ chunks' = LeftChunks
    /\ lock' = Free
    /\ tree' = 0
    /\ Goto(Web, "idle")
    /\ UNCHANGED <<clock, graph, index, caches, locals>>

Register ==
    /\ pc[Web] = "idle" /\ tree = 0
    /\ tree' \in Trees
    /\ UNCHANGED <<clock, onDisk, caches, lock, pc, locals>>

ViewStep(v)  == View(v) \/ Stat(v) \/ Parse(v) \/ KeepPayload(v)
AskStep(r)   == \/ Read(r) \/ Check(r) \/ IndexLock(r) \/ IndexRead(r) \/ IndexSave(r)
                \/ Seed(r) \/ Fallback(r) \/ Excerpts(r) \/ Stored(r)
                \/ Context(r) \/ Answer(r)
NightStep    == \/ IndexLock(Nightly) \/ IndexRead(Nightly) \/ IndexSave(Nightly)
                \/ ChunkSave(Nightly) \/ NightGivesUp
WriteStep(w) == Write(w) \/ Publish(w) \/ Rsync(w) \/ Finish(w)
WebStep      == PurgeHub \/ Forget

KnowledgeNext == \/ \E v \in Viewers : ViewStep(v)
                 \/ Crowded
                 \/ \E r \in Askers : Ask(r) \/ Explain(r) \/ AskStep(r)
                 \/ NightIndex \/ NightStep \/ ChunkSave(Bg)
                 \/ \E w \in Writers : Start(w) \/ WriteStep(w)
                 \/ Remove \/ WebStep \/ Register

KnowledgeSpec == KnowledgeInit /\ [][KnowledgeNext]_knowledgeVars

------------------------------------------------------------------------------
(* Properties *)

\* An index that counts as fresh holds the nodes of the published graph, however
\* builds, removals and other index builds went on meanwhile: none that keeps to
\* the project lock publishes while an index is built.  Two writers do not keep to
\* it: a repair, with which this is false, and the rebase of another project's sync
\* (graphify-sync:55), which may put an older graph.json there for a moment and is
\* left out.
IndexFresh ==
    (graph # 0 /\ Fresh(graph) /\ index.fit) => index.of = graph

\* A response kept for the graph that is published was built from it, although
\* the file may be replaced between its time and its content being read.
ResponseCurrent ==
    graph # 0 => /\ payload.key = graph => payload.of = graph
                 /\ parsed.key = graph => parsed.of = graph

\* No index survives its graph or comes back after a removal, by a build that had
\* begun before it.
NoGraphNoIndex == (graph = 0 /\ lock = Free) => index = NoIndex

(* The invariant the three follow from, where nobody publishes without the  *)
(* lock.                                                                    *)

\* Writers, index builds and the removal work under the project lock.
LocksHeld ==
    /\ \A w \in Writers : pc[w] \in {"write", "publish", "rsync", "unlock"} => lock = w
    /\ \A t \in Askers \cup {Nightly} : pc[t] \in {"build", "save"} => lock = t
    /\ pc[Web] \in {"purge", "forget"} => lock = Web

\* No request holds a time that is still to come ...
Dated ==
    /\ src <= clock /\ graph <= clock
    /\ parsed.key <= clock /\ payload.key <= clock
    /\ \A v \in Viewers : key[v] <= clock
    /\ \A t \in Viewers \cup Askers : got[t] <= clock

\* ... so a graph that is being published is newer than all anybody has seen.
Newer ==
    \A w \in Writers : pc[w] \in {"publish", "rsync"} =>
        /\ src = clock /\ graph < clock
        /\ parsed.key < clock /\ payload.key < clock
        /\ \A v \in Viewers : key[v] < clock
        /\ \A t \in Viewers \cup Askers : got[t] < clock

\* What a view is about to keep under a time.
ViewsFit ==
    \A v \in Viewers : /\ pc[v] \in {"stat", "parse", "keep"} => key[v] # 0
                       /\ pc[v] = "keep" /\ key[v] = graph => got[v] = graph

\* What an index is built of; that none outlives its graph, locked or not.
IndexFits ==
    /\ \A t \in Askers \cup {Nightly} : pc[t] = "save" => graph # 0 /\ base[t] = graph
    /\ \A w \in Writers : pc[w] = "rsync" => index = NoIndex
    /\ graph = 0 => index = NoIndex

KnowledgeInv == /\ KnowledgeTypeOK /\ LocksHeld /\ Dated /\ Newer /\ ViewsFit /\ IndexFits
                /\ IndexFresh /\ ResponseCurrent

------------------------------------------------------------------------------
(* Not true of the code, see the README.                                    *)

\* An answer stored for a graph was made from that graph ("Eine veraltete Erklärung
\* ist schlimmer als gar keine").
StoredAnswersCurrent ==
    \A t \in Times \ {0} : answers[t] \in {Unknown, t}

\* The chunk index is of the tree registered now ("Löscht ALLE Graph-Artefakte").
ChunksOfTheTree ==
    (chunks.fit /\ tree # 0 /\ lock = Free) => chunks.of = tree
==============================================================================
