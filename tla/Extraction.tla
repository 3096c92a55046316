----------------------------- MODULE Extraction -----------------------------
(***************************************************************************)
(* The hub's own extraction (src/extraction.py) of one project, night      *)
(* after night: files that change and vanish, a language model that        *)
(* answers, fails or is out of credit, the cache of what each file gave,   *)
(* and the graph made from it; then the build's verdict, which keeps both  *)
(* or puts both back (src/buildmeta.py).  The project lock keeps two runs  *)
(* apart (Builds.tla), so there is one at a time.  The programs that take  *)
(* over when extraction.py itself fails are not in this module.            *)
(*                                                                         *)
(* Data: a file is the number of its content, 0 if it does not exist; the  *)
(* facts of a file are the content they were taken from and by whom.       *)
(***************************************************************************)
EXTENDS Naturals

CONSTANTS Files,
          MaxContent,      \* bound on the contents of a file
          Crashes,         \* whether a run may be killed
          Absent, Torn     \* a missing graph.json; a half-written file

VARIABLES content,  \* the project's files
          facts,    \* graph.json: the facts of each file
          cache,    \* .extraction-cache.json
          snap,     \* .prev-generation: graph and cache
          run,      \* where the run is
          mem,      \* the cache as the run has it
          todo,     \* files still to visit
          seen,     \* files visited
          offline,  \* no language model (any more)
          clean,    \* history: so far the model answered and no file changed
          cut       \* history: a run was killed and none completed since

disk == <<content, facts, cache, snap>>
extractionVars == <<disk, run, mem, todo, seen, offline, clean, cut>>

Contents == 0..MaxContent
Modes    == {"llm", "offline"}
NoEntry  == [hash |-> 0, of |-> 0, mode |-> "offline"]
Entry    == [hash : Contents, of : Contents, mode : Modes]
NoFacts  == [of |-> 0, mode |-> "offline"]
Caches   == [Files -> Entry]
FactGraphs   == [Files -> [of : Contents, mode : Modes]]
Empty    == [f \in Files |-> NoEntry]

ASSUME ExtractionAssumption == /\ MaxContent \in Nat /\ Crashes \in BOOLEAN
                               /\ Absent # Torn /\ Absent \notin FactGraphs
                               /\ Torn \notin FactGraphs \cup Caches

\* build_graph(): the facts of every entry.
Facts(c) == [f \in Files |-> [of |-> c[f].of, mode |-> c[f].mode]]

ExtractionTypeOK == /\ content \in [Files -> Contents]
                    /\ facts \in FactGraphs \cup {Absent, Torn}
                    /\ cache \in Caches \cup {Torn}
                    /\ snap \in [graph : FactGraphs \cup {Absent, Torn}, cache : Caches \cup {Torn}]
                    /\ run \in {"idle", "visit", "graph", "cache", "verdict"}
                    /\ mem \in Caches
                    /\ todo \subseteq Files /\ seen \subseteq Files \ todo
                    /\ offline \in BOOLEAN /\ clean \in BOOLEAN /\ cut \in BOOLEAN

ExtractionInit == /\ content \in [Files -> Contents]
                  /\ facts = Absent /\ cache = Empty
                  /\ snap = [graph |-> Absent, cache |-> Empty]
                  /\ run = "idle"
                  /\ mem = Empty /\ todo = {} /\ seen = {}
                  /\ offline = FALSE /\ clean = FALSE /\ cut = FALSE
------------------------------------------------------------------------------
\* Somebody edits, creates or deletes a file.
Edit == /\ \E f \in Files : \E c \in Contents \ {content[f]} : content' = [content EXCEPT ![f] = c]
        /\ clean' = FALSE
        /\ UNCHANGED <<facts, cache, snap, run, mem, todo, seen, offline, cut>>

\* MUTANT: the snapshot is of the graph, not of the cache.
Snapshot_Graph == [graph |-> facts, cache |-> Empty]

\* snapshot_generation(): nothing without a graph.json.
Snapshot == [graph |-> facts, cache |-> cache]

\* A build begins: snapshot, then the cache (unreadable: from nothing), and the
\* key of the language model, which there may not be.
StartRun ==
    /\ run = "idle"
    /\ snap' = IF facts = Absent THEN snap ELSE Snapshot
    /\ mem' = IF cache = Torn THEN Empty ELSE cache
    /\ offline' \in BOOLEAN
    /\ todo' = Files /\ seen' = {}
    /\ clean' = ~offline'
    /\ run' = "visit"
    /\ UNCHANGED <<content, facts, cache, cut>>

\* MUTANT: what was mapped without a model stays so.
Unchanged_Forever(f) == mem[f].hash = content[f]

\* Nothing to do: the content is known, and not only by its structure if there is
\* a model now.
Unchanged(f) == /\ mem[f].hash = content[f]
                /\ offline \/ mem[f].mode = "llm"

By(f, m) == [mem EXCEPT ![f] = [hash |-> content[f], of |-> content[f], mode |-> m]]

\* MUTANT: a file the model fails on loses its entry.
Failing_Drops(f) == [mem EXCEPT ![f] = NoEntry]

\* The facts there are stay, and count for the new content; no entry, none is made.
Failing(f) == IF mem[f] = NoEntry THEN mem ELSE [mem EXCEPT ![f].hash = content[f]]

\* Already offline: the structure of the file.
VisitOffline(f) ==
    /\ offline
    /\ mem' = By(f, "offline")
    /\ UNCHANGED <<offline, clean>>

\* extract_file(): facts; or an error or no usable answer, twice; or an error no
\* retry helps against, from where on the run is offline, this file included.
VisitOnline(f) ==
    /\ ~offline
    /\ \/ mem' = By(f, "llm") /\ UNCHANGED <<offline, clean>>
       \/ /\ mem' = Failing(f)
          /\ clean' = FALSE
          /\ UNCHANGED offline
       \/ /\ mem' = By(f, "offline")
          /\ offline' = TRUE /\ clean' = FALSE

\* Where a file would be listed by iter_files(), it is not there, ...
Pass(f) ==
    /\ content[f] = 0
    /\ UNCHANGED <<mem, seen, offline, clean>>

\* ... or it is, but cannot be read (any more); or it is read.
ReadFile(f) ==
    /\ content[f] # 0
    /\ seen' = seen \cup {f}
    /\ \/ clean' = FALSE /\ UNCHANGED <<mem, offline>>
       \/ Unchanged(f) /\ UNCHANGED <<mem, offline, clean>>
       \/ ~Unchanged(f) /\ (VisitOffline(f) \/ VisitOnline(f))

Visit ==
    /\ run = "visit"
    /\ \E f \in todo : todo' = todo \ {f} /\ (Pass(f) \/ ReadFile(f))
    /\ UNCHANGED <<disk, run, cut>>

Remaining == [f \in Files |-> IF f \in seen THEN mem[f] ELSE NoEntry]

\* After the last file: deleted files go, and graph.json is written ...
WriteGraph ==
    /\ run = "visit" /\ todo = {}
    /\ mem' = Remaining
    /\ facts' = Facts(Remaining)
    /\ run' = "cache"
    /\ UNCHANGED <<content, cache, snap, todo, seen, offline, clean, cut>>

\* ... then the cache.
WriteCache ==
    /\ run = "cache"
    /\ cache' = mem
    /\ run' = "verdict"
    /\ UNCHANGED <<content, facts, snap, mem, todo, seen, offline, clean, cut>>

\* The run is over.
Done == /\ run' = "idle"
        /\ mem' = Empty /\ todo' = {} /\ seen' = {}
        /\ offline' = FALSE /\ clean' = FALSE

\* The build is accepted ...
Accept ==
    /\ run = "verdict"
    /\ cut' = FALSE
    /\ Done
    /\ UNCHANGED disk

\* ... or rejected: restore_generation(), if there is one.
Reject ==
    /\ run = "verdict"
    /\ IF snap.graph = Absent THEN UNCHANGED <<facts, cache>>
                              ELSE facts' = snap.graph /\ cache' = snap.cache
    /\ Done
    /\ UNCHANGED <<content, snap, cut>>

\* The run is killed, or the disk is full: neither file is written by temp and rename.
KillRun ==
    /\ Crashes /\ run # "idle"
    /\ \/ UNCHANGED <<facts, cache>>
       \/ run = "visit" /\ todo = {} /\ facts' = Torn /\ UNCHANGED cache
       \/ run = "cache" /\ cache' = Torn /\ UNCHANGED facts
    /\ cut' = TRUE
    /\ Done
    /\ UNCHANGED <<content, snap>>

ExtractionNext == \/ Edit \/ StartRun \/ Visit \/ WriteGraph \/ WriteCache
                  \/ Accept \/ Reject \/ KillRun

ExtractionSpec == ExtractionInit /\ [][ExtractionNext]_extractionVars
------------------------------------------------------------------------------
(* Properties *)

\* Between builds the graph is the one the cache describes, also when a build was
\* rejected and the one before was put back; otherwise files would count as mapped
\* that are not in the graph.  Of what extraction.py and the builds around it do,
\* only a killed run may leave the two apart; the program that takes over where
\* extraction.py fails (server.py:404) writes the graph alone and is left out.
GraphOfTheCache ==
    (run = "idle" /\ ~cut /\ facts # Absent) =>
        cache # Torn /\ facts # Torn /\ facts = Facts(cache)

\* A file that is still there keeps its place in the graph whatever the model does
\* ("alter Stand bleibt, statt Wissen zu verlieren").
KnowledgeKept ==
    [][(run = "visit" /\ run' = "cache" /\ ~cut /\ facts \notin {Absent, Torn}) =>
          \A f \in seen : facts[f] # NoFacts => facts'[f] # NoFacts]_extractionVars

\* The entry of a content the model failed on: the facts are of another one.
FailedBefore(f) == cache[f].hash = content[f] /\ cache[f].of # content[f]

\* Incremental is as good as complete: when the model answered throughout and no file
\* changed meanwhile, the graph holds the facts of exactly the files there are, taken
\* from their contents by the model, whatever earlier nights did: offline, killed,
\* put back.  (Except for contents the model failed on in an earlier night.)
CleanRunIsComplete ==
    (run = "verdict" /\ clean) =>
        \A f \in Files :
            \/ facts[f] = (IF content[f] = 0 THEN NoFacts ELSE [of |-> content[f], mode |-> "llm"])
            \/ FailedBefore(f)

(* The invariant the three follow from.                                    *)

\* The graph, if there is one, and the cache are of the same run.
Describes(g, c) == g # Absent => g # Torn /\ c # Torn /\ g = Facts(c)

\* Unless a run was killed, a build finds the two matching and has such a pair to put
\* back; what a run writes matches in any case.
InStep ==
    /\ ~cut /\ run \in {"idle", "visit"} => Describes(facts, cache)
    /\ ~cut /\ run # "idle" => Describes(snap.graph, snap.cache)
    /\ facts = Absent => snap.graph = Absent
    /\ run \in {"cache", "verdict"} => facts = Facts(mem)
    /\ run = "verdict" => cache = mem

\* No visit takes the last facts of a file from the cache.
KeptSoFar ==
    (run = "visit" /\ ~cut /\ facts # Absent) =>
        \A f \in Files : facts[f] # NoFacts => Facts(mem)[f] # NoFacts

\* While the model answers and no file changes, what was visited is up to date.
Current(f) == mem[f].hash = content[f] /\ mem[f].mode = "llm"

CleanSoFar ==
    clean => /\ run = "visit" => /\ ~offline
                                 /\ \A f \in Files \ todo :
                                       IF f \in seen THEN content[f] # 0 /\ Current(f) ELSE content[f] = 0
             /\ run \in {"cache", "verdict"} =>
                   \A f \in Files : IF content[f] = 0 THEN mem[f] = NoEntry ELSE Current(f)

ExtractionInv == ExtractionTypeOK /\ InStep /\ KeptSoFar /\ CleanSoFar

------------------------------------------------------------------------------
(* Not true of the code, see the README.                                  *)

\* CleanRunIsComplete without its exception: a failure is made up for.
FailuresAreMadeUpFor ==
    (run = "verdict" /\ clean) =>
        \A f \in Files : content[f] # 0 => facts[f] = [of |-> content[f], mode |-> "llm"]
==============================================================================
