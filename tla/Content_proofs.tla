---------------------------- MODULE Content_proofs ----------------------------
(* The way of what a project holds: mapped into facts (Extraction), indexed     *)
(* and answered from (Knowledge), pushed to the remote next to the backups       *)
(* (Publish).  Each of the three keeps its own invariant; what they take from    *)
(* their constants is said in the theorems.                                      *)
EXTENDS Publish, Extraction, Knowledge, TLAPS, FiniteSetTheorems
------------------------------------------------------------------------------

(* Extraction and its cache.                                                   *)

LEMMA FactsType ==
    ASSUME NEW c \in Caches
    PROVE  /\ Facts(c) \in FactGraphs
           /\ \A f \in Files : Facts(c)[f] = [of |-> c[f].of, mode |-> c[f].mode]
BY DEF Caches, FactGraphs, Entry, Facts

LEMMA NoEntryType ==
    /\ NoEntry \in Entry /\ Empty \in Caches
    /\ NoEntry.hash = 0 /\ NoEntry.of = 0 /\ NoEntry.mode = "offline"
BY ExtractionAssumption DEF NoEntry, Entry, Contents, Modes, Empty, Caches

LEMMA MapInit ==
    ASSUME ExtractionInit
    PROVE  ExtractionInv
<1>1. ExtractionTypeOK
  BY NoEntryType DEF ExtractionInit, ExtractionTypeOK
<1>2. InStep
  BY DEF ExtractionInit, InStep, Describes
<1>3. KeptSoFar /\ CleanSoFar
  BY DEF ExtractionInit, KeptSoFar, CleanSoFar
<1> QED BY <1>1, <1>2, <1>3 DEF ExtractionInv

\* What a visit does to the entry of its file, and that it leaves the others alone.
LEMMA VisitEffect ==
    ASSUME ExtractionInv, NEW f \in todo,
           todo' = todo \ {f}, Pass(f) \/ ReadFile(f)
    PROVE  /\ mem' \in Caches /\ offline' \in BOOLEAN /\ clean' \in BOOLEAN
           /\ seen' \subseteq Files \ todo' /\ \A g \in Files \ {f} : mem'[g] = mem[g] /\ (g \in seen' <=> g \in seen)
           /\ Facts(mem)[f] # NoFacts => Facts(mem')[f] # NoFacts
           /\ clean' => /\ clean /\ (~offline => ~offline')
                        /\ ~offline => IF f \in seen'
                                       THEN content[f] # 0 /\ mem'[f].hash = content[f] /\ mem'[f].mode = "llm"
                                       ELSE content[f] = 0
<1> DEFINE E(m) == [hash |-> content[f], of |-> content[f], mode |-> m]
<1>0. /\ mem \in Caches /\ offline \in BOOLEAN /\ clean \in BOOLEAN /\ f \in Files
      /\ seen \subseteq Files /\ f \notin seen /\ seen \subseteq Files \ todo /\ content[f] \in Contents /\ mem[f] \in Entry
  BY DEF ExtractionInv, ExtractionTypeOK, Caches
<1>1. CASE Pass(f)
  BY <1>0, <1>1 DEF Pass
<1>2. CASE ReadFile(f)
  <2>1. content[f] # 0 /\ seen' = seen \cup {f}
    BY <1>2 DEF ReadFile
  <2>2. ASSUME NEW m \in Modes, mem' = By(f, m)
        PROVE  /\ mem' \in Caches /\ \A g \in Files \ {f} : mem'[g] = mem[g]
               /\ Facts(mem')[f] # NoFacts
               /\ mem'[f].hash = content[f] /\ mem'[f].mode = m
    <3>1. E(m) \in Entry /\ E(m).of # 0
      BY <1>0, <2>1 DEF Entry
    <3>2. mem' \in Caches /\ mem'[f] = E(m) /\ \A g \in Files \ {f} : mem'[g] = mem[g]
      BY <1>0, <2>2, <3>1 DEF By, Caches
    <3>3. Facts(mem')[f] = [of |-> content[f], mode |-> m]
      BY <1>0, <3>2, FactsType
    <3> QED BY <2>1, <3>2, <3>3 DEF NoFacts
  <2>3. ASSUME mem' = Failing(f)
        PROVE  /\ mem' \in Caches /\ \A g \in Files \ {f} : mem'[g] = mem[g]
               /\ Facts(mem')[f] = Facts(mem)[f]
    <3>1. CASE mem' = mem
      BY <1>0, <3>1
    <3>2. CASE mem' = [mem EXCEPT ![f].hash = content[f]]
      <4>1. /\ [mem[f] EXCEPT !.hash = content[f]] \in Entry
            /\ [mem[f] EXCEPT !.hash = content[f]].of = mem[f].of
            /\ [mem[f] EXCEPT !.hash = content[f]].mode = mem[f].mode
        BY <1>0 DEF Entry
      <4>2. /\ mem' \in Caches /\ mem'[f] = [mem[f] EXCEPT !.hash = content[f]]
            /\ \A g \in Files \ {f} : mem'[g] = mem[g]
        BY <1>0, <3>2, <4>1 DEF Caches
      <4>3. /\ Facts(mem')[f] = [of |-> mem'[f].of, mode |-> mem'[f].mode]
            /\ Facts(mem)[f] = [of |-> mem[f].of, mode |-> mem[f].mode]
        BY <1>0, <4>2, FactsType
      <4> QED BY <4>1, <4>2, <4>3
    <3> QED BY <2>3, <3>1, <3>2 DEF Failing
  <2>4. CASE \/ clean' = FALSE /\ UNCHANGED <<mem, offline>>
             \/ Unchanged(f) /\ UNCHANGED <<mem, offline, clean>>
    <3>1. mem' = mem /\ Facts(mem') = Facts(mem)
      BY <2>4 DEF Facts
    <3>2. /\ offline' = offline /\ clean' \in BOOLEAN /\ (clean' => clean)
          /\ clean' /\ ~offline => mem[f].hash = content[f] /\ mem[f].mode = "llm"
      <4>1. CASE clean' = FALSE /\ UNCHANGED <<mem, offline>>
        BY <4>1
      <4>2. CASE Unchanged(f) /\ UNCHANGED <<mem, offline, clean>>
        BY <1>0, <4>2 DEF Unchanged
      <4> QED BY <2>4, <4>1, <4>2
    <3>3. seen' \subseteq Files \ todo' /\ f \in seen' /\ \A g \in Files \ {f} : g \in seen' <=> g \in seen
      BY <1>0, <2>1
    <3> QED BY <1>0, <2>1, <3>1, <3>2, <3>3
  <2>5. CASE ~Unchanged(f) /\ VisitOffline(f)
    BY <1>0, <2>1, <2>2, <2>5 DEF VisitOffline, Modes
  <2>6. CASE ~Unchanged(f) /\ VisitOnline(f)
    <3>1. CASE mem' = By(f, "llm") /\ UNCHANGED <<offline, clean>>
      BY <1>0, <2>1, <2>2, <3>1 DEF Modes
    <3>2. CASE mem' = Failing(f) /\ clean' = FALSE /\ UNCHANGED offline
      BY <1>0, <2>1, <2>3, <3>2
    <3>3. CASE mem' = By(f, "offline") /\ offline' = TRUE /\ clean' = FALSE
      BY <1>0, <2>1, <2>2, <3>3 DEF Modes
    <3> QED BY <2>6, <3>1, <3>2, <3>3 DEF VisitOnline
  <2> QED BY <1>2, <2>4, <2>5, <2>6 DEF ReadFile
<1> QED BY <1>1, <1>2

\* A graph made of a cache is there and whole.
LEMMA MadeOfCache ==
    ASSUME NEW c \in Caches
    PROVE  /\ Facts(c) \in FactGraphs /\ Facts(c) \notin {Absent, Torn}
           /\ Describes(Facts(c), c)
BY FactsType, ExtractionAssumption DEF Describes

LEMMA EditInv ==
    ASSUME ExtractionInv, Edit
    PROVE  ExtractionInv'
<1> USE DEF ExtractionInv, Edit
<1>1. ExtractionTypeOK'
  <2>1. content' \in [Files -> Contents]
    BY DEF ExtractionTypeOK
  <2> QED BY <2>1 DEF ExtractionTypeOK
<1>2. InStep'
  BY DEF InStep, Describes, Facts
<1>3. KeptSoFar' /\ CleanSoFar'
  BY DEF KeptSoFar, CleanSoFar, Facts
<1> QED BY <1>1, <1>2, <1>3

LEMMA StartInv ==
    ASSUME ExtractionInv, StartRun
    PROVE  ExtractionInv'
<1> USE DEF ExtractionInv, StartRun
<1>1. mem' \in Caches /\ (cache # Torn => mem' = cache)
  BY NoEntryType DEF ExtractionTypeOK
<1>2. IF facts = Absent THEN snap' = snap ELSE snap'.graph = facts /\ snap'.cache = cache
  BY DEF Snapshot
<1>3. ExtractionTypeOK'
  BY <1>1 DEF ExtractionTypeOK, Snapshot
<1>4. InStep'
  <2>1. ~cut => Describes(facts, cache)
    BY DEF InStep
  <2>2. facts = Absent => snap' = snap /\ snap.graph = Absent
    BY DEF InStep
  <2>3. ~cut => Describes(snap'.graph, snap'.cache)
    BY <1>2, <2>1, <2>2 DEF Describes
  <2>4. run' = "visit" /\ facts' = facts /\ cache' = cache /\ cut' = cut
    OBVIOUS
  <2>5. (~cut => Describes(facts, cache))' /\ (~cut => Describes(snap.graph, snap.cache))'
    BY <2>1, <2>3, <2>4 DEF Describes, Facts
  <2>6. facts' = Absent => snap'.graph = Absent
    BY <2>2, <2>4
  <2> QED BY <2>4, <2>5, <2>6 DEF InStep
<1>5. KeptSoFar'
  BY <1>1 DEF KeptSoFar, InStep, Describes
<1>6. CleanSoFar'
  BY DEF CleanSoFar, ExtractionTypeOK
<1> QED BY <1>3, <1>4, <1>5, <1>6

LEMMA VisitInv ==
    ASSUME ExtractionInv, Visit
    PROVE  ExtractionInv'
<1>1. PICK f \in todo : todo' = todo \ {f} /\ (Pass(f) \/ ReadFile(f))
  BY DEF Visit
<1>2. run = "visit" /\ UNCHANGED <<content, facts, cache, snap, run, cut>>
  BY DEF Visit, disk
<1>3. /\ mem \in Caches /\ mem' \in Caches /\ offline' \in BOOLEAN /\ clean' \in BOOLEAN
      /\ seen' \subseteq Files \ todo' /\ \A g \in Files \ {f} : mem'[g] = mem[g] /\ (g \in seen' <=> g \in seen)
      /\ todo \subseteq Files /\ f \in Files
  BY <1>1, VisitEffect DEF ExtractionInv, ExtractionTypeOK
<1>4. ExtractionTypeOK'
  BY <1>1, <1>2, <1>3 DEF ExtractionTypeOK, ExtractionInv
<1>5. InStep'
  BY <1>2 DEF ExtractionInv, InStep, Describes
<1>6. KeptSoFar'
  <2> SUFFICES ASSUME ~cut, facts # Absent, NEW g \in Files, facts[g] # NoFacts
               PROVE  Facts(mem')[g] # NoFacts
    BY <1>2 DEF KeptSoFar
  <2>1. Facts(mem)[g] # NoFacts
    BY <1>2 DEF ExtractionInv, KeptSoFar
  <2>2. CASE g = f
    BY <1>1, <2>1, <2>2, VisitEffect
  <2>3. CASE g # f
    <3>1. mem'[g] = mem[g]
      BY <1>3, <2>3
    <3>2. Facts(mem')[g] = Facts(mem)[g]
      BY <3>1 DEF Facts
    <3> QED BY <2>1, <3>2
  <2> QED BY <2>2, <2>3
<1>7. CleanSoFar'
  <2> SUFFICES ASSUME clean'
               PROVE  /\ ~offline'
                      /\ \A g \in Files \ todo' : IF g \in seen' THEN content[g] # 0 /\ Current(g)'
                                                                  ELSE content[g] = 0
    BY <1>2 DEF CleanSoFar
  <2>1. /\ clean /\ (~offline => ~offline')
        /\ ~offline => IF f \in seen'
                       THEN content[f] # 0 /\ mem'[f].hash = content[f] /\ mem'[f].mode = "llm"
                       ELSE content[f] = 0
    BY <1>1, VisitEffect
  <2>2. /\ ~offline
        /\ \A g \in Files \ todo : IF g \in seen THEN content[g] # 0 /\ Current(g)
                                                 ELSE content[g] = 0
    BY <1>2, <2>1 DEF ExtractionInv, CleanSoFar
  <2>3. ASSUME NEW g \in Files \ todo'
        PROVE  IF g \in seen' THEN content[g] # 0 /\ Current(g)' ELSE content[g] = 0
    <3>1. CASE g = f
      BY <1>2, <2>1, <2>2, <3>1 DEF Current
    <3>2. CASE g # f
      BY <1>1, <1>2, <1>3, <2>2, <3>2 DEF Current
    <3> QED BY <3>1, <3>2
  <2> QED BY <2>1, <2>2, <2>3
<1> QED BY <1>4, <1>5, <1>6, <1>7 DEF ExtractionInv

LEMMA RemainingType ==
    ASSUME ExtractionInv
    PROVE  /\ Remaining \in Caches
           /\ \A f \in Files : Remaining[f] = IF f \in seen THEN mem[f] ELSE NoEntry
BY NoEntryType DEF Remaining, Caches, ExtractionInv, ExtractionTypeOK

LEMMA WriteGraphInv ==
    ASSUME ExtractionInv, WriteGraph
    PROVE  ExtractionInv'
<1>1. /\ run = "visit" /\ run' = "cache" /\ todo = {}
      /\ mem' = Remaining /\ facts' = Facts(mem')
      /\ UNCHANGED <<content, cache, snap, todo, seen, offline, clean, cut>>
  BY DEF WriteGraph
<1>2. mem' \in Caches /\ facts' \in FactGraphs /\ facts' \notin {Absent, Torn}
  BY <1>1, RemainingType, MadeOfCache
<1>3. ExtractionTypeOK'
  BY <1>1, <1>2 DEF ExtractionTypeOK, ExtractionInv
<1>4. InStep'
  <2>1. (~cut => Describes(snap.graph, snap.cache))'
    BY <1>1 DEF ExtractionInv, InStep, Describes
  <2>2. (run \in {"cache", "verdict"} => facts = Facts(mem))'
    BY <1>1
  <2> QED BY <1>1, <1>2, <2>1, <2>2 DEF InStep
<1>5. KeptSoFar'
  BY <1>1 DEF KeptSoFar
<1>6. CleanSoFar'
  <2> SUFFICES ASSUME clean, NEW f \in Files
               PROVE  IF content[f] = 0 THEN mem'[f] = NoEntry ELSE Current(f)'
    BY <1>1 DEF CleanSoFar
  <2>1. IF f \in seen THEN content[f] # 0 /\ Current(f) ELSE content[f] = 0
    BY <1>1 DEF ExtractionInv, CleanSoFar
  <2>2. mem'[f] = IF f \in seen THEN mem[f] ELSE NoEntry
    BY <1>1, RemainingType
  <2> QED BY <1>1, <2>1, <2>2 DEF Current
<1> QED BY <1>3, <1>4, <1>5, <1>6 DEF ExtractionInv

LEMMA WriteCacheInv ==
    ASSUME ExtractionInv, WriteCache
    PROVE  ExtractionInv'
<1>1. /\ run = "cache" /\ run' = "verdict" /\ cache' = mem
      /\ UNCHANGED <<content, facts, snap, mem, todo, seen, offline, clean, cut>>
  BY DEF WriteCache
<1>2. ExtractionTypeOK'
  BY <1>1 DEF ExtractionTypeOK, ExtractionInv
<1>3. InStep'
  <2>1. (~cut => Describes(snap.graph, snap.cache))'
    BY <1>1 DEF ExtractionInv, InStep, Describes
  <2>2. facts' = Facts(mem') /\ (facts' = Absent => snap'.graph = Absent)
    BY <1>1 DEF ExtractionInv, InStep, Facts
  <2> QED BY <1>1, <2>1, <2>2 DEF InStep
<1>4. KeptSoFar' /\ CleanSoFar'
  BY <1>1 DEF KeptSoFar, CleanSoFar, ExtractionInv, Current
<1> QED BY <1>2, <1>3, <1>4 DEF ExtractionInv

\* Between runs nothing is remembered.
LEMMA IdleInv ==
    ASSUME ExtractionInv, Done,
           UNCHANGED <<content, snap>>, cut' \in BOOLEAN,
           facts' \in FactGraphs \cup {Absent, Torn}, cache' \in Caches \cup {Torn},
           ~cut' => Describes(facts', cache'), facts' = Absent => facts = Absent
    PROVE  ExtractionInv'
<1>1. ExtractionTypeOK'
  BY NoEntryType DEF Done, ExtractionTypeOK, ExtractionInv
<1>2. InStep'
  <2>1. (~cut => Describes(facts, cache))'
    OBVIOUS
  <2>2. run' = "idle" /\ (facts' = Absent => snap'.graph = Absent)
    BY DEF Done, ExtractionInv, InStep
  <2> QED BY <2>1, <2>2 DEF InStep
<1>3. KeptSoFar' /\ CleanSoFar'
  BY DEF Done, KeptSoFar, CleanSoFar
<1> QED BY <1>1, <1>2, <1>3 DEF ExtractionInv

LEMMA VerdictInv ==
    ASSUME ExtractionInv, Accept \/ Reject
    PROVE  ExtractionInv'
<1>1. run = "verdict" /\ cache = mem /\ facts = Facts(mem) /\ mem \in Caches
  BY DEF Accept, Reject, ExtractionInv, InStep, ExtractionTypeOK
<1>2. Describes(facts, cache) /\ facts # Absent
  BY <1>1, MadeOfCache
<1>3. CASE Accept
  <2>1. /\ Done /\ cut' = FALSE /\ facts' = facts /\ cache' = cache
        /\ UNCHANGED <<content, snap>>
    BY <1>3 DEF Accept, disk
  <2>2. Describes(facts', cache')
    BY <1>2, <2>1
  <2> QED BY <1>2, <2>1, <2>2, IdleInv DEF ExtractionInv, ExtractionTypeOK
<1>4. CASE Reject
  <2>1. Done /\ UNCHANGED <<content, snap, cut>>
    BY <1>4 DEF Reject
  <2>2. CASE snap.graph = Absent
    <3>1. facts' = facts /\ cache' = cache
      BY <1>4, <2>2 DEF Reject
    <3>2. Describes(facts', cache')
      BY <1>2, <3>1
    <3> QED BY <1>2, <2>1, <3>1, <3>2, IdleInv DEF ExtractionInv, ExtractionTypeOK
  <2>3. CASE snap.graph # Absent
    <3>1. facts' = snap.graph /\ cache' = snap.cache
      BY <1>4, <2>3 DEF Reject
    <3>2. ~cut => Describes(snap.graph, snap.cache)
      BY <1>1 DEF ExtractionInv, InStep
    <3>3. ~cut' => Describes(facts', cache')
      BY <2>1, <3>1, <3>2
    <3> QED BY <2>1, <2>3, <3>1, <3>3, IdleInv DEF ExtractionInv, ExtractionTypeOK
  <2> QED BY <2>2, <2>3
<1> QED BY <1>3, <1>4

LEMMA KillInv ==
    ASSUME ExtractionInv, KillRun
    PROVE  ExtractionInv'
<1>1. Done /\ cut' = TRUE /\ UNCHANGED <<content, snap>>
  BY DEF KillRun
<1>2. facts' \in {facts, Torn} /\ cache' \in {cache, Torn}
  BY DEF KillRun
<1>3. facts' = Absent => facts = Absent
  BY <1>2, ExtractionAssumption
<1> QED BY <1>1, <1>2, <1>3, IdleInv DEF ExtractionInv, ExtractionTypeOK

LEMMA MapNext ==
    ASSUME ExtractionInv, [ExtractionNext]_extractionVars
    PROVE  ExtractionInv'
<1>1. CASE UNCHANGED extractionVars
  BY <1>1 DEF extractionVars, disk, ExtractionInv, ExtractionTypeOK, InStep, Describes, Facts,
     KeptSoFar, CleanSoFar, Current
<1> QED BY <1>1, EditInv, StartInv, VisitInv, WriteGraphInv, WriteCacheInv, VerdictInv, KillInv
           DEF ExtractionNext

LEMMA MapInvariance ==
    ExtractionSpec => []ExtractionInv
<1>1. ExtractionInit => ExtractionInv
  BY MapInit
<1>2. ExtractionInv /\ [ExtractionNext]_extractionVars => ExtractionInv'
  BY MapNext
<1> QED BY <1>1, <1>2, PTL DEF ExtractionSpec

\* Between builds the graph is the one the cache describes, whatever was rejected,
\* unless a run was killed since the last accepted build.
THEOREM CacheAndGraphMatch ==
    ExtractionSpec => []GraphOfTheCache
<1>1. ExtractionInv => GraphOfTheCache
  BY DEF ExtractionInv, InStep, Describes, GraphOfTheCache
<1> QED BY <1>1, MapInvariance, PTL

\* A run the model answered throughout is as good as one over an empty cache, except
\* for contents it failed on before.
THEOREM IncrementalIsComplete ==
    ExtractionSpec => []CleanRunIsComplete
<1>1. ASSUME ExtractionInv PROVE CleanRunIsComplete
  <2> SUFFICES ASSUME run = "verdict", clean, NEW f \in Files
               PROVE  \/ facts[f] = (IF content[f] = 0 THEN NoFacts
                                                       ELSE [of |-> content[f], mode |-> "llm"])
                      \/ FailedBefore(f)
    BY DEF CleanRunIsComplete
  <2>1. cache = mem /\ facts = Facts(mem) /\ mem \in Caches
    BY <1>1 DEF ExtractionInv, InStep, ExtractionTypeOK
  <2>2. facts[f] = [of |-> mem[f].of, mode |-> mem[f].mode]
    BY <2>1, FactsType
  <2>3. IF content[f] = 0 THEN mem[f] = NoEntry ELSE Current(f)
    BY <1>1 DEF ExtractionInv, CleanSoFar
  <2> QED BY <2>1, <2>2, <2>3, NoEntryType DEF Current, FailedBefore, NoFacts
<1>2. ExtractionInv => CleanRunIsComplete
  BY <1>1
<1> QED BY <1>2, MapInvariance, PTL

\* What KnowledgeKept says of a step.
FactsStay ==
    (run = "visit" /\ run' = "cache" /\ ~cut /\ facts \notin {Absent, Torn}) =>
        \A f \in seen : facts[f] # NoFacts => facts'[f] # NoFacts

\* No file that is still there loses its place in the graph, whatever the model does.
THEOREM NoFileIsForgotten ==
    ExtractionSpec => KnowledgeKept
<1>1. ASSUME ExtractionInv, [ExtractionNext]_extractionVars PROVE [FactsStay]_extractionVars
  <2> SUFFICES ASSUME run = "visit", run' = "cache", ~cut, facts # Absent,
                      NEW f \in seen, facts[f] # NoFacts
               PROVE  facts'[f] # NoFacts
    BY DEF FactsStay
  <2>1. WriteGraph
    BY <1>1 DEF ExtractionNext, extractionVars, Edit, StartRun, Visit, WriteCache, Accept,
       Reject, KillRun, Done
  <2>2. Facts(mem)[f] # NoFacts /\ f \in Files /\ mem \in Caches
    BY <1>1 DEF ExtractionInv, KeptSoFar, ExtractionTypeOK
  <2>3. /\ facts' = Facts(Remaining) /\ Remaining \in Caches
        /\ Remaining[f] = mem[f]
    BY <1>1, <2>1, <2>2, RemainingType DEF WriteGraph
  <2>4. facts'[f] = [of |-> mem[f].of, mode |-> mem[f].mode]
    <3>1. Facts(Remaining)[f]
            = [of |-> Remaining[f].of, mode |-> Remaining[f].mode]
      BY <2>2, <2>3 DEF Facts
    <3> QED BY <3>1, <2>3
  <2>5. Facts(mem)[f] = [of |-> mem[f].of, mode |-> mem[f].mode]
    BY <2>2 DEF Facts
  <2> QED BY <2>2, <2>4, <2>5
<1>2. ExtractionInv /\ [ExtractionNext]_extractionVars => [FactsStay]_extractionVars
  BY <1>1
<1>3. ExtractionSpec => [][FactsStay]_extractionVars
  BY <1>2, MapInvariance, PTL DEF ExtractionSpec
<1> QED BY <1>3 DEF KnowledgeKept, FactsStay
------------------------------------------------------------------------------
(* What the hub answers from: Knowledge.                                       *)

USE DEF Goto, Got, onDisk, caches, locals, Times

LEMMA Blanks ==
    /\ 0 \in 0..MaxTime /\ 1 \in 0..MaxTime
    /\ NoIndex \in [of : 0..MaxTime, at : 0..MaxTime, fit : BOOLEAN]
    /\ NoTree \in [of : Trees \cup {0}, fit : BOOLEAN]
    /\ Nothing \in [key : 0..MaxTime, of : 0..MaxTime] /\ Nothing.key = 0
    /\ [of |-> 1, at |-> 1, fit |-> FALSE] \in [of : 0..MaxTime, at : 0..MaxTime, fit : BOOLEAN]
    /\ [of |-> 1, fit |-> FALSE] \in [of : Trees \cup {0}, fit : BOOLEAN]
<1>1. 0 \in 0..MaxTime /\ 1 \in 0..MaxTime
  BY KnowledgeAssumption
<1>2. 0 \in Trees \cup {0} /\ 1 \in Trees \cup {0}
  BY KnowledgeAssumption
<1> QED BY <1>1, <1>2 DEF NoIndex, NoTree, Nothing

LEMMA ViewInit ==
    ASSUME KnowledgeInit
    PROVE  KnowledgeInv
<1>1. KnowledgeTypeOK
  <2>1. index \in [of : 0..MaxTime, at : 0..MaxTime, fit : BOOLEAN]
    BY Blanks DEF KnowledgeInit
  <2>2. chunks \in [of : Trees \cup {0}, fit : BOOLEAN]
    BY Blanks DEF KnowledgeInit
  <2>3. parsed \in [key : 0..MaxTime, of : 0..MaxTime] /\ payload \in [key : 0..MaxTime, of : 0..MaxTime]
    BY Blanks DEF KnowledgeInit
  <2>4. lock \in Threads \cup {Free} /\ tree \in Trees \cup {0}
    BY KnowledgeAssumption DEF KnowledgeInit
  <2>5. pc \in [Threads -> Stages]
    BY DEF KnowledgeInit, Stages
  <2> QED BY <2>1, <2>2, <2>3, <2>4, <2>5, Blanks DEF KnowledgeInit, KnowledgeTypeOK
<1>2. LocksHeld /\ ViewsFit
  BY KnowledgeAssumption DEF Threads, KnowledgeInit, LocksHeld, ViewsFit
<1>3. Dated /\ Newer
  BY KnowledgeAssumption DEF Threads, KnowledgeInit, Dated, Newer, Nothing
<1>4. IndexFits /\ IndexFresh /\ ResponseCurrent
  BY KnowledgeAssumption DEF Threads, KnowledgeInit, IndexFits, IndexFresh, ResponseCurrent,
     Nothing, NoIndex, Fresh
<1> QED BY <1>1, <1>2, <1>3, <1>4 DEF KnowledgeInv

LEMMA GotoTyped ==
    ASSUME KnowledgeTypeOK, NEW t, NEW L \in SUBSET Stages,
           \E l \in L : pc' = [pc EXCEPT ![t] = l]
    PROVE  pc' \in [Threads -> Stages]
BY DEF KnowledgeTypeOK

\* What the end of a request does to the locals.
LEMMA EndEffect ==
    ASSUME KnowledgeTypeOK, NEW t \in Threads, End(t)
    PROVE  /\ pc' = [pc EXCEPT ![t] = "idle"]
           /\ key' \in [Viewers -> 0..MaxTime] /\ got' \in [Viewers \cup Askers -> 0..MaxTime]
           /\ base' \in [Askers \cup {Nightly} -> 0..MaxTime] /\ reads' \in Trees \cup {0}
           /\ seeds' \in [Askers -> 0..MaxTime] /\ again' \in [Askers -> SUBSET {"force", "retry"}]
           /\ \A v \in Viewers : key'[v] \in {0, key[v]} /\ (v # t => key'[v] = key[v])
           /\ \A r \in Viewers \cup Askers : got'[r] \in {0, got[r]} /\ (r # t => got'[r] = got[r])
           /\ \A r \in Askers \cup {Nightly} : r # t => base'[r] = base[r]
BY KnowledgeAssumption DEF KnowledgeTypeOK, End

\* Only the holder of the lock can be where the lock is needed.
LEMMA OneHolder ==
    ASSUME KnowledgeInv
    PROVE  /\ \A w \in Writers : pc[w] \in {"write", "publish", "rsync", "unlock"} => lock = w /\ lock # Free
           /\ \A t \in Askers \cup {Nightly} : pc[t] \in {"build", "save"} => lock = t /\ lock # Free
           /\ pc[Web] \in {"purge", "forget"} => lock = Web /\ lock # Free
           /\ lock \in Writers => lock \notin Askers \cup {Nightly, Web}
           /\ lock \in Askers \cup {Nightly} => lock # Web
BY KnowledgeAssumption DEF Threads, KnowledgeInv, LocksHeld

LEMMA Numbers ==
    ASSUME KnowledgeTypeOK
    PROVE  /\ clock \in Nat /\ src \in Nat /\ graph \in Nat
           /\ parsed.key \in Nat /\ payload.key \in Nat
           /\ \A v \in Viewers : key[v] \in Nat
           /\ \A t \in Viewers \cup Askers : got[t] \in Nat
BY KnowledgeAssumption DEF KnowledgeTypeOK

LEMMA LocalsTyped ==
    ASSUME KnowledgeTypeOK, NEW r \in Askers
    PROVE  /\ seeds \in [Askers -> 0..MaxTime] /\ got \in [Viewers \cup Askers -> 0..MaxTime]
           /\ again \in [Askers -> SUBSET {"force", "retry"}]
           /\ [seeds EXCEPT ![r] = 0] \in [Askers -> 0..MaxTime]
           /\ [seeds EXCEPT ![r] = graph] \in [Askers -> 0..MaxTime]
           /\ [seeds EXCEPT ![r] = index.of] \in [Askers -> 0..MaxTime]
           /\ [got EXCEPT ![r] = graph] \in [Viewers \cup Askers -> 0..MaxTime]
           /\ [again EXCEPT ![r] = {}] \in [Askers -> SUBSET {"force", "retry"}]
           /\ [again EXCEPT ![r] = {"retry"}] \in [Askers -> SUBSET {"force", "retry"}]
           /\ [again EXCEPT ![r] = again[r] \cup {"force"}] \in [Askers -> SUBSET {"force", "retry"}]
<1>1. \A S \in {{}, {"retry"}, again[r] \cup {"force"}} : S \in SUBSET {"force", "retry"}
  BY DEF KnowledgeTypeOK
<1>2. again \in [Askers -> SUBSET {"force", "retry"}]
  BY DEF KnowledgeTypeOK
<1>3. \A S \in {{}, {"retry"}, again[r] \cup {"force"}} :
        [again EXCEPT ![r] = S] \in [Askers -> SUBSET {"force", "retry"}]
  BY <1>1, <1>2
<1> QED BY <1>2, <1>3, Blanks DEF KnowledgeTypeOK

\* A thread that moves on keeps the lock as long as it has to.
LEMMA LockMoves ==
    ASSUME KnowledgeInv, NEW t \in Threads,
           pc' = [pc EXCEPT ![t] = pc'[t]],
           lock' = lock \/ (lock \in {Free, t} /\ lock' \in {Free, t}),
           lock' # t => /\ pc'[t] \notin {"write", "publish", "rsync", "build", "save", "purge", "forget"}
                        /\ t \in Writers => pc'[t] # "unlock"
    PROVE  LocksHeld'
<1>1. \A u \in Threads \ {t} : pc'[u] = pc[u]
  BY DEF KnowledgeInv, KnowledgeTypeOK
<1>2. \A u \in Threads \ {t} : lock = u => lock' = u
  BY KnowledgeAssumption
<1>3. LocksHeld
  BY DEF KnowledgeInv
<1>4. \A w \in Writers : pc'[w] \in {"write", "publish", "rsync", "unlock"} => lock' = w
  BY <1>1, <1>2, <1>3 DEF LocksHeld, Threads
<1>5. \A u \in Askers \cup {Nightly} : pc'[u] \in {"build", "save"} => lock' = u
  BY <1>1, <1>2, <1>3 DEF LocksHeld, Threads
<1>6. pc'[Web] \in {"purge", "forget"} => lock' = Web
  BY <1>1, <1>2, <1>3 DEF LocksHeld, Threads
<1> QED BY <1>4, <1>5, <1>6 DEF LocksHeld

\* A thread that goes where no view is leaves the views alone.
LEMMA ViewMoves ==
    ASSUME KnowledgeInv, NEW t \in Threads,
           pc' = [pc EXCEPT ![t] = pc'[t]], pc'[t] \notin {"stat", "parse", "keep"}, graph' = graph,
           \A v \in Viewers : v # t => key'[v] = key[v] /\ got'[v] = got[v]
    PROVE  ViewsFit'
BY DEF KnowledgeInv, KnowledgeTypeOK, Threads, ViewsFit

\* Most steps leave the graph, its index and what is kept of it alone: no more has to be
\* said of them than where they lead and what times they have read.
LEMMA QuietStep ==
    ASSUME KnowledgeInv,
           UNCHANGED <<clock, src, graph, index>>,
           parsed' \in {parsed, Nothing}, payload' \in {payload, Nothing},
           KnowledgeTypeOK', LocksHeld', ViewsFit',
           \A v \in Viewers : key'[v] \in {0, key[v], graph},
           \A t \in Viewers \cup Askers : got'[t] \in {0, got[t], graph},
           \A w \in Writers : pc'[w] \in {"publish", "rsync"} => pc'[w] = pc[w],
           \A t \in Askers \cup {Nightly} : pc'[t] = "save" => graph # 0 /\ base'[t] = graph
    PROVE  KnowledgeInv'
<1>0. KnowledgeTypeOK
  BY DEF KnowledgeInv
<1>1. /\ parsed'.key \in {0, parsed.key} /\ payload'.key \in {0, payload.key}
      /\ graph # 0 /\ parsed'.key = graph => parsed' = parsed
      /\ graph # 0 /\ payload'.key = graph => payload' = payload
  BY DEF Nothing
<1>2. Dated'
  BY <1>0, <1>1, Numbers DEF KnowledgeInv, Dated
<1>3. Newer'
  BY <1>0, <1>1, Numbers DEF KnowledgeInv, Newer
<1>4. IndexFits' /\ IndexFresh'
  BY DEF KnowledgeInv, IndexFits, IndexFresh, Fresh
<1>5. ResponseCurrent'
  BY <1>1 DEF KnowledgeInv, ResponseCurrent
<1> QED BY <1>2, <1>3, <1>4, <1>5 DEF KnowledgeInv

\* The end of a request, and of nothing else.
LEMMA EndKeeps ==
    ASSUME KnowledgeInv, NEW t \in Threads, End(t),
           UNCHANGED <<clock, tree, src, graph, index, lock>>,
           chunks' \in [of : Trees \cup {0}, fit : BOOLEAN],
           answers' \in [0..MaxTime -> 0..MaxTime \cup {Unknown}],
           parsed' \in {parsed, Nothing}, payload' \in {payload, Nothing}
    PROVE  KnowledgeInv'
<1>1. KnowledgeTypeOK
  BY DEF KnowledgeInv
<1>2. KnowledgeTypeOK'
  <2>1. /\ pc' = [pc EXCEPT ![t] = "idle"]
        /\ key' \in [Viewers -> 0..MaxTime] /\ got' \in [Viewers \cup Askers -> 0..MaxTime]
        /\ base' \in [Askers \cup {Nightly} -> 0..MaxTime] /\ reads' \in Trees \cup {0}
        /\ seeds' \in [Askers -> 0..MaxTime] /\ again' \in [Askers -> SUBSET {"force", "retry"}]
    BY <1>1, EndEffect
  <2>2. parsed' \in [key : 0..MaxTime, of : 0..MaxTime] /\ payload' \in [key : 0..MaxTime, of : 0..MaxTime]
    BY <1>1, Blanks DEF KnowledgeTypeOK
  <2>3. pc' \in [Threads -> Stages]
    <3>1. {"idle"} \in SUBSET Stages
      BY DEF Stages
    <3> QED BY <1>1, <2>1, <3>1, GotoTyped
  <2> QED BY <1>1, <2>1, <2>2, <2>3 DEF KnowledgeTypeOK
<1>3. /\ pc' = [pc EXCEPT ![t] = "idle"]
      /\ \A v \in Viewers : v # t => key'[v] = key[v] /\ got'[v] = got[v]
      /\ \A u \in Askers \cup {Nightly} : u # t => base'[u] = base[u]
  BY <1>1, EndEffect
<1>4. LocksHeld'
  BY <1>3 DEF KnowledgeInv, KnowledgeTypeOK, Threads, LocksHeld
<1>5. ViewsFit'
  BY <1>3 DEF KnowledgeInv, KnowledgeTypeOK, Threads, ViewsFit
<1>6. /\ \A u \in Writers : pc'[u] \in {"publish", "rsync"} => pc'[u] = pc[u]
      /\ \A u \in Askers \cup {Nightly} : pc'[u] = "save" => graph # 0 /\ base'[u] = graph
  BY <1>3 DEF KnowledgeInv, KnowledgeTypeOK, Threads, IndexFits
<1>7. /\ \A v \in Viewers : key'[v] \in {0, key[v], graph}
      /\ \A u \in Viewers \cup Askers : got'[u] \in {0, got[u], graph}
  BY <1>1, EndEffect
<1> QED BY <1>2, <1>4, <1>5, <1>6, <1>7, QuietStep

LEMMA ViewKeeps ==
    ASSUME Unlocked = {}, KnowledgeInv, NEW v \in Viewers,
           View(v)
    PROVE  KnowledgeInv'
<1>1. KnowledgeTypeOK'
  BY KnowledgeAssumption DEF Threads, KnowledgeInv, KnowledgeTypeOK, Stages, View
<1>2. LocksHeld' /\ ViewsFit'
  BY OneHolder, KnowledgeAssumption DEF Threads, KnowledgeInv, KnowledgeTypeOK, LocksHeld,
     ViewsFit, View
<1>3. /\ UNCHANGED <<clock, src, graph, index>>
      /\ parsed' \in {parsed, Nothing} /\ payload' \in {payload, Nothing}
      /\ \A u \in Viewers : key'[u] \in {0, key[u], graph}
      /\ \A u \in Viewers \cup Askers : got'[u] \in {0, got[u], graph}
      /\ \A u \in Writers : pc'[u] \in {"publish", "rsync"} => pc'[u] = pc[u]
      /\ \A u \in Askers \cup {Nightly} : pc'[u] = "save" => graph # 0 /\ base'[u] = graph
  BY KnowledgeAssumption DEF Threads, KnowledgeInv, KnowledgeTypeOK, IndexFits, View
<1> QED BY <1>1, <1>2, <1>3, QuietStep

LEMMA AskKeeps ==
    ASSUME Unlocked = {}, KnowledgeInv, NEW r \in Askers,
           Ask(r)
    PROVE  KnowledgeInv'
<1>1. KnowledgeTypeOK'
  BY KnowledgeAssumption DEF Threads, KnowledgeInv, KnowledgeTypeOK, Stages, Ask
<1>2. LocksHeld' /\ ViewsFit'
  BY OneHolder, KnowledgeAssumption DEF Threads, KnowledgeInv, KnowledgeTypeOK, LocksHeld,
     ViewsFit, Ask
<1>3. /\ UNCHANGED <<clock, src, graph, index>>
      /\ parsed' \in {parsed, Nothing} /\ payload' \in {payload, Nothing}
      /\ \A u \in Viewers : key'[u] \in {0, key[u], graph}
      /\ \A u \in Viewers \cup Askers : got'[u] \in {0, got[u], graph}
      /\ \A u \in Writers : pc'[u] \in {"publish", "rsync"} => pc'[u] = pc[u]
      /\ \A u \in Askers \cup {Nightly} : pc'[u] = "save" => graph # 0 /\ base'[u] = graph
  BY KnowledgeAssumption DEF Threads, KnowledgeInv, KnowledgeTypeOK, IndexFits, Ask
<1> QED BY <1>1, <1>2, <1>3, QuietStep

LEMMA ExplainKeeps ==
    ASSUME Unlocked = {}, KnowledgeInv, NEW r \in Askers,
           Explain(r)
    PROVE  KnowledgeInv'
<1>1. KnowledgeTypeOK'
  BY KnowledgeAssumption DEF Threads, KnowledgeInv, KnowledgeTypeOK, Stages, Explain
<1>2. LocksHeld' /\ ViewsFit'
  BY OneHolder, KnowledgeAssumption DEF Threads, KnowledgeInv, KnowledgeTypeOK, LocksHeld,
     ViewsFit, Explain
<1>3. /\ UNCHANGED <<clock, src, graph, index>>
      /\ parsed' \in {parsed, Nothing} /\ payload' \in {payload, Nothing}
      /\ \A u \in Viewers : key'[u] \in {0, key[u], graph}
      /\ \A u \in Viewers \cup Askers : got'[u] \in {0, got[u], graph}
      /\ \A u \in Writers : pc'[u] \in {"publish", "rsync"} => pc'[u] = pc[u]
      /\ \A u \in Askers \cup {Nightly} : pc'[u] = "save" => graph # 0 /\ base'[u] = graph
  BY KnowledgeAssumption DEF Threads, KnowledgeInv, KnowledgeTypeOK, IndexFits, Explain
<1> QED BY <1>1, <1>2, <1>3, QuietStep

LEMMA ReadKeeps ==
    ASSUME Unlocked = {}, KnowledgeInv, NEW r \in Askers,
           Read(r)
    PROVE  KnowledgeInv'
<1>1. KnowledgeTypeOK'
  BY KnowledgeAssumption DEF Threads, KnowledgeInv, KnowledgeTypeOK, Stages, Read
<1>2. LocksHeld' /\ ViewsFit'
  BY OneHolder, KnowledgeAssumption DEF Threads, KnowledgeInv, KnowledgeTypeOK, LocksHeld,
     ViewsFit, Read
<1>3. /\ UNCHANGED <<clock, src, graph, index>>
      /\ parsed' \in {parsed, Nothing} /\ payload' \in {payload, Nothing}
      /\ \A u \in Viewers : key'[u] \in {0, key[u], graph}
      /\ \A u \in Viewers \cup Askers : got'[u] \in {0, got[u], graph}
      /\ \A u \in Writers : pc'[u] \in {"publish", "rsync"} => pc'[u] = pc[u]
      /\ \A u \in Askers \cup {Nightly} : pc'[u] = "save" => graph # 0 /\ base'[u] = graph
  BY KnowledgeAssumption DEF Threads, KnowledgeInv, KnowledgeTypeOK, IndexFits, Read
<1> QED BY <1>1, <1>2, <1>3, QuietStep

LEMMA CheckKeeps ==
    ASSUME Unlocked = {}, KnowledgeInv, NEW r \in Askers,
           Check(r)
    PROVE  KnowledgeInv'
<1>1. KnowledgeTypeOK'
  <2>1. pc' \in [Threads -> Stages]
    <3>1. \E l \in {"seed", "lock", "fallback"} : pc' = [pc EXCEPT ![r] = l]
      BY DEF Check
    <3>2. {"seed", "lock", "fallback"} \in SUBSET Stages
      BY DEF Stages
    <3> QED BY <3>1, <3>2, GotoTyped DEF KnowledgeInv
  <2> QED BY <2>1 DEF Check, KnowledgeInv, KnowledgeTypeOK
<1>2. LocksHeld' /\ ViewsFit'
  <2>1. pc' = [pc EXCEPT ![r] = pc'[r]] /\ pc'[r] \in {"seed", "lock", "fallback"} /\ r \in Threads
    <3>1. \E l \in {"seed", "lock", "fallback"} : pc' = [pc EXCEPT ![r] = l]
      BY DEF Check
    <3> QED BY <3>1 DEF KnowledgeInv, KnowledgeTypeOK, Threads
  <2>2. graph' = graph /\ \A v \in Viewers : v # r => key'[v] = key[v] /\ got'[v] = got[v]
    BY DEF Check, KnowledgeInv, KnowledgeTypeOK
  <2>3. lock' = lock
    BY DEF Check
  <2>4. LocksHeld'
    BY <2>1, <2>3, LockMoves, KnowledgeAssumption
  <2> QED BY <2>1, <2>2, <2>4, ViewMoves
<1>3. /\ UNCHANGED <<clock, src, graph, index>>
      /\ parsed' \in {parsed, Nothing} /\ payload' \in {payload, Nothing}
      /\ \A u \in Viewers : key'[u] \in {0, key[u], graph}
      /\ \A u \in Viewers \cup Askers : got'[u] \in {0, got[u], graph}
      /\ \A u \in Writers : pc'[u] \in {"publish", "rsync"} => pc'[u] = pc[u]
      /\ \A u \in Askers \cup {Nightly} : pc'[u] = "save" => graph # 0 /\ base'[u] = graph
  <2>1. \E l \in {"seed", "lock", "fallback"} : pc' = [pc EXCEPT ![r] = l]
    BY DEF Check
  <2>2. \A u \in Threads : pc'[u] = pc[u] \/ pc'[u] \in {"seed", "lock", "fallback"}
    BY <2>1 DEF KnowledgeInv, KnowledgeTypeOK
  <2> QED BY <2>2 DEF Threads, KnowledgeInv, IndexFits, Check
<1> QED BY <1>1, <1>2, <1>3, QuietStep

LEMMA NightIndexKeeps ==
    ASSUME Unlocked = {}, KnowledgeInv, NightIndex
    PROVE  KnowledgeInv'
<1>1. KnowledgeTypeOK'
  BY KnowledgeAssumption DEF Threads, KnowledgeInv, KnowledgeTypeOK, Stages, NightIndex
<1>2. LocksHeld' /\ ViewsFit'
  BY OneHolder, KnowledgeAssumption DEF Threads, KnowledgeInv, KnowledgeTypeOK, LocksHeld,
     ViewsFit, NightIndex
<1>3. /\ UNCHANGED <<clock, src, graph, index>>
      /\ parsed' \in {parsed, Nothing} /\ payload' \in {payload, Nothing}
      /\ \A u \in Viewers : key'[u] \in {0, key[u], graph}
      /\ \A u \in Viewers \cup Askers : got'[u] \in {0, got[u], graph}
      /\ \A u \in Writers : pc'[u] \in {"publish", "rsync"} => pc'[u] = pc[u]
      /\ \A u \in Askers \cup {Nightly} : pc'[u] = "save" => graph # 0 /\ base'[u] = graph
  BY KnowledgeAssumption DEF Threads, KnowledgeInv, KnowledgeTypeOK, IndexFits, NightIndex
<1> QED BY <1>1, <1>2, <1>3, QuietStep

LEMMA IndexLockKeeps ==
    ASSUME Unlocked = {}, KnowledgeInv, NEW t \in Askers \cup {Nightly},
           IndexLock(t)
    PROVE  KnowledgeInv'
<1>1. KnowledgeTypeOK'
  <2>1. pc' \in [Threads -> Stages]
    <3>1. \E l \in {"build", "unlock", "fallback"} : pc' = [pc EXCEPT ![t] = l]
      BY DEF IndexLock, Failed
    <3>2. {"build", "unlock", "fallback"} \in SUBSET Stages
      BY DEF Stages
    <3> QED BY <3>1, <3>2, GotoTyped DEF KnowledgeInv
  <2>2. lock' \in Threads \cup {Free}
    BY DEF IndexLock, KnowledgeInv, KnowledgeTypeOK, Threads
  <2> QED BY <2>1, <2>2 DEF IndexLock, KnowledgeInv, KnowledgeTypeOK
<1>2. LocksHeld' /\ ViewsFit'
  <2>1. pc' = [pc EXCEPT ![t] = pc'[t]] /\ pc'[t] \in {"build", "unlock", "fallback"} /\ t \in Threads
    <3>1. \E l \in {"build", "unlock", "fallback"} : pc' = [pc EXCEPT ![t] = l]
      BY DEF IndexLock, Failed
    <3> QED BY <3>1 DEF KnowledgeInv, KnowledgeTypeOK, Threads
  <2>2. graph' = graph /\ \A v \in Viewers : v # t => key'[v] = key[v] /\ got'[v] = got[v]
    BY DEF IndexLock, KnowledgeInv, KnowledgeTypeOK
  <2>3. \/ lock = Free /\ lock' = t
        \/ lock' = lock /\ pc'[t] \in {"unlock", "fallback"}
    BY <2>1 DEF IndexLock, MayBuild, Failed, KnowledgeInv, KnowledgeTypeOK
  <2>4. LocksHeld'
    BY <2>1, <2>3, LockMoves, KnowledgeAssumption
  <2> QED BY <2>1, <2>2, <2>4, ViewMoves
<1>3. /\ UNCHANGED <<clock, src, graph, index>>
      /\ parsed' \in {parsed, Nothing} /\ payload' \in {payload, Nothing}
      /\ \A u \in Viewers : key'[u] \in {0, key[u], graph}
      /\ \A u \in Viewers \cup Askers : got'[u] \in {0, got[u], graph}
      /\ \A u \in Writers : pc'[u] \in {"publish", "rsync"} => pc'[u] = pc[u]
      /\ \A u \in Askers \cup {Nightly} : pc'[u] = "save" => graph # 0 /\ base'[u] = graph
  BY KnowledgeAssumption DEF Threads, KnowledgeInv, KnowledgeTypeOK, IndexFits, IndexLock,
     MayBuild, Failed
<1> QED BY <1>1, <1>2, <1>3, QuietStep

LEMMA IndexReadKeeps ==
    ASSUME Unlocked = {}, KnowledgeInv, NEW t \in Askers \cup {Nightly},
           IndexRead(t)
    PROVE  KnowledgeInv'
<1>1. KnowledgeTypeOK'
  <2>1. lock' \in Threads \cup {Free} /\ base' \in [Askers \cup {Nightly} -> 0..MaxTime]
    <3>1. lock' \in {lock, Free}
      BY DEF IndexRead, Released
    <3>2. base' = base \/ base' = [base EXCEPT ![t] = graph]
      BY DEF IndexRead
    <3> QED BY <3>1, <3>2 DEF KnowledgeInv, KnowledgeTypeOK
  <2>2 pc' \in [Threads -> Stages]
    <3>1. \E l \in {"seed", "chunk", "fallback", "unlock", "save"} : pc' = [pc EXCEPT ![t] = l]
      BY DEF IndexRead, Failed, Built
    <3>2. {"seed", "chunk", "fallback", "unlock", "save"} \in SUBSET Stages
      BY DEF Stages
    <3> QED BY <3>1, <3>2, GotoTyped DEF KnowledgeInv
  <2> QED BY SMTT(30), <2>1, <2>2 DEF KnowledgeInv, KnowledgeTypeOK, IndexRead
<1>2. LocksHeld' /\ ViewsFit'
  <2>1. pc' = [pc EXCEPT ![t] = pc'[t]] /\ pc'[t] \in {"save", "seed", "chunk", "unlock", "fallback"} /\ t \in Threads
    <3>1. \E l \in {"save", "seed", "chunk", "unlock", "fallback"} : pc' = [pc EXCEPT ![t] = l]
      BY DEF IndexRead, Failed, Built
    <3> QED BY <3>1 DEF KnowledgeInv, KnowledgeTypeOK, Threads
  <2>2. graph' = graph /\ \A v \in Viewers : v # t => key'[v] = key[v] /\ got'[v] = got[v]
    BY DEF IndexRead, KnowledgeInv, KnowledgeTypeOK
  <2>3. lock = t /\ (lock' = t \/ (lock' = Free /\ pc'[t] # "save"))
    <3>1. lock = t
      BY OneHolder DEF IndexRead
    <3>2. \/ lock' = lock
          \/ lock' \in {Free, Released(t)} /\ pc' = [pc EXCEPT ![t] = Failed(t)]
          \/ lock' \in {Free, Released(t)} /\ pc' = [pc EXCEPT ![t] = Built(t)]
      BY DEF IndexRead
    <3>3. Failed(t) # "save" /\ Built(t) # "save" /\ Released(t) = Free
      BY <3>1 DEF Failed, Built, Released
    <3>4. \A x : pc' = [pc EXCEPT ![t] = x] => pc'[t] = x
      BY <2>1 DEF KnowledgeInv, KnowledgeTypeOK
    <3>5. CASE lock' = lock
      BY <3>1, <3>5
    <3>6. CASE lock' \in {Free, Released(t)} /\ pc'[t] \in {Failed(t), Built(t)}
      BY <3>1, <3>3, <3>6
    <3> QED BY <3>2, <3>4, <3>5, <3>6
  <2>4. LocksHeld'
    BY <2>1, <2>3, LockMoves, KnowledgeAssumption
  <2> QED BY <2>1, <2>2, <2>4, ViewMoves
<1>3. /\ UNCHANGED <<clock, src, graph, index>>
      /\ parsed' \in {parsed, Nothing} /\ payload' \in {payload, Nothing}
      /\ \A u \in Viewers : key'[u] \in {0, key[u], graph}
      /\ \A u \in Viewers \cup Askers : got'[u] \in {0, got[u], graph}
      /\ \A u \in Writers : pc'[u] \in {"publish", "rsync"} => pc'[u] = pc[u]
      /\ \A u \in Askers \cup {Nightly} : pc'[u] = "save" => graph # 0 /\ base'[u] = graph
  BY SMTT(30), KnowledgeAssumption DEF Threads, KnowledgeInv, KnowledgeTypeOK, IndexFits,
     IndexRead, Released, Built, Failed
<1> QED BY <1>1, <1>2, <1>3, QuietStep

LEMMA SeedKeeps ==
    ASSUME Unlocked = {}, KnowledgeInv, NEW r \in Askers,
           Seed(r)
    PROVE  KnowledgeInv'
<1>1. KnowledgeTypeOK'
  <2>1. seeds' \in [Askers -> 0..MaxTime]
    BY LocalsTyped DEF KnowledgeInv, Seed
  <2>3. again' \in [Askers -> SUBSET {"force", "retry"}]
    <3>1. again' = again \/ again' = [again EXCEPT ![r] = again[r] \cup {"force"}]
      BY DEF Seed
    <3> QED BY <3>1, LocalsTyped DEF KnowledgeInv
  <2>2 pc' \in [Threads -> Stages]
    <3>1. \E l \in {"excerpts", "fallback", "lock"} : pc' = [pc EXCEPT ![r] = l]
      BY DEF Seed
    <3>2. {"excerpts", "fallback", "lock"} \in SUBSET Stages
      BY DEF Stages
    <3> QED BY <3>1, <3>2, GotoTyped DEF KnowledgeInv
  <2> QED BY SMTT(30), <2>1, <2>2, <2>3 DEF KnowledgeInv, KnowledgeTypeOK, Seed
<1>2. LocksHeld' /\ ViewsFit'
  <2>1. pc' = [pc EXCEPT ![r] = pc'[r]] /\ pc'[r] \in {"excerpts", "fallback", "lock"} /\ r \in Threads
    <3>1. \E l \in {"excerpts", "fallback", "lock"} : pc' = [pc EXCEPT ![r] = l]
      BY DEF Seed
    <3> QED BY <3>1 DEF KnowledgeInv, KnowledgeTypeOK, Threads
  <2>2. graph' = graph /\ \A v \in Viewers : v # r => key'[v] = key[v] /\ got'[v] = got[v]
    BY DEF Seed, KnowledgeInv, KnowledgeTypeOK
  <2>3. lock' = lock
    BY DEF Seed
  <2>4. LocksHeld'
    BY <2>1, <2>3, LockMoves, KnowledgeAssumption
  <2> QED BY <2>1, <2>2, <2>4, ViewMoves
<1>3. /\ UNCHANGED <<clock, src, graph, index>>
      /\ parsed' \in {parsed, Nothing} /\ payload' \in {payload, Nothing}
      /\ \A u \in Viewers : key'[u] \in {0, key[u], graph}
      /\ \A u \in Viewers \cup Askers : got'[u] \in {0, got[u], graph}
      /\ \A u \in Writers : pc'[u] \in {"publish", "rsync"} => pc'[u] = pc[u]
      /\ \A u \in Askers \cup {Nightly} : pc'[u] = "save" => graph # 0 /\ base'[u] = graph
  BY KnowledgeAssumption DEF Threads, KnowledgeInv, KnowledgeTypeOK, IndexFits, Seed
<1> QED BY <1>1, <1>2, <1>3, QuietStep

LEMMA FallbackKeeps ==
    ASSUME Unlocked = {}, KnowledgeInv, NEW r \in Askers,
           Fallback(r)
    PROVE  KnowledgeInv'
<1>1. KnowledgeTypeOK'
  <2>1. seeds' \in [Askers -> 0..MaxTime] /\ got' \in [Viewers \cup Askers -> 0..MaxTime]
    <3>1. \/ seeds' = seeds /\ got' = got
          \/ seeds' = [seeds EXCEPT ![r] = graph] /\ got' = [got EXCEPT ![r] = graph]
      BY DEF Fallback
    <3>2. KnowledgeTypeOK
      BY DEF KnowledgeInv
    <3>3. CASE seeds' = seeds /\ got' = got
      BY <3>2, <3>3, LocalsTyped
    <3>4. CASE seeds' = [seeds EXCEPT ![r] = graph] /\ got' = [got EXCEPT ![r] = graph]
      BY <3>2, <3>4, LocalsTyped
    <3> QED BY <3>1, <3>3, <3>4
  <2>3. again' \in [Askers -> SUBSET {"force", "retry"}]
    <3>1. again' = again \/ again' = [again EXCEPT ![r] = {"retry"}]
      BY DEF Fallback
    <3> QED BY <3>1, LocalsTyped DEF KnowledgeInv
  <2>2 pc' \in [Threads -> Stages]
    <3>1. \E l \in {"read", "stored"} : pc' = [pc EXCEPT ![r] = l]
      BY DEF Fallback
    <3>2. {"read", "stored"} \in SUBSET Stages
      BY DEF Stages
    <3> QED BY <3>1, <3>2, GotoTyped DEF KnowledgeInv
  <2> QED BY SMTT(30), <2>1, <2>2, <2>3 DEF KnowledgeInv, KnowledgeTypeOK, Fallback
<1>2. LocksHeld' /\ ViewsFit'
  <2>1. pc' = [pc EXCEPT ![r] = pc'[r]] /\ pc'[r] \in {"read", "stored"} /\ r \in Threads
    <3>1. \E l \in {"read", "stored"} : pc' = [pc EXCEPT ![r] = l]
      BY DEF Fallback
    <3> QED BY <3>1 DEF KnowledgeInv, KnowledgeTypeOK, Threads
  <2>2. graph' = graph /\ \A v \in Viewers : v # r => key'[v] = key[v] /\ got'[v] = got[v]
    BY DEF Fallback, KnowledgeInv, KnowledgeTypeOK
  <2>3. lock' = lock
    BY DEF Fallback
  <2>4. LocksHeld'
    BY <2>1, <2>3, LockMoves, KnowledgeAssumption
  <2> QED BY <2>1, <2>2, <2>4, ViewMoves
<1>3. /\ UNCHANGED <<clock, src, graph, index>>
      /\ parsed' \in {parsed, Nothing} /\ payload' \in {payload, Nothing}
      /\ \A u \in Viewers : key'[u] \in {0, key[u], graph}
      /\ \A u \in Viewers \cup Askers : got'[u] \in {0, got[u], graph}
      /\ \A u \in Writers : pc'[u] \in {"publish", "rsync"} => pc'[u] = pc[u]
      /\ \A u \in Askers \cup {Nightly} : pc'[u] = "save" => graph # 0 /\ base'[u] = graph
  BY KnowledgeAssumption DEF Threads, KnowledgeInv, KnowledgeTypeOK, IndexFits, Fallback
<1> QED BY <1>1, <1>2, <1>3, QuietStep

LEMMA ExcerptsKeeps ==
    ASSUME Unlocked = {}, KnowledgeInv, NEW r \in Askers,
           Excerpts(r)
    PROVE  KnowledgeInv'
<1>1. KnowledgeTypeOK'
  <2>1. chunks' \in [of : Trees \cup {0}, fit : BOOLEAN] /\ reads' \in Trees \cup {0}
    <3>1. chunks' \in {chunks, NoTree} /\ reads' \in {reads, tree}
      BY DEF Excerpts
    <3> QED BY <3>1, Blanks DEF KnowledgeInv, KnowledgeTypeOK
  <2>2. pc' \in [Threads -> {"stored", "chunk"} \cup {pc[t] : t \in Threads}]
    <3>1. \/ pc' = [pc EXCEPT ![r] = "stored", ![Bg] = "chunk"]
          \/ pc' = [pc EXCEPT ![r] = "stored"]
      BY DEF Excerpts
    <3>2. pc = [u \in Threads |-> pc[u]]
      BY DEF KnowledgeInv, KnowledgeTypeOK
    <3> QED BY <3>1, <3>2
  <2> QED BY SMTT(30), <2>1, <2>2 DEF KnowledgeInv, KnowledgeTypeOK, Stages, Excerpts
<1>2. LocksHeld' /\ ViewsFit'
  <2>1. \A u \in Threads : \/ pc'[u] = pc[u]
                                     \/ (u = r /\ pc'[u] = "stored")
                                     \/ (u = Bg /\ pc'[u] = "chunk")
    <3>1. \/ pc' = [pc EXCEPT ![r] = "stored", ![Bg] = "chunk"]
          \/ pc' = [pc EXCEPT ![r] = "stored"]
      BY DEF Excerpts
    <3>2. pc = [u \in Threads |-> pc[u]]
      BY DEF KnowledgeInv, KnowledgeTypeOK
    <3> QED BY <3>1, <3>2
  <2>2. UNCHANGED <<key, got, graph, lock>>
    BY DEF Excerpts
  <2>3. LocksHeld'
    BY <2>1, <2>2 DEF KnowledgeInv, Threads, LocksHeld
  <2> QED BY <2>1, <2>2, <2>3 DEF KnowledgeInv, Threads, ViewsFit
<1>3. /\ UNCHANGED <<clock, src, graph, index>>
      /\ parsed' \in {parsed, Nothing} /\ payload' \in {payload, Nothing}
      /\ \A u \in Viewers : key'[u] \in {0, key[u], graph}
      /\ \A u \in Viewers \cup Askers : got'[u] \in {0, got[u], graph}
      /\ \A u \in Writers : pc'[u] \in {"publish", "rsync"} => pc'[u] = pc[u]
      /\ \A u \in Askers \cup {Nightly} : pc'[u] = "save" => graph # 0 /\ base'[u] = graph
  BY KnowledgeAssumption DEF Threads, KnowledgeInv, KnowledgeTypeOK, IndexFits, Excerpts, NoTree
<1> QED BY <1>1, <1>2, <1>3, QuietStep

LEMMA StartKeeps ==
    ASSUME Unlocked = {}, KnowledgeInv, NEW w \in Writers,
           Start(w)
    PROVE  KnowledgeInv'
<1>1. KnowledgeTypeOK'
  BY KnowledgeAssumption DEF Threads, KnowledgeInv, KnowledgeTypeOK, Stages, Start
<1>2. LocksHeld' /\ ViewsFit'
  BY OneHolder, KnowledgeAssumption DEF Threads, KnowledgeInv, KnowledgeTypeOK, LocksHeld,
     ViewsFit, Start
<1>3. /\ UNCHANGED <<clock, src, graph, index>>
      /\ parsed' \in {parsed, Nothing} /\ payload' \in {payload, Nothing}
      /\ \A u \in Viewers : key'[u] \in {0, key[u], graph}
      /\ \A u \in Viewers \cup Askers : got'[u] \in {0, got[u], graph}
      /\ \A u \in Writers : pc'[u] \in {"publish", "rsync"} => pc'[u] = pc[u]
      /\ \A u \in Askers \cup {Nightly} : pc'[u] = "save" => graph # 0 /\ base'[u] = graph
  BY KnowledgeAssumption DEF Threads, KnowledgeInv, KnowledgeTypeOK, IndexFits, Start
<1> QED BY <1>1, <1>2, <1>3, QuietStep

LEMMA FinishKeeps ==
    ASSUME Unlocked = {}, KnowledgeInv, NEW w \in Writers,
           Finish(w)
    PROVE  KnowledgeInv'
<1>1. KnowledgeTypeOK'
  BY KnowledgeAssumption DEF Threads, KnowledgeInv, KnowledgeTypeOK, Stages, Finish
<1>2. LocksHeld' /\ ViewsFit'
  BY OneHolder, KnowledgeAssumption DEF Threads, KnowledgeInv, KnowledgeTypeOK, LocksHeld,
     ViewsFit, Finish
<1>3. /\ UNCHANGED <<clock, src, graph, index>>
      /\ parsed' \in {parsed, Nothing} /\ payload' \in {payload, Nothing}
      /\ \A u \in Viewers : key'[u] \in {0, key[u], graph}
      /\ \A u \in Viewers \cup Askers : got'[u] \in {0, got[u], graph}
      /\ \A u \in Writers : pc'[u] \in {"publish", "rsync"} => pc'[u] = pc[u]
      /\ \A u \in Askers \cup {Nightly} : pc'[u] = "save" => graph # 0 /\ base'[u] = graph
  BY KnowledgeAssumption DEF Threads, KnowledgeInv, KnowledgeTypeOK, IndexFits, Finish
<1> QED BY <1>1, <1>2, <1>3, QuietStep

LEMMA RemoveKeeps ==
    ASSUME Unlocked = {}, KnowledgeInv, Remove
    PROVE  KnowledgeInv'
<1>1. KnowledgeTypeOK'
  BY KnowledgeAssumption DEF Threads, KnowledgeInv, KnowledgeTypeOK, Stages, Remove, MayPurge
<1>2. LocksHeld' /\ ViewsFit'
  BY OneHolder, KnowledgeAssumption DEF Threads, KnowledgeInv, KnowledgeTypeOK, LocksHeld,
     ViewsFit, Remove, MayPurge
<1>3. /\ UNCHANGED <<clock, src, graph, index>>
      /\ parsed' \in {parsed, Nothing} /\ payload' \in {payload, Nothing}
      /\ \A u \in Viewers : key'[u] \in {0, key[u], graph}
      /\ \A u \in Viewers \cup Askers : got'[u] \in {0, got[u], graph}
      /\ \A u \in Writers : pc'[u] \in {"publish", "rsync"} => pc'[u] = pc[u]
      /\ \A u \in Askers \cup {Nightly} : pc'[u] = "save" => graph # 0 /\ base'[u] = graph
  BY KnowledgeAssumption DEF Threads, KnowledgeInv, KnowledgeTypeOK, IndexFits, Remove, MayPurge
<1> QED BY <1>1, <1>2, <1>3, QuietStep

LEMMA RegisterKeeps ==
    ASSUME Unlocked = {}, KnowledgeInv, Register
    PROVE  KnowledgeInv'
<1>1. KnowledgeTypeOK'
  BY KnowledgeAssumption DEF Threads, KnowledgeInv, KnowledgeTypeOK, Stages, Register
<1>2. LocksHeld' /\ ViewsFit'
  BY OneHolder, KnowledgeAssumption DEF Threads, KnowledgeInv, KnowledgeTypeOK, LocksHeld,
     ViewsFit, Register
<1>3. /\ UNCHANGED <<clock, src, graph, index>>
      /\ parsed' \in {parsed, Nothing} /\ payload' \in {payload, Nothing}
      /\ \A u \in Viewers : key'[u] \in {0, key[u], graph}
      /\ \A u \in Viewers \cup Askers : got'[u] \in {0, got[u], graph}
      /\ \A u \in Writers : pc'[u] \in {"publish", "rsync"} => pc'[u] = pc[u]
      /\ \A u \in Askers \cup {Nightly} : pc'[u] = "save" => graph # 0 /\ base'[u] = graph
  BY KnowledgeAssumption DEF Threads, KnowledgeInv, KnowledgeTypeOK, IndexFits, Register
<1> QED BY <1>1, <1>2, <1>3, QuietStep

LEMMA CrowdedKeeps ==
    ASSUME Unlocked = {}, KnowledgeInv, Crowded
    PROVE  KnowledgeInv'
<1>1. KnowledgeTypeOK'
  BY KnowledgeAssumption DEF Threads, KnowledgeInv, KnowledgeTypeOK, Stages, Crowded, Nothing
<1>2. LocksHeld' /\ ViewsFit'
  BY OneHolder, KnowledgeAssumption DEF Threads, KnowledgeInv, KnowledgeTypeOK, LocksHeld,
     ViewsFit, Crowded, Nothing
<1>3. /\ UNCHANGED <<clock, src, graph, index>>
      /\ parsed' \in {parsed, Nothing} /\ payload' \in {payload, Nothing}
      /\ \A u \in Viewers : key'[u] \in {0, key[u], graph}
      /\ \A u \in Viewers \cup Askers : got'[u] \in {0, got[u], graph}
      /\ \A u \in Writers : pc'[u] \in {"publish", "rsync"} => pc'[u] = pc[u]
      /\ \A u \in Askers \cup {Nightly} : pc'[u] = "save" => graph # 0 /\ base'[u] = graph
  BY KnowledgeAssumption DEF Threads, KnowledgeInv, KnowledgeTypeOK, IndexFits, Crowded, Nothing
<1> QED BY <1>1, <1>2, <1>3, QuietStep

LEMMA ChunkSaveKeeps ==
    ASSUME Unlocked = {}, KnowledgeInv, NEW t \in {Nightly, Bg},
           ChunkSave(t)
    PROVE  KnowledgeInv'
<1>1. chunks' \in [of : Trees \cup {0}, fit : BOOLEAN]
  BY DEF KnowledgeInv, KnowledgeTypeOK, ChunkSave
<1>2. /\ t \in Threads /\ End(t)
      /\ UNCHANGED <<clock, tree, src, graph, index, lock, answers, parsed, payload>>
  BY DEF Threads, ChunkSave
<1> QED BY <1>1, <1>2, EndKeeps DEF KnowledgeInv, KnowledgeTypeOK

LEMMA NightGivesUpKeeps ==
    ASSUME Unlocked = {}, KnowledgeInv, NightGivesUp
    PROVE  KnowledgeInv'
<1>1. /\ Nightly \in Threads /\ End(Nightly)
      /\ UNCHANGED <<clock, tree, src, graph, index, lock, chunks, answers, parsed, payload>>
  BY DEF Threads, NightGivesUp
<1> QED BY <1>1, EndKeeps DEF KnowledgeInv, KnowledgeTypeOK

LEMMA StoredKeeps ==
    ASSUME Unlocked = {}, KnowledgeInv, NEW r \in Askers,
           Stored(r)
    PROVE  KnowledgeInv'
<1>0. CASE End(r)
  <2>1. /\ r \in Threads
        /\ UNCHANGED <<clock, tree, src, graph, index, lock, chunks, answers, parsed, payload>>
    BY DEF Threads, Stored
  <2> QED BY <1>0, <2>1, EndKeeps DEF KnowledgeInv, KnowledgeTypeOK
<1>1. CASE ~End(r)
  <2>1. /\ \E l \in {"read", "llm"} : pc' = [pc EXCEPT ![r] = l]
        /\ UNCHANGED <<clock, tree, src, graph, index, chunks, answers, parsed, payload, lock, key, base, reads>>
    BY <1>1 DEF Stored
  <2>2. \A u \in Viewers \cup Askers : got'[u] \in {got[u], graph} /\ (u # r => got'[u] = got[u])
    BY <1>1 DEF Stored, KnowledgeInv, KnowledgeTypeOK
  <2>3. /\ got' \in [Viewers \cup Askers -> 0..MaxTime]
        /\ seeds' \in [Askers -> 0..MaxTime] /\ again' \in [Askers -> SUBSET {"force", "retry"}]
    <3>1. /\ got' = got
          /\ \/ seeds' = [seeds EXCEPT ![r] = 0] /\ again' = [again EXCEPT ![r] = {}]
             \/ seeds' = seeds /\ again' = again
      BY <1>1 DEF Stored
    <3>2. /\ got \in [Viewers \cup Askers -> 0..MaxTime]
          /\ seeds \in [Askers -> 0..MaxTime] /\ again \in [Askers -> SUBSET {"force", "retry"}]
          /\ [seeds EXCEPT ![r] = 0] \in [Askers -> 0..MaxTime]
          /\ [again EXCEPT ![r] = {}] \in [Askers -> SUBSET {"force", "retry"}]
      BY LocalsTyped DEF KnowledgeInv
    <3> QED BY <3>1, <3>2
  <2>4. KnowledgeTypeOK'
    <3>1. pc' \in [Threads -> Stages]
      <4>1. {"read", "llm"} \in SUBSET Stages
        BY DEF Stages
      <4> QED BY <2>1, <4>1, GotoTyped DEF KnowledgeInv
    <3> QED BY <2>1, <2>3, <3>1 DEF KnowledgeInv, KnowledgeTypeOK
  <2>5. LocksHeld' /\ ViewsFit'
    BY <2>1, <2>2, KnowledgeAssumption DEF Threads, KnowledgeInv, KnowledgeTypeOK, LocksHeld,
       ViewsFit
  <2>6. /\ \A u \in Writers : pc'[u] \in {"publish", "rsync"} => pc'[u] = pc[u]
        /\ \A u \in Askers \cup {Nightly} : pc'[u] = "save" => graph # 0 /\ base'[u] = graph
    BY <2>1 DEF Threads, KnowledgeInv, KnowledgeTypeOK, IndexFits
  <2> QED BY <2>1, <2>2, <2>4, <2>5, <2>6, QuietStep
<1> QED BY <1>0, <1>1

LEMMA ContextKeeps ==
    ASSUME Unlocked = {}, KnowledgeInv, NEW r \in Askers,
           Context(r)
    PROVE  KnowledgeInv'
<1>0. CASE End(r)
  <2>1. /\ r \in Threads
        /\ UNCHANGED <<clock, tree, src, graph, index, lock, chunks, answers, parsed, payload>>
    BY DEF Threads, Context
  <2> QED BY <1>0, <2>1, EndKeeps DEF KnowledgeInv, KnowledgeTypeOK
<1>1. CASE ~End(r)
  <2>1. /\ \E l \in {"llm"} : pc' = [pc EXCEPT ![r] = l]
        /\ UNCHANGED <<clock, tree, src, graph, index, chunks, answers, parsed, payload, lock, key, base, reads>>
    BY <1>1 DEF Context
  <2>2. \A u \in Viewers \cup Askers : got'[u] \in {got[u], graph} /\ (u # r => got'[u] = got[u])
    BY <1>1 DEF Context, KnowledgeInv, KnowledgeTypeOK
  <2>3. /\ got' \in [Viewers \cup Askers -> 0..MaxTime]
        /\ seeds' \in [Askers -> 0..MaxTime] /\ again' \in [Askers -> SUBSET {"force", "retry"}]
    <3>1. got' = [got EXCEPT ![r] = graph] /\ seeds' = seeds /\ again' = again
      BY <1>1 DEF Context
    <3> QED BY <3>1, LocalsTyped DEF KnowledgeInv
  <2>4. KnowledgeTypeOK'
    <3>1. pc' \in [Threads -> Stages]
      <4>1. {"llm"} \in SUBSET Stages
        BY DEF Stages
      <4> QED BY <2>1, <4>1, GotoTyped DEF KnowledgeInv
    <3> QED BY <2>1, <2>3, <3>1 DEF KnowledgeInv, KnowledgeTypeOK
  <2>5. LocksHeld' /\ ViewsFit'
    BY <2>1, <2>2, KnowledgeAssumption DEF Threads, KnowledgeInv, KnowledgeTypeOK, LocksHeld,
       ViewsFit
  <2>6. /\ \A u \in Writers : pc'[u] \in {"publish", "rsync"} => pc'[u] = pc[u]
        /\ \A u \in Askers \cup {Nightly} : pc'[u] = "save" => graph # 0 /\ base'[u] = graph
    BY <2>1 DEF Threads, KnowledgeInv, KnowledgeTypeOK, IndexFits
  <2> QED BY <2>1, <2>2, <2>4, <2>5, <2>6, QuietStep
<1> QED BY <1>0, <1>1

LEMMA AnswerKeeps ==
    ASSUME Unlocked = {}, KnowledgeInv, NEW r \in Askers,
           Answer(r)
    PROVE  KnowledgeInv'
<1>1. answers' \in [0..MaxTime -> 0..MaxTime \cup {Unknown}]
  BY DEF KnowledgeInv, KnowledgeTypeOK, Answer
<1>2. /\ r \in Threads /\ End(r)
      /\ UNCHANGED <<clock, tree, src, graph, index, lock, chunks, parsed, payload>>
  BY DEF Threads, Answer
<1> QED BY <1>1, <1>2, EndKeeps DEF KnowledgeInv, KnowledgeTypeOK

LEMMA StatKeeps ==
    ASSUME Unlocked = {}, KnowledgeInv, NEW v \in Viewers,
           Stat(v)
    PROVE  KnowledgeInv'
<1>0. KnowledgeTypeOK /\ v \in Threads
  BY DEF KnowledgeInv, Threads
<1>1. CASE End(v)
  <2>1. /\ parsed' \in {parsed, Nothing}
        /\ UNCHANGED <<clock, tree, src, graph, index, lock, chunks, answers, payload>>
    BY DEF Stat
  <2> QED BY <1>0, <1>1, <2>1, EndKeeps DEF KnowledgeTypeOK
<1>2. CASE ~End(v)
  <2>1. /\ \E l \in {"parse", "keep"} : pc' = [pc EXCEPT ![v] = l]
        /\ UNCHANGED <<clock, tree, src, graph, index, chunks, answers, parsed, payload, lock,
                       key, base, reads, seeds, again>>
    BY <1>2 DEF Stat
  <2>2. got' = [got EXCEPT ![v] = graph]
    BY <1>2 DEF Stat, KnowledgeInv, ResponseCurrent
  <2>3. KnowledgeTypeOK'
    <3>1. pc' \in [Threads -> Stages]
      <4>1. {"parse", "keep"} \in SUBSET Stages
        BY DEF Stages
      <4> QED BY <2>1, <4>1, GotoTyped DEF KnowledgeInv
    <3> QED BY <1>0, <2>1, <2>2, <3>1 DEF KnowledgeTypeOK
  <2>4. LocksHeld'
    BY <1>0, <2>1, KnowledgeAssumption DEF Threads, KnowledgeInv, KnowledgeTypeOK, LocksHeld
  <2>5. ViewsFit'
    BY <1>0, <2>1, <2>2 DEF KnowledgeInv, Threads, KnowledgeTypeOK, ViewsFit, Stat
  <2>6. /\ \A u \in Viewers \cup Askers : got'[u] \in {0, got[u], graph}
        /\ \A u \in Writers : pc'[u] \in {"publish", "rsync"} => pc'[u] = pc[u]
        /\ \A u \in Askers \cup {Nightly} : pc'[u] = "save" => graph # 0 /\ base'[u] = graph
    BY <1>0, <2>1, <2>2 DEF Threads, KnowledgeInv, KnowledgeTypeOK, IndexFits
  <2> QED BY <2>1, <2>3, <2>4, <2>5, <2>6, QuietStep
<1> QED BY <1>1, <1>2

LEMMA ParseKeeps ==
    ASSUME Unlocked = {}, KnowledgeInv, NEW v \in Viewers,
           Parse(v)
    PROVE  KnowledgeInv'
<1>0. KnowledgeTypeOK /\ v \in Threads
  BY DEF KnowledgeInv, Threads
<1>1. /\ parsed' = [key |-> got[v], of |-> graph]
      /\ \E l \in {"idle", "keep"} : pc' = [pc EXCEPT ![v] = l]
      /\ UNCHANGED <<clock, tree, src, graph, index, chunks, answers, payload, lock>>
  BY <1>0, EndEffect DEF Parse
<1>2. /\ key' \in [Viewers -> 0..MaxTime] /\ got' \in [Viewers \cup Askers -> 0..MaxTime]
      /\ base' \in [Askers \cup {Nightly} -> 0..MaxTime] /\ reads' \in Trees \cup {0}
      /\ seeds' \in [Askers -> 0..MaxTime] /\ again' \in [Askers -> SUBSET {"force", "retry"}]
  <2>1. CASE graph = 0
    BY <1>0, <2>1, EndEffect DEF Parse
  <2>2. CASE graph # 0
    <3>1. got' = [got EXCEPT ![v] = graph] /\ UNCHANGED <<key, base, reads, seeds, again>>
      BY <2>2 DEF Parse
    <3> QED BY <1>0, <3>1 DEF KnowledgeTypeOK
  <2> QED BY <2>1, <2>2
<1>3. /\ \A u \in Viewers : key'[u] \in {0, key[u]} /\ (pc'[u] = "keep" \/ u # v => key'[u] = key[u])
      /\ \A u \in Viewers \cup Askers : got'[u] \in {0, got[u], graph} /\ (u # v => got'[u] = got[u])
      /\ pc'[v] = "keep" => got'[v] = graph
      /\ \A u \in Askers \cup {Nightly} : u # v => base'[u] = base[u]
  <2>1. CASE graph = 0
    BY SMTT(30), <1>0, <2>1, EndEffect DEF Parse, KnowledgeTypeOK
  <2>2. CASE graph # 0
    BY <1>0, <2>2 DEF Parse, KnowledgeTypeOK
  <2> QED BY <2>1, <2>2
<1>4. KnowledgeTypeOK'
  <2>2. parsed' \in [key : 0..MaxTime, of : 0..MaxTime]
    BY <1>0, <1>1 DEF KnowledgeTypeOK
  <2>1. pc' \in [Threads -> Stages]
    <3>1. {"idle", "keep"} \in SUBSET Stages
      BY DEF Stages
    <3> QED BY <1>1, <3>1, GotoTyped DEF KnowledgeInv
  <2> QED BY <1>0, <1>1, <1>2, <2>1, <2>2 DEF KnowledgeTypeOK
<1>5. LocksHeld'
  BY <1>0, <1>1 DEF Threads, KnowledgeInv, KnowledgeTypeOK, LocksHeld
<1>6. Dated'
  BY <1>0, <1>1, <1>3, Numbers DEF KnowledgeInv, Dated
<1>7. Newer'
  <2> SUFFICES ASSUME NEW w \in Writers, pc'[w] \in {"publish", "rsync"}
               PROVE  /\ src = clock /\ graph < clock /\ got[v] < clock /\ payload.key < clock
                      /\ \A u \in Viewers : key'[u] < clock
                      /\ \A u \in Viewers \cup Askers : got'[u] < clock
    BY <1>1 DEF Newer
  <2>1. pc[w] = pc'[w]
    BY <1>0, <1>1 DEF Threads, KnowledgeTypeOK
  <2>2. /\ src = clock /\ graph < clock /\ payload.key < clock
        /\ \A u \in Viewers : key[u] < clock
        /\ \A u \in Viewers \cup Askers : got[u] < clock
    BY <2>1 DEF KnowledgeInv, Newer
  <2>3. 0 < clock
    BY <1>0, <2>2, Numbers
  <2> QED BY <1>3, <2>2, <2>3
<1>8. ViewsFit' /\ ResponseCurrent'
  BY <1>0, <1>1, <1>3 DEF Parse, KnowledgeInv, KnowledgeTypeOK, Threads, ViewsFit,
     ResponseCurrent
<1>9. IndexFits' /\ IndexFresh'
  BY <1>0, <1>1, <1>3 DEF KnowledgeInv, KnowledgeTypeOK, Threads, IndexFits, IndexFresh, Fresh
<1> QED BY <1>4, <1>5, <1>6, <1>7, <1>8, <1>9 DEF KnowledgeInv

LEMMA KeepKeeps ==
    ASSUME Unlocked = {}, KnowledgeInv, NEW v \in Viewers,
           KeepPayload(v)
    PROVE  KnowledgeInv'
<1>1. KnowledgeTypeOK'
  BY Blanks, OneHolder, KnowledgeAssumption DEF Threads, KnowledgeInv, KnowledgeTypeOK, Stages,
     KeepPayload, PayloadKey, End
<1>2. LocksHeld'
  BY Blanks, OneHolder, KnowledgeAssumption DEF Threads, KnowledgeInv, KnowledgeTypeOK,
     LocksHeld, KeepPayload, PayloadKey, End
<1>3. Dated' /\ Newer'
  BY Blanks, OneHolder, KnowledgeAssumption DEF Threads, KnowledgeInv, KnowledgeTypeOK,
     LocksHeld, Dated, Newer, KeepPayload, PayloadKey, End
<1>4. ViewsFit' /\ ResponseCurrent'
  BY Blanks, OneHolder, KnowledgeAssumption DEF Threads, KnowledgeInv, KnowledgeTypeOK,
     LocksHeld, Dated, Newer, ViewsFit, ResponseCurrent, KeepPayload, PayloadKey, End
<1>5. IndexFits' /\ IndexFresh'
  BY Blanks, OneHolder, KnowledgeAssumption DEF Threads, KnowledgeInv, KnowledgeTypeOK,
     LocksHeld, IndexFits, IndexFresh, Fresh, KeepPayload, PayloadKey, End
<1> QED BY <1>1, <1>2, <1>3, <1>4, <1>5 DEF KnowledgeInv

LEMMA IndexSaveKeeps ==
    ASSUME Unlocked = {}, KnowledgeInv, NEW t \in Askers \cup {Nightly},
           IndexSave(t)
    PROVE  KnowledgeInv'
<1>1. KnowledgeTypeOK'
  <2>1. index' \in [of : 0..MaxTime, at : 0..MaxTime, fit : BOOLEAN]
    <3>1. [of |-> base[t], at |-> clock, fit |-> TRUE] \in [of : 0..MaxTime, at : 0..MaxTime, fit : BOOLEAN]
      BY DEF KnowledgeInv, KnowledgeTypeOK
    <3> QED BY <3>1 DEF IndexSave, KnowledgeInv, KnowledgeTypeOK
  <2>2. base' \in [Askers \cup {Nightly} -> 0..MaxTime]
    BY Blanks DEF IndexSave, KnowledgeInv, KnowledgeTypeOK
  <2>3 pc' \in [Threads -> Stages]
    <3>1. \E l \in {"chunk", "seed", "unlock", "fallback"} : pc' = [pc EXCEPT ![t] = l]
      BY DEF IndexSave, Built, Failed
    <3>2. {"chunk", "seed", "unlock", "fallback"} \in SUBSET Stages
      BY DEF Stages
    <3> QED BY <3>1, <3>2, GotoTyped DEF KnowledgeInv
  <2>4. lock' \in Threads \cup {Free}
    BY DEF IndexSave, Released, KnowledgeInv, KnowledgeTypeOK
  <2> QED BY SMTT(30), <2>1, <2>2, <2>3, <2>4 DEF IndexSave, KnowledgeInv, KnowledgeTypeOK
<1>2. LocksHeld'
  BY SMTT(30), Blanks, OneHolder, KnowledgeAssumption DEF Threads, KnowledgeInv,
     KnowledgeTypeOK, LocksHeld, IndexSave, Built, Failed, Released
<1>3. Dated' /\ Newer'
  BY Blanks, OneHolder, KnowledgeAssumption DEF Threads, KnowledgeInv, KnowledgeTypeOK,
     LocksHeld, Dated, Newer, IndexSave, Built, Failed, Released
<1>4. ViewsFit' /\ ResponseCurrent'
  BY Blanks, OneHolder, KnowledgeAssumption DEF Threads, KnowledgeInv, KnowledgeTypeOK,
     LocksHeld, Dated, Newer, ViewsFit, ResponseCurrent, IndexSave, Built, Failed, Released
<1>5. IndexFits' /\ IndexFresh'
  <2>1. /\ graph # 0 /\ base[t] = graph /\ graph <= clock /\ lock = t /\ UNCHANGED <<graph, clock>>
        /\ t \in Threads
    BY OneHolder DEF IndexSave, KnowledgeInv, IndexFits, Dated, Threads
  <2>2. /\ pc'[t] # "save" /\ \A u \in Threads \ {t} : pc'[u] = pc[u]
        /\ \A u \in (Askers \cup {Nightly}) \ {t} : base'[u] = base[u]
    BY DEF IndexSave, Built, Failed, KnowledgeInv, KnowledgeTypeOK, Threads
  <2>3. \A w \in Writers : pc'[w] # "rsync"
    BY <2>1, <2>2, OneHolder, KnowledgeAssumption DEF Threads
  <2>4. IndexFits'
    BY <2>1, <2>2, <2>3 DEF KnowledgeInv, IndexFits, Threads
  <2>5. index' = index \/ index'.of = graph
    BY <2>1 DEF IndexSave
  <2> QED BY <2>1, <2>4, <2>5 DEF KnowledgeInv, IndexFresh, Fresh
<1> QED BY <1>1, <1>2, <1>3, <1>4, <1>5 DEF KnowledgeInv

LEMMA WriteKeeps ==
    ASSUME Unlocked = {}, KnowledgeInv, NEW w \in Writers,
           Write(w)
    PROVE  KnowledgeInv'
<1>1. KnowledgeTypeOK'
  <2>1. clock' \in 0..MaxTime /\ src' \in 0..MaxTime
    BY KnowledgeAssumption DEF Write, KnowledgeInv, KnowledgeTypeOK
  <2>2 pc' \in [Threads -> Stages]
    <3>1. \E l \in {"publish", "unlock"} : pc' = [pc EXCEPT ![w] = l]
      BY DEF Write
    <3>2. {"publish", "unlock"} \in SUBSET Stages
      BY DEF Stages
    <3> QED BY <3>1, <3>2, GotoTyped DEF KnowledgeInv
  <2> QED BY <2>1, <2>2 DEF Write, KnowledgeInv, KnowledgeTypeOK
<1>2. LocksHeld'
  BY SMTT(30), Blanks, OneHolder, KnowledgeAssumption DEF Threads, KnowledgeInv,
     KnowledgeTypeOK, LocksHeld, Write
<1>3. Dated' /\ Newer'
  BY SMTT(30), Blanks, OneHolder, KnowledgeAssumption DEF Threads, KnowledgeInv,
     KnowledgeTypeOK, LocksHeld, Dated, Newer, Write
<1>4. ViewsFit' /\ ResponseCurrent'
  BY Blanks, OneHolder, KnowledgeAssumption DEF Threads, KnowledgeInv, KnowledgeTypeOK,
     LocksHeld, Dated, Newer, ViewsFit, ResponseCurrent, Write
<1>5. IndexFits' /\ IndexFresh'
  <2>1. \A u \in Threads : pc'[u] = pc[u] \/ pc'[u] \in {"publish", "unlock"}
    BY DEF Write, KnowledgeInv, KnowledgeTypeOK
  <2> QED BY <2>1 DEF Write, KnowledgeInv, Threads, IndexFits, IndexFresh, Fresh
<1> QED BY <1>1, <1>2, <1>3, <1>4, <1>5 DEF KnowledgeInv

LEMMA PublishKeeps ==
    ASSUME Unlocked = {}, KnowledgeInv, NEW w \in Writers,
           Publish(w)
    PROVE  KnowledgeInv'
<1>1. KnowledgeTypeOK'
  <2>1. index' \in {index, NoIndex}
    BY DEF Publish, Deleted
  <2>2. pc' \in [Threads -> Stages]
    <3>1. \E l \in {"rsync", "unlock"} : pc' = [pc EXCEPT ![w] = l]
      BY DEF Publish
    <3>2. {"rsync", "unlock"} \in SUBSET Stages
      BY DEF Stages
    <3> QED BY <3>1, <3>2, GotoTyped DEF KnowledgeInv
  <2> QED BY <2>1, <2>2, Blanks DEF Publish, KnowledgeInv, KnowledgeTypeOK
<1>2. LocksHeld'
  BY SMTT(30), Blanks, OneHolder, KnowledgeAssumption DEF Threads, KnowledgeInv,
     KnowledgeTypeOK, LocksHeld, Publish, Deleted
<1>3. Dated' /\ Newer'
  BY Blanks, OneHolder, KnowledgeAssumption DEF Threads, KnowledgeInv, KnowledgeTypeOK,
     LocksHeld, Dated, Newer, Publish, Deleted
<1>4. ViewsFit' /\ ResponseCurrent'
  BY SMTT(30), Blanks, OneHolder, KnowledgeAssumption DEF Threads, KnowledgeInv,
     KnowledgeTypeOK, LocksHeld, Dated, Newer, ViewsFit, ResponseCurrent, Publish, Deleted
<1>5. IndexFits' /\ IndexFresh'
  BY SMTT(30), Blanks, OneHolder, KnowledgeAssumption DEF Threads, KnowledgeInv,
     KnowledgeTypeOK, LocksHeld, IndexFits, IndexFresh, Fresh, Publish, Deleted
<1> QED BY <1>1, <1>2, <1>3, <1>4, <1>5 DEF KnowledgeInv

LEMMA RsyncKeeps ==
    ASSUME Unlocked = {}, KnowledgeInv, NEW w \in Writers,
           Rsync(w)
    PROVE  KnowledgeInv'
<1>1. KnowledgeTypeOK'
  BY Blanks, OneHolder, KnowledgeAssumption DEF Threads, KnowledgeInv, KnowledgeTypeOK, Stages,
     Rsync
<1>2. LocksHeld'
  BY Blanks, OneHolder, KnowledgeAssumption DEF Threads, KnowledgeInv, KnowledgeTypeOK,
     LocksHeld, Rsync
<1>3. Dated' /\ Newer'
  BY Blanks, OneHolder, KnowledgeAssumption DEF Threads, KnowledgeInv, KnowledgeTypeOK,
     LocksHeld, Dated, Newer, Rsync
<1>4. ViewsFit' /\ ResponseCurrent'
  <2>1. /\ graph' = clock /\ parsed.key < clock /\ payload.key < clock
        /\ \A v \in Viewers : key[v] < clock
    BY DEF Rsync, KnowledgeInv, Newer
  <2>2. parsed.key # graph' /\ payload.key # graph' /\ \A v \in Viewers : key[v] # graph'
    BY <2>1, Numbers DEF KnowledgeInv
  <2>3. \A v \in Viewers : pc'[v] = pc[v]
    BY KnowledgeAssumption DEF Rsync, Threads, KnowledgeInv, KnowledgeTypeOK
  <2> QED BY <2>2, <2>3 DEF Rsync, KnowledgeInv, ViewsFit, ResponseCurrent
<1>5. IndexFits' /\ IndexFresh'
  BY Blanks, OneHolder, KnowledgeAssumption DEF Threads, KnowledgeInv, KnowledgeTypeOK,
     LocksHeld, IndexFits, IndexFresh, Fresh, Rsync
<1> QED BY <1>1, <1>2, <1>3, <1>4, <1>5 DEF KnowledgeInv

LEMMA PurgeHubKeeps ==
    ASSUME Unlocked = {}, KnowledgeInv, PurgeHub
    PROVE  KnowledgeInv'
<1>1. KnowledgeTypeOK'
  BY Blanks, OneHolder, KnowledgeAssumption DEF Threads, KnowledgeInv, KnowledgeTypeOK, Stages,
     PurgeHub
<1>2. LocksHeld'
  BY Blanks, OneHolder, KnowledgeAssumption DEF Threads, KnowledgeInv, KnowledgeTypeOK,
     LocksHeld, PurgeHub
<1>3. Dated' /\ Newer'
  BY Blanks, OneHolder, KnowledgeAssumption DEF Threads, KnowledgeInv, KnowledgeTypeOK,
     LocksHeld, Dated, Newer, PurgeHub
<1>4. ViewsFit' /\ ResponseCurrent'
  BY Blanks, OneHolder, KnowledgeAssumption DEF Threads, KnowledgeInv, KnowledgeTypeOK,
     LocksHeld, Dated, Newer, ViewsFit, ResponseCurrent, PurgeHub
<1>5. IndexFits' /\ IndexFresh'
  BY Blanks, OneHolder, KnowledgeAssumption DEF Threads, KnowledgeInv, KnowledgeTypeOK,
     LocksHeld, IndexFits, IndexFresh, Fresh, PurgeHub
<1> QED BY <1>1, <1>2, <1>3, <1>4, <1>5 DEF KnowledgeInv

LEMMA ForgetKeeps ==
    ASSUME Unlocked = {}, KnowledgeInv, Forget
    PROVE  KnowledgeInv'
<1>1. KnowledgeTypeOK'
  BY Blanks, OneHolder, KnowledgeAssumption DEF Threads, KnowledgeInv, KnowledgeTypeOK, Stages,
     Forget, LeftChunks
<1>2. LocksHeld'
  BY Blanks, OneHolder, KnowledgeAssumption DEF Threads, KnowledgeInv, KnowledgeTypeOK,
     LocksHeld, Forget, LeftChunks
<1>3. Dated' /\ Newer'
  BY Blanks, OneHolder, KnowledgeAssumption DEF Threads, KnowledgeInv, KnowledgeTypeOK,
     LocksHeld, Dated, Newer, Forget, LeftChunks
<1>4. ViewsFit' /\ ResponseCurrent'
  BY Blanks, OneHolder, KnowledgeAssumption DEF Threads, KnowledgeInv, KnowledgeTypeOK,
     LocksHeld, Dated, Newer, ViewsFit, ResponseCurrent, Forget, LeftChunks
<1>5. IndexFits' /\ IndexFresh'
  BY Blanks, OneHolder, KnowledgeAssumption DEF Threads, KnowledgeInv, KnowledgeTypeOK,
     LocksHeld, IndexFits, IndexFresh, Fresh, Forget, LeftChunks
<1> QED BY <1>1, <1>2, <1>3, <1>4, <1>5 DEF KnowledgeInv

LEMMA ViewNext ==
    ASSUME Unlocked = {}, KnowledgeInv, [KnowledgeNext]_knowledgeVars
    PROVE  KnowledgeInv'
<1>1. CASE UNCHANGED knowledgeVars
  BY <1>1 DEF knowledgeVars, KnowledgeInv, KnowledgeTypeOK, LocksHeld, Dated, Newer, ViewsFit,
     IndexFits, IndexFresh, Fresh, ResponseCurrent
<1>2. ASSUME NEW v \in Viewers, ViewStep(v) PROVE KnowledgeInv'
  BY <1>2, ViewKeeps, StatKeeps, ParseKeeps, KeepKeeps DEF ViewStep
<1>3. CASE Crowded
  BY <1>3, CrowdedKeeps
<1>4. ASSUME NEW r \in Askers, Ask(r) \/ Explain(r) \/ AskStep(r)
      PROVE  KnowledgeInv'
  BY <1>4, AskKeeps, ReadKeeps, CheckKeeps, IndexLockKeeps, IndexReadKeeps, IndexSaveKeeps,
     SeedKeeps, FallbackKeeps, ExcerptsKeeps, StoredKeeps, ExplainKeeps, ContextKeeps,
     AnswerKeeps DEF AskStep
<1>5. CASE NightIndex \/ NightStep \/ ChunkSave(Bg)
  BY <1>5, NightIndexKeeps, IndexLockKeeps, IndexReadKeeps, IndexSaveKeeps, ChunkSaveKeeps,
     NightGivesUpKeeps DEF NightStep
<1>6. ASSUME NEW w \in Writers, Start(w) \/ WriteStep(w) PROVE KnowledgeInv'
  BY <1>6, StartKeeps, WriteKeeps, PublishKeeps, RsyncKeeps, FinishKeeps DEF WriteStep
<1>7. CASE Remove \/ WebStep \/ Register
  BY <1>7, RemoveKeeps, PurgeHubKeeps, ForgetKeeps, RegisterKeeps DEF WebStep
<1> QED BY <1>1, <1>2, <1>3, <1>4, <1>5, <1>6, <1>7 DEF KnowledgeNext

LEMMA ViewInvariance ==
    ASSUME Unlocked = {}
    PROVE  KnowledgeSpec => []KnowledgeInv
<1>1. KnowledgeInit => KnowledgeInv
  BY ViewInit
<1>2. KnowledgeInv /\ [KnowledgeNext]_knowledgeVars => KnowledgeInv'
  BY ViewNext
<1> QED BY <1>1, <1>2, PTL DEF KnowledgeSpec

\* An index that passes for fresh holds the nodes of the graph that is published, as long
\* as nobody publishes without the project lock (a repair does).
THEOREM FreshMeansCurrent ==
    ASSUME Unlocked = {}
    PROVE  KnowledgeSpec => []IndexFresh
<1>1. KnowledgeInv => IndexFresh
  BY DEF KnowledgeInv
<1> QED BY <1>1, ViewInvariance, PTL

\* The graph view never serves, under the time of the published graph, a response or a
\* parsed graph of another, in whatever order the time, the file and the cache are touched.
THEOREM ViewsAreCurrent ==
    ASSUME Unlocked = {}
    PROVE  KnowledgeSpec => []ResponseCurrent
<1>1. KnowledgeInv => ResponseCurrent
  BY DEF KnowledgeInv
<1> QED BY <1>1, ViewInvariance, PTL

\* No index outlives the graph it was made of, nor does a late build bring one back.
THEOREM NoIndexWithoutGraph ==
    ASSUME Unlocked = {}
    PROVE  KnowledgeSpec => []NoGraphNoIndex
<1>1. KnowledgeInv => NoGraphNoIndex
  BY DEF KnowledgeInv, IndexFits, NoGraphNoIndex
<1> QED BY <1>1, ViewInvariance, PTL

HIDE DEF Goto, Got, onDisk, caches, locals, Times

------------------------------------------------------------------------------

(* Publishing and the backups.                                                *)

\* Those of a set of backups that are newer.
LaterOf(S, m) == {n \in S : n > m}

LEMMA LaterOfMore ==
    ASSUME NEW S, S \subseteq Nat, NEW R, R \subseteq S, NEW f \in Nat, NEW g \in Nat, g > f
    PROVE  LaterOf(R, g) \subseteq LaterOf(S, f) /\ LaterOf(R, g) \subseteq S
<1>1. ASSUME NEW n \in R, n > g PROVE n \in Nat /\ n > f
  <2>1. n \in Nat
    OBVIOUS
  <2> QED BY <1>1, <2>1
<1> QED BY <1>1 DEF LaterOf

\* A finite set of minutes has a last one, any set a first one.
LEMMA Greatest ==
    ASSUME NEW S, IsFiniteSet(S), S \subseteq Nat, NEW B, B \subseteq S, B # {}
    PROVE  \E f \in B : \A g \in B : ~(g > f)
<1> DEFINE T == {LaterOf(S, f) : f \in B}
<1>1. T \subseteq FiniteSubsetsOf(S) /\ T # {}
  <2>1. \A f \in B : LaterOf(S, f) \in SUBSET S /\ IsFiniteSet(LaterOf(S, f))
    BY FS_Subset DEF LaterOf
  <2> QED BY <2>1 DEF FiniteSubsetsOf
<1>2. PICK X \in T : \A Y \in T : ~(<<Y, X>> \in StrictSubsetOrdering(S))
  BY <1>1, FS_StrictSubsetOrderingWellFounded, WFMin
<1>3. PICK f \in B : X = LaterOf(S, f)
  BY <1>2
<1>4. ASSUME NEW g \in B, g > f PROVE FALSE
  <2>1. f \in Nat /\ g \in Nat /\ \A n \in S : n \in Nat
    OBVIOUS
  <2>2. LaterOf(S, g) \subseteq LaterOf(S, f) /\ LaterOf(S, f) \subseteq S /\ LaterOf(S, g) \subseteq S
    BY <1>4, <2>1, LaterOfMore DEF LaterOf
  <2>3. g \in LaterOf(S, f) /\ g \notin LaterOf(S, g)
    BY <1>4, <2>1 DEF LaterOf
  <2>4. <<LaterOf(S, g), LaterOf(S, f)>> \in StrictSubsetOrdering(S)
    BY <2>2, <2>3 DEF StrictSubsetOrdering
  <2> QED BY <1>2, <1>3, <2>4
<1> QED BY <1>3, <1>4

LEMMA Earliest ==
    ASSUME NEW M, M \subseteq Nat, M # {}
    PROVE  \E m \in M : \A n \in M : m <= n
<1> DEFINE Below(m) == {n \in M : n < m}
           T == {Below(m) : m \in M}
<1>1. T \subseteq FiniteSubsetsOf(Nat) /\ T # {}
  <2>1. ASSUME NEW m \in M PROVE Below(m) \in SUBSET Nat /\ IsFiniteSet(Below(m))
    <3>1. Below(m) \in SUBSET Nat
      OBVIOUS
    <3>2. ASSUME NEW n \in Below(m) PROVE n <= m
      <4>1. n \in Nat /\ m \in Nat /\ n < m
        OBVIOUS
      <4> QED BY <4>1
    <3> HIDE DEF Below
    <3> QED BY <3>1, <3>2, FS_BoundedSetOfNaturals
  <2> QED BY <2>1 DEF FiniteSubsetsOf
<1>2. PICK X \in T : \A Y \in T : ~(<<Y, X>> \in StrictSubsetOrdering(Nat))
  BY <1>1, FS_StrictSubsetOrderingWellFounded, WFMin
<1>3. PICK m \in M : X = Below(m)
  BY <1>2
<1>4. ASSUME NEW n \in M, n < m PROVE FALSE
  <2>1. Below(n) \subseteq Below(m) /\ Below(m) \subseteq Nat /\ Below(n) \subseteq Nat
    <3>1. ASSUME NEW k \in M, k < n PROVE k < m
      <4>1. k \in Nat /\ n \in Nat /\ m \in Nat
        OBVIOUS
      <4> QED BY <1>4, <3>1, <4>1
    <3> QED BY <3>1
  <2>2. n \in Below(m) /\ n \notin Below(n)
    BY <1>4
  <2>3. <<Below(n), Below(m)>> \in StrictSubsetOrdering(Nat)
    BY <2>1, <2>2 DEF StrictSubsetOrdering
  <2> QED BY <1>2, <1>3, <2>3
<1> QED BY <1>3, <1>4

LEMMA NewestType ==
    ASSUME NEW S, IsFiniteSet(S)
    PROVE  Newest(S) \subseteq S /\ IsFiniteSet(Newest(S))
BY FS_Subset DEF Newest

LEMMA CountMonotone ==
    ASSUME NEW S, IsFiniteSet(S), NEW R, R \subseteq S
    PROVE  Cardinality(R) \in Nat /\ Cardinality(S) \in Nat /\ Cardinality(R) <= Cardinality(S)
BY FS_Subset, FS_CardinalityType

\* What pruning drops leaves Keep newer ones behind it.
LEMMA NewestKeepsCount ==
    ASSUME Keep \in Nat, NEW S, IsFiniteSet(S), S \subseteq Nat, NEW m \in Nat,
           Cardinality(LaterOf(S, m)) >= Keep
    PROVE  Cardinality(LaterOf(Newest(S), m)) >= Keep
<1> DEFINE Gone == LaterOf(S, m) \ Newest(S)
<1>1. CASE Gone = {}
  <2>1. LaterOf(Newest(S), m) = LaterOf(S, m)
    BY <1>1 DEF LaterOf, Newest
  <2> QED BY <2>1
<1>2. CASE Gone # {}
  <2>1. PICK f \in Gone : \A g \in Gone : ~(g > f)
    <3>1. Gone \subseteq S
      BY DEF LaterOf
    <3> HIDE DEF Gone
    <3> QED BY <1>2, <3>1, Greatest
  <2>2. f \in S /\ f > m /\ f \in Nat /\ f \notin Newest(S)
    BY <2>1 DEF LaterOf
  <2>3. Cardinality({g \in S : g > f}) >= Keep
    <3>1. IsFiniteSet({g \in S : g > f})
      BY FS_Subset
    <3>2. Cardinality({g \in S : g > f}) \in Nat
      BY <3>1, FS_CardinalityType
    <3> QED BY <2>2, <3>2 DEF Newest
  <2>4. {g \in S : g > f} \subseteq LaterOf(Newest(S), m)
    <3> SUFFICES ASSUME NEW g \in S, g > f PROVE g \in Newest(S) /\ g > m
      BY DEF LaterOf
    <3>1. g > m
      BY <2>2
    <3>2. g \in LaterOf(S, m)
      BY <3>1 DEF LaterOf
    <3> QED BY <2>1, <3>1, <3>2
  <2>5. IsFiniteSet(LaterOf(Newest(S), m))
    <3>1. LaterOf(Newest(S), m) \subseteq S
      BY NewestType DEF LaterOf
    <3> QED BY <3>1, FS_Subset
  <2> QED BY <2>3, <2>4, <2>5, CountMonotone
<1> QED BY <1>1, <1>2

\* A backup made outlives further backups and the pruning.
LEMMA PruningKeeps ==
    ASSUME Keep \in Nat, NEW S, IsFiniteSet(S), S \subseteq Nat, NEW A, A \subseteq S,
           NEW m \in Nat, Kept(m, A)
    PROVE  Kept(m, Newest(S))
<1>1. IsFiniteSet(LaterOf(S, m)) /\ LaterOf(A, m) \subseteq LaterOf(S, m) /\ LaterOf(S, m) \subseteq S
  BY FS_Subset DEF LaterOf
<1>2. Cardinality(LaterOf(S, m)) \in Nat
  BY <1>1, FS_CardinalityType
<1>3. m \in Newest(S) \/ Cardinality(LaterOf(S, m)) >= Keep
  <2>1. CASE m \in A
    BY <1>2, <2>1 DEF Newest, LaterOf
  <2>2. CASE Cardinality(LaterOf(A, m)) >= Keep
    BY <1>1, <2>2, CountMonotone
  <2> QED BY <2>1, <2>2 DEF Kept, LaterOf
<1>4. m \in Newest(S) \/ Cardinality(LaterOf(Newest(S), m)) >= Keep
  BY <1>3, NewestKeepsCount
<1> QED BY <1>4 DEF Kept, LaterOf

\* Pruned between two additions or only after both is the same.
LEMMA PruningTwice ==
    ASSUME Keep \in Nat, NEW A, IsFiniteSet(A), A \subseteq Nat, NEW C, IsFiniteSet(C), C \subseteq Nat
    PROVE  Newest(Newest(A) \cup C) = Newest(A \cup C)
<1> DEFINE S == A \cup C
           R == Newest(A) \cup C
<1>1. IsFiniteSet(S) /\ IsFiniteSet(R) /\ R \subseteq S /\ S \subseteq Nat /\ Newest(A) \subseteq R
  BY NewestType, FS_Union, FS_Subset
<1>2. \A f \in S : /\ Cardinality(LaterOf(S, f)) \in Nat /\ Cardinality(LaterOf(R, f)) \in Nat
                   /\ Cardinality(LaterOf(R, f)) <= Cardinality(LaterOf(S, f))
  <2> SUFFICES ASSUME NEW f \in S
               PROVE  /\ Cardinality(LaterOf(S, f)) \in Nat /\ Cardinality(LaterOf(R, f)) \in Nat
                      /\ Cardinality(LaterOf(R, f)) <= Cardinality(LaterOf(S, f))
    OBVIOUS
  <2>1. LaterOf(S, f) \subseteq S /\ LaterOf(R, f) \subseteq LaterOf(S, f)
    BY <1>1 DEF LaterOf
  <2>2. IsFiniteSet(LaterOf(S, f))
    BY <1>1, <2>1, FS_Subset
  <2> QED BY <2>1, <2>2, CountMonotone
<1>3. ASSUME NEW f \in Newest(S) PROVE f \in Newest(R)
  <2>1. f \in S /\ Cardinality(LaterOf(S, f)) < Keep
    BY DEF Newest, LaterOf
  <2>2. f \in R
    <3>1. CASE f \in C
      BY <3>1
    <3>2. CASE f \in A
      <4>1. LaterOf(A, f) \subseteq LaterOf(S, f) /\ IsFiniteSet(LaterOf(S, f))
        <5>1. LaterOf(S, f) \subseteq S /\ LaterOf(A, f) \subseteq LaterOf(S, f)
          BY DEF LaterOf
        <5> QED BY <1>1, <5>1, FS_Subset
      <4>2. Cardinality(LaterOf(A, f)) < Keep
        BY <2>1, <4>1, CountMonotone
      <4> QED BY <3>2, <4>2 DEF Newest, LaterOf
    <3> QED BY <2>1, <3>1, <3>2
  <2>3. Cardinality(LaterOf(R, f)) < Keep
    BY <1>2, <2>1
  <2> QED BY <2>2, <2>3 DEF Newest, LaterOf
<1>4. ASSUME NEW f \in Newest(R) PROVE f \in Newest(S)
  <2>1. f \in R /\ f \in S /\ f \in Nat /\ Cardinality(LaterOf(R, f)) < Keep
    BY <1>1 DEF Newest, LaterOf
  <2>2. CASE LaterOf(S, f) \subseteq R
    <3>1. LaterOf(S, f) = LaterOf(R, f)
      BY <1>1, <2>2 DEF LaterOf
    <3> QED BY <2>1, <3>1 DEF Newest, LaterOf
  <2>3. CASE ~(LaterOf(S, f) \subseteq R)
    <3>1. PICK g \in LaterOf(S, f) : g \notin R
      BY <2>3
    <3>2. g \in A /\ g \notin Newest(A) /\ g > f /\ g \in Nat
      BY <1>1, <3>1 DEF LaterOf
    <3>3. Cardinality(LaterOf(A, g)) >= Keep
      <4>1. IsFiniteSet(LaterOf(A, g))
        BY FS_Subset DEF LaterOf
      <4>2. Cardinality(LaterOf(A, g)) \in Nat
        BY <4>1, FS_CardinalityType
      <4> QED BY <3>2, <4>2 DEF Newest, LaterOf
    <3>4. Cardinality(LaterOf(Newest(A), g)) >= Keep
      BY <3>2, <3>3, NewestKeepsCount
    <3>5. LaterOf(Newest(A), g) \subseteq LaterOf(R, f)
      BY <1>1, <2>1, <3>2, LaterOfMore
    <3>6. IsFiniteSet(LaterOf(R, f))
      BY <1>1, FS_Subset DEF LaterOf
    <3>7. Cardinality(LaterOf(Newest(A), g)) \in Nat /\ Cardinality(LaterOf(R, f)) \in Nat
          /\ Cardinality(LaterOf(Newest(A), g)) <= Cardinality(LaterOf(R, f))
      BY <3>5, <3>6, CountMonotone
    <3> QED BY <2>1, <3>4, <3>7
  <2> QED BY <2>2, <2>3
<1> QED
  <2>1. Newest(S) = Newest(R)
    <3> HIDE DEF S, R
    <3> QED BY <1>3, <1>4
  <2> QED BY <2>1

USE DEF hubVars, backupVars, Syncers, Backers, NoSync, NoBackup

LEMMA BranchParts ==
    /\ \A b \in Branch : /\ b.graph \in Graphs /\ b.backups \in SUBSET Minutes
                         /\ b.ahead \in BOOLEAN /\ b.behind \in BOOLEAN
    /\ \A g \in Graphs, S \in SUBSET Minutes, a \in BOOLEAN, z \in BOOLEAN :
          [graph |-> g, backups |-> S, ahead |-> a, behind |-> z] \in Branch
    /\ \A b \in Onto : b.graph \in Graphs /\ b.backups \in SUBSET Minutes /\ b.behind \in BOOLEAN
    /\ \A g \in Graphs, S \in SUBSET Minutes, z \in BOOLEAN :
          [graph |-> g, backups |-> S, behind |-> z] \in Onto
BY DEF Branch, Onto

\* The branches after a commit, a push, and a push of the other clone's.
LEMMA Committed ==
    ASSUME NEW b \in Branch, NEW g \in Graphs, NEW c, c = [b EXCEPT !.graph = g, !.ahead = TRUE]
    PROVE  c \in Branch /\ c.graph = g /\ c.backups = b.backups /\ c.ahead /\ (c.behind <=> b.behind)
BY DEF Branch

LEMMA BackedUp ==
    ASSUME NEW b \in Branch, NEW S \in SUBSET Minutes, NEW c, c = [b EXCEPT !.backups = S, !.ahead = TRUE]
    PROVE  c \in Branch /\ c.graph = b.graph /\ c.backups = S /\ c.ahead /\ (c.behind <=> b.behind)
BY DEF Branch

LEMMA Pushed ==
    ASSUME NEW b \in Branch, NEW c, c = [b EXCEPT !.ahead = FALSE]
    PROVE  c \in Branch /\ c.graph = b.graph /\ c.backups = b.backups /\ ~c.ahead /\ (c.behind <=> b.behind)
BY DEF Branch

LEMMA Overtaken ==
    ASSUME NEW b \in Branch, NEW c, c = [b EXCEPT !.behind = TRUE]
    PROVE  c \in Branch /\ c.graph = b.graph /\ c.backups = b.backups /\ (c.ahead <=> b.ahead) /\ c.behind
BY DEF Branch

LEMMA OntoChanges ==
    ASSUME NEW b \in Onto
    PROVE  /\ \A g \in Graphs : \A c : c = [b EXCEPT !.graph = g]
                 => c \in Onto /\ c.graph = g /\ c.backups = b.backups /\ (c.behind <=> b.behind)
           /\ \A c : c = [b EXCEPT !.behind = TRUE]
                 => c \in Onto /\ c.graph = b.graph /\ c.backups = b.backups /\ c.behind
BY DEF Onto

\* None is no branch.
LEMMA NoneApart == None \notin Branch /\ None \notin Onto /\ None \notin Projects /\ Minutes \subseteq Nat
BY PublishAssumption

LEMMA PublishInit ==
    ASSUME Init
    PROVE  TypeInv
<1>6. Replays
  BY DEF Init, Replays
<1>1. minute \in Minutes
  BY PublishAssumption, Earliest DEF Init
<1>2. [p \in Projects |-> 0] \in Graphs
  BY PublishAssumption DEF Graphs
<1>3. HubType
  BY <1>2, BranchParts DEF Init, HubType
<1>4. BackupType
  BY <1>1 DEF Init, BackupType
<1>5. Cloned /\ Named
  BY DEF Init, Cloned, Named
<1> QED BY <1>2, <1>3, <1>4, <1>5, <1>6 DEF Init, TypeInv, TypeOK

\* What moves a backup run on, what ends it.
LEMMA BackupMoves ==
    ASSUME BackupType, NEW w \in Backers,
           NEW r \in [step: {"idle", "create", "fetch", "write", "add", "commit", "push"},
                      name: Minutes \cup {0}],
           backup' = [backup EXCEPT ![w] = r]
    PROVE  /\ backup' \in [Backers -> [step: {"idle", "create", "fetch", "write", "add", "commit", "push"},
                                       name: Minutes \cup {0}]]
           /\ backup'[w] = r /\ \A v \in Backers : v # w => backup'[v] = backup[v]
BY DEF BackupType

LEMMA StepOf ==
    ASSUME BackupType, NEW w \in Backers,
           NEW s \in {"idle", "create", "fetch", "write", "add", "commit", "push"}, Moves(w, s)
    PROVE  /\ backup' \in [Backers -> [step: {"idle", "create", "fetch", "write", "add", "commit", "push"},
                                       name: Minutes \cup {0}]]
           /\ backup'[w].step = s /\ backup'[w].name = backup[w].name
           /\ \A v \in Backers : v # w => backup'[v] = backup[v]
BY DEF BackupType, Moves

LEMMA EndOf ==
    ASSUME BackupType, NEW w \in Backers, NEW ok \in BOOLEAN, Ended(w, ok)
    PROVE  /\ backup' \in [Backers -> [step: {"idle", "create", "fetch", "write", "add", "commit", "push"},
                                       name: Minutes \cup {0}]]
           /\ backup'[w].step = "idle" /\ \A v \in Backers : v # w => backup'[v] = backup[v]
           /\ running' \in BOOLEAN
           /\ reported' = IF ok THEN reported \cup {backup[w].name} ELSE reported
<1>1. backup' = [backup EXCEPT ![w] = NoBackup] /\ running' \in BOOLEAN
  BY DEF Ended
<1>2. NoBackup \in [step: {"idle", "create", "fetch", "write", "add", "commit", "push"}, name: Minutes \cup {0}]
  OBVIOUS
<1> QED BY <1>1, <1>2 DEF BackupType, Ended

LEMMA CommitEffect ==
    ASSUME TypeInv, Commit
    PROVE  /\ hub' \in Branch /\ mid' \in Onto \cup {None}
           /\ hub'.backups = hub.backups /\ (hub'.behind <=> hub.behind)
           /\ mid = None => mid' = None /\ hub'.graph = wt /\ hub'.ahead
           /\ mid # None => /\ hub' = hub /\ mid' # None /\ mid'.graph = wt
                            /\ mid'.backups = mid.backups /\ (mid'.behind <=> mid.behind)
<1>1. hub \in Branch /\ mid \in Onto \cup {None} /\ wt \in Graphs
  BY DEF TypeInv, TypeOK, HubType
<1>2. CASE mid = None
  <2>1. hub' = [hub EXCEPT !.graph = wt, !.ahead = TRUE] /\ mid' = mid
    BY <1>2 DEF Commit
  <2>2. /\ hub' \in Branch /\ hub'.graph = wt /\ hub'.backups = hub.backups /\ hub'.ahead
        /\ (hub'.behind <=> hub.behind)
    BY <1>1, <2>1 DEF Branch
  <2> QED BY <1>1, <1>2, <2>1, <2>2
<1>3. CASE mid # None
  BY <1>1, <1>3, OntoChanges, NoneApart DEF Commit
<1> QED BY <1>2, <1>3

LEMMA HubPushedEffect ==
    ASSUME TypeInv, HubPushed
    PROVE  /\ remote' = [graph |-> hub.graph, backups |-> hub.backups]
           /\ remote' \in [graph: Graphs, backups: SUBSET Minutes]
           /\ hub' \in Branch /\ hub'.graph = hub.graph /\ hub'.backups = hub.backups
           /\ (hub'.behind <=> hub.behind) /\ ~hub'.ahead
           /\ clone' \in Branch \cup {None} /\ (clone' = None <=> clone = None)
           /\ ~hub.ahead => clone' = clone
           /\ clone # None => /\ clone'.graph = clone.graph /\ clone'.backups = clone.backups
                              /\ (clone'.ahead <=> clone.ahead)
                              /\ clone'.behind <=> clone.behind \/ hub.ahead
<1>1. hub \in Branch /\ clone \in Branch \cup {None}
  BY DEF TypeInv, TypeOK, HubType, BackupType
<1>2. /\ remote' = [graph |-> hub.graph, backups |-> hub.backups]
      /\ remote' \in [graph: Graphs, backups: SUBSET Minutes]
  BY <1>1, BranchParts DEF HubPushed
<1>3. /\ hub' \in Branch /\ hub'.graph = hub.graph /\ hub'.backups = hub.backups
      /\ (hub'.behind <=> hub.behind) /\ ~hub'.ahead
  BY <1>1, Pushed DEF HubPushed
<1>4. CASE clone # None /\ hub.ahead
  <2>1. clone \in Branch /\ clone' = [clone EXCEPT !.behind = TRUE]
    BY <1>1, <1>4 DEF HubPushed
  <2> QED BY <1>2, <1>3, <1>4, <2>1, Overtaken, NoneApart
<1>5. CASE ~(clone # None /\ hub.ahead)
  BY <1>1, <1>2, <1>3, <1>5 DEF HubPushed
<1> QED BY <1>4, <1>5

\* Where the backup clone and its run stay as they are, so does what is said of them.
LEMMA BackupPartStays ==
    ASSUME TypeInv, UNCHANGED <<clone, files, staged, backup, running, minute, reported>>
    PROVE  BackupType' /\ Cloned' /\ Named'
BY DEF TypeInv, TypeOK, BackupType, Cloned, Named

LEMMA HubPartStays ==
    ASSUME TypeInv, UNCHANGED <<gen, wt, hub, mid, sync, purge, synced>>
    PROVE  HubType'
BY DEF TypeInv, TypeOK, HubType

LEMMA HubTypeNext ==
    ASSUME TypeInv
    PROVE  /\ \A p \in Projects : Rebuild(p) \/ PurgeRemove(p) \/ (\E a \in Syncers : SyncBegin(a, p)) => TypeInv'
           /\ SyncCommit \/ SyncRebase \/ SyncReplay \/ SyncAbort \/ PurgeCommit => TypeInv'
<1>0. HubType /\ remote \in [graph: Graphs, backups: SUBSET Minutes]
  BY DEF TypeInv, TypeOK
<1>1. ASSUME NEW p \in Projects, Rebuild(p) \/ PurgeRemove(p) \/ (\E a \in Syncers : SyncBegin(a, p))
      PROVE  TypeInv'
  <2>1. HubType'
    <3>1. CASE Rebuild(p)
      BY <1>0, <3>1, PublishAssumption DEF HubType, Rebuild, Graphs
    <3>2. CASE PurgeRemove(p)
      BY <1>0, <3>2, PublishAssumption DEF HubType, PurgeRemove, Graphs
    <3>3. ASSUME NEW a \in Syncers, SyncBegin(a, p) PROVE HubType'
      BY <1>0, <3>3, PublishAssumption DEF HubType, SyncBegin, Graphs
    <3> QED BY <1>1, <3>1, <3>2, <3>3
  <2>2. UNCHANGED <<remote, clone, files, staged, backup, running, minute, reported>>
    BY <1>1 DEF Rebuild, PurgeRemove, SyncBegin
  <2>3. Replays'
    BY <1>0, <1>1 DEF TypeInv, HubType, Replays, Rebuild, PurgeRemove, SyncBegin
  <2> QED BY <1>0, <2>1, <2>2, <2>3, BackupPartStays DEF TypeInv, TypeOK
<1>2. ASSUME SyncCommit \/ SyncRebase \/ SyncReplay \/ SyncAbort \/ PurgeCommit PROVE TypeInv'
  <2>1. HubType'
    <3>1. CASE SyncCommit
      <4>1. hub' \in Branch /\ mid' \in Onto \cup {None}
        BY <1>0, <3>1, CommitEffect DEF HubType, SyncCommit
      <4> QED BY <1>0, <3>1, <4>1 DEF HubType, SyncCommit
    <3>2. CASE SyncRebase
      <4>1. mid' \in Onto \cup {None} /\ wt' \in Graphs
        <5>1. [graph |-> remote.graph, backups |-> remote.backups, behind |-> FALSE] \in Onto
          BY <1>0, BranchParts
        <5> QED BY <1>0, <3>2, <5>1 DEF HubType, SyncRebase
      <4> QED BY <1>0, <3>2, <4>1 DEF HubType, SyncRebase
    <3>3. CASE SyncReplay
      <4>1. mid \in Onto /\ mid.backups \in SUBSET Minutes /\ mid.behind \in BOOLEAN
        BY <1>0, <3>3, BranchParts DEF HubType, TypeInv, Replays, SyncReplay
      <4>2. hub' \in Branch
        <5>1. [graph |-> hub.graph, backups |-> mid.backups, ahead |-> TRUE, behind |-> mid.behind] \in Branch
          BY <1>0, <4>1, BranchParts DEF HubType
        <5> QED BY <1>0, <3>3, <5>1 DEF HubType, SyncReplay, Replayed
      <4>3. wt' \in Graphs
        BY <1>0, <3>3, BranchParts DEF HubType, SyncReplay, Replayed, Graphs
      <4> QED BY <1>0, <3>3, <4>2, <4>3 DEF HubType, SyncReplay
    <3>4. CASE SyncAbort
      BY <1>0, <3>4, BranchParts DEF HubType, SyncAbort
    <3>5. CASE PurgeCommit
      <4>1. hub' \in Branch /\ mid' \in Onto \cup {None}
        BY <1>0, <3>5, CommitEffect DEF HubType, PurgeCommit
      <4> QED BY <1>0, <3>5, <4>1 DEF HubType, PurgeCommit
    <3> QED BY <1>2, <3>1, <3>2, <3>3, <3>4, <3>5
  <2>2. UNCHANGED <<remote, clone, files, staged, backup, running, minute, reported>>
    BY <1>2 DEF SyncCommit, SyncRebase, SyncReplay, SyncAbort, PurgeCommit
  <2>3. Replays'
    <3>1. CASE SyncCommit
      BY <1>0, <3>1, CommitEffect DEF TypeInv, HubType, Replays, SyncCommit
    <3>2. CASE SyncRebase
      <4>1. [graph |-> remote.graph, backups |-> remote.backups, behind |-> FALSE] \in Onto
        BY <1>0, BranchParts
      <4> QED BY <1>0, <3>2, <4>1, NoneApart DEF TypeInv, HubType, Replays, SyncRebase
    <3>3. CASE SyncReplay \/ SyncAbort
      BY <1>0, <3>3 DEF TypeInv, HubType, Replays, SyncReplay, SyncAbort
    <3>4. CASE PurgeCommit
      BY <1>0, <3>4, CommitEffect DEF TypeInv, HubType, Replays, PurgeCommit
    <3> QED BY <1>2, <3>1, <3>2, <3>3, <3>4
  <2> QED BY <1>0, <2>1, <2>2, <2>3, BackupPartStays DEF TypeInv, TypeOK
<1> QED BY <1>1, <1>2

\* A push of the hub's branch.
LEMMA PushTypeNext ==
    ASSUME TypeInv, SyncPush \/ PurgePush
    PROVE  TypeInv'
<1>0. HubType /\ BackupType /\ remote \in [graph: Graphs, backups: SUBSET Minutes]
  BY DEF TypeInv, TypeOK
<1>1. /\ remote' \in [graph: Graphs, backups: SUBSET Minutes]
      /\ hub' \in Branch /\ clone' \in Branch \cup {None} /\ (clone' = None <=> clone = None)
  <2>1. CASE HubPushed
    BY <2>1, HubPushedEffect
  <2>2. CASE UNCHANGED <<hub, remote, clone>>
    BY <1>0, <2>2 DEF HubType, BackupType
  <2> QED BY <2>1, <2>2 DEF SyncPush, PurgePush
<1>2. UNCHANGED <<gen, wt, mid, synced, files, staged, backup, running, minute, reported>>
  BY DEF SyncPush, PurgePush
<1>3. /\ sync' \in [who: Syncers \cup {None}, p: Projects \cup {None},
                    step: {"idle", "commit", "push", "rebase", "replay", "again", "abort", "purge"}]
      /\ sync'.step # "replay" /\ purge' \in Projects \cup {None}
  <2>1. CASE SyncPush
    BY <1>0, <2>1 DEF HubType, SyncPush
  <2>2. CASE PurgePush
    BY <1>0, <2>2 DEF HubType, PurgePush
  <2> QED BY <2>1, <2>2
<1>4. HubType'
  BY <1>0, <1>1, <1>2, <1>3 DEF HubType
<1>5. BackupType' /\ Cloned' /\ Named'
  BY <1>0, <1>1, <1>2 DEF TypeInv, BackupType, Cloned, Named
<1>6. Replays'
  BY <1>3 DEF Replays
<1> QED BY <1>1, <1>4, <1>5, <1>6 DEF TypeInv, TypeOK

\* The steps of a backup run that leave the branches alone.
LEMMA RunTypeNext ==
    ASSUME TypeInv,
           \/ BackupNow \/ NightBackup
           \/ \E w \in Backers : BackupCreate(w) \/ BackupWrite(w) \/ BackupAdd(w)
    PROVE  TypeInv'
<1>0. HubType /\ BackupType /\ remote \in [graph: Graphs, backups: SUBSET Minutes]
  BY DEF TypeInv, TypeOK
<1>1. BackupType' /\ Cloned' /\ Named'
  <2>1. CASE BackupNow
    <3>1. CASE Moves(Manual, "create")
      BY <1>0, <2>1, <3>1, StepOf DEF BackupNow, TypeInv, BackupType, Cloned, Named
    <3>2. CASE UNCHANGED backup
      BY <1>0, <2>1, <3>2 DEF BackupNow, TypeInv, BackupType, Cloned, Named
    <3> QED BY <2>1, <3>1, <3>2 DEF BackupNow
  <2>2. CASE NightBackup
    BY <1>0, <2>2, StepOf DEF NightBackup, TypeInv, BackupType, Cloned, Named
  <2>3. ASSUME NEW w \in Backers, BackupCreate(w) PROVE BackupType' /\ Cloned' /\ Named'
    <3>1. CASE backup' = [backup EXCEPT ![w] = [step |-> "fetch", name |-> minute]] /\ UNCHANGED <<running, reported>>
      <4>1. [step |-> "fetch", name |-> minute] \in
                [step: {"idle", "create", "fetch", "write", "add", "commit", "push"}, name: Minutes \cup {0}]
        BY <1>0 DEF BackupType
      <4>2. /\ backup' \in [Backers -> [step: {"idle", "create", "fetch", "write", "add", "commit", "push"},
                                        name: Minutes \cup {0}]]
            /\ backup'[w] = [step |-> "fetch", name |-> minute] /\ \A v \in Backers : v # w => backup'[v] = backup[v]
        BY <1>0, <3>1, <4>1, BackupMoves
      <4>3. UNCHANGED <<clone, files, staged, running, minute, reported>>
        BY <2>3, <3>1 DEF BackupCreate
      <4> QED BY <1>0, <4>2, <4>3 DEF TypeInv, BackupType, Cloned, Named
    <3>2. CASE Ended(w, FALSE)
      BY <1>0, <2>3, <3>2, EndOf DEF BackupCreate, TypeInv, BackupType, Cloned, Named
    <3> QED BY <2>3, <3>1, <3>2 DEF BackupCreate
  <2>4. ASSUME NEW w \in Backers, BackupWrite(w) PROVE BackupType' /\ Cloned' /\ Named'
    <3>1. CASE files' = Newest(files \cup {backup[w].name}) /\ Moves(w, "add") /\ UNCHANGED <<running, reported>>
      <4>1. backup[w].name \in Minutes /\ clone # None
        BY <2>4 DEF TypeInv, Named, Cloned, BackupWrite
      <4>2. files' \subseteq Minutes
        BY <1>0, <3>1, <4>1 DEF BackupType, Newest
      <4> QED BY <1>0, <2>4, <3>1, <4>1, <4>2, StepOf DEF BackupWrite, TypeInv, BackupType,
                 Cloned, Named
    <3>2. CASE Ended(w, FALSE) /\ UNCHANGED files
      BY <1>0, <2>4, <3>2, EndOf DEF BackupWrite, TypeInv, BackupType, Cloned, Named
    <3> QED BY <2>4, <3>1, <3>2 DEF BackupWrite
  <2>5. ASSUME NEW w \in Backers, BackupAdd(w) PROVE BackupType' /\ Cloned' /\ Named'
    <3>0. backup[w].name \in Minutes /\ clone # None
      BY <2>5 DEF TypeInv, Named, Cloned, BackupAdd
    <3>1. CASE Moves(w, "commit") /\ staged' = TRUE /\ UNCHANGED <<running, reported>>
      BY <1>0, <2>5, <3>0, <3>1, StepOf DEF BackupAdd, TypeInv, BackupType, Cloned, Named
    <3>2. CASE Ended(w, TRUE) /\ UNCHANGED staged
      BY <1>0, <2>5, <3>0, <3>2, EndOf DEF BackupAdd, TypeInv, BackupType, Cloned, Named
    <3> QED BY <2>5, <3>1, <3>2 DEF BackupAdd
  <2> QED BY <2>1, <2>2, <2>3, <2>4, <2>5
<1>2. UNCHANGED <<gen, wt, hub, mid, sync, purge, synced, remote>>
  BY DEF BackupNow, NightBackup, BackupCreate, BackupWrite, BackupAdd
<1>3. HubType' /\ Replays'
  BY <1>0, <1>2, HubPartStays DEF TypeInv, Replays
<1> QED BY <1>0, <1>1, <1>2, <1>3 DEF TypeInv, TypeOK

LEMMA BranchRunTypeNext ==
    ASSUME TypeInv, NEW w \in Backers, BackupFetch(w) \/ BackupCommit(w) \/ BackupPush(w)
    PROVE  TypeInv'
<1>0. HubType /\ BackupType /\ remote \in [graph: Graphs, backups: SUBSET Minutes]
  BY DEF TypeInv, TypeOK
<1>1. backup[w].name \in Minutes
  BY DEF TypeInv, Named, BackupFetch, BackupCommit, BackupPush
<1>2. CASE BackupFetch(w)
  <2>1. UNCHANGED <<gen, wt, hub, mid, sync, purge, synced, remote, minute>>
    BY <1>2 DEF BackupFetch
  <2>2. CASE Reset /\ Moves(w, "write") /\ UNCHANGED <<running, reported>>
    <3>1. clone' \in Branch /\ clone' # None /\ files' \subseteq Minutes /\ staged' = FALSE
      <4>1. Fetched \in Branch
        BY <1>0, BranchParts DEF Fetched
      <4>2. files' \subseteq Minutes
        BY <1>0, <2>2 DEF Reset, BackupType
      <4> QED BY <2>2, <4>1, <4>2, NoneApart DEF Reset
    <3>2. BackupType' /\ Cloned' /\ Named'
      BY <1>0, <1>1, <2>1, <2>2, <3>1, StepOf DEF TypeInv, BackupType, Cloned, Named
    <3> QED BY <1>0, <2>1, <3>2, HubPartStays DEF TypeInv, TypeOK, Replays
  <2>3. CASE clone = None /\ Ended(w, FALSE) /\ UNCHANGED <<clone, files, staged>>
    <3>1. BackupType' /\ Cloned' /\ Named'
      BY <1>0, <1>1, <2>1, <2>3, EndOf DEF TypeInv, BackupType, Cloned, Named
    <3> QED BY <1>0, <2>1, <3>1, HubPartStays DEF TypeInv, TypeOK, Replays
  <2>4. CASE clone # None /\ Moves(w, "write") /\ UNCHANGED <<running, reported, clone, files, staged>>
    <3>1. BackupType' /\ Cloned' /\ Named'
      BY <1>0, <1>1, <2>1, <2>4, StepOf DEF TypeInv, BackupType, Cloned, Named
    <3> QED BY <1>0, <2>1, <3>1, HubPartStays DEF TypeInv, TypeOK, Replays
  <2> QED BY <1>2, <2>2, <2>3, <2>4 DEF BackupFetch
<1>3. CASE BackupCommit(w)
  <2>1. UNCHANGED <<gen, wt, hub, mid, sync, purge, synced, remote, files, running, minute, reported>> /\ Moves(w, "push")
    BY <1>3 DEF BackupCommit
  <2>2. clone \in Branch /\ clone # None
    BY <1>0, <1>3 DEF BackupType, TypeInv, Cloned, BackupCommit
  <2>3. clone' \in Branch /\ clone' # None /\ staged' \in BOOLEAN
    <3>1. CASE clone' = [clone EXCEPT !.backups = files, !.ahead = TRUE] /\ staged' = FALSE
      <4>1. [clone EXCEPT !.backups = files, !.ahead = TRUE] \in Branch
        BY <1>0, <2>2 DEF Branch, BackupType
      <4> QED BY <3>1, <4>1, NoneApart
    <3>2. CASE UNCHANGED <<clone, staged>>
      BY <1>0, <2>2, <3>2 DEF BackupType
    <3> QED BY <1>3, <3>1, <3>2 DEF BackupCommit
  <2>4. BackupType' /\ Cloned' /\ Named'
    BY <1>0, <1>1, <2>1, <2>3, StepOf DEF TypeInv, BackupType, Cloned, Named
  <2> QED BY <1>0, <2>1, <2>4, HubPartStays DEF TypeInv, TypeOK, Replays
<1>4. CASE BackupPush(w)
  <2>1. UNCHANGED <<gen, wt, sync, purge, synced, files, staged, minute>>
    BY <1>4 DEF BackupPush
  <2>2. clone \in Branch /\ clone # None /\ hub \in Branch /\ mid \in Onto \cup {None}
    BY <1>0, <1>4 DEF BackupType, HubType, TypeInv, Cloned, BackupPush
  <2>3. \E ok \in BOOLEAN : Ended(w, ok)
    BY <1>4 DEF BackupPush, PushVerdict
  <2>4. /\ remote' \in [graph: Graphs, backups: SUBSET Minutes]
        /\ clone' \in Branch /\ clone' # None /\ hub' \in Branch /\ mid' \in Onto \cup {None}
        /\ (mid' = None <=> mid = None)
    <3>1. CASE UNCHANGED <<remote, clone, hub, mid>>
      BY <1>0, <2>2, <3>1
    <3>2. CASE /\ remote' = [graph |-> clone.graph, backups |-> clone.backups]
               /\ clone' = [clone EXCEPT !.ahead = FALSE]
               /\ hub' = IF clone.ahead THEN [hub EXCEPT !.behind = TRUE] ELSE hub
               /\ mid' = IF clone.ahead /\ mid # None THEN [mid EXCEPT !.behind = TRUE] ELSE mid
      <4>1. [clone EXCEPT !.ahead = FALSE] \in Branch
        BY <2>2 DEF Branch
      <4>2. [hub EXCEPT !.behind = TRUE] \in Branch
        BY <2>2 DEF Branch
      <4>3. mid # None => [mid EXCEPT !.behind = TRUE] \in Onto
        BY <2>2 DEF Onto
      <4>4. remote' \in [graph: Graphs, backups: SUBSET Minutes]
        BY <2>2, <3>2, BranchParts
      <4> QED BY <2>2, <3>2, <4>1, <4>2, <4>3, <4>4, NoneApart
    <3> QED BY <1>4, <3>1, <3>2 DEF BackupPush
  <2>5. BackupType' /\ Cloned' /\ Named'
    BY <1>0, <1>1, <2>1, <2>3, <2>4, EndOf DEF TypeInv, BackupType, Cloned, Named
  <2>6. HubType' /\ Replays'
    BY <1>0, <2>1, <2>4 DEF TypeInv, HubType, Replays
  <2> QED BY <2>4, <2>5, <2>6 DEF TypeInv, TypeOK
<1> QED BY <1>2, <1>3, <1>4

LEMMA KillTypeNext ==
    ASSUME TypeInv, Tick \/ \E server \in BOOLEAN : Kill(server)
    PROVE  TypeInv'
<1>0. HubType /\ BackupType /\ remote \in [graph: Graphs, backups: SUBSET Minutes]
  BY DEF TypeInv, TypeOK
<1>1. CASE Tick
  <2>1. minute' \in Minutes /\ UNCHANGED <<gen, wt, hub, mid, sync, purge, synced, remote, clone, files, staged, backup, running, reported>>
    BY <1>1 DEF Tick
  <2>2. BackupType' /\ Cloned' /\ Named'
    BY <1>0, <2>1 DEF TypeInv, BackupType, Cloned, Named
  <2> QED BY <1>0, <2>1, <2>2, HubPartStays DEF TypeInv, TypeOK, Replays
<1>2. ASSUME NEW server \in BOOLEAN, Kill(server) PROVE TypeInv'
  <2>1. UNCHANGED <<gen, wt, hub, mid, synced, remote, clone, files, staged, minute, reported>>
    BY <1>2 DEF Kill
  <2>2. HubType' /\ Replays'
    BY <1>0, <1>2, <2>1 DEF TypeInv, HubType, Replays, Kill
  <2>3. PICK w \in Backers : backup' = [backup EXCEPT ![w] = NoBackup]
    BY <1>2 DEF Kill
  <2>4. NoBackup \in [step: {"idle", "create", "fetch", "write", "add", "commit", "push"}, name: Minutes \cup {0}]
    OBVIOUS
  <2>5. /\ backup' \in [Backers -> [step: {"idle", "create", "fetch", "write", "add", "commit", "push"},
                                       name: Minutes \cup {0}]]
        /\ backup'[w] = NoBackup /\ \A v \in Backers : v # w => backup'[v] = backup[v]
    BY <1>0, <2>3, <2>4, BackupMoves
  <2>6. running' \in BOOLEAN
    BY <1>2 DEF Kill
  <2>7. BackupType' /\ Cloned' /\ Named'
    BY <1>0, <2>1, <2>5, <2>6 DEF TypeInv, BackupType, Cloned, Named
  <2> QED BY <1>0, <2>1, <2>2, <2>7 DEF TypeInv, TypeOK
<1> QED BY <1>1, <1>2

LEMMA TypeNext ==
    ASSUME TypeInv, Next
    PROVE  TypeInv'
BY HubTypeNext, PushTypeNext, RunTypeNext, BranchRunTypeNext, KillTypeNext DEF Next, SyncStep,
   BackupStep

LEMMA TypeStutter ==
    ASSUME TypeInv, UNCHANGED publishVars
    PROVE  TypeInv'
BY DEF publishVars, TypeInv, TypeOK, HubType, BackupType, Cloned, Named, Replays

\* Every value stays of its kind: whatever is pushed, reset or cut short leaves both
\* branches, the rebase and the names of the backups well formed.
THEOREM BranchesStayWellFormed == Spec => []TypeOK
<1>1. TypeInv /\ [Next]_publishVars => TypeInv'
  BY TypeNext, TypeStutter
<1>2. Init => TypeInv
  BY PublishInit
<1>3. TypeInv => TypeOK
  BY DEF TypeInv
<1> QED BY <1>1, <1>2, <1>3, PTL DEF Spec

\* Pruning is idempotent and transitive.
LEMMA PrunedOnce ==
    ASSUME NEW S, NEW A \in SUBSET Minutes, IsFiniteSet(A), Pruned(S, A)
    PROVE  IsFiniteSet(S) /\ S \in SUBSET Minutes /\ Newest(S) = S /\ Pruned(S, S)
<1>1. PICK new \in SUBSET Minutes : IsFiniteSet(new) /\ S = Newest(A \cup new)
  BY DEF Pruned
<1>2. IsFiniteSet(A \cup new)
  BY <1>1, FS_Union
<1>3. IsFiniteSet(S) /\ S \in SUBSET Minutes
  BY <1>1, <1>2, NewestType
<1>4. Newest(S) = S
  <2>1. A \cup new \subseteq Nat /\ Keep \in Nat
    BY PublishAssumption
  <2>2. Newest(Newest(A \cup new) \cup {}) = Newest((A \cup new) \cup {})
    BY <1>2, <2>1, PruningTwice, FS_EmptySet
  <2> QED BY <1>1, <2>2
<1>5. Pruned(S, S)
  <2>1. S = Newest(S \cup {}) /\ IsFiniteSet({}) /\ {} \in SUBSET Minutes
    BY <1>4, FS_EmptySet
  <2> QED BY <2>1 DEF Pruned
<1> QED BY <1>3, <1>4, <1>5

LEMMA PrunedAgain ==
    ASSUME NEW A \in SUBSET Minutes, IsFiniteSet(A), NEW B, Pruned(B, A), NEW C, Pruned(C, B)
    PROVE  Pruned(C, A)
<1>1. PICK b \in SUBSET Minutes : IsFiniteSet(b) /\ B = Newest(A \cup b)
  BY DEF Pruned
<1>2. PICK c \in SUBSET Minutes : IsFiniteSet(c) /\ C = Newest(B \cup c)
  BY DEF Pruned
<1>3. A \cup b \subseteq Nat /\ c \subseteq Nat /\ Keep \in Nat /\ IsFiniteSet(A \cup b)
  BY <1>1, PublishAssumption, FS_Union
<1>4. C = Newest((A \cup b) \cup c)
  BY <1>1, <1>2, <1>3, PruningTwice
<1>5. IsFiniteSet(b \cup c) /\ b \cup c \in SUBSET Minutes /\ (A \cup b) \cup c = A \cup (b \cup c)
  BY <1>1, <1>2, FS_Union
<1> QED BY <1>4, <1>5 DEF Pruned

\* What is written goes on top of what was there.
LEMMA WrittenUpon ==
    ASSUME NEW A \in SUBSET Minutes, IsFiniteSet(A), NEW F, Upon(F, A), NEW m \in Minutes
    PROVE  Pruned(Newest(F \cup {m}), A)
<1>1. IsFiniteSet({m}) /\ {m} \in SUBSET Minutes
  BY FS_Singleton
<1>2. CASE Pruned(F, A)
  <2>1. Pruned(Newest(F \cup {m}), F)
    BY <1>1 DEF Pruned
  <2> QED BY <1>2, <2>1, PrunedAgain
<1>3. ASSUME NEW new \in SUBSET Minutes, IsFiniteSet(new), F = A \cup new
      PROVE  Pruned(Newest(F \cup {m}), A)
  <2>1. IsFiniteSet(new \cup {m}) /\ new \cup {m} \in SUBSET Minutes /\ F \cup {m} = A \cup (new \cup {m})
    BY <1>1, <1>3, FS_Union
  <2> QED BY <2>1 DEF Pruned
<1> QED BY <1>2, <1>3 DEF Upon

\* One run at a time.
LEMMA OneRunLeft ==
    ASSUME OneBackup, NEW w \in Backers, \A v \in Backers : v # w => backup'[v] = backup[v],
           \/ backup[w].step # "idle"
           \/ backup'[w].step = "idle"
           \/ \A v \in Backers : backup[v].step = "idle"
    PROVE  OneBackup'
BY DEF OneBackup

LEMMA OthersIdle ==
    ASSUME OneBackup, NEW w \in Backers, backup[w].step # "idle"
    PROVE  \A v \in Backers : v # w => backup[v].step = "idle"
BY DEF OneBackup

\* The two sides of RemoteInv, each with what of it may be infinite.
HubSide == HubFits /\ IsFiniteSet(hub.backups) /\ (mid # None => IsFiniteSet(mid.backups))
BackupSide ==
    /\ CloneFits /\ OneBackup /\ IsFiniteSet(files)
    /\ clone # None => IsFiniteSet(clone.backups)
RemoteSide == IsFiniteSet(remote.backups) /\ Newest(remote.backups) = remote.backups

LEMMA Sides == RemoteInv <=> TypeInv /\ HubSide /\ BackupSide /\ RemoteSide
BY DEF RemoteInv, FilesFinite, HubSide, BackupSide, RemoteSide

LEMMA BackupSideStays ==
    ASSUME BackupSide, RemoteSide, UNCHANGED <<remote, clone, files, staged, backup>>
    PROVE  BackupSide' /\ RemoteSide'
BY DEF BackupSide, RemoteSide, CloneFits, OneBackup, Newest, Pruned, Upon

LEMMA HubSideStays ==
    ASSUME HubSide, UNCHANGED <<remote, hub, mid>>
    PROVE  HubSide'
BY DEF HubSide, HubFits

LEMMA HubSideNext ==
    ASSUME RemoteInv
    PROVE  /\ \A p \in Projects : Rebuild(p) \/ PurgeRemove(p) \/ (\E a \in Syncers : SyncBegin(a, p))
                => (HubSide /\ BackupSide /\ RemoteSide)' /\ UNCHANGED remote
           /\ SyncCommit \/ SyncRebase \/ SyncReplay \/ SyncAbort \/ PurgeCommit
                => (HubSide /\ BackupSide /\ RemoteSide)' /\ UNCHANGED remote
<1>0. TypeInv /\ HubType /\ HubSide /\ BackupSide /\ RemoteSide /\ remote \in [graph: Graphs, backups: SUBSET Minutes]
  BY Sides DEF TypeInv, TypeOK
<1>1. ASSUME NEW p \in Projects, Rebuild(p) \/ PurgeRemove(p) \/ (\E a \in Syncers : SyncBegin(a, p))
      PROVE  (HubSide /\ BackupSide /\ RemoteSide)' /\ UNCHANGED remote
  <2>1. UNCHANGED <<remote, clone, files, staged, backup, hub, mid>>
    BY <1>1 DEF Rebuild, PurgeRemove, SyncBegin
  <2> QED BY <1>0, <2>1, HubSideStays, BackupSideStays
<1>2. ASSUME SyncCommit \/ SyncRebase \/ SyncReplay \/ SyncAbort \/ PurgeCommit
      PROVE  (HubSide /\ BackupSide /\ RemoteSide)' /\ UNCHANGED remote
  <2>1. UNCHANGED <<remote, clone, files, staged, backup>>
    BY <1>2 DEF SyncCommit, SyncRebase, SyncReplay, SyncAbort, PurgeCommit
  <2>2. HubSide'
    <3>1. CASE UNCHANGED <<hub, mid>>
      BY <1>0, <2>1, <3>1, HubSideStays
    <3>2. CASE Commit
      <4>1. /\ hub'.backups = hub.backups /\ (hub'.behind <=> hub.behind)
            /\ mid = None => mid' = None /\ hub'.ahead
            /\ mid # None => /\ hub' = hub /\ mid' # None
                             /\ mid'.backups = mid.backups /\ (mid'.behind <=> mid.behind)
        BY <1>0, <3>2, CommitEffect
      <4>2. CASE mid = None
        BY <1>0, <2>1, <4>1, <4>2 DEF HubSide, HubFits
      <4>3. CASE mid # None
        BY <1>0, <2>1, <4>1, <4>3 DEF HubSide, HubFits
      <4> QED BY <4>2, <4>3
    <3>3. CASE mid' = [graph |-> remote.graph, backups |-> remote.backups, behind |-> FALSE] /\ UNCHANGED hub
      <4>1. mid'.backups = remote.backups
        BY <3>3
      <4> QED BY <1>0, <2>1, <3>3, <4>1 DEF HubSide, HubFits, RemoteSide
    <3>4. CASE /\ hub' = [graph |-> Replayed, backups |-> mid.backups, ahead |-> TRUE, behind |-> mid.behind]
               /\ mid' = None /\ mid # None
      <4>1. hub'.backups = mid.backups /\ hub'.ahead /\ (hub'.behind <=> mid.behind)
        BY <3>4
      <4> QED BY <1>0, <2>1, <3>4, <4>1 DEF HubSide, HubFits
    <3>5. CASE mid' = None /\ UNCHANGED hub
      BY <1>0, <2>1, <3>5 DEF HubSide, HubFits
    <3>6. SyncReplay => mid # None
      BY <1>0 DEF TypeInv, Replays, SyncReplay
    <3> QED BY <1>2, <3>1, <3>2, <3>3, <3>4, <3>5, <3>6 DEF SyncCommit, SyncRebase, SyncReplay,
               SyncAbort, PurgeCommit
  <2> QED BY <1>0, <2>1, <2>2, BackupSideStays
<1> QED BY <1>1, <1>2

\* A push of the hub brings its graphs, and the backups as they were there.
LEMMA PushSidesNext ==
    ASSUME RemoteInv, SyncPush \/ PurgePush
    PROVE  /\ (HubSide /\ BackupSide /\ RemoteSide)'
           /\ remote'.graph \in Graphs /\ remote'.backups = remote.backups
<1>0. /\ TypeInv /\ HubType /\ BackupType /\ HubSide /\ BackupSide /\ RemoteSide
      /\ remote \in [graph: Graphs, backups: SUBSET Minutes]
  BY Sides DEF TypeInv, TypeOK
<1>1. UNCHANGED <<mid, files, staged, backup>>
  BY DEF SyncPush, PurgePush
<1>2. CASE UNCHANGED <<hub, remote, clone>>
  BY <1>0, <1>1, <1>2, HubSideStays, BackupSideStays
<1>3. CASE ~hub.behind /\ HubPushed
  <2>0. hub \in Branch /\ hub.graph \in Graphs
    BY <1>0, BranchParts DEF HubType
  <2>1. /\ remote' = [graph |-> hub.graph, backups |-> hub.backups]
        /\ hub'.graph = hub.graph /\ hub'.backups = hub.backups /\ (hub'.behind <=> hub.behind) /\ ~hub'.ahead
        /\ (clone' = None <=> clone = None)
        /\ ~hub.ahead => clone' = clone
        /\ clone # None => /\ clone'.graph = clone.graph /\ clone'.backups = clone.backups
                           /\ (clone'.ahead <=> clone.ahead)
                           /\ clone'.behind <=> clone.behind \/ hub.ahead
    BY <1>0, <1>3, HubPushedEffect
  <2>2. remote'.graph = hub.graph /\ remote'.backups = remote.backups /\ (~hub.ahead => remote'.graph = remote.graph)
    BY <1>0, <1>3, <2>1 DEF HubSide, HubFits
  <2>3. HubSide'
    BY <1>0, <1>1, <1>3, <2>1, <2>2 DEF HubSide, HubFits
  <2>4. RemoteSide'
    BY <1>0, <2>2 DEF RemoteSide, Newest
  <2>5. OneBackup' /\ IsFiniteSet(files')
    BY <1>0, <1>1 DEF BackupSide, OneBackup
  <2>6. CASE clone = None
    BY <2>1, <2>2, <2>3, <2>4, <2>5, <2>6, <2>0 DEF BackupSide, CloneFits
  <2>7. CASE clone # None
    <3>1. CloneFits
      BY <1>0 DEF BackupSide
    <3>2. /\ ~clone'.behind => clone'.graph = remote'.graph
          /\ ~clone'.ahead => clone'.backups = remote'.backups
      BY <2>1, <2>2, <2>7, <3>1 DEF CloneFits
    <3>3. /\ Pruned(clone'.backups, remote'.backups) /\ Upon(files', clone'.backups)
          /\ (staged' \/ \E w \in Backers : backup'[w].step \in {"add", "commit"})
                => Pruned(files', clone'.backups)
      BY <1>1, <2>1, <2>2, <2>7, <3>1 DEF CloneFits
    <3>4. IsFiniteSet(clone'.backups)
      BY <1>0, <2>1, <2>7 DEF BackupSide
    <3>5. CloneFits'
      BY <3>2, <3>3 DEF CloneFits, Pruned, Upon, Newest
    <3> QED BY <2>0, <2>2, <2>3, <2>4, <2>5, <3>4, <3>5 DEF BackupSide
  <2> QED BY <2>6, <2>7
<1> QED BY <1>2, <1>3 DEF SyncPush, PurgePush, CanPush

\* A step of a run that leaves both branches and the files alone.
LEMMA RunSidesStay ==
    ASSUME RemoteInv, OneBackup', UNCHANGED <<remote, clone, files, staged>>,
           (\E w \in Backers : backup'[w].step \in {"add", "commit"})
               => staged \/ \E w \in Backers : backup[w].step \in {"add", "commit"}
    PROVE  BackupSide' /\ RemoteSide'
<1>1. BackupSide /\ RemoteSide
  BY Sides
<1>2. RemoteSide'
  BY <1>1 DEF RemoteSide, Newest
<1>3. CloneFits'
  <2>1. CloneFits
    BY <1>1 DEF BackupSide
  <2> QED BY <2>1 DEF CloneFits, Pruned, Upon, Newest
<1> QED BY <1>1, <1>2, <1>3 DEF BackupSide

LEMMA RunSidesNext ==
    ASSUME RemoteInv, "backups" \notin Overlap,
           \/ BackupNow \/ NightBackup \/ Tick
           \/ \E w \in Backers : BackupCreate(w) \/ BackupAdd(w)
           \/ \E server \in BOOLEAN : Kill(server)
    PROVE  (HubSide /\ BackupSide /\ RemoteSide)' /\ UNCHANGED remote
<1>0. TypeInv /\ BackupType /\ HubSide /\ BackupSide /\ RemoteSide /\ OneBackup
  BY Sides DEF TypeInv, TypeOK, BackupSide
<1> DEFINE Busy    == \E w \in Backers : backup[w].step \in {"add", "commit"}
           BusyNow == \E w \in Backers : backup'[w].step \in {"add", "commit"}
<1>1. ASSUME NEW w \in Backers, NEW s \in {"create"}, MayBegin(w), Moves(w, s)
      PROVE  OneBackup' /\ ~BusyNow
  <2>1. \A v \in Backers : backup[v].step = "idle"
    BY <1>1 DEF MayBegin
  <2>2. backup'[w].step = "create" /\ \A v \in Backers : v # w => backup'[v] = backup[v]
    BY <1>0, <1>1, StepOf
  <2> QED BY <1>0, <2>1, <2>2, OneRunLeft
<1>2. ASSUME NEW w \in Backers, \A v \in Backers : v # w => backup'[v] = backup[v],
             backup'[w].step \notin {"add", "commit"},
             backup[w].step # "idle" \/ backup'[w].step = "idle"
      PROVE  OneBackup' /\ (BusyNow => Busy)
  BY <1>0, <1>2, OneRunLeft
<1>3. CASE BackupNow \/ NightBackup \/ Tick
  <2>1. UNCHANGED <<hub, mid, remote, clone, files, staged>>
    BY <1>3 DEF BackupNow, NightBackup, Tick
  <2>2. OneBackup' /\ (BusyNow => Busy)
    <3>1. CASE BackupNow
      <4>1. CASE Moves(Manual, "create")
        BY <1>1, <3>1, <4>1 DEF BackupNow
      <4>2. CASE UNCHANGED backup
        BY <1>0, <4>2 DEF OneBackup
      <4> QED BY <3>1, <4>1, <4>2 DEF BackupNow
    <3>2. CASE NightBackup
      BY <1>1, <3>2 DEF NightBackup
    <3>3. CASE Tick
      BY <1>0, <3>3 DEF Tick, OneBackup
    <3> QED BY <1>3, <3>1, <3>2, <3>3
  <2> QED BY <1>0, <2>1, <2>2, HubSideStays, RunSidesStay
<1>4. ASSUME NEW w \in Backers, BackupCreate(w) PROVE (HubSide /\ BackupSide /\ RemoteSide)' /\ UNCHANGED remote
  <2>1. UNCHANGED <<hub, mid, remote, clone, files, staged>>
    BY <1>4 DEF BackupCreate
  <2>2. OneBackup' /\ (BusyNow => Busy)
    <3>1. backup[w].step # "idle"
      BY <1>4 DEF BackupCreate
    <3>2. CASE backup' = [backup EXCEPT ![w] = [step |-> "fetch", name |-> minute]]
      <4>1. [step |-> "fetch", name |-> minute] \in
                [step: {"idle", "create", "fetch", "write", "add", "commit", "push"}, name: Minutes \cup {0}]
        BY <1>0 DEF BackupType
      <4>2. /\ backup'[w] = [step |-> "fetch", name |-> minute] /\ \A v \in Backers : v # w => backup'[v] = backup[v]
        BY <1>0, <3>2, <4>1, BackupMoves
      <4> HIDE DEF BusyNow, Busy
      <4> QED BY <1>2, <3>1, <4>2
    <3>3. CASE Ended(w, FALSE)
      <4>1. backup'[w].step = "idle" /\ \A v \in Backers : v # w => backup'[v] = backup[v]
        BY <1>0, <3>3, EndOf
      <4> HIDE DEF BusyNow, Busy
      <4> QED BY <1>2, <4>1
    <3> QED BY <1>4, <3>2, <3>3 DEF BackupCreate
  <2> QED BY <1>0, <2>1, <2>2, HubSideStays, RunSidesStay
<1>5. ASSUME NEW w \in Backers, BackupAdd(w) PROVE (HubSide /\ BackupSide /\ RemoteSide)' /\ UNCHANGED remote
  <2>1. UNCHANGED <<hub, mid, remote, clone, files>>
    BY <1>5 DEF BackupAdd
  <2>2. CASE Ended(w, TRUE) /\ UNCHANGED staged
    <3>1. backup'[w].step = "idle" /\ \A v \in Backers : v # w => backup'[v] = backup[v]
      BY <1>0, <2>2, EndOf
    <3>2. OneBackup' /\ (BusyNow => Busy)
      <4> HIDE DEF BusyNow, Busy
      <4> QED BY <1>2, <3>1
    <3> QED BY <1>0, <2>1, <2>2, <3>2, HubSideStays, RunSidesStay
  <2>3. CASE Moves(w, "commit")
    <3>1. backup'[w].step = "commit" /\ (\A v \in Backers : v # w => backup'[v] = backup[v]) /\ backup[w].step = "add"
      BY <1>0, <1>5, <2>3, StepOf DEF BackupAdd
    <3>2. OneBackup'
      BY <1>0, <3>1, OneRunLeft
    <3>3. CloneFits'
      <4>1. CloneFits
        BY <1>0 DEF BackupSide
      <4>2. clone # None => Pruned(files, clone.backups)
        BY <3>1, <4>1 DEF CloneFits
      <4> QED BY <2>1, <4>1, <4>2 DEF CloneFits, Pruned, Upon, Newest
    <3>4. RemoteSide'
      BY <1>0, <2>1 DEF RemoteSide, Newest
    <3> QED BY <1>0, <2>1, <3>2, <3>3, <3>4, HubSideStays DEF BackupSide
  <2> QED BY <1>5, <2>2, <2>3 DEF BackupAdd
<1>6. ASSUME NEW server \in BOOLEAN, Kill(server) PROVE (HubSide /\ BackupSide /\ RemoteSide)' /\ UNCHANGED remote
  <2>1. UNCHANGED <<hub, mid, remote, clone, files, staged>>
    BY <1>6 DEF Kill
  <2>2. PICK w \in Backers : backup' = [backup EXCEPT ![w] = NoBackup]
    BY <1>6 DEF Kill
  <2>3. NoBackup \in [step: {"idle", "create", "fetch", "write", "add", "commit", "push"}, name: Minutes \cup {0}]
    OBVIOUS
  <2>4. backup'[w].step = "idle" /\ \A v \in Backers : v # w => backup'[v] = backup[v]
    BY <1>0, <2>2, <2>3, BackupMoves
  <2>5. OneBackup' /\ (BusyNow => Busy)
    <3> HIDE DEF BusyNow, Busy
    <3> QED BY <1>2, <2>4
  <2> QED BY <1>0, <2>1, <2>5, HubSideStays, RunSidesStay
<1> QED BY <1>3, <1>4, <1>5, <1>6

LEMMA FetchSidesNext ==
    ASSUME RemoteInv, NEW w \in Backers, BackupFetch(w)
    PROVE  (HubSide /\ BackupSide /\ RemoteSide)' /\ UNCHANGED remote
<1>0. /\ TypeInv /\ BackupType /\ HubSide /\ BackupSide /\ RemoteSide /\ OneBackup /\ CloneFits
      /\ remote \in [graph: Graphs, backups: SUBSET Minutes]
  BY Sides DEF TypeInv, TypeOK, BackupSide
<1>1. UNCHANGED <<hub, mid, remote>> /\ backup[w].step = "fetch"
  BY DEF BackupFetch
<1>2. \A v \in Backers : v # w => backup[v].step = "idle"
  BY <1>0, <1>1, OthersIdle
<1>3. /\ \A v \in Backers : v # w => backup'[v] = backup[v]
      /\ backup'[w].step \in {"idle", "write"}
  <2>1. CASE Ended(w, FALSE)
    BY <1>0, <2>1, EndOf
  <2>2. CASE Moves(w, "write")
    BY <1>0, <2>2, StepOf
  <2> QED BY <2>1, <2>2 DEF BackupFetch
<1>4. OneBackup' /\ \A v \in Backers : backup'[v].step \notin {"add", "commit"}
  BY <1>0, <1>1, <1>2, <1>3, OneRunLeft
<1>5. CASE UNCHANGED <<clone, files, staged>>
  BY <1>0, <1>1, <1>4, <1>5, HubSideStays, RunSidesStay
<1>6. CASE Reset
  <2>1. PICK new \in SUBSET Minutes : IsFiniteSet(new) /\ files' = remote.backups \cup new
    <3>1. PICK new \in SUBSET files : files' = remote.backups \cup new
      BY <1>6 DEF Reset
    <3>2. IsFiniteSet(new) /\ new \in SUBSET Minutes
      BY <1>0, FS_Subset DEF BackupSide, BackupType
    <3> QED BY <3>1, <3>2
  <2>2. clone'.graph = remote.graph /\ clone'.backups = remote.backups /\ staged' = FALSE
    BY <1>6 DEF Reset, Fetched
  <2>3. Pruned(remote.backups, remote.backups)
    <3>1. remote.backups = Newest(remote.backups \cup {}) /\ IsFiniteSet({}) /\ {} \in SUBSET Minutes
      BY <1>0, FS_EmptySet DEF RemoteSide
    <3> QED BY <3>1 DEF Pruned
  <2>4. CloneFits'
    <3>1. Pruned(clone'.backups, remote'.backups) /\ clone'.graph = remote'.graph /\ clone'.backups = remote'.backups
      BY <1>1, <2>2, <2>3
    <3>2. Upon(files', clone'.backups)
      BY <2>1, <2>2 DEF Upon
    <3>3. ~(staged' \/ \E v \in Backers : backup'[v].step \in {"add", "commit"})
      BY <1>4, <2>2
    <3> QED BY <3>1, <3>2, <3>3 DEF CloneFits, Pruned, Upon, Newest
  <2>5. IsFiniteSet(files')
    BY <1>0, <2>1, FS_Union DEF RemoteSide
  <2>6. RemoteSide'
    BY <1>0, <1>1 DEF RemoteSide, Newest
  <2> QED BY <1>0, <1>1, <1>4, <2>2, <2>4, <2>5, <2>6, HubSideStays DEF BackupSide, RemoteSide
<1> QED BY <1>5, <1>6 DEF BackupFetch

LEMMA WriteSidesNext ==
    ASSUME RemoteInv, NEW w \in Backers, BackupWrite(w)
    PROVE  (HubSide /\ BackupSide /\ RemoteSide)' /\ UNCHANGED remote
<1>0. /\ TypeInv /\ BackupType /\ HubSide /\ BackupSide /\ RemoteSide /\ OneBackup /\ CloneFits
      /\ remote \in [graph: Graphs, backups: SUBSET Minutes]
  BY Sides DEF TypeInv, TypeOK, BackupSide
<1>1. UNCHANGED <<hub, mid, remote, clone, staged>> /\ backup[w].step = "write"
  BY DEF BackupWrite
<1>2. CASE Ended(w, FALSE) /\ UNCHANGED files
  <2>1. (\A v \in Backers : v # w => backup'[v] = backup[v]) /\ backup'[w].step = "idle"
    BY <1>0, <1>2, EndOf
  <2>2. OneBackup'
    BY <1>0, <2>1, OneRunLeft
  <2> QED BY <1>0, <1>1, <1>2, <2>1, <2>2, HubSideStays, RunSidesStay
<1>3. CASE files' = Newest(files \cup {backup[w].name}) /\ Moves(w, "add")
  <2>1. (\A v \in Backers : v # w => backup'[v] = backup[v]) /\ backup'[w].step = "add"
    BY <1>0, <1>3, StepOf
  <2>2. OneBackup'
    BY <1>0, <1>1, <2>1, OneRunLeft
  <2>3. clone \in Branch /\ clone # None /\ backup[w].name \in Minutes /\ clone.backups \in SUBSET Minutes
    BY <1>0, <1>1, BranchParts DEF TypeInv, BackupType, Cloned, Named
  <2>4. Pruned(files', clone.backups)
    BY <1>0, <1>3, <2>3, WrittenUpon DEF BackupSide, CloneFits
  <2>5. IsFiniteSet(files')
    BY <1>0, <2>3, <2>4, PrunedOnce DEF BackupSide
  <2>6. CloneFits'
    <3>1. /\ ~clone'.behind => clone'.graph = remote'.graph
          /\ ~clone'.ahead => clone'.backups = remote'.backups
          /\ Pruned(clone'.backups, remote'.backups)
      BY <1>0, <1>1, <2>3 DEF CloneFits
    <3>2. Pruned(files', clone'.backups) /\ Upon(files', clone'.backups)
      BY <1>1, <2>4 DEF Upon
    <3> QED BY <3>1, <3>2 DEF CloneFits, Pruned, Upon, Newest
  <2>7. RemoteSide'
    BY <1>0, <1>1 DEF RemoteSide, Newest
  <2> QED BY <1>0, <1>1, <2>2, <2>5, <2>6, <2>7, HubSideStays DEF BackupSide
<1> QED BY <1>2, <1>3 DEF BackupWrite

LEMMA CommitSidesNext ==
    ASSUME RemoteInv, NEW w \in Backers, BackupCommit(w)
    PROVE  (HubSide /\ BackupSide /\ RemoteSide)' /\ UNCHANGED remote
<1>0. /\ TypeInv /\ BackupType /\ HubSide /\ BackupSide /\ RemoteSide /\ OneBackup /\ CloneFits
      /\ remote \in [graph: Graphs, backups: SUBSET Minutes]
  BY Sides DEF TypeInv, TypeOK, BackupSide
<1>1. UNCHANGED <<hub, mid, remote, files>> /\ backup[w].step = "commit" /\ Moves(w, "push")
  BY DEF BackupCommit
<1>2. (\A v \in Backers : v # w => backup'[v] = backup[v]) /\ backup'[w].step = "push"
  BY <1>0, <1>1, StepOf
<1>3. OneBackup' /\ \A v \in Backers : backup'[v].step \notin {"add", "commit"}
  BY <1>0, <1>1, <1>2, OneRunLeft, OthersIdle
<1>4. CASE UNCHANGED <<clone, staged>>
  BY <1>0, <1>1, <1>3, <1>4, HubSideStays, RunSidesStay
<1>5. CASE clone' = [clone EXCEPT !.backups = files, !.ahead = TRUE] /\ staged' = FALSE
  <2>1. clone \in Branch /\ clone # None /\ clone.backups \in SUBSET Minutes /\ files \in SUBSET Minutes
    BY <1>0, <1>1, BranchParts DEF TypeInv, BackupType, Cloned
  <2>2. clone'.graph = clone.graph /\ clone'.backups = files /\ clone'.ahead /\ (clone'.behind <=> clone.behind)
    BY <1>5, <2>1 DEF Branch
  <2>3. Pruned(files, clone.backups) /\ Pruned(clone.backups, remote.backups)
    BY <1>0, <1>1, <2>1 DEF CloneFits
  <2>4. Pruned(files, remote.backups)
    BY <1>0, <2>3, PrunedAgain DEF RemoteSide
  <2>5. Upon(files, files)
    BY <1>0, <2>1, <2>3, PrunedOnce DEF BackupSide, Upon
  <2>6. CloneFits'
    <3>1. /\ ~clone'.behind => clone'.graph = remote'.graph
          /\ ~clone'.ahead => clone'.backups = remote'.backups
      BY <1>0, <1>1, <2>1, <2>2 DEF CloneFits
    <3>2. Pruned(clone'.backups, remote'.backups) /\ Upon(files', clone'.backups)
      BY <1>1, <2>2, <2>4, <2>5
    <3>3. ~(staged' \/ \E v \in Backers : backup'[v].step \in {"add", "commit"})
      BY <1>3, <1>5
    <3> QED BY <3>1, <3>2, <3>3 DEF CloneFits, Pruned, Upon, Newest
  <2>7. RemoteSide'
    BY <1>0, <1>1 DEF RemoteSide, Newest
  <2> QED BY <1>0, <1>1, <1>3, <2>2, <2>6, <2>7, HubSideStays DEF BackupSide
<1> QED BY <1>4, <1>5 DEF BackupCommit

\* A push of the backup clone brings the backups, and the graphs as they were there.
LEMMA BackupPushSidesNext ==
    ASSUME RemoteInv, NEW w \in Backers, BackupPush(w)
    PROVE  /\ (HubSide /\ BackupSide /\ RemoteSide)'
           /\ remote'.graph = remote.graph /\ Pruned(remote'.backups, remote.backups)
<1>0. /\ TypeInv /\ BackupType /\ HubSide /\ BackupSide /\ RemoteSide /\ OneBackup /\ CloneFits
      /\ remote \in [graph: Graphs, backups: SUBSET Minutes]
  BY Sides DEF TypeInv, TypeOK, BackupSide
<1>1. UNCHANGED <<files, staged>> /\ backup[w].step = "push" /\ \E ok \in BOOLEAN : Ended(w, ok)
  BY DEF BackupPush, PushVerdict
<1>2. (\A v \in Backers : v # w => backup'[v] = backup[v]) /\ backup'[w].step = "idle"
  BY <1>0, <1>1, EndOf
<1>3. OneBackup' /\ \A v \in Backers : backup'[v].step \notin {"add", "commit"}
  BY <1>0, <1>1, <1>2, OneRunLeft, OthersIdle
<1>4. CASE UNCHANGED <<remote, clone, hub, mid>>
  <2>1. Pruned(remote.backups, remote.backups)
    <3>1. remote.backups = Newest(remote.backups \cup {}) /\ IsFiniteSet({}) /\ {} \in SUBSET Minutes
      BY <1>0, FS_EmptySet DEF RemoteSide
    <3> QED BY <3>1 DEF Pruned
  <2>2. BackupSide' /\ RemoteSide' /\ HubSide'
    BY <1>0, <1>1, <1>3, <1>4, HubSideStays, RunSidesStay
  <2> QED BY <1>4, <2>1, <2>2
<1>5. CASE /\ ~clone.behind
           /\ remote' = [graph |-> clone.graph, backups |-> clone.backups]
           /\ clone' = [clone EXCEPT !.ahead = FALSE]
           /\ hub' = IF clone.ahead THEN [hub EXCEPT !.behind = TRUE] ELSE hub
           /\ mid' = IF clone.ahead /\ mid # None THEN [mid EXCEPT !.behind = TRUE] ELSE mid
  <2>1. clone \in Branch /\ clone # None /\ hub \in Branch /\ mid \in Onto \cup {None}
    BY <1>0, <1>1 DEF TypeInv, TypeOK, HubType, BackupType, Cloned
  <2>2. remote'.graph = remote.graph /\ remote'.backups = clone.backups /\ Pruned(clone.backups, remote.backups)
    BY <1>0, <1>5, <2>1 DEF CloneFits
  <2>3. /\ IsFiniteSet(clone.backups) /\ Newest(clone.backups) = clone.backups
        /\ Pruned(clone.backups, clone.backups)
    BY <1>0, <2>2, PrunedOnce DEF RemoteSide
  <2>4. RemoteSide'
    BY <2>2, <2>3 DEF RemoteSide, Newest
  <2>5. clone'.graph = clone.graph /\ clone'.backups = clone.backups
    BY <1>5, <2>1 DEF Branch
  <2>6. CloneFits'
    <3>1. clone'.graph = remote'.graph /\ clone'.backups = remote'.backups
      BY <1>5, <2>2, <2>5
    <3>2. Pruned(clone'.backups, remote'.backups) /\ Upon(files', clone'.backups)
      BY <1>0, <1>1, <2>1, <2>2, <2>3, <2>5 DEF CloneFits
    <3>3. staged' => Pruned(files', clone'.backups)
      BY <1>0, <1>1, <2>1, <2>5 DEF CloneFits
    <3> QED BY <1>3, <3>1, <3>2, <3>3 DEF CloneFits, Pruned, Upon, Newest
  <2>7. HubSide'
    <3>1. CASE clone.ahead
      <4>1. hub'.backups = hub.backups /\ hub'.behind
        <5>1. hub' = [hub EXCEPT !.behind = TRUE]
          BY <1>5, <3>1
        <5> QED BY <2>1, <5>1 DEF Branch
      <4>2. CASE mid = None
        BY <1>0, <1>5, <4>1, <4>2 DEF HubSide, HubFits
      <4>3. CASE mid # None
        <5>1. mid' = [mid EXCEPT !.behind = TRUE]
          BY <1>5, <3>1, <4>3
        <5>2. mid'.backups = mid.backups /\ mid'.behind
          BY <2>1, <4>3, <5>1 DEF Onto
        <5> QED BY <1>0, <4>1, <4>3, <5>2 DEF HubSide, HubFits
      <4> QED BY <4>2, <4>3
    <3>2. CASE ~clone.ahead
      <4>1. remote'.graph = remote.graph /\ remote'.backups = remote.backups /\ UNCHANGED <<hub, mid>>
        BY <1>0, <1>5, <2>1, <2>2, <3>2 DEF CloneFits
      <4> QED BY <1>0, <4>1 DEF HubSide, HubFits
    <3> QED BY <3>1, <3>2
  <2> QED BY <1>0, <1>1, <1>3, <2>2, <2>3, <2>4, <2>5, <2>6, <2>7 DEF BackupSide
<1> QED BY <1>4, <1>5 DEF BackupPush, CanPush

\* Each step changes one writer's part of the remote.
LEMMA RemoteInvNext ==
    ASSUME RemoteInv, Next, "backups" \notin Overlap
    PROVE  /\ RemoteInv'
           /\ \/ remote'.graph \in Graphs /\ remote'.backups = remote.backups
              \/ remote'.graph = remote.graph /\ Pruned(remote'.backups, remote.backups)
<1>1. TypeInv'
  BY TypeNext DEF RemoteInv
<1>2. RemoteInv' <=> (TypeInv /\ HubSide /\ BackupSide /\ RemoteSide)'
  BY DEF RemoteInv, FilesFinite, HubSide, BackupSide, RemoteSide
<1>3. UNCHANGED remote => remote'.graph \in Graphs /\ remote'.backups = remote.backups
  BY DEF RemoteInv, TypeInv, TypeOK
<1>4. CASE \E p \in Projects : Rebuild(p) \/ PurgeRemove(p) \/ (\E a \in Syncers : SyncBegin(a, p))
  BY <1>1, <1>2, <1>3, <1>4, HubSideNext
<1>5. CASE SyncCommit \/ SyncRebase \/ SyncReplay \/ SyncAbort \/ PurgeCommit
  BY <1>1, <1>2, <1>3, <1>5, HubSideNext
<1>6. CASE SyncPush \/ PurgePush
  BY <1>1, <1>2, <1>6, PushSidesNext
<1>7. CASE \/ BackupNow \/ NightBackup \/ Tick
           \/ \E w \in Backers : BackupCreate(w) \/ BackupAdd(w)
           \/ \E server \in BOOLEAN : Kill(server)
  BY <1>1, <1>2, <1>3, <1>7, RunSidesNext
<1>8. ASSUME NEW w \in Backers, BackupFetch(w) \/ BackupWrite(w) \/ BackupCommit(w)
      PROVE  RemoteInv' /\ UNCHANGED remote
  BY <1>1, <1>2, <1>8, FetchSidesNext, WriteSidesNext, CommitSidesNext
<1>9. ASSUME NEW w \in Backers, BackupPush(w)
      PROVE  RemoteInv' /\ remote'.graph = remote.graph /\ Pruned(remote'.backups, remote.backups)
  BY <1>1, <1>2, <1>9, BackupPushSidesNext
<1> QED BY <1>3, <1>4, <1>5, <1>6, <1>7, <1>8, <1>9 DEF Next, SyncStep, BackupStep

LEMMA RemoteInit ==
    ASSUME Init
    PROVE  RemoteInv
<1>1. TypeInv
  BY PublishInit
<1>2. hub.backups = {} /\ hub.graph = remote.graph /\ ~hub.behind /\ remote.backups = {} /\ mid = None /\ clone = None /\ files = {}
  BY DEF Init
<1>3. HubFits /\ CloneFits
  BY <1>2 DEF HubFits, CloneFits
<1>4. OneBackup
  BY DEF Init, OneBackup
<1>5. FilesFinite
  BY <1>2, FS_EmptySet DEF FilesFinite, Newest
<1> QED BY <1>1, <1>3, <1>4, <1>5 DEF RemoteInv

LEMMA RemoteStutter ==
    ASSUME RemoteInv, UNCHANGED publishVars
    PROVE  RemoteInv' /\ UNCHANGED remote
<1>1. TypeInv'
  BY TypeStutter DEF RemoteInv
<1>2. UNCHANGED <<hub, mid, remote, clone, files, staged, backup>>
  BY DEF publishVars
<1>3. (HubSide /\ BackupSide /\ RemoteSide)'
  BY <1>2, Sides, HubSideStays, BackupSideStays
<1> QED BY <1>1, <1>2, <1>3 DEF RemoteInv, FilesFinite, HubSide, BackupSide, RemoteSide

\* The abstract specification counts as this one does.
LEMMA SameCount ==
    /\ \A S : Remote!Cardinality(S) = Cardinality(S)
    /\ \A S : Remote!Newest(S) = Newest(S)
<1>1. \A S : Remote!Cardinality(S) = Cardinality(S)
  BY DEF Remote!Cardinality, Cardinality, Remote!IsFiniteSet, IsFiniteSet
<1>2. \A S : Remote!Newest(S) = Newest(S)
  BY <1>1 DEF Remote!Newest, Newest
<1> QED BY <1>1, <1>2

LEMMA RemoteStep ==
    ASSUME RemoteInv,
           \/ remote'.graph \in Graphs /\ remote'.backups = remote.backups
           \/ remote'.graph = remote.graph /\ Pruned(remote'.backups, remote.backups)
    PROVE  [Remote!Next]_(Remote!remoteVars)
<1>1. CASE remote'.graph \in Graphs /\ remote'.backups = remote.backups
  <2>1. Remote!PublishGraphs
    BY <1>1 DEF Remote!PublishGraphs, Graphs
  <2> QED BY <2>1 DEF Remote!Next
<1>2. CASE remote'.graph = remote.graph /\ Pruned(remote'.backups, remote.backups)
  <2>1. PICK new \in SUBSET Minutes : remote'.backups = Newest(remote.backups \cup new)
    BY <1>2 DEF Pruned
  <2>2. CASE new = {}
    <3>1. remote'.backups = remote.backups
      BY <2>1, <2>2 DEF RemoteInv, FilesFinite
    <3> QED BY <1>2, <3>1 DEF Remote!remoteVars
  <2>3. CASE new # {}
    <3>1. remote'.backups = Remote!Newest(remote.backups \cup new)
      BY <2>1, SameCount
    <3>2. Remote!AddBackups
      <4>1. new \in (SUBSET Minutes) \ {{}} /\ remote'.graph = remote.graph
        BY <1>2, <2>1, <2>3
      <4>2. \E n \in (SUBSET Minutes) \ {{}} :
                remote'.backups = Remote!Newest(remote.backups \cup n) /\ remote'.graph = remote.graph
        BY <3>1, <4>1
      <4> QED BY <4>2 DEF Remote!AddBackups
    <3> QED BY <3>2 DEF Remote!Next
  <2> QED BY <2>2, <2>3
<1> QED BY <1>1, <1>2

LEMMA RemoteInvariant ==
    ASSUME "backups" \notin Overlap
    PROVE  Spec => []RemoteInv
<1>1. RemoteInv /\ [Next]_publishVars => RemoteInv'
  BY RemoteInvNext, RemoteStutter
<1> QED BY RemoteInit, <1>1, PTL DEF Spec

\* Each of the two writers changes its own part of the remote only, and no backup
\* leaves it but for Keep newer ones, although both push whole trees.
THEOREM WritersStayApart ==
    ASSUME "backups" \notin Overlap
    PROVE  Spec => ImplementsSharedRemote
<1>1. Init => Remote!Init
  BY DEF Init, Remote!Init
<1>2. RemoteInv /\ [Next]_publishVars => [Remote!Next]_(Remote!remoteVars)
  <2> SUFFICES ASSUME RemoteInv, [Next]_publishVars PROVE [Remote!Next]_(Remote!remoteVars)
    OBVIOUS
  <2>1. CASE Next
    BY <2>1, RemoteInvNext, RemoteStep
  <2>2. CASE UNCHANGED publishVars
    BY <2>2 DEF publishVars, Remote!remoteVars
  <2> QED BY <2>1, <2>2
<1> QED BY <1>1, <1>2, RemoteInvariant, PTL DEF Spec, ImplementsSharedRemote, Remote!Spec

LEMMA RunsKept ==
    ASSUME BackupsFit, UNCHANGED <<clone, files, staged>>,
           \A v \in Backers : \/ backup'[v] = backup[v]
                              \/ backup'[v].step \in {"idle", "create", "fetch", "write"}
    PROVE  BackupsFit'
BY DEF BackupsFit, Kept

LEMMA BackupRunNext ==
    ASSUME BackupInv, NEW w \in Backers, BackupStep(w), "git" \notin Faults
    PROVE  BackupsFit' /\ \A m \in reported' : Kept(m, remote'.backups)
<1>0. /\ TypeInv /\ BackupType /\ OneBackup /\ CloneFits /\ BackupsFit /\ Keep \in Nat
      /\ IsFiniteSet(files) /\ IsFiniteSet(remote.backups)
      /\ remote.backups \in SUBSET Minutes /\ \A m \in reported : Kept(m, remote.backups)
  BY PublishAssumption DEF BackupInv, RemoteInv, TypeInv, TypeOK, FilesFinite,
     ReportedBackupsExist, Kept
<1>1. backup[w].step # "idle"
  BY DEF BackupStep, BackupCreate, BackupFetch, BackupWrite, BackupAdd, BackupCommit, BackupPush
<1>2. \A v \in Backers : v # w => backup[v].step = "idle"
  BY <1>0, <1>1, OthersIdle
<1>3. ASSUME Ended(w, FALSE)
      PROVE  BackupsFit' /\ \A m \in reported' : m \in reported
  <2>1. \A v \in Backers : backup'[v].step = "idle"
    BY <1>0, <1>2, <1>3, EndOf
  <2> QED BY <1>0, <1>3, <2>1, EndOf DEF BackupsFit
<1>4. ASSUME NEW s \in {"write", "add", "commit", "push"}, Moves(w, s)
      PROVE  /\ backup'[w].step = s /\ backup'[w].name = backup[w].name
             /\ \A v \in Backers : v # w => backup'[v].step = "idle"
  BY <1>0, <1>2, <1>4, StepOf
<1>5. CASE BackupCreate(w)
  <2>1. CASE backup' = [backup EXCEPT ![w] = [step |-> "fetch", name |-> minute]] /\ UNCHANGED reported
    <3>1. [step |-> "fetch", name |-> minute] \in
              [step: {"idle", "create", "fetch", "write", "add", "commit", "push"}, name: Minutes \cup {0}]
      BY <1>0 DEF BackupType
    <3>2. backup'[w].step = "fetch" /\ \A v \in Backers : v # w => backup'[v].step = "idle"
      BY <1>0, <1>2, <2>1, <3>1, BackupMoves
    <3> QED BY <1>0, <1>5, <2>1, <3>2 DEF BackupsFit, BackupCreate
  <2> QED BY <1>0, <1>3, <1>5, <2>1 DEF BackupCreate
<1>6. CASE BackupFetch(w)
  <2>1. CASE Moves(w, "write") /\ UNCHANGED reported
    BY <1>0, <1>4, <1>6, <2>1 DEF BackupsFit, BackupFetch
  <2> QED BY <1>0, <1>3, <1>6, <2>1 DEF BackupFetch
<1>7. CASE BackupWrite(w)
  <2>1. CASE files' = Newest(files \cup {backup[w].name}) /\ Moves(w, "add") /\ UNCHANGED reported
    <3>1. backup[w].name \in Minutes /\ backup[w].name \in Nat /\ files \in SUBSET Minutes /\ Minutes \subseteq Nat
      BY <1>0, <1>7, PublishAssumption DEF TypeInv, Named, BackupType, BackupWrite
    <3>2. IsFiniteSet(files \cup {backup[w].name}) /\ files \cup {backup[w].name} \subseteq Nat
      BY <1>0, <3>1, FS_Union, FS_Singleton
    <3>3. Kept(backup[w].name, {backup[w].name})
      BY DEF Kept
    <3>4. Kept(backup[w].name, files')
      <4>1. {backup[w].name} \subseteq files \cup {backup[w].name}
        OBVIOUS
      <4> QED BY <1>0, <2>1, <3>1, <3>2, <3>3, <4>1, PruningKeeps
    <3>5. backup'[w].step = "add" /\ backup'[w].name = backup[w].name /\ \A v \in Backers : v # w => backup'[v].step = "idle"
      BY <1>4, <2>1
    <3> QED BY <1>0, <1>7, <2>1, <3>4, <3>5 DEF BackupsFit, BackupWrite
  <2> QED BY <1>0, <1>3, <1>7, <2>1 DEF BackupWrite
<1>8. CASE BackupAdd(w)
  <2>1. Moves(w, "commit") /\ staged' = TRUE /\ UNCHANGED <<files, reported, remote>>
    BY <1>8 DEF BackupAdd
  <2>2. backup'[w].step = "commit" /\ backup'[w].name = backup[w].name /\ \A v \in Backers : v # w => backup'[v].step = "idle"
    BY <1>4, <2>1
  <2>3. Kept(backup[w].name, files)
    BY <1>0, <1>8 DEF BackupsFit, BackupAdd
  <2> QED BY <1>0, <2>1, <2>2, <2>3 DEF BackupsFit
<1>9. CASE BackupCommit(w)
  <2>1. /\ Moves(w, "push") /\ UNCHANGED <<reported, remote>>
        /\ clone' = [clone EXCEPT !.backups = files, !.ahead = TRUE]
    BY <1>0, <1>9 DEF BackupCommit, BackupsFit
  <2>2. backup'[w].step = "push" /\ backup'[w].name = backup[w].name /\ \A v \in Backers : v # w => backup'[v].step = "idle"
    BY <1>4, <2>1
  <2>3. clone \in Branch /\ Kept(backup[w].name, files)
    BY <1>0, <1>9 DEF TypeInv, BackupType, Cloned, BackupsFit, BackupCommit
  <2>4. clone'.backups = files
    BY <2>1, <2>3 DEF Branch
  <2> QED BY <1>0, <2>1, <2>2, <2>3, <2>4 DEF BackupsFit
<1>10. CASE BackupPush(w)
  <2>1. CASE remote' = [graph |-> clone.graph, backups |-> clone.backups] /\ Ended(w, TRUE)
    <3>1. clone # None /\ Kept(backup[w].name, clone.backups)
      BY <1>0, <1>10 DEF TypeInv, Cloned, BackupsFit, BackupPush
    <3>2. PICK new \in SUBSET Minutes : IsFiniteSet(new) /\ clone.backups = Newest(remote.backups \cup new)
      BY <1>0, <3>1 DEF CloneFits, Pruned
    <3>3. IsFiniteSet(remote.backups \cup new) /\ remote.backups \cup new \subseteq Nat
      BY <1>0, <3>2, PublishAssumption, FS_Union
    <3>4. ASSUME NEW m \in reported PROVE Kept(m, clone.backups)
      <4>1. Kept(m, remote.backups) /\ m \in Nat
        BY <1>0, PublishAssumption DEF BackupType
      <4>2. remote.backups \subseteq remote.backups \cup new
        OBVIOUS
      <4> QED BY <1>0, <3>2, <3>3, <4>1, <4>2, PruningKeeps
    <3>5. reported' = reported \cup {backup[w].name} /\ \A v \in Backers : backup'[v].step = "idle"
      BY <1>0, <1>2, <2>1, EndOf
    <3> QED BY <2>1, <3>1, <3>4, <3>5 DEF BackupsFit
  <2>2. CASE Ended(w, FALSE) /\ UNCHANGED remote
    BY <1>0, <1>3, <2>2
  <2> QED BY <1>10, <2>1, <2>2 DEF BackupPush, PushVerdict
<1> QED BY <1>5, <1>6, <1>7, <1>8, <1>9, <1>10 DEF BackupStep

LEMMA BackupInvNext ==
    ASSUME BackupInv, Next, "backups" \notin Overlap, "git" \notin Faults
    PROVE  BackupsFit' /\ ReportedBackupsExist'
<1>0. /\ TypeInv /\ BackupType /\ BackupsFit /\ \A m \in reported : Kept(m, remote.backups)
  BY DEF BackupInv, RemoteInv, TypeInv, TypeOK, ReportedBackupsExist, Kept
<1> SUFFICES BackupsFit' /\ \A m \in reported' : Kept(m, remote'.backups)
  BY DEF ReportedBackupsExist, Kept
<1>1. CASE \/ \E p \in Projects : Rebuild(p) \/ PurgeRemove(p) \/ (\E a \in Syncers : SyncBegin(a, p))
           \/ SyncCommit \/ SyncRebase \/ SyncReplay \/ SyncAbort \/ PurgeCommit \/ Tick
  <2>1. UNCHANGED <<remote, clone, files, staged, backup, reported>>
    BY <1>1 DEF Rebuild, PurgeRemove, SyncBegin, SyncCommit, SyncRebase, SyncReplay, SyncAbort,
       PurgeCommit, Tick
  <2> QED BY <1>0, <2>1, RunsKept
<1>2. CASE SyncPush \/ PurgePush
  <2>1. UNCHANGED <<files, staged, backup, reported>>
    BY <1>2 DEF SyncPush, PurgePush
  <2>2. remote'.backups = remote.backups
    BY <1>2, PushSidesNext DEF BackupInv
  <2>3. clone # None => clone'.backups = clone.backups
    BY <1>0, <1>2, HubPushedEffect DEF SyncPush, PurgePush
  <2>4. \A w \in Backers : backup[w].step = "push" => clone # None
    BY <1>0 DEF TypeInv, Cloned
  <2> QED BY <1>0, <2>1, <2>2, <2>3, <2>4 DEF BackupsFit, Kept
<1>3. CASE BackupNow \/ NightBackup
  <2>1. UNCHANGED <<remote, clone, files, staged, reported>>
    BY <1>3 DEF BackupNow, NightBackup
  <2>2. \A v \in Backers : backup'[v] = backup[v] \/ backup'[v].step = "create"
    BY <1>0, <1>3, StepOf DEF BackupNow, NightBackup
  <2> QED BY <1>0, <2>1, <2>2, RunsKept
<1>4. ASSUME NEW w \in Backers, BackupStep(w) PROVE BackupsFit' /\ \A m \in reported' : Kept(m, remote'.backups)
  BY <1>4, BackupRunNext
<1>5. ASSUME NEW server \in BOOLEAN, Kill(server) PROVE BackupsFit' /\ \A m \in reported' : Kept(m, remote'.backups)
  <2>1. UNCHANGED <<remote, clone, files, staged, reported>>
    BY <1>5 DEF Kill
  <2>2. PICK w \in Backers : backup' = [backup EXCEPT ![w] = NoBackup]
    BY <1>5 DEF Kill
  <2>3. \A v \in Backers : backup'[v] = backup[v] \/ backup'[v].step = "idle"
    BY <1>0, <2>2, BackupMoves DEF BackupType
  <2> QED BY <1>0, <2>1, <2>3, RunsKept
<1> QED BY <1>1, <1>2, <1>3, <1>4, <1>5 DEF Next, SyncStep

LEMMA BackupInvariant ==
    ASSUME "backups" \notin Overlap, "git" \notin Faults
    PROVE  Spec => []BackupInv
<1>1. Init => BackupInv
  <2> SUFFICES ASSUME Init PROVE BackupInv
    OBVIOUS
  <2>1. \A w \in Backers : backup[w].step = "idle"
    BY DEF Init
  <2>2. reported = {}
    BY DEF Init
  <2> QED BY <2>1, <2>2, RemoteInit DEF BackupInv, BackupsFit, ReportedBackupsExist
<1>2. BackupInv /\ [Next]_publishVars => BackupInv'
  <2> SUFFICES ASSUME BackupInv, [Next]_publishVars PROVE BackupInv'
    OBVIOUS
  <2>1. CASE Next
    BY <2>1, RemoteInvNext, BackupInvNext DEF BackupInv
  <2>2. CASE UNCHANGED publishVars
    BY <2>2, RemoteStutter DEF publishVars, BackupInv, BackupsFit, ReportedBackupsExist, Kept
  <2> QED BY <2>1, <2>2
<1> QED BY <1>1, <1>2, PTL DEF Spec

\* A backup that a run called successful is on the remote until Keep newer ones
\* are there, whatever the hub pushes meanwhile (backup.py:310-317).
THEOREM BackupsLast ==
    ASSUME "backups" \notin Overlap, "git" \notin Faults
    PROVE  Spec => []ReportedBackupsExist
<1>1. BackupInv => ReportedBackupsExist
  BY DEF BackupInv
<1> QED BY <1>1, BackupInvariant, PTL

\* Between the rebases the work tree and the checked-out branch change together.
LEMMA WorkTreeNext ==
    ASSUME WorkTreeInv, Next, "purge" \notin Overlap, "cut" \notin Faults
    PROVE  RebaseFits' /\ CopyOutlivesPush'
<1>0. /\ TypeInv /\ HubType /\ BackupType /\ remote \in [graph: Graphs, backups: SUBSET Minutes]
      /\ hub \in Branch /\ mid \in Onto \cup {None}
  BY DEF WorkTreeInv, TypeInv, TypeOK, HubType
<1>1. /\ mid = None => wt = synced
      /\ mid # None => /\ sync.step \in {"replay", "abort"} /\ hub.graph = synced /\ wt = mid.graph
  BY DEF WorkTreeInv, RebaseFits, CopyOutlivesPush
<1> DEFINE Holds == \/ mid' = None /\ wt' = synced'
                    \/ /\ mid' # None /\ sync'.step \in {"replay", "abort"}
                       /\ hub'.graph = synced' /\ wt' = mid'.graph
<1> SUFFICES Holds
  BY DEF RebaseFits, CopyOutlivesPush
<1>2. ASSUME NEW p \in Projects, Rebuild(p) \/ PurgeRemove(p) \/ (\E a \in Syncers : SyncBegin(a, p)) PROVE Holds
  <2>1. CASE Rebuild(p)
    BY <1>1, <2>1 DEF Rebuild
  <2>2. CASE PurgeRemove(p)
    BY <1>1, <2>2 DEF PurgeRemove
  <2>3. ASSUME NEW a \in Syncers, SyncBegin(a, p) PROVE Holds
    BY <1>1, <2>3 DEF SyncBegin
  <2> QED BY <1>2, <2>1, <2>2, <2>3
<1>3. CASE SyncCommit
  <2>1. mid = None
    BY <1>1, <1>3 DEF SyncCommit
  <2>2. mid' = None /\ UNCHANGED <<wt, synced>>
    BY <1>0, <1>3, <2>1, CommitEffect DEF SyncCommit
  <2> QED BY <1>1, <2>1, <2>2
<1>4. CASE SyncPush \/ PurgePush
  <2>1. mid = None /\ UNCHANGED <<mid, wt, synced>>
    BY <1>1, <1>4 DEF SyncPush, PurgePush
  <2> QED BY <1>1, <2>1
<1>5. CASE SyncRebase
  <2>1. mid = None /\ wt = synced /\ UNCHANGED <<hub, synced>>
    BY <1>1, <1>5 DEF SyncRebase
  <2>2. CASE /\ wt = hub.graph
             /\ mid' = [graph |-> remote.graph, backups |-> remote.backups, behind |-> FALSE]
             /\ wt' = remote.graph
             /\ sync' = [sync EXCEPT !.step = "replay"]
    <3>1. mid'.graph = wt' /\ mid' \in Onto
      BY <1>0, <2>2, BranchParts
    <3>2. sync'.step = "replay"
      BY <1>0, <2>2 DEF HubType
    <3> QED BY <2>1, <2>2, <3>1, <3>2, NoneApart
  <2>3. CASE UNCHANGED <<mid, wt>>
    BY <2>1, <2>3
  <2> QED BY <1>5, <2>1, <2>2, <2>3 DEF SyncRebase
<1>6. CASE SyncReplay
  <2>1. mid # None /\ hub.graph = synced /\ wt = mid.graph
    BY <1>0, <1>1, <1>6 DEF TypeInv, Replays, SyncReplay
  <2>2. CASE /\ wt' = [p \in Projects |-> IF wt[p] = mid.graph[p] THEN Replayed[p] ELSE wt[p]]
             /\ mid' = None
    <3>1. wt' = [p \in Projects |-> hub.graph[p]]
      BY <2>1, <2>2 DEF Replayed
    <3>2. hub.graph = [p \in Projects |-> hub.graph[p]]
      BY <1>0, BranchParts DEF Graphs
    <3>3. UNCHANGED synced
      BY <1>6 DEF SyncReplay
    <3> QED BY <2>1, <2>2, <3>1, <3>2, <3>3
  <2>3. CASE sync' = [sync EXCEPT !.step = "abort"] /\ UNCHANGED <<hub, wt, mid>>
    <3>1. sync'.step = "abort" /\ UNCHANGED synced
      BY <1>0, <1>6, <2>3 DEF HubType, SyncReplay
    <3> QED BY <2>1, <2>3, <3>1
  <2> QED BY <1>6, <2>2, <2>3 DEF SyncReplay
<1>7. CASE SyncAbort
  BY <1>1, <1>7 DEF SyncAbort
<1>8. CASE PurgeCommit
  <2>1. CASE UNCHANGED <<hub, mid, sync>>
    BY <1>1, <1>8, <2>1 DEF PurgeCommit
  <2>2. CASE ~UNCHANGED <<hub, mid, sync>>
    <3>1. mid = None
      BY <1>1, <1>8, <2>2 DEF PurgeCommit
    <3>2. mid' = None /\ UNCHANGED <<wt, synced>>
      BY <1>0, <1>8, <3>1, CommitEffect DEF PurgeCommit
    <3> QED BY <1>1, <3>1, <3>2
  <2> QED BY <2>1, <2>2
<1>9. CASE BackupNow \/ NightBackup \/ Tick
  <2>1. UNCHANGED <<wt, hub, mid, sync, synced>>
    BY <1>9 DEF BackupNow, NightBackup, Tick
  <2> QED BY <1>1, <2>1
<1>10. ASSUME NEW w \in Backers, BackupStep(w) PROVE Holds
  <2>1. UNCHANGED <<wt, sync, synced>>
    BY <1>10 DEF BackupStep, BackupCreate, BackupFetch, BackupWrite, BackupAdd, BackupCommit,
       BackupPush
  <2>2. CASE UNCHANGED <<hub, mid>>
    BY <1>1, <2>1, <2>2
  <2>3. CASE /\ hub' = IF clone.ahead THEN [hub EXCEPT !.behind = TRUE] ELSE hub
             /\ mid' = IF clone.ahead /\ mid # None THEN [mid EXCEPT !.behind = TRUE] ELSE mid
    <3>1. hub'.graph = hub.graph
      <4>1. [hub EXCEPT !.behind = TRUE].graph = hub.graph
        BY <1>0 DEF Branch
      <4> QED BY <2>3, <4>1
    <3>2. CASE mid = None
      BY <1>1, <2>1, <2>3, <3>2
    <3>3. CASE mid # None
      <4>1. [mid EXCEPT !.behind = TRUE] \in Onto /\ [mid EXCEPT !.behind = TRUE].graph = mid.graph
        BY <1>0, <3>3 DEF Onto
      <4>2. mid' # None /\ mid'.graph = mid.graph
        BY <2>3, <3>3, <4>1, NoneApart
      <4> QED BY <1>1, <2>1, <3>1, <3>3, <4>2
    <3> QED BY <3>2, <3>3
  <2> QED BY <1>10, <2>2, <2>3 DEF BackupStep, BackupCreate, BackupFetch, BackupWrite,
             BackupAdd, BackupCommit, BackupPush
<1>11. ASSUME NEW server \in BOOLEAN, Kill(server) PROVE Holds
  <2>1. UNCHANGED <<wt, hub, mid, synced>> /\ (mid # None => UNCHANGED sync)
    BY <1>11 DEF Kill
  <2> QED BY <1>1, <2>1
<1> QED
  <2> HIDE DEF Holds
  <2> QED BY <1>2, <1>3, <1>4, <1>5, <1>6, <1>7, <1>8, <1>9, <1>10, <1>11 DEF Next, SyncStep

LEMMA WorkTreeInvariant ==
    ASSUME "purge" \notin Overlap, "cut" \notin Faults
    PROVE  Spec => []WorkTreeInv
<1>1. Init => WorkTreeInv
  BY PublishInit DEF Init, WorkTreeInv, RebaseFits, CopyOutlivesPush
<1>2. WorkTreeInv /\ [Next]_publishVars => WorkTreeInv'
  <2> SUFFICES ASSUME WorkTreeInv, [Next]_publishVars PROVE WorkTreeInv'
    OBVIOUS
  <2>1. CASE Next
    BY <2>1, TypeNext, WorkTreeNext DEF WorkTreeInv
  <2>2. CASE UNCHANGED publishVars
    BY <2>2 DEF publishVars, WorkTreeInv, TypeInv, TypeOK, HubType, BackupType, Cloned, Named,
       Replays, RebaseFits, CopyOutlivesPush
  <2> QED BY <2>1, <2>2
<1> QED BY <1>1, <1>2, PTL DEF Spec

\* What was copied or purged last is what the hub answers from (graphify-sync:49-51).
THEOREM CopyIsServed ==
    ASSUME "purge" \notin Overlap, "cut" \notin Faults
    PROVE  Spec => []CopyOutlivesPush
<1>1. WorkTreeInv => CopyOutlivesPush
  BY DEF WorkTreeInv
<1> QED BY <1>1, WorkTreeInvariant, PTL
==============================================================================
