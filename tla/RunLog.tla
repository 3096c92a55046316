------------------------------- MODULE RunLog -------------------------------
(* The log of runs (runlog.py): one file per nightly run and per build of the  *)
(* server, named by the second of its start, rewritten with every result.      *)
(* Writers share the directory and no lock; the oldest files are rotated away. *)
EXTENDS Integers, FiniteSets

CONSTANTS Projects, Builders,  \* build threads of the server
          Night, None,
          Ids,                 \* bound: run ids there are, <<second, number>>
          MaxFiles,            \* MAX_RUN_DATEIEN
          Faults               \* {"disk", "kill", "overlap"}

\* Service assumes of them what is needed: ServiceAssumption.

VARIABLES
    runs,    \* build-logs/runs: per run id its document, or None
    second,  \* the last second a run began in
    writer   \* per writer: the run it is at

runLogVars == <<runs, second, writer>>

Writers == Builders \cup {Night}
Seconds == {i[1] : i \in Ids}
Results == {"success", "failed"}  \* "failed" stands for "skipped" too: finish treats them alike
Table   == [Projects -> Results \cup {None}]
NoResults == [p \in Projects |-> None]
Docs    == [projects: Table, finished: BOOLEAN, status: {"running", "success", "partial", "failed"}]
NewDoc  == [projects |-> NoResults, finished |-> FALSE, status |-> "running"]
NoRun   == [step |-> "idle", id |-> None, doc |-> None, todo |-> {}]

TypeOK ==
    /\ runs \in [Ids -> Docs \cup {None}] /\ second \in Seconds
    /\ writer \in [Writers -> [step: {"idle", "create", "work", "write", "close"}, id: Ids \cup {None},
                               doc: Docs \cup {None}, todo: SUBSET Projects]]

Init ==
    /\ runs = [i \in Ids |-> None] /\ second = 1
    /\ writer = [w \in Writers |-> NoRun]

------------------------------------------------------------------------------
\* What finish makes of the results.
StatusOf(results) ==
    LET rs == {results[p] : p \in Projects} \ {None} IN
    IF rs \subseteq {"success"} THEN "success"
    ELSE IF "success" \in rs THEN "partial" ELSE "failed"

\* The order of the file names: run-S-2.json and run-S-3.json stand before run-S.json.
Before(i, j) ==
    \/ i[1] < j[1]
    \/ i[1] = j[1] /\ i # j /\ (j[2] = 1 \/ (i[2] # 1 /\ i[2] < j[2]))

\* The document takes its place, then all but the newest files are removed.
Written(id, doc) ==
    LET put  == [runs EXCEPT ![id] = doc]
        Newer(i) == {j \in Ids : put[j] # None /\ Before(i, j)}
    IN  [i \in Ids |-> IF Cardinality(Newer(i)) < MaxFiles THEN put[i] ELSE None]

\* MUTANT: an id that is taken is used again
FreeIds_Plain == {i \in Ids : i[1] >= second /\ i[2] = 1}
\* The first id whose file is not there, of this second or a later one.
FreeIds ==
    {i \in Ids : /\ i[1] >= second /\ runs[i] = None
                 /\ \A j \in Ids : j[1] = i[1] /\ j[2] < i[2] => runs[j] # None}

\* The file of the new run is there.
Opened(w, id, todo) ==
    /\ runs' = Written(id, NewDoc)
    /\ writer' = [writer EXCEPT ![w] = [NoRun EXCEPT !.step = "work", !.id = id, !.todo = todo]]

\* The nightly run starts with all projects to do, a build with its own.  Between
\* the question whether an id is free and the file, "overlap" lets others in.  Time
\* has gone on since the last start, or not.
Start(w, todo) ==
    /\ writer[w] = NoRun
    /\ \E id \in FreeIds :
       /\ IF "overlap" \in Faults
          THEN /\ writer' = [writer EXCEPT ![w] = [NoRun EXCEPT !.step = "create", !.id = id, !.todo = todo]]
               /\ UNCHANGED runs
          ELSE Opened(w, id, todo)
       /\ second' = id[1]

Create(w) ==
    /\ writer[w].step = "create"
    /\ Opened(w, writer[w].id, writer[w].todo)
    /\ UNCHANGED second

\* A project is done: the document is read, the result is to be put into it.  A
\* run whose file is gone reports nothing.
Report(w, p, result) ==
    LET id == writer[w].id IN
    /\ writer[w].step = "work" /\ p \in writer[w].todo
    /\ writer' = [writer EXCEPT ![w].todo = @ \ {p},
           ![w].step = IF runs[id] = None THEN "work" ELSE "write",
           ![w].doc = IF runs[id] = None THEN None ELSE [runs[id] EXCEPT !.projects[p] = result]]
    /\ UNCHANGED <<runs, second>>

\* Nothing is left to do: finish reads the document again.
Finish(w) ==
    LET id == writer[w].id IN
    /\ writer[w].step = "work" /\ writer[w].todo = {}
    /\ writer' = [writer EXCEPT ![w] = IF runs[id] = None THEN NoRun ELSE
           [@ EXCEPT !.step = "close",
                     !.doc = [runs[id] EXCEPT !.finished = TRUE, !.status = StatusOf(runs[id].projects)]]]
    /\ UNCHANGED <<runs, second>>

\* The document replaces the file.  The nightly run ignores a write that failed,
\* a build of the server then leaves finish out.
Write(w) ==
    LET r == writer[w]
        after == IF r.step = "close" THEN NoRun ELSE [r EXCEPT !.step = "work", !.doc = None]
    IN
    /\ r.step \in {"write", "close"}
    /\ \/ /\ runs' = Written(r.id, r.doc)
          /\ writer' = [writer EXCEPT ![w] = after]
       \/ /\ "disk" \in Faults
          /\ writer' = [writer EXCEPT ![w] = IF w = Night THEN after ELSE NoRun]
          /\ UNCHANGED runs
    /\ UNCHANGED second

\* The processes of these writers die.
Dead(ws) ==
    /\ writer' = [w \in Writers |-> IF w \in ws THEN NoRun ELSE writer[w]]
    /\ UNCHANGED <<runs, second>>

NightDies == "kill" \in Faults /\ writer[Night] # NoRun /\ Dead({Night})
ServerDies == "kill" \in Faults /\ Dead(Builders)

NightStarts == Start(Night, Projects)
BuildStarts(b) == \E p \in Projects : Start(b, {p})
Step(w) ==
    \/ Create(w)
    \/ \E p \in Projects, result \in Results : Report(w, p, result)
    \/ Finish(w)
    \/ Write(w)

Next == NightStarts \/ NightDies \/ ServerDies \/ (\E b \in Builders : BuildStarts(b)) \/ (\E w \in Writers : Step(w))
Spec == Init /\ [][Next]_runLogVars

------------------------------------------------------------------------------
\* What a run has told is never unsaid by another run, by rotation or by a late
\* write: a file only gains results, ends once, and is final from then on
\* ("eindeutig machen statt überschreiben", runlog.py:99).
RunsAreFinal ==
    [][\A id \in Ids : runs[id] # None /\ runs'[id] # None =>
          /\ runs[id].finished => runs'[id] = runs[id]
          /\ \A p \in Projects : runs[id].projects[p] # None => runs'[id].projects[p] = runs[id].projects[p]]_runLogVars

(* What makes it inductive without "overlap".                                *)

Active(w) == writer[w].step # "idle"

\* A writer has the only claim to its run: no other writer is at it, and a file
\* that was rotated away is of a second that is over, so its id is not free.
RunsOwned ==
    /\ \A i \in Ids : runs[i] # None => i[1] <= second
    /\ \A w \in Writers : Active(w) =>
          LET i == writer[w].id IN
          /\ writer[w].step # "create" /\ i \in Ids /\ i[1] <= second
          /\ runs[i] = None => i[1] < second
          /\ \A v \in Writers : Active(v) /\ writer[v].id = i => v = w

\* Document new says what document old says, and at most more.
Extends(new, old) == \A p \in Projects : old.projects[p] # None => new.projects[p] = old.projects[p]

\* The run of a writer is open, what is to do has no result, and the document in
\* its hands unsays nothing of the file.
InHand ==
    \A w \in Writers : Active(w) =>
        LET r == writer[w]
            file == runs[r.id]
        IN  /\ file # None => ~file.finished /\ \A p \in r.todo : file.projects[p] = None
            /\ r.step \in {"write", "close"} => r.doc \in Docs /\ (file # None => Extends(r.doc, file))
            /\ r.step = "write" => ~r.doc.finished /\ \A p \in r.todo : r.doc.projects[p] = None

IInv == TypeOK /\ RunsOwned /\ InHand
=============================================================================
