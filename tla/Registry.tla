------------------------------ MODULE Registry ------------------------------
(***************************************************************************)
(* config.yaml, the one file in which the hub keeps its project list, the  *)
(* mapping backend, the backup targets and the archived graphs.            *)
(*                                                                         *)
(* MCP tools run in worker threads and register projects; the handlers of  *)
(* the web interface run one after the other on the event loop and edit    *)
(* every section.  Each of them computes the new value of its section from *)
(* a first read of the file and hands it to _update_yaml, which reads the  *)
(* file again under its lock, replaces the section and writes it all back. *)
(***************************************************************************)
EXTENDS Naturals, FiniteSets

CONSTANTS
    Threads,      \* MCP worker threads
    Loop,         \* the event loop: one actor, because no handler awaits in between
    WebOps,       \* which edits the web interface is used for
    Paths, Base,  \* folders, and the name that keys a folder in the hub
    Models,       \* mapping backends one can choose
    Targets,      \* git backup targets one can choose
    Overlap,      \* do edits of the list overlap registrations by MCP threads
    Faults        \* subset of {"timeout", "disk", "crash"}

ASSUME FaultsAssumption == Faults \subseteq {"timeout", "disk", "crash"}
ASSUME OverlapAssumption == Overlap \in BOOLEAN
ASSUME ActorsAssumption == Loop \notin Threads /\ "nobody" \notin Threads \cup {Loop}

Actors   == Threads \cup {Loop}
Names    == {Base[p] : p \in Paths}
Entries  == [path : Paths, enabled : BOOLEAN]
Nobody   == "nobody"
Nothing  == "nothing"

VARIABLES
    doc,          \* config.yaml on disk, section by section
    graphs,       \* names of the graphs in the hub (KNOWLEDGE_ROOT)
    regLock,      \* _projekt_lock: the thread inside _register_project
    flock,        \* config.yaml.lock: the actor inside _update_yaml
    pc,           \* where an actor is
    seen,         \* what its first read of the file returned
    edit,         \* the section it saves and the new value
    fresh         \* what _update_yaml read under the lock

vars == <<doc, graphs, regLock, flock, pc, seen, edit, fresh>>

Docs == [projects : SUBSET Entries, model : Models \cup {Nothing},
         target : Targets \cup {Nothing}, archived : SUBSET Names]

Empty  == [projects |-> {}, model |-> Nothing, target |-> Nothing, archived |-> {}]
NoEdit == [section |-> Nothing, value |-> Nothing]

\* A section and a value it may take.
Edits == {NoEdit} \cup [section : {"projects"}, value : SUBSET Entries]
            \cup [section : {"model"}, value : Models \cup {Nothing}]
            \cup [section : {"target"}, value : Targets \cup {Nothing}]
            \cup [section : {"archived"}, value : SUBSET Names]

Init ==
    /\ doc = Empty /\ graphs = {}
    /\ regLock = Nobody /\ flock = Nobody
    /\ pc = [a \in Actors |-> "idle"]
    /\ seen = [a \in Actors |-> {}]
    /\ edit = [a \in Actors |-> NoEdit]
    /\ fresh = [a \in Actors |-> Empty]

-----------------------------------------------------------------------------
(* _update_yaml: the lock file, a fresh read, the atomic replacement.      *)

\* The caller goes on to save value v in section s.
Saves(a, s, v) ==
    /\ pc' = [pc EXCEPT ![a] = "wait"]
    /\ edit' = [edit EXCEPT ![a] = [section |-> s, value |-> v]]

\* The call returns, or ends with an exception: a thread leaves _projekt_lock.
Return(a) ==
    /\ pc' = [pc EXCEPT ![a] = "idle"]
    /\ regLock' = IF regLock = a THEN Nobody ELSE regLock
    /\ seen' = [seen EXCEPT ![a] = {}]
    /\ edit' = [edit EXCEPT ![a] = NoEdit]
    /\ fresh' = [fresh EXCEPT ![a] = Empty]

\* _config_lock ends, whatever happened inside (finally).
Unlock == flock' = Nobody

Lock(a) ==
    /\ pc[a] = "wait" /\ flock = Nobody
    /\ flock' = a
    /\ pc' = [pc EXCEPT ![a] = "locked"]
    /\ UNCHANGED <<doc, graphs, regLock, seen, edit, fresh>>

Read(a) ==
    /\ pc[a] = "locked"
    /\ fresh' = [fresh EXCEPT ![a] = doc]
    /\ pc' = [pc EXCEPT ![a] = "write"]
    /\ UNCHANGED <<doc, graphs, regLock, flock, seen, edit>>

\* mutate: the section is replaced, the rest of the document is what was read.
Mutated(a) == [fresh[a] EXCEPT ![edit[a].section] = edit[a].value]

\* temp file, fsync, os.replace: other readers see the old file or the new one.
Write(a) ==
    /\ pc[a] = "write"
    /\ doc' = Mutated(a)
    /\ Unlock /\ Return(a)
    /\ UNCHANGED graphs

\* MUTANT: a failed write leaves the lock file locked.
WriteFails_KeepsLock(a) ==
    /\ "disk" \in Faults
    /\ pc[a] = "write"
    /\ Return(a)
    /\ UNCHANGED <<doc, graphs, flock>>

\* The disk is full: the temporary file goes, the old file stays.
WriteFails(a) ==
    /\ "disk" \in Faults
    /\ pc[a] = "write"
    /\ Unlock /\ Return(a)
    /\ UNCHANGED <<doc, graphs>>

\* Ten seconds without the lock: TimeoutError.
LockTimeout(a) ==
    /\ "timeout" \in Faults
    /\ pc[a] = "wait" /\ flock # Nobody
    /\ Return(a)
    /\ UNCHANGED <<doc, graphs, flock>>

-----------------------------------------------------------------------------
(* _register_project, called by the MCP tools note_save and project_create. *)

\* MUTANT: the check looks for the same path only, not for the same folder name.
Taken_SamePath(entries, p) == \E e \in entries : e.path = p

Taken(entries, p) == \E e \in entries : Base[e.path] = Base[p]

\* MUTANT: two threads may be inside _register_project.
RegisterStart_Open(t) ==
    /\ pc[t] = "idle" /\ (Overlap \/ edit[Loop].section # "projects")
    /\ regLock' = t
    /\ seen' = [seen EXCEPT ![t] = doc.projects]
    /\ pc' = [pc EXCEPT ![t] = "register"]
    /\ UNCHANGED <<doc, graphs, flock, edit, fresh>>

RegisterStart(t) ==
    /\ pc[t] = "idle" /\ regLock = Nobody
    /\ Overlap \/ edit[Loop].section # "projects"
    /\ regLock' = t
    /\ seen' = [seen EXCEPT ![t] = doc.projects]
    /\ pc' = [pc EXCEPT ![t] = "register"]
    /\ UNCHANGED <<doc, graphs, flock, edit, fresh>>

\* Already there (False) or another folder of that name (ValueError): no write.
Register(t, p) ==
    /\ pc[t] = "register"
    /\ IF Taken(seen[t], p)
       THEN Return(t)
       ELSE /\ Saves(t, "projects", seen[t] \cup {[path |-> p, enabled |-> TRUE]})
            /\ UNCHANGED <<regLock, seen, fresh>>
    /\ UNCHANGED <<doc, graphs, flock>>

-----------------------------------------------------------------------------
(* The handlers of the web interface, on the event loop.                   *)

\* Every handler first reads the file without any lock.
WebStart ==
    /\ pc[Loop] = "idle"
    /\ seen' = [seen EXCEPT ![Loop] = doc.projects]
    /\ pc' = [pc EXCEPT ![Loop] = "handle"]
    /\ UNCHANGED <<doc, graphs, regLock, flock, edit, fresh>>

\* The handler answers with an error and has changed nothing.
Refuse ==
    /\ pc[Loop] = "handle"
    /\ Return(Loop)
    /\ UNCHANGED <<doc, graphs, flock>>

WebSaves(op, s, v) ==
    /\ op \in WebOps
    /\ pc[Loop] = "handle"
    /\ Saves(Loop, s, v)
    /\ UNCHANGED <<doc, regLock, flock, seen, fresh>>

\* Without Overlap the list is what the handler read, and no thread is changing it.
MayEdit == Overlap \/ (regLock = Nobody /\ seen[Loop] = doc.projects)

Add(p) ==
    /\ MayEdit
    /\ ~Taken(seen[Loop], p)
    /\ WebSaves("add", "projects", seen[Loop] \cup {[path |-> p, enabled |-> TRUE]})
    /\ UNCHANGED graphs

Toggle(e) ==
    /\ MayEdit
    /\ WebSaves("toggle", "projects", (seen[Loop] \ {e}) \cup {[e EXCEPT !.enabled = ~@]})
    /\ UNCHANGED graphs

\* The graph is purged first, under the project's lock; the list is saved after it.
Remove(e) ==
    /\ MayEdit
    /\ WebSaves("remove", "projects", seen[Loop] \ {e})
    /\ graphs' = graphs \ {Base[e.path]}

MappingConfig(m) == WebSaves("mapping", "model", m) /\ UNCHANGED graphs

\* backup_target_save and backup_target_delete: there is one git target at most.
BackupTarget(g) == WebSaves("backup", "target", g) /\ UNCHANGED graphs

Registered == {Base[e.path] : e \in seen[Loop]}

\* Only the event loop saves this section, so doc is what the handler read.
ArchiveGraph(n) ==
    /\ n \in graphs \ (Registered \cup doc.archived)
    /\ WebSaves("archive", "archived", doc.archived \cup {n})
    /\ UNCHANGED graphs

RemoveGraph(n) ==
    /\ n \in graphs \ Registered
    /\ WebSaves("archive", "archived", doc.archived \ {n})
    /\ graphs' = graphs \ {n}

Web == \/ \E p \in Paths : Add(p)
       \/ \E e \in seen[Loop] : Toggle(e) \/ Remove(e)
       \/ \E m \in Models : MappingConfig(m)
       \/ \E g \in Targets \cup {Nothing} : BackupTarget(g)
       \/ \E n \in Names : ArchiveGraph(n) \/ RemoveGraph(n)
       \/ Refuse

-----------------------------------------------------------------------------
(* The surroundings.                                                       *)

\* A build publishes the graph of some folder in the hub.
Built(n) ==
    /\ n \notin graphs
    /\ graphs' = graphs \cup {n}
    /\ UNCHANGED <<doc, regLock, flock, pc, seen, edit, fresh>>

\* The hub dies and starts again: locks and calls go, the file stays.
Crash ==
    /\ "crash" \in Faults
    /\ \E a \in Actors : pc[a] # "idle"
    /\ regLock' = Nobody /\ flock' = Nobody
    /\ pc' = [a \in Actors |-> "idle"]
    /\ seen' = [a \in Actors |-> {}]
    /\ edit' = [a \in Actors |-> NoEdit]
    /\ fresh' = [a \in Actors |-> Empty]
    /\ UNCHANGED <<doc, graphs>>

Update(a) == Lock(a) \/ Read(a) \/ Write(a) \/ WriteFails(a) \/ LockTimeout(a)
Proceed(t) == Update(t) \/ \E p \in Paths : Register(t, p)

Next ==
    \/ \E t \in Threads : RegisterStart(t) \/ Proceed(t)
    \/ WebOps # {} /\ (WebStart \/ Web)
    \/ Update(Loop)
    \/ \E n \in Names : Built(n)
    \/ Crash

Spec == Init /\ [][Next]_vars

\* A call that has begun goes on.  It waits only for the lock file, and for that
\* ten seconds at most ("timeout" \in Faults): weak fairness is enough.
FairSpec ==
    /\ Spec
    /\ \A t \in Threads : WF_vars(Proceed(t))
    /\ WF_vars(Update(Loop) \/ Web)

-----------------------------------------------------------------------------
TypeOK ==
    /\ doc \in Docs
    /\ graphs \subseteq Names
    /\ regLock \in Threads \cup {Nobody}
    /\ flock \in Actors \cup {Nobody}
    /\ pc \in [Actors -> {"idle", "register", "handle", "wait", "locked", "write"}]
    /\ seen \in [Actors -> SUBSET Entries]
    /\ edit \in [Actors -> Edits]
    /\ fresh \in [Actors -> Docs]

\* Whatever order the writers come in, no folder name is registered twice: every
\* writer checks the very list it then saves (_register_project, mapping_project_add).
NamesApart(entries) == \A e, f \in entries : Base[e.path] = Base[f.path] => e = f
UniqueNames == NamesApart(doc.projects)

List == INSTANCE ProjectList WITH entries <- doc.projects

\* The project list changes by one registration, toggle or removal at a time;
\* in particular no registration is lost (_register_project under _projekt_lock).
ImplementsProjectList == List!Spec

\* Neither lock outlives the call that took it, whether the write succeeds, fails
\* or the lock of the file is not granted in time: both are free again and again.
LocksReleased == []<>(flock = Nobody) /\ []<>(regLock = Nobody)

\* Whoever saves a section leaves the others as they are in the file at that
\* moment, not as they were when its handler began (_update_yaml: fresh read).
OneSectionAWrite ==
    [][doc' # doc => \E a \in Actors :
          pc[a] = "write" /\ doc' = [doc EXCEPT ![edit[a].section] = edit[a].value]]_vars

(* The inductive invariant. *)

Saving(a) == pc[a] \in {"wait", "locked", "write"}

\* Who is inside the file lock, and who inside _projekt_lock; who saves has said
\* which section.
LocksHeld == /\ \A a \in Actors : pc[a] \in {"locked", "write"} <=> flock = a
             /\ \A t \in Threads : pc[t] # "idle" => regLock = t
             /\ \A a \in Actors : Saving(a) <=> edit[a] # NoEdit
             /\ \A t \in Threads : pc[t] # "handle" /\ edit[t].section \in {Nothing, "projects"}
             /\ pc[Loop] # "register"

\* Nobody writes config.yaml between the fresh read and the replacement.
FreshIsCurrent == \A a \in Actors : pc[a] = "write" => fresh[a] = doc

\* Every list an actor holds keeps the names apart, whether it is still current
\* or not: what is added to it was checked against that very list.
HeldListsApart ==
    \A a \in Actors : /\ NamesApart(seen[a])
                      /\ edit[a].section = "projects" => NamesApart(edit[a].value)

IInv == TypeOK /\ LocksHeld /\ FreshIsCurrent /\ HeldListsApart /\ UniqueNames

\* The change of one operation: what the next list may be.
OneChange(old, new) ==
    \/ \E p \in Paths : ~Taken(old, p) /\ new = old \cup {[path |-> p, enabled |-> TRUE]}
    \/ \E e \in old : \/ new = (old \ {e}) \cup {[e EXCEPT !.enabled = ~@]}
                      \/ new = old \ {e}

\* Without Overlap whoever is about to replace the list alone has it in hand.
ListInHand ==
    /\ edit[Loop].section = "projects" => regLock = Nobody
    /\ \A t \in Threads : pc[t] = "register" => seen[t] = doc.projects
    /\ \A a \in Actors : edit[a].section = "projects" => OneChange(doc.projects, edit[a].value)

=============================================================================
