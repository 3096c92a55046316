--------------------------- MODULE Registry_proofs ---------------------------
(* config.yaml, for every number of MCP threads, folders, models and        *)
(* targets, with timeouts, failing writes and crashes: the names stay apart *)
(* and no section is lost, even when edits overlap; when edits of the list  *)
(* do not overlap registrations, the list is one atomic list.               *)
EXTENDS Registry, TLAPS

(* Facts about the data. *)

Sections == {"projects", "model", "target", "archived"}

LEMMA Actor == Loop \in Actors /\ Threads \subseteq Actors /\ Nobody \notin Actors
BY ActorsAssumption DEF Actors, Nobody

LEMMA EditFields ==
    /\ NoEdit \in Edits /\ NoEdit.section = Nothing
    /\ \A x \in Edits :
          /\ x.section \in Sections \cup {Nothing}
          /\ x.section = Nothing => x = NoEdit
          /\ x.section = "projects" => x.value \in SUBSET Entries
          /\ x.section = "model" => x.value \in Models \cup {Nothing}
          /\ x.section = "target" => x.value \in Targets \cup {Nothing}
          /\ x.section = "archived" => x.value \in SUBSET Names
BY DEF Edits, NoEdit, Nothing, Sections

\* Replacing one section by a value of an edit gives a document again.
LEMMA MutatedType ==
    ASSUME NEW d \in Docs, NEW x \in Edits
    PROVE  [d EXCEPT ![x.section] = x.value] \in Docs
<1>1. CASE x.section = "projects"
  BY <1>1, EditFields DEF Docs
<1>2. CASE x.section = "model"
  BY <1>2, EditFields DEF Docs
<1>3. CASE x.section = "target"
  BY <1>3, EditFields DEF Docs
<1>4. CASE x.section = "archived"
  BY <1>4, EditFields DEF Docs
<1>5. CASE x = NoEdit
  BY <1>5 DEF Docs, NoEdit, Nothing
<1> QED BY <1>1, <1>2, <1>3, <1>4, <1>5, EditFields DEF Sections

LEMMA MutatedList ==
    ASSUME NEW d \in Docs, NEW x \in Edits
    PROVE  [d EXCEPT ![x.section] = x.value].projects =
              IF x.section = "projects" THEN x.value ELSE d.projects
BY EditFields DEF Docs, Nothing, Sections

\* The three changes of the list keep names apart.
LEMMA AddedApart ==
    ASSUME NEW S \in SUBSET Entries, NamesApart(S), NEW p \in Paths, ~Taken(S, p)
    PROVE  LET e == [path |-> p, enabled |-> TRUE]
           IN  S \cup {e} \in SUBSET Entries /\ NamesApart(S \cup {e})
<1> DEFINE e == [path |-> p, enabled |-> TRUE]
<1>1. e \in Entries /\ e.path = p
  BY DEF Entries
<1> HIDE DEF e
<1>2. NamesApart(S \cup {e})
  BY <1>1 DEF NamesApart, Taken
<1> QED BY <1>1, <1>2 DEF e

LEMMA ToggledApart ==
    ASSUME NEW S \in SUBSET Entries, NamesApart(S), NEW e \in S
    PROVE  LET T == (S \ {e}) \cup {[e EXCEPT !.enabled = ~@]}
           IN  T \in SUBSET Entries /\ NamesApart(T)
<1> DEFINE f == [e EXCEPT !.enabled = ~@]
<1>1. f \in Entries /\ f.path = e.path
  BY DEF Entries
<1> HIDE DEF f
<1>2. NamesApart((S \ {e}) \cup {f})
  BY <1>1 DEF NamesApart
<1> QED BY <1>1, <1>2 DEF f

(* The invariant. *)

LEMMA InitInv == Init => IInv
<1> SUFFICES ASSUME Init PROVE IInv
  OBVIOUS
<1> USE Actor, EditFields DEF Init
<1>1. TypeOK
  BY DEF TypeOK, Docs, Empty, Nothing
<1>2. LocksHeld
  BY DEF LocksHeld, Saving, Nothing
<1>3. FreshIsCurrent /\ HeldListsApart /\ UniqueNames
  BY DEF FreshIsCurrent, HeldListsApart, UniqueNames, NamesApart, Empty, Nothing
<1> QED BY <1>1, <1>2, <1>3 DEF IInv

LEMMA ReturnType ==
    ASSUME TypeOK, NEW a \in Actors, Return(a)
    PROVE  /\ regLock' \in Threads \cup {Nobody}
           /\ pc' \in [Actors -> {"idle", "register", "handle", "wait", "locked", "write"}]
           /\ seen' \in [Actors -> SUBSET Entries]
           /\ edit' \in [Actors -> Edits]
           /\ fresh' \in [Actors -> Docs]
BY EditFields DEF Return, TypeOK, Docs, Empty, Nothing

\* A call that ends: what it held is gone, what the others hold is as it was.
LEMMA ReturnInv ==
    ASSUME IInv, NEW a \in Actors, Return(a), doc' \in Docs, UniqueNames',
           graphs' = graphs, flock' = IF flock = a THEN Nobody ELSE flock,
           doc' # doc => flock = a
    PROVE  IInv'
<1> USE Actor, EditFields DEF IInv
<1>1. TypeOK'
  BY ReturnType DEF TypeOK
<1>2. LocksHeld'
  BY DEF LocksHeld, Saving, TypeOK, Return, Nothing
<1>3. FreshIsCurrent'
  BY DEF FreshIsCurrent, LocksHeld, TypeOK, Return
<1>4. HeldListsApart'
  BY DEF HeldListsApart, TypeOK, Return, NamesApart, Nothing
<1> QED BY <1>1, <1>2, <1>3, <1>4

\* The caller turns to saving a list whose names are apart, or another section.
LEMMA SavesInv ==
    ASSUME IInv, NEW a \in Actors, NEW s, NEW v, Saves(a, s, v),
           [section |-> s, value |-> v] \in Edits \ {NoEdit},
           s = "projects" => NamesApart(v),
           a \in Threads => s = "projects",
           ~Saving(a), pc[a] # "idle",
           UNCHANGED <<doc, regLock, flock, seen, fresh>>, graphs' \subseteq Names
    PROVE  IInv'
<1> USE Actor, EditFields DEF IInv
<1>1. TypeOK'
  BY DEF TypeOK, Saves
<1>2. LocksHeld'
  BY DEF LocksHeld, Saving, TypeOK, Saves
<1>3. FreshIsCurrent'
  BY DEF FreshIsCurrent, TypeOK, Saves
<1>4. HeldListsApart'
  BY DEF HeldListsApart, TypeOK, Saves
<1>5. UniqueNames'
  BY DEF UniqueNames
<1> QED BY <1>1, <1>2, <1>3, <1>4, <1>5

LEMMA LockInv == ASSUME IInv, NEW a \in Actors, Lock(a) PROVE IInv'
<1> USE Actor DEF IInv, Lock
<1>1. TypeOK'
  BY DEF TypeOK
<1>2. LocksHeld'
  BY DEF LocksHeld, Saving, TypeOK
<1>3. FreshIsCurrent' /\ HeldListsApart' /\ UniqueNames'
  BY DEF FreshIsCurrent, HeldListsApart, UniqueNames, TypeOK
<1> QED BY <1>1, <1>2, <1>3

LEMMA ReadInv == ASSUME IInv, NEW a \in Actors, Read(a) PROVE IInv'
<1> USE Actor DEF IInv, Read
<1>1. TypeOK'
  BY DEF TypeOK
<1>2. LocksHeld'
  BY DEF LocksHeld, Saving, TypeOK
<1>3. FreshIsCurrent' /\ HeldListsApart' /\ UniqueNames'
  BY DEF FreshIsCurrent, HeldListsApart, UniqueNames, TypeOK
<1> QED BY <1>1, <1>2, <1>3

\* The file gets the fresh document with the one section replaced.
LEMMA WriteEffect ==
    ASSUME IInv, NEW a \in Actors, Write(a)
    PROVE  /\ flock = a /\ doc' \in Docs
           /\ doc' = [doc EXCEPT ![edit[a].section] = edit[a].value]
           /\ doc'.projects = IF edit[a].section = "projects" THEN edit[a].value
                                                              ELSE doc.projects
<1> USE DEF IInv, Write
<1>1. fresh[a] = doc /\ edit[a] \in Edits /\ doc \in Docs
  BY DEF FreshIsCurrent, TypeOK
<1>2. doc' = [doc EXCEPT ![edit[a].section] = edit[a].value]
  BY <1>1 DEF Mutated
<1>3. flock = a
  BY DEF LocksHeld
<1>4. [doc EXCEPT ![edit[a].section] = edit[a].value] \in Docs
  BY <1>1, MutatedType
<1>5. [doc EXCEPT ![edit[a].section] = edit[a].value].projects =
         IF edit[a].section = "projects" THEN edit[a].value ELSE doc.projects
  BY <1>1, MutatedList
<1> QED BY <1>2, <1>3, <1>4, <1>5

LEMMA WriteInv == ASSUME IInv, NEW a \in Actors, Write(a) PROVE IInv'
<1>1. UniqueNames'
  BY WriteEffect DEF UniqueNames, HeldListsApart, IInv
<1> QED BY <1>1, WriteEffect, ReturnInv DEF Write, Unlock

LEMMA EndsInv ==
    ASSUME IInv, NEW a \in Actors, WriteFails(a) \/ LockTimeout(a)
    PROVE  IInv'
<1> USE DEF IInv
<1>1. doc' = doc /\ doc' \in Docs /\ UniqueNames'
  BY DEF WriteFails, LockTimeout, TypeOK, UniqueNames
<1>2. CASE WriteFails(a)
  BY <1>1, <1>2, ReturnInv DEF WriteFails, Unlock, LocksHeld
<1>3. CASE LockTimeout(a)
  BY <1>1, <1>3, ReturnInv DEF LockTimeout, LocksHeld
<1> QED BY <1>2, <1>3

LEMMA UpdateInv == ASSUME IInv, NEW a \in Actors, Update(a) PROVE IInv'
BY LockInv, ReadInv, WriteInv, EndsInv DEF Update

LEMMA RegisterStartInv == ASSUME IInv, NEW t \in Threads, RegisterStart(t) PROVE IInv'
<1> USE Actor, ActorsAssumption DEF IInv, RegisterStart
<1>1. TypeOK'
  BY DEF TypeOK, Docs
<1>2. LocksHeld'
  BY DEF LocksHeld, Saving, TypeOK
<1>3. FreshIsCurrent' /\ HeldListsApart' /\ UniqueNames'
  BY DEF FreshIsCurrent, HeldListsApart, UniqueNames, TypeOK
<1> QED BY <1>1, <1>2, <1>3

LEMMA RegisterInv ==
    ASSUME IInv, NEW t \in Threads, NEW p \in Paths, Register(t, p)
    PROVE  IInv'
<1> USE Actor DEF IInv
<1>1. CASE Return(t) /\ Taken(seen[t], p)
  BY <1>1, ReturnInv DEF Register, TypeOK, UniqueNames, LocksHeld
<1>2. CASE ~Taken(seen[t], p)
  <2> DEFINE v == seen[t] \cup {[path |-> p, enabled |-> TRUE]}
  <2>1. v \in SUBSET Entries /\ NamesApart(v)
    BY <1>2, AddedApart DEF TypeOK, HeldListsApart
  <2>2. [section |-> "projects", value |-> v] \in Edits \ {NoEdit}
    BY <2>1 DEF Edits, NoEdit, Nothing
  <2> QED BY <1>2, <2>1, <2>2, SavesInv DEF Register, Saving, TypeOK
<1> QED BY <1>1, <1>2 DEF Register

LEMMA WebStartInv == ASSUME IInv, WebStart PROVE IInv'
<1> USE Actor, ActorsAssumption DEF IInv, WebStart
<1>1. TypeOK'
  BY DEF TypeOK, Docs
<1>2. LocksHeld'
  BY DEF LocksHeld, Saving, TypeOK
<1>3. FreshIsCurrent' /\ HeldListsApart' /\ UniqueNames'
  BY DEF FreshIsCurrent, HeldListsApart, UniqueNames, TypeOK
<1> QED BY <1>1, <1>2, <1>3

LEMMA WebSavesInv ==
    ASSUME IInv, NEW op, NEW s, NEW v, WebSaves(op, s, v),
           [section |-> s, value |-> v] \in Edits \ {NoEdit},
           s = "projects" => NamesApart(v), graphs' \subseteq Names
    PROVE  IInv'
BY Actor, ActorsAssumption, SavesInv DEF WebSaves, Saving, IInv, TypeOK

LEMMA WebListInv ==
    ASSUME IInv, (\E p \in Paths : Add(p)) \/ \E e \in seen[Loop] : Toggle(e) \/ Remove(e)
    PROVE  IInv'
<1> USE Actor
<1> DEFINE S == seen[Loop]
           Ed(v) == [section |-> "projects", value |-> v]
<1>0. S \in SUBSET Entries /\ NamesApart(S) /\ graphs \subseteq Names
  BY DEF IInv, TypeOK, HeldListsApart
<1>1. \A v \in SUBSET Entries : Ed(v) \in Edits \ {NoEdit}
  BY DEF Edits, NoEdit, Nothing
<1>2. ASSUME NEW p \in Paths, Add(p) PROVE IInv'
  <2> DEFINE v == S \cup {[path |-> p, enabled |-> TRUE]}
  <2>1. v \in SUBSET Entries /\ NamesApart(v)
    BY <1>0, <1>2, AddedApart DEF Add
  <2>2. WebSaves("add", "projects", v) /\ graphs' \subseteq Names
    BY <1>0, <1>2 DEF Add
  <2> HIDE DEF v
  <2> QED BY <1>1, <2>1, <2>2, WebSavesInv
<1>3. ASSUME NEW e \in S, Toggle(e) PROVE IInv'
  <2> DEFINE v == (S \ {e}) \cup {[e EXCEPT !.enabled = ~@]}
  <2>1. v \in SUBSET Entries /\ NamesApart(v)
    BY <1>0, ToggledApart
  <2>2. WebSaves("toggle", "projects", v) /\ graphs' \subseteq Names
    BY <1>0, <1>3 DEF Toggle
  <2> HIDE DEF v
  <2> QED BY <1>1, <2>1, <2>2, WebSavesInv
<1>4. ASSUME NEW e \in S, Remove(e) PROVE IInv'
  <2> DEFINE v == S \ {e}
  <2>1. v \in SUBSET Entries /\ NamesApart(v)
    BY <1>0 DEF NamesApart
  <2>2. WebSaves("remove", "projects", v) /\ graphs' \subseteq Names
    BY <1>0, <1>4 DEF Remove
  <2> HIDE DEF v
  <2> QED BY <1>1, <2>1, <2>2, WebSavesInv
<1> QED BY <1>2, <1>3, <1>4

\* The handlers of the other sections.
LEMMA WebOtherInv ==
    ASSUME IInv, \/ \E m \in Models : MappingConfig(m)
                 \/ \E g \in Targets \cup {Nothing} : BackupTarget(g)
                 \/ \E n \in Names : ArchiveGraph(n) \/ RemoveGraph(n)
    PROVE  IInv'
<1>0. graphs \subseteq Names /\ doc.archived \subseteq Names
  BY DEF IInv, TypeOK, Docs
<1>1. ASSUME NEW m \in Models, MappingConfig(m) PROVE IInv'
  <2>1. [section |-> "model", value |-> m] \in Edits \ {NoEdit}
    BY DEF Edits, NoEdit, Nothing
  <2> QED BY <1>0, <1>1, <2>1, WebSavesInv DEF MappingConfig
<1>2. ASSUME NEW g \in Targets \cup {Nothing}, BackupTarget(g) PROVE IInv'
  <2>1. [section |-> "target", value |-> g] \in Edits \ {NoEdit}
    BY DEF Edits, NoEdit, Nothing
  <2> QED BY <1>0, <1>2, <2>1, WebSavesInv DEF BackupTarget
<1>3. ASSUME NEW n \in Names, ArchiveGraph(n) \/ RemoveGraph(n) PROVE IInv'
  <2>1. PICK v \in SUBSET Names : WebSaves("archive", "archived", v) /\ graphs' \subseteq Names
    BY <1>0, <1>3 DEF ArchiveGraph, RemoveGraph
  <2>2. [section |-> "archived", value |-> v] \in Edits \ {NoEdit}
    BY DEF Edits, NoEdit, Nothing
  <2> QED BY <2>1, <2>2, WebSavesInv
<1> QED BY <1>1, <1>2, <1>3

LEMMA RefuseInv == ASSUME IInv, Refuse PROVE IInv'
BY Actor, ReturnInv DEF IInv, Refuse, TypeOK, UniqueNames, LocksHeld

LEMMA OutsideInv == ASSUME IInv, Crash \/ \E n \in Names : Built(n) PROVE IInv'
<1> USE Actor, EditFields DEF IInv
<1>1. CASE Crash
  <2>1. TypeOK'
    BY <1>1 DEF Crash, TypeOK, Docs, Empty, Nothing
  <2>2. LocksHeld'
    BY <1>1 DEF Crash, LocksHeld, Saving, Nothing
  <2>3. FreshIsCurrent' /\ HeldListsApart' /\ UniqueNames'
    BY <1>1 DEF Crash, FreshIsCurrent, HeldListsApart, UniqueNames, NamesApart, Nothing
  <2> QED BY <2>1, <2>2, <2>3
<1>2. ASSUME NEW n \in Names, Built(n) PROVE IInv'
  BY <1>2 DEF Built, TypeOK, LocksHeld, Saving, FreshIsCurrent, HeldListsApart, UniqueNames
<1> QED BY <1>1, <1>2

LEMMA NextInv == IInv /\ [Next]_vars => IInv'
<1> SUFFICES ASSUME IInv, [Next]_vars PROVE IInv'
  OBVIOUS
<1>1. CASE UNCHANGED vars
  BY <1>1 DEF vars, IInv, TypeOK, LocksHeld, Saving, FreshIsCurrent, HeldListsApart, UniqueNames
<1>2. CASE Web
  BY <1>2, WebListInv, WebOtherInv, RefuseInv DEF Web
<1> QED BY <1>1, <1>2, Actor, UpdateInv, RegisterStartInv, RegisterInv, WebStartInv, OutsideInv
           DEF Next, Proceed

\* The types of the file, the locks and what every actor holds.
THEOREM TypeCorrect == Spec => []TypeOK
<1>1. IInv => TypeOK
  BY DEF IInv
<1> QED BY <1>1, InitInv, NextInv, PTL DEF Spec

\* No folder name is registered twice, whether or not edits overlap.
THEOREM NamesStayApart == Spec => []UniqueNames
<1>1. IInv => UniqueNames
  BY DEF IInv
<1> QED BY <1>1, InitInv, NextInv, PTL DEF Spec

LEMMA OnlyWriteChanges ==
    ASSUME IInv, Next, doc' # doc
    PROVE  \E a \in Actors : Write(a)
BY Actor DEF Next, Update, Proceed, RegisterStart, Lock, Read, WriteFails, LockTimeout,
   Register, WebStart, Web, Add, Toggle, Remove, MappingConfig, BackupTarget,
   ArchiveGraph, RemoveGraph, WebSaves, Refuse, Built, Crash

\* A writer of one section never takes back what another wrote to the others.
THEOREM NoSectionIsLost == Spec => OneSectionAWrite
<1>1. IInv /\ [Next]_vars =>
        [doc' # doc => \E a \in Actors :
           pc[a] = "write" /\ doc' = [doc EXCEPT ![edit[a].section] = edit[a].value]]_vars
  <2> SUFFICES ASSUME IInv, Next, doc' # doc
               PROVE  \E a \in Actors : /\ pc[a] = "write"
                                        /\ doc' = [doc EXCEPT ![edit[a].section] = edit[a].value]
    BY DEF vars
  <2>1. PICK a \in Actors : Write(a)
    BY OnlyWriteChanges
  <2> QED BY <2>1, WriteEffect DEF Write
<1> QED BY <1>1, InitInv, NextInv, PTL DEF Spec, OneSectionAWrite

(* The list as one atomic list, when edits do not overlap registrations.    *)

\* Everyone else is idle or busy with another section.
LEMMA AloneWithTheList ==
    ASSUME IInv, ListInHand, NEW a \in Actors, edit[a].section = "projects",
           NEW b \in Actors \ {a}
    PROVE  edit[b].section # "projects" /\ pc[b] # "register"
<1> USE Actor, EditFields DEF IInv, LocksHeld, Saving, TypeOK, ListInHand, Actors, Nothing
<1>1. CASE a = Loop
  BY <1>1
<1>2. CASE a \in Threads
  BY <1>2
<1> QED BY <1>1, <1>2

LEMMA WriteInHand ==
    ASSUME IInv, ListInHand, NEW a \in Actors, Write(a)
    PROVE  ListInHand'
<1> USE Actor, EditFields
<1>1. /\ edit' = [edit EXCEPT ![a] = NoEdit] /\ pc' = [pc EXCEPT ![a] = "idle"]
      /\ seen' = [seen EXCEPT ![a] = {}] /\ regLock' \in {regLock, Nobody}
      /\ edit \in [Actors -> Edits] /\ pc \in [Actors -> {"idle", "register", "handle", "wait", "locked", "write"}]
      /\ seen \in [Actors -> SUBSET Entries]
  BY DEF Write, Return, IInv, TypeOK
<1>2. CASE edit[a].section # "projects"
  <2>1. doc'.projects = doc.projects
    BY <1>2, WriteEffect
  <2> QED BY <1>1, <2>1 DEF ListInHand, Nothing
<1>3. CASE edit[a].section = "projects"
  <2>1. \A b \in Actors : edit'[b].section # "projects" /\ pc'[b] # "register"
    BY <1>1, <1>3, AloneWithTheList DEF Nothing
  <2> QED BY <2>1 DEF ListInHand
<1> QED BY <1>2, <1>3

\* A call that ends without a change of the file.
LEMMA ReturnInHand ==
    ASSUME IInv, ListInHand, NEW a \in Actors, Return(a), doc' = doc
    PROVE  ListInHand'
BY Actor, EditFields DEF IInv, TypeOK, Return, ListInHand, Nothing

LEMMA UpdateInHand ==
    ASSUME IInv, ListInHand, NEW a \in Actors, Update(a)
    PROVE  ListInHand'
<1>1. CASE Lock(a) \/ Read(a)
  BY <1>1, Actor DEF Lock, Read, IInv, TypeOK, ListInHand
<1>2. CASE WriteFails(a) \/ LockTimeout(a)
  BY <1>2, ReturnInHand DEF WriteFails, LockTimeout
<1> QED BY <1>1, <1>2, WriteInHand DEF Update

LEMMA RegisterInHand ==
    ASSUME IInv, ListInHand, NEW t \in Threads, NEW p \in Paths, Register(t, p)
    PROVE  ListInHand'
<1> USE Actor, EditFields
<1>1. CASE Return(t)
  BY <1>1, ReturnInHand DEF Register
<1>2. CASE ~Taken(seen[t], p) /\ ~Return(t)
  <2> DEFINE v == seen[t] \cup {[path |-> p, enabled |-> TRUE]}
  <2>1. /\ edit' = [edit EXCEPT ![t] = [section |-> "projects", value |-> v]]
        /\ pc' = [pc EXCEPT ![t] = "wait"]
        /\ UNCHANGED <<doc, regLock, seen>>
    BY <1>2 DEF Register, Saves
  <2>2. OneChange(doc.projects, v)
    BY <1>2 DEF OneChange, Register, ListInHand
  <2>3. t # Loop /\ regLock = t
    BY ActorsAssumption DEF IInv, LocksHeld, Register
  <2> HIDE DEF v
  <2> QED BY <2>1, <2>2, <2>3 DEF ListInHand, IInv, TypeOK
<1> QED BY <1>1, <1>2 DEF Register

LEMMA WebInHand ==
    ASSUME ~Overlap, IInv, ListInHand, Web
    PROVE  ListInHand'
<1> USE Actor
<1>0. /\ edit \in [Actors -> Edits] /\ seen \in [Actors -> SUBSET Entries]
      /\ pc \in [Actors -> {"idle", "register", "handle", "wait", "locked", "write"}]
  BY DEF IInv, TypeOK
<1>1. ASSUME NEW op, NEW s, NEW v, WebSaves(op, s, v),
             s = "projects" => regLock = Nobody /\ OneChange(doc.projects, v)
      PROVE  ListInHand'
  <2>1. /\ edit' = [edit EXCEPT ![Loop] = [section |-> s, value |-> v]]
        /\ pc' = [pc EXCEPT ![Loop] = "wait"] /\ UNCHANGED <<doc, regLock, seen>>
    BY <1>1 DEF WebSaves, Saves
  <2> QED BY <1>0, <1>1, <2>1 DEF ListInHand
<1>2. ASSUME NEW p \in Paths, Add(p) PROVE ListInHand'
  <2>1. regLock = Nobody /\ OneChange(doc.projects, seen[Loop] \cup {[path |-> p, enabled |-> TRUE]})
    BY <1>2 DEF Add, MayEdit, OneChange
  <2> QED BY <1>1, <1>2, <2>1 DEF Add
<1>3. ASSUME NEW e \in seen[Loop], Toggle(e) PROVE ListInHand'
  <2>1. regLock = Nobody /\ OneChange(doc.projects, (seen[Loop] \ {e}) \cup {[e EXCEPT !.enabled = ~@]})
    BY <1>3 DEF Toggle, MayEdit, OneChange
  <2> QED BY <1>1, <1>3, <2>1 DEF Toggle
<1>4. ASSUME NEW e \in seen[Loop], Remove(e) PROVE ListInHand'
  <2>1. regLock = Nobody /\ OneChange(doc.projects, seen[Loop] \ {e})
    BY <1>4 DEF Remove, MayEdit, OneChange
  <2> QED BY <1>1, <1>4, <2>1 DEF Remove
<1>5. CASE \/ \E m \in Models : MappingConfig(m)
           \/ \E g \in Targets \cup {Nothing} : BackupTarget(g)
           \/ \E n \in Names : ArchiveGraph(n) \/ RemoveGraph(n)
  BY <1>1, <1>5 DEF MappingConfig, BackupTarget, ArchiveGraph, RemoveGraph
<1>6. CASE Refuse
  BY <1>6, ReturnInHand DEF Refuse
<1> QED BY <1>2, <1>3, <1>4, <1>5, <1>6 DEF Web

LEMMA StartsInHand ==
    ASSUME ~Overlap, IInv, ListInHand,
           WebStart \/ Crash \/ (\E t \in Threads : RegisterStart(t)) \/ (\E n \in Names : Built(n))
    PROVE  ListInHand'
<1> USE Actor, EditFields DEF IInv, TypeOK, ListInHand
<1>1. CASE WebStart
  BY <1>1, ActorsAssumption DEF WebStart
<1>2. CASE Crash
  BY <1>2 DEF Crash, Nothing
<1>3. ASSUME NEW t \in Threads, RegisterStart(t) PROVE ListInHand'
  BY <1>3 DEF RegisterStart
<1>4. ASSUME NEW n \in Names, Built(n) PROVE ListInHand'
  BY <1>4 DEF Built
<1> QED BY <1>1, <1>2, <1>3, <1>4

LEMMA NextInHand == ~Overlap /\ IInv /\ ListInHand /\ [Next]_vars => ListInHand'
<1> SUFFICES ASSUME ~Overlap, IInv, ListInHand, [Next]_vars PROVE ListInHand'
  OBVIOUS
<1>1. CASE UNCHANGED vars
  BY <1>1 DEF vars, ListInHand
<1> QED BY <1>1, Actor, UpdateInHand, RegisterInHand, WebInHand, StartsInHand DEF Next, Proceed

LEMMA ListStep == IInv /\ ListInHand /\ [Next]_vars => [List!Next]_(doc.projects)
<1> SUFFICES ASSUME IInv, ListInHand, Next, doc'.projects # doc.projects PROVE List!Next
  BY DEF vars
<1>1. PICK a \in Actors : Write(a)
  BY OnlyWriteChanges
<1>2. edit[a].section = "projects" /\ doc'.projects = edit[a].value
  BY <1>1, WriteEffect
<1>3. OneChange(doc.projects, doc'.projects)
  BY <1>2 DEF ListInHand
<1> QED BY <1>3 DEF OneChange, Taken, List!Next, List!Register, List!Taken, List!Toggle, List!Remove

\* The project list is one list that registrations, toggles and removals change
\* one at a time: no registration is lost, no entry changed by two at once.
THEOREM ListIsAtomic ==
    ASSUME ~Overlap
    PROVE  Spec => ImplementsProjectList
<1>1. Init => List!Init /\ ListInHand
  BY Actor DEF Init, List!Init, Empty, ListInHand, NoEdit, Nothing
<1>2. IInv /\ ListInHand /\ [Next]_vars => ListInHand'
  BY NextInHand
<1> QED BY <1>1, <1>2, InitInv, NextInv, ListStep, PTL DEF Spec, ImplementsProjectList, List!Spec
==============================================================================
