---------------------------- MODULE ProjectList ----------------------------
(***************************************************************************)
(* What the list of mapped projects promises its users: a registration     *)
(* adds one entry, a toggle or a removal concerns one entry, and no folder *)
(* name is ever taken twice.  Each is one step, whoever asks for it.       *)
(***************************************************************************)
CONSTANTS
    Paths,        \* folders that may be registered
    Base          \* Base[p]: the folder name of p in lower case, its key in the hub

VARIABLE entries  \* the registered projects: [path, enabled]

Known(p) == \E e \in entries : e.path = p
Taken(p) == \E e \in entries : Base[e.path] = Base[p]

Init == entries = {}

Register(p) == ~Taken(p) /\ entries' = entries \cup {[path |-> p, enabled |-> TRUE]}

Toggle(e) == entries' = (entries \ {e}) \cup {[e EXCEPT !.enabled = ~@]}

Remove(e) == entries' = entries \ {e}

Next == \/ \E p \in Paths : Register(p)
        \/ \E e \in entries : Toggle(e) \/ Remove(e)

Spec == Init /\ [][Next]_entries
=============================================================================
