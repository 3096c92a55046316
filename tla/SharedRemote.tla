---------------------------- MODULE SharedRemote ----------------------------
(* The remote of the knowledge repository as its two writers see it: one     *)
(* register for the graphs and one set of backups, each written by one of    *)
(* them.  tools/graphify-sync publishes graphs, backup.py adds backups and    *)
(* drops those beyond the newest Keep.  Both push whole trees of one branch   *)
(* from clones of their own; Publish implements this module.                  *)
EXTENDS Integers, FiniteSets

CONSTANTS Projects,   \* folders of the knowledge repository
          MaxGen,     \* bound: generations of a graph, 0 is none
          Minutes,    \* times a backup can be named after
          Keep        \* backups a target keeps

VARIABLES graphs, backups

remoteVars == <<graphs, backups>>

\* Without the files beyond the newest Keep.
Newest(files) == {f \in files : Cardinality({g \in files : g > f}) < Keep}

Init == /\ graphs = [p \in Projects |-> 0]
        /\ backups = {}

PublishGraphs == /\ graphs' \in [Projects -> 0..MaxGen]
                 /\ UNCHANGED backups

AddBackups == \E new \in (SUBSET Minutes) \ {{}} :
                 /\ backups' = Newest(backups \cup new)
                 /\ UNCHANGED graphs

Next == PublishGraphs \/ AddBackups

Spec == Init /\ [][Next]_remoteVars
==============================================================================
