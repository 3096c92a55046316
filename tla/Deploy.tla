------------------------------- MODULE Deploy -------------------------------
(* Rolling a release out on a machine with one service (deploy.sh): fetch,      *)
(* remember where to go back to, check, restart, and go back if the hub does   *)
(* not answer.  The operator may also pull by hand, roll back by hand, and cut *)
(* the script short; the service starts whatever lies in the work tree.        *)
EXTENDS Integers

CONSTANTS MaxCommit,   \* the history is linear: commits 1..MaxCommit
          Scripts,     \* runs of deploy.sh there may be at a time: it takes no lock
          None,
          Faults       \* {"offline", "kill"}

VARIABLES
    upstream,  \* newest commit of the remote
    head,      \* HEAD, the commit of the work tree
    origHead,  \* ORIG_HEAD, or None
    target,    \* the file rollback-ziel, None if missing or empty
    running,   \* the commit the service was started with
    script     \* per run of the script: its place and its variables

deployVars == <<upstream, head, origHead, target, running, script>>

Commits == 1..MaxCommit
Idle == [step |-> "idle", before |-> None, orig |-> None, goal |-> None, fetched |-> FALSE]

TypeOK ==
    /\ upstream \in Commits /\ head \in Commits /\ running \in Commits
    /\ origHead \in Commits \cup {None} /\ target \in Commits \cup {None}
    /\ script \in [Scripts -> [step: {"idle", "pull", "save", "check", "restart", "health", "reset", "back"},
                               before: Commits \cup {None}, orig: Commits \cup {None},
                               goal: Commits \cup {None}, fetched: BOOLEAN]]

Init ==
    /\ upstream = 1 /\ head = 1 /\ running = 1
    /\ origHead = None /\ target = None
    /\ script = [d \in Scripts |-> Idle]

------------------------------------------------------------------------------
Release ==
    /\ upstream < MaxCommit /\ upstream' = upstream + 1
    /\ UNCHANGED <<head, origHead, target, running, script>>

\* git pull --ff-only: ORIG_HEAD is set even if there is nothing new.
Pulled == head' = upstream /\ origHead' = head

\* The operator pulls by hand.
PullByHand == Pulled /\ UNCHANGED <<upstream, target, running, script>>

\* MUTANT: the commit to go back to is read after the pull
Remembered_Late(h) == upstream
\* VORHER and ORIG_VORHER, read before the pull.
Remembered(h) == h

Begin(d) ==
    /\ script[d].step = "idle"
    /\ script' = [script EXCEPT ![d] = [Idle EXCEPT !.step = "pull", !.before = Remembered(head), !.orig = origHead]]
    /\ UNCHANGED <<upstream, head, origHead, target, running>>

Pull(d) ==
    /\ script[d].step = "pull"
    /\ \/ /\ Pulled
          /\ script' = [script EXCEPT ![d].step = "save", ![d].fetched = TRUE]
       \/ /\ "offline" \in Faults
          /\ script' = [script EXCEPT ![d].step = "save"]
          /\ UNCHANGED <<head, origHead>>
    /\ UNCHANGED <<upstream, target, running>>

\* ROLLBACK_ZIEL: the commit before this pull, or before the pull by hand, or
\* the last one that was saved.
Goal(d) ==
    IF script[d].before # head THEN script[d].before
    ELSE IF script[d].orig \notin {None, head} /\ script[d].orig <= head THEN script[d].orig
    ELSE target

\* The goal is written to its file, which is emptied first.
Save(d) ==
    /\ script[d].step = "save"
    /\ \/ /\ target' = IF Goal(d) = None THEN target ELSE Goal(d)
          /\ script' = [script EXCEPT ![d] = [Idle EXCEPT !.step = "check", !.goal = Goal(d), !.fetched = script[d].fetched]]
       \/ /\ "kill" \in Faults /\ Goal(d) # None
          /\ target' = None
          /\ script' = [script EXCEPT ![d] = Idle]
    /\ UNCHANGED <<upstream, head, origHead, running>>

\* Lint, tests and the web interface, on the new work tree.
Check(d) ==
    /\ script[d].step = "check"
    /\ \/ script' = [script EXCEPT ![d].step = "restart"]
       \/ script' = [script EXCEPT ![d] = Idle]
    /\ UNCHANGED <<upstream, head, origHead, target, running>>

\* The service manager starts what lies in the work tree.
Started == running' = head
ServiceRestarts == Started /\ UNCHANGED <<upstream, head, origHead, target, script>>

RestartService(d) ==
    /\ \/ /\ script[d].step = "restart"
          /\ script' = [script EXCEPT ![d].step = "health"]
       \/ /\ script[d].step = "back"
          /\ script' = [script EXCEPT ![d] = Idle]
    /\ Started
    /\ UNCHANGED <<upstream, head, origHead, target>>

\* The hub answers on its port.
Answers(d) ==
    /\ script[d].step = "health"
    /\ script' = [script EXCEPT ![d] = Idle]
    /\ UNCHANGED <<upstream, head, origHead, target, running>>

\* It does not: the script goes back, or only restarts the service if it knows of
\* nothing to go back to.
GivesUp(d) ==
    /\ script[d].step = "health"
    /\ script' = [script EXCEPT ![d].step = IF script[d].goal = None THEN "back" ELSE "reset"]
    /\ UNCHANGED <<upstream, head, origHead, target, running>>

\* deploy.sh --rollback
RollbackByHand(d) ==
    /\ script[d].step = "idle" /\ target # None
    /\ script' = [script EXCEPT ![d] = [Idle EXCEPT !.step = "reset", !.goal = target]]
    /\ UNCHANGED <<upstream, head, origHead, target, running>>

\* git reset --hard
Reset(d) ==
    /\ script[d].step = "reset"
    /\ head' = script[d].goal /\ origHead' = head
    /\ script' = [script EXCEPT ![d].step = "back"]
    /\ UNCHANGED <<upstream, target, running>>

Killed(d) ==
    /\ "kill" \in Faults /\ script[d].step # "idle"
    /\ script' = [script EXCEPT ![d] = Idle]
    /\ UNCHANGED <<upstream, head, origHead, target, running>>

ScriptStep(d) ==
    \/ Begin(d) \/ Pull(d) \/ Save(d) \/ Check(d) \/ GivesUp(d)
    \/ RollbackByHand(d) \/ Reset(d) \/ Killed(d)

Next ==
    \/ Release \/ PullByHand \/ ServiceRestarts
    \/ \E d \in Scripts : ScriptStep(d) \/ Answers(d) \/ RestartService(d)
Spec == Init /\ [][Next]_deployVars

------------------------------------------------------------------------------
\* A script that goes back after a failed start goes to another commit than the
\* one that failed, if it could fetch ("niemals auf den gerade (fehl-)deployten
\* Stand", deploy.sh:19): whatever was pulled, rolled back or cut short before.
GoesBackElsewhere ==
    \A d \in Scripts : script[d].step = "reset" /\ script[d].fetched => script[d].goal # running

\* What makes it inductive while one script runs at a time: the goals lie behind
\* the newest commit, and behind the work tree once the script has fetched.
Behind(d) ==
    LET s == script[d] IN
    /\ s.goal # None => s.goal < upstream
    /\ s.step \in {"pull", "save"} => s.before \in Commits /\ s.before <= head
    /\ s.step = "pull" => ~s.fetched
    /\ s.step = "save" /\ s.fetched /\ target # None => target < head
    /\ s.step = "reset" => s.goal # None
    /\ s.step \in {"check", "restart", "health", "reset"} /\ s.fetched /\ s.goal # None
          => s.goal < head
    /\ s.step \in {"health", "reset"} /\ s.fetched /\ s.goal # None => s.goal < running
GoalsBehind ==
    /\ head <= upstream
    /\ target # None => target < upstream
    /\ \A d \in Scripts : Behind(d)

IInv == TypeOK /\ GoalsBehind

------------------------------------------------------------------------------
(* Not true of the code, see the README. *)

\* The same without the condition that the script could fetch.
NeverBackToFailed ==
    [][\A d \in Scripts : script[d].step = "health" /\ script'[d].step = "reset" => script[d].goal # running]_deployVars
=============================================================================
