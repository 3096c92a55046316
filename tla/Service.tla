------------------------------- MODULE Service -------------------------------
(* The one server process of the hub and what outlives it: the env file and    *)
(* the vault (SetupWizard), the work tree it is started from (Deploy) and the  *)
(* log of runs (RunLog).  A deployment, a restart from the wizard and a crash  *)
(* end the requests and the builds of the server alike; the nightly run goes   *)
(* on.  The service manager always starts it again.                            *)
EXTENDS Integers, FiniteSets

CONSTANTS Keys, Submitters,                              \* as in SetupWizard
          MaxCommit, Scripts,                            \* as in Deploy
          Projects, Builders, Night, Ids, MaxFiles,               \* as in RunLog
          None, Faults

VARIABLES env, live, vault, submit, up, shown,
          upstream, head, origHead, target, running, script,
          runs, second, writer

Wizard  == INSTANCE SetupWizard
Rollout == INSTANCE Deploy
Runs    == INSTANCE RunLog

\* Fewer runs start in a second than files are kept: rotation never takes one of
\* this second.
ASSUME ServiceAssumption ==
    /\ MaxCommit \in Nat \ {0} /\ "passphrase" \notin Keys
    /\ Ids \subseteq Nat \X Nat /\ 1 \in Runs!Seconds /\ MaxFiles \in Nat
    /\ \A i \in Ids : LET same == {j \in Ids : j[1] = i[1]}
                     IN  IsFiniteSet(same) /\ Cardinality(same) <= MaxFiles
    /\ Night \notin Builders
    /\ None \notin Keys \cup Nat \cup Runs!Docs

setupVars  == <<env, live, vault, submit, up, shown>>
deployVars == <<upstream, head, origHead, target, running, script>>
runLogVars == <<runs, second, writer>>
vars == <<setupVars, deployVars, runLogVars>>

TypeOK == Wizard!TypeOK /\ Rollout!TypeOK /\ Runs!TypeOK
Init == Wizard!Init /\ Rollout!Init /\ Runs!Init

------------------------------------------------------------------------------
\* The server process is replaced: new code, new environment, no builds.
ServerReplaced == Wizard!Booted /\ Rollout!Started /\ Runs!Dead(Builders)

\* Steps of the wizard.
SetUpHub ==
    /\ \/ \E s \in Submitters : Wizard!Submit(s) \/ Wizard!Refused(s) \/ Wizard!SetUp(s)
       \/ Wizard!BackupSetup
    /\ IF up' THEN UNCHANGED runLogVars ELSE Runs!Dead(Builders)
    /\ UNCHANGED deployVars

RestartFromWizard ==
    /\ Wizard!MayRestart
    /\ ServerReplaced
    /\ UNCHANGED <<upstream, head, origHead, target, script>>

ServerCrashes == Wizard!Crash /\ Runs!Dead(Builders) /\ UNCHANGED deployVars

ServerBoots ==
    /\ Wizard!Boot /\ Rollout!Started
    /\ UNCHANGED <<upstream, head, origHead, target, script, runLogVars>>

\* Steps of a deployment that leave the service alone.  Only a server that runs
\* answers the script.
RollOut ==
    /\ \/ Rollout!Release
       \/ Rollout!PullByHand
       \/ \E d \in Scripts : Rollout!ScriptStep(d) \/ (up /\ Rollout!Answers(d))
    /\ UNCHANGED <<setupVars, runLogVars>>

RestartFromScript ==
    /\ \E d \in Scripts : Rollout!RestartService(d)
    /\ Wizard!Booted /\ Runs!Dead(Builders)

\* The log.  The server builds for users, and users have projects once the hub is
\* set up.
LogRuns ==
    /\ vault # None
    /\ \/ Runs!NightStarts
       \/ Runs!NightDies
       \/ up /\ Wizard!Configured /\ \E b \in Builders : Runs!BuildStarts(b)
       \/ \E w \in Runs!Writers : Runs!Step(w)
    /\ UNCHANGED <<setupVars, deployVars>>

Next ==
    \/ SetUpHub \/ RestartFromWizard \/ ServerCrashes \/ ServerBoots
    \/ RollOut \/ RestartFromScript \/ LogRuns

Spec == Init /\ [][Next]_vars
------------------------------------------------------------------------------
(* The properties of the parts, here with all the restarts the others cause. *)

\* A hub that calls itself set up opens its vault, now and after any restart.
ConfiguredOpens == Wizard!ConfiguredOpens

\* What the user was told to write down stays good; setup_submit
\* and backup_setup show it once.
ShownSecretsHold == Wizard!ShownSecretsHold

\* A deployment that could fetch never goes back to the commit that failed.
GoesBackElsewhere == Rollout!GoesBackElsewhere

\* No run unsays what another has told, whoever dies, and final is final.
RunsAreFinal == Runs!RunsAreFinal

(* Not true of the code, see the README: *)

\* who has a hub has seen its key;
ConfiguredMeansShown == Wizard!ConfiguredMeansShown

\* the key stays in the env file;
EnvKeepsKey == Wizard!EnvKeepsKey

\* a deployment without network goes back to another commit, too.
NeverBackToFailed == Rollout!NeverBackToFailed
=============================================================================
