---------------------------- MODULE Service_proofs ----------------------------
(* The parts of Service under all the restarts they cause each other, for any  *)
(* number of keys, browsers, commits, builds and run ids: the wizard's keys    *)
(* always, the script's goals when one script runs at a time, the log of runs  *)
(* when a run id is claimed in the step that asks for it.                      *)
EXTENDS Service, TLAPS, FiniteSetTheorems

(* The wizard: env file, environment and vault.                               *)

LEMMA WizardInit == Init => Wizard!IInv
<1> SUFFICES ASSUME Init PROVE Wizard!IInv
  OBVIOUS
<1> USE DEF Init, Wizard!Init, Wizard!NoSecrets
<1>1. Wizard!TypeOK
  BY DEF Wizard!TypeOK, Wizard!Secrets
<1>2. Wizard!KeysFit /\ Wizard!PassphraseKept /\ Wizard!ShownSecretsHold
  BY DEF Wizard!KeysFit, Wizard!PassphraseKept, Wizard!ShownSecretsHold
<1> QED BY <1>1, <1>2 DEF Wizard!IInv

LEMMA WizardIdle == Wizard!IInv /\ UNCHANGED setupVars => Wizard!IInv'
BY DEF setupVars, Wizard!IInv, Wizard!TypeOK, Wizard!KeysFit, Wizard!PassphraseKept,
       Wizard!ShownSecretsHold

\* The secrets of the env file and of the server keep their types.
LEMMA SecretsWritten ==
    ASSUME NEW e \in Wizard!Secrets, NEW k \in Keys
    PROVE  /\ [e EXCEPT !.key = k] \in Wizard!Secrets
           /\ [e EXCEPT !.key = k].key = k /\ [e EXCEPT !.key = k].passphrase = e.passphrase
           /\ [e EXCEPT !.passphrase = TRUE] \in Wizard!Secrets
           /\ [e EXCEPT !.passphrase = TRUE].key = e.key /\ [e EXCEPT !.passphrase = TRUE].passphrase
           /\ Wizard!NoSecrets \in Wizard!Secrets
           /\ Wizard!NoSecrets.key = None /\ ~Wizard!NoSecrets.passphrase
BY DEF Wizard!Secrets, Wizard!NoSecrets

\* A set-up runs only where no vault is, and ends with one key everywhere.
LEMMA SetUpInv ==
    ASSUME Wizard!IInv, NEW s \in Submitters, Wizard!SetUp(s)
    PROVE  Wizard!IInv'
<1> USE DEF Wizard!IInv
<1>1. vault = None
  BY DEF Wizard!SetUp, Wizard!Refuses, Wizard!NoVault
<1>2. PICK k \in Wizard!FreshKeys, n \in 0..4 :
        /\ Wizard!EndsAfter(n, 3, ~Wizard!NoVault)
        /\ Wizard!EnvWritten(n, [env EXCEPT !.key = k])
        /\ live' = IF n = 0 THEN live ELSE [live EXCEPT !.key = k]
        /\ vault' = IF n >= 2 THEN k ELSE vault
        /\ shown' = IF n = 4 THEN shown \cup {k} ELSE shown
  BY DEF Wizard!SetUp
<1>3. k \in Keys /\ k # None /\ k # "passphrase" /\ None \notin Keys
  BY ServiceAssumption DEF Wizard!FreshKeys
<1> DEFINE e == [env EXCEPT !.key = k]
           l == [live EXCEPT !.key = k]
<1>4. /\ e \in Wizard!Secrets /\ e.key = k /\ e.passphrase = env.passphrase
      /\ l \in Wizard!Secrets /\ l.key = k /\ l.passphrase = live.passphrase
      /\ Wizard!NoSecrets \in Wizard!Secrets /\ Wizard!NoSecrets.key = None
  BY <1>3, SecretsWritten DEF Wizard!TypeOK
<1>5. env' = (IF n = 0 THEN Wizard!NoSecrets ELSE e) /\ live' = (IF n = 0 THEN live ELSE l)
  BY <1>2 DEF Wizard!EnvWritten
<1>6. submit' \subseteq submit /\ up' \in BOOLEAN
  BY <1>2 DEF Wizard!SetUp, Wizard!EndsAfter, Wizard!TypeOK
<1> HIDE DEF e, l
<1>7. Wizard!TypeOK'
  BY <1>2, <1>3, <1>4, <1>5, <1>6 DEF Wizard!TypeOK
<1>8. Wizard!KeysFit'
  BY <1>1, <1>2, <1>3, <1>4, <1>5 DEF Wizard!KeysFit
<1>9. "passphrase" \notin shown'
  BY <1>1, <1>2, <1>3 DEF Wizard!PassphraseKept
<1>10. shown' \cap Keys \subseteq {vault'}
  BY <1>1, <1>2, <1>3 DEF Wizard!ShownSecretsHold
<1> QED BY <1>7, <1>8, <1>9, <1>10 DEF Wizard!PassphraseKept, Wizard!ShownSecretsHold

LEMMA BackupSetupInv == ASSUME Wizard!IInv, Wizard!BackupSetup PROVE Wizard!IInv'
<1> USE DEF Wizard!IInv
<1>1. PICK n \in 0..2 :
        /\ Wizard!EndsAfter(n, 1, FALSE)
        /\ Wizard!EnvWritten(n, [env EXCEPT !.passphrase = TRUE])
        /\ live' = IF n = 0 THEN live ELSE [live EXCEPT !.passphrase = TRUE]
        /\ shown' = IF n = 2 THEN shown \cup {"passphrase"} ELSE shown
  BY DEF Wizard!BackupSetup
<1> DEFINE e == [env EXCEPT !.passphrase = TRUE]
           l == [live EXCEPT !.passphrase = TRUE]
<1>2. /\ e \in Wizard!Secrets /\ e.key = env.key /\ e.passphrase
      /\ l \in Wizard!Secrets /\ l.key = live.key /\ l.passphrase
      /\ Wizard!NoSecrets \in Wizard!Secrets /\ Wizard!NoSecrets.key = None
  BY DEF Wizard!TypeOK, Wizard!Secrets, Wizard!NoSecrets
<1>3. /\ env' = (IF n = 0 THEN Wizard!NoSecrets ELSE e) /\ live' = (IF n = 0 THEN live ELSE l)
      /\ UNCHANGED <<vault, submit>> /\ vault # None /\ ~live.passphrase
  BY <1>1 DEF Wizard!EnvWritten, Wizard!BackupSetup
<1>4. up' \in BOOLEAN
  BY <1>1 DEF Wizard!EndsAfter, Wizard!TypeOK
<1> HIDE DEF e, l
<1>5. Wizard!TypeOK'
  BY <1>1, <1>2, <1>3, <1>4 DEF Wizard!TypeOK
<1>6. Wizard!KeysFit'
  BY <1>2, <1>3 DEF Wizard!KeysFit
<1>7. Wizard!PassphraseKept'
  BY <1>1, <1>2, <1>3 DEF Wizard!PassphraseKept
<1>8. shown' \cap Keys \subseteq {vault'}
  BY <1>1, <1>3, ServiceAssumption DEF Wizard!ShownSecretsHold
<1> QED BY <1>5, <1>6, <1>7, <1>8 DEF Wizard!PassphraseKept, Wizard!ShownSecretsHold

LEMMA WizardNext == Wizard!IInv /\ [Next]_vars => Wizard!IInv'
<1> SUFFICES ASSUME Wizard!IInv, [Next]_vars PROVE Wizard!IInv'
  OBVIOUS
<1>1. CASE UNCHANGED setupVars
  BY <1>1, WizardIdle
<1>2. ASSUME NEW s \in Submitters, Wizard!Submit(s) \/ Wizard!Refused(s) PROVE Wizard!IInv'
  BY <1>2 DEF Wizard!Submit, Wizard!Refused, Wizard!IInv, Wizard!TypeOK, Wizard!KeysFit,
     Wizard!PassphraseKept, Wizard!ShownSecretsHold
<1>3. CASE Wizard!Booted \/ Wizard!Crash
  BY <1>3 DEF Wizard!Booted, Wizard!Crash, Wizard!Stop, Wizard!IInv, Wizard!TypeOK,
     Wizard!KeysFit, Wizard!PassphraseKept, Wizard!ShownSecretsHold
<1>4. CASE SetUpHub
  BY <1>2, <1>4, SetUpInv, BackupSetupInv DEF SetUpHub
<1>5. CASE RestartFromWizard \/ ServerCrashes \/ ServerBoots \/ RestartFromScript
  BY <1>3, <1>5 DEF RestartFromWizard, ServerReplaced, ServerCrashes, ServerBoots,
     Wizard!Boot, RestartFromScript
<1>6. CASE RollOut \/ LogRuns \/ UNCHANGED vars
  BY <1>1, <1>6 DEF RollOut, LogRuns, vars
<1> QED BY <1>4, <1>5, <1>6 DEF Next

\* A hub that calls itself set up opens its vault, now and after any restart.
THEOREM SetUpHubOpens == Spec => []ConfiguredOpens
<1>1. Wizard!IInv => ConfiguredOpens
  BY DEF Wizard!IInv, Wizard!KeysFit, ConfiguredOpens, Wizard!ConfiguredOpens, Wizard!Configured
<1> QED BY <1>1, WizardInit, WizardNext, PTL DEF Spec

\* The key and the passphrase a user was told to write down stay good.
THEOREM ShownSecretsStayGood == Spec => []ShownSecretsHold
<1>1. Wizard!IInv => ShownSecretsHold
  BY DEF Wizard!IInv, ShownSecretsHold
<1> QED BY <1>1, WizardInit, WizardNext, PTL DEF Spec

(* The deployment: one run of the script at a time, the operator beside it.   *)

Steps   == {"idle", "pull", "save", "check", "restart", "health", "reset", "back"}
Commit  == Rollout!Commits \cup {None}
Script  == [step: Steps, before: Commit, orig: Commit, goal: Commit, fetched: BOOLEAN]

LEMMA CommitFacts == 1 \in Rollout!Commits /\ None \notin Rollout!Commits /\ Rollout!Commits \subseteq Nat
BY ServiceAssumption DEF Rollout!Commits

LEMMA ScriptType == script \in [Scripts -> Script] <=> script \in
        [Scripts -> [step: {"idle", "pull", "save", "check", "restart", "health", "reset", "back"},
                     before: Rollout!Commits \cup {None}, orig: Rollout!Commits \cup {None},
                     goal: Rollout!Commits \cup {None}, fetched: BOOLEAN]]
BY DEF Script, Commit, Steps

LEMMA RolloutInit == Init => Rollout!IInv
<1> SUFFICES ASSUME Init PROVE Rollout!IInv
  OBVIOUS
<1> USE CommitFacts DEF Init, Rollout!Init, Rollout!Idle
<1>1. Rollout!TypeOK
  BY DEF Rollout!TypeOK
<1>2. Rollout!GoalsBehind
  BY DEF Rollout!GoalsBehind, Rollout!Behind
<1> QED BY <1>1, <1>2 DEF Rollout!IInv

\* What happens beside the script: commits, pulls by hand and starts only raise
\* the work tree, and a service that starts takes what lies there.
LEMMA BesideInv ==
    ASSUME Rollout!IInv, upstream' \in Rollout!Commits, head' \in Rollout!Commits,
           running' \in {running, head}, origHead' \in {origHead, head},
           upstream <= upstream', head <= head', head' <= upstream',
           UNCHANGED <<target, script>>
    PROVE  Rollout!IInv'
<1> USE CommitFacts DEF Rollout!IInv
<1>0. /\ upstream \in Nat /\ upstream' \in Nat /\ head \in Nat /\ head' \in Nat
      /\ target \in Commit /\ running \in Nat
  BY DEF Rollout!TypeOK, Commit
<1>1. Rollout!TypeOK'
  BY DEF Rollout!TypeOK
<1>2. ASSUME NEW d \in Scripts PROVE Rollout!Behind(d)'
  <2> DEFINE s == script[d]
  <2>1. s \in Script
    BY ScriptType DEF Rollout!TypeOK
  <2>2. s.before \in Commit /\ s.goal \in Commit /\ s.fetched \in BOOLEAN
    BY <2>1 DEF Script
  <2>3. Rollout!Behind(d)
    BY DEF Rollout!GoalsBehind
  <2>5. /\ s.goal # None => s.goal \in Nat
        /\ target # None => target \in Nat
        /\ s.before # None => s.before \in Nat
    BY <1>0, <2>2 DEF Commit
  <2>6. /\ s.goal # None => s.goal < upstream
        /\ s.step \in {"pull", "save"} => s.before \in Rollout!Commits /\ s.before <= head
        /\ s.step = "pull" => ~s.fetched
        /\ s.step = "save" /\ s.fetched /\ target # None => target < head
        /\ s.step = "reset" => s.goal # None
        /\ s.step \in {"check", "restart", "health", "reset"} /\ s.fetched /\ s.goal # None => s.goal < head
        /\ s.step \in {"health", "reset"} /\ s.fetched /\ s.goal # None => s.goal < running
    BY <2>3 DEF Rollout!Behind
  <2> HIDE DEF s
  <2>7. ASSUME s.goal # None PROVE s.goal < upstream'
    BY <1>0, <2>5, <2>6, <2>7
  <2>8. ASSUME s.step \in {"pull", "save"} PROVE s.before \in Rollout!Commits /\ s.before <= head'
    <3>1. s.before \in Rollout!Commits /\ s.before \in Nat /\ s.before <= head
      BY <2>6, <2>8, CommitFacts
    <3> QED BY <1>0, <3>1
  <2>9. ASSUME s.step = "save", s.fetched, target # None PROVE target < head'
    <3>1. target \in Nat /\ target < head
      BY <2>5, <2>6, <2>9
    <3> QED BY <1>0, <3>1
  <2>10. ASSUME s.step \in {"check", "restart", "health", "reset"}, s.fetched, s.goal # None
         PROVE  s.goal < head'
    <3>1. s.goal \in Nat /\ s.goal < head
      BY <2>5, <2>6, <2>10
    <3> QED BY <1>0, <3>1
  <2>11. ASSUME s.step \in {"health", "reset"}, s.fetched, s.goal # None PROVE s.goal < running'
    <3>1. s.goal \in Nat /\ s.goal < head /\ s.goal < running
      BY <2>5, <2>6, <2>11
    <3> QED BY <1>0, <3>1
  <2>12. script'[d] = script[d] /\ target' = target
    OBVIOUS
  <2> QED BY <2>2, <2>6, <2>7, <2>8, <2>9, <2>10, <2>11, <2>12 DEF Rollout!Behind, s
<1>3. target' # None => target' < upstream'
  BY <1>0 DEF Rollout!GoalsBehind, Commit
<1> QED BY <1>1, <1>2, <1>3 DEF Rollout!GoalsBehind

\* The commit to go back to, as a script that saves it finds it.
LEMMA GoalBehind ==
    ASSUME Rollout!IInv, NEW d \in Scripts, script[d].step = "save"
    PROVE  /\ Rollout!Goal(d) \in Commit
           /\ Rollout!Goal(d) # None => Rollout!Goal(d) < upstream
           /\ Rollout!Goal(d) # None /\ script[d].fetched => Rollout!Goal(d) < head
<1> DEFINE s == script[d]
           g == Rollout!Goal(d)
<1>1. s \in Script /\ head \in Nat /\ upstream \in Nat /\ target \in Commit
  BY ScriptType, CommitFacts DEF Rollout!IInv, Rollout!TypeOK, Commit
<1>2. /\ s.before \in Rollout!Commits /\ s.orig \in Commit /\ s.before <= head
      /\ head <= upstream /\ (target # None => target < upstream)
      /\ s.fetched /\ target # None => target < head
  BY <1>1 DEF Script, Rollout!IInv, Rollout!GoalsBehind, Rollout!Behind
<1>3. g = IF s.before # head THEN s.before
          ELSE IF s.orig \notin {None, head} /\ s.orig <= head THEN s.orig ELSE target
  BY DEF Rollout!Goal
<1> HIDE DEF s, g
<1>4. CASE s.before # head
  <2>1. g = s.before /\ s.before \in Commit
    BY <1>2, <1>3, <1>4 DEF Commit
  <2>2. s.before \in Nat /\ head \in Nat /\ upstream \in Nat
    BY <1>1, <1>2, CommitFacts
  <2>3. s.before < head /\ s.before < upstream
    BY <1>2, <1>4, <2>2
  <2> QED BY <2>1, <2>3 DEF s, g
<1>5. CASE s.before = head /\ s.orig \notin {None, head} /\ s.orig <= head
  <2>1. g = s.orig /\ s.orig \in Commit
    BY <1>2, <1>3, <1>5
  <2>2. s.orig \in Nat /\ head \in Nat /\ upstream \in Nat
    BY <1>1, <1>2, <1>5, CommitFacts DEF Commit
  <2>3. s.orig < head /\ s.orig < upstream
    BY <1>2, <1>5, <2>2
  <2> QED BY <2>1, <2>3 DEF s, g
<1>6. CASE s.before = head /\ ~(s.orig \notin {None, head} /\ s.orig <= head)
  <2>1. g = target
    BY <1>3, <1>6
  <2> QED BY <1>1, <1>2, <2>1 DEF s, g
<1> QED BY <1>4, <1>5, <1>6

\* A step of the only script, to place x with the variables x.
LEMMA ScriptMoves ==
    ASSUME NEW d, Scripts = {d}, Rollout!IInv, NEW x \in Script,
           script' = [script EXCEPT ![d] = x],
           head' \in Rollout!Commits, running' \in Rollout!Commits, origHead' \in Commit,
           target' \in Commit, upstream' = upstream,
           head' <= upstream, target' # None => target' < upstream,
           script'[d] = x => Rollout!Behind(d)'
    PROVE  Rollout!IInv'
<1>1. script' \in [Scripts -> Script] /\ script'[d] = x
  BY ScriptType DEF Rollout!IInv, Rollout!TypeOK
<1>2. Rollout!TypeOK'
  BY <1>1, ScriptType DEF Rollout!IInv, Rollout!TypeOK, Script, Commit, Steps
<1> QED BY <1>1, <1>2 DEF Rollout!IInv, Rollout!GoalsBehind

\* What ScriptMoves asks of a step that leaves everything but the script alone.
LEMMA ScriptGoesOn ==
    ASSUME NEW d, Scripts = {d}, Rollout!IInv, NEW x \in Script,
           script' = [script EXCEPT ![d] = x], UNCHANGED <<upstream, head, origHead, target, running>>,
           script'[d] = x => Rollout!Behind(d)'
    PROVE  Rollout!IInv'
<1>1. /\ head \in Rollout!Commits /\ running \in Rollout!Commits /\ origHead \in Commit /\ target \in Commit
      /\ head <= upstream /\ (target # None => target < upstream)
  BY DEF Rollout!IInv, Rollout!TypeOK, Rollout!GoalsBehind, Commit
<1> QED BY <1>1, ScriptMoves

LEMMA IdleBehind ==
    ASSUME NEW d, script'[d] = Rollout!Idle PROVE Rollout!Behind(d)'
BY DEF Rollout!Behind, Rollout!Idle

LEMMA IdleIsScript == Rollout!Idle \in Script
BY DEF Rollout!Idle, Script, Steps, Commit

\* Every step of the script itself.
LEMMA ScriptInv ==
    ASSUME NEW d, Scripts = {d}, Rollout!IInv, Rollout!ScriptStep(d) \/ Rollout!Answers(d)
    PROVE  Rollout!IInv'
<1> DEFINE s == script[d]
<1> USE CommitFacts, ScriptType, IdleIsScript
<1>1. /\ upstream \in Nat /\ head \in Rollout!Commits /\ running \in Rollout!Commits
      /\ origHead \in Commit /\ target \in Commit /\ script \in [Scripts -> Script]
      /\ head <= upstream /\ (target # None => target < upstream) /\ Rollout!Behind(d)
  BY DEF Rollout!IInv, Rollout!TypeOK, Rollout!GoalsBehind, Commit
<1>2. /\ s \in Script /\ s.step \in Steps /\ s.fetched \in BOOLEAN
      /\ s.before \in Commit /\ s.orig \in Commit /\ s.goal \in Commit
  BY <1>1 DEF Script
<1>3. /\ s.goal # None => s.goal < upstream
      /\ s.step \in {"pull", "save"} => s.before \in Rollout!Commits /\ s.before <= head
      /\ s.step = "pull" => ~s.fetched
      /\ s.step = "save" /\ s.fetched /\ target # None => target < head
      /\ s.step = "reset" => s.goal # None
      /\ s.step \in {"check", "restart", "health", "reset"} /\ s.fetched /\ s.goal # None => s.goal < head
      /\ s.step \in {"health", "reset"} /\ s.fetched /\ s.goal # None => s.goal < running
  BY <1>1 DEF Rollout!Behind
<1>4. CASE script' = [script EXCEPT ![d] = Rollout!Idle] /\ UNCHANGED <<upstream, head, origHead, target, running>>
  BY <1>4, ScriptGoesOn, IdleBehind
<1>5. CASE Rollout!Begin(d)
  <2> DEFINE x == [Rollout!Idle EXCEPT !.step = "pull", !.before = head, !.orig = origHead]
  <2>1. /\ x \in Script /\ x.step = "pull" /\ x.before = head /\ x.goal = None /\ ~x.fetched
    BY <1>1 DEF Script, Steps, Commit, Rollout!Idle
  <2>2. script' = [script EXCEPT ![d] = x] /\ UNCHANGED <<upstream, head, origHead, target, running>>
    BY <1>5 DEF Rollout!Begin, Rollout!Remembered
  <2> HIDE DEF x
  <2>3. script'[d] = x => Rollout!Behind(d)'
    BY <1>1, <2>1, <2>2 DEF Rollout!Behind
  <2> QED BY <2>1, <2>2, <2>3, ScriptGoesOn
<1>6. CASE Rollout!Pull(d)
  <2> DEFINE x == [s EXCEPT !.step = "save", !.fetched = TRUE]
             y == [s EXCEPT !.step = "save"]
  <2>1. /\ x \in Script /\ x.step = "save" /\ x.before = s.before /\ x.goal = s.goal /\ x.fetched
        /\ y \in Script /\ y.step = "save" /\ y.before = s.before /\ y.goal = s.goal /\ y.fetched = s.fetched
    BY <1>2 DEF Script, Steps
  <2>2. s.step = "pull" /\ ~s.fetched /\ UNCHANGED <<upstream, target, running>>
    BY <1>3, <1>6 DEF Rollout!Pull
  <2>3. \/ script' = [script EXCEPT ![d] = x] /\ head' = upstream /\ origHead' = head
        \/ script' = [script EXCEPT ![d] = y] /\ UNCHANGED <<head, origHead>>
    BY <1>6 DEF Rollout!Pull, Rollout!Pulled
  <2> HIDE DEF x, y, s
  <2>4. s.before \in Nat /\ s.before <= head /\ head \in Nat /\ s.before <= upstream
    <3>1. s.before \in Rollout!Commits /\ s.before <= head /\ head <= upstream /\ upstream \in Nat
      BY <1>1, <1>3, <2>2
    <3>2. s.before \in Nat /\ head \in Nat
      BY <1>1, <3>1
    <3> QED BY <3>1, <3>2
  <2>5. CASE script' = [script EXCEPT ![d] = x] /\ head' = upstream /\ origHead' = head
    <3>1. /\ head' \in Rollout!Commits /\ head' <= upstream
          /\ running' \in Rollout!Commits /\ origHead' \in Commit /\ target' \in Commit
          /\ upstream' = upstream /\ (target' # None => target' < upstream)
      BY <1>1, <2>2, <2>5 DEF Rollout!IInv, Rollout!TypeOK, Commit
    <3>2. script'[d] = x => Rollout!Behind(d)'
      BY <1>1, <1>3, <2>1, <2>2, <2>4, <2>5 DEF Rollout!Behind
    <3> QED BY <2>1, <2>5, <3>1, <3>2, ScriptMoves
  <2>6. CASE script' = [script EXCEPT ![d] = y] /\ UNCHANGED <<head, origHead>>
    <3>1. script'[d] = y => Rollout!Behind(d)'
      BY <1>1, <1>3, <2>1, <2>2, <2>4, <2>6 DEF Rollout!Behind
    <3> QED BY <2>1, <2>2, <2>6, <3>1, ScriptGoesOn
  <2> QED BY <2>3, <2>5, <2>6
<1>7. CASE Rollout!Save(d)
  <2> DEFINE g == Rollout!Goal(d)
             x == [Rollout!Idle EXCEPT !.step = "check", !.goal = g, !.fetched = s.fetched]
  <2>1. s.step = "save" /\ UNCHANGED <<upstream, head, origHead, running>>
    BY <1>7 DEF Rollout!Save
  <2>2. g \in Commit /\ (g # None => g < upstream) /\ (g # None /\ s.fetched => g < head)
    BY <2>1, GoalBehind
  <2>3. x \in Script /\ x.step = "check" /\ x.goal = g /\ x.fetched = s.fetched
    BY <1>2, <2>2 DEF Script, Steps, Rollout!Idle, Commit
  <2>4. \/ script' = [script EXCEPT ![d] = x] /\ target' = (IF g = None THEN target ELSE g)
        \/ script' = [script EXCEPT ![d] = Rollout!Idle] /\ target' = None
    BY <1>7 DEF Rollout!Save
  <2> HIDE DEF x, g, s
  <2>5. CASE script' = [script EXCEPT ![d] = x] /\ target' = (IF g = None THEN target ELSE g)
    <3>1. target' \in Commit /\ (target' # None => target' < upstream)
      BY <1>1, <2>2, <2>5
    <3>2. script'[d] = x => Rollout!Behind(d)'
      BY <1>2, <2>1, <2>2, <2>3, <2>5 DEF Rollout!Behind
    <3> QED BY <1>1, <2>1, <2>3, <2>5, <3>1, <3>2, ScriptMoves
  <2>6. CASE script' = [script EXCEPT ![d] = Rollout!Idle] /\ target' = None
    <3>1. target' \in Commit
      BY <2>6 DEF Commit
    <3> QED BY <1>1, <2>1, <2>6, <3>1, IdleBehind, ScriptMoves
  <2> QED BY <2>4, <2>5, <2>6
<1>8. CASE /\ s.step \in {"check", "health"}
           /\ UNCHANGED <<upstream, head, origHead, target, running>>
           /\ \E t \in {"restart", "reset", "back"} :
                 /\ t = "restart" => s.step = "check"
                 /\ t # "restart" => s.step = "health" /\ (t = "back" <=> s.goal = None)
                 /\ script' = [script EXCEPT ![d].step = t]
  <2>1. PICK t \in {"restart", "reset", "back"} :
                 /\ t = "restart" => s.step = "check"
                 /\ t # "restart" => s.step = "health" /\ (t = "back" <=> s.goal = None)
                 /\ script' = [script EXCEPT ![d].step = t]
    BY <1>8
  <2> DEFINE x == [s EXCEPT !.step = t]
  <2>2. /\ x \in Script /\ x.step = t /\ x.goal = s.goal /\ x.fetched = s.fetched
    BY <1>2 DEF Script, Steps
  <2>3. script' = [script EXCEPT ![d] = x] /\ s.step \in {"check", "health"}
    BY <1>8, <2>1
  <2> HIDE DEF x, s
  <2>4. script'[d] = x => Rollout!Behind(d)'
    BY <1>2, <1>3, <1>8, <2>1, <2>2, <2>3 DEF Rollout!Behind
  <2> QED BY <1>8, <2>2, <2>3, <2>4, ScriptGoesOn
<1>9. CASE Rollout!RollbackByHand(d)
  <2> DEFINE x == [Rollout!Idle EXCEPT !.step = "reset", !.goal = target]
  <2>1. x \in Script /\ x.step = "reset" /\ x.goal = target /\ ~x.fetched
    BY <1>1 DEF Script, Steps, Rollout!Idle, Commit
  <2>2. /\ script' = [script EXCEPT ![d] = x] /\ target # None
        /\ UNCHANGED <<upstream, head, origHead, target, running>>
    BY <1>9 DEF Rollout!RollbackByHand
  <2> HIDE DEF x
  <2>3. script'[d] = x => Rollout!Behind(d)'
    BY <1>1, <2>1, <2>2 DEF Rollout!Behind
  <2> QED BY <2>1, <2>2, <2>3, ScriptGoesOn
<1>10. CASE Rollout!Reset(d)
  <2> DEFINE x == [s EXCEPT !.step = "back"]
  <2>1. x \in Script /\ x.step = "back" /\ x.goal = s.goal
    BY <1>2 DEF Script, Steps
  <2>2. /\ s.step = "reset" /\ head' = s.goal /\ origHead' = head
        /\ script' = [script EXCEPT ![d] = x] /\ UNCHANGED <<upstream, target, running>>
    BY <1>10 DEF Rollout!Reset
  <2> HIDE DEF x, s
  <2>3. s.goal \in Rollout!Commits /\ s.goal \in Nat /\ s.goal < upstream
    BY <1>2, <1>3, <2>2 DEF Commit
  <2>4. script'[d] = x => Rollout!Behind(d)'
    BY <2>1, <2>2, <2>3 DEF Rollout!Behind
  <2>5. /\ head' \in Rollout!Commits /\ head' <= upstream
        /\ running' \in Rollout!Commits /\ origHead' \in Commit /\ target' \in Commit
        /\ upstream' = upstream /\ (target' # None => target' < upstream)
    BY <1>1, <2>2, <2>3 DEF Commit
  <2> QED BY <2>1, <2>2, <2>4, <2>5, ScriptMoves
<1>11. CASE Rollout!Check(d) \/ Rollout!GivesUp(d)
  BY <1>4, <1>8, <1>11 DEF Rollout!Check, Rollout!GivesUp
<1>12. CASE Rollout!Killed(d) \/ Rollout!Answers(d)
  BY <1>4, <1>12 DEF Rollout!Killed, Rollout!Answers
<1> QED BY <1>5, <1>6, <1>7, <1>9, <1>10, <1>11, <1>12 DEF Rollout!ScriptStep

\* The script starts the service: what it deployed, or what it went back to.
LEMMA ScriptRestarts ==
    ASSUME NEW d, Scripts = {d}, Rollout!IInv, Rollout!RestartService(d)
    PROVE  Rollout!IInv'
<1> DEFINE s == script[d]
           x == [s EXCEPT !.step = "health"]
<1> USE CommitFacts, ScriptType, IdleIsScript
<1>1. /\ upstream \in Nat /\ head \in Rollout!Commits /\ script \in [Scripts -> Script]
      /\ origHead \in Commit /\ target \in Commit
      /\ head <= upstream /\ (target # None => target < upstream) /\ Rollout!Behind(d)
  BY DEF Rollout!IInv, Rollout!TypeOK, Rollout!GoalsBehind, Commit
<1>2. UNCHANGED <<upstream, head, origHead, target>> /\ running' = head
  BY DEF Rollout!RestartService, Rollout!Started
<1>3. CASE script' = [script EXCEPT ![d] = Rollout!Idle]
  BY <1>1, <1>2, <1>3, IdleBehind, ScriptMoves
<1>4. CASE s.step = "restart" /\ script' = [script EXCEPT ![d] = x]
  <2>1. /\ x \in Script /\ x.step = "health" /\ x.goal = s.goal /\ x.fetched = s.fetched
        /\ s.fetched \in BOOLEAN
    BY <1>1 DEF Script, Steps
  <2>2. /\ s.goal # None => s.goal < upstream
        /\ s.fetched /\ s.goal # None => s.goal < head
    BY <1>1, <1>4 DEF Rollout!Behind
  <2> HIDE DEF x, s
  <2>3. script'[d] = x => Rollout!Behind(d)'
    BY <1>2, <2>1, <2>2 DEF Rollout!Behind
  <2> QED BY <1>1, <1>2, <1>4, <2>1, <2>3, ScriptMoves
<1> QED BY <1>3, <1>4 DEF Rollout!RestartService

LEMMA RolloutNext ==
    ASSUME NEW d, Scripts = {d}
    PROVE  Rollout!IInv /\ [Next]_vars => Rollout!IInv'
<1> SUFFICES ASSUME Rollout!IInv, [Next]_vars PROVE Rollout!IInv'
  OBVIOUS
<1> USE CommitFacts
<1>1. upstream \in Rollout!Commits /\ head \in Rollout!Commits /\ head <= upstream
  BY DEF Rollout!IInv, Rollout!TypeOK, Rollout!GoalsBehind
<1>2. CASE UNCHANGED deployVars \/ (Rollout!Started /\ UNCHANGED <<upstream, head, origHead, target, script>>)
  BY <1>1, <1>2, BesideInv DEF deployVars, Rollout!Started
<1>3. CASE Rollout!Release
  <2>1. /\ upstream' \in Rollout!Commits /\ upstream <= upstream'
        /\ head' = head /\ head <= head' /\ head' <= upstream'
        /\ UNCHANGED <<origHead, running, target, script>>
    BY <1>1, <1>3, ServiceAssumption DEF Rollout!Release, Rollout!Commits
  <2> QED BY <1>1, <2>1, BesideInv
<1>4. CASE Rollout!PullByHand
  BY <1>1, <1>4, BesideInv DEF Rollout!PullByHand, Rollout!Pulled
<1>5. CASE RollOut
  BY <1>3, <1>4, <1>5, ScriptInv DEF RollOut
<1>6. CASE RestartFromScript
  BY <1>6, ScriptRestarts DEF RestartFromScript
<1>7. CASE SetUpHub \/ RestartFromWizard \/ ServerCrashes \/ ServerBoots \/ LogRuns \/ UNCHANGED vars
  BY <1>2, <1>7 DEF SetUpHub, RestartFromWizard, ServerReplaced, ServerCrashes, ServerBoots,
     LogRuns, vars
<1> QED BY <1>5, <1>6, <1>7 DEF Next

\* A script that could fetch never goes back to the commit that failed, whatever
\* was pulled, rolled back, killed or restarted before, for any history, as long as
\* one script runs at a time.
THEOREM NeverBackToWhatFailed ==
    ASSUME NEW d, Scripts = {d}
    PROVE  Spec => []GoesBackElsewhere
<1>1. Rollout!IInv => GoesBackElsewhere
  <2> SUFFICES ASSUME Rollout!IInv, NEW e \in Scripts, script[e].step = "reset", script[e].fetched
               PROVE  script[e].goal # running
    BY DEF GoesBackElsewhere, Rollout!GoesBackElsewhere
  <2>1. script[e].goal # None /\ script[e].goal < running /\ running \in Nat
    BY CommitFacts DEF Rollout!IInv, Rollout!TypeOK, Rollout!GoalsBehind, Rollout!Behind
  <2> QED BY <2>1
<1>2. Rollout!IInv /\ [Next]_vars => Rollout!IInv'
  BY RolloutNext
<1> QED BY <1>1, <1>2, RolloutInit, PTL DEF Spec

(* The log of runs: an id is free only until the step that takes it.          *)

LEMMA IdFacts == /\ \A i \in Ids : i[1] \in Nat
                 /\ Runs!Seconds \subseteq Nat /\ 1 \in Runs!Seconds /\ None \notin Runs!Docs
                 /\ Night \in Runs!Writers
BY ServiceAssumption DEF Runs!Seconds, Runs!Writers

\* Cardinality as RunLog has it from FiniteSets.
LEMMA SameCardinality == \A S : Runs!Cardinality(S) = Cardinality(S)
BY DEF Runs!Cardinality, Cardinality

\* Rotation takes no file of the newest second: not all ids of a second come
\* after one of them, and there is room for all.
LEMMA WrittenKeeps ==
    ASSUME runs \in [Ids -> Runs!Docs \cup {None}], NEW s \in Nat, NEW id \in Ids, NEW doc \in Runs!Docs,
           \A i \in Ids : runs[i] # None => i[1] <= s, id[1] <= s
    PROVE  /\ Runs!Written(id, doc) \in [Ids -> Runs!Docs \cup {None}]
           /\ \A i \in Ids : LET put == [runs EXCEPT ![id] = doc] IN
                 \/ Runs!Written(id, doc)[i] = put[i]
                 \/ Runs!Written(id, doc)[i] = None /\ put[i] # None /\ i[1] < s
<1> DEFINE put == [runs EXCEPT ![id] = doc]
           Newer(i) == {j \in Ids : put[j] # None /\ Runs!Before(i, j)}
           new == Runs!Written(id, doc)
<1>1. new = [i \in Ids |-> IF Cardinality(Newer(i)) < MaxFiles THEN put[i] ELSE None]
  BY SameCardinality DEF Runs!Written
<1>2. put \in [Ids -> Runs!Docs \cup {None}] /\ \A j \in Ids : put[j] # None => j[1] <= s
  OBVIOUS
<1>3. ASSUME NEW i \in Ids, i[1] = s PROVE Cardinality(Newer(i)) < MaxFiles
  <2> DEFINE same == {j \in Ids : j[1] = i[1]}
  <2>1. IsFiniteSet(same) /\ Cardinality(same) <= MaxFiles /\ MaxFiles \in Nat /\ i \in same
    BY ServiceAssumption
  <2>2. Newer(i) \subseteq same \ {i}
    BY <1>2, <1>3, IdFacts DEF Runs!Before
  <2> HIDE DEF same, Newer
  <2>3. IsFiniteSet(same \ {i}) /\ Cardinality(same \ {i}) = Cardinality(same) - 1
    BY <2>1, FS_RemoveElement
  <2>4. Cardinality(Newer(i)) <= Cardinality(same \ {i}) /\ IsFiniteSet(Newer(i))
    BY <2>2, <2>3, FS_Subset
  <2>5. Cardinality(Newer(i)) \in Nat /\ Cardinality(same) \in Nat
    BY <2>1, <2>4, FS_CardinalityType
  <2> QED BY <2>1, <2>3, <2>4, <2>5
<1> HIDE DEF Newer
<1>4. new \in [Ids -> Runs!Docs \cup {None}]
  BY <1>1, <1>2
<1>5. ASSUME NEW i \in Ids PROVE new[i] = put[i] \/ (new[i] = None /\ put[i] # None /\ i[1] < s)
  <2>1. CASE Cardinality(Newer(i)) < MaxFiles \/ put[i] = None
    BY <1>1, <2>1
  <2>2. CASE ~(Cardinality(Newer(i)) < MaxFiles) /\ put[i] # None
    <3>1. i[1] <= s /\ i[1] # s /\ i[1] \in Nat
      BY <1>2, <1>3, <2>2, IdFacts
    <3> QED BY <1>1, <2>2, <3>1
  <2> QED BY <2>1, <2>2
<1> QED BY <1>4, <1>5

\* What a step may do to the files of runs.
FinalStep ==
    \A id \in Ids : runs[id] # None /\ runs'[id] # None =>
          /\ runs[id].finished => runs'[id] = runs[id]
          /\ \A p \in Projects : runs[id].projects[p] # None => runs'[id].projects[p] = runs[id].projects[p]

LEMMA RunsInit == Init => Runs!IInv
<1> SUFFICES ASSUME Init PROVE Runs!IInv
  OBVIOUS
<1> USE IdFacts DEF Init, Runs!Init, Runs!NoRun
<1>1. Runs!TypeOK
  BY DEF Runs!TypeOK
<1>2. Runs!RunsOwned /\ Runs!InHand
  BY DEF Runs!RunsOwned, Runs!InHand, Runs!Active
<1> QED BY <1>1, <1>2 DEF Runs!IInv

LEMMA RunsIdle == Runs!IInv /\ UNCHANGED runLogVars => Runs!IInv' /\ FinalStep
BY DEF runLogVars, Runs!IInv, Runs!TypeOK, Runs!RunsOwned, Runs!InHand, Runs!Active, FinalStep

\* Writers that die let go of their runs.
LEMMA RunsDie == ASSUME Runs!IInv, NEW ws, Runs!Dead(ws) PROVE Runs!IInv' /\ FinalStep
<1> USE DEF Runs!IInv, Runs!Dead
<1>1. Runs!TypeOK'
  BY DEF Runs!TypeOK, Runs!NoRun
<1>2. \A w \in Runs!Writers : Runs!Active(w)' => Runs!Active(w) /\ writer'[w] = writer[w]
  BY DEF Runs!Active, Runs!NoRun
<1>3. UNCHANGED <<runs, second>>
  OBVIOUS
<1>4. Runs!RunsOwned'
  BY <1>2, <1>3 DEF Runs!RunsOwned
<1>5. Runs!InHand'
  BY <1>2, <1>3 DEF Runs!InHand
<1>6. FinalStep
  BY <1>3 DEF FinalStep
<1> QED BY <1>1, <1>4, <1>5, <1>6

Place == [step: {"idle", "create", "work", "write", "close"}, id: Ids \cup {None},
          doc: Runs!Docs \cup {None}, todo: SUBSET Projects]

\* A writer puts a document into the file of a run only it is at, and goes on with
\* what has no result, or is done.
LEMMA FileWritten ==
    ASSUME Runs!IInv, NEW w \in Runs!Writers, NEW id \in Ids, NEW doc \in Runs!Docs, NEW x \in Place,
           runs' = Runs!Written(id, doc), writer' = [writer EXCEPT ![w] = x],
           second' \in Runs!Seconds, second <= second', id[1] <= second',
           runs[id] # None => ~runs[id].finished /\ Runs!Extends(doc, runs[id]),
           \A v \in Runs!Writers : v # w /\ Runs!Active(v) => writer[v].id # id,
           \/ x.step = "idle"
           \/ x.step = "work" /\ x.id = id /\ ~doc.finished /\ \A p \in x.todo : doc.projects[p] = None
    PROVE  Runs!IInv' /\ FinalStep
<1> USE DEF Runs!IInv
<1>1. /\ runs \in [Ids -> Runs!Docs \cup {None}] /\ writer \in [Runs!Writers -> Place]
      /\ second \in Nat /\ second' \in Nat
      /\ \A i \in Ids : runs[i] # None => i[1] <= second
  BY IdFacts DEF Runs!TypeOK, Runs!RunsOwned, Place
<1>2. \A i \in Ids : runs[i] # None => i[1] <= second'
  BY <1>1, IdFacts
<1>3. /\ runs' \in [Ids -> Runs!Docs \cup {None}]
      /\ \A i \in Ids : LET put == [runs EXCEPT ![id] = doc] IN
            runs'[i] = put[i] \/ (runs'[i] = None /\ put[i] # None /\ i[1] < second')
  BY <1>1, <1>2, WrittenKeeps
<1>4. /\ \A i \in Ids : i # id => runs'[i] = runs[i] \/ (runs'[i] = None /\ i[1] < second')
      /\ runs'[id] = doc \/ (runs'[id] = None /\ id[1] < second')
  BY <1>1, <1>3
<1>5. /\ writer' \in [Runs!Writers -> Place] /\ writer'[w] = x
      /\ \A v \in Runs!Writers \ {w} : writer'[v] = writer[v]
  BY <1>1
<1>6. Runs!TypeOK'
  BY <1>3, <1>5 DEF Runs!TypeOK, Place
<1>7. Runs!RunsOwned'
  <2>1. ASSUME NEW i \in Ids, runs'[i] # None PROVE i[1] <= second'
    BY <1>2, <1>4, <2>1
  <2>2. ASSUME NEW v \in Runs!Writers, Runs!Active(v)'
        PROVE  LET i == writer'[v].id IN
               /\ writer'[v].step # "create" /\ i \in Ids /\ i[1] <= second'
               /\ runs'[i] = None => i[1] < second'
               /\ \A u \in Runs!Writers : Runs!Active(u)' /\ writer'[u].id = i => u = v
    <3>1. CASE v = w
      <4>1. x.step = "work" /\ x.id = id
        BY <1>5, <2>2, <3>1 DEF Runs!Active
      <4>2. \A u \in Runs!Writers : Runs!Active(u)' /\ writer'[u].id = id => u = v
        BY <1>5, <3>1 DEF Runs!Active
      <4>3. runs'[id] = None => id[1] < second'
        BY <1>4, IdFacts
      <4> QED BY <1>5, <3>1, <4>1, <4>2, <4>3
    <3>2. CASE v # w
      <4> DEFINE i == writer[v].id
      <4>1. writer'[v] = writer[v] /\ Runs!Active(v)
        BY <1>5, <2>2, <3>2 DEF Runs!Active
      <4>2. /\ writer[v].step # "create" /\ i \in Ids /\ i[1] <= second
            /\ runs[i] = None => i[1] < second
            /\ \A u \in Runs!Writers : Runs!Active(u) /\ writer[u].id = i => u = v
        BY <4>1 DEF Runs!RunsOwned
      <4>3. i # id /\ i[1] \in Nat
        BY <3>2, <4>1, <4>2, IdFacts
      <4>4. i[1] <= second' /\ (runs'[i] = None => i[1] < second')
        BY <1>1, <1>4, <4>2, <4>3
      <4>5. \A u \in Runs!Writers : Runs!Active(u)' /\ writer'[u].id = i => u = v
        <5>1. \A u \in Runs!Writers \ {w} : Runs!Active(u)' => Runs!Active(u)
          BY <1>5 DEF Runs!Active
        <5>2. Runs!Active(w)' => writer'[w].id # i
          BY <1>5, <4>3 DEF Runs!Active
        <5> QED BY <1>5, <4>2, <5>1, <5>2
      <4> QED BY <4>1, <4>2, <4>4, <4>5
    <3> QED BY <3>1, <3>2
  <2> QED BY <2>1, <2>2 DEF Runs!RunsOwned
<1>8. Runs!InHand'
  <2> SUFFICES ASSUME NEW v \in Runs!Writers, Runs!Active(v)'
               PROVE  LET r == writer'[v]
                          file == runs'[r.id]
                      IN  /\ file # None => ~file.finished /\ \A p \in r.todo : file.projects[p] = None
                          /\ r.step \in {"write", "close"} => r.doc \in Runs!Docs /\ (file # None => Runs!Extends(r.doc, file))
                          /\ r.step = "write" => ~r.doc.finished /\ \A p \in r.todo : r.doc.projects[p] = None
    BY DEF Runs!InHand
  <2>1. CASE v = w
    <3>1. /\ x.step = "work" /\ x.id = id /\ ~doc.finished /\ (\A p \in x.todo : doc.projects[p] = None)
          /\ writer'[v] = x
      BY <1>5, <2>1 DEF Runs!Active
    <3> QED BY <1>4, <3>1
  <2>2. CASE v # w
    <3>1. writer'[v] = writer[v] /\ Runs!Active(v)
      BY <1>5, <2>2 DEF Runs!Active
    <3>2. writer[v].id \in Ids /\ writer[v].id # id
      BY <2>2, <3>1 DEF Runs!RunsOwned
    <3> QED BY <1>4, <3>1, <3>2 DEF Runs!InHand
  <2> QED BY <2>1, <2>2
<1>9. FinalStep
  BY <1>4 DEF FinalStep, Runs!Extends
<1> QED BY <1>6, <1>7, <1>8, <1>9

\* A writer changes what it has in hand, or lets go of its run; the files stay.
LEMMA HandChanged ==
    ASSUME Runs!IInv, NEW w \in Runs!Writers, Runs!Active(w), NEW x \in Place,
           UNCHANGED <<runs, second>>, writer' = [writer EXCEPT ![w] = x],
           \/ x.step = "idle"
           \/ /\ x.step # "create" /\ x.id = writer[w].id /\ x.todo \subseteq writer[w].todo
              /\ x.step \in {"write", "close"} =>
                    x.doc \in Runs!Docs /\ (runs[x.id] # None => Runs!Extends(x.doc, runs[x.id]))
              /\ x.step = "write" => ~x.doc.finished /\ \A p \in x.todo : x.doc.projects[p] = None
    PROVE  Runs!IInv' /\ FinalStep
<1> USE DEF Runs!IInv
<1>1. writer \in [Runs!Writers -> Place] /\ writer' \in [Runs!Writers -> Place] /\ writer'[w] = x
  BY DEF Runs!TypeOK, Place
<1>2. Runs!TypeOK'
  BY <1>1 DEF Runs!TypeOK, Place
<1>3. \A v \in Runs!Writers :
         /\ Runs!Active(v)' => Runs!Active(v) /\ writer'[v].id = writer[v].id
         /\ v # w => writer'[v] = writer[v]
  BY <1>1 DEF Runs!Active
<1>4. Runs!RunsOwned'
  <2>1. \A v \in Runs!Writers : Runs!Active(v)' => writer'[v].step # "create"
    BY <1>1, <1>3 DEF Runs!RunsOwned, Runs!Active
  <2> QED BY <1>3, <2>1 DEF Runs!RunsOwned
<1>5. Runs!InHand'
  <2> SUFFICES ASSUME NEW v \in Runs!Writers, Runs!Active(v)'
               PROVE  LET r == writer'[v]
                          file == runs'[r.id]
                      IN  /\ file # None => ~file.finished /\ \A p \in r.todo : file.projects[p] = None
                          /\ r.step \in {"write", "close"} => r.doc \in Runs!Docs /\ (file # None => Runs!Extends(r.doc, file))
                          /\ r.step = "write" => ~r.doc.finished /\ \A p \in r.todo : r.doc.projects[p] = None
    BY DEF Runs!InHand
  <2>1. CASE v = w
    <3>1. x.step # "idle" /\ x.id = writer[w].id
      BY <1>1, <1>3, <2>1 DEF Runs!Active
    <3>2. runs[x.id] # None => ~runs[x.id].finished /\ \A p \in x.todo : runs[x.id].projects[p] = None
      BY <3>1 DEF Runs!InHand
    <3> QED BY <1>1, <2>1, <3>1, <3>2
  <2>2. CASE v # w
    BY <1>3, <2>2 DEF Runs!InHand
  <2> QED BY <2>1, <2>2
<1>6. FinalStep
  BY DEF FinalStep
<1> QED BY <1>2, <1>4, <1>5, <1>6

\* A run starts: its id is claimed and its file is there in one step.
LEMMA RunStarts ==
    ASSUME Runs!IInv, "overlap" \notin Faults, NEW w \in Runs!Writers, NEW todo \in SUBSET Projects,
           Runs!Start(w, todo)
    PROVE  Runs!IInv' /\ FinalStep
<1> USE DEF Runs!IInv
<1>1. PICK id \in Runs!FreeIds : Runs!Opened(w, id, todo) /\ second' = id[1]
  BY DEF Runs!Start
<1>2. id \in Ids /\ second <= id[1] /\ runs[id] = None /\ id[1] \in Runs!Seconds
  BY <1>1 DEF Runs!FreeIds, Runs!Seconds
<1> DEFINE x == [Runs!NoRun EXCEPT !.step = "work", !.id = id, !.todo = todo]
<1>3. x \in Place /\ x.step = "work" /\ x.id = id /\ x.todo = todo
  BY <1>2 DEF Place, Runs!NoRun
<1>4. /\ Runs!NewDoc \in Runs!Docs /\ ~Runs!NewDoc.finished
      /\ \A p \in Projects : Runs!NewDoc.projects[p] = None
  BY DEF Runs!NewDoc, Runs!Docs, Runs!NoResults, Runs!Table
<1>5. runs' = Runs!Written(id, Runs!NewDoc) /\ writer' = [writer EXCEPT ![w] = x]
  BY <1>1 DEF Runs!Opened
<1>6. ASSUME NEW v \in Runs!Writers, Runs!Active(v) PROVE writer[v].id # id
  <2>1. SUFFICES ASSUME writer[v].id = id PROVE FALSE
    OBVIOUS
  <2>2. id[1] < second
    BY <1>2, <1>6, <2>1 DEF Runs!RunsOwned
  <2>3. second \in Nat /\ id[1] \in Nat
    BY <1>2, IdFacts DEF Runs!TypeOK
  <2> QED BY <1>2, <2>2, <2>3
<1> HIDE DEF x
<1>7. id[1] <= second' /\ second <= second' /\ second' \in Runs!Seconds
  BY <1>1, <1>2, IdFacts
<1>8. x.step = "work" /\ x.id = id /\ \A p \in x.todo : Runs!NewDoc.projects[p] = None
  BY <1>3, <1>4
<1> HIDE DEF Runs!IInv
<1> QED BY ZenonT(40), <1>2, <1>3, <1>4, <1>5, <1>6, <1>7, <1>8, FileWritten

LEMMA RunReports ==
    ASSUME Runs!IInv, NEW w \in Runs!Writers, NEW p \in Projects, NEW result \in Runs!Results,
           Runs!Report(w, p, result)
    PROVE  Runs!IInv' /\ FinalStep
<1> USE DEF Runs!IInv
<1> DEFINE r == writer[w]
           id == r.id
           file == runs[id]
           doc == [file EXCEPT !.projects = [file.projects EXCEPT ![p] = result]]
           x == [r EXCEPT !.todo = r.todo \ {p}, !.step = IF file = None THEN "work" ELSE "write",
                          !.doc = IF file = None THEN None ELSE doc]
<1>1. /\ r.step = "work" /\ p \in r.todo /\ UNCHANGED <<runs, second>>
      /\ writer' = [writer EXCEPT ![w] = x]
  BY DEF Runs!Report
<1>2. /\ r \in Place /\ Runs!Active(w) /\ id \in Ids /\ file \in Runs!Docs \cup {None}
      /\ file # None => ~file.finished /\ \A q \in r.todo : file.projects[q] = None
  BY <1>1 DEF Runs!TypeOK, Runs!RunsOwned, Runs!InHand, Runs!Active, Place
<1>3. ASSUME file # None
      PROVE  /\ doc \in Runs!Docs /\ ~doc.finished
             /\ \A q \in r.todo \ {p} : doc.projects[q] = None
             /\ Runs!Extends(doc, file)
  <2>1. file \in Runs!Docs /\ file.projects \in Runs!Table /\ r.todo \subseteq Projects
    BY <1>2, <1>3 DEF Runs!Docs, Place
  <2>2. [file.projects EXCEPT ![p] = result] \in Runs!Table
    BY <2>1 DEF Runs!Table
  <2>3. /\ doc \in Runs!Docs /\ doc.finished = file.finished
        /\ doc.projects = [file.projects EXCEPT ![p] = result]
    BY <2>1, <2>2 DEF Runs!Docs
  <2> HIDE DEF doc
  <2>4. \A q \in Projects : doc.projects[q] = IF q = p THEN result ELSE file.projects[q]
    BY <2>1, <2>3 DEF Runs!Table
  <2> QED BY <1>1, <1>2, <1>3, <2>1, <2>3, <2>4 DEF Runs!Extends
<1> HIDE DEF doc
<1>4. /\ x \in Place /\ x.id = id /\ x.todo = r.todo \ {p}
      /\ x.step = (IF file = None THEN "work" ELSE "write") /\ x.doc = (IF file = None THEN None ELSE doc)
  BY <1>2, <1>3 DEF Place
<1> HIDE DEF x
<1> QED BY <1>1, <1>2, <1>3, <1>4, HandChanged

LEMMA RunFinishes ==
    ASSUME Runs!IInv, NEW w \in Runs!Writers, Runs!Finish(w)
    PROVE  Runs!IInv' /\ FinalStep
<1> USE DEF Runs!IInv
<1> DEFINE r == writer[w]
           id == r.id
           file == runs[id]
           status == Runs!StatusOf(file.projects)
           doc == [file EXCEPT !.finished = TRUE, !.status = status]
           x == [r EXCEPT !.step = "close", !.doc = doc]
<1>1. r.step = "work" /\ r.todo = {} /\ UNCHANGED <<runs, second>>
  BY DEF Runs!Finish
<1>2. r \in Place /\ Runs!Active(w) /\ id \in Ids /\ file \in Runs!Docs \cup {None}
  BY <1>1 DEF Runs!TypeOK, Runs!RunsOwned, Runs!Active, Place
<1>3. status \in {"success", "partial", "failed"}
  BY DEF Runs!StatusOf
<1>4. Runs!NoRun \in Place /\ Runs!NoRun.step = "idle"
  BY DEF Runs!NoRun, Place
<1>5. CASE file = None
  <2>1. writer' = [writer EXCEPT ![w] = Runs!NoRun]
    BY <1>5 DEF Runs!Finish
  <2> QED BY <1>1, <1>2, <1>4, <2>1, HandChanged
<1>6. CASE file # None
  <2>1. writer' = [writer EXCEPT ![w] = x]
    BY <1>6 DEF Runs!Finish
  <2> HIDE DEF status
  <2>2. doc \in Runs!Docs /\ doc.projects = file.projects
    BY <1>2, <1>3, <1>6 DEF Runs!Docs
  <2>3. Runs!Extends(doc, file)
    BY <2>2 DEF Runs!Extends
  <2> HIDE DEF doc
  <2>4. x \in Place /\ x.step = "close" /\ x.id = id /\ x.todo = r.todo /\ x.doc = doc
    BY <1>2, <2>2 DEF Place
  <2> HIDE DEF x
  <2> QED BY <1>1, <1>2, <2>1, <2>2, <2>3, <2>4, HandChanged
<1> QED BY <1>5, <1>6

LEMMA RunWrites ==
    ASSUME Runs!IInv, NEW w \in Runs!Writers, Runs!Write(w)
    PROVE  Runs!IInv' /\ FinalStep
<1> USE DEF Runs!IInv
<1> DEFINE r == writer[w]
           x == IF r.step = "close" THEN Runs!NoRun ELSE [r EXCEPT !.step = "work", !.doc = None]
<1>1. r.step \in {"write", "close"} /\ second' = second
  BY DEF Runs!Write
<1>2. /\ r \in Place /\ Runs!Active(w) /\ r.id \in Ids /\ r.id[1] <= second
      /\ \A v \in Runs!Writers : v # w /\ Runs!Active(v) => writer[v].id # r.id
  BY <1>1 DEF Runs!TypeOK, Runs!RunsOwned, Runs!Active, Place
<1>3. /\ r.doc \in Runs!Docs
      /\ runs[r.id] # None => ~runs[r.id].finished /\ Runs!Extends(r.doc, runs[r.id])
      /\ r.step = "write" => ~r.doc.finished /\ \A p \in r.todo : r.doc.projects[p] = None
  BY <1>1, <1>2 DEF Runs!InHand
<1>4. Runs!NoRun \in Place /\ Runs!NoRun.step = "idle"
  BY DEF Runs!NoRun, Place
<1>5. /\ x \in Place
      /\ x.step = "idle" \/ (r.step = "write" /\ x.step = "work" /\ x.id = r.id /\ x.todo = r.todo)
  BY <1>1, <1>2, <1>4 DEF Place
<1>6. \/ runs' = Runs!Written(r.id, r.doc) /\ writer' = [writer EXCEPT ![w] = x]
      \/ UNCHANGED runs /\ writer' = [writer EXCEPT ![w] = x]
      \/ UNCHANGED runs /\ writer' = [writer EXCEPT ![w] = Runs!NoRun]
  BY DEF Runs!Write
<1>7. second \in Runs!Seconds /\ second \in Nat
  BY IdFacts DEF Runs!TypeOK
<1> HIDE DEF x, r
<1>8. CASE runs' = Runs!Written(r.id, r.doc) /\ writer' = [writer EXCEPT ![w] = x]
  <2>1. second <= second' /\ second' \in Runs!Seconds /\ r.id[1] <= second'
    BY <1>1, <1>2, <1>7
  <2>2. \/ x.step = "idle"
        \/ x.step = "work" /\ x.id = r.id /\ ~r.doc.finished /\ \A p \in x.todo : r.doc.projects[p] = None
    BY <1>3, <1>5
  <2> HIDE DEF Runs!IInv
  <2> QED BY <1>2, <1>3, <1>5, <1>8, <2>1, <2>2, FileWritten
<1>9. CASE UNCHANGED runs /\ writer' = [writer EXCEPT ![w] = x]
  BY <1>1, <1>2, <1>5, <1>9, HandChanged DEF r
<1>10. CASE UNCHANGED runs /\ writer' = [writer EXCEPT ![w] = Runs!NoRun]
  BY <1>1, <1>2, <1>4, <1>10, HandChanged
<1> QED BY <1>6, <1>8, <1>9, <1>10

LEMMA RunsNext ==
    ASSUME "overlap" \notin Faults
    PROVE  Runs!IInv /\ [Next]_vars => Runs!IInv' /\ FinalStep
<1> SUFFICES ASSUME Runs!IInv, [Next]_vars PROVE Runs!IInv' /\ FinalStep
  OBVIOUS
<1>1. CASE UNCHANGED runLogVars
  BY <1>1, RunsIdle
<1>2. ASSUME NEW ws, Runs!Dead(ws) PROVE Runs!IInv' /\ FinalStep
  BY <1>2, RunsDie
<1>3. CASE LogRuns
  <2>1. CASE Runs!NightStarts \/ \E b \in Builders : Runs!BuildStarts(b)
    <3>1. \E w \in Runs!Writers, todo \in SUBSET Projects : Runs!Start(w, todo)
      BY <2>1, IdFacts DEF Runs!NightStarts, Runs!BuildStarts, Runs!Writers
    <3> QED BY <3>1, RunStarts
  <2>2. CASE Runs!NightDies
    BY <1>2, <2>2 DEF Runs!NightDies
  <2>3. ASSUME NEW w \in Runs!Writers, Runs!Step(w) PROVE Runs!IInv' /\ FinalStep
    <3>1. CASE Runs!Create(w)
      BY <3>1 DEF Runs!Create, Runs!IInv, Runs!RunsOwned, Runs!Active
    <3> QED BY <2>3, <3>1, RunReports, RunFinishes, RunWrites DEF Runs!Step
  <2> QED BY <1>3, <2>1, <2>2, <2>3 DEF LogRuns
<1>4. CASE SetUpHub \/ RestartFromWizard \/ ServerCrashes \/ RestartFromScript
  BY <1>1, <1>2, <1>4 DEF SetUpHub, RestartFromWizard, ServerReplaced, ServerCrashes,
     RestartFromScript
<1>5. CASE ServerBoots \/ RollOut \/ UNCHANGED vars
  BY <1>1, <1>5 DEF ServerBoots, RollOut, vars
<1> QED BY <1>3, <1>4, <1>5 DEF Next

\* No run unsays what it or another has told, whoever is killed, whichever write
\* fails and however many files are rotated away, for any number of runs and
\* builders, if a free id is claimed in the step that finds it.
THEOREM FinalIsFinal ==
    ASSUME "overlap" \notin Faults
    PROVE  Spec => RunsAreFinal
<1>1. Runs!IInv /\ [Next]_vars => Runs!IInv'
  BY RunsNext
<1>2. Runs!IInv /\ [Next]_vars => [FinalStep]_runLogVars
  BY RunsNext
<1>3. Spec => [][FinalStep]_runLogVars
  BY <1>1, <1>2, RunsInit, PTL DEF Spec
<1> QED BY <1>3 DEF RunsAreFinal, Runs!RunsAreFinal, FinalStep, runLogVars, Runs!runLogVars
===============================================================================
