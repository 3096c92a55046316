----------------------------- MODULE SetupWizard -----------------------------
(* First start of the hub (setup_wizard.py): the wizard writes a key and a      *)
(* token into the env file, makes them good in the running process, creates    *)
(* the vault and shows the key.  Later the env file gets the passphrase of the *)
(* backups.  A restart of the service reads the env file again.  The handlers  *)
(* share one event loop, so they meet only where they wait for a request body; *)
(* between two writes of one handler there are crashes and a full disk.        *)
EXTENDS Integers

CONSTANTS Keys,        \* values of VAULT_KEY, the token of a set-up goes with them
          Submitters,  \* browsers at /ui/setup
          None,
          Faults       \* {"disk", "kill"}

VARIABLES
    env,      \* the env file: its VAULT_KEY, or None, and whether it has a passphrase
    live,     \* the same in the environment of the running server
    vault,    \* the key the env wrap of the vault was made with, None is no vault
    submit,   \* browsers whose request waits for its body
    up,       \* whether the server runs
    shown     \* history: the keys shown to the user, with the passphrase as "passphrase"

setupVars == <<env, live, vault, submit, up, shown>>

Secrets == [key: Keys \cup {None}, passphrase: BOOLEAN]
NoSecrets == [key |-> None, passphrase |-> FALSE]

TypeOK ==
    /\ env \in Secrets /\ live \in Secrets /\ vault \in Keys \cup {None}
    /\ submit \subseteq Submitters /\ up \in BOOLEAN
    /\ shown \subseteq Keys \cup {"passphrase"}

Init ==
    /\ env = NoSecrets /\ live = NoSecrets /\ vault = None
    /\ submit = {} /\ up = TRUE /\ shown = {}

------------------------------------------------------------------------------
\* is_configured: the env file is whole and there is a vault.
Configured == env.key # None /\ vault # None

\* MUTANT: the brake asks whether the hub is set up, not whether there is a vault
NoVault_ByEnv == ~Configured
NoVault == vault = None

\* MUTANT: the check is not repeated under the lock
Refuses_First(s) == s \notin submit /\ (Configured \/ ~NoVault)
\* The wizard refuses: the hub is set up, or it has a vault although the env file
\* has lost the key.  Asked when the request comes and again under the lock.
Refuses(s) == Configured \/ ~NoVault

\* The handler answers at once, or waits for the body of the request.
Submit(s) ==
    /\ up /\ s \notin submit /\ ~Refuses(s)
    /\ submit' = submit \cup {s}
    /\ UNCHANGED <<env, live, vault, up, shown>>

\* The body is bad, or somebody else was faster.
Refused(s) ==
    /\ up /\ s \in submit
    /\ submit' = submit \ {s}
    /\ UNCHANGED <<env, live, vault, up, shown>>

\* A handler that writes `writes` times, and then answers, ends after n of its
\* writes: it is through, the next write raises, or it dies.
EndsAfter(n, writes, raises) ==
    \/ n = writes + 1 /\ UNCHANGED up
    \/ n < writes /\ ("disk" \in Faults \/ raises) /\ UNCHANGED up
    \/ n <= writes /\ "kill" \in Faults /\ up' = FALSE

\* The env file is emptied and then written; what it had is kept.
EnvWritten(n, secrets) == env' = IF n = 0 THEN NoSecrets ELSE secrets

\* Keys are random: none comes twice.
FreshKeys == Keys \ ({env.key, live.key, vault} \cup shown)

\* The section under _setup_lock: env file and environment, vault, config.yaml
\* (which the properties do not look into).  vault.init raises when there is a vault.
SetUp(s) ==
    /\ up /\ s \in submit /\ ~Refuses(s)
    /\ submit' = submit \ {s}
    /\ \E k \in FreshKeys, n \in 0..4 :
          /\ EndsAfter(n, 3, ~NoVault)
          /\ n >= 2 => NoVault
          /\ EnvWritten(n, [env EXCEPT !.key = k])
          /\ live' = IF n = 0 THEN live ELSE [live EXCEPT !.key = k]
          /\ vault' = IF n >= 2 THEN k ELSE vault
          /\ shown' = IF n = 4 THEN shown \cup {k} ELSE shown

\* backup_setup: a passphrase for the backups, for a hub that runs without one.
BackupSetup ==
    /\ up /\ vault # None /\ live.key # None /\ ~live.passphrase
    /\ \E n \in 0..2 :
          /\ EndsAfter(n, 1, FALSE)
          /\ EnvWritten(n, [env EXCEPT !.passphrase = TRUE])
          /\ live' = IF n = 0 THEN live ELSE [live EXCEPT !.passphrase = TRUE]
          /\ shown' = IF n = 2 THEN shown \cup {"passphrase"} ELSE shown
    /\ UNCHANGED <<vault, submit>>

\* The server stops; requests that wait are gone.
Stop ==
    /\ up' = FALSE /\ submit' = {}
    /\ UNCHANGED <<env, live, vault, shown>>
Crash == "kill" \in Faults /\ up /\ Stop

\* The service manager starts it again with the env file.
Booted ==
    /\ up' = TRUE /\ live' = env /\ submit' = {}
    /\ UNCHANGED <<env, vault, shown>>
Boot == ~up /\ Booted

\* setup_restart, asked for by a user who has logged in.
MayRestart == up /\ Configured
Restart == MayRestart /\ Booted

Next ==
    \/ \E s \in Submitters : Submit(s) \/ Refused(s) \/ SetUp(s)
    \/ BackupSetup \/ Crash \/ Restart \/ Boot
Spec == Init /\ [][Next]_setupVars

------------------------------------------------------------------------------
\* A hub that calls itself set up opens its vault, now and after the next
\* restart: two set-ups at once, or one cut short, never leave a key that does
\* not fit ("das zweite vault.init() überschrieb den frischen Vault des ersten",
\* setup_wizard.py:102).
ConfiguredOpens == up /\ Configured => env.key = vault /\ live.key = vault

\* What the user was told to write down is good for ever: the key opens the
\* vault, and the passphrase is the one the backups are made with.
ShownSecretsHold ==
    /\ shown \cap Keys \subseteq {vault}
    /\ "passphrase" \in shown => env.passphrase

\* What makes them inductive: a vault knows one key, and neither the env file nor
\* the server ever has another; a passphrase shown is in both.
KeysFit ==
    /\ vault # None => env.key \in {None, vault}
    /\ env.key # None => live.key = env.key
PassphraseKept == "passphrase" \in shown => vault # None /\ env.passphrase /\ live.passphrase

IInv == TypeOK /\ KeysFit /\ PassphraseKept /\ ShownSecretsHold

------------------------------------------------------------------------------
(* Not true of the code, see the README. *)

\* Who has a hub has seen its key ("Sicherheitskritisches (Vault-Key sichern!)
\* klar kommuniziert", setup_wizard.py:10).
ConfiguredMeansShown == Configured /\ submit = {} /\ up => vault \in shown

\* The key of a vault stays in the env file.
EnvKeepsKey == [][vault # None /\ env.key = vault => env'.key = vault']_setupVars
=============================================================================
