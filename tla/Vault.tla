-------------------------------- MODULE Vault --------------------------------
(***************************************************************************)
(* The secrets vault, src/vault.py.  Several processes (the server, the    *)
(* nightly job) with several threads each share one file vault.enc.  A     *)
(* data key encrypts the secrets; the file stores that key wrapped by a    *)
(* password and/or by the environment key VAULT_KEY.  Each process keeps   *)
(* the unwrapped key in memory (_mk).  Changes run in _transaktion(): the  *)
(* process's RLock, then the flock on vault.lock.  unlock() takes neither. *)
(*                                                                         *)
(* Data: a password is itself, scrypt and AES-GCM are "opens with exactly  *)
(* this key"; the file is replaced atomically (_write_file), so one write  *)
(* is one step, and a crash before it or an OSError in it (disk full)      *)
(* leaves the old file.                                                    *)
(***************************************************************************)
EXTENDS Naturals

CONSTANTS Procs, Threads, ProcOf,   \* ProcOf[t]: the process thread t runs in
          Names, Values, Passwords,
          Keys,                     \* 32-byte keys
          EnvKey,                   \* VAULT_KEY of the environment, or NoKey
          LegacyPassword,           \* OAUTH_PASSWORD of each process, or NoPw
          Allowed,                  \* Allowed[p]: the requests process p makes
          MayInit,                  \* processes that serve the setup wizard
          Missing, NoKey, NoPw, Free

NoReq   == [op |-> "none"]
SetReq  == [op : {"set"}, name : Names, val : Values]
NameReq == [op : {"get", "delete"}, name : Names]
AutoReq == [op : {"auto"}, on : BOOLEAN]
PassReq == [op : {"change"}, old : Passwords, new : Passwords]
LogReq  == [op : {"login", "create"}, word : Passwords]
Request == SetReq \cup NameReq \cup AutoReq \cup PassReq \cup LogReq

ASSUME VaultAssumption ==
    /\ ProcOf \in [Threads -> Procs]
    /\ NoKey \notin Keys /\ NoPw \notin Passwords
    /\ Free \notin Threads /\ Free \notin [Names -> Values \cup {Missing}]
    /\ Missing \notin Values /\ Values \cap {"none", "ok", "no", "refused"} = {}
    /\ Missing \notin {"none", "ok", "no", "refused"}
    /\ EnvKey \in Keys \cup {NoKey}
    /\ LegacyPassword \in [Procs -> Passwords \cup {NoPw}]
    /\ Allowed \in [Procs -> SUBSET Request]
    /\ \A p \in Procs : \A r \in Allowed[p] : r.op # "create"
    /\ MayInit \subseteq Procs

VARIABLES file,    \* vault.enc
          mk,      \* mk[p]: _mk of process p
          rlock,   \* rlock[p]: the thread of p that holds _RLOCK
          flock,   \* the thread that holds vault.lock
          pc,      \* where each thread is
          req,     \* the call it executes
          doc,     \* the document it read last
          keep,    \* verify_password's saved _mk
          ans      \* its answer, once determined

vars == <<file, mk, rlock, flock, pc, req, doc, keep, ans>>

KeyOrNone == Keys \cup {NoKey}
Store     == [Names -> Values \cup {Missing}]
PwWrap    == [word : Passwords \cup {NoPw}, key : KeyOrNone]
NoWrap    == [word |-> NoPw, key |-> NoKey]

\* ver 0: no file; 1: raw blob under VAULT_KEY; 2: wraps and data.
Doc    == [ver : 0..2, key : KeyOrNone, pw : PwWrap, env : KeyOrNone, data : Store]
Empty  == [n \in Names |-> Missing]
NoFile == [ver |-> 0, key |-> NoKey, pw |-> NoWrap, env |-> NoKey, data |-> Empty]

PC == {"idle", "peek", "wantR", "wantF", "crit", "prove", "loaded", "leave",
       "derive", "create"}
InTx == {"crit", "prove", "loaded", "leave"}   \* inside _transaktion()

Answers == Values \cup {Missing, "none", "ok", "no", "refused"}

TypeOK == /\ file \in Doc
          /\ mk \in [Procs -> KeyOrNone]
          /\ rlock \in [Procs -> Threads \cup {Free}]
          /\ flock \in Threads \cup {Free}
          /\ pc \in [Threads -> PC]
          /\ req \in [Threads -> Request \cup {NoReq}]
          /\ doc \in [Threads -> Doc]
          /\ keep \in [Threads -> KeyOrNone]
          /\ ans \in [Threads -> Answers]

Legacy(s) == [ver |-> 1, key |-> EnvKey, pw |-> NoWrap, env |-> NoKey, data |-> s]

\* A fresh installation, or one whose vault still has the old format.
Init == /\ file \in {NoFile} \cup {Legacy(s) : s \in Store}
        /\ mk    = [p \in Procs |-> NoKey]
        /\ rlock = [p \in Procs |-> Free]
        /\ flock = Free
        /\ pc    = [t \in Threads |-> "idle"]
        /\ req   = [t \in Threads |-> NoReq]
        /\ doc   = [t \in Threads |-> NoFile]
        /\ keep  = [t \in Threads |-> NoKey]
        /\ ans   = [t \in Threads |-> "none"]
------------------------------------------------------------------------------
\* _key(): the key in memory, else the one the environment's wrap yields.
KeyOf(p) == IF mk[p] # NoKey THEN mk[p]
            ELSE IF EnvKey # NoKey THEN file.env ELSE NoKey

\* secrets.token_bytes(32): a key nobody else has.
Fresh(k) == /\ k \in Keys \ {EnvKey, file.key}
            /\ \A p \in Procs : mk[p] # k

\* _new_vault(): data key k wrapped by the password, and by VAULT_KEY if set.
NewVault(word, k, s) ==
    [ver |-> 2, key |-> k, pw |-> [word |-> word, key |-> k],
     env |-> IF EnvKey # NoKey THEN k ELSE NoKey, data |-> s]

\* _migrate_v1(): without a known password only the environment can unwrap.
Migrated(p, d, k) ==
    IF LegacyPassword[p] # NoPw
       THEN NewVault(LegacyPassword[p], k, d.data)
       ELSE [ver |-> 2, key |-> EnvKey, pw |-> NoWrap, env |-> EnvKey, data |-> d.data]

Goto(t, l)    == pc' = [pc EXCEPT ![t] = l]
\* The call leaves its transaction with answer a.
Answer(t, a)  == /\ ans' = [ans EXCEPT ![t] = a]
                 /\ Goto(t, "leave")
\* A call that holds no lock returns.
Finish(t)     == /\ Goto(t, "idle")
                 /\ req' = [req EXCEPT ![t] = NoReq]
                 /\ ans' = [ans EXCEPT ![t] = "none"]
                 /\ doc' = [doc EXCEPT ![t] = NoFile]
                 /\ keep' = [keep EXCEPT ![t] = NoKey]
SetMk(t, k)   == mk' = [mk EXCEPT ![ProcOf[t]] = k]
Snapshot(t)   == doc' = [doc EXCEPT ![t] = file]
------------------------------------------------------------------------------
\* MUTANT: the calls that re-wrap keys read and write outside _transaktion().
Begin_NoTransaction(t) ==
    /\ pc[t] = "idle"
    /\ \E r \in Allowed[ProcOf[t]] :
          /\ req' = [req EXCEPT ![t] = r]
          /\ Goto(t, IF r.op = "login" THEN "peek"
                     ELSE IF r.op \in {"auto", "change"} THEN "crit" ELSE "wantR")
    /\ UNCHANGED <<file, mk, rlock, flock, doc, keep, ans>>

\* A caller enters a public function.  unlock() starts without a lock.
Begin(t) ==
    /\ pc[t] = "idle"
    /\ \E r \in Allowed[ProcOf[t]] :
          /\ req' = [req EXCEPT ![t] = r]
          /\ Goto(t, IF r.op = "login" THEN "peek" ELSE "wantR")
    /\ UNCHANGED <<file, mk, rlock, flock, doc, keep, ans>>

TakeThreadLock(t) ==
    /\ pc[t] = "wantR"
    /\ rlock[ProcOf[t]] = Free
    /\ rlock' = [rlock EXCEPT ![ProcOf[t]] = t]
    /\ Goto(t, "wantF")
    /\ UNCHANGED <<file, mk, flock, req, doc, keep, ans>>

\* MUTANT: a thread lock alone, no flock between the processes.
TakeFileLock_ThreadOnly(t) ==
    /\ pc[t] = "wantF"
    /\ flock' = t
    /\ Goto(t, "crit")
    /\ UNCHANGED <<file, mk, rlock, req, doc, keep, ans>>

TakeFileLock(t) ==
    /\ pc[t] = "wantF"
    /\ flock = Free
    /\ flock' = t
    /\ Goto(t, "crit")
    /\ UNCHANGED <<file, mk, rlock, req, doc, keep, ans>>

Leave(t) ==
    /\ pc[t] = "leave"
    /\ flock' = Free
    /\ rlock' = [rlock EXCEPT ![ProcOf[t]] = Free]
    /\ Finish(t)
    /\ UNCHANGED <<file, mk>>
------------------------------------------------------------------------------
\* MUTANT: the exception leaves the transaction without its finally.
Unavailable_NoFinally(t) ==
    /\ pc[t] = "crit"
    /\ file.ver = 0 \/ (file.ver = 1 /\ EnvKey = NoKey)
    /\ Finish(t)
    /\ UNCHANGED <<file, mk, rlock, flock>>

\* _doc() inside the transaction: no file, or an old one nobody can read.
Unavailable(t) ==
    /\ pc[t] = "crit"
    /\ file.ver = 0 \/ (file.ver = 1 /\ EnvKey = NoKey)
    /\ Answer(t, "refused")
    /\ UNCHANGED <<file, mk, rlock, flock, req, doc, keep>>

\* MUTANT: the file is not read again once the locks are held.
Migrate_Stale(t) ==
    /\ pc[t] = "crit"
    /\ 1 \in {file.ver, doc[t].ver} /\ EnvKey # NoKey
    /\ \E k \in Keys : /\ Fresh(k)
                       /\ file' = Migrated(ProcOf[t], IF doc[t].ver = 1 THEN doc[t] ELSE file, k)
    /\ UNCHANGED <<mk, rlock, flock, pc, req, doc, keep, ans>>

\* _doc() finds the old format, now that it holds the locks: it migrates.
Migrate(t) ==
    /\ pc[t] = "crit"
    /\ file.ver = 1 /\ EnvKey # NoKey
    /\ \E k \in Keys : Fresh(k) /\ file' = Migrated(ProcOf[t], file, k)
    /\ UNCHANGED <<mk, rlock, flock, pc, req, doc, keep, ans>>

InDoc(t, ops) == /\ pc[t] = "crit" /\ file.ver = 2
                 /\ req[t].op \in ops

\* secret_*: _load() = _read_data(_doc(), _key()); reading calls end here.
Load(t) ==
    LET k == KeyOf(ProcOf[t]) IN
    /\ InDoc(t, {"set", "get", "delete"})
    /\ SetMk(t, k)
    /\ \/ /\ k # file.key            \* VaultLocked, or VaultCorrupt
          /\ Answer(t, "refused")
          /\ UNCHANGED doc
       \/ /\ k = file.key /\ req[t].op = "get"
          /\ Answer(t, file.data[req[t].name])
          /\ UNCHANGED doc
       \/ /\ k = file.key /\ req[t].op # "get"
          /\ Snapshot(t)
          /\ Goto(t, "loaded")
          /\ UNCHANGED ans
    /\ UNCHANGED <<file, rlock, flock, req, keep>>

NewValue(r) == IF r.op = "set" THEN r.val ELSE Missing

\* _save(): the document is read again, the store is the one _load() read.
Save(t) ==
    LET k == KeyOf(ProcOf[t]) IN
    /\ pc[t] = "loaded" /\ req[t].op \in {"set", "delete"}
    /\ SetMk(t, k)
    /\ IF k = NoKey
          THEN Answer(t, "refused") /\ UNCHANGED file
          ELSE /\ file' = [file EXCEPT !.key = k,
                              !.data = [doc[t].data EXCEPT ![req[t].name] = NewValue(req[t])]]
               /\ Answer(t, IF req[t].op = "set" \/ doc[t].data[req[t].name] # Missing
                               THEN "ok" ELSE "no")
    /\ UNCHANGED <<rlock, flock, req, doc, keep>>

\* set_auto_unlock(on): read, get the key, refuse to switch on without VAULT_KEY.
LoadAuto(t) ==
    LET k == KeyOf(ProcOf[t]) IN
    /\ InDoc(t, {"auto"})
    /\ SetMk(t, k)
    /\ \/ k = NoKey /\ Answer(t, "refused") /\ UNCHANGED doc
       \/ k # NoKey /\ req[t].on /\ EnvKey = NoKey /\ Answer(t, "no") /\ UNCHANGED doc
       \/ /\ k # NoKey /\ ~(req[t].on /\ EnvKey = NoKey)
          /\ Snapshot(t)
          /\ Goto(t, "loaded")
          /\ UNCHANGED ans
    /\ UNCHANGED <<file, rlock, flock, req, keep>>

\* MUTANT: switching off also locks the vault, as if a password could open it.
SaveAuto_Locks(t) ==
    /\ pc[t] = "loaded" /\ req[t].op = "auto"
    /\ file' = [doc[t] EXCEPT !.env = IF req[t].on THEN mk[ProcOf[t]] ELSE NoKey]
    /\ IF req[t].on THEN UNCHANGED mk ELSE SetMk(t, NoKey)
    /\ Answer(t, "ok")
    /\ UNCHANGED <<rlock, flock, req, doc, keep>>

SaveAuto(t) ==
    /\ pc[t] = "loaded" /\ req[t].op = "auto"
    /\ file' = [doc[t] EXCEPT !.env = IF req[t].on THEN mk[ProcOf[t]] ELSE NoKey]
    /\ Answer(t, "ok")
    /\ UNCHANGED <<mk, rlock, flock, req, doc, keep>>

\* change_password(): a vault without a password wrap asks for no proof.
LoadChange(t) ==
    /\ InDoc(t, {"change"})
    /\ Snapshot(t)
    /\ \/ /\ file.pw # NoWrap
          /\ keep' = [keep EXCEPT ![t] = mk[ProcOf[t]]]
          /\ Goto(t, "prove")
          /\ UNCHANGED <<mk, ans>>
       \/ /\ file.pw = NoWrap
          /\ SetMk(t, KeyOf(ProcOf[t]))
          /\ IF KeyOf(ProcOf[t]) = NoKey
                THEN Answer(t, "refused")
                ELSE Goto(t, "loaded") /\ UNCHANGED ans
          /\ UNCHANGED keep
    /\ UNCHANGED <<file, rlock, flock, req>>

\* MUTANT: an unlocked vault asks for no proof of the old password.
Prove_NotIfOpen(t) ==
    /\ pc[t] = "prove"
    /\ \/ /\ keep[t] # NoKey \/ doc[t].pw.word = req[t].old
          /\ SetMk(t, doc[t].pw.key)
          /\ Snapshot(t)
          /\ Goto(t, "loaded")
          /\ UNCHANGED ans
       \/ /\ keep[t] = NoKey /\ doc[t].pw.word # req[t].old
          /\ SetMk(t, keep[t])
          /\ Answer(t, "no")
          /\ UNCHANGED doc
    /\ UNCHANGED <<file, rlock, flock, req, keep>>

\* verify_password(old): a wrong one puts the saved _mk back; a right one
\* leaves the unwrapped key in _mk, and the document is read again.
Prove(t) ==
    /\ pc[t] = "prove"
    /\ \/ /\ doc[t].pw.word = req[t].old
          /\ SetMk(t, doc[t].pw.key)
          /\ Snapshot(t)
          /\ Goto(t, "loaded")
          /\ UNCHANGED ans
       \/ /\ doc[t].pw.word # req[t].old
          /\ SetMk(t, keep[t])
          /\ Answer(t, "no")
          /\ UNCHANGED doc
    /\ UNCHANGED <<file, rlock, flock, req, keep>>

\* MUTANT: the key in memory before the proof is wrapped, not the one it yielded.
SaveChange_KeptKey(t) ==
    /\ pc[t] = "loaded" /\ req[t].op = "change"
    /\ file' = [doc[t] EXCEPT !.pw = [word |-> req[t].new, key |-> keep[t]]]
    /\ Answer(t, "ok")
    /\ UNCHANGED <<mk, rlock, flock, req, doc, keep>>

SaveChange(t) ==
    /\ pc[t] = "loaded" /\ req[t].op = "change"
    /\ file' = [doc[t] EXCEPT !.pw = [word |-> req[t].new, key |-> mk[ProcOf[t]]]]
    /\ Answer(t, "ok")
    /\ UNCHANGED <<mk, rlock, flock, req, doc, keep>>

\* _write_file() raises OSError inside the transaction: the old file stays, and
\* the exception ends the call (of set, delete, auto, change, or of a migration).
WriteFails(t) ==
    /\ pc[t] = "loaded" \/ (pc[t] = "crit" /\ file.ver = 1 /\ EnvKey # NoKey)
    /\ Answer(t, "refused")
    /\ UNCHANGED <<file, mk, rlock, flock, req, doc, keep>>
------------------------------------------------------------------------------
\* unlock(password), the login: reads without a lock, and only a file of the
\* old format sends it into a transaction.
Peek(t) ==
    /\ pc[t] = "peek"
    /\ \/ file.ver = 0 /\ Finish(t)
       \/ file.ver = 1 /\ Goto(t, "wantR") /\ Snapshot(t) /\ UNCHANGED <<req, keep, ans>>
       \/ file.ver = 2 /\ Goto(t, "derive") /\ Snapshot(t) /\ UNCHANGED <<req, keep, ans>>
    /\ UNCHANGED <<file, mk, rlock, flock>>

\* ... which ends with the migrated document.
Adopt(t) ==
    /\ InDoc(t, {"login"})
    /\ Snapshot(t)
    /\ flock' = Free
    /\ rlock' = [rlock EXCEPT ![ProcOf[t]] = Free]
    /\ Goto(t, "derive")
    /\ UNCHANGED <<file, mk, req, keep, ans>>

\* scrypt, then the unwrapped key goes into memory.
Derive(t) ==
    /\ pc[t] = "derive"
    /\ IF doc[t].pw.word = req[t].word THEN SetMk(t, doc[t].pw.key) ELSE UNCHANGED mk
    /\ Finish(t)
    /\ UNCHANGED <<file, rlock, flock>>

\* The setup wizard: exists-check and init() run under _setup_lock.
BeginInit(t) ==
    /\ pc[t] = "idle" /\ ProcOf[t] \in MayInit
    /\ file.ver = 0
    /\ \A u \in Threads : pc[u] # "create"
    /\ \E w \in Passwords : req' = [req EXCEPT ![t] = [op |-> "create", word |-> w]]
    /\ Goto(t, "create")
    /\ UNCHANGED <<file, mk, rlock, flock, doc, keep, ans>>

Create(t) ==
    /\ pc[t] = "create"
    /\ \E k \in Keys : /\ Fresh(k)
                       /\ file' = NewVault(req[t].word, k, Empty)
                       /\ SetMk(t, k)
    /\ Finish(t)
    /\ UNCHANGED <<rlock, flock>>

\* ... or _write_file() raises: no vault, and _mk is not set.
CreateFails(t) ==
    /\ pc[t] = "create"
    /\ Finish(t)
    /\ UNCHANGED <<file, mk, rlock, flock>>
------------------------------------------------------------------------------
\* A process dies or is restarted: memory and locks go, the file stays.
Crash(p) ==
    LET dead == {t \in Threads : ProcOf[t] = p} IN
    /\ mk[p] # NoKey \/ \E t \in dead : pc[t] # "idle"
    /\ mk' = [mk EXCEPT ![p] = NoKey]
    /\ rlock' = [rlock EXCEPT ![p] = Free]
    /\ flock' = IF flock \in dead THEN Free ELSE flock
    /\ pc'   = [t \in Threads |-> IF t \in dead THEN "idle" ELSE pc[t]]
    /\ req'  = [t \in Threads |-> IF t \in dead THEN NoReq ELSE req[t]]
    /\ doc'  = [t \in Threads |-> IF t \in dead THEN NoFile ELSE doc[t]]
    /\ keep' = [t \in Threads |-> IF t \in dead THEN NoKey ELSE keep[t]]
    /\ ans'  = [t \in Threads |-> IF t \in dead THEN "none" ELSE ans[t]]
    /\ UNCHANGED file

\* What a thread does on its own once it has started a call.
Step(t) ==
    \/ TakeThreadLock(t) \/ TakeFileLock(t) \/ Leave(t)
    \/ Unavailable(t) \/ Migrate(t)
    \/ Load(t) \/ Save(t)
    \/ LoadAuto(t) \/ SaveAuto(t)
    \/ LoadChange(t) \/ Prove(t) \/ SaveChange(t)
    \/ WriteFails(t)
    \/ Peek(t) \/ Adopt(t) \/ Derive(t)
    \/ Create(t) \/ CreateFails(t)

Next == \/ \E t \in Threads : Begin(t) \/ BeginInit(t) \/ Step(t)
        \/ \E p \in Procs : Crash(p)

Spec == Init /\ [][Next]_vars
FairSpec == Spec /\ \A t \in Threads : WF_vars(Step(t))
------------------------------------------------------------------------------
(* Properties *)

\* Every key the system holds opens the secrets: the password's wrap, the
\* environment's wrap and each process's _mk are the data key of the file
\* (change_password and set_auto_unlock re-wrap, two migrations never race).
KeysOpenVault ==
    /\ file.ver = 2 => /\ file.pw = NoWrap \/ (file.pw.word # NoPw /\ file.pw.key = file.key)
                       /\ file.env \in {NoKey, file.key}
                       /\ file.key # NoKey
    /\ \A p \in Procs : mk[p] # NoKey => file.ver = 2 /\ mk[p] = file.key

\* Whoever starts anew can open document d: by a password or by VAULT_KEY.
Opens(d) == d.pw # NoWrap \/ (EnvKey # NoKey /\ d.env # NoKey)

\* After a restart somebody can still open the vault (set_auto_unlock: "bis sich
\* jemand anmeldet").  False for a vault migrated without a password: no run and
\* no theorem claims it; OnlyRestartLocksOut is what remains.
CanBeReopened == file.ver = 2 => Opens(file)

\* Nobody is locked out by a call alone.  A vault the wizard makes has a password
\* and keeps one for ever; one migrated without a password (_migrate_v1) starts
\* with the environment's wrap, and if set_auto_unlock(False) takes that, the key
\* some process holds in memory can still give it a password: only a restart ends
\* that, whatever calls, failed writes and logins ran before it.
OnlyRestartLocksOut ==
    [][/\ file.ver = 0 /\ file'.ver # 0 => file'.pw # NoWrap
       /\ file.ver = 1 /\ file'.ver = 2 => Opens(file')
       /\ file.ver = 2 /\ file.pw # NoWrap => file'.pw # NoWrap
       /\ /\ file.ver = 2
          /\ Opens(file) \/ \E p \in Procs : mk[p] # NoKey
          /\ ~Opens(file') /\ \A p \in Procs : mk'[p] = NoKey
          => \E p \in Procs : Crash(p)]_vars

\* The data key is chosen once: no later call, second migration or second
\* init() replaces it, or replaces the new format by the old one.
DataKeyIsForever ==
    [][file.ver = 2 => file'.ver = 2 /\ file'.key = file.key]_vars

\* A password gives way only to a change_password that named it: of two
\* concurrent changes from the same old password at most one succeeds.
OnlyHolderChangesPassword ==
    [][(file.ver = 2 /\ file.pw # NoWrap /\ file'.pw # file.pw) =>
          \E t \in Threads : /\ req[t].op = "change"
                             /\ req[t].old = file.pw.word
                             /\ file'.pw.word = req[t].new]_vars

\* Only a restart closes a vault a login has opened: no other call takes the key
\* out of a process's memory when the environment cannot put it back
\* (verify_password: "ohne den Zustand zu ändern", "Zustand nicht zerstören").
StaysUnlocked ==
    [][\A p \in Procs : (mk[p] # NoKey /\ KeyOf(p)' = NoKey) => Crash(p)]_vars

\* No lost update: whoever is about to write back what it read holds the lock,
\* and what it read is still what the file says, whatever other threads,
\* processes, logins and migrations did in between.
SnapshotsAreCurrent ==
    \A t \in Threads : pc[t] \in {"prove", "loaded"} => /\ flock = t
                                                        /\ doc[t] = file

\* A taken file lock is given back, on the error paths too (the finally of
\* _transaktion): no process keeps the others out for good.
FileLockReleased == \A t \in Threads : flock = t ~> flock # t

\* The vault implements the atomic map its callers rely on.
SecretCall(t) == req[t].op \in {"set", "get", "delete"}
absStore == IF file.ver = 0 THEN Free ELSE file.data
absCall  == [t \in Threads |-> IF SecretCall(t) THEN req[t] ELSE NoReq]
absAns   == [t \in Threads |-> IF SecretCall(t) THEN ans[t] ELSE "none"]
Abstract == INSTANCE SecretStore WITH Clients <- Threads, NoStore <- Free,
                                      store <- absStore, call <- absCall, ans <- absAns
ImplementsSecretStore == Abstract!Spec
------------------------------------------------------------------------------
(* The inductive invariant behind the safety properties.                   *)

\* Who is inside a transaction holds both locks; who waits for the file lock
\* already holds its process's lock.
LocksHeld ==
    \A t \in Threads : /\ pc[t] \in InTx => flock = t
                       /\ pc[t] \in InTx \cup {"wantF"} => rlock[ProcOf[t]] = t

\* Which call can be at which place.
CallsFit ==
    \A t \in Threads : /\ pc[t] = "idle" => req[t] = NoReq /\ ans[t] = "none"
                       /\ pc[t] # "idle" => req[t] # NoReq
                       /\ pc[t] # "leave" => ans[t] = "none"
                       /\ pc[t] = "leave" => ans[t] # "none"
                       /\ pc[t] = "prove" => req[t].op = "change"
                       /\ pc[t] \in {"peek", "derive"} => req[t].op = "login"
                       /\ pc[t] = "create" <=> req[t].op = "create"
                       /\ pc[t] = "loaded" => req[t].op # "login"

\* What a thread has read: a transaction the file itself, a login a document
\* whose password still wraps the file's key.
ReadsFit ==
    \A t \in Threads :
        /\ pc[t] \in {"prove", "loaded"} => doc[t] = file /\ file.ver = 2
        /\ pc[t] = "prove" => keep[t] \in {NoKey, file.key} /\ file.pw # NoWrap
        /\ pc[t] = "loaded" => mk[ProcOf[t]] = file.key
        /\ pc[t] = "loaded" /\ req[t].op = "change" =>
              file.pw = NoWrap \/ file.pw.word = req[t].old
        /\ pc[t] = "derive" => /\ file.ver = 2
                               /\ doc[t].pw = NoWrap \/ doc[t].pw.key = file.key

\* The wizard creates a vault only where there is none, one wizard at a time.
OneWizard ==
    \A t \in Threads : pc[t] = "create" =>
        /\ file.ver = 0
        /\ \A u \in Threads : pc[u] = "create" => u = t

IInv == TypeOK /\ LocksHeld /\ CallsFit /\ ReadsFit /\ OneWizard /\ KeysOpenVault
==============================================================================
