---------------------------- MODULE Vault_proofs ----------------------------
(* The safety properties of Vault, for every set of processes, threads,     *)
(* names, values, passwords and keys.                                       *)
EXTENDS Vault, TLAPS

(* Facts about the data. *)

LEMMA Constants == /\ NoFile \in Doc /\ Empty \in Store /\ NoWrap \in PwWrap
                   /\ NoReq \notin Request
BY VaultAssumption DEF NoFile, Doc, Empty, Store, NoWrap, PwWrap, KeyOrNone,
   NoReq, Request, SetReq, NameReq, AutoReq, PassReq, LogReq

LEMMA Fields ==
    ASSUME NEW r \in Request
    PROVE  /\ r.op \in {"set", "get", "delete"} => r.name \in Names
           /\ r.op = "set" => r.val \in Values
           /\ r.op = "change" => r.old \in Passwords /\ r.new \in Passwords
           /\ r.op \in {"login", "create"} => r.word \in Passwords
           /\ r.op \in {"set", "get", "delete", "auto", "change", "login", "create"}
BY DEF Request, SetReq, NameReq, AutoReq, PassReq, LogReq

LEMMA KeyOfType == ASSUME TypeOK, NEW p \in Procs PROVE KeyOf(p) \in KeyOrNone
BY VaultAssumption DEF TypeOK, KeyOf, Doc, KeyOrNone

LEMMA NewVaultType ==
    ASSUME NEW w \in Passwords, NEW k \in Keys, NEW s \in Store
    PROVE  NewVault(w, k, s) \in Doc
BY DEF NewVault, Doc, PwWrap, KeyOrNone

(* The invariant holds initially and every action keeps it. *)

LEMMA InitInv == Init => IInv
<1> SUFFICES ASSUME Init PROVE IInv
  OBVIOUS
<1> USE VaultAssumption DEF Init
<1>0. NoFile \in Doc /\ \A s \in Store : Legacy(s) \in Doc
  BY DEF Doc, NoFile, Legacy, NoWrap, PwWrap, KeyOrNone, Store, Empty
<1>1. TypeOK
  BY <1>0 DEF TypeOK, PC, KeyOrNone, Answers
<1>2. LocksHeld /\ CallsFit /\ ReadsFit /\ OneWizard
  BY DEF LocksHeld, CallsFit, ReadsFit, OneWizard, InTx, NoReq
<1>3. KeysOpenVault
  BY DEF KeysOpenVault, NoFile, Legacy
<1> QED BY <1>1, <1>2, <1>3 DEF IInv

LEMMA BeginInv == ASSUME IInv, NEW t \in Threads, Begin(t) PROVE IInv'
<1> USE VaultAssumption DEF IInv, Begin, Goto
<1>0. PICK r \in Allowed[ProcOf[t]] :
         /\ req' = [req EXCEPT ![t] = r]
         /\ pc' = [pc EXCEPT ![t] = IF r.op = "login" THEN "peek" ELSE "wantR"]
  OBVIOUS
<1>r. r \in Request /\ r.op # "create" /\ r # NoReq
  BY DEF Request, SetReq, NameReq, AutoReq, PassReq, LogReq, NoReq
<1>1. TypeOK'
  BY <1>0, <1>r DEF TypeOK, PC
<1>2. LocksHeld'
  BY <1>0 DEF LocksHeld, InTx, TypeOK
<1>3. CallsFit'
  BY <1>0, <1>r DEF CallsFit, TypeOK
<1>4. ReadsFit'
  BY <1>0 DEF ReadsFit, TypeOK
<1>5. OneWizard'
  BY <1>0 DEF OneWizard, TypeOK
<1>6. KeysOpenVault'
  BY DEF KeysOpenVault
<1> QED BY <1>1, <1>2, <1>3, <1>4, <1>5, <1>6
LEMMA TakeThreadLockInv == ASSUME IInv, NEW t \in Threads, TakeThreadLock(t) PROVE IInv'
<1> USE VaultAssumption DEF IInv, TakeThreadLock, Goto
<1>1. TypeOK'
  BY Constants DEF TypeOK, PC, KeyOrNone, Answers
<1>2. LocksHeld'
  BY DEF LocksHeld, InTx, TypeOK
<1>3. CallsFit'
  BY DEF CallsFit, TypeOK, NoReq
<1>4. ReadsFit'
  BY DEF ReadsFit, TypeOK, LocksHeld, InTx, KeysOpenVault, CallsFit, OneWizard, NoWrap
<1>5. OneWizard'
  BY DEF OneWizard, TypeOK, CallsFit
<1>6. KeysOpenVault'
  BY DEF KeysOpenVault, TypeOK, ReadsFit, CallsFit, LocksHeld, OneWizard, NoWrap, NoFile
<1> QED BY <1>1, <1>2, <1>3, <1>4, <1>5, <1>6

LEMMA TakeFileLockInv == ASSUME IInv, NEW t \in Threads, TakeFileLock(t) PROVE IInv'
<1> USE VaultAssumption DEF IInv, TakeFileLock, Goto
<1>1. TypeOK'
  BY Constants DEF TypeOK, PC, KeyOrNone, Answers
<1>2. LocksHeld'
  BY DEF LocksHeld, InTx, TypeOK
<1>3. CallsFit'
  BY DEF CallsFit, TypeOK, NoReq
<1>4. ReadsFit'
  BY DEF ReadsFit, TypeOK, LocksHeld, InTx, KeysOpenVault, CallsFit, OneWizard, NoWrap
<1>5. OneWizard'
  BY DEF OneWizard, TypeOK, CallsFit
<1>6. KeysOpenVault'
  BY DEF KeysOpenVault, TypeOK, ReadsFit, CallsFit, LocksHeld, OneWizard, NoWrap, NoFile
<1> QED BY <1>1, <1>2, <1>3, <1>4, <1>5, <1>6

LEMMA LeaveInv == ASSUME IInv, NEW t \in Threads, Leave(t) PROVE IInv'
<1> USE VaultAssumption DEF IInv, Leave, Goto, Finish
<1>1. TypeOK'
  BY Constants DEF TypeOK, PC, KeyOrNone, Answers
<1>2. LocksHeld'
  BY DEF LocksHeld, InTx, TypeOK
<1>3. CallsFit'
  BY DEF CallsFit, TypeOK, NoReq
<1>4. ReadsFit'
  BY DEF ReadsFit, TypeOK, LocksHeld, InTx, KeysOpenVault, CallsFit, OneWizard, NoWrap
<1>5. OneWizard'
  BY DEF OneWizard, TypeOK, CallsFit
<1>6. KeysOpenVault'
  BY DEF KeysOpenVault, TypeOK, ReadsFit, CallsFit, LocksHeld, OneWizard, NoWrap, NoFile
<1> QED BY <1>1, <1>2, <1>3, <1>4, <1>5, <1>6

LEMMA UnavailableInv == ASSUME IInv, NEW t \in Threads, Unavailable(t) PROVE IInv'
<1> USE VaultAssumption DEF IInv, Unavailable, Answer, Goto
<1>1. TypeOK'
  BY Constants DEF TypeOK, PC, KeyOrNone, Answers
<1>2. LocksHeld'
  BY DEF LocksHeld, InTx, TypeOK
<1>3. CallsFit'
  BY DEF CallsFit, TypeOK, NoReq
<1>4. ReadsFit'
  BY DEF ReadsFit, TypeOK, LocksHeld, InTx, KeysOpenVault, CallsFit, OneWizard, NoWrap
<1>5. OneWizard'
  BY DEF OneWizard, TypeOK, CallsFit
<1>6. KeysOpenVault'
  BY DEF KeysOpenVault, TypeOK, ReadsFit, CallsFit, LocksHeld, OneWizard, NoWrap, NoFile
<1> QED BY <1>1, <1>2, <1>3, <1>4, <1>5, <1>6

LEMMA MigrateInv == ASSUME IInv, NEW t \in Threads, Migrate(t) PROVE IInv'
<1> USE VaultAssumption DEF IInv, Migrate, Migrated, NewVault, Fresh
<1>1. TypeOK'
  BY DEF TypeOK, PC, KeyOrNone, Answers, Request, SetReq, NameReq, AutoReq, PassReq, LogReq, NoReq, Doc, NoFile, NoWrap, PwWrap, Empty, Store
<1>2. LocksHeld'
  BY DEF LocksHeld, InTx, TypeOK
<1>3. CallsFit'
  BY DEF CallsFit, TypeOK, NoReq
<1>4. ReadsFit'
  BY DEF ReadsFit, TypeOK, LocksHeld, InTx, KeysOpenVault, CallsFit, OneWizard, NoWrap
<1>5. OneWizard'
  BY DEF OneWizard, TypeOK, CallsFit
<1>6. KeysOpenVault'
  BY DEF KeysOpenVault, TypeOK, ReadsFit, CallsFit, LocksHeld, OneWizard, NoWrap, NoFile
<1> QED BY <1>1, <1>2, <1>3, <1>4, <1>5, <1>6

LEMMA LoadInv == ASSUME IInv, NEW t \in Threads, Load(t) PROVE IInv'
<1> USE VaultAssumption DEF IInv, Load, Answer, Goto, SetMk, Snapshot, InDoc
<1> DEFINE k == KeyOf(ProcOf[t])
<1>a. k \in KeyOrNone /\ req[t] \in Request /\ ProcOf[t] \in Procs
  BY KeyOfType DEF TypeOK, NoReq
<1>b. req[t].op = "get" => file.data[req[t].name] \in Values \cup {Missing}
  BY <1>a, Fields DEF TypeOK, Doc, Store
<1>c. k \in {NoKey, file.key}
  BY <1>a DEF KeyOf, KeysOpenVault
<1>d. mk' = [mk EXCEPT ![ProcOf[t]] = k] /\ file' = file
  OBVIOUS
<1> HIDE DEF k
<1>1. TypeOK'
  BY <1>a, <1>b, <1>d, Constants DEF TypeOK, PC, Answers
<1>2. LocksHeld'
  BY DEF LocksHeld, InTx, TypeOK
<1>3. CallsFit'
  BY <1>b DEF CallsFit, TypeOK, NoReq
<1>4. ReadsFit'
  <2>1. \A u \in Threads \ {t} : pc'[u] = pc[u] /\ doc'[u] = doc[u] /\ pc[u] \notin {"prove", "loaded"}
    BY DEF LocksHeld, InTx, TypeOK
  <2>2. pc'[t] \in {"loaded", "leave"} /\ (pc'[t] = "loaded" => k = file.key /\ doc'[t] = file)
    BY DEF TypeOK, k
  <2> QED BY <1>a, <1>d, <2>1, <2>2 DEF ReadsFit, TypeOK
<1>5. OneWizard'
  BY DEF OneWizard, TypeOK, CallsFit
<1>6. KeysOpenVault'
  BY <1>a, <1>c, <1>d DEF KeysOpenVault, TypeOK
<1> QED BY <1>1, <1>2, <1>3, <1>4, <1>5, <1>6

LEMMA SaveInv == ASSUME IInv, NEW t \in Threads, Save(t) PROVE IInv'
<1> USE VaultAssumption DEF IInv, Save, Answer, Goto, SetMk
<1>a. /\ KeyOf(ProcOf[t]) = file.key /\ mk[ProcOf[t]] = file.key /\ file.key \in Keys
      /\ file.ver = 2 /\ doc[t] = file /\ flock = t
      /\ req[t] \in Request /\ ProcOf[t] \in Procs
  BY DEF KeyOf, ReadsFit, TypeOK, NoReq, KeysOpenVault, KeyOrNone, Doc, LocksHeld, InTx
<1>b. mk' = mk
  BY <1>a DEF TypeOK
<1>c. PICK s \in Store : file' = [file EXCEPT !.key = file.key, !.data = s]
  BY ZenonT(40), <1>a, Fields DEF TypeOK, Doc, Store, NewValue
<1>d. /\ file' \in Doc
      /\ file'.ver = 2 /\ file'.key = file.key /\ file'.pw = file.pw /\ file'.env = file.env
  BY <1>a, <1>c DEF TypeOK, Doc
<1>1. TypeOK'
  BY <1>a, <1>b, <1>d DEF TypeOK, PC, Answers
<1>2. LocksHeld'
  BY DEF LocksHeld, InTx, TypeOK
<1>3. CallsFit'
  BY DEF CallsFit, TypeOK, NoReq
<1>4. ReadsFit'
  <2>1. \A u \in Threads \ {t} : pc'[u] = pc[u] /\ doc'[u] = doc[u] /\ pc[u] \notin {"prove", "loaded"}
    BY <1>a DEF LocksHeld, InTx, TypeOK
  <2>2. pc'[t] = "leave"
    BY DEF TypeOK
  <2> QED BY <1>d, <2>1, <2>2 DEF ReadsFit
<1>5. OneWizard'
  BY <1>a DEF OneWizard, TypeOK
<1>6. KeysOpenVault'
  BY <1>a, <1>b, <1>d DEF KeysOpenVault
<1> QED BY <1>1, <1>2, <1>3, <1>4, <1>5, <1>6

LEMMA LoadAutoInv == ASSUME IInv, NEW t \in Threads, LoadAuto(t) PROVE IInv'
<1> USE VaultAssumption DEF IInv, LoadAuto, Answer, Goto, SetMk, Snapshot, InDoc, KeyOf
<1>0. KeyOf(ProcOf[t]) \in KeyOrNone
  BY KeyOfType DEF TypeOK
<1>1. TypeOK'
  BY <1>0, Constants DEF TypeOK, PC, Answers, KeyOf
<1>2. LocksHeld'
  BY DEF LocksHeld, InTx, TypeOK
<1>3. CallsFit'
  BY DEF CallsFit, TypeOK, NoReq
<1>4. ReadsFit'
  BY DEF ReadsFit, TypeOK, LocksHeld, InTx, KeysOpenVault, CallsFit, OneWizard, NoWrap
<1>5. OneWizard'
  BY DEF OneWizard, TypeOK, CallsFit
<1>6. KeysOpenVault'
  BY DEF KeysOpenVault, TypeOK, ReadsFit, CallsFit, LocksHeld, OneWizard, NoWrap, NoFile
<1> QED BY <1>1, <1>2, <1>3, <1>4, <1>5, <1>6

LEMMA SaveAutoInv == ASSUME IInv, NEW t \in Threads, SaveAuto(t) PROVE IInv'
<1> USE VaultAssumption DEF IInv, SaveAuto, Answer, Goto
<1>a. /\ mk[ProcOf[t]] = file.key /\ file.key \in Keys
      /\ file.ver = 2 /\ doc[t] = file /\ flock = t
      /\ req[t] \in Request /\ ProcOf[t] \in Procs
  <2>1. file.ver = 2 /\ doc[t] = file /\ mk[ProcOf[t]] = file.key /\ flock = t
    BY DEF ReadsFit, LocksHeld, InTx
  <2>2. file.key \in Keys
    BY <2>1 DEF KeysOpenVault, TypeOK, KeyOrNone, Doc
  <2>3. req[t] \in Request /\ ProcOf[t] \in Procs
    BY DEF TypeOK, CallsFit
  <2> QED BY <2>1, <2>2, <2>3
<1>b. /\ file' \in Doc /\ file'.ver = 2 /\ file'.key = file.key /\ file'.data = file.data
      /\ file'.pw = file.pw /\ file'.env \in {NoKey, file.key}
  BY <1>a, Fields DEF TypeOK, Doc, KeyOrNone
<1>1. TypeOK'
  BY <1>b DEF TypeOK, PC, Answers
<1>2. LocksHeld'
  BY DEF LocksHeld, InTx, TypeOK
<1>3. CallsFit'
  BY DEF CallsFit, TypeOK, NoReq
<1>4. ReadsFit'
  <2>1. \A u \in Threads \ {t} : pc'[u] = pc[u] /\ doc'[u] = doc[u] /\ pc[u] \notin {"prove", "loaded"}
    BY <1>a DEF LocksHeld, InTx, TypeOK
  <2>2. pc'[t] = "leave"
    BY DEF TypeOK
  <2> QED BY <1>b, <2>1, <2>2 DEF ReadsFit
<1>5. OneWizard'
  BY <1>a DEF OneWizard, TypeOK
<1>6. KeysOpenVault'
  BY <1>a, <1>b DEF KeysOpenVault
<1> QED BY <1>1, <1>2, <1>3, <1>4, <1>5, <1>6

LEMMA LoadChangeInv == ASSUME IInv, NEW t \in Threads, LoadChange(t) PROVE IInv'
<1> USE VaultAssumption DEF IInv, LoadChange, Answer, Goto, SetMk, Snapshot, InDoc
<1> DEFINE k == KeyOf(ProcOf[t])
<1>a. k \in KeyOrNone /\ ProcOf[t] \in Procs /\ k \in {NoKey, file.key} /\ flock # Free /\ flock = t
  BY ZenonT(40), KeyOfType DEF TypeOK, KeyOf, KeysOpenVault, LocksHeld, InTx
<1>b. mk' = mk \/ mk' = [mk EXCEPT ![ProcOf[t]] = k]
  OBVIOUS
<1>c. \/ pc'[t] = "prove" /\ keep'[t] = mk[ProcOf[t]] /\ file.pw # NoWrap /\ mk' = mk
      \/ pc'[t] = "loaded" /\ file.pw = NoWrap /\ mk'[ProcOf[t]] = file.key
      \/ pc'[t] = "leave"
  BY <1>a DEF TypeOK
<1> HIDE DEF k
<1>1. TypeOK'
  BY <1>a, <1>b, Constants DEF TypeOK, PC, Answers
<1>2. LocksHeld'
  BY DEF LocksHeld, InTx, TypeOK
<1>3. CallsFit'
  BY DEF CallsFit, TypeOK, NoReq
<1>4. ReadsFit'
  <2>1. \A u \in Threads \ {t} : pc'[u] = pc[u] /\ doc'[u] = doc[u] /\ pc[u] \notin {"prove", "loaded"}
    BY <1>a DEF LocksHeld, InTx, TypeOK
  <2>2. doc'[t] = file /\ mk[ProcOf[t]] \in {NoKey, file.key}
    BY <1>a DEF TypeOK, KeysOpenVault
  <2> QED BY <1>a, <1>c, <2>1, <2>2 DEF ReadsFit
<1>5. OneWizard'
  BY DEF OneWizard, TypeOK, CallsFit
<1>6. KeysOpenVault'
  BY <1>a, <1>b DEF KeysOpenVault, TypeOK
<1> QED BY <1>1, <1>2, <1>3, <1>4, <1>5, <1>6

LEMMA ProveInv == ASSUME IInv, NEW t \in Threads, Prove(t) PROVE IInv'
<1> USE VaultAssumption DEF IInv, Prove, Answer, Goto, SetMk, Snapshot
<1>0. doc[t].pw.key \in KeyOrNone
  BY DEF TypeOK, Doc, PwWrap
<1>1. TypeOK'
  BY <1>0 DEF TypeOK, PC, Answers
<1>2. LocksHeld'
  BY DEF LocksHeld, InTx, TypeOK
<1>3. CallsFit'
  BY DEF CallsFit, TypeOK, NoReq
<1>4. ReadsFit'
  BY DEF ReadsFit, TypeOK, LocksHeld, InTx, KeysOpenVault, CallsFit, OneWizard, NoWrap
<1>5. OneWizard'
  BY DEF OneWizard, TypeOK, CallsFit
<1>6. KeysOpenVault'
  BY DEF KeysOpenVault, TypeOK, ReadsFit, CallsFit, LocksHeld, OneWizard, NoWrap, NoFile
<1> QED BY <1>1, <1>2, <1>3, <1>4, <1>5, <1>6

LEMMA SaveChangeInv == ASSUME IInv, NEW t \in Threads, SaveChange(t) PROVE IInv'
<1> USE VaultAssumption DEF IInv, SaveChange, Answer, Goto
<1>a. /\ mk[ProcOf[t]] = file.key /\ file.key \in Keys
      /\ file.ver = 2 /\ doc[t] = file /\ flock = t
      /\ req[t] \in Request /\ ProcOf[t] \in Procs
  <2>1. file.ver = 2 /\ doc[t] = file /\ mk[ProcOf[t]] = file.key /\ flock = t
    BY DEF ReadsFit, LocksHeld, InTx
  <2>2. file.key \in Keys
    BY <2>1 DEF KeysOpenVault, TypeOK, KeyOrNone, Doc
  <2>3. req[t] \in Request /\ ProcOf[t] \in Procs
    BY DEF TypeOK, CallsFit
  <2> QED BY <2>1, <2>2, <2>3
<1>b. /\ file' \in Doc /\ file'.ver = 2 /\ file'.key = file.key /\ file'.data = file.data
      /\ file'.env = file.env /\ file'.pw.word \in Passwords /\ file'.pw.key = file.key
  BY <1>a, Fields DEF TypeOK, Doc, PwWrap, KeyOrNone
<1>1. TypeOK'
  BY <1>b DEF TypeOK, PC, Answers
<1>2. LocksHeld'
  BY DEF LocksHeld, InTx, TypeOK
<1>3. CallsFit'
  BY DEF CallsFit, TypeOK, NoReq
<1>4. ReadsFit'
  <2>1. \A u \in Threads \ {t} : pc'[u] = pc[u] /\ doc'[u] = doc[u] /\ pc[u] \notin {"prove", "loaded"}
    BY <1>a DEF LocksHeld, InTx, TypeOK
  <2>2. pc'[t] = "leave"
    BY DEF TypeOK
  <2> QED BY <1>b, <2>1, <2>2 DEF ReadsFit
<1>5. OneWizard'
  BY <1>a DEF OneWizard, TypeOK
<1>6. KeysOpenVault'
  BY <1>a, <1>b DEF KeysOpenVault
<1> QED BY <1>1, <1>2, <1>3, <1>4, <1>5, <1>6

LEMMA PeekInv == ASSUME IInv, NEW t \in Threads, Peek(t) PROVE IInv'
<1> USE VaultAssumption DEF IInv, Peek, Goto, Finish, Snapshot
<1>1. TypeOK'
  BY Constants DEF TypeOK, PC, KeyOrNone, Answers
<1>2. LocksHeld'
  BY DEF LocksHeld, InTx, TypeOK
<1>3. CallsFit'
  BY DEF CallsFit, TypeOK, NoReq
<1>4. ReadsFit'
  BY DEF ReadsFit, TypeOK, LocksHeld, InTx, KeysOpenVault, CallsFit, OneWizard, NoWrap
<1>5. OneWizard'
  BY DEF OneWizard, TypeOK, CallsFit
<1>6. KeysOpenVault'
  BY DEF KeysOpenVault, TypeOK, ReadsFit, CallsFit, LocksHeld, OneWizard, NoWrap, NoFile
<1> QED BY <1>1, <1>2, <1>3, <1>4, <1>5, <1>6

LEMMA AdoptInv == ASSUME IInv, NEW t \in Threads, Adopt(t) PROVE IInv'
<1> USE VaultAssumption DEF IInv, Adopt, Goto, Snapshot, InDoc
<1>1. TypeOK'
  BY Constants DEF TypeOK, PC, KeyOrNone, Answers
<1>2. LocksHeld'
  BY DEF LocksHeld, InTx, TypeOK
<1>3. CallsFit'
  BY DEF CallsFit, TypeOK, NoReq
<1>4. ReadsFit'
  BY DEF ReadsFit, TypeOK, LocksHeld, InTx, KeysOpenVault, CallsFit, OneWizard, NoWrap
<1>5. OneWizard'
  BY DEF OneWizard, TypeOK, CallsFit
<1>6. KeysOpenVault'
  BY DEF KeysOpenVault, TypeOK, ReadsFit, CallsFit, LocksHeld, OneWizard, NoWrap, NoFile
<1> QED BY <1>1, <1>2, <1>3, <1>4, <1>5, <1>6

LEMMA DeriveInv == ASSUME IInv, NEW t \in Threads, Derive(t) PROVE IInv'
<1> USE VaultAssumption DEF IInv, Derive, Goto, Finish, SetMk
<1>a. /\ doc[t].pw.key \in KeyOrNone /\ req[t] \in Request
      /\ req[t].op = "login" /\ file.ver = 2 /\ ProcOf[t] \in Procs
  BY ZenonT(40) DEF TypeOK, Doc, PwWrap, ReadsFit, CallsFit, NoReq
<1>b. mk' = mk \/ mk' = [mk EXCEPT ![ProcOf[t]] = file.key]
  BY <1>a, Fields DEF ReadsFit, NoWrap
<1>c. file.key \in Keys
  BY <1>a DEF KeysOpenVault, TypeOK, Doc, KeyOrNone
<1>1. TypeOK'
  BY <1>b, <1>c, Constants DEF TypeOK, PC, Answers, KeyOrNone
<1>2. LocksHeld'
  BY DEF LocksHeld, InTx, TypeOK
<1>3. CallsFit'
  BY DEF CallsFit, TypeOK, NoReq
<1>4. ReadsFit'
  <2>1. \A u \in Threads : pc'[u] # "idle" => /\ u # t /\ pc'[u] = pc[u] /\ doc'[u] = doc[u]
                                              /\ keep'[u] = keep[u] /\ req'[u] = req[u]
    BY DEF TypeOK
  <2>2. \A u \in Threads : mk[ProcOf[u]] = file.key => mk'[ProcOf[u]] = file.key
    BY <1>b DEF TypeOK
  <2> QED BY <2>1, <2>2 DEF ReadsFit
<1>5. OneWizard'
  BY DEF OneWizard, TypeOK, CallsFit
<1>6. KeysOpenVault'
  BY <1>a, <1>b DEF KeysOpenVault, TypeOK
<1> QED BY <1>1, <1>2, <1>3, <1>4, <1>5, <1>6

LEMMA BeginInitInv == ASSUME IInv, NEW t \in Threads, BeginInit(t) PROVE IInv'
<1> USE VaultAssumption DEF IInv, BeginInit, Goto
<1>1. TypeOK'
  BY DEF TypeOK, PC, KeyOrNone, Answers, Request, SetReq, NameReq, AutoReq, PassReq, LogReq, NoReq, Doc, NoFile, NoWrap, PwWrap, Empty, Store
<1>2. LocksHeld'
  BY DEF LocksHeld, InTx, TypeOK
<1>3. CallsFit'
  BY DEF CallsFit, TypeOK, NoReq
<1>4. ReadsFit'
  BY DEF ReadsFit, TypeOK, LocksHeld, InTx, KeysOpenVault, CallsFit, OneWizard, NoWrap
<1>5. OneWizard'
  BY DEF OneWizard, TypeOK, CallsFit
<1>6. KeysOpenVault'
  BY DEF KeysOpenVault, TypeOK, ReadsFit, CallsFit, LocksHeld, OneWizard, NoWrap, NoFile
<1> QED BY <1>1, <1>2, <1>3, <1>4, <1>5, <1>6

LEMMA CreateInv == ASSUME IInv, NEW t \in Threads, Create(t) PROVE IInv'
<1> USE VaultAssumption DEF IInv, Create, Goto, Finish, SetMk
<1>a. req[t] \in Request /\ req[t].op = "create" /\ req[t].word \in Passwords /\ file.ver = 0
  BY Fields DEF TypeOK, CallsFit, OneWizard, NoReq
<1>b. PICK k \in Keys : /\ file' = NewVault(req[t].word, k, Empty)
                        /\ mk' = [mk EXCEPT ![ProcOf[t]] = k]
  OBVIOUS
<1>c. file' \in Doc
  BY <1>a, <1>b, NewVaultType, Constants
<1>d. \A p \in Procs : mk[p] = NoKey
  BY <1>a DEF KeysOpenVault
<1>1. TypeOK'
  BY <1>b, <1>c, Constants DEF TypeOK, PC, Answers, KeyOrNone
<1>2. LocksHeld'
  BY DEF LocksHeld, InTx, TypeOK
<1>3. CallsFit'
  BY DEF CallsFit, TypeOK, NoReq
<1>4. ReadsFit'
  BY <1>a DEF ReadsFit, TypeOK
<1>5. OneWizard'
  BY <1>a DEF OneWizard, TypeOK, CallsFit
<1>6. KeysOpenVault'
  BY <1>a, <1>b, <1>d DEF KeysOpenVault, TypeOK, NewVault, NoWrap
<1> QED BY <1>1, <1>2, <1>3, <1>4, <1>5, <1>6

LEMMA WriteFailsInv == ASSUME IInv, NEW t \in Threads, WriteFails(t) PROVE IInv'
<1> USE VaultAssumption DEF IInv, WriteFails, Answer, Goto
<1>1. TypeOK'
  BY Constants DEF TypeOK, PC, KeyOrNone, Answers
<1>2. LocksHeld'
  BY DEF LocksHeld, InTx, TypeOK
<1>3. CallsFit'
  BY DEF CallsFit, TypeOK, NoReq
<1>4. ReadsFit'
  BY DEF ReadsFit, TypeOK, LocksHeld, InTx, KeysOpenVault, CallsFit, OneWizard, NoWrap
<1>5. OneWizard'
  BY DEF OneWizard, TypeOK, CallsFit
<1>6. KeysOpenVault'
  BY DEF KeysOpenVault, TypeOK, ReadsFit, CallsFit, LocksHeld, OneWizard, NoWrap, NoFile
<1> QED BY <1>1, <1>2, <1>3, <1>4, <1>5, <1>6

LEMMA CreateFailsInv == ASSUME IInv, NEW t \in Threads, CreateFails(t) PROVE IInv'
<1> USE VaultAssumption DEF IInv, CreateFails, Goto, Finish
<1>1. TypeOK'
  BY Constants DEF TypeOK, PC, KeyOrNone, Answers
<1>2. LocksHeld'
  BY DEF LocksHeld, InTx, TypeOK
<1>3. CallsFit'
  BY DEF CallsFit, TypeOK, NoReq
<1>4. ReadsFit'
  BY DEF ReadsFit, TypeOK, LocksHeld, InTx, KeysOpenVault, CallsFit, OneWizard, NoWrap
<1>5. OneWizard'
  BY DEF OneWizard, TypeOK, CallsFit
<1>6. KeysOpenVault'
  BY DEF KeysOpenVault, TypeOK, ReadsFit, CallsFit, LocksHeld, OneWizard, NoWrap, NoFile
<1> QED BY <1>1, <1>2, <1>3, <1>4, <1>5, <1>6

LEMMA CrashInv == ASSUME IInv, NEW p \in Procs, Crash(p) PROVE IInv'
<1> USE VaultAssumption DEF IInv, Crash
<1> DEFINE dead == {t \in Threads : ProcOf[t] = p}
<1>a. \A t \in Threads \ dead : /\ pc'[t] = pc[t] /\ req'[t] = req[t] /\ doc'[t] = doc[t]
                                /\ keep'[t] = keep[t] /\ ans'[t] = ans[t]
                                /\ mk'[ProcOf[t]] = mk[ProcOf[t]]
                                /\ rlock'[ProcOf[t]] = rlock[ProcOf[t]]
  BY DEF TypeOK
<1>b. \A t \in dead : pc'[t] = "idle" /\ req'[t] = NoReq /\ ans'[t] = "none"
  OBVIOUS
<1>c. \A t \in Threads \ dead : flock = t => flock' = t
  OBVIOUS
<1>1. TypeOK'
  BY Constants DEF TypeOK, PC, Answers, KeyOrNone
<1> HIDE DEF dead, Crash
<1>2. LocksHeld'
  BY <1>a, <1>b, <1>c DEF LocksHeld, InTx
<1>3. CallsFit'
  BY <1>a, <1>b DEF CallsFit, NoReq
<1>4. ReadsFit'
  BY <1>a, <1>b DEF ReadsFit, Crash
<1>5. OneWizard'
  BY <1>a, <1>b DEF OneWizard, Crash
<1>6. KeysOpenVault'
  BY DEF KeysOpenVault, TypeOK, Crash
<1> QED BY <1>1, <1>2, <1>3, <1>4, <1>5, <1>6

LEMMA StepInv == IInv /\ [Next]_vars => IInv'
<1> SUFFICES ASSUME IInv, [Next]_vars PROVE IInv'
  OBVIOUS
<1>1. CASE UNCHANGED vars
  BY <1>1 DEF vars, IInv, TypeOK, LocksHeld, CallsFit, ReadsFit, OneWizard, KeysOpenVault
<1>2. ASSUME NEW t \in Threads, Begin(t) \/ BeginInit(t) \/ Step(t) PROVE IInv'
  BY <1>2, BeginInv, BeginInitInv, TakeThreadLockInv, TakeFileLockInv, LeaveInv,
     UnavailableInv, MigrateInv, LoadInv, SaveInv, LoadAutoInv, SaveAutoInv,
     LoadChangeInv, ProveInv, SaveChangeInv, PeekInv, AdoptInv, DeriveInv, CreateInv,
     WriteFailsInv, CreateFailsInv
     DEF Step
<1>3. ASSUME NEW p \in Procs, Crash(p) PROVE IInv'
  BY <1>3, CrashInv
<1> QED BY <1>1, <1>2, <1>3 DEF Next

LEMMA Invariance == Spec => []IInv
BY InitInv, StepInv, PTL DEF Spec

(* The theorems. *)

\* The variables keep their types.
THEOREM TypeCorrect == Spec => []TypeOK
<1>1. IInv => TypeOK
  BY DEF IInv
<1> QED BY <1>1, Invariance, PTL

\* Every key in the file and in memory opens the secrets, whatever password
\* changes, migrations and crashes happened in whatever order.
THEOREM KeysAlwaysOpen == Spec => []KeysOpenVault
<1>1. IInv => KeysOpenVault
  BY DEF IInv
<1> QED BY <1>1, Invariance, PTL

\* A transaction writes back only what the file still says: no update is lost.
THEOREM NoLostUpdate == Spec => []SnapshotsAreCurrent
<1>1. IInv => SnapshotsAreCurrent
  BY DEF IInv, SnapshotsAreCurrent, LocksHeld, ReadsFit, InTx
<1> QED BY <1>1, Invariance, PTL

(* What a step does to the file. *)
LEMMA FileSteps ==
    ASSUME IInv, [Next]_vars
    PROVE  \/ file' = file
           \/ file.ver # 2
           \/ /\ file'.ver = 2 /\ file'.key = file.key
              /\ \/ file'.pw = file.pw
                 \/ \E t \in Threads : /\ req[t].op = "change"
                                       /\ file.pw = NoWrap \/ file.pw.word = req[t].old
                                       /\ file'.pw.word = req[t].new
<1> USE DEF IInv
<1>1. ASSUME NEW t \in Threads, Save(t), file.ver = 2
      PROVE  file'.ver = 2 /\ file'.key = file.key /\ file'.pw = file.pw
  <2>1. KeyOf(ProcOf[t]) = file.key
    BY <1>1 DEF Save, ReadsFit, KeyOf, KeysOpenVault
  <2> QED BY <1>1, <2>1 DEF Save, TypeOK, Doc
<1>2. ASSUME NEW t \in Threads, SaveAuto(t), file.ver = 2
      PROVE  file'.ver = 2 /\ file'.key = file.key /\ file'.pw = file.pw
  BY <1>2 DEF SaveAuto, ReadsFit, TypeOK, Doc
<1>3. ASSUME NEW t \in Threads, SaveChange(t), file.ver = 2
      PROVE  /\ file'.ver = 2 /\ file'.key = file.key
             /\ req[t].op = "change"
             /\ file.pw = NoWrap \/ file.pw.word = req[t].old
             /\ file'.pw.word = req[t].new
  BY <1>3 DEF SaveChange, ReadsFit, TypeOK, Doc
<1>4. ASSUME NEW t \in Threads, Migrate(t) PROVE file.ver # 2
  BY <1>4 DEF Migrate
<1>5. ASSUME NEW t \in Threads, Create(t) PROVE file.ver # 2
  BY <1>5 DEF Create, OneWizard
<1>6. ASSUME NEW t \in Threads,
             \/ Begin(t) \/ BeginInit(t) \/ TakeThreadLock(t) \/ TakeFileLock(t)
             \/ Leave(t) \/ Unavailable(t) \/ Load(t) \/ LoadAuto(t) \/ LoadChange(t)
             \/ Prove(t) \/ Peek(t) \/ Adopt(t) \/ Derive(t)
             \/ WriteFails(t) \/ CreateFails(t)
      PROVE  file' = file
  BY <1>6 DEF Begin, BeginInit, TakeThreadLock, TakeFileLock, Leave, Unavailable,
     Load, LoadAuto, LoadChange, Prove, Peek, Adopt, Derive, WriteFails, CreateFails
<1>7. ASSUME NEW p \in Procs, Crash(p) PROVE file' = file
  BY <1>7 DEF Crash
<1>8. CASE UNCHANGED vars
  BY <1>8 DEF vars
<1> QED BY <1>1, <1>2, <1>3, <1>4, <1>5, <1>6, <1>7, <1>8 DEF Next, Step

\* Once there is a data key, no call, migration or crash replaces it.
THEOREM DataKeyFixed == Spec => DataKeyIsForever
<1>1. IInv /\ [Next]_vars => [file.ver = 2 => file'.ver = 2 /\ file'.key = file.key]_vars
  BY FileSteps
<1> QED BY <1>1, Invariance, PTL DEF Spec, DataKeyIsForever

\* Nobody changes a password without having proved the one it replaces.
THEOREM PasswordProved == Spec => OnlyHolderChangesPassword
<1>1. IInv /\ [Next]_vars =>
        [(file.ver = 2 /\ file.pw # NoWrap /\ file'.pw # file.pw) =>
            \E t \in Threads : /\ req[t].op = "change"
                               /\ req[t].old = file.pw.word
                               /\ file'.pw.word = req[t].new]_vars
  BY FileSteps
<1> QED BY <1>1, Invariance, PTL DEF Spec, OnlyHolderChangesPassword

(* The vault implements the atomic map. *)

LEMMA Mapped ==
    ASSUME TypeOK
    PROVE  /\ absCall \in [Threads -> SetReq \cup NameReq \cup {NoReq}]
           /\ \A t \in Threads : absCall[t] = IF SecretCall(t) THEN req[t] ELSE NoReq
           /\ \A t \in Threads : absAns[t] = IF SecretCall(t) THEN ans[t] ELSE "none"
           /\ absStore = IF file.ver = 0 THEN Free ELSE file.data
           /\ \A t \in Threads : SecretCall(t) => req[t] # NoReq
<1>1. \A t \in Threads : SecretCall(t) => req[t] \in SetReq \cup NameReq /\ req[t] # NoReq
  BY DEF TypeOK, SecretCall, Request, SetReq, NameReq, AutoReq, PassReq, LogReq, NoReq
<1> QED BY <1>1 DEF absCall, absAns, absStore

\* A step that leaves the store, the calls and the answers alone is a stutter.
LEMMA Stutter ==
    ASSUME file'.ver = file.ver \/ (file.ver # 0 /\ file'.ver # 0),
           file'.data = file.data,
           \A t \in Threads : SecretCall(t)' = SecretCall(t),
           \A t \in Threads : SecretCall(t) => req'[t] = req[t] /\ ans'[t] = ans[t]
    PROVE  UNCHANGED <<absStore, absCall, absAns>>
BY DEF absStore, absCall, absAns

LEMMA RefineInit == Init => Abstract!Init
BY VaultAssumption DEF Init, Abstract!Init, absStore, absCall, absAns, SecretCall,
   NoReq, NoFile, Legacy, Abstract!NoCall, Store

LEMMA RefineBegin == ASSUME IInv, NEW t \in Threads, Begin(t)
                     PROVE  Abstract!Invoke(t) \/ UNCHANGED <<absStore, absCall, absAns>>
<1> USE DEF IInv
<1>0. PICK r \in Allowed[ProcOf[t]] : req' = [req EXCEPT ![t] = r]
  BY DEF Begin
<1>1. r \in Request /\ req[t] = NoReq /\ ans[t] = "none" /\ ~SecretCall(t)
  <2>1. r \in Request
    BY VaultAssumption, <1>0
  <2>2. req[t] = NoReq /\ ans[t] = "none"
    BY DEF Begin, CallsFit
  <2> QED BY <2>1, <2>2 DEF SecretCall, NoReq
<1>2. CASE r.op \in {"set", "get", "delete"}
  <2>1. r \in Abstract!Call
    BY <1>1, <1>2 DEF Abstract!Call, Request, SetReq, NameReq, AutoReq, PassReq, LogReq
  <2>2. absCall' = [absCall EXCEPT ![t] = r]
    BY <1>0, <1>1, <1>2 DEF absCall, SecretCall, TypeOK
  <2>3. absCall[t] = Abstract!NoCall
    BY <1>1 DEF absCall, Abstract!NoCall, NoReq
  <2>4. UNCHANGED <<absStore, absAns>>
    BY <1>0, <1>1, <1>2 DEF absStore, absAns, SecretCall, TypeOK, Begin
  <2> QED BY <2>1, <2>2, <2>3, <2>4 DEF Abstract!Invoke
<1>3. CASE r.op \notin {"set", "get", "delete"}
  <2>1. \A u \in Threads : SecretCall(u)' = SecretCall(u)
    BY <1>0, <1>1, <1>3 DEF SecretCall, TypeOK
  <2>2. \A u \in Threads : SecretCall(u) => req'[u] = req[u] /\ ans'[u] = ans[u]
    BY <1>0, <1>1 DEF Begin, TypeOK
  <2> QED BY <2>1, <2>2, Stutter DEF Begin
<1> QED BY <1>2, <1>3

LEMMA RefineLeave == ASSUME IInv, NEW t \in Threads, Finish(t), file' = file,
                            SecretCall(t) => pc[t] = "leave"
                     PROVE  Abstract!Return(t) \/ UNCHANGED <<absStore, absCall, absAns>>
<1> USE DEF IInv, Finish
<1>1. ~SecretCall(t)' /\ \A u \in Threads \ {t} : SecretCall(u)' = SecretCall(u)
  BY DEF SecretCall, TypeOK, NoReq
<1>2. CASE ~SecretCall(t)
  <2>1. \A u \in Threads : SecretCall(u)' = SecretCall(u)
    BY <1>1, <1>2 DEF SecretCall
  <2>2. \A u \in Threads : SecretCall(u) => req'[u] = req[u] /\ ans'[u] = ans[u]
    BY <1>2 DEF TypeOK
  <2> QED BY <2>1, <2>2, Stutter
<1>3. CASE SecretCall(t)
  <2>1. absCall' = [absCall EXCEPT ![t] = NoReq] /\ absAns' = [absAns EXCEPT ![t] = "none"]
    BY <1>1 DEF absCall, absAns, TypeOK
  <2>2. absCall[t] # NoReq /\ absAns[t] # "none"
    BY <1>3, Mapped DEF CallsFit
  <2>3. UNCHANGED absStore
    BY DEF absStore
  <2> QED BY <2>1, <2>2, <2>3 DEF Abstract!Return, Abstract!NoCall, NoReq
<1> QED BY <1>2, <1>3

LEMMA RefineRefuse ==
    ASSUME IInv, NEW t \in Threads, Answer(t, "refused"), UNCHANGED <<file, req>>, pc[t] # "leave"
    PROVE  Abstract!Refuse(t) \/ UNCHANGED <<absStore, absCall, absAns>>
<1> USE DEF IInv, Answer
<1>1. \A u \in Threads : SecretCall(u)' = SecretCall(u)
  BY DEF SecretCall
<1>2. CASE ~SecretCall(t)
  BY <1>1, <1>2, Stutter DEF TypeOK
<1>3. CASE SecretCall(t)
  <2>1. absCall' = absCall /\ absAns' = [absAns EXCEPT ![t] = "refused"]
    BY <1>1, <1>3 DEF absCall, absAns, TypeOK
  <2>2. absCall[t] # NoReq /\ absAns[t] = "none"
    BY <1>3, Mapped DEF CallsFit
  <2>3. UNCHANGED absStore
    BY DEF absStore
  <2> QED BY <2>1, <2>2, <2>3 DEF Abstract!Refuse, Abstract!Pending, Abstract!NoCall, NoReq
<1> QED BY <1>2, <1>3

LEMMA RefineLoad == ASSUME IInv, NEW t \in Threads, Load(t)
                    PROVE  \/ Abstract!Refuse(t) \/ Abstract!Get(t)
                           \/ UNCHANGED <<absStore, absCall, absAns>>
<1> USE DEF IInv, Load, InDoc
<1>1. \A u \in Threads : SecretCall(u)' = SecretCall(u)
  BY DEF SecretCall
<1>2. CASE Answer(t, "refused")
  BY <1>2, RefineRefuse
<1>3. CASE req[t].op = "get" /\ Answer(t, file.data[req[t].name])
  <2>1. SecretCall(t) /\ ans[t] = "none"
    BY <1>3 DEF SecretCall, CallsFit
  <2>2. absCall' = absCall /\ absAns' = [absAns EXCEPT ![t] = file.data[req[t].name]]
    BY <1>1, <1>3, <2>1 DEF absCall, absAns, TypeOK, Answer
  <2>3. absCall[t] = req[t] /\ absCall[t] # NoReq /\ absAns[t] = "none"
    BY <2>1, Mapped
  <2>4. UNCHANGED absStore /\ absStore = file.data /\ absStore # Free
    BY VaultAssumption DEF absStore, TypeOK, Doc, Store
  <2> QED BY <1>3, <2>2, <2>3, <2>4 DEF Abstract!Get, Abstract!Pending, Abstract!NoCall, NoReq
<1>4. CASE UNCHANGED ans
  BY <1>1, <1>4, Stutter
<1> QED BY <1>2, <1>3, <1>4

LEMMA RefineSave == ASSUME IInv, NEW t \in Threads, Save(t)
                    PROVE  Abstract!Set(t) \/ Abstract!Delete(t)
<1> USE DEF IInv, Save, SetMk
<1> DEFINE n == req[t].name
<1>1. /\ KeyOf(ProcOf[t]) = file.key /\ file.key # NoKey /\ doc[t] = file /\ file.ver = 2
      /\ SecretCall(t) /\ ans[t] = "none"
  BY DEF KeyOf, ReadsFit, KeysOpenVault, CallsFit, SecretCall
<1>2. /\ file'.data = [file.data EXCEPT ![n] = NewValue(req[t])] /\ file'.ver = 2
      /\ Answer(t, IF req[t].op = "set" \/ file.data[n] # Missing THEN "ok" ELSE "no")
  BY <1>1 DEF TypeOK, Doc
<1>3. absStore = file.data /\ absStore # Free
      /\ absStore' = [absStore EXCEPT ![n] = NewValue(req[t])]
  BY <1>1, <1>2, VaultAssumption DEF absStore, TypeOK, Doc, Store
<1>4. UNCHANGED absCall
  BY DEF absCall, SecretCall
<1>5. absAns' = [absAns EXCEPT ![t] =
                    IF req[t].op = "set" \/ file.data[n] # Missing THEN "ok" ELSE "no"]
  BY <1>1, <1>2 DEF absAns, SecretCall, Answer, TypeOK
<1>6. absCall[t] = req[t] /\ absCall[t] # NoReq /\ absAns[t] = "none"
  BY <1>1, Mapped
<1>7. CASE req[t].op = "set"
  BY <1>3, <1>4, <1>5, <1>6, <1>7 DEF NewValue, Abstract!Set, Abstract!Pending, Abstract!NoCall, NoReq
<1>8. CASE req[t].op = "delete"
  BY <1>3, <1>4, <1>5, <1>6, <1>8 DEF NewValue, Abstract!Delete, Abstract!Pending, Abstract!NoCall, NoReq
<1> QED BY <1>7, <1>8

\* The calls that are no secret_* call change neither the store nor an answer
\* a secret_* call gave.
LEMMA RefineOther ==
    ASSUME IInv, NEW t \in Threads, ~SecretCall(t), UNCHANGED req,
           file'.data = file.data, (file'.ver = 0) = (file.ver = 0),
           \A u \in Threads \ {t} : ans'[u] = ans[u]
    PROVE  UNCHANGED <<absStore, absCall, absAns>>
<1>1. \A u \in Threads : SecretCall(u)' = SecretCall(u)
  BY DEF SecretCall
<1> QED BY <1>1 DEF absStore, absCall, absAns

LEMMA RefineAdmin ==
    ASSUME IInv, NEW t \in Threads,
           \/ LoadAuto(t) \/ SaveAuto(t) \/ LoadChange(t) \/ Prove(t) \/ SaveChange(t)
    PROVE  UNCHANGED <<absStore, absCall, absAns>>
<1> USE DEF IInv
<1>1. ~SecretCall(t) /\ UNCHANGED req
  BY DEF LoadAuto, SaveAuto, LoadChange, Prove, SaveChange, InDoc, SecretCall, CallsFit
<1>2. \A u \in Threads \ {t} : ans'[u] = ans[u]
  BY DEF LoadAuto, SaveAuto, LoadChange, Prove, SaveChange, Answer, TypeOK
<1>3. file'.data = file.data /\ (file'.ver = 0) = (file.ver = 0)
  BY DEF LoadAuto, SaveAuto, LoadChange, Prove, SaveChange, ReadsFit, TypeOK, Doc
<1> QED BY <1>1, <1>2, <1>3, RefineOther

LEMMA RefineLogin ==
    ASSUME IInv, NEW t \in Threads, Peek(t) \/ Derive(t)
    PROVE  Abstract!Return(t) \/ UNCHANGED <<absStore, absCall, absAns>>
<1> USE DEF IInv
<1>1. ~SecretCall(t) /\ file' = file
  BY DEF Peek, Derive, CallsFit, SecretCall
<1>2. Finish(t) \/ UNCHANGED <<req, ans>>
  BY DEF Peek, Derive
<1>3. CASE Finish(t)
  BY <1>1, <1>3, RefineLeave
<1>4. CASE UNCHANGED <<req, ans>>
  BY <1>1, <1>4, RefineOther
<1> QED BY <1>2, <1>3, <1>4

LEMMA RefineMigrate == ASSUME IInv, NEW t \in Threads, Migrate(t)
                       PROVE  UNCHANGED <<absStore, absCall, absAns>>
<1>1. file'.data = file.data /\ file.ver # 0 /\ file'.ver # 0
  BY DEF Migrate, Migrated, NewVault
<1>2. UNCHANGED <<req, ans>>
  BY DEF Migrate
<1> QED BY <1>1, <1>2, Stutter DEF SecretCall

LEMMA RefineCreate == ASSUME IInv, NEW t \in Threads, Create(t) PROVE Abstract!Create
<1> USE DEF IInv
<1>1. file.ver = 0 /\ req[t].op = "create" /\ file'.ver = 2 /\ file'.data = Empty
  BY DEF Create, NewVault, OneWizard, CallsFit
<1>2. absCall' = absCall /\ absAns' = absAns
  BY <1>1 DEF Create, Finish, absCall, absAns, SecretCall, TypeOK, NoReq
<1>3. absStore = Free /\ absStore' = Empty
  BY <1>1 DEF absStore
<1> QED BY <1>2, <1>3 DEF Abstract!Create, Abstract!Empty, Empty

LEMMA RefineCrash == ASSUME IInv, NEW p \in Procs, Crash(p) PROVE Abstract!Crash
<1> DEFINE dead == {t \in Threads : ProcOf[t] = p}
<1>1. \A t \in Threads : IF t \in dead THEN req'[t] = NoReq /\ ans'[t] = "none"
                                      ELSE req'[t] = req[t] /\ ans'[t] = ans[t]
  BY DEF Crash
<1>2. absCall' = [t \in Threads |-> IF t \in dead THEN NoReq ELSE absCall[t]]
  BY <1>1 DEF absCall, SecretCall, NoReq
<1>3. absAns' = [t \in Threads |-> IF t \in dead THEN "none" ELSE absAns[t]]
  BY <1>1 DEF absAns, SecretCall, NoReq
<1>4. UNCHANGED absStore
  BY DEF Crash, absStore
<1>5. dead \in SUBSET Threads
  OBVIOUS
<1> HIDE DEF dead
<1> QED BY <1>2, <1>3, <1>4, <1>5 DEF Abstract!Crash, Abstract!NoCall, NoReq

LEMMA RefineStep == IInv /\ [Next]_vars => [Abstract!Next]_<<absStore, absCall, absAns>>
<1> SUFFICES ASSUME IInv, [Next]_vars
             PROVE  [Abstract!Next]_<<absStore, absCall, absAns>>
  OBVIOUS
<1>1. ASSUME NEW t \in Threads,
             TakeThreadLock(t) \/ TakeFileLock(t) \/ Adopt(t) \/ BeginInit(t)
      PROVE  UNCHANGED <<absStore, absCall, absAns>>
  <2>1. file' = file /\ ans' = ans
    BY <1>1 DEF TakeThreadLock, TakeFileLock, Adopt, BeginInit
  <2>2. CASE UNCHANGED req
    BY <2>1, <2>2, Stutter DEF SecretCall
  <2>3. CASE BeginInit(t)
    <3>1. ~SecretCall(t) /\ ~SecretCall(t)' /\ \A u \in Threads \ {t} : req'[u] = req[u]
      BY <2>3 DEF BeginInit, IInv, CallsFit, TypeOK, SecretCall, NoReq
    <3>2. \A u \in Threads : SecretCall(u)' = SecretCall(u)
      BY <3>1 DEF SecretCall
    <3>3. \A u \in Threads : SecretCall(u) => req'[u] = req[u] /\ ans'[u] = ans[u]
      BY <2>1, <3>1
    <3> QED BY <2>1, <3>2, <3>3, Stutter
  <2> QED BY <1>1, <2>2, <2>3 DEF TakeThreadLock, TakeFileLock, Adopt
<1>2. ASSUME NEW t \in Threads, Leave(t) \/ CreateFails(t)
      PROVE  Abstract!Return(t) \/ UNCHANGED <<absStore, absCall, absAns>>
  <2>1. Finish(t) /\ file' = file /\ (SecretCall(t) => pc[t] = "leave")
    BY <1>2 DEF Leave, CreateFails, IInv, CallsFit, SecretCall
  <2> QED BY <2>1, RefineLeave
<1>3. ASSUME NEW t \in Threads, Unavailable(t) \/ WriteFails(t)
      PROVE  Abstract!Refuse(t) \/ UNCHANGED <<absStore, absCall, absAns>>
  <2>1. Answer(t, "refused") /\ UNCHANGED <<file, req>> /\ pc[t] # "leave"
    BY <1>3 DEF Unavailable, WriteFails
  <2> QED BY <2>1, RefineRefuse
<1>4. CASE UNCHANGED vars
  BY <1>4 DEF vars, absStore, absCall, absAns, SecretCall
<1> QED BY <1>1, <1>2, <1>3, <1>4, RefineBegin, RefineLoad, RefineSave, RefineAdmin,
           RefineLogin, RefineMigrate, RefineCreate, RefineCrash
           DEF Next, Step, Abstract!Next

\* For its callers the vault is one atomic map, whatever runs beside them.
THEOREM VaultIsASecretStore == Spec => ImplementsSecretStore
<1>1. IInv /\ [Next]_vars => [Abstract!Next]_Abstract!vars
  BY RefineStep DEF Abstract!vars
<1> QED BY <1>1, RefineInit, Invariance, PTL DEF Spec, ImplementsSecretStore, Abstract!Spec

(* Who can open the vault. *)

\* Some process holds the data key.
SomeoneHolds == \E p \in Procs : mk[p] # NoKey

\* What OnlyRestartLocksOut says of one step.
StepKeepsAWayIn ==
    /\ file.ver = 0 /\ file'.ver # 0 => file'.pw # NoWrap
    /\ file.ver = 1 /\ file'.ver = 2 => Opens(file')
    /\ file.ver = 2 /\ file.pw # NoWrap => file'.pw # NoWrap
    /\ file.ver = 2 /\ (Opens(file) \/ SomeoneHolds) => Opens(file') \/ SomeoneHolds'

\* A step that leaves the file alone takes the key out of memory only where the
\* password opens the vault (verify_password's failure branch).
LEMMA MemoryKept ==
    ASSUME IInv, NEW t \in Threads, file' = file,
           \/ mk' = mk
           \/ SetMk(t, KeyOf(ProcOf[t]))
           \/ SetMk(t, doc[t].pw.key) /\ file.pw # NoWrap
           \/ SetMk(t, keep[t]) /\ file.pw # NoWrap
    PROVE  StepKeepsAWayIn
<1> USE VaultAssumption DEF IInv
<1>1. CASE mk' = mk
  BY <1>1 DEF StepKeepsAWayIn, SomeoneHolds, Opens
<1>2. CASE file.pw # NoWrap
  BY <1>2 DEF StepKeepsAWayIn, Opens
<1>3. CASE SetMk(t, KeyOf(ProcOf[t]))
  <2>1. ASSUME SomeoneHolds PROVE SomeoneHolds'
    <3>1. PICK p \in Procs : mk[p] # NoKey
      BY <2>1 DEF SomeoneHolds
    <3>2. mk'[p] # NoKey
      BY <1>3, <3>1 DEF SetMk, KeyOf, TypeOK
    <3> QED BY <3>2 DEF SomeoneHolds
  <2> QED BY <2>1 DEF StepKeepsAWayIn, Opens
<1> QED BY <1>1, <1>2, <1>3

LEMMA ReadersKeepAWayIn ==
    ASSUME IInv, NEW t \in Threads,
           \/ Begin(t) \/ BeginInit(t) \/ TakeThreadLock(t) \/ TakeFileLock(t)
           \/ Leave(t) \/ Unavailable(t) \/ Load(t) \/ LoadAuto(t) \/ LoadChange(t)
           \/ Prove(t) \/ Peek(t) \/ Adopt(t) \/ WriteFails(t) \/ CreateFails(t)
    PROVE  StepKeepsAWayIn
<1> USE DEF IInv
<1>1. CASE \/ Begin(t) \/ BeginInit(t) \/ TakeThreadLock(t) \/ TakeFileLock(t)
           \/ Leave(t) \/ Unavailable(t) \/ Peek(t) \/ Adopt(t) \/ WriteFails(t) \/ CreateFails(t)
  <2>1. file' = file /\ mk' = mk
    BY <1>1 DEF Begin, BeginInit, TakeThreadLock, TakeFileLock, Leave, Unavailable, Peek, Adopt,
       WriteFails, CreateFails
  <2> QED BY <2>1, MemoryKept
<1>2. CASE Load(t) \/ LoadAuto(t) \/ LoadChange(t)
  <2>1. file' = file /\ (mk' = mk \/ SetMk(t, KeyOf(ProcOf[t])))
    BY <1>2 DEF Load, LoadAuto, LoadChange
  <2> QED BY <2>1, MemoryKept
<1>3. CASE Prove(t)
  <2>1. /\ file' = file /\ file.pw # NoWrap
        /\ SetMk(t, doc[t].pw.key) \/ SetMk(t, keep[t])
    BY <1>3 DEF Prove, ReadsFit
  <2> QED BY <2>1, MemoryKept
<1> QED BY <1>1, <1>2, <1>3

\* A login puts the file's own key into memory, or nothing.
LEMMA LoginKeepsAWayIn == ASSUME IInv, NEW t \in Threads, Derive(t) PROVE StepKeepsAWayIn
<1> USE VaultAssumption DEF IInv
<1>1. /\ file' = file /\ file.ver = 2 /\ file.key # NoKey
      /\ req[t] \in Request /\ req[t].op = "login" /\ ProcOf[t] \in Procs
  BY DEF Derive, ReadsFit, KeysOpenVault, CallsFit, TypeOK, NoReq
<1>2. mk' = mk \/ mk' = [mk EXCEPT ![ProcOf[t]] = file.key]
  BY <1>1, Fields DEF Derive, SetMk, ReadsFit, NoWrap
<1>3. CASE mk' = mk
  BY <1>1, <1>3, MemoryKept
<1>4. CASE mk' = [mk EXCEPT ![ProcOf[t]] = file.key]
  BY <1>1, <1>4 DEF StepKeepsAWayIn, SomeoneHolds, Opens, TypeOK
<1> QED BY <1>2, <1>3, <1>4

LEMMA WritersKeepAWayIn ==
    ASSUME IInv, NEW t \in Threads,
           Migrate(t) \/ Save(t) \/ SaveAuto(t) \/ SaveChange(t) \/ Create(t)
    PROVE  StepKeepsAWayIn
<1> USE VaultAssumption DEF IInv
<1>1. ASSUME Migrate(t) PROVE StepKeepsAWayIn
  <2>1. file.ver = 1 /\ Opens(file')
    BY <1>1 DEF Migrate, Migrated, NewVault, NoWrap, Opens
  <2> QED BY <2>1 DEF StepKeepsAWayIn
<1>2. ASSUME Save(t) PROVE StepKeepsAWayIn
  <2>1. file.ver = 2 /\ KeyOf(ProcOf[t]) = file.key /\ file.key # NoKey
    BY <1>2 DEF Save, ReadsFit, KeyOf, KeysOpenVault
  <2>2. file'.pw = file.pw /\ mk'[ProcOf[t]] # NoKey /\ ProcOf[t] \in Procs
    BY <1>2, <2>1 DEF Save, SetMk, TypeOK, Doc
  <2> QED BY <2>1, <2>2 DEF StepKeepsAWayIn, SomeoneHolds
<1>3. ASSUME SaveAuto(t) PROVE StepKeepsAWayIn
  <2>1. file.ver = 2 /\ mk[ProcOf[t]] # NoKey /\ doc[t] = file /\ mk' = mk /\ ProcOf[t] \in Procs
    BY <1>3 DEF SaveAuto, ReadsFit, KeysOpenVault, TypeOK
  <2>2. file'.pw = file.pw
    BY <1>3, <2>1 DEF SaveAuto, TypeOK, Doc
  <2> QED BY <2>1, <2>2 DEF StepKeepsAWayIn, SomeoneHolds
<1>4. ASSUME SaveChange(t) PROVE StepKeepsAWayIn
  <2>1. file.ver = 2 /\ req[t].op = "change" /\ doc[t] = file
    BY <1>4 DEF SaveChange, ReadsFit
  <2>2. req[t].new \in Passwords
    BY <2>1, Fields DEF TypeOK, NoReq
  <2>3. file'.pw # NoWrap
    BY <1>4, <2>1, <2>2 DEF SaveChange, TypeOK, Doc, NoWrap
  <2> QED BY <2>1, <2>3 DEF StepKeepsAWayIn, Opens
<1>5. ASSUME Create(t) PROVE StepKeepsAWayIn
  <2>1. file.ver = 0 /\ req[t].op = "create"
    BY <1>5 DEF Create, CallsFit, OneWizard
  <2>2. req[t].word \in Passwords
    BY <2>1, Fields DEF TypeOK, NoReq
  <2>3. file'.pw # NoWrap
    BY <1>5, <2>2 DEF Create, NewVault, NoWrap
  <2> QED BY <2>1, <2>3 DEF StepKeepsAWayIn
<1> QED BY <1>1, <1>2, <1>3, <1>4, <1>5

\* No call and no login locks everyone out, with a password or without one: as long
\* as the vault can be opened, only a restart can end that (set_auto_unlock,
\* change_password, verify_password, _migrate_v1, init).
THEOREM NoCallLocksOut == Spec => OnlyRestartLocksOut
<1>1. IInv /\ [Next]_vars =>
        [/\ file.ver = 0 /\ file'.ver # 0 => file'.pw # NoWrap
         /\ file.ver = 1 /\ file'.ver = 2 => Opens(file')
         /\ file.ver = 2 /\ file.pw # NoWrap => file'.pw # NoWrap
         /\ /\ file.ver = 2
            /\ Opens(file) \/ \E p \in Procs : mk[p] # NoKey
            /\ ~Opens(file') /\ \A p \in Procs : mk'[p] = NoKey
            => \E p \in Procs : Crash(p)]_vars
  <2> SUFFICES ASSUME IInv, Next
               PROVE  /\ file.ver = 0 /\ file'.ver # 0 => file'.pw # NoWrap
                      /\ file.ver = 1 /\ file'.ver = 2 => Opens(file')
                      /\ file.ver = 2 /\ file.pw # NoWrap => file'.pw # NoWrap
                      /\ /\ file.ver = 2
                         /\ Opens(file) \/ \E p \in Procs : mk[p] # NoKey
                         /\ ~Opens(file') /\ \A p \in Procs : mk'[p] = NoKey
                         => \E p \in Procs : Crash(p)
    OBVIOUS
  <2>1. CASE StepKeepsAWayIn
    BY <2>1 DEF StepKeepsAWayIn, SomeoneHolds
  <2>2. CASE \E p \in Procs : Crash(p)
    <3>1. file' = file
      BY <2>2 DEF Crash
    <3> QED BY <2>2, <3>1
  <2>3. ASSUME NEW t \in Threads, Begin(t) \/ BeginInit(t) \/ Step(t)
        PROVE  StepKeepsAWayIn
    BY <2>3, ReadersKeepAWayIn, LoginKeepsAWayIn, WritersKeepAWayIn DEF Step
  <2> QED BY <2>1, <2>2, <2>3 DEF Next
<1> QED BY <1>1, Invariance, PTL DEF Spec, OnlyRestartLocksOut
==============================================================================
