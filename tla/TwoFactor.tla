----------------------------- MODULE TwoFactor -----------------------------
(***************************************************************************)
(* The second factor: src/totp.py, its endpoints in src/api/system.py and  *)
(* the logins that ask for it.  Its state is one secret of the vault, and  *)
(* a vault transaction is one step here (module Vault: its calls are       *)
(* atomic).  The endpoints ask is_enabled() in one thread call and act in  *)
(* the next, so other requests run in between.                             *)
(*                                                                         *)
(* Data: a TOTP code is the secret it was computed from (a code of the     *)
(* current window can be sent again); recovery codes and secrets are fresh *)
(* random ids.                                                             *)
(***************************************************************************)
EXTENDS Naturals, FiniteSets

CONSTANTS Reqs, Secrets, Recovery,
          Batch,            \* recovery codes made at once (8 in the code)
          NoSecret, Wrong   \* Wrong: a code that fits nothing

Factors == Secrets \cup Recovery \cup {Wrong}
Ops == {"login", "setup", "enable", "disable"}

ASSUME TwoFactorAssumption ==
    /\ Batch \in Nat
    /\ NoSecret \notin Factors /\ Wrong \notin Secrets \cup Recovery
    /\ Secrets \cap Recovery = {}

VARIABLES st,       \* the secret __2fa__
          pc, req,  \* where each request is; its operation and factor
          made,     \* history: secrets and recovery codes generated so far
          shown,    \* history: the recovery codes the last activation showed
          spent,    \* history: how often a recovery code was accepted
          overtaken \* history: requests about to switch off when the factor was activated

vars == <<st, pc, req, made, shown, spent, overtaken>>

State  == [enabled : BOOLEAN, secret : Secrets \cup {NoSecret}, recovery : SUBSET Recovery]
Off    == [enabled |-> FALSE, secret |-> NoSecret, recovery |-> {}]
NoReq  == [op |-> "none", factor |-> Wrong, proved |-> NoSecret]

TypeOK == /\ st \in State
          /\ pc \in [Reqs -> {"idle", "ask", "act", "check", "disable"}]
          /\ req \in [Reqs -> [op : Ops \cup {"none"}, factor : Factors,
                               proved : Secrets \cup {NoSecret}]]
          /\ made \subseteq Secrets \cup Recovery
          /\ shown \subseteq Recovery
          /\ spent \in [Recovery -> Nat]
         /\ overtaken \subseteq Reqs

Init == /\ st = Off
        /\ pc = [r \in Reqs |-> "idle"]
        /\ req = [r \in Reqs |-> NoReq]
        /\ made = {} /\ shown = {}
        /\ spent = [c \in Recovery |-> 0]
        /\ overtaken = {}
------------------------------------------------------------------------------
Goto(r, l) == pc' = [pc EXCEPT ![r] = l]
Finish(r)  == Goto(r, "idle") /\ req' = [req EXCEPT ![r] = NoReq]
Leave(r)   == Finish(r) /\ overtaken' = overtaken \ {r}

\* verify_code() against the secret in the vault.
Fits(factor) == st.secret # NoSecret /\ factor = st.secret

Begin(r) ==
    /\ pc[r] = "idle"
    /\ \E o \in Ops : \E f \in IF o = "setup" THEN {Wrong} ELSE made \cup {Wrong} :
          req' = [req EXCEPT ![r] = [op |-> o, factor |-> f, proved |-> NoSecret]]
    /\ Goto(r, "ask")
    /\ UNCHANGED <<st, made, shown, spent, overtaken>>

\* is_enabled(): an active factor sends setup and enable away (409), and makes
\* login and disable check the code.
IsEnabled(r) ==
    /\ pc[r] = "ask"
    /\ \/ st.enabled /\ req[r].op \in {"setup", "enable"} /\ Finish(r)
       \/ st.enabled /\ req[r].op \in {"login", "disable"} /\ Goto(r, "check") /\ UNCHANGED req
       \/ ~st.enabled /\ req[r].op \in {"setup", "enable"} /\ Goto(r, "act") /\ UNCHANGED req
       \/ ~st.enabled /\ req[r].op = "disable" /\ Goto(r, "disable") /\ UNCHANGED req
       \/ ~st.enabled /\ req[r].op = "login" /\ Finish(r)
    /\ UNCHANGED <<st, made, shown, spent, overtaken>>

\* MUTANT: begin_setup() does not look itself.
MaySetUp_Always == TRUE

MaySetUp == ~st.enabled

\* begin_setup(): a new secret, not active yet; an active one is never touched.
BeginSetup(r) ==
    /\ pc[r] = "act" /\ req[r].op = "setup"
    /\ \/ ~MaySetUp /\ UNCHANGED <<st, made>>
       \/ /\ MaySetUp
          /\ \E s \in Secrets \ made :
                /\ st' = [enabled |-> FALSE, secret |-> s, recovery |-> {}]
                /\ made' = made \cup {s}
    /\ Finish(r)
    /\ UNCHANGED <<shown, spent, overtaken>>

\* The codes a successful enable() stores and shows.
Activate ==
    \E new \in SUBSET (Recovery \ made) :
        /\ Cardinality(new) = Batch
        /\ st' = [st EXCEPT !.enabled = TRUE, !.recovery = new]
        /\ made' = made \cup new
        /\ shown' = new
        /\ overtaken' = {q \in Reqs : pc[q] = "disable"}

\* MUTANT: two activations race: the later one's codes are shown, not stored.
Enable_LostRace(r) ==
    /\ pc[r] = "act" /\ req[r].op = "enable"
    /\ \/ ~Fits(req[r].factor) /\ UNCHANGED <<st, made, shown, overtaken>>
       \/ Fits(req[r].factor) /\ ~st.enabled /\ Activate
       \/ /\ Fits(req[r].factor) /\ st.enabled
          /\ \E new \in SUBSET (Recovery \ made) :
                Cardinality(new) = Batch /\ shown' = new /\ made' = made \cup new
          /\ UNCHANGED <<st, overtaken>>
    /\ Finish(r)
    /\ UNCHANGED spent

\* enable(code): None if already active, without secret, or on a wrong code.
Enable(r) ==
    /\ pc[r] = "act" /\ req[r].op = "enable"
    /\ \/ /\ st.enabled \/ ~Fits(req[r].factor)
          /\ UNCHANGED <<st, made, shown, overtaken>>
       \/ ~st.enabled /\ Fits(req[r].factor) /\ Activate
    /\ Finish(r)
    /\ UNCHANGED spent

Accept(r) ==
    IF req[r].op = "disable" THEN /\ Goto(r, "disable")
                                  /\ req' = [req EXCEPT ![r].proved =
                                                IF st.enabled THEN st.secret ELSE NoSecret]
                             ELSE Finish(r)

\* MUTANT: an accepted recovery code is not struck off.
Struck_Not(c) == st

Struck(c) == [st EXCEPT !.recovery = @ \ {c}]

\* check(code): the TOTP code, or a recovery code, which is used up.
Check(r) ==
    /\ pc[r] = "check"
    /\ \/ /\ ~st.enabled \/ Fits(req[r].factor)
          /\ Accept(r) /\ UNCHANGED <<st, spent>>
       \/ /\ st.enabled /\ req[r].factor \in st.recovery
          /\ st' = Struck(req[r].factor)
          /\ spent' = [spent EXCEPT ![req[r].factor] = @ + 1]
          /\ Accept(r)
       \/ /\ st.enabled /\ ~Fits(req[r].factor) /\ req[r].factor \notin st.recovery
          /\ Finish(r) /\ UNCHANGED <<st, spent>>
    /\ UNCHANGED <<made, shown, overtaken>>

\* disable(): writes without looking.
Disable(r) ==
    /\ pc[r] = "disable"
    /\ st' = Off
    /\ Leave(r)
    /\ UNCHANGED <<made, shown, spent>>

\* The server restarts, or a vault call fails: the request is gone.
GiveUp(r) ==
    /\ pc[r] # "idle"
    /\ Leave(r)
    /\ UNCHANGED <<st, made, shown, spent>>

Step(r) == \/ Begin(r) \/ IsEnabled(r) \/ BeginSetup(r) \/ Enable(r)
           \/ Check(r) \/ Disable(r) \/ GiveUp(r)
Next == \E r \in Reqs : Step(r)
Spec == Init /\ [][Next]_vars
------------------------------------------------------------------------------
(* Properties *)

\* A recovery code admits one login or one switch-off, however many requests
\* present it at the same time (check: "sofort verbraucht").
RecoveryOnce == \A c \in Recovery : spent[c] <= 1

\* The codes the user was shown are the codes that work: as long as the factor
\* is active, what is stored is what the last activation showed, less the codes
\* used since (enable, R17-1 and R20-1).
ShownCodesWork == st.enabled => st.recovery = {c \in shown : spent[c] = 0}

\* What makes them inductive: the codes stored were made and shown, and an
\* accepted code is struck off and never made again.
CodesTracked ==
    /\ st.recovery \subseteq shown /\ shown \subseteq made
    /\ \A c \in Recovery : spent[c] > 0 => c \in made /\ c \notin st.recovery

IInv == TypeOK /\ RecoveryOnce /\ ShownCodesWork /\ CodesTracked

\* Switching the factor off takes a valid code of the factor that is switched
\* off (twofa_disable: "verlangt einen gültigen Code").
OffOnlyWithCode ==
    [][(st.enabled /\ ~st'.enabled) =>
          \E r \in Reqs : pc[r] = "disable" /\ req[r].proved = st.secret]_vars

\* That is not so for a request that found no factor, or proved another one, and was
\* overtaken by an activation before it wrote (twofa_disable asks and writes in two
\* calls).  It is the only way: whatever else runs beside it, a set-up above all
\* (begin_setup, P0-1), an active factor goes only by a code of that factor.
OffTakesACode ==
    [][(st.enabled /\ ~st'.enabled) =>
          \E r \in Reqs : /\ pc[r] = "disable"
                          /\ req[r].proved = st.secret \/ r \in overtaken]_vars

\* What it rests on: a request that was not overtaken proved the factor that is stored.
ProvedStands == \A r \in Reqs : pc[r] = "disable" /\ st.enabled =>
                                   req[r].proved = st.secret \/ r \in overtaken
==============================================================================
