----------------------------- MODULE SecretStore -----------------------------
(***************************************************************************)
(* What the vault promises the callers of secret_set, secret_get and       *)
(* secret_delete (src/vault.py): one map from names to values on which     *)
(* every call takes effect at one instant between its start and its        *)
(* return, or is refused without any effect.  Whatever processes, threads, *)
(* password changes, format migrations or crashes do underneath, a caller  *)
(* sees nothing else.                                                      *)
(***************************************************************************)

CONSTANTS Clients,   \* the threads that may call
          Names,     \* names of secrets
          Values,    \* their values
          Missing,   \* what a name without a value maps to
          NoStore    \* there is no vault yet

VARIABLES store,     \* NoStore, or the secrets
          call,      \* the call each client has open
          ans        \* its answer; "none" until the call has taken effect

vars == <<store, call, ans>>

NoCall == [op |-> "none"]

Call == [op : {"set"}, name : Names, val : Values]
          \cup [op : {"get", "delete"}, name : Names]

Empty == [n \in Names |-> Missing]

Init == /\ store \in {NoStore} \cup [Names -> Values \cup {Missing}]
        /\ call = [c \in Clients |-> NoCall]
        /\ ans  = [c \in Clients |-> "none"]

Invoke(c) == /\ call[c] = NoCall
             /\ \E r \in Call : call' = [call EXCEPT ![c] = r]
             /\ UNCHANGED <<store, ans>>

Pending(c) == call[c] # NoCall /\ ans[c] = "none"

Set(c) == /\ Pending(c)
          /\ call[c].op = "set"
          /\ store # NoStore
          /\ store' = [store EXCEPT ![call[c].name] = call[c].val]
          /\ ans' = [ans EXCEPT ![c] = "ok"]
          /\ UNCHANGED call

Get(c) == /\ Pending(c)
          /\ call[c].op = "get"
          /\ store # NoStore
          /\ ans' = [ans EXCEPT ![c] = store[call[c].name]]
          /\ UNCHANGED <<store, call>>

\* secret_delete answers whether the name was there.
Delete(c) == /\ Pending(c)
             /\ call[c].op = "delete"
             /\ store # NoStore
             /\ store' = [store EXCEPT ![call[c].name] = Missing]
             /\ ans' = [ans EXCEPT ![c] = IF store[call[c].name] = Missing
                                             THEN "no" ELSE "ok"]
             /\ UNCHANGED call

Refuse(c) == /\ Pending(c)
             /\ ans' = [ans EXCEPT ![c] = "refused"]
             /\ UNCHANGED <<store, call>>

Return(c) == /\ call[c] # NoCall
             /\ ans[c] # "none"
             /\ call' = [call EXCEPT ![c] = NoCall]
             /\ ans'  = [ans EXCEPT ![c] = "none"]
             /\ UNCHANGED store

\* A process dies: its open calls end without an answer, done or not done.
Crash == \E C \in SUBSET Clients :
            /\ call' = [c \in Clients |-> IF c \in C THEN NoCall ELSE call[c]]
            /\ ans'  = [c \in Clients |-> IF c \in C THEN "none" ELSE ans[c]]
            /\ UNCHANGED store

\* The setup wizard creates an empty vault, once.
Create == /\ store = NoStore
          /\ store' = Empty
          /\ UNCHANGED <<call, ans>>

Next == \/ \E c \in Clients : \/ Invoke(c) \/ Set(c) \/ Get(c) \/ Delete(c)
                              \/ Refuse(c) \/ Return(c)
        \/ Crash
        \/ Create

Spec == Init /\ [][Next]_vars
==============================================================================
