---------------------------- MODULE Login_proofs ----------------------------
(* What stands in front of a login.  The recovery codes of TwoFactor, for      *)
(* every number of requests, secrets, codes and codes per batch, and what a    *)
(* switch-off takes.  The brake of RateLimit, for every number of attempts,    *)
(* every limit, window and length of time, and as many addresses as fit into   *)
(* its map, whether the writes of its file go through or not.                  *)
EXTENDS TwoFactor, RateLimit, TLAPS, FiniteSetTheorems, SequenceTheorems
------------------------------------------------------------------------------

(* The second factor.                                                          *)

(* The invariant holds initially and every action keeps it. *)

LEMMA InitInv == Init => IInv
<1> SUFFICES ASSUME Init PROVE IInv
  OBVIOUS
<1> USE TwoFactorAssumption DEF Init
<1>1. TypeOK
  BY DEF TypeOK, State, Off, NoReq, Factors, Ops
<1>2. RecoveryOnce /\ ShownCodesWork /\ CodesTracked
  BY DEF RecoveryOnce, ShownCodesWork, CodesTracked, Off
<1> QED BY <1>1, <1>2 DEF IInv

\* A step that touches only requests keeps what is said of the codes.
LEMMA RequestsOnly ==
    ASSUME IInv, TypeOK', UNCHANGED <<st, made, shown, spent>>
    PROVE  IInv'
BY DEF IInv, RecoveryOnce, ShownCodesWork, CodesTracked

LEMMA FinishType ==
    ASSUME TypeOK, NEW r \in Reqs, Finish(r)
    PROVE  /\ pc' \in [Reqs -> {"idle", "ask", "act", "check", "disable"}]
           /\ req' \in [Reqs -> [op : Ops \cup {"none"}, factor : Factors,
                                 proved : Secrets \cup {NoSecret}]]
BY DEF TypeOK, Finish, Goto, NoReq, Factors

LEMMA BeginInv == ASSUME IInv, NEW r \in Reqs, Begin(r) PROVE IInv'
<1>1. TypeOK'
  <2>1. PICK o \in Ops, f \in Factors :
           req' = [req EXCEPT ![r] = [op |-> o, factor |-> f, proved |-> NoSecret]]
    BY DEF Begin, IInv, TypeOK, Factors
  <2> QED BY <2>1 DEF Begin, Goto, IInv, TypeOK
<1> QED BY <1>1, RequestsOnly DEF Begin

LEMMA IsEnabledInv == ASSUME IInv, NEW r \in Reqs, IsEnabled(r) PROVE IInv'
<1>1. TypeOK'
  BY FinishType DEF IsEnabled, Goto, IInv, TypeOK
<1> QED BY <1>1, RequestsOnly DEF IsEnabled

LEMMA GiveUpInv == ASSUME IInv, NEW r \in Reqs, GiveUp(r) PROVE IInv'
<1>1. TypeOK'
  BY FinishType DEF GiveUp, Leave, IInv, TypeOK
<1> QED BY <1>1, RequestsOnly DEF GiveUp

LEMMA BeginSetupInv == ASSUME IInv, NEW r \in Reqs, BeginSetup(r) PROVE IInv'
<1> USE DEF BeginSetup, IInv
<1>1. CASE UNCHANGED <<st, made>>
  BY <1>1, FinishType, RequestsOnly DEF TypeOK
<1>2. ASSUME NEW s \in Secrets,
             st' = [enabled |-> FALSE, secret |-> s, recovery |-> {}],
             made' = made \cup {s}
      PROVE  IInv'
  <2>1. TypeOK'
    BY <1>2, FinishType DEF TypeOK, State
  <2>2. RecoveryOnce' /\ ShownCodesWork'
    BY <1>2 DEF RecoveryOnce, ShownCodesWork
  <2>3. CodesTracked'
    BY <1>2 DEF CodesTracked
  <2> QED BY <2>1, <2>2, <2>3
<1> QED BY <1>1, <1>2

\* New codes were never accepted before.
LEMMA ActivateInv ==
    ASSUME IInv, NEW r \in Reqs, Activate, Finish(r), UNCHANGED spent
    PROVE  IInv'
<1> USE DEF IInv
<1>1. PICK new \in SUBSET (Recovery \ made) :
         /\ st' = [st EXCEPT !.enabled = TRUE, !.recovery = new]
         /\ made' = made \cup new /\ shown' = new
  BY DEF Activate
<1>2. st'.recovery = new /\ st' \in State
  BY <1>1 DEF TypeOK, State
<1>3. TypeOK'
  BY <1>1, <1>2, FinishType DEF TypeOK, Activate
<1>4. \A c \in new : spent[c] = 0
  BY DEF CodesTracked, TypeOK
<1>5. RecoveryOnce' /\ ShownCodesWork'
  BY <1>1, <1>2, <1>4 DEF RecoveryOnce, ShownCodesWork
<1>6. CodesTracked'
  BY <1>1, <1>2, <1>4 DEF CodesTracked
<1> QED BY <1>3, <1>5, <1>6

LEMMA EnableInv == ASSUME IInv, NEW r \in Reqs, Enable(r) PROVE IInv'
<1>1. CASE Activate
  BY <1>1, ActivateInv DEF Enable
<1>2. CASE UNCHANGED <<st, made, shown, overtaken>>
  BY <1>2, FinishType, RequestsOnly DEF Enable, IInv, TypeOK
<1> QED BY <1>1, <1>2 DEF Enable

LEMMA AcceptType ==
    ASSUME TypeOK, NEW r \in Reqs, Accept(r)
    PROVE  /\ pc' \in [Reqs -> {"idle", "ask", "act", "check", "disable"}]
           /\ req' \in [Reqs -> [op : Ops \cup {"none"}, factor : Factors,
                                 proved : Secrets \cup {NoSecret}]]
BY FinishType DEF TypeOK, Accept, Goto, State

\* The one step that spends a code: it was stored, so it had not been accepted.
LEMMA CheckInv == ASSUME IInv, NEW r \in Reqs, Check(r) PROVE IInv'
<1> USE DEF IInv, Check
<1> DEFINE c == req[r].factor
<1>1. CASE UNCHANGED <<st, spent>>
  BY <1>1, FinishType, AcceptType, RequestsOnly DEF TypeOK
<1>2. CASE /\ st.enabled /\ c \in st.recovery
           /\ st' = Struck(c)
           /\ spent' = [spent EXCEPT ![c] = @ + 1]
           /\ Accept(r)
  <2>1. c \in Recovery /\ spent[c] = 0
    BY <1>2 DEF TypeOK, State, CodesTracked
  <2>2. st' = [st EXCEPT !.recovery = st.recovery \ {c}]
    BY <1>2 DEF Struck
  <2>3. st'.recovery = st.recovery \ {c} /\ st' \in State
    BY <2>2 DEF TypeOK, State
  <2>4. \A d \in Recovery : spent'[d] = IF d = c THEN 1 ELSE spent[d]
    BY <1>2, <2>1 DEF TypeOK
  <2>5. TypeOK'
    BY <1>2, <2>1, <2>3, AcceptType DEF TypeOK
  <2>6. RecoveryOnce'
    BY <2>4 DEF RecoveryOnce
  <2>7. ShownCodesWork'
    BY <1>2, <2>3, <2>4 DEF ShownCodesWork, TypeOK
  <2>8. CodesTracked'
    BY <1>2, <2>1, <2>3, <2>4 DEF CodesTracked
  <2> QED BY <2>5, <2>6, <2>7, <2>8
<1> QED BY <1>1, <1>2

LEMMA DisableInv == ASSUME IInv, NEW r \in Reqs, Disable(r) PROVE IInv'
<1> USE DEF IInv, Disable
<1>1. TypeOK'
  BY FinishType DEF TypeOK, State, Off, Leave
<1>2. RecoveryOnce' /\ ShownCodesWork' /\ CodesTracked'
  BY DEF RecoveryOnce, ShownCodesWork, CodesTracked, Off
<1> QED BY <1>1, <1>2

LEMMA NextInv == IInv /\ [Next]_vars => IInv'
<1> SUFFICES ASSUME IInv, [Next]_vars PROVE IInv'
  OBVIOUS
<1>1. CASE UNCHANGED vars
  BY <1>1, RequestsOnly DEF vars, IInv, TypeOK
<1> QED BY <1>1, BeginInv, IsEnabledInv, BeginSetupInv, EnableInv, CheckInv, DisableInv,
           GiveUpInv DEF Next, Step

\* The types of the state, of every request and of the history.
THEOREM TypeCorrect == Spec => []TypeOK
<1>1. IInv => TypeOK
  BY DEF IInv
<1> QED BY <1>1, InitInv, NextInv, PTL DEF Spec

\* A recovery code admits one login or one switch-off (check: "sofort
\* verbraucht"), whatever requests present it at the same time.
THEOREM RecoveryCodeWorksOnce == Spec => []RecoveryOnce
<1>1. IInv => RecoveryOnce
  BY DEF IInv
<1> QED BY <1>1, InitInv, NextInv, PTL DEF Spec

\* What is stored is what the last activation showed, less what was used since:
\* no race of two activations, and no set-up beside one, stores codes nobody saw.
THEOREM ShownCodesAreTheStoredOnes == Spec => []ShownCodesWork
<1>1. IInv => ShownCodesWork
  BY DEF IInv
<1> QED BY <1>1, InitInv, NextInv, PTL DEF Spec

(* Switching off.  OffOnlyWithCode is broken by an activation that overtakes a *)
(* switch-off; the factor never goes in another way.                           *)

LEMMA StandsInv ==
    ASSUME TypeOK, ProvedStands, [Next]_vars
    PROVE  ProvedStands'
<1>1. CASE UNCHANGED vars
  BY <1>1 DEF vars, ProvedStands
<1>2. ASSUME NEW r \in Reqs, Begin(r) \/ BeginSetup(r) \/ Disable(r) \/ GiveUp(r)
      PROVE  ProvedStands'
  BY <1>2
  DEF Begin, BeginSetup, Disable, Off, GiveUp, Leave, Finish, Goto, ProvedStands, TypeOK
<1>3. ASSUME NEW r \in Reqs, IsEnabled(r) PROVE ProvedStands'
  BY <1>3 DEF IsEnabled, Finish, Goto, ProvedStands, TypeOK
<1>4. ASSUME NEW r \in Reqs, Enable(r) PROVE ProvedStands'
  BY <1>4 DEF Enable, Activate, Finish, Goto, ProvedStands, TypeOK
<1>5. ASSUME NEW r \in Reqs, Check(r) PROVE ProvedStands'
  BY <1>5 DEF Check, Accept, Finish, Goto, Struck, ProvedStands, TypeOK, State
<1> QED BY <1>1, <1>2, <1>3, <1>4, <1>5 DEF Next, Step

\* Whatever requests run beside one another: an active factor goes only by a request that
\* had a code of it accepted, or that had made up its mind before the factor was activated
\* (twofa_disable).  No set-up replaces it (begin_setup).
THEOREM SwitchOffTakesACode == Spec => OffTakesACode
<1>1. Init => ProvedStands
  BY DEF Init, ProvedStands
<1>2. IInv => TypeOK
  BY DEF IInv
<1>3. TypeOK /\ ProvedStands /\ [Next]_vars => ProvedStands'
  BY StandsInv
<1>4. ProvedStands /\ TypeOK /\ [Next]_vars =>
         [(st.enabled /\ ~st'.enabled) =>
             \E r \in Reqs : /\ pc[r] = "disable"
                             /\ req[r].proved = st.secret \/ r \in overtaken]_vars
  <2> SUFFICES ASSUME ProvedStands, TypeOK, Next, st.enabled, ~st'.enabled
               PROVE  \E r \in Reqs : /\ pc[r] = "disable"
                                      /\ req[r].proved = st.secret \/ r \in overtaken
    BY DEF vars
  <2>1. PICK r \in Reqs : Step(r)
    BY DEF Next
  <2>2. Disable(r)
    BY <2>1 DEF Step, Begin, IsEnabled, BeginSetup, MaySetUp, Enable, Activate, Check, Struck,
       GiveUp, TypeOK, State
  <2> QED BY <2>2 DEF Disable, ProvedStands
<1> QED BY <1>1, <1>2, <1>3, <1>4, InitInv, NextInv, PTL DEF Spec, OffTakesACode
------------------------------------------------------------------------------

(* The brake: lists of times, and the window that slides over them.           *)

\* What holds of the empty list and is kept by one more entry, holds of every list.
LEMMA ByLastEntry ==
    ASSUME NEW T, NEW S, <<>> \in S, \A s \in Seq(T), t \in T : s \in S => Append(s, t) \in S
    PROVE  \A s \in Seq(T) : s \in S
<1> SUFFICES ASSUME NEW bad \in Seq(T), bad \notin S PROVE FALSE
  OBVIOUS
<1> DEFINE Bad == {s \in Seq(T) : s \notin S}
           Sizes == {1..Len(s) : s \in Bad}
<1>1. Sizes \subseteq FiniteSubsetsOf(Nat) /\ Sizes # {}
  <2>1. ASSUME NEW s \in Seq(T) PROVE 1..Len(s) \in SUBSET Nat /\ IsFiniteSet(1..Len(s))
    <3>1. Len(s) \in Nat
      BY LenProperties
    <3> QED BY <3>1, FS_Interval
  <2> QED BY <2>1 DEF FiniteSubsetsOf
<1>2. PICK X \in Sizes : \A Y \in Sizes : ~(<<Y, X>> \in StrictSubsetOrdering(Nat))
  BY <1>1, FS_StrictSubsetOrderingWellFounded, WFMin
<1>3. PICK s \in Bad : X = 1..Len(s)
  BY <1>2
<1>4. PICK u \in Seq(T), t \in T : s = Append(u, t)
  BY <1>3, SequenceEmptyOrAppend
<1>5. u \in Bad
  BY <1>3, <1>4
<1>6. Len(u) \in Nat /\ Len(s) = Len(u) + 1
  BY <1>4, LenProperties, AppendProperties
<1>7. 1..Len(u) \subseteq 1..Len(s) /\ 1..Len(s) \subseteq Nat /\ 1..Len(u) \subseteq Nat
  BY <1>6
<1>8. Len(s) \in 1..Len(s) /\ Len(s) \notin 1..Len(u)
  BY <1>6
<1>9. <<1..Len(u), 1..Len(s)>> \in StrictSubsetOrdering(Nat)
  BY <1>7, <1>8 DEF StrictSubsetOrdering
<1> QED BY <1>2, <1>3, <1>5, <1>9

\* The recursion that Within runs through.
Filters(F, s, c) ==
    F = [i \in 0..Len(s) |->
            IF i = 0 THEN <<>>
            ELSE IF c - s[i] < Window THEN Append(F[i - 1], s[i]) ELSE F[i - 1]]

LEMMA WithinIs ==
    ASSUME NEW s, NEW c, NEW F, Filters(F, s, c), \A G : Filters(G, s, c) => G = F
    PROVE  Within(s, c) = F[Len(s)]
BY DEF Within, Filters

\* One more entry, one more step of the recursion.
Longer(F, s, t, c) ==
    [i \in 0..Len(s) + 1 |->
        IF i <= Len(s) THEN F[i]
        ELSE IF c - t < Window THEN Append(F[Len(s)], t) ELSE F[Len(s)]]

LEMMA LongerFilters ==
    ASSUME NEW s \in Seq(Nat), NEW t \in Nat, NEW c \in Nat, NEW F, Filters(F, s, c)
    PROVE  Filters(Longer(F, s, t, c), Append(s, t), c)
<1> DEFINE n == Len(s)
           L == Longer(F, s, t, c)
           a == Append(s, t)
<1>1. n \in Nat /\ Len(a) = n + 1 /\ a[n + 1] = t /\ \A i \in 1..n : a[i] = s[i]
  BY LenProperties, AppendProperties
<1>2. ASSUME NEW i \in 0..n + 1
      PROVE  L[i] = IF i = 0 THEN <<>>
                    ELSE IF c - a[i] < Window THEN Append(L[i - 1], a[i]) ELSE L[i - 1]
  <2>1. CASE i = 0
    BY <1>1, <2>1 DEF Longer, Filters
  <2>2. CASE i \in 1..n
    <3>1. L[i] = F[i] /\ L[i - 1] = F[i - 1] /\ a[i] = s[i] /\ i # 0 /\ i \in 0..n
      BY <1>1, <2>2 DEF Longer
    <3>2. F[i] = IF c - s[i] < Window THEN Append(F[i - 1], s[i]) ELSE F[i - 1]
      BY <3>1 DEF Filters
    <3> QED BY <3>1, <3>2
  <2>3. CASE i = n + 1
    <3>1. L[i] = (IF c - t < Window THEN Append(F[n], t) ELSE F[n]) /\ L[i - 1] = F[n] /\ a[i] = t /\ i # 0
      BY <1>1, <2>3 DEF Longer
    <3> QED BY <3>1
  <2> QED BY <1>1, <2>1, <2>2, <2>3
<1>3. L = [i \in 0..n + 1 |-> L[i]]
  BY DEF Longer
<1> QED BY <1>1, <1>2, <1>3 DEF Filters

LEMMA LongerOnly ==
    ASSUME NEW s \in Seq(Nat), NEW t \in Nat, NEW c \in Nat, NEW F, \A G : Filters(G, s, c) => G = F,
           NEW H, Filters(H, Append(s, t), c)
    PROVE  H = Longer(F, s, t, c)
<1> DEFINE n == Len(s)
           a == Append(s, t)
           R == [i \in 0..n |-> H[i]]
<1>1. n \in Nat /\ Len(a) = n + 1 /\ a[n + 1] = t /\ \A i \in 1..n : a[i] = s[i]
  BY LenProperties, AppendProperties
<1>2. \A i \in 0..n + 1 : H[i] = IF i = 0 THEN <<>>
                    ELSE IF c - a[i] < Window THEN Append(H[i - 1], a[i]) ELSE H[i - 1]
  BY <1>1 DEF Filters
<1>3. ASSUME NEW i \in 0..n
      PROVE  R[i] = IF i = 0 THEN <<>>
                    ELSE IF c - s[i] < Window THEN Append(R[i - 1], s[i]) ELSE R[i - 1]
  <2>1. CASE i = 0
    BY <1>1, <1>2, <2>1
  <2>2. CASE i # 0
    <3>1. i \in 1..n /\ i - 1 \in 0..n /\ i \in 0..n + 1
      BY <1>1, <2>2
    <3>2. H[i] = IF c - a[i] < Window THEN Append(H[i - 1], a[i]) ELSE H[i - 1]
      BY <1>2, <2>2, <3>1
    <3>3. R[i] = H[i] /\ R[i - 1] = H[i - 1] /\ a[i] = s[i]
      BY <1>1, <3>1
    <3> QED BY <2>2, <3>2, <3>3
  <2> QED BY <2>1, <2>2
<1>4. R = F
  BY <1>3 DEF Filters
<1>5. H = [i \in 0..n + 1 |-> H[i]]
  <2> DEFINE B == [i \in 0..n + 1 |-> IF i = 0 THEN <<>>
                    ELSE IF c - a[i] < Window THEN Append(H[i - 1], a[i]) ELSE H[i - 1]]
  <2>1. H = B
    BY <1>1 DEF Filters
  <2>2. B = [i \in 0..n + 1 |-> B[i]]
    OBVIOUS
  <2> HIDE DEF B
  <2> QED BY <2>1, <2>2
<1>6. ASSUME NEW i \in 0..n + 1 PROVE H[i] = Longer(F, s, t, c)[i]
  <2>1. CASE i \in 0..n
    BY <1>1, <1>4, <2>1 DEF Longer
  <2>2. CASE i = n + 1
    <3>1. H[i] = IF c - t < Window THEN Append(H[n], t) ELSE H[n]
      BY <1>1, <1>2, <2>2
    <3>2. H[n] = F[n]
      BY <1>1, <1>4
    <3> QED BY <1>1, <2>2, <3>1, <3>2 DEF Longer
  <2> QED BY <1>1, <2>1, <2>2
<1> QED BY <1>1, <1>5, <1>6 DEF Longer

LEMMA FiltersOnce ==
    ASSUME NEW c \in Nat
    PROVE  \A s \in Seq(Nat) : \E F : Filters(F, s, c) /\ \A G : Filters(G, s, c) => G = F
<1> DEFINE Good(s) == \E F : Filters(F, s, c) /\ \A G : Filters(G, s, c) => G = F
           S == {s \in Seq(Nat) : Good(s)}
<1>1. <<>> \in S
  <2> DEFINE Z == [i \in 0..0 |-> <<>>]
  <2>1. Len(<<>>) = 0 /\ <<>> \in Seq(Nat)
    BY EmptySeq
  <2>2. Filters(Z, <<>>, c)
    BY <2>1 DEF Filters
  <2>3. ASSUME NEW G, Filters(G, <<>>, c) PROVE G = Z
    <3>1. G = [i \in 0..0 |-> IF i = 0 THEN <<>>
                 ELSE IF c - <<>>[i] < Window THEN Append(G[i - 1], <<>>[i]) ELSE G[i - 1]]
      BY <2>1, <2>3 DEF Filters
    <3>2. \A i \in 0..0 : i = 0
      OBVIOUS
    <3> QED BY <3>1, <3>2
  <2> QED BY <2>1, <2>2, <2>3
<1>2. ASSUME NEW s \in Seq(Nat), NEW t \in Nat, s \in S PROVE Append(s, t) \in S
  <2>1. PICK F : Filters(F, s, c) /\ \A G : Filters(G, s, c) => G = F
    BY <1>2
  <2>2. Append(s, t) \in Seq(Nat)
    BY AppendProperties
  <2>3. Good(Append(s, t))
    BY <2>1, LongerFilters, LongerOnly
  <2> QED BY <2>2, <2>3
<1> HIDE DEF S
<1>3. \A s \in Seq(Nat) : s \in S
  BY <1>1, <1>2, ByLastEntry
<1> QED BY <1>3 DEF S

\* What Within does to the empty list and to one more entry.
LEMMA WithinEmpty ==
    ASSUME NEW c \in Nat
    PROVE  Within(<<>>, c) = <<>>
<1>1. <<>> \in Seq(Nat) /\ Len(<<>>) = 0
  BY EmptySeq
<1>2. PICK F : Filters(F, <<>>, c) /\ \A G : Filters(G, <<>>, c) => G = F
  BY <1>1, FiltersOnce
<1>3. F[0] = <<>>
  BY <1>1, <1>2 DEF Filters
<1> QED BY <1>1, <1>2, <1>3, WithinIs

LEMMA WithinAppend ==
    ASSUME NEW s \in Seq(Nat), NEW t \in Nat, NEW c \in Nat
    PROVE  Within(Append(s, t), c) =
              IF c - t < Window THEN Append(Within(s, c), t) ELSE Within(s, c)
<1>1. PICK F : Filters(F, s, c) /\ \A G : Filters(G, s, c) => G = F
  BY FiltersOnce
<1> DEFINE L == Longer(F, s, t, c)
<1>2. Filters(L, Append(s, t), c) /\ \A G : Filters(G, Append(s, t), c) => G = L
  BY <1>1, LongerFilters, LongerOnly
<1>3. Within(Append(s, t), c) = L[Len(s) + 1]
  <2>1. Len(Append(s, t)) = Len(s) + 1
    BY AppendProperties
  <2> QED BY <1>2, <2>1, WithinIs
<1>4. Within(s, c) = F[Len(s)]
  BY <1>1, WithinIs
<1>5. L[Len(s) + 1] = IF c - t < Window THEN Append(F[Len(s)], t) ELSE F[Len(s)]
  BY LenProperties DEF Longer
<1> QED BY <1>3, <1>4, <1>5

\* A window keeps some of the entries, and two windows one after the other are the later one.
LEMMA WithinType ==
    ASSUME NEW T, T \subseteq Nat, NEW c \in Nat
    PROVE  \A s \in Seq(T) : Within(s, c) \in Seq(T) /\ Len(Within(s, c)) <= Len(s)
<1> DEFINE S == {s \in Seq(T) : Within(s, c) \in Seq(T) /\ Len(Within(s, c)) <= Len(s)}
<1>1. <<>> \in S
  <2>1. <<>> \in Seq(T) /\ Len(<<>>) = 0
    BY EmptySeq
  <2>2. Within(<<>>, c) = <<>>
    BY WithinEmpty
  <2>3. Len(<<>>) <= Len(<<>>)
    BY <2>1
  <2> QED BY <2>1, <2>2, <2>3
<1>2. ASSUME NEW s \in Seq(T), NEW t \in T, s \in S PROVE Append(s, t) \in S
  <2>1. s \in Seq(Nat) /\ t \in Nat
    BY SeqMonotonic
  <2>2. Append(s, t) \in Seq(T) /\ Len(Append(s, t)) = Len(s) + 1
    BY AppendProperties
  <2>3. Within(s, c) \in Seq(T) /\ Len(Within(s, c)) <= Len(s)
    BY <1>2
  <2> DEFINE w == Within(s, c)
  <2>4. Append(w, t) \in Seq(T) /\ Len(Append(w, t)) = Len(w) + 1
    BY <2>3, AppendProperties
  <2>5. Len(w) \in Nat /\ Len(s) \in Nat
    BY <2>3, LenProperties
  <2>6. Within(Append(s, t), c) = IF c - t < Window THEN Append(w, t) ELSE w
    BY <2>1, WithinAppend
  <2>7. w \in Seq(T) /\ Len(w) <= Len(s)
    BY <2>3
  <2> HIDE DEF w
  <2>8. /\ Within(Append(s, t), c) \in Seq(T)
        /\ Len(Within(Append(s, t), c)) <= Len(Append(s, t))
    <3>1. CASE c - t < Window
      BY <2>2, <2>4, <2>5, <2>6, <2>7, <3>1
    <3>2. CASE ~(c - t < Window)
      BY <2>2, <2>5, <2>6, <2>7, <3>2
    <3> QED BY <3>1, <3>2
  <2> QED BY <2>2, <2>8
<1> HIDE DEF S
<1>3. \A s \in Seq(T) : s \in S
  BY <1>1, <1>2, ByLastEntry
<1> QED BY <1>3 DEF S

LEMMA WithinTwice ==
    ASSUME Window \in Nat, NEW c \in Nat, NEW d \in Nat, c <= d
    PROVE  \A s \in Seq(Nat) : Within(Within(s, c), d) = Within(s, d)
<1> DEFINE S == {s \in Seq(Nat) : Within(Within(s, c), d) = Within(s, d)}
<1>1. <<>> \in S
  BY EmptySeq, WithinEmpty
<1>2. ASSUME NEW s \in Seq(Nat), NEW t \in Nat, s \in S PROVE Append(s, t) \in S
  <2> DEFINE w == Within(s, c)
  <2>1. w \in Seq(Nat)
    BY WithinType
  <2>2. Within(Append(s, t), c) = IF c - t < Window THEN Append(w, t) ELSE w
    BY WithinAppend
  <2>3. Within(Append(s, t), d) =
           IF d - t < Window THEN Append(Within(s, d), t) ELSE Within(s, d)
    BY WithinAppend
  <2>4. Within(Append(w, t), d) =
           IF d - t < Window THEN Append(Within(w, d), t) ELSE Within(w, d)
    BY <2>1, WithinAppend
  <2>5. Within(w, d) = Within(s, d)
    BY <1>2
  <2>6. d - t < Window => c - t < Window
    OBVIOUS
  <2>7. Append(s, t) \in Seq(Nat)
    BY AppendProperties
  <2> HIDE DEF w
  <2>8. Within(Within(Append(s, t), c), d) = Within(Append(s, t), d)
    <3>1. CASE c - t < Window
      BY <2>2, <2>3, <2>4, <2>5, <3>1
    <3>2. CASE ~(c - t < Window)
      BY <2>2, <2>3, <2>5, <2>6, <3>2
    <3> QED BY <3>1, <3>2
  <2> QED BY <2>7, <2>8
<1> HIDE DEF S
<1>3. \A s \in Seq(Nat) : s \in S
  BY <1>1, <1>2, ByLastEntry
<1> QED BY <1>3 DEF S

LEMMA WithinLater ==
    ASSUME Window \in Nat, NEW c \in Nat, NEW d \in Nat, c <= d, NEW s \in Seq(Nat)
    PROVE  /\ Len(Within(s, d)) \in Nat /\ Len(Within(s, c)) \in Nat
           /\ Len(Within(s, d)) <= Len(Within(s, c))
<1>1. Within(s, c) \in Seq(Nat) /\ Within(s, d) \in Seq(Nat)
  BY WithinType
<1>2. Len(Within(Within(s, c), d)) <= Len(Within(s, c))
  BY <1>1, WithinType
<1> QED BY <1>1, <1>2, WithinTwice, LenProperties

\* Once the newest entry is out of the window, all are.
LEMMA WithinNone ==
    ASSUME NEW t \in Nat, NEW c \in Nat, ~(c - t < Window), Window \in Nat
    PROVE  \A s \in Seq(0..t) : Within(s, c) = <<>>
<1> DEFINE S == {s \in Seq(0..t) : Within(s, c) = <<>>}
<1>1. <<>> \in S
  BY EmptySeq, WithinEmpty
<1>2. ASSUME NEW s \in Seq(0..t), NEW e \in 0..t, s \in S PROVE Append(s, e) \in S
  <2>1. s \in Seq(Nat) /\ e \in Nat
    BY SeqMonotonic
  <2>2. ~(c - e < Window)
    BY <2>1
  <2> QED BY <1>2, <2>1, <2>2, WithinAppend, AppendProperties
<1> HIDE DEF S
<1>3. \A s \in Seq(0..t) : s \in S
  BY <1>1, <1>2, ByLastEntry
<1> QED BY <1>3 DEF S

\* Without its first entry a list counts at most one less.
LEMMA WithinTail ==
    ASSUME NEW d \in Nat
    PROVE  \A s \in Seq(Nat) :
              s # <<>> => Len(Within(s, d)) <= Len(Within(Tail(s), d)) + 1
<1> DEFINE S == {s \in Seq(Nat) :
                   s # <<>> => Len(Within(s, d)) <= Len(Within(Tail(s), d)) + 1}
<1>1. <<>> \in S
  BY EmptySeq
<1>2. ASSUME NEW s \in Seq(Nat), NEW t \in Nat, s \in S PROVE Append(s, t) \in S
  <2>1. Append(s, t) \in Seq(Nat)
    BY AppendProperties
  <2>2. Tail(Append(s, t)) = IF s = <<>> THEN <<>> ELSE Append(Tail(s), t)
    BY HeadTailAppend
  <2> DEFINE w == Within(s, d)
  <2>3. w \in Seq(Nat) /\ Len(w) \in Nat /\ Len(Append(w, t)) = Len(w) + 1
    BY WithinType, LenProperties, AppendProperties
  <2>4. Within(Append(s, t), d) = IF d - t < Window THEN Append(w, t) ELSE w
    BY WithinAppend
  <2>5. CASE s = <<>>
    <3> DEFINE v == Within(Tail(Append(s, t)), d)
    <3>1. w = <<>> /\ v = <<>>
      BY <2>2, <2>5, WithinEmpty
    <3>2. Len(w) = 0 /\ Len(v) = 0
      BY <3>1, EmptySeq
    <3> HIDE DEF w, v
    <3>3. Len(Within(Append(s, t), d)) <= Len(v) + 1
      BY <2>3, <2>4, <3>2
    <3> QED BY <2>1, <3>3 DEF v
  <2>6. CASE s # <<>>
    <3> DEFINE v == Within(Tail(s), d)
    <3>1. Tail(s) \in Seq(Nat)
      BY <2>6, HeadTailProperties
    <3>2. v \in Seq(Nat) /\ Len(v) \in Nat /\ Len(Append(v, t)) = Len(v) + 1
      BY <3>1, WithinType, LenProperties, AppendProperties
    <3>3. Within(Tail(Append(s, t)), d) = IF d - t < Window THEN Append(v, t) ELSE v
      BY <2>2, <2>6, <3>1, WithinAppend
    <3>4. Len(w) <= Len(v) + 1
      BY <1>2, <2>6
    <3> HIDE DEF w, v
    <3> QED BY <2>1, <2>3, <2>4, <3>2, <3>3, <3>4
  <2> QED BY <2>5, <2>6
<1> HIDE DEF S
<1>3. \A s \in Seq(Nat) : s \in S
  BY <1>1, <1>2, ByLastEntry
<1> QED BY <1>3 DEF S

\* The last entry stays the newest.
LEMMA WithinTopped ==
    ASSUME NEW c \in Nat, NEW s \in Seq(Nat), Topped(s), Window \in Nat
    PROVE  Topped(Within(s, c))
<1>1. CASE s = <<>>
  BY <1>1, WithinEmpty DEF Topped
<1>2. CASE s # <<>>
  <2>1. PICK u \in Seq(Nat), t \in Nat : s = Append(u, t)
    BY <1>2, SequenceEmptyOrAppend
  <2>2. Last(s) = t /\ Len(s) = Len(u) + 1 /\ Len(u) \in Nat /\ \A i \in 1..Len(u) : u[i] = s[i]
    BY <2>1, AppendProperties, LenProperties DEF Last
  <2>3. s \in Seq(0..t)
    BY <1>2, <2>2 DEF Topped
  <2>4. Within(s, c) \in Seq(0..t)
    BY <2>3, WithinType
  <2>5. CASE c - t < Window
    <3>1. Within(s, c) = Append(Within(u, c), t) /\ Within(u, c) \in Seq(Nat)
      BY <2>1, <2>5, WithinAppend, WithinType
    <3>2. Last(Within(s, c)) = t
      BY <3>1, AppendProperties DEF Last
    <3> QED BY <2>4, <3>2 DEF Topped
  <2>6. CASE ~(c - t < Window)
    BY <2>3, <2>6, WithinNone DEF Topped
  <2> QED BY <2>5, <2>6
<1> QED BY <1>1, <1>2

LEMMA AppendTopped ==
    ASSUME NEW t \in Nat, NEW s \in Seq(0..t)
    PROVE  /\ Append(s, t) \in Seq(0..t) /\ Topped(Append(s, t))
<1>1. Append(s, t) \in Seq(0..t) /\ Last(Append(s, t)) = t
  BY AppendProperties, LenProperties DEF Last
<1> QED BY <1>1 DEF Topped

(* What the invariant says of the lists of one address, at the time n.       *)

FailuresFit(f, h, n) ==
    /\ f \in Seq(0..n) /\ h \in Seq(0..n)
    /\ Topped(f)
    /\ Within(f, n) = Within(h, n)

\* The file: as it was at some write, and as things are if the last write went through.
FileFits(g, h, n, ok) ==
    /\ g \in Seq(0..n)
    /\ Topped(g)
    /\ Len(Within(g, n)) < Limit + Cardinality(Attempts)
    /\ ok => Within(g, n) = Within(h, n)

CallsFit(h, p, n) ==
    /\ h \in Seq(0..n) /\ p \in Seq(0..n)
    /\ Topped(h) /\ Len(h) <= Limit + 1
    /\ \A d \in n..MaxTime : /\ Len(Within(p, d)) <= Len(Within(h, d))
                             /\ Len(Within(p, d)) <= Limit

\* The sweep leaves a list alone, or drops it when none of it counts any more.
Spared(f, g, n) == g = f \/ (g = <<>> /\ Within(f, n) = <<>>)

LEMMA InNat == \A n \in Nat : 0..n \subseteq Nat
OBVIOUS

LEMMA ToNat == ASSUME NEW n \in Nat, NEW s \in Seq(0..n) PROVE s \in Seq(Nat)
BY InNat, SeqMonotonic

LEMMA EmptyFits ==
    ASSUME NEW n \in Nat, Limit \in Nat
    PROVE  FailuresFit(<<>>, <<>>, n) /\ CallsFit(<<>>, <<>>, n)
<1>1. <<>> \in Seq(0..n) /\ Len(<<>>) = 0 /\ Topped(<<>>)
  BY EmptySeq DEF Topped
<1>2. \A d \in n..MaxTime : d \in Nat
  OBVIOUS
<1> QED BY <1>1, <1>2, WithinEmpty DEF FailuresFit, CallsFit

LEMMA SparedFits ==
    ASSUME NEW n \in Nat, Window \in Nat, NEW f, NEW h, FailuresFit(f, h, n),
           NEW k, Spared(f, k, n)
    PROVE  FailuresFit(k, h, n)
BY WithinEmpty, EmptySeq DEF FailuresFit, Spared, Topped

LEMMA PrunedFits ==
    ASSUME NEW n \in Nat, Window \in Nat, NEW f, NEW h, FailuresFit(f, h, n)
    PROVE  FailuresFit(Within(f, n), h, n)
<1>1. f \in Seq(Nat) /\ f \in Seq(0..n)
  BY ToNat DEF FailuresFit
<1>2. Within(f, n) \in Seq(0..n)
  BY <1>1, InNat, WithinType
<1>3. Topped(Within(f, n))
  BY <1>1, WithinTopped DEF FailuresFit
<1>4. Within(Within(f, n), n) = Within(f, n)
  BY <1>1, WithinTwice
<1> QED BY <1>2, <1>3, <1>4 DEF FailuresFit

LEMMA OneMoreFits ==
    ASSUME NEW n \in Nat, Window \in Nat \ {0}, NEW f, NEW h, FailuresFit(f, h, n)
    PROVE  /\ FailuresFit(Append(Within(f, n), n), Append(Within(h, n), n), n)
           /\ Len(Within(Append(Within(h, n), n), n)) = Len(Within(h, n)) + 1
<1>1. f \in Seq(0..n) /\ h \in Seq(0..n) /\ f \in Seq(Nat) /\ h \in Seq(Nat)
  BY ToNat DEF FailuresFit
<1>2. Within(f, n) \in Seq(0..n) /\ Within(h, n) \in Seq(0..n)
  BY <1>1, InNat, WithinType
<1>3. Within(f, n) \in Seq(Nat) /\ Within(h, n) \in Seq(Nat)
  BY <1>2, ToNat
<1>4. /\ Append(Within(f, n), n) \in Seq(0..n) /\ Topped(Append(Within(f, n), n))
      /\ Append(Within(h, n), n) \in Seq(0..n)
  BY <1>2, AppendTopped
<1>5. n - n < Window
  OBVIOUS
<1>6. /\ Within(Append(Within(f, n), n), n)
            = Append(Within(Within(f, n), n), n)
      /\ Within(Append(Within(h, n), n), n)
            = Append(Within(Within(h, n), n), n)
  BY <1>3, <1>5, WithinAppend
<1>7. /\ Within(Within(f, n), n) = Within(f, n)
      /\ Within(Within(h, n), n) = Within(h, n)
  BY <1>1, WithinTwice
<1>8. Len(Append(Within(h, n), n)) = Len(Within(h, n)) + 1
  BY <1>3, AppendProperties
<1> QED BY <1>4, <1>6, <1>7, <1>8 DEF FailuresFit

LEMMA LaterFits ==
    ASSUME NEW n \in Nat, Window \in Nat, NEW f, NEW h, FailuresFit(f, h, n)
    PROVE  FailuresFit(f, h, n + 1)
<1>1. f \in Seq(Nat) /\ h \in Seq(Nat)
  BY ToNat DEF FailuresFit
<1>2. 0..n \subseteq 0..n + 1
  OBVIOUS
<1>3. f \in Seq(0..n + 1) /\ h \in Seq(0..n + 1)
  BY <1>2, SeqMonotonic DEF FailuresFit
<1>4. n + 1 \in Nat /\ n <= n + 1
  OBVIOUS
<1>5. /\ Within(f, n + 1) = Within(Within(f, n), n + 1)
      /\ Within(h, n + 1) = Within(Within(h, n), n + 1)
  BY <1>1, <1>4, WithinTwice
<1> QED BY <1>3, <1>5 DEF FailuresFit

LEMMA LaterFile ==
    ASSUME NEW n \in Nat, Window \in Nat, Limit \in Nat, Cardinality(Attempts) \in Nat,
           NEW g, NEW h \in Seq(0..n), NEW ok \in BOOLEAN, FileFits(g, h, n, ok)
    PROVE  FileFits(g, h, n + 1, ok)
<1>1. g \in Seq(Nat) /\ h \in Seq(Nat)
  BY ToNat DEF FileFits
<1>2. 0..n \subseteq 0..n + 1 /\ n + 1 \in Nat /\ n <= n + 1
  OBVIOUS
<1>3. g \in Seq(0..n + 1)
  BY <1>2, SeqMonotonic DEF FileFits
<1>4. /\ Within(g, n + 1) = Within(Within(g, n), n + 1)
      /\ Within(h, n + 1) = Within(Within(h, n), n + 1)
  BY <1>1, <1>2, WithinTwice
<1>5. Len(Within(g, n + 1)) < Limit + Cardinality(Attempts)
  <2>1. /\ Len(Within(g, n + 1)) \in Nat /\ Len(Within(g, n)) \in Nat
        /\ Len(Within(g, n + 1)) <= Len(Within(g, n))
    BY <1>1, <1>2, WithinLater
  <2> QED BY <2>1 DEF FileFits
<1> QED BY <1>3, <1>4, <1>5 DEF FileFits

LEMMA LaterCalls ==
    ASSUME NEW n \in Nat, NEW h, NEW p, CallsFit(h, p, n)
    PROVE  CallsFit(h, p, n + 1)
<1>1. 0..n \subseteq 0..n + 1
  OBVIOUS
<1>2. h \in Seq(0..n + 1) /\ p \in Seq(0..n + 1)
  BY <1>1, SeqMonotonic DEF CallsFit
<1>3. \A d \in n + 1..MaxTime : d \in n..MaxTime
  OBVIOUS
<1> QED BY <1>2, <1>3 DEF CallsFit

LEMMA SparedCalls ==
    ASSUME NEW n \in Nat, Window \in Nat, Limit \in Nat, NEW h, NEW p, CallsFit(h, p, n),
           NEW k, Spared(h, k, n)
    PROVE  /\ CallsFit(k, p, n)
           /\ \A d \in n..MaxTime : Within(k, d) = Within(h, d)
<1>1. CASE k = h
  BY <1>1
<1>2. CASE k = <<>> /\ Within(h, n) = <<>>
  <2>1. h \in Seq(Nat)
    BY ToNat DEF CallsFit
  <2>2. ASSUME NEW d \in n..MaxTime PROVE Within(k, d) = Within(h, d)
    <3>1. d \in Nat /\ n <= d
      OBVIOUS
    <3> QED BY <1>2, <2>1, <3>1, WithinTwice, WithinEmpty
  <2>3. k \in Seq(0..n) /\ Topped(k) /\ Len(k) = 0
    BY <1>2, EmptySeq DEF Topped
  <2> QED BY <2>2, <2>3 DEF CallsFit
<1> QED BY <1>1, <1>2 DEF Spared

\* What throttle() keeps of the list: all of it, or all but the first entry.
LEMMA KeptIs ==
    ASSUME Limit \in Nat \ {0}, NEW n \in Nat, NEW s \in Seq(0..n), Len(s) <= Limit + 1
    PROVE  /\ \/ Kept(Append(s, n)) = Append(s, n)
              \/ Limit <= Len(s) /\ Kept(Append(s, n)) = Tail(Append(s, n))
           /\ Len(Kept(Append(s, n))) <= Limit + 1
           /\ Kept(Append(s, n)) \in Seq(0..n)
           /\ Topped(Kept(Append(s, n)))
<1> DEFINE x == Append(s, n)
<1>1. x \in Seq(0..n) /\ Len(x) = Len(s) + 1 /\ x # <<>> /\ Len(s) \in Nat
  BY AppendProperties, LenProperties
<1>2. CASE Len(x) <= Limit + 1
  <2>1. Kept(x) = x
    BY <1>1, <1>2, SubSeqFull DEF Kept
  <2>2. Topped(x)
    BY AppendTopped
  <2> QED BY <1>1, <1>2, <2>1, <2>2
<1>3. CASE ~(Len(x) <= Limit + 1)
  <2>1. Len(s) = Limit + 1 /\ Len(x) - Limit = 2
    BY <1>1, <1>3
  <2>2. Kept(x) = Tail(x)
    BY <1>1, <1>3, <2>1, TailIsSubSeq DEF Kept
  <2>3. s # <<>>
    BY <2>1, EmptySeq
  <2>4. Tail(x) = Append(Tail(s), n) /\ Tail(s) \in Seq(0..n)
    BY <2>3, HeadTailAppend, HeadTailProperties
  <2>5. Tail(x) \in Seq(0..n) /\ Topped(Tail(x))
    BY <2>4, AppendTopped
  <2>6. Len(Tail(x)) = Limit + 1
    BY <1>1, <2>1, HeadTailProperties
  <2> QED BY <2>1, <2>2, <2>5, <2>6
<1> QED BY <1>2, <1>3

LEMMA ThrottledFits ==
    ASSUME NEW n \in Nat, Window \in Nat \ {0}, Limit \in Nat \ {0}, MaxTime \in Nat,
           NEW h, NEW p, CallsFit(h, p, n)
    PROVE  CallsFit(Kept(Append(Within(h, n), n)),
                    IF Len(Within(h, n)) < Limit THEN Append(Within(p, n), n)
                    ELSE Within(p, n), n)
<1> DEFINE s == Within(h, n)
           x == Append(s, n)
           k == Kept(x)
           r == Within(p, n)
           q == IF Len(s) < Limit THEN Append(r, n) ELSE r
<1>1. h \in Seq(0..n) /\ p \in Seq(0..n) /\ h \in Seq(Nat) /\ p \in Seq(Nat)
  BY ToNat DEF CallsFit
<1>2. s \in Seq(0..n) /\ r \in Seq(0..n) /\ Len(s) <= Len(h)
  BY <1>1, InNat, WithinType
<1>3. s \in Seq(Nat) /\ r \in Seq(Nat) /\ x \in Seq(Nat) /\ x # <<>> /\ Append(r, n) \in Seq(0..n)
      /\ Len(s) \in Nat /\ Len(h) \in Nat
  <2>1. s \in Seq(Nat) /\ r \in Seq(Nat)
    BY <1>2, ToNat
  <2>2. n \in 0..n
    OBVIOUS
  <2>3. Append(r, n) \in Seq(0..n)
    BY <1>2, <2>2, AppendProperties
  <2>4. x \in Seq(Nat) /\ x # <<>>
    <3> HIDE DEF s
    <3> QED BY <2>1, AppendProperties
  <2>5. Len(s) \in Nat /\ Len(h) \in Nat
    BY <1>1, <2>1, LenProperties
  <2> HIDE DEF s, r, x
  <2> QED BY <2>1, <2>3, <2>4, <2>5
<1>4. Len(s) <= Limit + 1
  BY <1>2, <1>3 DEF CallsFit
<1>5. /\ k = x \/ (Limit <= Len(s) /\ k = Tail(x))
      /\ Len(k) <= Limit + 1 /\ k \in Seq(0..n) /\ Topped(k)
  BY <1>2, <1>4, KeptIs
<1>6. ASSUME NEW d \in n..MaxTime
      PROVE  Len(Within(q, d)) <= Len(Within(k, d)) /\ Len(Within(q, d)) <= Limit
  <2> DEFINE wp == Within(p, d)
             wh == Within(h, d)
  <2>1. d \in Nat /\ n <= d
    OBVIOUS
  <2>2. Within(s, d) = wh /\ Within(r, d) = wp
    BY <1>1, <2>1, WithinTwice
  <2>3. wp \in Seq(Nat) /\ wh \in Seq(Nat) /\ Len(wp) \in Nat /\ Len(wh) \in Nat
    BY <1>1, <2>1, WithinType, LenProperties
  <2>4. Len(wp) <= Len(wh) /\ Len(wp) <= Limit
    BY DEF CallsFit
  <2>5. Len(wh) <= Len(s)
    BY <1>1, <2>1, WithinLater
  <2>6. Len(Append(wp, n)) = Len(wp) + 1 /\ Len(Append(wh, n)) = Len(wh) + 1
    BY <2>3, AppendProperties
  <2>7. Within(x, d) = IF d - n < Window THEN Append(wh, n) ELSE wh
    BY <1>3, <2>1, <2>2, WithinAppend
  <2>8. Within(Append(r, n), d) = IF d - n < Window THEN Append(wp, n) ELSE wp
    BY <1>3, <2>1, <2>2, WithinAppend
  <2>9. CASE Len(s) < Limit
    <3>1. k = x /\ q = Append(r, n)
      BY <1>3, <1>5, <2>9
    <3> HIDE DEF s, x, k, r, q, wp, wh
    <3> QED BY <1>3, <2>3, <2>4, <2>5, <2>6, <2>7, <2>8, <2>9, <3>1
  <2>10. CASE ~(Len(s) < Limit)
    <3>1. q = r
      BY <2>10
    <3>2. CASE d - n < Window
      <4>1. Len(Within(x, d)) = Len(wh) + 1
        BY <2>6, <2>7, <3>2
      <4>2. Len(Within(x, d)) <= Len(Within(Tail(x), d)) + 1
        BY <1>3, <2>1, WithinTail
      <4>3. Tail(x) \in Seq(Nat) /\ Len(Within(Tail(x), d)) \in Nat
        <5>1. Tail(x) \in Seq(Nat)
          BY <1>3, HeadTailProperties
        <5> QED BY <2>1, <5>1, WithinType, LenProperties
      <4> HIDE DEF s, x, k, r, q, wp, wh
      <4>4. Len(wh) <= Len(Within(k, d))
        <5>1. CASE k = x
          BY <2>3, <4>1, <5>1
        <5>2. CASE k = Tail(x)
          BY <2>3, <4>1, <4>2, <4>3, <5>2
        <5> QED BY <1>5, <5>1, <5>2
      <4>5. Len(Within(k, d)) \in Nat
        <5>1. k \in Seq(Nat)
          BY <1>5, ToNat
        <5> QED BY <2>1, <5>1, WithinType, LenProperties
      <4> QED BY <2>2, <2>3, <2>4, <3>1, <4>4, <4>5
    <3>3. CASE ~(d - n < Window)
      <4>1. wp = <<>>
        BY <1>1, <2>1, <3>3, WithinNone
      <4>2. Len(wp) = 0
        BY <4>1, EmptySeq
      <4>3. Len(Within(k, d)) \in Nat
        <5>1. k \in Seq(Nat)
          BY <1>5, ToNat
        <5> QED BY <2>1, <5>1, WithinType, LenProperties
      <4> HIDE DEF s, x, k, r, q, wp, wh
      <4> QED BY <2>2, <2>4, <3>1, <4>2, <4>3
    <3> QED BY <3>2, <3>3
  <2> QED BY <2>9, <2>10
<1>7. q \in Seq(0..n)
  BY <1>2, <1>3
<1> HIDE DEF k, q
<1>8. CallsFit(k, q, n)
  BY <1>1, <1>5, <1>6, <1>7 DEF CallsFit
<1> QED BY <1>8 DEF k, q

\* With no more addresses than MaxKeys, the sweep takes away only keys whose newest
\* entry has left the window.
LEMMA SweptSpares ==
    ASSUME IsFiniteSet(Addrs), Cardinality(Addrs) <= MaxKeys,
           now \in Nat, NEW m, \A a \in Addrs : m[a] \in Seq(0..now) /\ Topped(m[a]),
           m = [a \in Addrs |-> m[a]], NEW f \in Swept(m)
    PROVE  /\ f = [a \in Addrs |-> f[a]]
           /\ \A a \in Addrs : Spared(m[a], f[a], now)
<1>1. CASE f = m
  BY <1>1 DEF Spared
<1>2. CASE f # m
  <2> DEFINE k == Without(m, Stale(m))
             P == Present(k)
  <2>1. f \in Capped(k)
    BY <1>2 DEF Swept
  <2>2. PICK g \in SUBSET P :
           /\ Cardinality(P \ g) = IF Cardinality(P) > MaxKeys THEN MaxKeys ELSE Cardinality(P)
           /\ f = Without(k, g)
    BY <2>1 DEF Capped
  <2>3. P \subseteq Addrs
    BY DEF Present
  <2>4. IsFiniteSet(P) /\ Cardinality(P) <= Cardinality(Addrs)
    BY <2>3, FS_Subset
  <2>5. Cardinality(P) \in Nat /\ Cardinality(Addrs) \in Nat /\ MaxKeys \in Nat
    BY <2>4, FS_CardinalityType, RateLimitAssumption
  <2>6. Cardinality(P \ g) = Cardinality(P)
    BY <2>2, <2>4, <2>5
  <2>7. P \ g = P
    BY <2>4, <2>6, FS_Subset
  <2>8. ASSUME NEW a \in Addrs PROVE k[a] = (IF a \in Stale(m) THEN <<>> ELSE m[a])
    BY DEF Without
  <2>9. ASSUME NEW a \in Addrs PROVE f[a] = k[a]
    BY <2>2, <2>7 DEF Without
  <2>10. f = [a \in Addrs |-> f[a]]
    BY <2>2 DEF Without
  <2> HIDE DEF k, P
  <2>11. ASSUME NEW a \in Addrs PROVE Spared(m[a], f[a], now)
    <3>1. CASE a \notin Stale(m)
      BY <2>8, <2>9, <3>1 DEF Spared
    <3>2. CASE a \in Stale(m)
      <4>1. f[a] = <<>> /\ m[a] # <<>> /\ ~(now - Last(m[a]) < Window)
        <5>1. m[a] # <<>> /\ now - Last(m[a]) >= Window
          BY <3>2 DEF Stale, Present
        <5>2. Last(m[a]) \in Nat
          <6>1. Len(m[a]) \in 1..Len(m[a])
            BY <5>1, EmptySeq
          <6>2. m[a][Len(m[a])] \in 0..now
            BY <6>1, ElementOfSeq
          <6> QED BY <6>2 DEF Last
        <5> QED BY <2>8, <2>9, <3>2, <5>1, <5>2, RateLimitAssumption
      <4>2. Last(m[a]) \in Nat /\ m[a] \in Seq(0..Last(m[a]))
        <5>1. Len(m[a]) \in 1..Len(m[a])
          BY <4>1, EmptySeq
        <5>2. m[a][Len(m[a])] \in 0..now
          BY <5>1, ElementOfSeq
        <5> QED BY <4>1, <5>2 DEF Last, Topped
      <4>3. Within(m[a], now) = <<>>
        BY <4>1, <4>2, WithinNone, RateLimitAssumption
      <4> QED BY <4>1, <4>3 DEF Spared
    <3> QED BY <3>1, <3>2
  <2> QED BY <2>10, <2>11
<1> QED BY <1>1, <1>2

\* The invariant, address by address.
Holders(t, a) == {p \in Attempts : t[p] = a}

BrakeKept ==
    /\ now \in Time /\ swept \in Time
    /\ try \in [Attempts -> Addrs \cup {None}]
    /\ told \in [Addrs -> {"allowed", "first", "again"}]
    /\ fails = [a \in Addrs |-> fails[a]] /\ file = [a \in Addrs |-> file[a]]
    /\ failed = [a \in Addrs |-> failed[a]]
    /\ hits = [a \in Addrs |-> hits[a]] /\ passed = [a \in Addrs |-> passed[a]]
    /\ saved \in BOOLEAN
    /\ \A a \in Addrs : FailuresFit(fails[a], failed[a], now)
    /\ \A a \in Addrs : FileFits(file[a], failed[a], now, saved)
    /\ \A a \in Addrs : CallsFit(hits[a], passed[a], now)
    /\ \A a \in Addrs : Len(Within(failed[a], now)) + Cardinality(Holders(try, a))
                           < Limit + Cardinality(Attempts)

LEMMA BrakeGives ==
    ASSUME BrakeKept
    PROVE  BrakeInv
<1>1. now \in Nat /\ now \in 0..MaxTime /\ 0..now \subseteq Time /\ MaxTime \in Int
  BY RateLimitAssumption DEF BrakeKept, Time
<1>2. \A a \in Addrs : /\ fails[a] \in Seq(0..now) /\ file[a] \in Seq(0..now)
                       /\ failed[a] \in Seq(0..now) /\ hits[a] \in Seq(0..now)
                       /\ passed[a] \in Seq(0..now)
  BY DEF BrakeKept, FailuresFit, FileFits, CallsFit
<1>3. \A a \in Addrs : /\ fails[a] \in Seq(Time) /\ file[a] \in Seq(Time)
                       /\ failed[a] \in Seq(Time) /\ hits[a] \in Seq(Time)
                       /\ passed[a] \in Seq(Time)
  BY <1>1, <1>2, SeqMonotonic
<1>4. /\ fails \in Log /\ file \in Log /\ hits \in Log
      /\ failed \in Log /\ passed \in Log
  BY <1>3 DEF BrakeKept, Log
<1>5. BrakeTypeOK
  BY <1>4 DEF BrakeKept, BrakeTypeOK, CallsFit
<1>6. UpToNow /\ LastIsNewest /\ NothingForgotten
  BY <1>2
  DEF BrakeKept, FailuresFit, FileFits, CallsFit, UpToNow, LastIsNewest, NothingForgotten,
      Recent
<1>7. UnderWay /\ FileWithinBound
  BY DEF BrakeKept, FileFits, UnderWay, FileWithinBound, Recent, Admitted, Holders
<1>8. CallsListed
  BY DEF BrakeKept, CallsFit, CallsListed
<1> QED BY <1>5, <1>6, <1>7, <1>8 DEF BrakeInv

\* Addresses that all fit into the map, and attempts that can be counted.
RoomForAll == /\ IsFiniteSet(Addrs) /\ Cardinality(Addrs) <= MaxKeys
              /\ IsFiniteSet(Attempts)

LEMMA RoomGives ==
    ASSUME RoomForAll, BrakeKept
    PROVE  /\ now \in Nat /\ MaxTime \in Nat /\ now <= MaxTime /\ Window \in Nat \ {0}
           /\ Limit \in Nat \ {0} /\ None \notin Addrs
           /\ Cardinality(Attempts) \in Nat
           /\ \A t, a : /\ IsFiniteSet(Holders(t, a)) /\ Cardinality(Holders(t, a)) \in Nat
                        /\ Cardinality(Holders(t, a)) <= Cardinality(Attempts)
           /\ \A a \in Addrs : /\ Len(Within(failed[a], now)) \in Nat
                               /\ Len(Within(failed[a], now)) < Limit + Cardinality(Attempts)
<1>1. /\ now \in Nat /\ MaxTime \in Nat /\ now <= MaxTime /\ Window \in Nat \ {0}
      /\ Limit \in Nat \ {0} /\ None \notin Addrs
  BY RateLimitAssumption DEF RoomForAll, BrakeKept, Time
<1>2. Cardinality(Attempts) \in Nat /\ IsFiniteSet(Attempts)
  BY FS_CardinalityType DEF RoomForAll
<1>3. ASSUME NEW t, NEW a
      PROVE  /\ IsFiniteSet(Holders(t, a)) /\ Cardinality(Holders(t, a)) \in Nat
             /\ Cardinality(Holders(t, a)) <= Cardinality(Attempts)
  <2>1. Holders(t, a) \subseteq Attempts
    BY DEF Holders
  <2> QED BY <1>2, <2>1, FS_Subset, FS_CardinalityType
<1>4. ASSUME NEW a \in Addrs
      PROVE  /\ Len(Within(failed[a], now)) \in Nat
             /\ Len(Within(failed[a], now)) < Limit + Cardinality(Attempts)
  <2>1. failed[a] \in Seq(Nat)
    BY <1>1, ToNat DEF BrakeKept, FailuresFit
  <2>2. Len(Within(failed[a], now)) \in Nat
    BY <1>1, <2>1, WithinType, LenProperties
  <2>3. Len(Within(failed[a], now)) + Cardinality(Holders(try, a))
           < Limit + Cardinality(Attempts)
    BY DEF BrakeKept
  <2> QED BY <1>1, <1>2, <1>3, <2>2, <2>3
<1> QED BY <1>1, <1>2, <1>3, <1>4

\* The sweep that check(), record_failure() and throttle() start with.
LEMMA SweepsKeep ==
    ASSUME RoomForAll, BrakeKept, NEW f \in Swept(fails), NEW h \in Swept(hits)
    PROVE  /\ f = [a \in Addrs |-> f[a]] /\ h = [a \in Addrs |-> h[a]]
           /\ \A a \in Addrs : /\ FailuresFit(f[a], failed[a], now)
                               /\ CallsFit(h[a], passed[a], now)
<1>1. /\ \A a \in Addrs : fails[a] \in Seq(0..now) /\ Topped(fails[a])
      /\ \A a \in Addrs : hits[a] \in Seq(0..now) /\ Topped(hits[a])
  BY DEF BrakeKept, FailuresFit, CallsFit
<1>2. fails = [a \in Addrs |-> fails[a]] /\ hits = [a \in Addrs |-> hits[a]]
  BY DEF BrakeKept
<1>3. /\ f = [a \in Addrs |-> f[a]] /\ h = [a \in Addrs |-> h[a]]
      /\ \A a \in Addrs : Spared(fails[a], f[a], now) /\ Spared(hits[a], h[a], now)
  BY <1>1, <1>2, RoomGives, SweptSpares DEF RoomForAll
<1>4. \A a \in Addrs : /\ FailuresFit(fails[a], failed[a], now)
                       /\ CallsFit(hits[a], passed[a], now)
  BY DEF BrakeKept
<1>5. now \in Nat /\ Window \in Nat /\ Limit \in Nat
  BY RoomGives
<1>6. ASSUME NEW a \in Addrs PROVE FailuresFit(f[a], failed[a], now)
  BY <1>3, <1>4, <1>5, SparedFits
<1>7. ASSUME NEW a \in Addrs PROVE CallsFit(h[a], passed[a], now)
  BY <1>3, <1>4, <1>5, SparedCalls
<1> QED BY <1>3, <1>6, <1>7

\* _persist(), whether the write goes through or not.
LEMMA PersistKeeps ==
    ASSUME RoomForAll, BrakeKept, NEW m, Persist(m), m = [a \in Addrs |-> m[a]],
           \A a \in Addrs : /\ FailuresFit(m[a], failed'[a], now)
                            /\ Len(Within(failed'[a], now)) < Limit + Cardinality(Attempts)
    PROVE  /\ saved' \in BOOLEAN /\ file' = [a \in Addrs |-> file'[a]]
           /\ \A a \in Addrs : FileFits(file'[a], failed'[a], now, saved')
<1>1. CASE file' = m /\ saved' = TRUE
  BY <1>1 DEF FailuresFit, FileFits
<1>2. CASE file' = file /\ saved' = FALSE
  BY <1>2 DEF BrakeKept, FileFits
<1> QED BY <1>1, <1>2 DEF Persist

\* What the sweep of check() and throttle() writes: the failures are none fewer for it.
LEMMA PersistSweepKeeps ==
    ASSUME RoomForAll, BrakeKept, NEW f \in Swept(fails), NEW h \in Swept(hits),
           PersistSweep(f), failed' = failed
    PROVE  /\ saved' \in BOOLEAN /\ file' = [a \in Addrs |-> file'[a]]
           /\ \A a \in Addrs : FileFits(file'[a], failed'[a], now, saved')
<1>1. CASE Persist(f)
  <2>1. f = [a \in Addrs |-> f[a]] /\ \A a \in Addrs : FailuresFit(f[a], failed[a], now)
    BY SweepsKeep
  <2> QED BY <1>1, <2>1, RoomGives, PersistKeeps
<1>2. CASE UNCHANGED <<file, saved>>
  BY <1>2 DEF BrakeKept
<1> QED BY <1>1, <1>2 DEF PersistSweep

LEMMA ClockKeeps == ASSUME BrakeKept, Clock PROVE swept' \in Time
BY DEF BrakeKept, Clock

\* An attempt that ends with a failure, or with a success, is no longer under way.
LEMMA HolderLeaves ==
    ASSUME RoomForAll, BrakeKept, NEW p \in Attempts, try[p] \in Addrs,
           try' = [try EXCEPT ![p] = None]
    PROVE  /\ try' \in [Attempts -> Addrs \cup {None}]
           /\ Cardinality(Holders(try', try[p])) = Cardinality(Holders(try, try[p])) - 1
           /\ \A b \in Addrs : b # try[p] => Holders(try', b) = Holders(try, b)
<1>1. try \in [Attempts -> Addrs \cup {None}] /\ None \notin Addrs
  BY RoomGives DEF BrakeKept
<1>2. Holders(try', try[p]) = Holders(try, try[p]) \ {p} /\ p \in Holders(try, try[p])
  BY <1>1 DEF Holders
<1>3. Cardinality(Holders(try', try[p])) = Cardinality(Holders(try, try[p])) - 1
  <2>1. IsFiniteSet(Holders(try, try[p]))
    BY RoomGives
  <2> QED BY <1>2, <2>1, FS_RemoveElement
<1>4. \A b \in Addrs : b # try[p] => Holders(try', b) = Holders(try, b)
  BY <1>1 DEF Holders
<1> QED BY <1>1, <1>3, <1>4

LEMMA CheckKeeps ==
    ASSUME RoomForAll, BrakeKept, NEW p \in Attempts, CheckAddress(p)
    PROVE  BrakeKept'
<1>1. PICK a \in Addrs, f \in Swept(fails), h \in Swept(hits) :
          /\ fails' = [f EXCEPT ![a] = Recent(f[a])]
          /\ PersistSweep(f)
          /\ hits'  = h
          /\ try'   = [try EXCEPT ![p] = IF Admits(Recent(f[a])) THEN a ELSE None]
  BY DEF CheckAddress
<1>2. try[p] = None /\ Clock /\ UNCHANGED <<now, failed, passed, told>>
  BY DEF CheckAddress
<1>3. /\ f = [b \in Addrs |-> f[b]] /\ h = [b \in Addrs |-> h[b]]
      /\ \A b \in Addrs : /\ FailuresFit(f[b], failed[b], now)
                          /\ CallsFit(h[b], passed[b], now)
  BY SweepsKeep
<1>4. now \in Nat /\ Window \in Nat /\ Limit \in Nat \ {0} /\ None \notin Addrs
  BY RoomGives
<1>5. FailuresFit(Within(f[a], now), failed[a], now)
  BY <1>3, <1>4, PrunedFits
<1>6. ASSUME NEW b \in Addrs PROVE FailuresFit(fails'[b], failed'[b], now')
  <2>1. fails'[b] = IF b = a THEN Within(f[a], now) ELSE f[b]
    BY <1>1, <1>3 DEF Recent
  <2> QED BY <1>2, <1>3, <1>5, <2>1
<1>7. ASSUME NEW b \in Addrs PROVE CallsFit(hits'[b], passed'[b], now')
  BY <1>1, <1>2, <1>3
<1>8. try' \in [Attempts -> Addrs \cup {None}]
  BY <1>1 DEF BrakeKept
<1>9. ASSUME NEW b \in Addrs
      PROVE  Len(Within(failed[b], now)) + Cardinality(Holders(try', b))
                < Limit + Cardinality(Attempts)
  <2>1. CASE b = a /\ Admits(Recent(f[a]))
    <3>1. Len(Within(failed[b], now)) < Limit
      BY <1>3, <2>1 DEF Admits, Recent, FailuresFit
    <3> QED BY <1>4, <3>1, RoomGives
  <2>2. CASE ~(b = a /\ Admits(Recent(f[a])))
    <3>1. Holders(try', b) = Holders(try, b)
      BY <1>1, <1>2, <1>4, <2>2 DEF Holders, BrakeKept
    <3> QED BY <3>1 DEF BrakeKept
  <2> QED BY <2>1, <2>2
<1>10. fails' = [b \in Addrs |-> fails'[b]] /\ hits' = [b \in Addrs |-> hits'[b]]
  BY <1>1, <1>3
<1>11. swept' \in Time
  BY <1>2, ClockKeeps
<1>12. /\ saved' \in BOOLEAN /\ file' = [b \in Addrs |-> file'[b]]
       /\ \A b \in Addrs : FileFits(file'[b], failed'[b], now', saved')
  BY <1>1, <1>2, PersistSweepKeeps
<1> QED BY <1>2, <1>6, <1>7, <1>8, <1>9, <1>10, <1>11, <1>12 DEF BrakeKept

LEMMA RecordFailureKeeps ==
    ASSUME RoomForAll, BrakeKept, NEW p \in Attempts, RecordFailure(p)
    PROVE  BrakeKept'
<1> DEFINE a == try[p]
           more == Append(Within(failed[a], now), now)
<1>1. PICK f \in Swept(fails), h \in Swept(hits) :
          /\ fails' = [f EXCEPT ![a] = Append(Recent(f[a]), now)]
          /\ hits'  = h
  BY DEF RecordFailure
<1>2. /\ a \in Addrs /\ Persist(fails') /\ failed' = [failed EXCEPT ![a] = more]
      /\ try' = [try EXCEPT ![p] = None] /\ Clock /\ UNCHANGED <<now, passed, told>>
  BY DEF RecordFailure, Recent, BrakeKept
<1>3. /\ f = [b \in Addrs |-> f[b]] /\ h = [b \in Addrs |-> h[b]]
      /\ \A b \in Addrs : /\ FailuresFit(f[b], failed[b], now)
                          /\ CallsFit(h[b], passed[b], now)
  BY SweepsKeep
<1>4. now \in Nat /\ Window \in Nat \ {0} /\ Limit \in Nat
  BY RoomGives
<1>5. /\ FailuresFit(Append(Within(f[a], now), now), more, now)
      /\ Len(Within(more, now)) = Len(Within(failed[a], now)) + 1
  BY <1>2, <1>3, <1>4, OneMoreFits
<1>6. failed = [b \in Addrs |-> failed[b]]
  BY DEF BrakeKept
<1>7. ASSUME NEW b \in Addrs
      PROVE  /\ fails'[b] = IF b = a THEN Append(Within(f[a], now), now) ELSE f[b]
             /\ failed'[b] = IF b = a THEN more ELSE failed[b]
  BY <1>1, <1>2, <1>3, <1>6 DEF Recent
<1>8. /\ fails' = [b \in Addrs |-> fails'[b]] /\ failed' = [b \in Addrs |-> failed'[b]]
      /\ hits' = [b \in Addrs |-> hits'[b]]
  BY <1>1, <1>2, <1>3, <1>6
<1> HIDE DEF more, a
<1>9. ASSUME NEW b \in Addrs PROVE FailuresFit(fails'[b], failed'[b], now')
  BY <1>2, <1>3, <1>5, <1>7
<1>10. ASSUME NEW b \in Addrs PROVE CallsFit(hits'[b], passed'[b], now')
  BY <1>1, <1>2, <1>3
<1>11. /\ try' \in [Attempts -> Addrs \cup {None}]
       /\ Cardinality(Holders(try', a)) = Cardinality(Holders(try, a)) - 1
       /\ \A b \in Addrs : b # a => Holders(try', b) = Holders(try, b)
  BY <1>2, HolderLeaves DEF a
<1>12. ASSUME NEW b \in Addrs
       PROVE  Len(Within(failed'[b], now)) + Cardinality(Holders(try', b))
                 < Limit + Cardinality(Attempts)
  <2>1. Len(Within(failed[b], now)) + Cardinality(Holders(try, b))
           < Limit + Cardinality(Attempts)
    BY DEF BrakeKept
  <2>2. /\ Len(Within(failed[b], now)) \in Nat /\ Cardinality(Holders(try, b)) \in Nat
        /\ Cardinality(Attempts) \in Nat
    BY RoomGives
  <2>3. CASE b = a
    BY <1>4, <1>5, <1>7, <1>11, <2>1, <2>2, <2>3
  <2>4. CASE b # a
    BY <1>7, <1>11, <2>1, <2>4
  <2> QED BY <2>3, <2>4
<1>13. swept' \in Time
  BY <1>2, ClockKeeps
<1>14. ASSUME NEW b \in Addrs
       PROVE  Len(Within(failed'[b], now)) < Limit + Cardinality(Attempts)
  <2>1. /\ Len(Within(failed[b], now)) \in Nat /\ Cardinality(Holders(try', b)) \in Nat
        /\ Cardinality(Attempts) \in Nat
    BY RoomGives
  <2>2. Len(Within(failed'[b], now)) \in Nat
    BY <1>4, <1>5, <1>7, <2>1
  <2> QED BY <1>4, <1>12, <2>1, <2>2
<1>15. /\ saved' \in BOOLEAN /\ file' = [b \in Addrs |-> file'[b]]
       /\ \A b \in Addrs : FileFits(file'[b], failed'[b], now', saved')
  BY <1>2, <1>8, <1>9, <1>14, PersistKeeps
<1> QED BY <1>2, <1>8, <1>9, <1>10, <1>11, <1>12, <1>13, <1>15 DEF BrakeKept

LEMMA RecordSuccessKeeps ==
    ASSUME RoomForAll, BrakeKept, NEW p \in Attempts, RecordSuccess(p)
    PROVE  BrakeKept'
<1> DEFINE a == try[p]
<1>1. /\ a \in Addrs /\ fails' = [fails EXCEPT ![a] = <<>>] /\ failed' = [failed EXCEPT ![a] = <<>>]
      /\ IF fails[a] # <<>> THEN Persist(fails') ELSE UNCHANGED <<file, saved>>
      /\ try' = [try EXCEPT ![p] = None] /\ UNCHANGED <<now, swept, hits, passed, told>>
  BY DEF RecordSuccess, BrakeKept
<1>2. /\ fails = [b \in Addrs |-> fails[b]] /\ failed = [b \in Addrs |-> failed[b]]
      /\ file = [b \in Addrs |-> file[b]] /\ saved \in BOOLEAN
      /\ \A b \in Addrs : /\ FailuresFit(fails[b], failed[b], now)
                          /\ FileFits(file[b], failed[b], now, saved)
  BY DEF BrakeKept
<1>3. now \in Nat /\ Limit \in Nat
  BY RoomGives
<1>4. fails' = [b \in Addrs |-> fails'[b]] /\ failed' = [b \in Addrs |-> failed'[b]]
  BY <1>1, <1>2
<1>5. /\ fails'[a] = <<>> /\ failed'[a] = <<>>
      /\ \A b \in Addrs : b # a => fails'[b] = fails[b] /\ failed'[b] = failed[b]
  BY <1>1, <1>2
<1> HIDE DEF a
<1>6. ASSUME NEW b \in Addrs PROVE FailuresFit(fails'[b], failed'[b], now')
  BY <1>1, <1>2, <1>3, <1>5, EmptyFits
<1>7. /\ try' \in [Attempts -> Addrs \cup {None}]
      /\ Cardinality(Holders(try', a)) = Cardinality(Holders(try, a)) - 1
      /\ \A b \in Addrs : b # a => Holders(try', b) = Holders(try, b)
  BY <1>1, HolderLeaves DEF a
<1>8. ASSUME NEW b \in Addrs
      PROVE  Len(Within(failed'[b], now)) + Cardinality(Holders(try', b))
                 < Limit + Cardinality(Attempts)
  <2>1. Len(Within(failed[b], now)) + Cardinality(Holders(try, b))
           < Limit + Cardinality(Attempts)
    BY DEF BrakeKept
  <2>2. /\ Len(Within(failed[b], now)) \in Nat /\ Cardinality(Holders(try, b)) \in Nat
        /\ Cardinality(Attempts) \in Nat
    BY RoomGives
  <2>3. CASE b = a
    <3>1. Len(Within(failed'[b], now)) = 0
      BY <1>3, <1>5, <2>3, WithinEmpty, EmptySeq
    <3> QED BY <1>3, <1>7, <2>1, <2>2, <2>3, <3>1
  <2>4. CASE b # a
    BY <1>5, <1>7, <2>1, <2>4
  <2> QED BY <2>3, <2>4
<1>9. /\ saved' \in BOOLEAN /\ file' = [b \in Addrs |-> file'[b]]
      /\ \A b \in Addrs : FileFits(file'[b], failed'[b], now', saved')
  <2>1. CASE Persist(fails')
    <3>1. ASSUME NEW b \in Addrs
          PROVE  Len(Within(failed'[b], now)) < Limit + Cardinality(Attempts)
      <4>1. /\ Len(Within(failed[b], now)) < Limit + Cardinality(Attempts)
            /\ Len(Within(failed[b], now)) \in Nat /\ Cardinality(Attempts) \in Nat
        BY RoomGives
      <4>2. Len(Within(<<>>, now)) = 0
        BY <1>3, WithinEmpty, EmptySeq
      <4> QED BY <1>3, <1>5, <4>1, <4>2
    <3> QED BY <1>1, <1>4, <1>6, <2>1, <3>1, PersistKeeps
  <2>2. CASE fails[a] = <<>> /\ UNCHANGED <<file, saved>>
    <3>1. Within(failed'[a], now) = Within(failed[a], now)
      BY <1>1, <1>2, <1>5, <2>2 DEF FailuresFit
    <3> QED BY <1>1, <1>2, <1>5, <2>2, <3>1 DEF FileFits
  <2> QED BY <1>1, <2>1, <2>2
<1> QED BY <1>1, <1>4, <1>6, <1>7, <1>8, <1>9 DEF BrakeKept

\* Whoever leaves, the failures and the attempts under way only become fewer.
LEMMA NobodyUnderWay ==
    ASSUME RoomForAll, BrakeKept
    PROVE  \A a \in Addrs : /\ Holders([p \in Attempts |-> None], a) = {}
                            /\ Cardinality(Holders([p \in Attempts |-> None], a)) = 0
<1>1. ASSUME NEW a \in Addrs PROVE Holders([p \in Attempts |-> None], a) = {}
  BY RoomGives DEF Holders
<1> QED BY <1>1, FS_EmptySet

LEMMA UnblockKeeps == ASSUME RoomForAll, BrakeKept, Unblock PROVE BrakeKept'
<1>1. /\ fails' = [a \in Addrs |-> <<>>] /\ Persist(fails') /\ failed' = fails'
      /\ UNCHANGED <<now, swept, hits, try, passed, told>>
  BY DEF Unblock, Clear
<1>2. now \in Nat /\ Limit \in Nat
  BY RoomGives
<1>3. ASSUME NEW a \in Addrs PROVE FailuresFit(fails'[a], failed'[a], now')
  BY <1>1, <1>2, EmptyFits
<1>4. ASSUME NEW a \in Addrs
      PROVE  Len(Within(failed'[a], now)) + Cardinality(Holders(try, a))
                 < Limit + Cardinality(Attempts)
  <2>1. Len(Within(failed'[a], now)) = 0
    BY <1>1, <1>2, WithinEmpty, EmptySeq
  <2>2. /\ Len(Within(failed[a], now)) \in Nat /\ Cardinality(Holders(try, a)) \in Nat
        /\ Cardinality(Attempts) \in Nat
    BY RoomGives
  <2>3. Len(Within(failed[a], now)) + Cardinality(Holders(try, a))
           < Limit + Cardinality(Attempts)
    BY DEF BrakeKept
  <2> QED BY <1>2, <2>1, <2>2, <2>3
<1>5. BrakeKept
  OBVIOUS
<1>6. /\ saved' \in BOOLEAN /\ file' = [a \in Addrs |-> file'[a]]
      /\ \A a \in Addrs : FileFits(file'[a], failed'[a], now', saved')
  <2>1. ASSUME NEW a \in Addrs
        PROVE  Len(Within(failed'[a], now)) < Limit + Cardinality(Attempts)
    <3>1. /\ Len(Within(failed[a], now)) < Limit + Cardinality(Attempts)
          /\ Len(Within(failed[a], now)) \in Nat /\ Cardinality(Attempts) \in Nat
      BY RoomGives
    <3>2. Len(Within(failed'[a], now)) = 0
      BY <1>1, <1>2, WithinEmpty, EmptySeq
    <3> QED BY <1>2, <3>1, <3>2
  <2>2. \A a \in Addrs : FailuresFit(fails'[a], failed'[a], now)
    BY <1>1, <1>3
  <2>3. fails' = [a \in Addrs |-> fails'[a]]
    BY <1>1
  <2> QED BY <1>1, <2>1, <2>2, <2>3, PersistKeeps
<1> QED BY <1>1, <1>3, <1>4, <1>5, <1>6 DEF BrakeKept

LEMMA ThrottleKeeps ==
    ASSUME RoomForAll, BrakeKept, NEW a \in Addrs, Throttle(a)
    PROVE  BrakeKept'
<1>1. PICK f \in Swept(fails), h \in Swept(hits) :
         LET s == Recent(h[a]) IN
              /\ fails' = f
              /\ PersistSweep(f)
              /\ hits'  = [h EXCEPT ![a] = Kept(Append(s, now))]
              /\ passed' = [passed EXCEPT ![a] =
                              IF Len(s) < Limit THEN Append(Recent(passed[a]), now)
                              ELSE Recent(passed[a])]
              /\ told' = [told EXCEPT ![a] = IF Len(s) < Limit THEN "allowed"
                                             ELSE IF Len(s) = Limit THEN "first" ELSE "again"]
  BY DEF Throttle
<1>2. Clock /\ UNCHANGED <<now, try, failed>>
  BY DEF Throttle
<1>3. /\ f = [b \in Addrs |-> f[b]] /\ h = [b \in Addrs |-> h[b]]
      /\ \A b \in Addrs : /\ FailuresFit(f[b], failed[b], now)
                          /\ CallsFit(h[b], passed[b], now)
  BY SweepsKeep
<1>4. now \in Nat /\ MaxTime \in Nat /\ Window \in Nat \ {0} /\ Limit \in Nat \ {0}
  BY RoomGives
<1> DEFINE s == Within(h[a], now)
           k == Kept(Append(s, now))
           q == IF Len(s) < Limit THEN Append(Within(passed[a], now), now)
                ELSE Within(passed[a], now)
<1>5. CallsFit(k, q, now)
  BY <1>3, <1>4, ThrottledFits
<1>6. /\ hits' = [h EXCEPT ![a] = k] /\ passed' = [passed EXCEPT ![a] = q]
      /\ told' \in [Addrs -> {"allowed", "first", "again"}]
  BY <1>1 DEF Recent, BrakeKept
<1>7. passed = [b \in Addrs |-> passed[b]]
  BY DEF BrakeKept
<1> HIDE DEF s, k, q
<1>8. ASSUME NEW b \in Addrs PROVE CallsFit(hits'[b], passed'[b], now')
  BY <1>2, <1>3, <1>5, <1>6, <1>7
<1>9. ASSUME NEW b \in Addrs PROVE FailuresFit(fails'[b], failed'[b], now')
  BY <1>1, <1>2, <1>3
<1>10. /\ fails' = [b \in Addrs |-> fails'[b]] /\ hits' = [b \in Addrs |-> hits'[b]]
       /\ passed' = [b \in Addrs |-> passed'[b]]
  BY <1>1, <1>3, <1>6, <1>7
<1>11. swept' \in Time
  BY <1>2, ClockKeeps
<1>12. BrakeKept
  OBVIOUS
<1>13. /\ saved' \in BOOLEAN /\ file' = [b \in Addrs |-> file'[b]]
       /\ \A b \in Addrs : FileFits(file'[b], failed'[b], now', saved')
  BY <1>1, <1>2, PersistSweepKeeps
<1> QED BY <1>2, <1>6, <1>8, <1>9, <1>10, <1>11, <1>12, <1>13 DEF BrakeKept

LEMMA RestartKeeps == ASSUME RoomForAll, BrakeKept, Restart PROVE BrakeKept'
<1>1. /\ fails' = file /\ hits' = [a \in Addrs |-> <<>>] /\ passed' = [a \in Addrs |-> <<>>]
      /\ swept' = 0 /\ try' = [p \in Attempts |-> None] /\ told' = [a \in Addrs |-> "allowed"]
      /\ failed' = (IF saved THEN failed ELSE file) /\ saved' = TRUE /\ UNCHANGED <<now, file>>
  BY DEF Restart, Clear
<1>2. now \in Nat /\ MaxTime \in Nat /\ Limit \in Nat
  BY RoomGives
<1>3. ASSUME NEW a \in Addrs
      PROVE  /\ FailuresFit(fails'[a], failed'[a], now')
             /\ FileFits(file'[a], failed'[a], now', saved')
             /\ CallsFit(hits'[a], passed'[a], now')
  <2>1. FailuresFit(fails[a], failed[a], now) /\ FileFits(file[a], failed[a], now, saved)
    BY DEF BrakeKept
  <2>2. /\ FailuresFit(file[a], failed'[a], now) /\ FileFits(file[a], failed'[a], now, TRUE)
    BY <1>1, <2>1 DEF FailuresFit, FileFits
  <2> QED BY <1>1, <1>2, <2>2, EmptyFits
<1>4. ASSUME NEW a \in Addrs
      PROVE  Len(Within(failed'[a], now)) + Cardinality(Holders(try', a))
                 < Limit + Cardinality(Attempts)
  <2>1. Cardinality(Holders(try', a)) = 0
    BY <1>1, NobodyUnderWay
  <2>2. Len(Within(file[a], now)) < Limit + Cardinality(Attempts) /\ file[a] \in Seq(0..now)
    BY DEF BrakeKept, FileFits
  <2>3. Len(Within(failed'[a], now)) = Len(Within(file[a], now))
    BY <1>1, <1>3 DEF FailuresFit
  <2>4. Len(Within(file[a], now)) \in Nat
    BY <1>2, <2>2, ToNat, RoomGives, WithinType, LenProperties
  <2> QED BY <2>1, <2>2, <2>3, <2>4
<1>5. swept' \in Time
  BY <1>1, <1>2 DEF Time
<1>6. BrakeKept
  OBVIOUS
<1>7. failed' = [a \in Addrs |-> failed'[a]]
  BY <1>1 DEF BrakeKept
<1> QED BY <1>1, <1>3, <1>4, <1>5, <1>6, <1>7 DEF BrakeKept

LEMMA TickKeeps == ASSUME RoomForAll, BrakeKept, Tick PROVE BrakeKept'
<1>1. /\ now < MaxTime /\ now' = now + 1
      /\ UNCHANGED <<swept, fails, file, hits, try, failed, saved, passed, told>>
  BY DEF Tick
<1>2. now \in Nat /\ MaxTime \in Nat /\ Window \in Nat /\ Limit \in Nat
  BY RoomGives
<1>3. ASSUME NEW a \in Addrs
      PROVE  /\ FailuresFit(fails'[a], failed'[a], now')
             /\ FileFits(file'[a], failed'[a], now', saved')
             /\ CallsFit(hits'[a], passed'[a], now')
  <2>1. /\ FailuresFit(fails[a], failed[a], now) /\ FileFits(file[a], failed[a], now, saved)
        /\ CallsFit(hits[a], passed[a], now)
        /\ failed[a] \in Seq(0..now) /\ saved \in BOOLEAN
    BY DEF BrakeKept, FailuresFit
  <2>2. Cardinality(Attempts) \in Nat
    BY RoomGives
  <2>3. /\ FailuresFit(fails[a], failed[a], now + 1) /\ CallsFit(hits[a], passed[a], now + 1)
        /\ FileFits(file[a], failed[a], now + 1, saved)
    BY <1>2, <2>1, <2>2, LaterFits, LaterCalls, LaterFile
  <2> QED BY <1>1, <2>3
<1>4. ASSUME NEW a \in Addrs
      PROVE  Len(Within(failed[a], now + 1)) + Cardinality(Holders(try, a))
                 < Limit + Cardinality(Attempts)
  <2>1. failed[a] \in Seq(Nat)
    BY <1>2, ToNat DEF BrakeKept, FailuresFit
  <2>2. /\ Len(Within(failed[a], now + 1)) <= Len(Within(failed[a], now))
        /\ Len(Within(failed[a], now + 1)) \in Nat
    BY <1>2, <2>1, WithinLater
  <2>3. /\ Len(Within(failed[a], now)) \in Nat /\ Cardinality(Holders(try, a)) \in Nat
        /\ Cardinality(Attempts) \in Nat
    BY RoomGives
  <2>4. Len(Within(failed[a], now)) + Cardinality(Holders(try, a))
           < Limit + Cardinality(Attempts)
    BY DEF BrakeKept
  <2> QED BY <1>2, <2>2, <2>3, <2>4
<1>5. now' \in Time
  BY <1>1, <1>2 DEF Time
<1>6. BrakeKept
  OBVIOUS
<1> QED BY <1>1, <1>3, <1>4, <1>5, <1>6 DEF BrakeKept

LEMMA BrakeStarts == ASSUME RoomForAll, BrakeInit PROVE BrakeKept
<1>1. /\ now = 0 /\ swept = 0 /\ fails = [a \in Addrs |-> <<>>] /\ file = fails /\ hits = fails
      /\ try = [p \in Attempts |-> None] /\ failed = fails /\ passed = fails
      /\ told = [a \in Addrs |-> "allowed"] /\ saved = TRUE
  BY DEF BrakeInit, Clear
<1>2. /\ MaxTime \in Nat /\ Limit \in Nat \ {0} /\ None \notin Addrs /\ Cardinality(Attempts) \in Nat
      /\ 0 \in Nat
  BY FS_CardinalityType, RateLimitAssumption DEF RoomForAll
<1>3. ASSUME NEW a \in Addrs
      PROVE  /\ FailuresFit(fails[a], failed[a], now) /\ CallsFit(hits[a], passed[a], now)
             /\ FileFits(file[a], failed[a], now, saved)
             /\ Len(Within(failed[a], now)) + Cardinality(Holders(try, a))
                   < Limit + Cardinality(Attempts)
  <2>1. FailuresFit(<<>>, <<>>, 0) /\ CallsFit(<<>>, <<>>, 0)
    BY <1>2, EmptyFits
  <2>2. Holders(try, a) = {}
    BY <1>1, <1>2 DEF Holders
  <2>3. Cardinality(Holders(try, a)) = 0
    BY <2>2, FS_EmptySet
  <2>4. Len(Within(failed[a], now)) = 0
    BY <1>1, <1>2, WithinEmpty, EmptySeq
  <2>5. FileFits(<<>>, <<>>, 0, TRUE)
    BY <1>1, <1>2, <2>1, <2>4 DEF FailuresFit, FileFits
  <2>6. /\ fails[a] = <<>> /\ file[a] = <<>> /\ failed[a] = <<>> /\ hits[a] = <<>>
        /\ passed[a] = <<>> /\ saved = TRUE /\ now = 0
    BY <1>1
  <2>7. /\ FailuresFit(fails[a], failed[a], now) /\ CallsFit(hits[a], passed[a], now)
        /\ FileFits(file[a], failed[a], now, saved)
    BY <2>1, <2>5, <2>6
  <2> QED BY <1>2, <2>3, <2>4, <2>7
<1>4. now \in Time /\ swept \in Time
  BY <1>1, <1>2 DEF Time
<1> QED BY <1>1, <1>3, <1>4 DEF BrakeKept

LEMMA BrakeSteps == ASSUME RoomForAll, BrakeKept, [BrakeNext]_brakeVars PROVE BrakeKept'
<1>1. CASE UNCHANGED brakeVars
  <2>1. BrakeKept
    OBVIOUS
  <2> QED BY <1>1, <2>1 DEF brakeVars, BrakeKept
<1>2. ASSUME NEW p \in Attempts, CheckAddress(p) \/ RecordFailure(p) \/ RecordSuccess(p)
      PROVE  BrakeKept'
  BY <1>2, CheckKeeps, RecordFailureKeeps, RecordSuccessKeeps
<1>3. ASSUME NEW a \in Addrs, Throttle(a) PROVE BrakeKept'
  BY <1>3, ThrottleKeeps
<1>4. CASE Unblock \/ Restart \/ Tick
  BY <1>4, UnblockKeeps, RestartKeeps, TickKeeps
<1> QED BY <1>1, <1>2, <1>3, <1>4 DEF BrakeNext

LEMMA BrakeInvariance ==
    ASSUME RoomForAll
    PROVE  BrakeSpec => []BrakeKept
<1>1. BrakeInit => BrakeKept
  BY BrakeStarts
<1>2. BrakeKept /\ [BrakeNext]_brakeVars => BrakeKept'
  BY BrakeSteps
<1> QED BY <1>1, <1>2, PTL DEF BrakeSpec

LEMMA BrakeInvHolds ==
    ASSUME RoomForAll
    PROVE  BrakeSpec => []BrakeInv
<1>1. BrakeKept => BrakeInv
  BY BrakeGives DEF RoomForAll
<1> QED BY <1>1, BrakeInvariance, PTL

\* The failures of the window are the same in memory and as they happened, and on disk while
\* no write fails, whatever is pruned, swept, reset or restarted, as long as the addresses fit
\* into the map.  After a failed write a restart goes on from what the file has.
THEOREM FailuresAreRemembered ==
    ASSUME IsFiniteSet(Addrs), Cardinality(Addrs) <= MaxKeys,
           IsFiniteSet(Attempts)
    PROVE  BrakeSpec => []NothingForgotten
<1>1. BrakeInv => NothingForgotten
  BY DEF BrakeInv
<1> QED BY <1>1, BrakeInvHolds, PTL DEF RoomForAll

\* Between check() and record_failure() any number of attempts may be under way: an address
\* fails in a window at most that often beyond the limit.
THEOREM OvershootHasABound ==
    ASSUME IsFiniteSet(Addrs), Cardinality(Addrs) <= MaxKeys,
           IsFiniteSet(Attempts)
    PROVE  BrakeSpec => []OvershootBounded
<1>1. BrakeKept => OvershootBounded
  <2> SUFFICES ASSUME BrakeKept, NEW a \in Addrs
               PROVE  Len(Within(failed[a], now)) < Limit + Cardinality(Attempts)
    BY DEF OvershootBounded, Recent
  <2>1. RoomForAll
    BY DEF RoomForAll
  <2> QED BY <2>1, RoomGives
<1> QED BY <1>1, BrakeInvariance, PTL DEF RoomForAll

\* No window sees more than Limit calls let through by throttle(), although the list it
\* counts by is swept and cut to Limit + 1 entries; a restart begins anew.
THEOREM ThrottleHasABound ==
    ASSUME IsFiniteSet(Addrs), Cardinality(Addrs) <= MaxKeys,
           IsFiniteSet(Attempts)
    PROVE  BrakeSpec => []ThrottleBound
<1>1. BrakeInv => ThrottleBound
  <2> SUFFICES ASSUME BrakeInv, NEW a \in Addrs
               PROVE  Len(Within(passed[a], now)) <= Limit
    BY DEF ThrottleBound, Recent
  <2>1. now \in now..MaxTime
    BY RateLimitAssumption DEF BrakeInv, BrakeTypeOK, Time
  <2> QED BY <2>1 DEF BrakeInv, CallsListed
<1> QED BY <1>1, BrakeInvHolds, PTL DEF RoomForAll
==============================================================================
