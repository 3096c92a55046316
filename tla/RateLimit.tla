----------------------------- MODULE RateLimit -----------------------------
(***************************************************************************)
(* The brute-force brake, src/ratelimit.py.  check() and record_failure()  *)
(* guard a login: between them the caller awaits the password check, so    *)
(* several attempts of one address run at once.  throttle() counts every   *)
(* call.  Failures are written to ratelimit.json, a write may fail unseen, *)
(* and hits live in memory.                                                *)
(* Each function runs under one thread lock and is one step.  A janitor    *)
(* inside them sweeps both maps, at most once per Interval.                *)
(*                                                                         *)
(* Data: one action per map (a key is an address); an absent key is the    *)
(* empty sequence; time is a clock that stops at the bound MaxTime.        *)
(***************************************************************************)
EXTENDS Naturals, Sequences, FiniteSets

CONSTANTS Addrs, Attempts,
          Limit, Window,     \* _LIMITS of the action
          Interval,          \* _JANITOR_INTERVAL
          MaxKeys,           \* _MAX_KEYS
          MaxTime,           \* bound of the clock
          None,              \* no address
          Calls              \* which functions are called: "login", "throttle"

ASSUME RateLimitAssumption ==
    /\ Limit \in Nat \ {0} /\ Window \in Nat \ {0} /\ Interval \in Nat
    /\ None \notin Addrs
    /\ MaxKeys \in Nat /\ MaxTime \in Nat
    /\ Calls \subseteq {"login", "throttle"}

VARIABLES now, swept,        \* the clock, _last_janitor
          fails, file, hits, \* _fails, ratelimit.json, _hits
          try,               \* the address an attempt was admitted for, or none
          failed,            \* history: failures of an address since its last reset
          saved,             \* history: the last write of the file went through
          passed, told       \* history: calls throttle() let through; its last answer

brakeVars == <<now, swept, fails, file, hits, try, failed, saved, passed, told>>

Time  == 0..MaxTime
Log   == [Addrs -> Seq(Time)]
Clear == [a \in Addrs |-> <<>>]

BrakeTypeOK == /\ now \in Time /\ swept \in Time
               /\ fails \in Log /\ file \in Log /\ hits \in Log
               /\ \A a \in Addrs : Len(hits[a]) <= Limit + 1
               /\ try \in [Attempts -> Addrs \cup {None}]
               /\ failed \in Log /\ passed \in Log /\ saved \in BOOLEAN
               /\ told \in [Addrs -> {"allowed", "first", "again"}]

BrakeInit == /\ now = 0 /\ swept = 0
             /\ fails = Clear /\ file = Clear /\ hits = Clear
             /\ try = [p \in Attempts |-> None]
             /\ failed = Clear /\ passed = Clear /\ saved = TRUE
             /\ told = [a \in Addrs |-> "allowed"]
------------------------------------------------------------------------------
\* The times of s that are inside the sliding window at time c: [t for t in s if c - t < window].
Within(s, c) ==
    LET Upto[i \in 0..Len(s)] ==
            IF i = 0 THEN <<>>
            ELSE IF c - s[i] < Window THEN Append(Upto[i - 1], s[i]) ELSE Upto[i - 1]
    IN  Upto[Len(s)]
Recent(s)  == Within(s, now)
Last(s)    == s[Len(s)]
Present(m) == {a \in Addrs : m[a] # <<>>}

\* _janitor_locked(): swept keys, and beyond MAX_KEYS those with the oldest
\* last entry.
Stale(m) == {a \in Present(m) : now - Last(m[a]) >= Window}
Without(m, gone) == [a \in Addrs |-> IF a \in gone THEN <<>> ELSE m[a]]
Capped(m) ==
    {Without(m, gone) : gone \in
       {g \in SUBSET Present(m) :
          /\ Cardinality(Present(m) \ g) =
                IF Cardinality(Present(m)) > MaxKeys THEN MaxKeys
                ELSE Cardinality(Present(m))
          /\ \A a \in g, b \in Present(m) \ g : Last(m[a]) <= Last(m[b])}}
Due == now - swept >= Interval
Swept(m) == IF Due THEN Capped(Without(m, Stale(m))) ELSE {m}
Clock == swept' = IF Due THEN now ELSE swept
------------------------------------------------------------------------------
\* MUTANT: off by one.
Admits_OneMore(s) == Len(s) <= Limit

Admits(s) == Len(s) < Limit

\* MUTANT: failures stay in memory.
Persist_Never(m) == UNCHANGED <<file, saved>>

\* _persist(): an OSError is swallowed, the file stays as it was.
Persist(m) == \/ file' = m /\ saved' = TRUE
              \/ file' = file /\ saved' = FALSE

\* What the sweep took out of _fails is written, else nothing is.
PersistSweep(f) == IF f # fails THEN Persist(f) ELSE UNCHANGED <<file, saved>>

\* check(): an attempt is admitted while the window holds fewer than Limit failures.
CheckAddress(p) ==
    /\ "login" \in Calls /\ try[p] = None
    /\ \E a \in Addrs, f \in Swept(fails), h \in Swept(hits) :
          /\ fails' = [f EXCEPT ![a] = Recent(f[a])]
          /\ PersistSweep(f)
          /\ hits'  = h
          /\ try'   = [try EXCEPT ![p] = IF Admits(Recent(f[a])) THEN a ELSE None]
    /\ Clock
    /\ UNCHANGED <<now, failed, passed, told>>

\* record_failure(): the password was wrong.
RecordFailure(p) ==
    LET a == try[p] IN
    /\ a # None
    /\ \E f \in Swept(fails), h \in Swept(hits) :
          /\ fails' = [f EXCEPT ![a] = Append(Recent(f[a]), now)]
          /\ hits'  = h
    /\ Persist(fails')
    /\ failed' = [failed EXCEPT ![a] = Append(Recent(@), now)]
    /\ try' = [try EXCEPT ![p] = None]
    /\ Clock
    /\ UNCHANGED <<now, passed, told>>

\* record_success(): the counter of the address starts anew.
RecordSuccess(p) ==
    LET a == try[p] IN
    /\ a # None
    /\ fails' = [fails EXCEPT ![a] = <<>>]
    /\ IF fails[a] # <<>> THEN Persist(fails') ELSE UNCHANGED <<file, saved>>
    /\ failed' = [failed EXCEPT ![a] = <<>>]
    /\ try' = [try EXCEPT ![p] = None]
    /\ UNCHANGED <<now, swept, hits, passed, told>>

\* unblock(): the button in the diagnosis, all addresses.
Unblock ==
    /\ fails' = Clear /\ failed' = Clear /\ Persist(Clear)
    /\ UNCHANGED <<now, swept, hits, try, passed, told>>

\* MUTANT: one entry less than the limit is kept.
Kept_Short(s) == SubSeq(s, IF Len(s) < Limit THEN 1 ELSE Len(s) - Limit + 2, Len(s))

\* The last Limit + 1 entries.
Kept(s) == SubSeq(s, IF Len(s) <= Limit + 1 THEN 1 ELSE Len(s) - Limit, Len(s))

\* throttle(): every call counts, the rejected ones too; "first" is the answer gerade_gesperrt.
Throttle(a) ==
    /\ "throttle" \in Calls
    /\ \E f \in Swept(fails), h \in Swept(hits) :
          LET s == Recent(h[a]) IN
              /\ fails' = f
              /\ PersistSweep(f)
              /\ hits'  = [h EXCEPT ![a] = Kept(Append(s, now))]
              /\ passed' = [passed EXCEPT ![a] =
                              IF Len(s) < Limit THEN Append(Recent(@), now) ELSE Recent(@)]
              /\ told' = [told EXCEPT ![a] = IF Len(s) < Limit THEN "allowed"
                                             ELSE IF Len(s) = Limit THEN "first" ELSE "again"]
    /\ Clock
    /\ UNCHANGED <<now, try, failed>>

\* A restart: failures are read back from the file, hits are gone.  After a failed write
\* the failures that count are those of the file.
Restart ==
    /\ fails' = file /\ hits' = Clear /\ passed' = Clear /\ swept' = 0
    /\ try' = [p \in Attempts |-> None]
    /\ told' = [a \in Addrs |-> "allowed"]
    /\ failed' = (IF saved THEN failed ELSE file) /\ saved' = TRUE
    /\ UNCHANGED <<now, file>>

Tick == /\ now < MaxTime
        /\ now' = now + 1
        /\ UNCHANGED <<swept, fails, file, hits, try, failed, saved, passed, told>>

BrakeNext == \/ \E p \in Attempts : CheckAddress(p) \/ RecordFailure(p) \/ RecordSuccess(p)
             \/ \E a \in Addrs : Throttle(a)
             \/ Unblock \/ Restart \/ Tick

BrakeSpec == BrakeInit /\ [][BrakeNext]_brakeVars
------------------------------------------------------------------------------
(* Properties *)

\* No failure of the current window is forgotten by sweeping or pruning, nor by a
\* restart ("Sperren überstehen einen Neustart") unless the last write had failed:
\* _persist() swallows that, and the restarted brake knows what the file has.
NothingForgotten ==
    \A a \in Addrs : /\ Recent(fails[a]) = Recent(failed[a])
                     /\ saved => Recent(file[a]) = Recent(failed[a])

\* A restart keeps every failure that counts, whatever became of the last write.
\* (Not true of the code, see the README.)
FailuresSurvive == [][Restart => \A a \in Addrs : Recent(failed'[a]) = Recent(failed[a])]_brakeVars

\* Within a window at most Limit attempts fail: the next ones are turned away
\* (_LIMITS: "5 Fehlversuche / 15 min").
FailuresBounded == \A a \in Addrs : Len(Recent(failed[a])) <= Limit

\* However many attempts run at once, the failures of a window exceed the limit
\* at most by the attempts that were admitted together (check, then the password
\* check in a thread, then record_failure).  After a failed write a restart counts
\* on from the file.
OvershootBounded ==
    \A a \in Addrs : Len(Recent(failed[a])) < Limit + Cardinality(Attempts)

\* No window sees more than Limit admitted calls, although the list of calls
\* is cut short and swept.
ThrottleBound == \A a \in Addrs : Len(Recent(passed[a])) <= Limit

\* throttle() says "just blocked" at the first rejected call only, so that one
\* audit line is written per block ("genau beim ersten abgelehnten Aufruf").
OneFirstRejection ==
    [][\A a \in Addrs : (told[a] # "allowed" /\ hits'[a] \notin {hits[a], <<>>})
          => told'[a] # "first"]_brakeVars
------------------------------------------------------------------------------
(* The inductive invariant behind the three bounds. *)

\* No entry of a log lies in the future.
UpToNow == \A a \in Addrs : /\ fails[a] \in Seq(0..now) /\ file[a] \in Seq(0..now)
                            /\ hits[a] \in Seq(0..now)
                            /\ failed[a] \in Seq(0..now) /\ passed[a] \in Seq(0..now)

\* The last entry, by which the sweep judges a key, is the newest.
Topped(s) == s = <<>> \/ s \in Seq(0..Last(s))
LastIsNewest == \A a \in Addrs : Topped(fails[a]) /\ Topped(file[a]) /\ Topped(hits[a])

\* Failures and attempts under way: whoever was admitted saw fewer than Limit.
Admitted(a) == {p \in Attempts : try[p] = a}
UnderWay == \A a \in Addrs : Len(Recent(failed[a])) + Cardinality(Admitted(a))
                                < Limit + Cardinality(Attempts)

\* A file that a failed write left behind has no more failures than were counted once.
FileWithinBound == \A a \in Addrs : Len(Recent(file[a])) < Limit + Cardinality(Attempts)

\* At any later time the list of calls counts at least those let through.
CallsListed ==
    \A a \in Addrs : \A d \in now..MaxTime :
        /\ Len(Within(passed[a], d)) <= Len(Within(hits[a], d))
        /\ Len(Within(passed[a], d)) <= Limit

BrakeInv == /\ BrakeTypeOK /\ UpToNow /\ LastIsNewest /\ NothingForgotten
            /\ UnderWay /\ FileWithinBound /\ CallsListed
==============================================================================
