-------------------------- MODULE SlotSwitch_proofs --------------------------
(* SlotSwitch for any number of slots, releases and invocations, however the  *)
(* slots' health changes, wherever the script is killed, whatever systemctl    *)
(* fails to do and whenever the machine restarts.                              *)
EXTENDS SlotSwitch, TLAPS

LEMMA InitInv == Init => IInv
<1> SUFFICES ASSUME Init PROVE IInv
  OBVIOUS
<1> USE SlotSwitchAssumption DEF Init, Maybe
<1>1. TypeOK
  BY DEF TypeOK
<1>2. LockHeld /\ Places /\ Cooled
  BY DEF LockHeld, Places, Place, Cooled
<1>3. ServedAtRest
  BY DEF ServedAtRest, BootFollows
<1> QED BY <1>1, <1>2, <1>3 DEF IInv

\* At rest the proxy, the recorded slot and the boot slot agree.
LEMMA RestInOrder == ASSUME ServedAtRest, lock = Free, ~torn PROVE InOrder
BY DEF ServedAtRest, InOrder

LEMMA BeginInv == ASSUME IInv, NEW w \in Switchers, Begin(w) PROVE IInv'
<1> USE SlotSwitchAssumption DEF IInv
<1>1. PICK s \in Slots \ {active}, force \in BOOLEAN :
          /\ MayTurn(s, force)
          /\ lock'    = w
          /\ ziel'    = [ziel EXCEPT ![w] = s]
          /\ aktiv'   = [aktiv EXCEPT ![w] = active]
          /\ zielRel' = [zielRel EXCEPT ![w] = rel[s]]
          /\ cold'    = [cold EXCEPT ![w] = run[s] = "off"]
          /\ forced'  = [forced EXCEPT ![w] = force]
  BY DEF Begin
<1>2. /\ lock = Free /\ pc' = [pc EXCEPT ![w] = "warm"]
      /\ UNCHANGED <<active, cool, blocked, emergency, target, boot, run, rel, rested, torn, warned>>
  BY DEF Begin, MayEnter, Goto, state
<1>3. \A v \in Switchers : pc[v] = "idle"
  BY <1>2 DEF LockHeld
<1>4. TypeOK'
  BY <1>1, <1>2 DEF TypeOK, Maybe
<1>5. LockHeld'
  BY <1>1, <1>2, <1>3 DEF LockHeld, TypeOK
<1>6. ~torn => InOrder
  BY <1>2, RestInOrder
<1>7. rel[s] \notin blocked \cap Releases /\ (rested \/ force)
  BY <1>1, <1>3 DEF MayTurn, Cooled, TypeOK
<1>8. /\ ziel'[w] = s /\ aktiv'[w] = active /\ forced'[w] = force /\ pc'[w] = "warm"
      /\ \A v \in Switchers \ {w} : pc'[v] = "idle"
  BY <1>1, <1>2, <1>3 DEF TypeOK
<1>9. Places'
  BY <1>1, <1>2, <1>6, <1>7, <1>8 DEF Places, Place, InOrder, BootFollows
<1>10. Cooled'
  BY <1>2, <1>3 DEF Cooled
<1>11. ServedAtRest'
  BY <1>1 DEF ServedAtRest
<1> QED BY <1>4, <1>5, <1>9, <1>10, <1>11

Labels == {"idle", "warm", "probe", "turn", "observe", "record", "back", "recheck", "boot", "standby"}

\* The holder of the lock goes on to place l: only its own place is in question.
LEMMA HolderMoves ==
    ASSUME IInv, NEW w \in Switchers, pc[w] # "idle", NEW l \in Labels \ {"idle"}, Goto(w, l),
           lock' = lock, TypeOK', Cooled', pc'[w] = l => Place(w)'
    PROVE  IInv'
<1> USE SlotSwitchAssumption DEF IInv, Goto
<1>1. lock = w /\ pc'[w] = l /\ \A v \in Switchers \ {w} : pc[v] = "idle" /\ pc'[v] = "idle"
  BY DEF LockHeld, TypeOK
<1>2. LockHeld'
  BY <1>1 DEF LockHeld
<1>3. ASSUME NEW v \in Switchers PROVE Place(v)'
  <2>1. CASE v = w
    BY <1>1, <2>1
  <2>2. CASE v # w
    BY <1>1, <2>2 DEF Place
  <2> QED BY <2>1, <2>2
<1>4. ServedAtRest'
  BY <1>1 DEF ServedAtRest
<1> QED BY <1>2, <1>3, <1>4 DEF Places

\* It lets go of the lock, and everyone rests.
LEMMA ExitTypes ==
    ASSUME TypeOK, NEW w \in Switchers, Exit(w)
    PROVE  /\ lock' = Free /\ pc' \in [Switchers -> Labels]
           /\ ziel' \in [Switchers -> Maybe(Slots)] /\ aktiv' \in [Switchers -> Maybe(Slots)]
           /\ zielRel' \in [Switchers -> Maybe(Releases)]
           /\ cold' \in [Switchers -> BOOLEAN] /\ forced' \in [Switchers -> BOOLEAN]
BY DEF TypeOK, Exit, Goto, Maybe, Labels

LEMMA HolderExits ==
    ASSUME IInv, NEW w \in Switchers, pc[w] # "idle", Exit(w), TypeOK', cool' \/ rested', ServedAtRest'
    PROVE  IInv'
<1> USE SlotSwitchAssumption DEF IInv, Exit, Goto
<1>1. lock' = Free /\ \A v \in Switchers : pc'[v] = "idle"
  BY DEF LockHeld, TypeOK
<1>2. LockHeld' /\ Places'
  BY <1>1 DEF LockHeld, Places, Place
<1>3. Cooled'
  BY DEF Cooled
<1> QED BY <1>2, <1>3

\* Every place before the fallback has a cooldown behind it or before it.
LEMMA CooledBefore ==
    ASSUME IInv, NEW w \in Switchers, pc[w] \notin {"idle", "recheck"}
    PROVE  cool \/ rested
<1>1. \A v \in Switchers : pc[v] # "recheck"
  BY SlotSwitchAssumption DEF IInv, LockHeld
<1> QED BY <1>1 DEF IInv, Cooled

\* From the start of the slot to the last poll.
LEMMA CheckInv ==
    ASSUME IInv, NEW w \in Switchers,
           Warm(w) \/ ProbeFails(w) \/ Probe(w) \/ Turn(w) \/ Observe(w)
    PROVE  IInv'
<1> USE DEF IInv, state, locals
<1>0. Place(w)
  BY DEF Places
<1>1. CASE Warm(w)
  <2>1. pc[w] = "warm" /\ Goto(w, "probe") /\ ziel[w] \in Slots
    BY <1>0, <1>1 DEF Warm, Place
  <2>2. TypeOK'
    BY <1>1, <2>1 DEF Warm, TypeOK, Goto
  <2>3. Cooled'
    BY <1>1, <2>1, CooledBefore DEF Warm, Cooled
  <2>4. pc'[w] = "probe" => Place(w)'
    BY <1>0, <1>1 DEF Warm, Place, InOrder, BootFollows
  <2> QED BY <1>1, <2>1, <2>2, <2>3, <2>4, HolderMoves DEF Warm, Labels
<1>2. CASE ProbeFails(w)
  <2>1. pc[w] = "probe" /\ Exit(w) /\ UNCHANGED <<state, target, boot, run, rel, rested, torn, warned>>
    BY <1>2 DEF ProbeFails
  <2>2. TypeOK'
    BY <2>1, ExitTypes DEF TypeOK, Labels, Maybe
  <2>3. cool' \/ rested'
    BY <2>1, CooledBefore
  <2>4. ServedAtRest'
    BY <1>0, <2>1 DEF ServedAtRest, Place, InOrder, BootFollows
  <2> QED BY <2>1, <2>2, <2>3, <2>4, HolderExits
<1>3. CASE Probe(w)
  <2>1. pc[w] = "probe" /\ Goto(w, "turn")
    BY <1>3 DEF Probe
  <2>2. TypeOK'
    BY <1>3, <2>1 DEF Probe, TypeOK, Goto
  <2>3. Cooled'
    BY <1>3, <2>1, CooledBefore DEF Probe, Cooled
  <2>4. pc'[w] = "turn" => Place(w)'
    BY <1>0, <1>3 DEF Probe, Place, InOrder, BootFollows
  <2> QED BY <1>3, <2>1, <2>2, <2>3, <2>4, HolderMoves DEF Probe, Labels
<1>4. CASE Turn(w)
  <2>1. pc[w] = "turn" /\ Goto(w, "observe") /\ ziel[w] \in Slots /\ target' = ziel[w]
    BY <1>0, <1>4 DEF Turn, Place
  <2>2. TypeOK'
    BY <1>4, <2>1 DEF Turn, TypeOK, Goto
  <2>3. Cooled'
    BY <1>4, <2>1, CooledBefore DEF Turn, Cooled
  <2>4. pc'[w] = "observe" => Place(w)'
    BY <1>0, <1>4 DEF Turn, Place, InOrder, BootFollows
  <2> QED BY <1>4, <2>1, <2>2, <2>3, <2>4, HolderMoves DEF Turn, Labels
<1>5. CASE Observe(w)
  <2>1. PICK l \in {"record", "back"} : Goto(w, l)
    BY <1>5 DEF Observe
  <2>2. pc[w] = "observe" /\ UNCHANGED <<lock, state, target, boot, run, rel, locals, rested, torn, warned>>
    BY <1>5 DEF Observe
  <2>3. TypeOK'
    BY <2>1, <2>2 DEF TypeOK, Goto
  <2>4. Cooled'
    BY <2>2, CooledBefore DEF Cooled
  <2>5. pc'[w] = l => Place(w)'
    BY <1>0, <2>1, <2>2 DEF Place, InOrder, BootFollows
  <2> QED BY <2>1, <2>2, <2>3, <2>4, <2>5, HolderMoves DEF Labels
<1> QED BY <1>1, <1>2, <1>3, <1>4, <1>5

\* The switch is recorded, and the boot slot follows.
LEMMA EndInv ==
    ASSUME IInv, NEW w \in Switchers, Record(w) \/ Persist(w) \/ StopStandby(w)
    PROVE  IInv'
<1> USE DEF IInv, state, locals
<1>0. Place(w) /\ target \in Slots
  BY DEF Places, TypeOK
<1>1. CASE Record(w)
  <2>1. /\ pc[w] = "record" /\ Goto(w, "boot") /\ ziel[w] = target /\ active' = target
        /\ UNCHANGED <<lock, cool, blocked, target, boot, run, rel, locals, rested, torn, warned>>
    BY <1>0, <1>1 DEF Record, Place
  <2>2. TypeOK'
    BY <1>0, <1>1, <2>1 DEF Record, TypeOK, Goto, Maybe
  <2>3. Cooled'
    BY <2>1, CooledBefore DEF Cooled
  <2>4. pc'[w] = "boot" => Place(w)'
    BY <2>1 DEF Place
  <2> QED BY <2>1, <2>2, <2>3, <2>4, HolderMoves DEF Labels
<1>2. CASE Persist(w)
  <2>1. /\ pc[w] = "boot" /\ Goto(w, "standby") /\ active = target
        /\ UNCHANGED <<lock, state, target, run, rel, locals, rested, torn>>
    BY <1>0, <1>2 DEF Persist, Place
  <2>2. BootFollows' /\ boot' \subseteq Slots /\ warned' \subseteq {"enable", "disable"}
    BY <1>0, <1>2, <2>1 DEF Persist, BootFollows, TypeOK
  <2>3. TypeOK'
    BY <1>0, <2>1, <2>2 DEF TypeOK, Goto
  <2>4. Cooled'
    BY <2>1, CooledBefore DEF Cooled
  <2>5. pc'[w] = "standby" => Place(w)'
    BY <2>1, <2>2 DEF Place
  <2> QED BY <2>1, <2>3, <2>4, <2>5, HolderMoves DEF Labels
<1>3. CASE StopStandby(w)
  <2>1. /\ pc[w] = "standby" /\ Exit(w) /\ active = target /\ BootFollows
        /\ UNCHANGED <<state, target, boot, rel, rested, warned>> /\ torn' = FALSE
    BY <1>0, <1>3 DEF StopStandby, Place
  <2>2. run' \in [Slots -> {"off", "up", "ready"}]
    BY <1>3 DEF StopStandby, TypeOK
  <2>3. TypeOK'
    BY <2>1, <2>2, ExitTypes DEF TypeOK, Labels, Maybe
  <2>4. cool' \/ rested'
    BY <2>1, CooledBefore
  <2>5. ServedAtRest'
    BY <2>1 DEF ServedAtRest, BootFollows
  <2> QED BY <2>1, <2>3, <2>4, <2>5, HolderExits
<1> QED BY <1>1, <1>2, <1>3

\* A fallback: back to the recorded slot if there is one, and an emergency if that
\* one is sick, too.
LEMMA FallbackInv ==
    ASSUME IInv, NEW w \in Switchers, Fallback(w) \/ Recheck(w)
    PROVE  IInv'
<1> USE DEF IInv, state, locals
<1>0. Place(w) /\ target \in Slots
  BY DEF Places, TypeOK
<1>1. ASSUME Fallback(w), ~HasHome(w) PROVE IInv'
  <2>1. /\ pc[w] = "back" /\ Exit(w) /\ cool' = TRUE /\ emergency' = TRUE /\ rested' = FALSE
        /\ UNCHANGED <<active, blocked, target, boot, run, rel, torn, warned>>
    BY <1>1 DEF Fallback
  <2>2. active = Unknown
    BY <1>0, <1>1, <2>1 DEF HasHome, Place
  <2>3. TypeOK'
    BY <2>1, ExitTypes DEF TypeOK, Labels, Maybe
  <2>4. ServedAtRest'
    BY <2>1, <2>2 DEF ServedAtRest
  <2> QED BY <2>1, <2>3, <2>4, HolderExits
<1>2. ASSUME Fallback(w), HasHome(w) PROVE IInv'
  <2>1. /\ pc[w] = "back" /\ Goto(w, "recheck") /\ target' = aktiv[w] /\ rested' = FALSE
        /\ UNCHANGED <<lock, state, locals, boot, run, rel, torn, warned>>
    BY <1>2 DEF Fallback
  <2>2. aktiv[w] = active /\ active # Unknown /\ (~torn => BootFollows)
    BY <1>0, <1>2, <2>1 DEF HasHome, Place
  <2>3. TypeOK'
    BY <2>1, <2>2 DEF TypeOK, Goto, Maybe
  <2>4. Cooled'
    BY <2>1 DEF Cooled, Goto, TypeOK
  <2>5. pc'[w] = "recheck" => Place(w)'
    BY <2>1, <2>2 DEF Place, BootFollows
  <2> QED BY <2>1, <2>3, <2>4, <2>5, HolderMoves DEF Labels
<1>3. ASSUME Recheck(w) PROVE IInv'
  <2>1. /\ pc[w] = "recheck" /\ active' = active /\ cool' = TRUE
        /\ blocked' = blocked \cup {zielRel[w]}
        /\ UNCHANGED <<target, boot, run, rel, rested, torn, warned>>
        /\ active = target /\ (~torn => BootFollows)
    BY <1>0, <1>3 DEF Recheck, Cooling, Place
  <2>2. blocked' \subseteq Maybe(Releases)
    BY <2>1 DEF TypeOK
  <2>3. Cooled'
    BY <2>1 DEF Cooled
  <2>4. CASE Goto(w, "boot") /\ UNCHANGED <<lock, emergency, locals>>
    <3>1. TypeOK'
      BY <2>1, <2>2, <2>4 DEF TypeOK, Goto
    <3>2. pc'[w] = "boot" => Place(w)'
      BY <2>1 DEF Place
    <3> QED BY <2>1, <2>3, <2>4, <3>1, <3>2, HolderMoves DEF Labels
  <2>5. CASE Exit(w) /\ emergency' = TRUE
    <3>1. TypeOK'
      BY <2>1, <2>2, <2>5, ExitTypes DEF TypeOK, Labels, Maybe
    <3>2. ServedAtRest'
      BY <2>1 DEF ServedAtRest, BootFollows
    <3> QED BY <2>1, <2>5, <3>1, <3>2, HolderExits
  <2> QED BY <1>3, <2>4, <2>5 DEF Recheck
<1> QED BY <1>1, <1>2, <1>3

\* What happens to a slot, and time, touch nothing a switch relies on.
LEMMA AroundInv == ASSUME IInv, Health \/ Deploy \/ Cooldown PROVE IInv'
<1> USE SlotSwitchAssumption DEF IInv, state, locals
<1>1. CASE Health
  <2>1. PICK s \in Slots, x \in {"off", "up", "ready"} : run' = [run EXCEPT ![s] = x]
    BY <1>1 DEF Health
  <2>2. UNCHANGED <<lock, state, target, boot, rel, pc, locals, rested, torn, warned>>
    BY <1>1 DEF Health
  <2>3. TypeOK'
    BY <2>1, <2>2 DEF TypeOK
  <2>4. LockHeld' /\ Places' /\ Cooled' /\ ServedAtRest'
    BY <2>2 DEF LockHeld, Places, Place, Cooled, ServedAtRest, InOrder, BootFollows
  <2> QED BY <2>3, <2>4
<1>2. CASE Deploy
  <2>1. PICK s \in Slots, r \in Maybe(Releases) :
           rel' = [rel EXCEPT ![s] = r] /\ run' = [run EXCEPT ![s] = "up"]
    BY <1>2 DEF Deploy
  <2>2. lock = Free /\ UNCHANGED <<lock, state, target, boot, pc, locals, rested, torn, warned>>
    BY <1>2 DEF Deploy
  <2>3. TypeOK'
    BY <2>1, <2>2 DEF TypeOK
  <2>4. Places'
    BY <2>2 DEF LockHeld, Places, Place
  <2>5. LockHeld' /\ Cooled' /\ ServedAtRest'
    BY <2>2 DEF LockHeld, Cooled, ServedAtRest, BootFollows
  <2> QED BY <2>3, <2>4, <2>5
<1>3. CASE Cooldown
  <2>1. /\ rested' = TRUE /\ cool' = FALSE
        /\ UNCHANGED <<lock, active, blocked, emergency, target, boot, run, rel, pc, locals, torn, warned>>
    BY <1>3 DEF Cooldown
  <2>2. TypeOK'
    BY <2>1 DEF TypeOK
  <2>3. LockHeld' /\ Places' /\ Cooled' /\ ServedAtRest'
    BY <2>1 DEF LockHeld, Places, Place, Cooled, ServedAtRest, InOrder, BootFollows
  <2> QED BY <2>2, <2>3
<1> QED BY <1>1, <1>2, <1>3

\* The lock of a killed switch is gone with it, and so is its place.
LEMMA ForgetInv ==
    ASSUME IInv, Die \/ Reboot
    PROVE  IInv'
<1> USE SlotSwitchAssumption DEF IInv, state
<1>1. /\ rested' = (rested \/ \E w \in Switchers : pc[w] = "recheck")
      /\ pc' = [w \in Switchers |-> "idle"] /\ lock' = Free
      /\ ziel' = [w \in Switchers |-> Unknown] /\ aktiv' = [w \in Switchers |-> Unknown]
      /\ zielRel' = [w \in Switchers |-> Unknown]
      /\ cold' = [w \in Switchers |-> FALSE] /\ forced' = [w \in Switchers |-> FALSE]
      /\ UNCHANGED <<state, target, boot, rel, warned>>
  BY DEF Die, Reboot, Forget
<1>2. /\ run' \in [Slots -> {"off", "up", "ready"}] /\ torn' \in BOOLEAN
      /\ (~torn' => ~torn /\ lock = Free)
  BY DEF Die, Reboot, TypeOK
<1>3. rested' \in BOOLEAN
  BY <1>1 DEF TypeOK
<1>4. TypeOK'
  BY <1>1, <1>2, <1>3 DEF TypeOK, Maybe
<1>5. LockHeld' /\ Places'
  BY <1>1 DEF LockHeld, Places, Place
<1>6. Cooled'
  BY <1>1 DEF Cooled
<1>7. ServedAtRest'
  BY <1>1, <1>2 DEF ServedAtRest, BootFollows
<1> QED BY <1>4, <1>5, <1>6, <1>7

LEMMA NextInv == IInv /\ [Next]_vars => IInv'
<1> SUFFICES ASSUME IInv, [Next]_vars PROVE IInv'
  OBVIOUS
<1>1. CASE UNCHANGED vars
  BY <1>1 DEF vars, IInv, TypeOK, LockHeld, Places, Place, Cooled, ServedAtRest, InOrder, BootFollows
<1>2. ASSUME NEW w \in Switchers, Begin(w) \/ Step(w) PROVE IInv'
  BY <1>2, BeginInv, CheckInv, EndInv, FallbackInv DEF Step
<1> QED BY <1>1, <1>2, AroundInv, ForgetInv DEF Next

LEMMA Invariance == Spec => []IInv
BY InitInv, NextInv, PTL DEF Spec

\* The types of the proxy, the state file, the units and every invocation.
THEOREM TypeCorrect == Spec => []TypeOK
<1>1. IInv => TypeOK
  BY DEF IInv
<1> QED BY <1>1, Invariance, PTL

\* After a switch or a fallback, the slot on record is the one the proxy serves, unless a
\* switch was killed since, and the one the machine starts: enabled unless enabling it
\* failed when it was last recorded, and alone unless disabling the other one did.
THEOREM SwitchesEndInOrder == Spec => []ServedAtRest
<1>1. IInv => ServedAtRest
  BY DEF IInv
<1> QED BY <1>1, Invariance, PTL

\* What BlockedNotServed says of a step.
TurnsToUnblocked ==
    \A s \in Slots : (target' = s /\ target # s /\ rel[s] \in blocked \cap Releases)
          => \E w \in Switchers : pc[w] = "back" /\ aktiv[w] = s

\* Only a fallback serves a release that fell back before: BG_FORCE does not, nor
\* does a release that moved to the other slot.
THEOREM BlockedStaysOut == Spec => BlockedNotServed
<1>1. ASSUME IInv, [Next]_vars PROVE [TurnsToUnblocked]_vars
  <2>1. CASE \E w \in Switchers : Turn(w)
    <3>1. PICK w \in Switchers : Turn(w)
      BY <2>1
    <3>2. pc[w] = "turn" /\ target' = ziel[w]
      BY <3>1 DEF Turn
    <3>3. Place(w)
      BY <1>1 DEF IInv, Places
    <3>4. rel[ziel[w]] \notin blocked \cap Releases
      BY <3>2, <3>3 DEF Place
    <3> QED BY <3>2, <3>4 DEF TurnsToUnblocked
  <2>2. CASE \E w \in Switchers : Fallback(w)
    BY <2>2 DEF Fallback, TurnsToUnblocked
  <2>3. CASE target' = target
    BY <2>3 DEF TurnsToUnblocked
  <2>4. ASSUME NEW w \in Switchers, Begin(w) \/ Step(w), ~Turn(w), ~Fallback(w) PROVE target' = target
    BY <2>4 DEF Step, Begin, Warm, ProbeFails, Probe, Observe, Record, Recheck, Persist,
       StopStandby, state, locals
  <2>5. CASE Health \/ Deploy \/ Cooldown \/ Die \/ Reboot \/ UNCHANGED vars
    BY <2>3, <2>5 DEF Health, Deploy, Cooldown, Die, Reboot, vars
  <2>6. CASE \E w \in Switchers : Begin(w) \/ Step(w)
    BY <2>1, <2>2, <2>3, <2>4, <2>6
  <2> QED BY <1>1, <2>5, <2>6 DEF Next
<1>2. IInv /\ [Next]_vars => [TurnsToUnblocked]_vars
  BY <1>1
<1>3. Spec => [][TurnsToUnblocked]_vars
  BY <1>2, Invariance, PTL DEF Spec
<1> QED BY <1>3 DEF BlockedNotServed, TurnsToUnblocked

\* What NoFlapping says of a step.
TurnsRested == \A w \in Switchers : (pc[w] = "turn" /\ pc'[w] = "observe") => rested \/ forced[w]

\* Nobody turns the proxy again before the cooldown after a fallback has passed,
\* unless it is forced: not even beside a switch that was killed in its fallback.
THEOREM CooldownHolds == Spec => NoFlapping
<1>1. IInv /\ [Next]_vars => [TurnsRested]_vars
  BY DEF IInv, Places, Place, TurnsRested
<1>2. Spec => [][TurnsRested]_vars
  BY <1>1, Invariance, PTL DEF Spec
<1> QED BY <1>2 DEF NoFlapping, TurnsRested
==============================================================================
