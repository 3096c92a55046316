----------------------------- MODULE SlotSwitch -----------------------------
(***************************************************************************)
(* The blue-green switch, src/bluegreen/switch.sh: two slots run releases, *)
(* a proxy forwards the entry port to one of them.  A switch checks the    *)
(* new slot, turns the proxy, watches for a while, and turns it back on    *)
(* the first failed probe.  Its state is slot-state.json (active, cooldown,*)
(* blocked, emergency), the proxy's drop-in (target), the slots systemd    *)
(* starts at boot, and which slots run.                                    *)
(*                                                                         *)
(* Data: a slot is off, up (running, but failing the probe) or ready, and  *)
(* may change at any moment; the cooldown may end at any moment.           *)
(***************************************************************************)
CONSTANTS Slots, Releases,
          Switchers,          \* invocations of switch.sh
          Unknown,            \* no active slot recorded; no manifest
          Faults,             \* which of "die", "reboot", "systemctl" happen
          Free

ASSUME SlotSwitchAssumption ==
    /\ Unknown \notin Slots \cup Releases /\ Free \notin Switchers
    /\ Faults \subseteq {"die", "reboot", "systemctl"}

VARIABLES lock,                       \* deploy.lock
          active, cool, blocked, emergency, \* slot-state.json
          target, boot,               \* the proxy's slot, the enabled slots
          run, rel,                   \* state and release of each slot
          pc, ziel, aktiv, zielRel,   \* the variables of a switch
          cold, forced,               \* history: its slot was off; BG_FORCE=1
          rested,                     \* history: a cooldown passed since the last recorded fallback
          torn,                       \* history: a switch was killed, none has run to its end since
          warned                      \* history: what failed in the last persist_autostart()

vars == <<lock, active, cool, blocked, emergency, target, boot, run, rel,
          pc, ziel, aktiv, zielRel, cold, forced, rested, torn, warned>>
state  == <<active, cool, blocked, emergency>>
locals == <<ziel, aktiv, zielRel, cold, forced>>

Maybe(S) == S \cup {Unknown}

TypeOK == /\ lock \in Switchers \cup {Free}
          /\ active \in Maybe(Slots) /\ cool \in BOOLEAN /\ emergency \in BOOLEAN
          /\ blocked \subseteq Maybe(Releases)
          /\ target \in Slots /\ boot \subseteq Slots
          /\ run \in [Slots -> {"off", "up", "ready"}]
          /\ rel \in [Slots -> Maybe(Releases)]
          /\ pc \in [Switchers -> {"idle", "warm", "probe", "turn", "observe", "record",
                                   "back", "recheck", "boot", "standby"}]
          /\ ziel \in [Switchers -> Maybe(Slots)] /\ aktiv \in [Switchers -> Maybe(Slots)]
          /\ zielRel \in [Switchers -> Maybe(Releases)]
          /\ cold \in [Switchers -> BOOLEAN] /\ forced \in [Switchers -> BOOLEAN]
          /\ rested \in BOOLEAN /\ torn \in BOOLEAN
          /\ warned \subseteq {"enable", "disable"}

\* Installed on one slot; before the first switch no slot is recorded.
Init == /\ lock = Free
        /\ \E s \in Slots : /\ active \in {s, Unknown} /\ target = s /\ boot = {s}
                            /\ run = [t \in Slots |-> IF t = s THEN "ready" ELSE "off"]
        /\ cool = FALSE /\ blocked = {} /\ emergency = FALSE
        /\ rel = [s \in Slots |-> Unknown]
        /\ pc = [w \in Switchers |-> "idle"]
        /\ ziel = [w \in Switchers |-> Unknown] /\ aktiv = ziel
        /\ zielRel = [w \in Switchers |-> Unknown]
        /\ cold = [w \in Switchers |-> FALSE] /\ forced = cold
        /\ rested = TRUE /\ torn = FALSE /\ warned = {}
------------------------------------------------------------------------------
Ready(s) == run[s] = "ready"
Goto(w, l) == pc' = [pc EXCEPT ![w] = l]
Exit(w) == /\ Goto(w, "idle")
           /\ lock' = Free
           /\ ziel'    = [ziel EXCEPT ![w] = Unknown]
           /\ aktiv'   = [aktiv EXCEPT ![w] = Unknown]
           /\ zielRel' = [zielRel EXCEPT ![w] = Unknown]
           /\ cold'    = [cold EXCEPT ![w] = FALSE]
           /\ forced'  = [forced EXCEPT ![w] = FALSE]

\* MUTANT: without the lock.
MayEnter_Always == TRUE

MayEnter == lock = Free

\* MUTANT: BG_FORCE passes over the block list too.
MayTurn_Forced(s, force) == force \/ (~cool /\ rel[s] \notin blocked)

\* Cooldown, unless BG_FORCE; the block list is asked for releases with a manifest.
MayTurn(s, force) == (force \/ ~cool) /\ (rel[s] = Unknown \/ rel[s] \notin blocked)

\* Lock, state, cooldown, block list; refusals exit without a change.
Begin(w) ==
    /\ pc[w] = "idle" /\ MayEnter
    /\ \E s \in Slots \ {active}, force \in BOOLEAN :
          /\ MayTurn(s, force)
          /\ lock'    = w
          /\ ziel'    = [ziel EXCEPT ![w] = s]
          /\ aktiv'   = [aktiv EXCEPT ![w] = active]
          /\ zielRel' = [zielRel EXCEPT ![w] = rel[s]]
          /\ cold'    = [cold EXCEPT ![w] = run[s] = "off"]
          /\ forced'  = [forced EXCEPT ![w] = force]
    /\ Goto(w, "warm")
    /\ UNCHANGED <<state, target, boot, run, rel, rested, torn, warned>>

\* The slot is started if it is stopped, which may fail.
Warm(w) ==
    /\ pc[w] = "warm"
    /\ \/ run' = IF run[ziel[w]] = "off" THEN [run EXCEPT ![ziel[w]] = "up"] ELSE run
       \/ "systemctl" \in Faults /\ UNCHANGED run
    /\ Goto(w, "probe")
    /\ UNCHANGED <<lock, state, target, boot, rel, locals, rested, torn, warned>>

\* The gate; exit 69.
ProbeFails(w) ==
    /\ pc[w] = "probe" /\ ~Ready(ziel[w])
    /\ Exit(w)
    /\ UNCHANGED <<state, target, boot, run, rel, rested, torn, warned>>

Probe(w) ==
    /\ pc[w] = "probe" /\ Ready(ziel[w])
    /\ Goto(w, "turn")
    /\ UNCHANGED <<lock, state, target, boot, run, rel, locals, rested, torn, warned>>

\* set_target(ziel)
Turn(w) ==
    /\ pc[w] = "turn"
    /\ target' = ziel[w]
    /\ Goto(w, "observe")
    /\ UNCHANGED <<lock, state, boot, run, rel, locals, rested, torn, warned>>

\* The polls through the entry port: all good, or the first that fails.
Observe(w) ==
    /\ pc[w] = "observe"
    /\ Goto(w, IF Ready(target) THEN "record" ELSE "back")
    /\ UNCHANGED <<lock, state, target, boot, run, rel, locals, rested, torn, warned>>

Record(w) ==
    /\ pc[w] = "record"
    /\ active' = ziel[w] /\ emergency' = FALSE
    /\ Goto(w, "boot")
    /\ UNCHANGED <<lock, cool, blocked, target, boot, run, rel, locals, rested, torn, warned>>

HasHome(w) == aktiv[w] # Unknown

\* fallback(): without a known slot to go back to it only records an emergency.
Fallback(w) ==
    /\ pc[w] = "back"
    /\ \/ /\ ~HasHome(w)
          /\ emergency' = TRUE /\ cool' = TRUE
          /\ Exit(w)
          /\ UNCHANGED <<active, blocked, target>>
       \/ /\ HasHome(w)
          /\ target' = aktiv[w]
          /\ Goto(w, "recheck")
          /\ UNCHANGED <<lock, state, locals>>
    /\ rested' = FALSE
    /\ UNCHANGED <<boot, run, rel, torn, warned>>

\* MUTANT: the fallback starts no cooldown.
Cooling_Not == cool

Cooling == TRUE

\* Is the old slot fit?  Otherwise both are sick: an emergency, nothing more.
Recheck(w) ==
    /\ pc[w] = "recheck"
    /\ active' = aktiv[w] /\ cool' = Cooling
    /\ blocked' = blocked \cup {zielRel[w]}
    /\ \/ /\ Ready(aktiv[w]) /\ Ready(target)
          /\ Goto(w, "boot")
          /\ UNCHANGED <<lock, emergency, locals>>
       \/ /\ ~(Ready(aktiv[w]) /\ Ready(target))
          /\ emergency' = TRUE
          /\ Exit(w)
    /\ UNCHANGED <<target, boot, run, rel, rested, torn, warned>>

\* persist_autostart(): the recorded slot starts at boot, the other does not.  A call that
\* fails is logged, and the switch goes on.
Persist(w) ==
    /\ pc[w] = "boot"
    /\ \E failing \in SUBSET {"enable", "disable"} :
          /\ failing = {} \/ "systemctl" \in Faults
          /\ boot' = (IF "enable" \in failing THEN {} ELSE {active})
                        \cup (IF "disable" \in failing THEN boot ELSE boot \cap {active})
          /\ warned' = failing
    /\ Goto(w, "standby")
    /\ UNCHANGED <<lock, state, target, run, rel, locals, rested, torn>>

\* stop_standby(); a slot that does not stop stays up.
StopStandby(w) ==
    LET s == IF active = ziel[w] THEN aktiv[w] ELSE ziel[w] IN
    /\ pc[w] = "standby"
    /\ \/ run' = [t \in Slots |-> IF t = s THEN "off" ELSE run[t]]
       \/ "systemctl" \in Faults /\ UNCHANGED run
    /\ Exit(w)
    /\ torn' = FALSE
    /\ UNCHANGED <<state, target, boot, rel, rested, warned>>
------------------------------------------------------------------------------
(* Around it: the slots' health, the operator, time.                       *)

Health == \E s \in Slots :
    /\ run' = [run EXCEPT ![s] = CASE run[s] = "up" -> "ready" [] run[s] = "ready" -> "up"
                                   [] OTHER -> "off"]
    /\ run[s] # "off"
    /\ UNCHANGED <<lock, state, target, boot, rel, pc, locals, rested, torn, warned>>

\* A release is deployed to the slot the proxy does not use, and started.
Deploy == \E s \in Slots \ {target}, r \in Maybe(Releases) :
    /\ lock = Free
    /\ rel' = [rel EXCEPT ![s] = r]
    /\ run' = [run EXCEPT ![s] = "up"]
    /\ UNCHANGED <<lock, state, target, boot, pc, locals, rested, torn, warned>>

Cooldown == cool /\ cool' = FALSE
            /\ rested' = TRUE
            /\ UNCHANGED <<lock, active, blocked, emergency, target, boot, run, rel, pc, locals, torn, warned>>

Forget == /\ rested' = (rested \/ \E w \in Switchers : pc[w] = "recheck")
          /\ pc' = [w \in Switchers |-> "idle"] /\ lock' = Free
          /\ ziel' = [w \in Switchers |-> Unknown] /\ aktiv' = ziel'
          /\ zielRel' = [w \in Switchers |-> Unknown]
          /\ cold' = [w \in Switchers |-> FALSE] /\ forced' = cold'

\* The script is killed (or a command of set -e fails).
Die == /\ "die" \in Faults /\ lock # Free
       /\ Forget /\ torn' = TRUE
       /\ UNCHANGED <<state, target, boot, run, rel, warned>>

Reboot == /\ "reboot" \in Faults
          /\ run' = [s \in Slots |-> IF s \in boot THEN "up" ELSE "off"]
          /\ Forget /\ torn' = (torn \/ lock # Free)
          /\ UNCHANGED <<state, target, boot, rel, warned>>

Step(w) == \/ Warm(w) \/ ProbeFails(w) \/ Probe(w) \/ Turn(w) \/ Observe(w) \/ Record(w)
           \/ Fallback(w) \/ Recheck(w) \/ Persist(w) \/ StopStandby(w)
Next == \/ \E w \in Switchers : Begin(w) \/ Step(w)
        \/ Health \/ Deploy \/ Cooldown \/ Die \/ Reboot
Spec == Init /\ [][Next]_vars
------------------------------------------------------------------------------
(* Properties *)

\* The boot slots are what persist_autostart() made them when it was called last.
BootFollows == /\ "enable" \notin warned => active \in boot
               /\ "disable" \notin warned => boot \subseteq {active}

\* While no switch runs, the recorded slot is the one the proxy serves, and the one that
\* starts at boot unless systemctl failed when it was last recorded, after successful
\* switches and fallbacks alike; what a killed switch leaves behind, the next one that
\* runs to its end puts right.
ServedAtRest ==
    (lock = Free /\ active # Unknown /\ ~torn) => target = active /\ BootFollows

\* A release on the block list, where a fallback to a recorded slot puts it, is not turned
\* to by a switch, forced or not, however releases move between the slots; only a
\* fallback may go back to it.
BlockedNotServed ==
    [][\A s \in Slots : (target' = s /\ target # s /\ rel[s] \in blocked \cap Releases)
          => \E w \in Switchers : pc[w] = "back" /\ aktiv[w] = s]_vars

\* After a recorded fallback the proxy is turned again only when a cooldown has
\* passed or somebody forced it ("Anti-Flapping: Nach einem Fallback verweigert switch.sh
\* weitere Wechsel").
NoFlapping ==
    [][\A w \in Switchers : (pc[w] = "turn" /\ pc'[w] = "observe") => rested \/ forced[w]]_vars

(* What makes them inductive.                                              *)

\* One switch at a time, and it holds the lock.
LockHeld == \A w \in Switchers : pc[w] # "idle" <=> lock = w

InOrder == active # Unknown => target = active /\ BootFollows

\* What holds at each place of a switch: of the proxy, the recorded slot and the
\* boot slot if no switch was killed before, and of the release it may turn to.
Place(w) ==
    /\ pc[w] \in {"warm", "probe", "turn"} =>
          /\ aktiv[w] = active /\ ziel[w] \in Slots
          /\ ~torn => InOrder
          /\ rel[ziel[w]] \notin blocked \cap Releases
          /\ rested \/ forced[w]
    /\ pc[w] \in {"observe", "record", "back"} =>
          /\ aktiv[w] = active /\ ziel[w] = target
          /\ ~torn /\ active # Unknown => BootFollows
    /\ pc[w] = "recheck" =>
          /\ aktiv[w] = active /\ active = target
          /\ ~torn => BootFollows
    /\ pc[w] \in {"boot", "standby"} => active = target
    /\ pc[w] = "standby" => BootFollows
Places == \A w \in Switchers : Place(w)

\* A fallback that forgot its rest is cooling down, or about to.
Cooled == cool \/ rested \/ \E w \in Switchers : pc[w] = "recheck"

IInv == TypeOK /\ LockHeld /\ Places /\ Cooled /\ ServedAtRest

(* Not true of the code, see the README.                                   *)

\* ServedAtRest whatever happens to the script and to systemctl (persist_autostart: "Damit ein Reboot
\* NICHT den falschen/keinen Slot hochbringt").
RebootServes == (lock = Free /\ active # Unknown) => target = active /\ boot = {active}

\* A refused switch leaves everything as it was ("ungesundes Ziel oder
\* blockiertes Release => keine Änderung").
RefusedUnchanged ==
    [][\A w \in Switchers : (pc[w] = "probe" /\ pc'[w] = "idle" /\ cold[w])
          => run'[ziel[w]] = "off"]_vars

\* Every fallback puts its release on the block list ("Jeder Fehlschlag löst den
\* automatischen Fallback aus: ... Release wandert in die Blockliste").
FailedBlocked ==
    [][\A w \in Switchers : (pc[w] \in {"back", "recheck"} /\ pc'[w] \in {"idle", "boot"})
          => zielRel[w] \in blocked']_vars
==============================================================================
