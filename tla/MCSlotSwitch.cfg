\* Two invocations, health at will, killed scripts and reboots.
CONSTANTS
    Slots = {blue, green}
    Releases = {r1, r2}
    Switchers = {w1, w2}
    Unknown = Unknown  Free = Free
    Faults = {"die", "reboot", "systemctl"}
SPECIFICATION Spec
INVARIANTS ServedAtRest
PROPERTIES BlockedNotServed NoFlapping
