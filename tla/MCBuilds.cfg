\* Server builds, the nightly run and removals, with crashes and a full disk.
CONSTANTS
    Projects = {p1}
    Builders = {b1}
    Repairers = {}
    Night = Night  Web = Web  None = None  Free = Free
    Gens = {1, 2, 3, 4, 5, 6}
    Timer = TRUE
    MaxParallel = 1
    Faults = {"crash", "disk"}
SPECIFICATION Spec
INVARIANTS HubAccepted AtRestAccepted
PROPERTIES OwnGeneration
