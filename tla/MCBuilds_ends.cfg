\* Builds end, beside repairs and removals.
CONSTANTS
    Projects = {p1}
    Builders = {b1}
    Repairers = {r1}
    Night = Night  Web = Web  None = None  Free = Free
    Gens = {1}
    Timer = FALSE
    MaxParallel = 1
    Faults = {"disk"}
SPECIFICATION FairSpec
PROPERTIES BuildEnds
