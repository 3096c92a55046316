\* The server from its first start on, with restarts, deployments, builds and a nightly run.
CONSTANTS
    k1 = k1  k2 = k2  s1 = s1  s2 = s2  d1 = d1  d2 = d2  p1 = p1  p2 = p2  b1 = b1  b2 = b2
    Keys = {k1, k2}
    Submitters = {s1, s2}
    MaxCommit = 2
    Scripts = {d1}
    Projects = {p1}
    Builders = {b1}
    Night = Night  None = None
    Ids <- SameSecond
    MaxFiles = 2
    Faults = {"kill", "disk", "offline"}
SPECIFICATION Spec
SYMMETRY Symmetry
INVARIANTS ConfiguredOpens ShownSecretsHold GoesBackElsewhere
PROPERTIES RunsAreFinal
