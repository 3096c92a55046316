\* Two MCP threads and every handler of the web interface.
CONSTANTS
    p1 = p1  p2 = p2  p3 = p3  n1 = n1  n2 = n2
    Threads = {t1, t2}
    Loop = Loop
    WebOps = {"add", "toggle", "remove", "mapping", "backup", "archive"}
    Paths = {p1, p2, p3}
    Base <- MCBase
    Models = {m1}
    Targets = {g1}
    Overlap = FALSE
    Faults = {"timeout", "disk", "crash"}
SPECIFICATION FairSpec
INVARIANTS UniqueNames
PROPERTIES ImplementsProjectList LocksReleased
