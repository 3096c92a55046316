\* A thread registers while the web interface adds a folder.
CONSTANTS
    p1 = p1  p2 = p2  p3 = p3  n1 = n1  n2 = n2
    Threads = {t1}
    Loop = Loop
    WebOps = {"add"}
    Paths = {p1, p2, p3}
    Base <- MCBase
    Models = {m1}
    Targets = {g1}
    Overlap = TRUE
    Faults = {}
SPECIFICATION Spec
PROPERTIES ImplementsProjectList
