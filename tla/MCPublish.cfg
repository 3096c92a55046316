CONSTANTS
    p1 = p1  p2 = p2  b1 = b1
    Projects = {p1}
    MaxGen = 2
    Minutes = {1, 2}
    Keep = 1
    Builders = {b1}
    Night = Night  Manual = Manual  None = None
    Faults = {"offline", "disk", "kill", "rebase", "config"}
    Overlap = {}
SPECIFICATION Spec
INVARIANTS ReportedBackupsExist CopyOutlivesPush
PROPERTIES ImplementsSharedRemote
