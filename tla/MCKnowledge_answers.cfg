\* An answer made from the graph before is stored for the new one.
CONSTANTS
    Viewers = {}
    Askers = {r1}
    Writers = {b1}
    Unlocked = {}
    Nightly = Nightly  Web = Web  Bg = Bg  Free = Free  Unknown = Unknown
    Trees = {1}
    MaxTime = 2
SPECIFICATION KnowledgeSpec
INVARIANTS StoredAnswersCurrent
