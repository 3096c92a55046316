\* A repair publishes while an index is built.
CONSTANTS
    Viewers = {}
    Askers = {r1}
    Writers = {b1}
    Unlocked = {b1}
    Nightly = Nightly  Web = Web  Bg = Bg  Free = Free  Unknown = Unknown
    Trees = {1}
    MaxTime = 2
SPECIFICATION KnowledgeSpec
INVARIANTS IndexFresh
