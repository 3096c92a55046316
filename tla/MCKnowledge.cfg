\* The graph view, a question, a build, the nightly index run and removals.
CONSTANTS
    Viewers = {r1}
    Askers = {r1}
    Writers = {b1}
    Unlocked = {}
    Nightly = Nightly  Web = Web  Bg = Bg  Free = Free  Unknown = Unknown
    Trees = {1}
    MaxTime = 2
SPECIFICATION KnowledgeSpec
INVARIANTS IndexFresh ResponseCurrent NoGraphNoIndex
