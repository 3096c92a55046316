\* Two files with two contents each, every outcome of the model, killed runs.
CONSTANTS
    Files = {f1, f2}
    MaxContent = 2
    Crashes = TRUE
    Absent = Absent  Torn = Torn
SPECIFICATION ExtractionSpec
SYMMETRY Symmetric
INVARIANTS GraphOfTheCache CleanRunIsComplete
PROPERTIES KnowledgeKept
