\* Switching off beside an activation.
CONSTANTS
    NoSecret = NoSecret  Wrong = Wrong
    Reqs = {r1, r2}
    Secrets = {a, b}
    Recovery = {c1, c2, c3}
    Batch = 1
SYMMETRY Symmetric
SPECIFICATION Spec
PROPERTIES OffOnlyWithCode
