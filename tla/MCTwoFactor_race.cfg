\* Two requests at a time, two secrets, two activations.
CONSTANTS
    NoSecret = NoSecret  Wrong = Wrong
    Reqs = {r1, r2}
    Secrets = {a, b}
    Recovery = {c1, c2, c3, c4}
    Batch = 2
SYMMETRY Symmetric
SPECIFICATION Spec
INVARIANTS RecoveryOnce ShownCodesWork
PROPERTIES OffTakesACode
