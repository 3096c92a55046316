\* Attempts of one address at the same time.
CONSTANTS
    None = None
    Addrs = {a}
    Attempts = {p, q, r}
    Limit = 2
    Window = 3
    Interval = 2
    MaxKeys = 2
    MaxTime = 3
    Calls = {"login"}
SYMMETRY Symmetric
SPECIFICATION BrakeSpec
INVARIANTS FailuresBounded
