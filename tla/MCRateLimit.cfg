\* Overlapping logins and throttled calls, with sweeps, restarts and unblocking.
CONSTANTS
    Addrs = {a}
    Attempts = {p, q}
    None = None
    Limit = 2
    Window = 3
    Interval = 2
    MaxKeys = 1
    MaxTime = 6
    Calls = {"login", "throttle"}
SYMMETRY Symmetric
SPECIFICATION BrakeSpec
INVARIANTS NothingForgotten OvershootBounded ThrottleBound
