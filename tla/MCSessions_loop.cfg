\* Overlapping requests that do not await between load and save; all others alone.
CONSTANTS
    WebUI = WebUI  None = None  Free = Free
    Reqs = {r1, r2}
    Ids = {i1, i2, i3, i4}
    Overlap <- OnTheLoop
    MaxClients = 1
    MaxPw = 1
    MaxExpired = 1
SYMMETRY Symmetric
SPECIFICATION Spec
INVARIANTS RevokedStaysOut UsedStaysOut NothingLost OneRefreshPerSession
