\* The consent page beside the exchange of a code.
CONSTANTS
    WebUI = WebUI  None = None  Free = Free
    Reqs = {r1, r2}
    Ids = {i1, i2, i3, i4, i5}
    Overlap <- WithConsent
    MaxClients = 1
    MaxPw = 0
    MaxExpired = 0
SYMMETRY Symmetric
SPECIFICATION Spec
INVARIANTS UsedStaysOut
