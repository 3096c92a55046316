\* A code issued before a password change.
CONSTANTS
    WebUI = WebUI  None = None  Free = Free
    Reqs = {r1}
    Ids = {i1, i2, i3, i4}
    Overlap = {}
    MaxClients = 1
    MaxPw = 1
    MaxExpired = 0
SYMMETRY Symmetric
SPECIFICATION Spec
INVARIANTS NewLoginDue
