\* A mistyped password change beside a login.
CONSTANTS
    server = server  job = job  s1 = s1  s2 = s2  j1 = j1
    n1 = n1  v1 = v1  pw1 = pw1  pw2 = pw2  k0 = k0  k1 = k1  k2 = k2
    Missing = Missing  NoKey = NoKey  NoPw = NoPw  Free = Free
    Procs = {server, job}
    Threads = {s1, s2}
    Names = {n1}
    Values = {v1}
    Passwords = {pw1, pw2}
    ProcOf <- MCProcOf
    Keys <- MCKeys
    EnvKey = k0
    LegacyPassword <- MCLegacy
    Allowed <- Unlocking
    MayInit = {server}
SPECIFICATION Spec
PROPERTIES StaysUnlocked
