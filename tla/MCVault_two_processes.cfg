\* Two processes, one thread each, the whole API: migration, crashes, keys.
CONSTANTS
    server = server  job = job  s1 = s1  s2 = s2  j1 = j1
    n1 = n1  v1 = v1  pw1 = pw1  pw2 = pw2  k0 = k0  k1 = k1  k2 = k2
    Missing = Missing  NoKey = NoKey  NoPw = NoPw  Free = Free
    Procs = {server, job}
    Threads = {s1, j1}
    Names = {n1}
    Values = {v1}
    Passwords = {pw1, pw2}
    ProcOf <- MCProcOf
    Keys <- MCKeys
    EnvKey = k0
    LegacyPassword <- MCLegacy
    Allowed <- Everything
    MayInit = {server}
SPECIFICATION FairSpec
INVARIANTS KeysOpenVault SnapshotsAreCurrent
PROPERTIES DataKeyIsForever OnlyHolderChangesPassword OnlyRestartLocksOut FileLockReleased ImplementsSecretStore
