------------------------------- MODULE MCVault -------------------------------
(* Small instances of Vault: one server with two threads, one job process.  *)
EXTENDS Vault

CONSTANTS server, job, s1, s2, j1, n1, v1, pw1, pw2, k0, k1, k2

MCProcOf == [t \in Threads |-> IF t = j1 THEN job ELSE server]
\* Only the server was started with OAUTH_PASSWORD in its environment.
MCLegacy == [p \in Procs |-> IF p = server THEN pw1 ELSE NoPw]
MCKeys   == {k0, k1, k2}

Logins  == [op : {"login"}, word : Passwords]
Secrets == SetReq \cup NameReq

\* The whole API in both processes ("ein zweiter Serverstart").
Everything == [p \in Procs |-> AutoReq \cup PassReq \cup Logins \cup Secrets]
\* Only the unlocking state changes.
Unlocking == [p \in Procs |-> AutoReq \cup PassReq \cup Logins]
==============================================================================
