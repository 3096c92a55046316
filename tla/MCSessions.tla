----------------------------- MODULE MCSessions -----------------------------
(* Small instances of Sessions.                                            *)
EXTENDS Sessions, TLC

\* Handlers that load and save without an await in between.
OnTheLoop   == {"login", "token", "refresh", "revoke"}
\* The consent page beside the requests that end or renew a token.
WithConsent == {"login", "authorize", "token", "refresh", "revoke"}
WithThreads == LoopKinds \cup ThreadKinds

Symmetric == Permutations(Ids) \cup Permutations(Reqs)
==============================================================================
