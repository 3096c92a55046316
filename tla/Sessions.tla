------------------------------ MODULE Sessions ------------------------------
(***************************************************************************)
(* Logins, OAuth codes and tokens: src/oauth.py and src/api/auth.py.  One  *)
(* file, oauth_state.json, holds the registered clients, the open codes    *)
(* and the access and refresh tokens.  Every operation loads the whole     *)
(* file, changes its copy and writes the copy back; there is no lock.      *)
(* What keeps them apart is the event loop: between two awaits a handler   *)
(* runs alone (loop).  _authorize awaits between its load and its save,    *)
(* and logout and the password change run in worker threads.               *)
(*                                                                         *)
(* Data: ids stand for the random codes, tokens and client ids; what an    *)
(* entry says never changes and is kept beside the file, in entry.  Time   *)
(* is the set of items that have expired; it may grow at any moment.  The  *)
(* password is a version number.                                           *)
(***************************************************************************)
EXTENDS Naturals, Sequences, FiniteSets

CONSTANTS Reqs,          \* requests being served at the same time
          Ids,           \* random ids
          Overlap,       \* the kinds of request that are served beside one another
          MaxClients,    \* MAX_CLIENTS
          MaxPw,         \* bound: password changes
          MaxExpired,    \* bound: items that expire
          WebUI, None, Free

LoopKinds   == {"register", "token", "refresh", "login", "seen", "connect",
                "revoke", "revokeAll"}
ThreadKinds == {"logout", "change"}
Kinds       == LoopKinds \cup ThreadKinds \cup {"authorize"}
\* Kinds that pass the bearer gate before their handler starts.
Gated == {"connect", "revoke", "revokeAll", "logout", "change"}

ASSUME SessionsAssumption ==
    /\ Overlap \subseteq Kinds
    /\ MaxClients \in Nat /\ MaxPw \in Nat /\ MaxExpired \in Nat
    /\ WebUI \notin Ids /\ None \notin Ids /\ WebUI # None /\ Free \notin Reqs

VARIABLES db,        \* oauth_state.json
          expired,   \* items whose exp lies in the past
          pw,        \* the password of the vault
          loop,      \* the request between its load and its save on the event loop
          pc, req,   \* where each request is, and what it asks
          snap,      \* its copy of the file
          entry,     \* what was written for an id when it was made
          used,      \* history: codes exchanged, refresh tokens rotated
          revoked,   \* history: sessions logged out
          settled    \* history: the password of the last finished change

vars == <<db, expired, pw, loop, pc, req, snap, entry, used, revoked, settled>>
hist == <<used, revoked, settled>>

Item(k, i) == [kind |-> k, id |-> i]
Items  == [kind : {"code", "access", "refresh"}, id : Ids]
Entry  == [kind : {"unused", "client", "code", "token"}, sid : Ids \cup {None},
           client : Ids \cup {WebUI, None}, pw : 0..MaxPw]
File   == [clients : Seq(Ids), items : SUBSET Items]
Unused == [kind |-> "unused", sid |-> None, client |-> None, pw |-> 0]
Nobody == [kind |-> "none", me |-> None, arg |-> None, pw |-> 0]
NoFile == [clients |-> <<>>, items |-> {}]

Places   == {"idle", "await", "check", "verified", "thread", "loaded", "popped"}
Requests == [kind : Kinds \cup {"none"}, me : Ids \cup {None}, arg : Ids \cup {None}, pw : 0..MaxPw]

Types == /\ expired \subseteq Items
         /\ pw \in 0..MaxPw
         /\ loop \in Reqs \cup {Free}
         /\ pc \in [Reqs -> Places]
         /\ req \in [Reqs -> Requests]
         /\ entry \in [Ids -> Entry]
         /\ used \subseteq Items
         /\ revoked \subseteq Ids
         /\ settled \in 0..MaxPw
TypeOK == Types /\ db \in File /\ snap \in [Reqs -> File]

\* A new installation, or a restart with a client, its open code and a login.
Restarted(c, k, t) ==
    /\ db = [clients |-> <<c>>,
             items |-> {Item("code", k), Item("access", t), Item("refresh", t)}]
    /\ entry = [i \in Ids |->
                  IF i = c THEN [Unused EXCEPT !.kind = "client"]
                  ELSE IF i = k THEN [Unused EXCEPT !.kind = "code", !.client = c]
                  ELSE IF i = t THEN [Unused EXCEPT !.kind = "token", !.sid = t,
                                                    !.client = WebUI]
                  ELSE Unused]

Init == /\ \/ db = NoFile /\ entry = [i \in Ids |-> Unused]
           \/ \E c, k, t \in Ids : /\ c # k /\ c # t /\ k # t
                                   /\ Restarted(c, k, t)
        /\ expired = {} /\ pw = 0 /\ loop = Free
        /\ pc   = [r \in Reqs |-> "idle"]
        /\ req  = [r \in Reqs |-> Nobody]
        /\ snap = [r \in Reqs |-> NoFile]
        /\ used = {} /\ revoked = {} /\ settled = 0
------------------------------------------------------------------------------
Sid(i)   == entry[i.id].sid
IsTok(i) == i.kind # "code"
Fresh(i) == entry[i].kind = "unused"
Goto(r, l) == pc' = [pc EXCEPT ![r] = l]
Done(r)    == /\ Goto(r, "idle")
              /\ req'  = [req EXCEPT ![r] = Nobody]
              /\ snap' = [snap EXCEPT ![r] = NoFile]
Release(r) == loop' = IF loop = r THEN Free ELSE loop

\* _save(): expired entries are dropped, the copy replaces the file.
Pruned(f) == [f EXCEPT !.items = @ \ expired]
\* The handler saves f and answers.
SaveAndAnswer(r, f) == db' = Pruned(f) /\ Done(r) /\ Release(r)

\* _issue(): an access and a refresh token under the new id i.
Issued(f, i) == [f EXCEPT !.items = @ \cup {Item("access", i), Item("refresh", i)}]
NewToken(i, s, c, p) ==
    entry' = [entry EXCEPT ![i] = [kind |-> "token", sid |-> s, client |-> c, pw |-> p]]

\* MUTANT: revoking drops the access token only.
WithoutSession_Access(f, s) == [f EXCEPT !.items = {i \in @ : i.kind = "access" => Sid(i) # s}]

\* revoke_session() keeps every token that is not of session s.
WithoutSession(f, s) == [f EXCEPT !.items = {i \in @ : IsTok(i) => Sid(i) # s}]

\* revoke_all(except_sid): codes are not tokens, they stay.
OnlySession(f, s) == [f EXCEPT !.items = {i \in @ : IsTok(i) => Sid(i) = s}]

SessionsOf(f) == {Sid(i) : i \in {j \in f.items : IsTok(j)}}

\* _prune_clients(): beyond MAX_CLIENTS the oldest clients without tokens go.
PruneClients(f) ==
    LET cs        == f.clients
        orphan(c) == \A i \in f.items : IsTok(i) => entry[i.id].client # c
        older(n)  == {m \in 1..n : orphan(cs[m])}
        drop      == {cs[n] : n \in {m \in DOMAIN cs :
                         /\ orphan(cs[m])
                         /\ Cardinality(older(m)) + MaxClients <= Len(cs)}}
    IN  [f EXCEPT !.clients = SelectSeq(cs, LAMBDA c : c \notin drop)]

Valid(i)    == i \in db.items /\ i \notin expired
\* session_of(): the session of a token the file still holds.
MySid(f, r) == IF req[r].me # None /\ Item("access", req[r].me) \in f.items
               THEN entry[req[r].me].sid ELSE None
------------------------------------------------------------------------------
\* The bearer gate: a valid access token, or the static MCP_TOKEN (None).
Bearers == {None} \cup {i \in Ids : Valid(Item("access", i))}

\* What a caller can name: a code or token it was given, a session, a client.
Args(k) == CASE k = "token"     -> {i \in Ids : entry[i].kind = "code"}
             [] k = "refresh"   -> {i \in Ids : entry[i].kind = "token"}
             [] k = "authorize" -> {i \in Ids : entry[i].kind = "client"}
             [] k = "revoke"    -> SessionsOf(db)
             [] OTHER           -> {None}

\* A request outside Overlap comes when no other one is being served.
MayArrive(k) ==
    LET served == {req[r].kind : r \in {q \in Reqs : pc[q] # "idle"}} IN
    served = {} \/ served \cup {k} \subseteq Overlap

Start(r) ==
    /\ pc[r] = "idle" /\ loop = Free
    /\ \E k \in {j \in Kinds : MayArrive(j)} :
       \E a \in Args(k) :
       \E m \in IF k \in Gated THEN Bearers
                ELSE IF k = "seen" THEN Bearers \ {None} ELSE {None} :
          /\ req' = [req EXCEPT ![r] = [kind |-> k, me |-> m, arg |-> a, pw |-> 0]]
          /\ Goto(r, IF k = "login" THEN "check" ELSE "await")
    /\ UNCHANGED <<db, expired, pw, loop, snap, entry, hist>>

\* A password that fits (and the second factor); the check awaits a thread.
PasswordOk(r) ==
    /\ pc[r] = "check"
    /\ req' = [req EXCEPT ![r].pw = pw]
    /\ Goto(r, "verified")
    /\ UNCHANGED <<db, expired, pw, loop, snap, entry, hist>>

PasswordWrong(r) ==
    /\ pc[r] = "check"
    /\ Done(r)
    /\ UNCHANGED <<db, expired, pw, loop, entry, hist>>

\* The handler has something to do: its early returns, negated.
ToDo(r) ==
    CASE req[r].kind = "token"   -> Item("code", req[r].arg) \in db.items
      [] req[r].kind = "refresh" -> Valid(Item("refresh", req[r].arg))
      [] req[r].kind = "seen"    -> Valid(Item("access", req[r].me))
      [] req[r].kind = "revoke"  -> /\ req[r].arg # MySid(db, r)
                                    /\ req[r].arg \in SessionsOf(db)
      [] OTHER -> TRUE

Waiting(r) == /\ req[r].kind \in LoopKinds /\ loop = Free
              /\ \/ pc[r] = "await"
                 \/ pc[r] = "verified"

\* MUTANT: an await between _load() and _save() lets other handlers run.
Enter_Await(r) == UNCHANGED loop

Enter(r) == loop' = r

\* _load() on the event loop; nobody else runs there until the answer.
Load(r) ==
    /\ Waiting(r) /\ ToDo(r)
    /\ snap' = [snap EXCEPT ![r] = db]
    /\ Enter(r)
    /\ Goto(r, "loaded")
    /\ UNCHANGED <<db, expired, pw, req, entry, hist>>

Refuse(r) ==
    /\ Waiting(r) /\ ~ToDo(r)
    /\ Done(r)
    /\ UNCHANGED <<db, expired, pw, loop, entry, hist>>

\* revoke_session() of another device, or of the own one (logout).
SaveRevoke(r) ==
    LET s == IF req[r].kind = "revoke" THEN req[r].arg ELSE entry[req[r].me].sid IN
    /\ pc[r] = "loaded" /\ req[r].kind \in {"revoke", "logout"}
    /\ SaveAndAnswer(r, WithoutSession(snap[r], s))
    /\ revoked' = revoked \cup {s}
    /\ UNCHANGED <<expired, pw, entry, used, settled>>

\* revoke_all(): all other devices, or after a password change all of them.
SaveRevokeAll(r) ==
    LET s == IF req[r].kind = "revokeAll" THEN MySid(snap[r], r) ELSE None IN
    /\ pc[r] = "loaded" /\ req[r].kind \in {"revokeAll", "change"}
    /\ SaveAndAnswer(r, OnlySession(snap[r], s))
    /\ revoked' = revoked \cup (SessionsOf(snap[r]) \ {s})
    /\ settled' = IF req[r].kind = "change" THEN req[r].pw ELSE settled
    /\ UNCHANGED <<expired, pw, entry, used>>

SaveRegister(r) ==
    /\ pc[r] = "loaded" /\ req[r].kind = "register"
    /\ \E c \in Ids :
          /\ Fresh(c)
          /\ entry' = [entry EXCEPT ![c].kind = "client"]
          /\ SaveAndAnswer(r, PruneClients([snap[r] EXCEPT !.clients = Append(@, c)]))
    /\ UNCHANGED <<expired, pw, hist>>

\* validate_access_token(): last_seen is written, at most every five minutes.
SaveSeen(r) ==
    /\ pc[r] = "loaded" /\ req[r].kind = "seen"
    /\ SaveAndAnswer(r, snap[r])
    /\ UNCHANGED <<expired, pw, entry, hist>>

\* The web login; a login is its own new session.
SaveLogin(r) ==
    /\ pc[r] = "loaded" /\ req[r].kind = "login"
    /\ \E t \in Ids : /\ Fresh(t)
                      /\ NewToken(t, t, WebUI, req[r].pw)
                      /\ SaveAndAnswer(r, Issued(snap[r], t))
    /\ UNCHANGED <<expired, pw, hist>>

\* connect_token(): a device gets a client of its own and a long-lived token.
SaveConnect(r) ==
    /\ pc[r] = "loaded" /\ req[r].kind = "connect"
    /\ \E c, t \in Ids :
          /\ Fresh(c) /\ Fresh(t) /\ c # t
          /\ entry' = [entry EXCEPT ![c].kind = "client",
                          ![t] = [kind |-> "token", sid |-> t, client |-> c,
                                  pw |-> IF req[r].me = None THEN MaxPw
                                         ELSE entry[req[r].me].pw]]
          /\ SaveAndAnswer(r, Issued([snap[r] EXCEPT !.clients = Append(@, c)], t))
    /\ UNCHANGED <<expired, pw, hist>>

\* MUTANT: the code is popped in memory only, until the tokens are saved.
SavedPop_Later(f) == db

SavedPop(f) == Pruned(f)

\* _token(): the code is used up with this attempt, whatever follows.
Pop(r) ==
    LET f == [snap[r] EXCEPT !.items = @ \ {Item("code", req[r].arg)}] IN
    /\ pc[r] = "loaded" /\ req[r].kind = "token"
    /\ db' = SavedPop(f)
    /\ snap' = [snap EXCEPT ![r] = Pruned(f)]
    /\ used' = used \cup {Item("code", req[r].arg)}
    /\ Goto(r, "popped")
    /\ UNCHANGED <<expired, pw, loop, req, entry, revoked, settled>>

\* Expired, another client or redirect_uri, or PKCE failed.
RefuseCode(r) ==
    /\ pc[r] = "popped"
    /\ Done(r) /\ Release(r)
    /\ UNCHANGED <<db, expired, pw, entry, hist>>

SaveToken(r) ==
    /\ pc[r] = "popped" /\ Item("code", req[r].arg) \notin expired
    /\ \E t \in Ids : /\ Fresh(t)
                      /\ NewToken(t, t, entry[req[r].arg].client, entry[req[r].arg].pw)
                      /\ SaveAndAnswer(r, Issued(snap[r], t))
    /\ UNCHANGED <<expired, pw, hist>>

\* MUTANT: the old refresh token stays valid.
Rotated_KeepOld(f, old, t) == Issued(f, t)

Rotated(f, old, t) == Issued([f EXCEPT !.items = @ \ {Item("refresh", old)}], t)

SidAfter(old, t) == entry[old].sid

\* Refresh rotation: the new pair keeps the session, the old refresh token dies.
SaveRotate(r) ==
    LET old == req[r].arg IN
    /\ pc[r] = "loaded" /\ req[r].kind = "refresh"
    /\ \E t \in Ids : /\ Fresh(t)
                      /\ NewToken(t, SidAfter(old, t), entry[old].client, entry[old].pw)
                      /\ SaveAndAnswer(r, Rotated(snap[r], old, t))
    /\ used' = used \cup {Item("refresh", old)}
    /\ UNCHANGED <<expired, pw, revoked, settled>>

\* _save() raises: the request ends with an error, the file is the old one.
SaveFails(r) ==
    /\ pc[r] \in {"loaded", "popped"}
    /\ Done(r) /\ Release(r)
    /\ UNCHANGED <<db, expired, pw, entry, hist>>
------------------------------------------------------------------------------
\* _authorize() loads first, and then awaits the password check ...
LoadAuthorize(r) ==
    /\ pc[r] = "await" /\ req[r].kind = "authorize" /\ loop = Free
    /\ IF \E n \in DOMAIN db.clients : db.clients[n] = req[r].arg
          THEN /\ snap' = [snap EXCEPT ![r] = db]
               /\ Goto(r, "check")
               /\ UNCHANGED req
          ELSE Done(r)
    /\ UNCHANGED <<db, expired, pw, loop, entry, hist>>

\* ... and writes the copy it loaded before, with the new code.
SaveAuthorize(r) ==
    /\ pc[r] = "verified" /\ req[r].kind = "authorize" /\ loop = Free
    /\ \E k \in Ids :
          /\ Fresh(k)
          /\ entry' = [entry EXCEPT ![k] = [kind |-> "code", sid |-> None,
                                            client |-> req[r].arg, pw |-> req[r].pw]]
          /\ SaveAndAnswer(r, [snap[r] EXCEPT !.items = @ \cup {Item("code", k)}])
    /\ UNCHANGED <<expired, pw, hist>>

\* logout(): session_of() in one thread call, revoke_session() in the next.
SessionOf(r) ==
    /\ pc[r] = "await" /\ req[r].kind = "logout"
    /\ IF MySid(db, r) # None THEN Goto(r, "thread") /\ UNCHANGED <<req, snap>>
                              ELSE Done(r)
    /\ UNCHANGED <<db, expired, pw, loop, entry, hist>>

\* vault_password(): a refused change ends the request.
ChangePassword(r) ==
    /\ pc[r] = "await" /\ req[r].kind = "change"
    /\ \/ /\ pw < MaxPw
          /\ pw' = pw + 1
          /\ req' = [req EXCEPT ![r].pw = pw + 1]
          /\ Goto(r, "thread")
          /\ UNCHANGED snap
       \/ Done(r) /\ UNCHANGED pw
    /\ UNCHANGED <<db, expired, loop, entry, hist>>

\* The _load() of revoke_session() or revoke_all() in a worker thread.
ThreadLoad(r) ==
    /\ pc[r] = "thread"
    /\ IF req[r].kind = "change" \/ entry[req[r].me].sid \in SessionsOf(db)
          THEN /\ snap' = [snap EXCEPT ![r] = db]
               /\ Goto(r, "loaded")
               /\ UNCHANGED req
          ELSE Done(r)
    /\ UNCHANGED <<db, expired, pw, loop, entry, hist>>

\* Time passes.
Expire ==
    /\ Cardinality(expired) < MaxExpired
    /\ \E i \in Items :
          /\ entry[i.id].kind = IF IsTok(i) THEN "token" ELSE "code"
          /\ i \notin expired
          /\ expired' = expired \cup {i}
    /\ UNCHANGED <<db, pw, loop, pc, req, snap, entry, hist>>

\* The server stops and starts again: requests are gone, the file stays.
Restart ==
    /\ \E r \in Reqs : pc[r] # "idle"
    /\ loop' = Free
    /\ pc'   = [r \in Reqs |-> "idle"]
    /\ req'  = [r \in Reqs |-> Nobody]
    /\ snap' = [r \in Reqs |-> NoFile]
    /\ UNCHANGED <<db, expired, pw, entry, hist>>

Step(r) == \/ Start(r) \/ PasswordOk(r) \/ PasswordWrong(r)
           \/ Load(r) \/ Refuse(r) \/ SaveFails(r)
           \/ SaveRegister(r) \/ SaveSeen(r) \/ SaveLogin(r) \/ SaveConnect(r)
           \/ SaveRevoke(r) \/ SaveRevokeAll(r)
           \/ Pop(r) \/ RefuseCode(r) \/ SaveToken(r) \/ SaveRotate(r)
           \/ LoadAuthorize(r) \/ SaveAuthorize(r)
           \/ SessionOf(r) \/ ChangePassword(r) \/ ThreadLoad(r)

Next == (\E r \in Reqs : Step(r)) \/ Expire \/ Restart

Spec == Init /\ [][Next]_vars
------------------------------------------------------------------------------
(* Properties *)

\* What was logged out stays logged out: no later save of another handler
\* brings a token of a revoked session back (revoke_session: "Access- UND
\* Refresh-Token verfallen sofort").
RevokedStaysOut == \A i \in db.items : IsTok(i) => Sid(i) \notin revoked

\* A code works once and a rotated refresh token never again, whichever
\* handler writes the file afterwards ("Codes sind einmalig").
UsedStaysOut == used \cap db.items = {}

\* A code or token handed to a caller stays valid until it expires, is used or
\* its session is logged out: no other request loses it.
NothingLost ==
    \A i \in Items :
        entry[i.id].kind = (IF IsTok(i) THEN "token" ELSE "code") =>
            \/ i \in db.items \cup expired \cup used
            \/ IsTok(i) /\ Sid(i) \in revoked

\* A device has one refresh token at a time, and its session goes back to one
\* login: two refreshes never fork it ("altes Refresh-Token stirbt").
OneRefreshPerSession ==
    \A i, j \in {k \in db.items : k.kind = "refresh"} : Sid(i) = Sid(j) => i = j

(* What makes them inductive if only handlers of the event loop overlap.   *)

\* A file, whatever its clients are: they play no part here.
IsFile(f) == f = [clients |-> f.clients, items |-> f.items] /\ f.items \subseteq Items
Shapes == Types /\ IsFile(db) /\ snap = [r \in Reqs |-> snap[r]]

\* What awaits or leaves the loop between load and save is served alone.
ServedAlone ==
    \A r \in Reqs : pc[r] # "idle" /\ req[r].kind \notin LoopKinds
        => \A q \in Reqs \ {r} : pc[q] = "idle"

\* Whoever is about to save has the file as it is, and the loop.
AboutToSave(r) ==
    \/ pc[r] \in {"loaded", "popped"}
    \/ req[r].kind = "authorize" /\ pc[r] \in {"check", "verified"}
CopiesAreCurrent ==
    \A r \in Reqs : AboutToSave(r) =>
        snap[r] = db /\ (req[r].kind \in LoopKinds => loop = r)

\* What a request names is still there when it has loaded the file.
NamedIsThere ==
    \A r \in Reqs :
        /\ pc[r] = "loaded" =>
              /\ req[r].kind = "token"   => Item("code", req[r].arg) \in db.items
              /\ req[r].kind = "refresh" => Item("refresh", req[r].arg) \in db.items
              /\ req[r].kind = "revoke"  => req[r].arg \in SessionsOf(db)
              /\ req[r].kind = "logout"  => entry[req[r].me].sid \in SessionsOf(db)
        /\ pc[r] = "popped" => req[r].kind = "token" /\ req[r].arg \in Ids
        /\ pc[r] = "thread" => req[r].kind \in ThreadKinds

\* An id means one thing for good, and a session is named after its first token.
EntriesStand ==
    /\ \A i \in db.items : entry[i.id].kind = IF IsTok(i) THEN "token" ELSE "code"
    /\ \A i \in used : entry[i.id].kind # "unused"
    /\ \A s \in revoked : entry[s].kind = "token"
    /\ \A i \in Ids : entry[i].kind = "token" => entry[i].sid \in Ids /\ entry[entry[i].sid].kind = "token"

IInv == /\ Shapes /\ ServedAlone /\ CopiesAreCurrent /\ NamedIsThere /\ EntriesStand
        /\ RevokedStaysOut /\ UsedStaysOut /\ NothingLost /\ OneRefreshPerSession

(* Not true of the code, see the README.                                   *)

\* After a password change every login is due again: each access token rests
\* on a password at least as new as the last finished change
\* (revoke_alle_sitzungen: "Neu-Anmeldung wird überall fällig").
NewLoginDue == \A i \in db.items : i.kind = "access" => entry[i.id].pw >= settled
==============================================================================
