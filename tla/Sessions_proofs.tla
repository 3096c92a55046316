--------------------------- MODULE Sessions_proofs ---------------------------
(* Sessions for any number of requests, ids, clients, password changes and     *)
(* expiries, when only handlers that do not leave the event loop between load  *)
(* and save overlap: without any lock, nothing is lost and nothing comes back. *)
EXTENDS Sessions, TLAPS

(* Items and files.                                                          *)

LEMMA ItemFacts ==
    /\ \A k, i : Item(k, i).kind = k /\ Item(k, i).id = i
    /\ \A i \in Items : i = Item(i.kind, i.id) /\ i.id \in Ids /\ i.kind \in {"code", "access", "refresh"}
    /\ \A i \in Ids : Item("code", i) \in Items /\ Item("access", i) \in Items /\ Item("refresh", i) \in Items
    /\ \A k, i : IsTok(Item(k, i)) <=> k # "code"
    /\ \A k, i : Sid(Item(k, i)) = entry[i].sid
BY DEF Item, Items, IsTok, Sid

LEMMA PrunedFile ==
    ASSUME NEW f, IsFile(f)
    PROVE  IsFile(Pruned(f)) /\ Pruned(f).items = f.items \ expired
BY DEF IsFile, Pruned

LEMMA IssuedFile ==
    ASSUME NEW f, IsFile(f), NEW i \in Ids
    PROVE  IsFile(Issued(f, i)) /\ Issued(f, i).items = f.items \cup {Item("access", i), Item("refresh", i)}
<1> DEFINE new == {Item("access", i), Item("refresh", i)}
<1>1. new \subseteq Items
  BY ItemFacts
<1>2. Issued(f, i) = [f EXCEPT !.items = @ \cup new]
  BY DEF Issued
<1> HIDE DEF new
<1>3. IsFile(Issued(f, i)) /\ Issued(f, i).items = f.items \cup new
  BY <1>1, <1>2 DEF IsFile
<1> QED BY <1>3 DEF new

LEMMA RotatedFile ==
    ASSUME NEW f, IsFile(f), NEW old, NEW i \in Ids
    PROVE  /\ IsFile(Rotated(f, old, i))
           /\ Rotated(f, old, i).items =
                (f.items \ {Item("refresh", old)}) \cup {Item("access", i), Item("refresh", i)}
<1> DEFINE g == [f EXCEPT !.items = @ \ {Item("refresh", old)}]
<1>1. IsFile(g) /\ g.items = f.items \ {Item("refresh", old)}
  BY DEF IsFile
<1>2. Rotated(f, old, i) = Issued(g, i)
  BY DEF Rotated
<1> HIDE DEF g
<1> QED BY <1>1, <1>2, IssuedFile

LEMMA WithoutSessionFile ==
    ASSUME NEW f, IsFile(f), NEW s
    PROVE  /\ IsFile(WithoutSession(f, s))
           /\ WithoutSession(f, s).items = {i \in f.items : IsTok(i) => Sid(i) # s}
BY DEF IsFile, WithoutSession

LEMMA OnlySessionFile ==
    ASSUME NEW f, IsFile(f), NEW s
    PROVE  /\ IsFile(OnlySession(f, s))
           /\ OnlySession(f, s).items = {i \in f.items : IsTok(i) => Sid(i) = s}
BY DEF IsFile, OnlySession

LEMMA ClientsFile ==
    ASSUME NEW f, IsFile(f), NEW c
    PROVE  LET g == [f EXCEPT !.clients = Append(@, c)]
           IN  IsFile(g) /\ g.items = f.items
BY SMTT(30) DEF IsFile

LEMMA PruneClientsFile ==
    ASSUME NEW f, IsFile(f)
    PROVE  IsFile(PruneClients(f)) /\ PruneClients(f).items = f.items
<1>1. PICK cs : PruneClients(f) = [f EXCEPT !.clients = cs]
  BY DEF PruneClients
<1> QED BY <1>1 DEF IsFile

(* What a save does to the tokens, whichever handler saves.                   *)

Data == EntriesStand /\ RevokedStaysOut /\ UsedStaysOut /\ NothingLost /\ OneRefreshPerSession

\* A save that only drops: what is gone is expired, used or of a session that was
\* logged out, and what stays is of none of them.
LEMMA DataDropped ==
    ASSUME Data, Shapes, entry' = entry, expired \subseteq expired',
           db'.items \subseteq db.items,
           used \subseteq used', used' \ used \subseteq {i \in Items : entry[i.id].kind # "unused"},
           revoked \subseteq revoked', revoked' \ revoked \subseteq {s \in Ids : entry[s].kind = "token"},
           used' \cap db'.items = {},
           \A i \in db'.items : IsTok(i) => Sid(i) \notin revoked',
           \A i \in db.items \ db'.items : i \in expired' \cup used' \/ (IsTok(i) /\ Sid(i) \in revoked')
    PROVE  Data'
<1> USE DEF Data
<1>1. \A i : Sid(i)' = Sid(i)
  BY DEF Sid
<1>2. EntriesStand'
  BY DEF EntriesStand
<1>3. RevokedStaysOut' /\ UsedStaysOut'
  BY <1>1 DEF RevokedStaysOut, UsedStaysOut
<1>4. NothingLost'
  BY <1>1 DEF NothingLost
<1>5. OneRefreshPerSession'
  BY <1>1 DEF OneRefreshPerSession
<1> QED BY <1>2, <1>3, <1>4, <1>5

\* A save that hands out a pair of tokens under a new id t: a new session, or the
\* session of a refresh token that goes.  Another new id may become a client.
LEMMA DataGranted ==
    ASSUME Data, Shapes, UNCHANGED <<expired, revoked>>,
           NEW t \in Ids, entry[t].kind = "unused", entry' \in [Ids -> Entry],
           entry'[t].kind = "token",
           \A i \in Ids \ {t} : entry'[i] = entry[i]
                             \/ (entry[i].kind = "unused" /\ entry'[i].kind = "client"),
           NEW old \in SUBSET {i \in db.items : i.kind = "refresh"},
           used' = used \cup old,
           db'.items = ((db.items \ old) \cup {Item("access", t), Item("refresh", t)}) \ expired,
           \/ old = {} /\ entry'[t].sid = t
           \/ \E i \in old : old = {i} /\ entry'[t].sid = Sid(i)
    PROVE  Data'
<1> USE DEF Data
<1> DEFINE s == entry'[t].sid
           new == {Item("access", t), Item("refresh", t)}
<1>1. \A i \in Ids : entry[i].kind # "unused" => entry'[i] = entry[i]
  OBVIOUS
<1>2. /\ db.items \subseteq Items /\ used \subseteq Items /\ revoked \subseteq Ids
      /\ \A i \in Items : i.id \in Ids
  BY ItemFacts DEF Shapes, IsFile, Types
<1>3. \A i \in db.items : entry'[i.id] = entry[i.id] /\ Sid(i)' = Sid(i) /\ i.id # t
  BY <1>1, <1>2 DEF EntriesStand, Sid
<1>4. /\ \A i \in new : i.id = t /\ IsTok(i) /\ Sid(i)' = s /\ i \in Items /\ i \notin db.items
      /\ \A i, j \in new : i.kind = "refresh" /\ j.kind = "refresh" => i = j
  BY <1>3, ItemFacts DEF Sid, IsTok, Item, Items
<1>5. s \in Ids /\ entry'[s].kind = "token" /\ s \notin revoked
  <2>1. CASE old = {} /\ s = t
    BY <2>1 DEF EntriesStand
  <2>2. CASE \E i \in old : old = {i} /\ s = Sid(i)
    <3>1. PICK i \in old : s = Sid(i)
      BY <2>2
    <3>2. i \in db.items /\ IsTok(i) /\ i.id \in Ids /\ entry[i.id].kind = "token" /\ s = entry[i.id].sid
      BY <1>2, <3>1 DEF IsTok, EntriesStand, Sid
    <3>3. s \in Ids /\ entry[s].kind = "token" /\ s \notin revoked
      BY <3>1, <3>2 DEF EntriesStand, RevokedStaysOut
    <3> QED BY <1>1, <3>3
  <2> QED BY <2>1, <2>2
<1>6. db'.items = ((db.items \ old) \cup new) \ expired
  OBVIOUS
<1> HIDE DEF new, s
<1>7. EntriesStand'
  <2>1. \A i \in db'.items : entry'[i.id].kind = IF IsTok(i) THEN "token" ELSE "code"
    BY <1>3, <1>4, <1>6 DEF EntriesStand
  <2>2. \A i \in used' : entry'[i.id].kind # "unused"
    BY <1>1, <1>2, <1>3 DEF EntriesStand
  <2>3. \A r \in revoked' : entry'[r].kind = "token"
    BY <1>1, <1>2 DEF EntriesStand
  <2>4. \A i \in Ids : entry'[i].kind = "token" => entry'[i].sid \in Ids /\ entry'[entry'[i].sid].kind = "token"
    <3> SUFFICES ASSUME NEW i \in Ids, entry'[i].kind = "token"
                 PROVE  entry'[i].sid \in Ids /\ entry'[entry'[i].sid].kind = "token"
      OBVIOUS
    <3>1. CASE i = t
      BY <1>5, <3>1 DEF s
    <3>2. CASE i # t
      BY <1>1, <3>2 DEF EntriesStand
    <3> QED BY <3>1, <3>2
  <2> QED BY <2>1, <2>2, <2>3, <2>4 DEF EntriesStand, IsTok
<1>8. RevokedStaysOut'
  BY <1>3, <1>4, <1>5, <1>6 DEF RevokedStaysOut
<1>9. UsedStaysOut'
  <2>1. \A i \in used : i.id # t
    BY DEF EntriesStand
  <2>2. used \cap new = {}
    BY <1>4, <2>1
  <2>3. old \cap new = {}
    BY <1>4
  <2> QED BY <1>6, <2>2, <2>3 DEF UsedStaysOut
<1>10. NothingLost'
  <2> SUFFICES ASSUME NEW i \in Items, entry'[i.id].kind = (IF IsTok(i) THEN "token" ELSE "code")
               PROVE  i \in db'.items \cup expired' \cup used' \/ (IsTok(i) /\ Sid(i)' \in revoked')
    BY DEF NothingLost, IsTok
  <2>1. CASE i.id = t
    <3>1. i \in new
      BY <2>1, ItemFacts DEF new, IsTok
    <3> QED BY <1>6, <3>1
  <2>2. CASE i.id # t
    <3>1. entry'[i.id] = entry[i.id] /\ Sid(i)' = Sid(i)
      BY <1>2, <2>2 DEF Sid
    <3>2. i \in db.items \cup expired \cup used \/ (IsTok(i) /\ Sid(i) \in revoked)
      BY <3>1 DEF NothingLost
    <3> QED BY <1>6, <3>1, <3>2
  <2> QED BY <2>1, <2>2
<1>11. OneRefreshPerSession'
  <2> SUFFICES ASSUME NEW i \in db'.items, NEW j \in db'.items, i.kind = "refresh", j.kind = "refresh",
                      Sid(i)' = Sid(j)'
               PROVE  i = j
    BY DEF OneRefreshPerSession
  <2>1. ASSUME NEW k \in db'.items, k.kind = "refresh", k \notin new PROVE Sid(k)' # s
    <3>1. k \in db.items \ old /\ Sid(k)' = Sid(k) /\ IsTok(k)
      BY <1>3, <1>6, <2>1 DEF IsTok
    <3>2. CASE old = {} /\ s = t
      <4>1. entry[Sid(k)].kind = "token"
        BY <1>2, <3>1 DEF EntriesStand, Sid
      <4> QED BY <3>1, <3>2, <4>1
    <3>3. CASE \E m \in old : old = {m} /\ s = Sid(m)
      BY <2>1, <3>1, <3>3 DEF OneRefreshPerSession
    <3> QED BY <3>2, <3>3 DEF s
  <2>2. CASE i \in new
    BY <1>4, <2>1, <2>2
  <2>3. CASE j \in new
    BY <1>4, <2>1, <2>3
  <2>4. CASE i \notin new /\ j \notin new
    BY <1>3, <1>6, <2>4 DEF OneRefreshPerSession
  <2> QED BY <2>2, <2>3, <2>4
<1> QED BY <1>7, <1>8, <1>9, <1>10, <1>11

\* A save that adds a code under a new id, or only a client.
LEMMA DataOpened ==
    ASSUME Data, Shapes, UNCHANGED <<expired, revoked, used>>,
           NEW k \in Ids, entry[k].kind = "unused", NEW e \in Entry, entry' = [entry EXCEPT ![k] = e],
           \/ e.kind = "client" /\ db'.items = db.items \ expired
           \/ e.kind = "code" /\ db'.items = (db.items \cup {Item("code", k)}) \ expired
    PROVE  Data'
<1> USE DEF Data
<1>1. /\ db.items \subseteq Items /\ used \subseteq Items /\ revoked \subseteq Ids
      /\ entry \in [Ids -> Entry]
      /\ \A i \in Items : i.id \in Ids
  BY ItemFacts DEF Shapes, IsFile, Types
<1>2. entry'[k] = e /\ \A i \in Ids \ {k} : entry'[i] = entry[i]
  BY <1>1
<1>3. \A i \in db.items : entry'[i.id] = entry[i.id] /\ Sid(i)' = Sid(i) /\ i.id # k
  BY <1>1, <1>2 DEF EntriesStand, Sid
<1>4. /\ \A i \in db'.items : i \in db.items \/ (i = Item("code", k) /\ e.kind = "code")
      /\ e.kind # "token" /\ ~IsTok(Item("code", k)) /\ Item("code", k).id = k /\ Item("code", k).kind = "code"
  BY ItemFacts
<1>5. EntriesStand'
  <2>1. \A i \in db'.items : entry'[i.id].kind = IF IsTok(i) THEN "token" ELSE "code"
    BY <1>2, <1>3, <1>4 DEF EntriesStand
  <2>2. /\ \A i \in used' : entry'[i.id].kind # "unused"
        /\ \A r \in revoked' : entry'[r].kind = "token"
    BY <1>1, <1>2 DEF EntriesStand
  <2>3. \A i \in Ids : entry'[i].kind = "token" => entry'[i].sid \in Ids /\ entry'[entry'[i].sid].kind = "token"
    BY <1>2, <1>4 DEF EntriesStand
  <2> QED BY <2>1, <2>2, <2>3 DEF EntriesStand, IsTok
<1>6. RevokedStaysOut'
  BY <1>3, <1>4 DEF RevokedStaysOut
<1>7. UsedStaysOut'
  <2>1. Item("code", k) \notin used
    BY <1>4 DEF EntriesStand
  <2> QED BY <1>4, <2>1 DEF UsedStaysOut
<1>8. NothingLost'
  <2> SUFFICES ASSUME NEW i \in Items, entry'[i.id].kind = (IF IsTok(i) THEN "token" ELSE "code")
               PROVE  i \in db'.items \cup expired' \cup used' \/ (IsTok(i) /\ Sid(i)' \in revoked')
    BY DEF NothingLost, IsTok
  <2>1. CASE i.id = k
    <3>1. e.kind = "code" /\ i = Item("code", k)
      BY <1>2, <1>4, <2>1, ItemFacts DEF IsTok
    <3> QED BY <1>4, <3>1
  <2>2. CASE i.id # k
    <3>1. entry'[i.id] = entry[i.id] /\ Sid(i)' = Sid(i)
      BY <1>1, <1>2, <2>2 DEF Sid
    <3>2. i \in db.items \cup expired \cup used \/ (IsTok(i) /\ Sid(i) \in revoked)
      BY <3>1 DEF NothingLost
    <3> QED BY <3>1, <3>2
  <2> QED BY <2>1, <2>2
<1>9. OneRefreshPerSession'
  BY <1>3, <1>4 DEF OneRefreshPerSession
<1> QED BY <1>5, <1>6, <1>7, <1>8, <1>9

(* Who saves has the file to itself.                                          *)

LEMMA OneWriter ==
    ASSUME IInv, NEW r \in Reqs, AboutToSave(r)
    PROVE  \A q \in Reqs \ {r} : ~AboutToSave(q)
<1> SUFFICES ASSUME NEW q \in Reqs \ {r}, AboutToSave(q) PROVE FALSE
  OBVIOUS
<1>1. pc[r] # "idle" /\ pc[q] # "idle"
  BY DEF AboutToSave
<1>2. req[r].kind \in LoopKinds /\ req[q].kind \in LoopKinds
  BY <1>1 DEF IInv, ServedAlone
<1> QED BY <1>2 DEF IInv, CopiesAreCurrent

LEMMA NobodyAsks == Nobody \in Requests
BY SessionsAssumption DEF Nobody, Requests

LEMMA DoneTypes ==
    ASSUME Shapes, NEW r \in Reqs, Done(r)
    PROVE  /\ pc' \in [Reqs -> Places] /\ req' \in [Reqs -> Requests] /\ snap' = [q \in Reqs |-> snap'[q]]
           /\ pc'[r] = "idle" /\ \A q \in Reqs \ {r} : pc'[q] = pc[q] /\ req'[q] = req[q] /\ snap'[q] = snap[q]
BY NobodyAsks DEF Shapes, Types, Done, Goto, Places

\* A request ends without a save.
LEMMA Leaves ==
    ASSUME IInv, NEW r \in Reqs, Done(r), loop' \in {loop, IF loop = r THEN Free ELSE loop},
           pw' \in 0..MaxPw, UNCHANGED <<db, expired, entry, hist>>
    PROVE  IInv'
<1> USE DEF IInv, hist
<1>1. Shapes'
  BY DoneTypes DEF Shapes, Types, IsFile
<1>2. /\ pc'[r] = "idle"
      /\ \A q \in Reqs \ {r} : pc'[q] = pc[q] /\ req'[q] = req[q] /\ snap'[q] = snap[q]
  BY DoneTypes
<1>3. ServedAlone'
  BY <1>2 DEF ServedAlone
<1>4. CopiesAreCurrent'
  <2> SUFFICES ASSUME NEW q \in Reqs, AboutToSave(q)'
               PROVE  snap'[q] = db' /\ (req'[q].kind \in LoopKinds => loop' = q)
    BY DEF CopiesAreCurrent
  <2>1. q # r /\ AboutToSave(q)
    BY <1>2 DEF AboutToSave
  <2> QED BY <1>2, <2>1 DEF CopiesAreCurrent
<1>5. NamedIsThere'
  BY <1>2 DEF NamedIsThere, SessionsOf, Sid, IsTok
<1>6. Data'
  BY DEF Data, EntriesStand, RevokedStaysOut, UsedStaysOut, NothingLost, OneRefreshPerSession, Sid, IsTok
<1> QED BY <1>1, <1>3, <1>4, <1>5, <1>6 DEF Data

\* A request saves and ends: only the file and its entries are in question.
LEMMA Answers ==
    ASSUME IInv, NEW r \in Reqs, AboutToSave(r), NEW f, IsFile(f), SaveAndAnswer(r, f),
           entry' \in [Ids -> Entry], used' \subseteq Items, revoked' \subseteq Ids,
           settled' \in 0..MaxPw, UNCHANGED <<expired, pw>>, Data'
    PROVE  IInv'
<1> USE DEF IInv, SaveAndAnswer
<1>1. /\ pc'[r] = "idle"
      /\ \A q \in Reqs \ {r} : pc'[q] = pc[q] /\ req'[q] = req[q] /\ snap'[q] = snap[q]
  BY DoneTypes
<1>2. IsFile(db')
  BY PrunedFile
<1>3. loop' \in Reqs \cup {Free}
  BY DEF Release, Shapes, Types
<1>4. Shapes'
  BY <1>2, <1>3, DoneTypes DEF Shapes, Types, IsFile
<1>5. ServedAlone'
  BY <1>1 DEF ServedAlone
<1>6. \A q \in Reqs : ~AboutToSave(q)'
  BY <1>1, OneWriter DEF AboutToSave
<1>7. CopiesAreCurrent'
  BY <1>6 DEF CopiesAreCurrent
<1>8. NamedIsThere'
  <2>1. \A q \in Reqs : pc'[q] \notin {"loaded", "popped"}
    BY <1>6 DEF AboutToSave
  <2>2. \A q \in Reqs : pc'[q] = "thread" => req'[q].kind \in ThreadKinds
    BY <1>1 DEF NamedIsThere
  <2> QED BY <2>1, <2>2 DEF NamedIsThere
<1> QED BY <1>4, <1>5, <1>7, <1>8 DEF Data

(* The steps that save.                                                       *)

LEMMA DataOf == IInv <=> Shapes /\ ServedAlone /\ CopiesAreCurrent /\ NamedIsThere /\ Data
BY DEF IInv, Data

LEMMA SessionFacts ==
    ASSUME Data, Shapes, NEW s \in SessionsOf(db)
    PROVE  s \in Ids /\ entry[s].kind = "token" /\ s \notin revoked
<1>1. PICK i \in db.items : IsTok(i) /\ s = entry[i.id].sid /\ i.id \in Ids
  BY ItemFacts DEF SessionsOf, Sid, Shapes, IsFile
<1> QED BY <1>1 DEF Data, EntriesStand, RevokedStaysOut, Sid

\* Logged out: the tokens of one session go, or of all but one.
LEMMA RevokeInv ==
    ASSUME IInv, NEW r \in Reqs, SaveRevoke(r) \/ SaveRevokeAll(r)
    PROVE  IInv'
<1> USE DataOf
<1>0. AboutToSave(r) /\ snap[r] = db /\ IsFile(db) /\ db.items \subseteq Items
  BY DEF SaveRevoke, SaveRevokeAll, AboutToSave, CopiesAreCurrent, Shapes, IsFile
<1>1. CASE SaveRevoke(r)
  <2> DEFINE s == IF req[r].kind = "revoke" THEN req[r].arg ELSE entry[req[r].me].sid
             f == WithoutSession(db, s)
  <2>1. /\ SaveAndAnswer(r, f) /\ revoked' = revoked \cup {s}
        /\ UNCHANGED <<expired, pw, entry, used, settled>>
    BY <1>0, <1>1 DEF SaveRevoke
  <2>2. s \in SessionsOf(db)
    BY <1>1 DEF SaveRevoke, NamedIsThere
  <2>3. s \in Ids /\ entry[s].kind = "token"
    BY <2>2, SessionFacts
  <2>4. IsFile(f) /\ f.items = {i \in db.items : IsTok(i) => Sid(i) # s}
    BY <1>0, WithoutSessionFile
  <2> HIDE DEF s, f
  <2>5. db'.items = f.items \ expired
    BY <2>1, <2>4, PrunedFile DEF SaveAndAnswer
  <2>6. Data'
    <3>1. /\ db'.items \subseteq db.items /\ used' \cap db'.items = {}
          /\ \A i \in db'.items : IsTok(i) => Sid(i) \notin revoked'
          /\ \A i \in db.items \ db'.items : i \in expired' \cup used' \/ (IsTok(i) /\ Sid(i) \in revoked')
      BY <2>1, <2>4, <2>5 DEF Data, UsedStaysOut, RevokedStaysOut
    <3> QED BY <2>1, <2>3, <3>1, DataDropped
  <2> QED BY <1>0, <2>1, <2>3, <2>4, <2>6, Answers DEF Shapes, Types
<1>2. CASE SaveRevokeAll(r)
  <2> DEFINE s == IF req[r].kind = "revokeAll" THEN MySid(db, r) ELSE None
             f == OnlySession(db, s)
  <2>1. /\ SaveAndAnswer(r, f) /\ revoked' = revoked \cup (SessionsOf(db) \ {s})
        /\ settled' = (IF req[r].kind = "change" THEN req[r].pw ELSE settled)
        /\ UNCHANGED <<expired, pw, entry, used>>
    BY <1>0, <1>2 DEF SaveRevokeAll
  <2>2. SessionsOf(db) \subseteq {t \in Ids : entry[t].kind = "token"}
    BY SessionFacts
  <2>3. settled' \in 0..MaxPw
    BY <2>1 DEF Shapes, Types, Requests
  <2>4. IsFile(f) /\ f.items = {i \in db.items : IsTok(i) => Sid(i) = s}
    BY <1>0, OnlySessionFile
  <2> HIDE DEF s, f
  <2>5. db'.items = f.items \ expired
    BY <2>1, <2>4, PrunedFile DEF SaveAndAnswer
  <2>6. \A i \in db.items : IsTok(i) => Sid(i) \in SessionsOf(db)
    BY DEF SessionsOf
  <2>7. Data'
    <3>1. /\ db'.items \subseteq db.items /\ used' \cap db'.items = {}
          /\ \A i \in db'.items : IsTok(i) => Sid(i) \notin revoked'
      BY <2>1, <2>4, <2>5 DEF Data, UsedStaysOut, RevokedStaysOut
    <3>2. \A i \in db.items \ db'.items : i \in expired' \cup used' \/ (IsTok(i) /\ Sid(i) \in revoked')
      BY <2>1, <2>4, <2>5, <2>6
    <3> QED BY <2>1, <2>2, <3>1, <3>2, DataDropped
  <2>8. revoked' \subseteq Ids
    BY <2>1, <2>2 DEF Shapes, Types
  <2> QED BY <1>0, <2>1, <2>3, <2>4, <2>7, <2>8, Answers DEF Shapes, Types
<1> QED BY <1>1, <1>2

\* New clients, and the time a token was last seen.
LEMMA RegisterInv ==
    ASSUME IInv, NEW r \in Reqs, SaveRegister(r) \/ SaveSeen(r)
    PROVE  IInv'
<1> USE DataOf
<1>0. AboutToSave(r) /\ snap[r] = db /\ IsFile(db)
  BY DEF SaveRegister, SaveSeen, AboutToSave, CopiesAreCurrent, Shapes
<1>1. CASE SaveRegister(r)
  <2>1. PICK c \in Ids : /\ Fresh(c) /\ entry' = [entry EXCEPT ![c].kind = "client"]
                         /\ SaveAndAnswer(r, PruneClients([db EXCEPT !.clients = Append(@, c)]))
    BY <1>0, <1>1 DEF SaveRegister
  <2> DEFINE g == [db EXCEPT !.clients = Append(@, c)]
             e == [entry[c] EXCEPT !.kind = "client"]
  <2>2. IsFile(g) /\ g.items = db.items
    BY <1>0, ClientsFile
  <2> HIDE DEF g
  <2>3. IsFile(PruneClients(g)) /\ PruneClients(g).items = db.items
    BY <2>2, PruneClientsFile
  <2>4. db'.items = db.items \ expired
    BY <2>1, <2>3, PrunedFile DEF SaveAndAnswer, g
  <2>5. e \in Entry /\ e.kind = "client" /\ entry' = [entry EXCEPT ![c] = e] /\ entry' \in [Ids -> Entry]
    BY <2>1 DEF Shapes, Types, Entry
  <2> HIDE DEF e
  <2>6. UNCHANGED <<expired, pw, used, revoked, settled>>
    BY <1>1 DEF SaveRegister, hist
  <2>7. Data'
    BY <2>1, <2>4, <2>5, <2>6, DataOpened DEF Fresh
  <2> QED BY <1>0, <2>1, <2>3, <2>5, <2>6, <2>7, Answers DEF Shapes, Types, g
<1>2. CASE SaveSeen(r)
  <2>1. SaveAndAnswer(r, db) /\ UNCHANGED <<expired, pw, entry, used, revoked, settled>>
    BY <1>0, <1>2 DEF SaveSeen, hist
  <2>2. db'.items = db.items \ expired
    BY <1>0, <2>1, PrunedFile DEF SaveAndAnswer
  <2>3. Data'
    <3>1. /\ db'.items \subseteq db.items /\ used' \cap db'.items = {}
          /\ \A i \in db'.items : IsTok(i) => Sid(i) \notin revoked'
          /\ \A i \in db.items \ db'.items : i \in expired'
      BY <2>1, <2>2 DEF Data, UsedStaysOut, RevokedStaysOut
    <3> QED BY <2>1, <3>1, DataDropped
  <2> QED BY <1>0, <2>1, <2>3, Answers DEF Shapes, Types
<1> QED BY <1>1, <1>2

\* The entry of a new token.
LEMMA NewEntry ==
    ASSUME Shapes, NEW t \in Ids, NEW s \in Ids, NEW c \in Ids \cup {WebUI, None}, NEW p \in 0..MaxPw,
           NewToken(t, s, c, p)
    PROVE  /\ entry' \in [Ids -> Entry] /\ entry'[t].kind = "token" /\ entry'[t].sid = s
           /\ \A i \in Ids \ {t} : entry'[i] = entry[i]
BY DEF Shapes, Types, NewToken, Entry

\* A login, or an exchanged code: a new session under its own id.
LEMMA LoginInv ==
    ASSUME IInv, NEW r \in Reqs, SaveLogin(r) \/ SaveToken(r)
    PROVE  IInv'
<1> USE DataOf
<1>0. AboutToSave(r) /\ snap[r] = db /\ IsFile(db) /\ UNCHANGED <<expired, pw, used, revoked, settled>>
  BY DEF SaveLogin, SaveToken, AboutToSave, CopiesAreCurrent, Shapes, hist
<1>1. PICK t \in Ids, c \in Ids \cup {WebUI, None}, p \in 0..MaxPw :
         Fresh(t) /\ NewToken(t, t, c, p) /\ SaveAndAnswer(r, Issued(db, t))
  <2>1. CASE SaveLogin(r)
    <3>1. req[r].pw \in 0..MaxPw
      BY DEF Shapes, Types, Requests
    <3> QED BY <1>0, <2>1, <3>1 DEF SaveLogin
  <2>2. CASE SaveToken(r)
    <3>1. entry[req[r].arg] \in Entry
      BY <2>2 DEF SaveToken, NamedIsThere, Shapes, Types
    <3>2. entry[req[r].arg].client \in Ids \cup {WebUI, None} /\ entry[req[r].arg].pw \in 0..MaxPw
      BY <3>1 DEF Entry
    <3> QED BY <1>0, <2>2, <3>2 DEF SaveToken
  <2> QED BY <2>1, <2>2
<1>2. /\ entry' \in [Ids -> Entry] /\ entry'[t].kind = "token" /\ entry'[t].sid = t
      /\ \A i \in Ids \ {t} : entry'[i] = entry[i]
  BY <1>1, NewEntry
<1>3. IsFile(Issued(db, t)) /\ Issued(db, t).items = db.items \cup {Item("access", t), Item("refresh", t)}
  BY <1>0, IssuedFile
<1>4. db'.items = ((db.items \ {}) \cup {Item("access", t), Item("refresh", t)}) \ expired
  BY <1>1, <1>3, PrunedFile DEF SaveAndAnswer
<1>5. {} \in SUBSET {i \in db.items : i.kind = "refresh"} /\ used' = used \cup {}
  BY <1>0
<1>6. Data'
  BY <1>0, <1>1, <1>2, <1>4, <1>5, DataGranted DEF Fresh
<1> QED BY <1>0, <1>1, <1>2, <1>3, <1>6, Answers DEF Shapes, Types

\* A device gets a client and a token at once.
LEMMA ConnectInv ==
    ASSUME IInv, NEW r \in Reqs, SaveConnect(r)
    PROVE  IInv'
<1> USE DataOf
<1>0. AboutToSave(r) /\ snap[r] = db /\ IsFile(db) /\ UNCHANGED <<expired, pw, used, revoked, settled>>
  BY DEF SaveConnect, AboutToSave, CopiesAreCurrent, Shapes, hist
<1> DEFINE p == IF req[r].me = None THEN MaxPw ELSE entry[req[r].me].pw
<1>1. PICK c, t \in Ids :
          /\ Fresh(c) /\ Fresh(t) /\ c # t
          /\ entry' = [entry EXCEPT ![c].kind = "client",
                          ![t] = [kind |-> "token", sid |-> t, client |-> c, pw |-> p]]
          /\ SaveAndAnswer(r, Issued([db EXCEPT !.clients = Append(@, c)], t))
  BY <1>0 DEF SaveConnect
<1>2. p \in 0..MaxPw
  BY SessionsAssumption DEF Shapes, Types, Requests, Entry
<1> HIDE DEF p
<1> DEFINE e == [entry[c] EXCEPT !.kind = "client"]
           n == [kind |-> "token", sid |-> t, client |-> c, pw |-> p]
           g == [db EXCEPT !.clients = Append(@, c)]
<1>3. e \in Entry /\ e.kind = "client" /\ n \in Entry /\ n.kind = "token" /\ n.sid = t
  BY <1>2 DEF Shapes, Types, Entry
<1>4. entry' = [[entry EXCEPT ![c] = e] EXCEPT ![t] = n]
  BY <1>1 DEF Shapes, Types
<1> HIDE DEF e, n
<1>5. /\ entry' \in [Ids -> Entry] /\ entry'[t].kind = "token" /\ entry'[t].sid = t
      /\ \A i \in Ids \ {t} : entry'[i] = entry[i]
                           \/ (entry[i].kind = "unused" /\ entry'[i].kind = "client")
  BY <1>1, <1>3, <1>4 DEF Shapes, Types, Fresh
<1>6. IsFile(g) /\ g.items = db.items
  BY <1>0, ClientsFile
<1> HIDE DEF g
<1>7. IsFile(Issued(g, t)) /\ Issued(g, t).items = db.items \cup {Item("access", t), Item("refresh", t)}
  BY <1>6, IssuedFile
<1>8. SaveAndAnswer(r, Issued(g, t))
  BY <1>1 DEF g
<1>9. db'.items = ((db.items \ {}) \cup {Item("access", t), Item("refresh", t)}) \ expired
  BY <1>7, <1>8, PrunedFile DEF SaveAndAnswer
<1>10. {} \in SUBSET {i \in db.items : i.kind = "refresh"} /\ used' = used \cup {}
  BY <1>0
<1>11. Data'
  BY <1>0, <1>1, <1>5, <1>9, <1>10, DataGranted DEF Fresh
<1> QED BY <1>0, <1>5, <1>7, <1>8, <1>11, Answers DEF Shapes, Types

\* A new pair of tokens for an old one.
LEMMA RotateInv ==
    ASSUME IInv, NEW r \in Reqs, SaveRotate(r)
    PROVE  IInv'
<1> USE DataOf
<1>0. AboutToSave(r) /\ snap[r] = db /\ IsFile(db) /\ UNCHANGED <<expired, pw, revoked, settled>>
  BY DEF SaveRotate, AboutToSave, CopiesAreCurrent, Shapes
<1> DEFINE i == Item("refresh", req[r].arg)
           s == entry[req[r].arg].sid
<1>1. i \in db.items /\ i \in Items /\ i.kind = "refresh" /\ i.id = req[r].arg /\ IsTok(i) /\ Sid(i) = s
  BY ItemFacts DEF SaveRotate, NamedIsThere, Shapes, IsFile
<1>2. i.id \in Ids /\ entry[i.id] \in Entry /\ s \in Ids
  BY <1>1, ItemFacts DEF Shapes, Types, Data, EntriesStand
<1>3. entry[i.id].client \in Ids \cup {WebUI, None} /\ entry[i.id].pw \in 0..MaxPw
  BY <1>2 DEF Entry
<1>4. PICK t \in Ids : /\ Fresh(t)
                       /\ NewToken(t, s, entry[i.id].client, entry[i.id].pw)
                       /\ SaveAndAnswer(r, Rotated(db, i.id, t))
  BY <1>0, <1>1 DEF SaveRotate, SidAfter
<1>5. used' = used \cup {i}
  BY DEF SaveRotate
<1> HIDE DEF s
<1>6. /\ entry' \in [Ids -> Entry] /\ entry'[t].kind = "token" /\ entry'[t].sid = s
      /\ \A j \in Ids \ {t} : entry'[j] = entry[j]
  BY <1>2, <1>3, <1>4, NewEntry
<1>7. /\ IsFile(Rotated(db, i.id, t))
      /\ Rotated(db, i.id, t).items = (db.items \ {i}) \cup {Item("access", t), Item("refresh", t)}
  BY <1>0, <1>1, RotatedFile
<1> HIDE DEF i
<1>8. db'.items = ((db.items \ {i}) \cup {Item("access", t), Item("refresh", t)}) \ expired
  BY <1>4, <1>7, PrunedFile DEF SaveAndAnswer
<1>9. {i} \in SUBSET {j \in db.items : j.kind = "refresh"}
  BY <1>1
<1>10. Data'
  BY <1>0, <1>1, <1>4, <1>5, <1>6, <1>8, <1>9, DataGranted DEF Fresh
<1>11. used' \subseteq Items
  BY <1>1, <1>5 DEF Shapes, Types
<1> QED BY <1>0, <1>4, <1>6, <1>7, <1>10, <1>11, Answers DEF Shapes, Types

\* A new code; nobody else was served since the file was loaded.
LEMMA AuthorizeInv ==
    ASSUME IInv, NEW r \in Reqs, SaveAuthorize(r)
    PROVE  IInv'
<1> USE DataOf
<1>0. AboutToSave(r) /\ snap[r] = db /\ IsFile(db) /\ UNCHANGED <<expired, pw, used, revoked, settled>>
  BY DEF SaveAuthorize, AboutToSave, CopiesAreCurrent, Shapes, hist
<1>1. PICK k \in Ids :
          /\ Fresh(k)
          /\ entry' = [entry EXCEPT ![k] = [kind |-> "code", sid |-> None,
                                            client |-> req[r].arg, pw |-> req[r].pw]]
          /\ SaveAndAnswer(r, [db EXCEPT !.items = @ \cup {Item("code", k)}])
  BY <1>0 DEF SaveAuthorize
<1> DEFINE e == [kind |-> "code", sid |-> None, client |-> req[r].arg, pw |-> req[r].pw]
           f == [db EXCEPT !.items = @ \cup {Item("code", k)}]
<1>2. e \in Entry /\ e.kind = "code"
  BY DEF Entry, Shapes, Types, Requests
<1>3. IsFile(f) /\ f.items = db.items \cup {Item("code", k)}
  BY <1>0, ItemFacts DEF IsFile
<1> HIDE DEF e, f
<1>4. SaveAndAnswer(r, f) /\ entry' = [entry EXCEPT ![k] = e]
  BY <1>1 DEF e, f
<1>5. db'.items = (db.items \cup {Item("code", k)}) \ expired
  BY <1>3, <1>4, PrunedFile DEF SaveAndAnswer
<1>6. entry' \in [Ids -> Entry]
  BY <1>2, <1>4 DEF Shapes, Types
<1>7. Data'
  BY <1>0, <1>1, <1>2, <1>4, <1>5, DataOpened DEF Fresh
<1> QED BY <1>0, <1>3, <1>4, <1>6, <1>7, Answers DEF Shapes, Types

\* The code is gone from the file before anything else is asked of it.
LEMMA PopInv ==
    ASSUME IInv, NEW r \in Reqs, Pop(r)
    PROVE  IInv'
<1> USE DataOf
<1> DEFINE i == Item("code", req[r].arg)
           f == [db EXCEPT !.items = @ \ {i}]
<1>0. AboutToSave(r) /\ snap[r] = db /\ IsFile(db) /\ req[r].kind = "token" /\ loop = r /\ pc[r] = "loaded"
  BY DEF Pop, AboutToSave, CopiesAreCurrent, Shapes, LoopKinds
<1>1. /\ db' = Pruned(f) /\ snap' = [snap EXCEPT ![r] = Pruned(f)] /\ used' = used \cup {i}
      /\ pc' = [pc EXCEPT ![r] = "popped"]
      /\ UNCHANGED <<expired, pw, loop, req, entry, revoked, settled>>
  BY <1>0 DEF Pop, SavedPop, Goto
<1>2. i \in db.items /\ i \in Items /\ i.id = req[r].arg /\ req[r].arg \in Ids /\ entry[req[r].arg].kind = "code"
  BY <1>0, ItemFacts DEF NamedIsThere, Shapes, IsFile, Data, EntriesStand
<1>3. IsFile(f) /\ f.items = db.items \ {i}
  BY <1>0 DEF IsFile
<1> HIDE DEF i, f
<1>4. IsFile(db') /\ db'.items = (db.items \ {i}) \ expired
  BY <1>1, <1>3, PrunedFile
<1>5. Data'
  <2>1. /\ db'.items \subseteq db.items /\ used' \cap db'.items = {}
        /\ \A j \in db'.items : IsTok(j) => Sid(j) \notin revoked'
        /\ \A j \in db.items \ db'.items : j \in expired' \cup used'
    BY <1>1, <1>4 DEF Data, UsedStaysOut, RevokedStaysOut
  <2>2. used' \ used \subseteq {j \in Items : entry[j.id].kind # "unused"}
    BY <1>1, <1>2
  <2> QED BY <1>1, <2>1, <2>2, DataDropped
<1>6. Shapes'
  BY <1>1, <1>2, <1>4 DEF Shapes, Types, Places, IsFile
<1>7. /\ pc'[r] = "popped" /\ snap'[r] = db'
      /\ \A q \in Reqs \ {r} : pc'[q] = pc[q] /\ req'[q] = req[q] /\ snap'[q] = snap[q] /\ ~AboutToSave(q)
  BY <1>0, <1>1, OneWriter DEF Shapes, Types
<1>8. ServedAlone'
  BY <1>0, <1>1, <1>7 DEF ServedAlone
<1>9. CopiesAreCurrent'
  BY <1>0, <1>1, <1>7 DEF CopiesAreCurrent, AboutToSave
<1>10. NamedIsThere'
  <2>1. \A q \in Reqs \ {r} : pc'[q] \notin {"loaded", "popped"}
    BY <1>7 DEF AboutToSave
  <2>2. \A q \in Reqs : pc'[q] = "thread" => req'[q].kind \in ThreadKinds
    BY <1>7 DEF NamedIsThere
  <2>3. req'[r].kind = "token" /\ req'[r].arg \in Ids
    BY <1>0, <1>1, <1>2
  <2> QED BY <1>7, <2>1, <2>2, <2>3 DEF NamedIsThere
<1> QED BY <1>5, <1>6, <1>8, <1>9, <1>10 DEF IInv, Data

(* The steps that do not save.                                                *)

\* The file and what is known of its tokens stay.
LEMMA DataStays ==
    ASSUME Data, UNCHANGED <<db, entry, used, revoked>>, expired \subseteq expired'
    PROVE  Data' /\ SessionsOf(db)' = SessionsOf(db)
BY DEF Data, EntriesStand, RevokedStaysOut, UsedStaysOut, NothingLost, OneRefreshPerSession,
       SessionsOf, Sid, IsTok

LEMMA ServedTypes ==
    ASSUME IInv, NEW r \in Reqs, NEW l \in Places, NEW q \in Requests, NEW f,
           pc' = [pc EXCEPT ![r] = l], req' = [req EXCEPT ![r] = q], snap' = [snap EXCEPT ![r] = f],
           loop' \in Reqs \cup {Free}, pw' \in 0..MaxPw, UNCHANGED <<db, expired, entry, hist>>
    PROVE  /\ Shapes' /\ Data' /\ SessionsOf(db)' = SessionsOf(db)
           /\ pc'[r] = l /\ req'[r] = q /\ snap'[r] = f
           /\ \A v \in Reqs \ {r} : pc'[v] = pc[v] /\ req'[v] = req[v] /\ snap'[v] = snap[v]
<1>1. Data' /\ SessionsOf(db)' = SessionsOf(db)
  BY DataStays DEF IInv, Data, hist
<1>2. Shapes'
  BY DEF IInv, Shapes, Types, IsFile, hist
<1> QED BY <1>1, <1>2 DEF IInv, Shapes, Types

\* A request goes on to another place without being about to save.
LEMMA GoesOn ==
    ASSUME IInv, NEW r \in Reqs, NEW l \in Places, NEW q \in Requests,
           pc' = [pc EXCEPT ![r] = l], req' = [req EXCEPT ![r] = q], snap' = snap, loop' = loop,
           pw' \in 0..MaxPw, UNCHANGED <<db, expired, entry, hist>>,
           l \notin {"loaded", "popped"}, l = "thread" => q.kind \in ThreadKinds,
           q.kind = "authorize" => AboutToSave(r) \/ l \notin {"check", "verified"},
           \/ q.kind \in LoopKinds
           \/ \A v \in Reqs \ {r} : pc[v] = "idle",
           \A v \in Reqs \ {r} : pc[v] # "idle" => req[v].kind \in LoopKinds
    PROVE  IInv'
<1> USE DataOf
<1>1. /\ Shapes' /\ Data' /\ SessionsOf(db)' = SessionsOf(db)
      /\ pc'[r] = l /\ req'[r] = q /\ snap'[r] = snap[r]
      /\ \A v \in Reqs \ {r} : pc'[v] = pc[v] /\ req'[v] = req[v] /\ snap'[v] = snap[v]
  <2>1. snap' = [snap EXCEPT ![r] = snap[r]]
    BY DEF Shapes
  <2>2. loop' \in Reqs \cup {Free}
    BY DEF Shapes, Types
  <2> QED BY <2>1, <2>2, ServedTypes
<1>2. ServedAlone'
  BY <1>1 DEF ServedAlone
<1>3. CopiesAreCurrent'
  <2> SUFFICES ASSUME NEW v \in Reqs, AboutToSave(v)'
               PROVE  snap'[v] = db' /\ (req'[v].kind \in LoopKinds => loop' = v)
    BY DEF CopiesAreCurrent
  <2>1. CASE v = r
    <3>1. q.kind = "authorize" /\ AboutToSave(r)
      BY <1>1, <2>1 DEF AboutToSave
    <3> QED BY <1>1, <2>1, <3>1 DEF CopiesAreCurrent, LoopKinds
  <2>2. CASE v # r
    BY <1>1, <2>2 DEF CopiesAreCurrent, AboutToSave
  <2> QED BY <2>1, <2>2
<1>4. NamedIsThere'
  <2>1. \A v \in Reqs \ {r} : pc'[v] = pc[v] /\ req'[v] = req[v]
    BY <1>1
  <2> QED BY <1>1, <2>1 DEF NamedIsThere, hist
<1> QED BY <1>1, <1>2, <1>3, <1>4 DEF IInv, Data

\* A request that can start finds nobody who would have to be served alone.
LEMMA StartInv ==
    ASSUME IInv, Overlap \subseteq LoopKinds, NEW r \in Reqs, Start(r)
    PROVE  IInv'
<1> USE DataOf
<1>a. PICK k \in Kinds : \E a \in Args(k) :
          \E m \in (IF k \in Gated THEN Bearers ELSE IF k = "seen" THEN Bearers \ {None} ELSE {None}) :
             /\ MayArrive(k)
             /\ req' = [req EXCEPT ![r] = [kind |-> k, me |-> m, arg |-> a, pw |-> 0]]
             /\ pc' = [pc EXCEPT ![r] = IF k = "login" THEN "check" ELSE "await"]
  BY DEF Start, Goto
<1>1. PICK a, m :
          /\ MayArrive(k) /\ a \in Args(k)
          /\ m \in (IF k \in Gated THEN Bearers ELSE IF k = "seen" THEN Bearers \ {None} ELSE {None})
          /\ req' = [req EXCEPT ![r] = [kind |-> k, me |-> m, arg |-> a, pw |-> 0]]
          /\ pc' = [pc EXCEPT ![r] = IF k = "login" THEN "check" ELSE "await"]
  BY <1>a
<1>2. pc[r] = "idle" /\ UNCHANGED <<db, expired, pw, loop, snap, entry, hist>>
  BY DEF Start
<1> DEFINE q == [kind |-> k, me |-> m, arg |-> a, pw |-> 0]
           l == IF k = "login" THEN "check" ELSE "await"
<1>3. a \in Ids \cup {None} /\ m \in Ids \cup {None}
  <2>1. SessionsOf(db) \subseteq Ids
    BY SessionFacts
  <2> QED BY <1>1, <2>1 DEF Args, Bearers
<1>4. q \in Requests /\ q.kind = k /\ l \in Places
  BY <1>3, SessionsAssumption DEF Requests, Places
<1>5. l \notin {"loaded", "popped", "thread"} /\ (k = "authorize" => l \notin {"check", "verified"})
  OBVIOUS
<1>6. /\ k \in LoopKinds \/ \A v \in Reqs \ {r} : pc[v] = "idle"
      /\ \A v \in Reqs \ {r} : pc[v] # "idle" => req[v].kind \in LoopKinds
  BY <1>1 DEF MayArrive
<1> HIDE DEF q, l
<1>7. pc' = [pc EXCEPT ![r] = l] /\ req' = [req EXCEPT ![r] = q] /\ pw' \in 0..MaxPw
  BY <1>1, <1>2 DEF q, l, Shapes, Types
<1> QED BY <1>2, <1>4, <1>5, <1>6, <1>7, GoesOn

\* The others, if there are any, are handlers of the loop.
LEMMA OthersOnLoop ==
    ASSUME IInv, NEW r \in Reqs, pc[r] # "idle"
    PROVE  /\ \A v \in Reqs \ {r} : pc[v] # "idle" => req[v].kind \in LoopKinds
           /\ req[r].kind \in LoopKinds \/ \A v \in Reqs \ {r} : pc[v] = "idle"
BY DEF IInv, ServedAlone

LEMMA WaitInv ==
    ASSUME IInv, NEW r \in Reqs,
           PasswordOk(r) \/ PasswordWrong(r) \/ Refuse(r) \/ SaveFails(r) \/ RefuseCode(r)
           \/ SessionOf(r) \/ ChangePassword(r)
    PROVE  IInv'
<1> USE DataOf
<1>0. pw \in 0..MaxPw /\ pc[r] # "idle" /\ req \in [Reqs -> Requests] /\ pc \in [Reqs -> Places]
  BY DEF Shapes, Types, PasswordOk, PasswordWrong, Refuse, Waiting, SaveFails, RefuseCode, SessionOf,
     ChangePassword
<1>1. CASE PasswordOk(r)
  <2> DEFINE q == [req[r] EXCEPT !.pw = pw]
  <2>1. q \in Requests /\ q.kind = req[r].kind
    BY <1>0 DEF Requests
  <2>2. /\ pc[r] = "check" /\ req' = [req EXCEPT ![r] = q] /\ pc' = [pc EXCEPT ![r] = "verified"]
        /\ UNCHANGED <<db, expired, pw, loop, snap, entry, hist>>
    BY <1>1 DEF PasswordOk, Goto
  <2>3. q.kind = "authorize" => AboutToSave(r)
    BY <2>1, <2>2 DEF AboutToSave
  <2> HIDE DEF q
  <2> QED BY <1>0, <2>1, <2>2, <2>3, OthersOnLoop, GoesOn DEF Places
<1>2. CASE PasswordWrong(r) \/ Refuse(r)
  <2>1. Done(r) /\ UNCHANGED <<db, expired, pw, loop, entry, hist>>
    BY <1>2 DEF PasswordWrong, Refuse
  <2> QED BY <1>0, <2>1, Leaves
<1>3. CASE SaveFails(r) \/ RefuseCode(r)
  <2>1. Done(r) /\ Release(r) /\ UNCHANGED <<db, expired, pw, entry, hist>>
    BY <1>3 DEF SaveFails, RefuseCode
  <2> QED BY <1>0, <2>1, Leaves DEF Release
<1>4. ASSUME pc[r] = "await", req[r].kind \in ThreadKinds, Goto(r, "thread"),
             NEW p \in 0..MaxPw, req' = [req EXCEPT ![r].pw = p], pw' \in 0..MaxPw,
             UNCHANGED <<db, expired, loop, snap, entry, hist>>
      PROVE  IInv'
  <2> DEFINE q == [req[r] EXCEPT !.pw = p]
  <2>1. q \in Requests /\ q.kind = req[r].kind /\ q.kind # "authorize"
    BY <1>0, <1>4 DEF Requests, ThreadKinds
  <2>2. req' = [req EXCEPT ![r] = q] /\ pc' = [pc EXCEPT ![r] = "thread"]
    BY <1>4 DEF Goto
  <2> HIDE DEF q
  <2> QED BY <1>0, <1>4, <2>1, <2>2, OthersOnLoop, GoesOn DEF Places
<1>5. CASE SessionOf(r)
  <2>1. CASE Done(r)
    BY <1>0, <1>5, <2>1, Leaves DEF SessionOf
  <2>2. CASE Goto(r, "thread") /\ UNCHANGED <<req, snap>>
    <3>1. req[r].pw \in 0..MaxPw /\ req' = [req EXCEPT ![r].pw = req[r].pw]
      BY <1>0, <2>2 DEF Requests
    <3> QED BY <1>0, <1>4, <1>5, <2>2, <3>1 DEF SessionOf, ThreadKinds
  <2> QED BY <1>5, <2>1, <2>2 DEF SessionOf
<1>6. CASE ChangePassword(r)
  <2>1. CASE Done(r) /\ UNCHANGED pw
    BY <1>0, <1>6, <2>1, Leaves DEF ChangePassword
  <2>2. CASE pw < MaxPw /\ pw' = pw + 1 /\ req' = [req EXCEPT ![r].pw = pw + 1] /\ Goto(r, "thread") /\ UNCHANGED snap
    <3>1. pw + 1 \in 0..MaxPw
      BY <1>0, <2>2, SessionsAssumption
    <3> QED BY <1>4, <1>6, <2>2, <3>1 DEF ChangePassword, ThreadKinds
  <2> QED BY <1>6, <2>1, <2>2 DEF ChangePassword
<1> QED BY <1>1, <1>2, <1>3, <1>5, <1>6

\* A request loads the file when nobody else is about to save.
LEMMA Loads ==
    ASSUME IInv, NEW r \in Reqs, pc[r] # "idle", NEW l \in {"loaded", "check"},
           pc' = [pc EXCEPT ![r] = l], req' = req, snap' = [snap EXCEPT ![r] = db],
           \/ req[r].kind \in LoopKinds /\ loop = Free /\ loop' = r
           \/ req[r].kind \notin LoopKinds /\ loop' = loop,
           UNCHANGED <<db, expired, pw, entry, hist>>,
           req[r].kind = "token"   => Item("code", req[r].arg) \in db.items,
           req[r].kind = "refresh" => Item("refresh", req[r].arg) \in db.items,
           req[r].kind = "revoke"  => req[r].arg \in SessionsOf(db),
           req[r].kind = "logout"  => entry[req[r].me].sid \in SessionsOf(db)
    PROVE  IInv'
<1>0. Shapes /\ ServedAlone /\ CopiesAreCurrent /\ NamedIsThere
  BY DEF IInv
<1>1. /\ Shapes' /\ Data' /\ SessionsOf(db)' = SessionsOf(db)
      /\ pc'[r] = l /\ snap'[r] = db
      /\ \A v \in Reqs \ {r} : pc'[v] = pc[v] /\ snap'[v] = snap[v]
  <2>1. Data' /\ SessionsOf(db)' = SessionsOf(db)
    BY DataStays DEF IInv, Data, hist
  <2>2. pc' \in [Reqs -> Places] /\ loop' \in Reqs \cup {Free} /\ snap' = [v \in Reqs |-> snap'[v]]
    BY <1>0 DEF Shapes, Types, Places
  <2>3. Shapes'
    BY <1>0, <2>2 DEF Shapes, Types, IsFile, hist
  <2> QED BY <1>0, <2>1, <2>3 DEF Shapes, Types
<1>2. \A v \in Reqs \ {r} : ~AboutToSave(v)
  <2> SUFFICES ASSUME NEW v \in Reqs \ {r}, AboutToSave(v) PROVE FALSE
    OBVIOUS
  <2>1. pc[v] # "idle"
    BY DEF AboutToSave
  <2>2. req[v].kind \in LoopKinds /\ req[r].kind \in LoopKinds
    BY <1>0, <2>1 DEF ServedAlone
  <2> QED BY <1>0, <2>2, SessionsAssumption DEF CopiesAreCurrent
<1>3. ServedAlone'
  <2>1. \A v \in Reqs : pc'[v] # "idle" <=> pc[v] # "idle"
    BY <1>1
  <2> QED BY <1>0, <2>1 DEF ServedAlone
<1>4. CopiesAreCurrent'
  <2>1. \A v \in Reqs \ {r} : ~AboutToSave(v)'
    BY <1>1, <1>2 DEF AboutToSave
  <2> QED BY <1>1, <2>1 DEF CopiesAreCurrent
<1>5. NamedIsThere'
  <2> SUFFICES ASSUME NEW v \in Reqs
               PROVE  /\ pc'[v] = "loaded" =>
                            /\ req[v].kind = "token"   => Item("code", req[v].arg) \in db.items
                            /\ req[v].kind = "refresh" => Item("refresh", req[v].arg) \in db.items
                            /\ req[v].kind = "revoke"  => req[v].arg \in SessionsOf(db)
                            /\ req[v].kind = "logout"  => entry[req[v].me].sid \in SessionsOf(db)
                      /\ pc'[v] = "popped" => req[v].kind = "token" /\ req[v].arg \in Ids
                      /\ pc'[v] = "thread" => req[v].kind \in ThreadKinds
    BY <1>1 DEF NamedIsThere, Item
  <2>1. CASE v = r
    BY <1>1, <2>1
  <2>2. CASE v # r
    BY <1>0, <1>1, <2>2 DEF NamedIsThere
  <2> QED BY <2>1, <2>2
<1> QED BY <1>1, <1>3, <1>4, <1>5 DEF IInv, Data

LEMMA LoadInv ==
    ASSUME IInv, NEW r \in Reqs, Load(r) \/ LoadAuthorize(r) \/ ThreadLoad(r)
    PROVE  IInv'
<1> USE DataOf
<1>0. pw \in 0..MaxPw
  BY DEF Shapes, Types
<1>1. CASE Load(r)
  <2>1. /\ pc[r] # "idle" /\ req[r].kind \in LoopKinds /\ loop = Free /\ loop' = r
        /\ snap' = [snap EXCEPT ![r] = db] /\ pc' = [pc EXCEPT ![r] = "loaded"]
        /\ UNCHANGED <<db, expired, pw, req, entry, hist>> /\ ToDo(r)
    BY <1>1 DEF Load, Waiting, Enter, Goto
  <2>2. /\ req[r].kind = "token"   => Item("code", req[r].arg) \in db.items
        /\ req[r].kind = "refresh" => Item("refresh", req[r].arg) \in db.items
        /\ req[r].kind = "revoke"  => req[r].arg \in SessionsOf(db)
        /\ req[r].kind # "logout"
    BY <2>1 DEF ToDo, Valid, LoopKinds
  <2> QED BY <2>1, <2>2, Loads
<1>2. CASE LoadAuthorize(r)
  <2>1. /\ pc[r] = "await" /\ req[r].kind = "authorize"
        /\ UNCHANGED <<db, expired, pw, loop, entry, hist>>
    BY <1>2 DEF LoadAuthorize
  <2>2. CASE Done(r)
    BY <1>0, <2>1, <2>2, Leaves
  <2>3. CASE snap' = [snap EXCEPT ![r] = db] /\ Goto(r, "check") /\ UNCHANGED req
    BY <2>1, <2>3, Loads DEF Goto, LoopKinds
  <2> QED BY <1>2, <2>2, <2>3 DEF LoadAuthorize
<1>3. CASE ThreadLoad(r)
  <2>1. /\ pc[r] = "thread" /\ UNCHANGED <<db, expired, pw, loop, entry, hist>>
        /\ req[r].kind \in ThreadKinds
    BY <1>3 DEF ThreadLoad, NamedIsThere
  <2>2. CASE Done(r)
    BY <1>0, <2>1, <2>2, Leaves
  <2>3. CASE /\ req[r].kind = "change" \/ entry[req[r].me].sid \in SessionsOf(db)
             /\ snap' = [snap EXCEPT ![r] = db] /\ Goto(r, "loaded") /\ UNCHANGED req
    BY <2>1, <2>3, Loads DEF Goto, LoopKinds, ThreadKinds
  <2> QED BY <1>3, <2>2, <2>3 DEF ThreadLoad
<1> QED BY <1>1, <1>2, <1>3

LEMMA RestartInv == ASSUME IInv, Expire \/ Restart PROVE IInv'
<1> USE DataOf
<1>1. CASE Expire
  <2>1. PICK i \in Items : expired' = expired \cup {i}
    BY <1>1 DEF Expire
  <2>2. UNCHANGED <<db, pw, loop, pc, req, snap, entry, used, revoked, settled>>
    BY <1>1 DEF Expire, hist
  <2>3. Data' /\ SessionsOf(db)' = SessionsOf(db)
    BY <2>1, <2>2, DataStays
  <2>4. Shapes'
    BY <2>1, <2>2 DEF Shapes, Types, IsFile
  <2>5. ServedAlone' /\ CopiesAreCurrent'
    BY <2>2 DEF ServedAlone, CopiesAreCurrent, AboutToSave
  <2>6. NamedIsThere'
    BY <2>2, <2>3 DEF NamedIsThere, Item
  <2> QED BY <2>3, <2>4, <2>5, <2>6 DEF IInv, Data
<1>2. CASE Restart
  <2>1. /\ loop' = Free /\ pc' = [q \in Reqs |-> "idle"] /\ req' = [q \in Reqs |-> Nobody]
        /\ snap' = [q \in Reqs |-> NoFile]
        /\ UNCHANGED <<db, expired, pw, entry, used, revoked, settled>>
    BY <1>2 DEF Restart, hist
  <2>2. Data'
    BY <2>1, DataStays
  <2>3. Shapes'
    BY <2>1, NobodyAsks DEF Shapes, Types, IsFile, Places
  <2>4. ServedAlone' /\ CopiesAreCurrent' /\ NamedIsThere'
    BY <2>1 DEF ServedAlone, CopiesAreCurrent, AboutToSave, NamedIsThere, Nobody
  <2> QED BY <2>2, <2>3, <2>4 DEF IInv, Data
<1> QED BY <1>1, <1>2

LEMMA InitInv == Init => IInv
<1> SUFFICES ASSUME Init PROVE IInv
  OBVIOUS
<1>1. /\ expired = {} /\ pw = 0 /\ loop = Free
      /\ pc = [r \in Reqs |-> "idle"] /\ req = [r \in Reqs |-> Nobody] /\ snap = [r \in Reqs |-> NoFile]
      /\ used = {} /\ revoked = {} /\ settled = 0
  BY DEF Init
<1>2. ServedAlone /\ CopiesAreCurrent /\ NamedIsThere
  BY <1>1 DEF ServedAlone, CopiesAreCurrent, AboutToSave, NamedIsThere, Nobody
<1>3. IsFile(db) /\ entry \in [Ids -> Entry] /\ Data
  <2>1. CASE db = NoFile /\ entry = [i \in Ids |-> Unused]
    <3>1. IsFile(db) /\ db.items = {}
      BY <2>1 DEF NoFile, IsFile
    <3>2. entry \in [Ids -> Entry] /\ \A i \in Ids : entry[i].kind = "unused"
      BY <2>1, SessionsAssumption DEF Unused, Entry
    <3>3. NothingLost
      BY <3>2, ItemFacts DEF NothingLost
    <3> QED BY <1>1, <3>1, <3>2, <3>3 DEF Data, EntriesStand, RevokedStaysOut, UsedStaysOut,
              OneRefreshPerSession
  <2>2. ASSUME NEW c \in Ids, NEW k \in Ids, NEW t \in Ids, c # k, c # t, k # t, Restarted(c, k, t)
        PROVE  IsFile(db) /\ entry \in [Ids -> Entry] /\ Data
    <3>1. /\ db.items = {Item("code", k), Item("access", t), Item("refresh", t)}
          /\ db = [clients |-> <<c>>, items |-> db.items]
      BY <2>2 DEF Restarted
    <3>2. IsFile(db)
      BY <3>1, ItemFacts DEF IsFile
    <3>3. /\ entry \in [Ids -> Entry] /\ entry[k].kind = "code"
          /\ entry[t].kind = "token" /\ entry[t].sid = t
          /\ \A i \in Ids : entry[i].kind = "token" => i = t
          /\ \A i \in Ids : entry[i].kind = "code" => i = k
      <4>1. \A i \in Ids : entry[i] = IF i = c THEN [Unused EXCEPT !.kind = "client"]
                                     ELSE IF i = k THEN [Unused EXCEPT !.kind = "code", !.client = c]
                                     ELSE IF i = t THEN [Unused EXCEPT !.kind = "token", !.sid = t, !.client = WebUI]
                                     ELSE Unused
        BY <2>2 DEF Restarted
      <4>2. ASSUME NEW i \in Ids
            PROVE  entry[i] \in Entry /\ (entry[i].kind = "token" => i = t) /\ (entry[i].kind = "code" => i = k)
        <5>1. Unused \in Entry /\ Unused.kind = "unused"
          BY SessionsAssumption DEF Unused, Entry
        <5>2. CASE i = c
          <6>1. entry[i] = [Unused EXCEPT !.kind = "client"]
            BY <4>1, <5>2
          <6> QED BY <5>1, <6>1 DEF Entry
        <5>3. CASE i # c /\ i = k
          <6>1. entry[i] = [Unused EXCEPT !.kind = "code", !.client = c]
            BY <4>1, <5>3
          <6> QED BY <5>1, <5>3, <6>1 DEF Entry
        <5>4. CASE i # c /\ i # k /\ i = t
          <6>1. entry[i] = [Unused EXCEPT !.kind = "token", !.sid = t, !.client = WebUI]
            BY <4>1, <5>4
          <6> QED BY <5>1, <5>4, <6>1 DEF Entry
        <5>5. CASE i \notin {c, k, t}
          BY <4>1, <5>1, <5>5
        <5> QED BY <5>2, <5>3, <5>4, <5>5
      <4>3. entry[k].kind = "code" /\ entry[t].kind = "token" /\ entry[t].sid = t
        BY <2>2, <4>1 DEF Unused
      <4>4. entry = [i \in Ids |-> entry[i]]
        BY <2>2 DEF Restarted
      <4> QED BY <4>2, <4>3, <4>4
    <3>4. EntriesStand
      BY <1>1, <3>1, <3>3, ItemFacts DEF EntriesStand
    <3>5. NothingLost
      BY <3>1, <3>3, ItemFacts DEF NothingLost, IsTok
    <3>6. RevokedStaysOut /\ UsedStaysOut
      BY <1>1 DEF RevokedStaysOut, UsedStaysOut
    <3>7. OneRefreshPerSession
      BY <3>1, ItemFacts DEF OneRefreshPerSession
    <3> QED BY <3>2, <3>3, <3>4, <3>5, <3>6, <3>7 DEF Data
  <2> QED BY <2>1, <2>2 DEF Init
<1>4. Shapes
  BY <1>1, <1>3, NobodyAsks, SessionsAssumption DEF Shapes, Types, Places
<1> QED BY <1>2, <1>3, <1>4 DEF IInv, Data

LEMMA NextInv ==
    ASSUME Overlap \subseteq LoopKinds
    PROVE  IInv /\ [Next]_vars => IInv'
<1> SUFFICES ASSUME IInv, [Next]_vars PROVE IInv'
  OBVIOUS
<1>1. CASE UNCHANGED vars
  BY <1>1 DEF vars, hist, IInv, Shapes, Types, IsFile, ServedAlone, CopiesAreCurrent, AboutToSave,
     NamedIsThere, EntriesStand, RevokedStaysOut, UsedStaysOut, NothingLost, OneRefreshPerSession,
     SessionsOf, Sid, IsTok, Item
<1>2. ASSUME NEW r \in Reqs, Step(r) PROVE IInv'
  BY <1>2, StartInv, WaitInv, LoadInv, RevokeInv, RegisterInv, LoginInv, ConnectInv, RotateInv,
     AuthorizeInv, PopInv DEF Step
<1> QED BY <1>1, <1>2, RestartInv DEF Next

LEMMA Invariance ==
    ASSUME Overlap \subseteq LoopKinds
    PROVE  Spec => []IInv
<1>1. IInv /\ [Next]_vars => IInv'
  BY NextInv
<1> QED BY <1>1, InitInv, PTL DEF Spec

\* No save of another handler of the loop brings a token of a revoked session back.
THEOREM LoggedOutForGood ==
    ASSUME Overlap \subseteq LoopKinds
    PROVE  Spec => []RevokedStaysOut
<1>1. IInv => RevokedStaysOut
  BY DEF IInv
<1> QED BY <1>1, Invariance, PTL

\* A code works once, a rotated refresh token never again.
THEOREM UsedForGood ==
    ASSUME Overlap \subseteq LoopKinds
    PROVE  Spec => []UsedStaysOut
<1>1. IInv => UsedStaysOut
  BY DEF IInv
<1> QED BY <1>1, Invariance, PTL

\* No handler of the loop loses what another has handed out, whatever fails to be
\* saved and whenever the server restarts.
THEOREM HandedOutIsKept ==
    ASSUME Overlap \subseteq LoopKinds
    PROVE  Spec => []NothingLost
<1>1. IInv => NothingLost
  BY DEF IInv
<1> QED BY <1>1, Invariance, PTL

\* Two refreshes at a time never fork a session.
THEOREM SessionsNeverFork ==
    ASSUME Overlap \subseteq LoopKinds
    PROVE  Spec => []OneRefreshPerSession
<1>1. IInv => OneRefreshPerSession
  BY DEF IInv
<1> QED BY <1>1, Invariance, PTL
==============================================================================
