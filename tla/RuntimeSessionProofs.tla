------------------------ MODULE RuntimeSessionProofs ------------------------
(* Theorems about RuntimeSession for every set of pages, every limit on open *)
(* challenges and every number of restarts, lost answers and revocations.    *)
EXTENDS RuntimeSession, FiniteSetTheorems, TLAPS

(* Where a connect has a key, and hands it to the Runtime or the database. *)
KeySteps == {"challenge", "unregister", "rechallenge", "exchange", "save"}

(* A page that has come so far has loaded a key, and so has a database that *)
(* has a record.                                                            *)
KeysNamed ==
  /\ store # NoRecord => store.id \in Pages
  /\ \A p \in Pages : page[p].step \in KeySteps => page[p].key.id \in Pages

(* No challenge outlives the revocation of its key. *)
ChallengesStand == \A c \in Open : ~challenge[c].revoked

IInv == TypeOK /\ KeysNamed /\ ChallengesStand /\ RevokedStaysOut

(* Forgetting a connect, or going on to the status, keeps the page's shape. *)
LEMMA ForgetType ==
  ASSUME NEW pg \in Page
  PROVE  /\ Idle(pg) \in Page /\ Idle(pg).step = "idle"
         /\ ToStatus(pg) \in Page /\ ToStatus(pg).step = "status"
BY DEF Page, Idle, ToStatus, Steps, KeyRecord, NoRecord

(* What connectOnce does with a key that a page generated keeps the page's *)
(* shape, and the page has that key in every step that needs one.          *)
LEMMA WithKeyType ==
  ASSUME NEW pg \in Page, NEW key \in KeyRecord, key.id \in Pages
  PROVE  /\ WithKey(pg, key) \in Page
         /\ WithKey(pg, key).step \in KeySteps => WithKey(pg, key).key.id \in Pages
BY DEF WithKey, Page, Idle, Steps, KeyRecord, NoRecord, Pending, NoPending, None, KeySteps

(* A refused status forgets the session, and the key with the connect. *)
LEMMA RefusedType ==
  ASSUME NEW pg \in Page
  PROVE  Refused(pg) \in Page /\ Refused(pg).step \notin KeySteps
BY DEF Refused, Idle, Page, Steps, KeyRecord, NoRecord, Pending, NoPending, None, KeySteps

(* A page that moves to a well-shaped state that names its key keeps the *)
(* clauses about pages.                                                  *)
LEMMA MoveType ==
  ASSUME TypeOK, KeysNamed, NEW p \in Pages, NEW pg \in Page, Moves(p, pg),
         pg.step \in KeySteps => pg.key.id \in Pages
  PROVE  /\ page' \in [Pages -> Page]
         /\ \A q \in Pages : page'[q].step \in KeySteps => page'[q].key.id \in Pages
BY DEF TypeOK, KeysNamed, Moves

(* There are finitely many open challenges, whatever a step makes of them. *)
LEMMA OpenFinite == IsFiniteSet(Open) /\ Cardinality(Open) \in Nat
<1>1. IsFiniteSet(Challenges)
  BY FS_Interval, NamesAssumption DEF Challenges
<1>2. Open \subseteq Challenges
  BY DEF Open
<1> QED BY <1>1, <1>2, FS_Subset, FS_CardinalityType

(* Open challenges that are used up or expire leave no more than there were. *)
LEMMA FewerOpen ==
  ASSUME TypeOK, Open' \subseteq Open
  PROVE  Cardinality(Open') <= PendingLimit
<1>1. Cardinality(Open') \in Nat /\ Cardinality(Open') <= Cardinality(Open)
  BY OpenFinite, FS_Subset, FS_CardinalityType
<1> QED BY <1>1, OpenFinite, LimitAssumption DEF TypeOK

(* A challenge the Runtime gives out belongs to the key it was asked for, is *)
(* not revoked, and is within the limit (createChallenge).                   *)
LEMMA GivenType ==
  ASSUME TypeOK, ChallengesStand, NEW key \in Pages, NEW c \in Challenges, Given(key, c)
  PROVE  /\ challenge' \in [Challenges -> Held \cup {NoChallenge}]
         /\ Cardinality(Open') <= PendingLimit
         /\ ChallengesStand'
<1>1. CASE UNCHANGED challenge
  <2>1. Open' = Open
    BY <1>1 DEF Open
  <2> QED BY <1>1, <2>1 DEF TypeOK, ChallengesStand
<1>2. CASE /\ Cardinality(Open) < PendingLimit
           /\ FreshChallenge(c)
           /\ challenge' = [challenge EXCEPT ![c] = [key |-> key, revoked |-> FALSE]]
  <2>1. [key |-> key, revoked |-> FALSE] \in Held /\ [key |-> key, revoked |-> FALSE] # NoChallenge
    BY NamesAssumption DEF Held, NoChallenge
  <2>2. Open' = Open \cup {c} /\ c \notin Open
    BY <1>2, <2>1 DEF TypeOK, Open, FreshChallenge
  <2>3. Cardinality(Open') = Cardinality(Open) + 1
    BY <2>2, OpenFinite, FS_AddElement
  <2>4. Cardinality(Open') <= PendingLimit
    BY <1>2, <2>3, OpenFinite, LimitAssumption
  <2>5. challenge' \in [Challenges -> Held \cup {NoChallenge}]
    BY <1>2, <2>1 DEF TypeOK
  <2>6. ChallengesStand'
    BY <1>2, <2>2 DEF TypeOK, ChallengesStand
  <2> QED BY <2>4, <2>5, <2>6
<1> QED BY <1>1, <1>2 DEF Given

(* An exchange uses a challenge up, and the session it makes is of a key that *)
(* is registered from then on and was not revoked since (exchange).           *)
LEMMA ExchangedType ==
  ASSUME IInv, NEW c, NEW s \in Sessions, Exchanged(c, s)
  PROVE  /\ registered' \subseteq Pages
         /\ challenge' \in [Challenges -> Held \cup {NoChallenge}]
         /\ session' \in [Sessions -> Held \cup {NoSession}]
         /\ Cardinality(Open') <= PendingLimit
         /\ ChallengesStand'
         /\ RevokedStaysOut'
<1>1. c \in Challenges /\ challenge[c] \in Held /\ ~challenge[c].revoked
  BY DEF Exchanged, Open, IInv, TypeOK, ChallengesStand
<1>2. Open' \subseteq Open /\ \A d \in Open' : challenge'[d] = challenge[d]
  BY <1>1 DEF Exchanged, Open, IInv, TypeOK
<1>3. Cardinality(Open') <= PendingLimit
  BY <1>2, FewerOpen DEF IInv
<1>4. ChallengesStand'
  BY <1>2 DEF ChallengesStand, IInv
<1>5. registered' \subseteq Pages /\ challenge[c].key \in registered'
  BY <1>1 DEF Exchanged, IInv, TypeOK, Held
<1>6. /\ challenge' \in [Challenges -> Held \cup {NoChallenge}]
      /\ session' \in [Sessions -> Held \cup {NoSession}]
  BY <1>1 DEF Exchanged, IInv, TypeOK
<1>7. RevokedStaysOut'
  <2> SUFFICES ASSUME NEW t \in Sessions, session'[t] # NoSession
               PROVE  session'[t].key \in registered' /\ ~session'[t].revoked
    BY DEF RevokedStaysOut, Live
  <2>1. CASE t = s
    BY <1>1, <1>5, <2>1 DEF Exchanged, IInv, TypeOK
  <2>2. CASE t # s
    BY <2>2 DEF Exchanged, IInv, TypeOK, RevokedStaysOut, Live
  <2> QED BY <2>1, <2>2
<1> QED BY <1>3, <1>4, <1>5, <1>6, <1>7

(* No page, key, challenge or session exists at first. *)
LEMMA IInvInit == Init => IInv
<1> SUFFICES ASSUME Init PROVE IInv
  OBVIOUS
<1>1. Open = {} /\ Live = {}
  BY DEF Init, Open, Live
<1>2. Cardinality(Open) <= PendingLimit
  BY <1>1, FS_EmptySet, LimitAssumption
<1>3. TypeOK
  BY <1>2, LimitAssumption
     DEF Init, TypeOK, KeyRecord, NoRecord, Page, Steps, Pending, NoPending, None
<1> QED
  BY <1>1, <1>3 DEF Init, IInv, KeysNamed, KeySteps, ChallengesStand, RevokedStaysOut

(* A step that leaves the Runtime alone keeps what is said of the Runtime. *)
LEMMA RuntimeKept ==
  ASSUME IInv, UNCHANGED Runtime
  PROVE  /\ registered' \subseteq Pages
         /\ challenge' \in [Challenges -> Held \cup {NoChallenge}]
         /\ session' \in [Sessions -> Held \cup {NoSession}]
         /\ Cardinality(Open') <= PendingLimit
         /\ ChallengesStand'
         /\ RevokedStaysOut'
<1>1. Open' = Open /\ Live' = Live
  BY DEF Runtime, Open, Live
<1> QED
  BY <1>1 DEF Runtime, IInv, TypeOK, ChallengesStand, RevokedStaysOut

(* A step of a page's own that changes neither the Runtime nor the database *)
(* keeps the invariant if what the page becomes names its key.              *)
LEMMA PageStep ==
  ASSUME IInv, NEW p \in Pages, NEW pg \in Page, Moves(p, pg),
         pg.step \in KeySteps => pg.key.id \in Pages,
         UNCHANGED <<Runtime, store>>, faults' \in 0..MaxFaults
  PROVE  IInv'
<1>1. /\ page' \in [Pages -> Page]
      /\ \A q \in Pages : page'[q].step \in KeySteps => page'[q].key.id \in Pages
  BY MoveType DEF IInv
<1> QED BY <1>1, RuntimeKept DEF IInv, TypeOK, KeysNamed

(* Every action keeps the invariant.                                        *)
LEMMA IInvStep == ASSUME IInv, [Next]_vars PROVE IInv'
<1> USE DEF KeySteps
<1>0. /\ TypeOK /\ KeysNamed /\ ChallengesStand /\ RevokedStaysOut
      /\ faults \in 0..MaxFaults /\ (Faulty => faults' \in 0..MaxFaults)
      /\ \A p \in Pages : page[p] \in Page /\ page[p].key \in KeyRecord
  BY LimitAssumption DEF IInv, TypeOK, Faulty, Page
<1>1. ASSUME NEW p \in Pages, Connect(p) PROVE IInv'
  <2>1. [page[p] EXCEPT !.step = IF page[p].session # None THEN "status" ELSE "info"] \in Page
    BY <1>0 DEF Page, Steps
  <2> QED BY <1>0, <1>1, <2>1, PageStep DEF Connect, Page
<1>2. ASSUME NEW p \in Pages, ReadInfo(p) PROVE IInv'
  <2> DEFINE pg == IF page[p].known
              THEN [page[p] EXCEPT !.step = "load"]
              ELSE [page[p] EXCEPT !.step = "load", !.known = TRUE, !.session = None, !.pending = NoPending]
  <2>1. pg \in Page /\ pg.step = "load"
    BY <1>0 DEF Page, Steps, Pending, NoPending
  <2>2. Moves(p, pg) /\ UNCHANGED <<Runtime, store>> /\ faults' \in 0..MaxFaults
    BY <1>0, <1>2 DEF ReadInfo
  <2> HIDE DEF pg
  <2> QED BY <2>1, <2>2, PageStep
<1>3. ASSUME NEW p \in Pages, LoadKey(p) PROVE IInv'
  <2>1. [page[p] EXCEPT !.step = "generate"] \in Page
    BY <1>0 DEF Page, Steps
  <2>2. CASE store = NoRecord
    <3>1. Moves(p, [page[p] EXCEPT !.step = "generate"])
      BY <1>3, <2>2 DEF LoadKey
    <3> QED BY <1>0, <1>3, <2>1, <3>1, PageStep DEF LoadKey, Page
  <2>3. CASE store # NoRecord
    <3>1. store \in KeyRecord /\ store.id \in Pages
      BY <1>0, <2>3 DEF TypeOK, KeysNamed
    <3>2. Moves(p, WithKey(page[p], store))
      BY <1>3, <2>3 DEF LoadKey
    <3> QED BY <1>0, <1>3, <3>1, <3>2, WithKeyType, PageStep DEF LoadKey
  <2> QED BY <2>2, <2>3
<1>4. ASSUME NEW p \in Pages, GenerateKey(p) PROVE IInv'
  <2>1. store' \in KeyRecord /\ store'.id \in Pages
    BY <1>4 DEF GenerateKey, KeyRecord
  <2>2. /\ page' \in [Pages -> Page]
        /\ \A q \in Pages : page'[q].step \in KeySteps => page'[q].key.id \in Pages
    BY <1>0, <1>4, <2>1, WithKeyType, MoveType DEF GenerateKey
  <2> QED BY <1>0, <1>4, <2>1, <2>2, RuntimeKept DEF GenerateKey, IInv, TypeOK, KeysNamed
<1>5. ASSUME NEW p \in Pages, ReceiveChallenge(p) PROVE IInv'
  <2>1. page[p].key.id \in Pages
    BY <1>0, <1>5 DEF ReceiveChallenge, KeysNamed
  <2>2. PICK c \in Challenges :
          /\ Given(page[p].key.id, c)
          /\ Moves(p, IF page[p].known
                      THEN [page[p] EXCEPT !.step = "exchange", !.pending = [name |-> c, key |-> page[p].key.id]]
                      ELSE Idle([page[p] EXCEPT !.pending = NoPending]))
    BY <1>5 DEF ReceiveChallenge
  <2>3. /\ [page[p] EXCEPT !.step = "exchange", !.pending = [name |-> c, key |-> page[p].key.id]] \in Page
        /\ [page[p] EXCEPT !.pending = NoPending] \in Page
    BY <1>0, <2>1 DEF Page, Steps, Pending, NoPending
  <2>4. /\ page' \in [Pages -> Page]
        /\ \A q \in Pages : page'[q].step \in KeySteps => page'[q].key.id \in Pages
    <3>1. CASE page[p].known
      BY <1>0, <2>1, <2>2, <2>3, <3>1, MoveType DEF Page
    <3>2. CASE ~page[p].known
      BY <1>0, <2>2, <2>3, <3>2, ForgetType, MoveType
    <3> QED BY <3>1, <3>2
  <2>5. /\ challenge' \in [Challenges -> Held \cup {NoChallenge}]
        /\ Cardinality(Open') <= PendingLimit
        /\ ChallengesStand'
    BY <1>0, <2>1, <2>2, GivenType
  <2> QED
    BY <1>0, <1>5, <2>4, <2>5 DEF ReceiveChallenge, IInv, TypeOK, KeysNamed, RevokedStaysOut, Live
<1>6. ASSUME NEW p \in Pages, RefuseChallenge(p) PROVE IInv'
  BY <1>0, <1>6, ForgetType, PageStep DEF RefuseChallenge
<1>7. ASSUME NEW p \in Pages, KeyUnknown(p) PROVE IInv'
  <2>1. /\ [page[p] EXCEPT !.step = "unregister", !.key.registered = FALSE] \in Page
        /\ [page[p] EXCEPT !.step = "unregister", !.key.registered = FALSE].key.id \in Pages
    BY <1>0, <1>7 DEF KeyUnknown, AsksByName, KeysNamed, Page, Steps, KeyRecord
  <2> QED BY <1>0, <1>7, <2>1, PageStep DEF KeyUnknown
<1>8. ASSUME NEW p \in Pages, SaveUnregistered(p) PROVE IInv'
  <2>1. store' \in KeyRecord /\ store'.id \in Pages
    BY <1>0, <1>8 DEF SaveUnregistered, KeysNamed
  <2>2. [page[p] EXCEPT !.step = "rechallenge"] \in Page
    BY <1>0 DEF Page, Steps
  <2>3. /\ page' \in [Pages -> Page]
        /\ \A q \in Pages : page'[q].step \in KeySteps => page'[q].key.id \in Pages
    BY <1>0, <1>8, <2>1, <2>2, MoveType DEF SaveUnregistered, Page
  <2> QED BY <1>0, <1>8, <2>1, <2>3, RuntimeKept DEF SaveUnregistered, IInv, TypeOK, KeysNamed
<1>9. ASSUME NEW p \in Pages, ReceiveSession(p) PROVE IInv'
  <2>1. PICK s \in Sessions :
          /\ Exchanged(page[p].pending.name, s)
          /\ LET pg == [page[p] EXCEPT !.session = s, !.pending = NoPending]
             IN Moves(p, IF pg.key.registered THEN ToStatus(pg) ELSE [pg EXCEPT !.step = "save"])
    BY <1>9 DEF ReceiveSession
  <2> DEFINE pg == [page[p] EXCEPT !.session = s, !.pending = NoPending]
  <2>2. page[p].key.id \in Pages
    BY <1>0, <1>9 DEF ReceiveSession, KeysNamed
  <2>3. /\ pg \in Page /\ [pg EXCEPT !.step = "save"] \in Page
        /\ [pg EXCEPT !.step = "save"].key.id \in Pages
    BY <1>0, <2>2 DEF Page, Steps, Pending, NoPending
  <2>4. Moves(p, IF pg.key.registered THEN ToStatus(pg) ELSE [pg EXCEPT !.step = "save"])
    BY <2>1
  <2> HIDE DEF pg
  <2>5. /\ page' \in [Pages -> Page]
        /\ \A q \in Pages : page'[q].step \in KeySteps => page'[q].key.id \in Pages
    <3>1. CASE pg.key.registered
      BY <1>0, <2>3, <2>4, <3>1, ForgetType, MoveType
    <3>2. CASE ~pg.key.registered
      BY <1>0, <2>3, <2>4, <3>2, MoveType
    <3> QED BY <3>1, <3>2
  <2>6. faults' = faults /\ store' = store
    BY <1>9 DEF ReceiveSession
  <2> QED BY <1>0, <2>1, <2>5, <2>6, ExchangedType DEF IInv, TypeOK, KeysNamed
<1>10. ASSUME NEW p \in Pages, RefuseExchange(p) PROVE IInv'
  BY <1>0, <1>10, ForgetType, PageStep DEF RefuseExchange
<1>11. ASSUME NEW p \in Pages, SaveRegistered(p) PROVE IInv'
  <2>1. store' \in KeyRecord /\ store'.id \in Pages
    BY <1>0, <1>11 DEF SaveRegistered, KeysNamed, KeyRecord
  <2>2. /\ page' \in [Pages -> Page]
        /\ \A q \in Pages : page'[q].step \in KeySteps => page'[q].key.id \in Pages
    BY <1>0, <1>11, ForgetType, MoveType DEF SaveRegistered
  <2> QED BY <1>0, <1>11, <2>1, <2>2, RuntimeKept DEF SaveRegistered, IInv, TypeOK, KeysNamed
<1>12. ASSUME NEW p \in Pages, ReadStatus(p) PROVE IInv'
  <2>1. CASE Accepts(p)
    BY <1>0, <1>12, <2>1, ForgetType, PageStep DEF ReadStatus
  <2>2. CASE ~Accepts(p)
    BY <1>0, <1>12, <2>2, RefusedType, PageStep DEF ReadStatus
  <2> QED BY <2>1, <2>2
<1>13. ASSUME NEW p \in Pages, RequestDenied(p) PROVE IInv'
  <2>1. [page[p] EXCEPT !.denied = TRUE] \in Page
    BY <1>0 DEF Page
  <2> QED BY <1>0, <1>13, <2>1, PageStep DEF RequestDenied, KeysNamed, Page
<1>14. ASSUME NEW p \in Pages, LateDenial(p) PROVE IInv'
  <2>1. [page[p] EXCEPT !.denied = FALSE, !.session = None] \in Page
    BY <1>0 DEF Page
  <2> QED BY <1>0, <1>14, <2>1, PageStep DEF LateDenial, KeysNamed, Page
<1>15. ASSUME NEW p \in Pages, RevokeRegistration(p) PROVE IInv'
  <2> DEFINE key == session[page[p].session].key
  <2>1. key \in Pages
    BY <1>0, <1>15 DEF RevokeRegistration, Accepts, TypeOK
  <2>2. \A c \in Challenges : challenge'[c] = IF challenge[c].key = key THEN NoChallenge ELSE challenge[c]
    BY <1>0, <1>15, <2>1, NamesAssumption
       DEF RevokeRegistration, ChallengesOf, Open, NoChallenge
  <2>3. \A s \in Sessions : session'[s] = IF session[s].key = key THEN NoSession ELSE session[s]
    BY <1>0, <1>15, <2>1, NamesAssumption
       DEF RevokeRegistration, SessionsOf, Live, NoSession
  <2>4. registered' = registered \ {key} /\ UNCHANGED <<store, page>> /\ faults' \in 0..MaxFaults
    BY <1>0, <1>15 DEF RevokeRegistration
  <2>5. /\ DOMAIN challenge' = Challenges /\ challenge' = [c \in Challenges |-> challenge'[c]]
        /\ DOMAIN session' = Sessions /\ session' = [s \in Sessions |-> session'[s]]
    BY <1>15 DEF RevokeRegistration
  <2> HIDE DEF key
  <2>6. /\ challenge' \in [Challenges -> Held \cup {NoChallenge}]
        /\ session' \in [Sessions -> Held \cup {NoSession}]
    BY <1>0, <2>2, <2>3, <2>5 DEF TypeOK
  <2>7. Open' \subseteq Open /\ \A c \in Open' : challenge'[c] = challenge[c]
    BY <2>2 DEF Open
  <2>8. Cardinality(Open') <= PendingLimit /\ ChallengesStand'
    BY <1>0, <2>7, FewerOpen DEF ChallengesStand
  <2>9. RevokedStaysOut'
    <3> SUFFICES ASSUME NEW s \in Sessions, session'[s] # NoSession
                 PROVE  session'[s].key \in registered' /\ ~session'[s].revoked
      BY DEF RevokedStaysOut, Live
    <3> QED BY <1>0, <2>3, <2>4 DEF RevokedStaysOut, Live
  <2> QED BY <1>0, <2>4, <2>6, <2>8, <2>9 DEF IInv, TypeOK, KeysNamed
<1>16. ASSUME NEW p \in Pages, RevokeSession(p) PROVE IInv'
  <2>1. session' \in [Sessions -> Held \cup {NoSession}] /\ RevokedStaysOut'
    BY <1>0, <1>16 DEF RevokeSession, TypeOK, RevokedStaysOut, Live
  <2>2. Open' = Open
    BY <1>16 DEF RevokeSession, Open
  <2> QED
    BY <1>0, <1>16, <2>1, <2>2 DEF RevokeSession, IInv, TypeOK, KeysNamed, ChallengesStand
<1>17. ASSUME NEW p \in Pages, LoseAnswer(p) PROVE IInv'
  <2>1. /\ page' \in [Pages -> Page]
        /\ \A q \in Pages : page'[q].step \in KeySteps => page'[q].key.id \in Pages
        /\ store' = store /\ faults' \in 0..MaxFaults
    BY <1>0, <1>17, ForgetType, MoveType DEF LoseAnswer
  <2>2. CASE UNCHANGED Runtime
    BY <1>0, <2>1, <2>2, RuntimeKept DEF IInv, TypeOK, KeysNamed
  <2>3. CASE /\ page[p].step \in {"challenge", "rechallenge"}
             /\ \E c \in Challenges : Given(page[p].key.id, c)
             /\ UNCHANGED <<registered, session>>
    <3>1. page[p].key.id \in Pages
      BY <1>0, <2>3 DEF KeysNamed
    <3>2. /\ challenge' \in [Challenges -> Held \cup {NoChallenge}]
          /\ Cardinality(Open') <= PendingLimit
          /\ ChallengesStand'
      BY <1>0, <2>3, <3>1, GivenType
    <3> QED BY <1>0, <2>1, <2>3, <3>2 DEF IInv, TypeOK, KeysNamed, RevokedStaysOut, Live
  <2>4. CASE \E s \in Sessions : Exchanged(page[p].pending.name, s)
    BY <1>0, <2>1, <2>4, ExchangedType DEF IInv, TypeOK, KeysNamed
  <2> QED BY <1>17, <2>2, <2>3, <2>4 DEF LoseAnswer
<1>18. ASSUME NEW c \in Challenges, ExpireChallenge(c) PROVE IInv'
  <2>1. /\ page' \in [Pages -> Page]
        /\ \A q \in Pages : page'[q].step = page[q].step /\ page'[q].key = page[q].key
    BY <1>0, <1>18 DEF ExpireChallenge, TypeOK, Page, Pending, NoPending
  <2>2. Open' \subseteq Open /\ \A d \in Open' : challenge'[d] = challenge[d]
    BY <1>0, <1>18 DEF ExpireChallenge, Open, TypeOK
  <2>3. Cardinality(Open') <= PendingLimit /\ ChallengesStand'
    BY <1>0, <2>2, FewerOpen DEF ChallengesStand
  <2>4. challenge' \in [Challenges -> Held \cup {NoChallenge}] /\ faults' \in 0..MaxFaults
    BY <1>0, <1>18 DEF ExpireChallenge, TypeOK
  <2> QED
    BY <1>0, <1>18, <2>1, <2>3, <2>4
       DEF ExpireChallenge, IInv, TypeOK, KeysNamed, RevokedStaysOut, Live
<1>19. ASSUME NEW s \in Sessions, ExpireSession(s) PROVE IInv'
  <2>1. /\ page' \in [Pages -> Page]
        /\ \A q \in Pages : page'[q].step = page[q].step /\ page'[q].key = page[q].key
    BY <1>0, <1>19 DEF ExpireSession, TypeOK, Page
  <2>2. /\ session' \in [Sessions -> Held \cup {NoSession}] /\ RevokedStaysOut'
        /\ faults' \in 0..MaxFaults
    BY <1>0, <1>19 DEF ExpireSession, TypeOK, RevokedStaysOut, Live
  <2>3. Open' = Open
    BY <1>19 DEF ExpireSession, Open
  <2> QED
    BY <1>0, <1>19, <2>1, <2>2, <2>3 DEF ExpireSession, IInv, TypeOK, KeysNamed, ChallengesStand
<1>20. CASE Restart
  <2>1. /\ page' \in [Pages -> Page]
        /\ \A q \in Pages : page'[q].step = page[q].step /\ page'[q].key = page[q].key
    BY <1>0, <1>20 DEF Restart, TypeOK, Page
  <2>2. Open' = {} /\ Live' = {}
    BY <1>20 DEF Restart, Open, Live
  <2>3. Cardinality(Open') <= PendingLimit
    BY <2>2, FS_EmptySet, LimitAssumption
  <2> QED
    BY <1>0, <1>20, <2>1, <2>2, <2>3
       DEF Restart, IInv, TypeOK, KeysNamed, ChallengesStand, RevokedStaysOut
<1>21. CASE UNCHANGED vars
  <2>1. UNCHANGED Runtime /\ UNCHANGED <<store, page, faults>>
    BY <1>21 DEF vars, Runtime
  <2> QED BY <1>0, <2>1, RuntimeKept DEF IInv, TypeOK, KeysNamed
<1> QED
  BY <1>1, <1>2, <1>3, <1>4, <1>5, <1>6, <1>7, <1>8, <1>9, <1>10, <1>11, <1>12, <1>13,
     <1>14, <1>15, <1>16, <1>17, <1>18, <1>19, <1>20, <1>21 DEF Next, Advance

(* The invariant holds in every reachable state. *)
LEMMA IInvHolds == Spec => []IInv
BY IInvInit, IInvStep, PTL DEF Spec

(* The state is well formed, and never more challenges wait than            *)
(* MAX_PENDING_CHALLENGES (createChallenge).                                *)
THEOREM TypeCorrect == Spec => []TypeOK
<1>1. IInv => TypeOK
  BY DEF IInv
<1> QED BY <1>1, IInvHolds, PTL

(* A revoked key has no session, and no challenge it was given before the   *)
(* revocation can bring it back (revokeRegistration, exchange).             *)
THEOREM RevokedKeysStayOut == Spec => []RevokedStaysOut
<1>1. IInv => RevokedStaysOut
  BY DEF IInv
<1> QED BY <1>1, IInvHolds, PTL
=============================================================================
