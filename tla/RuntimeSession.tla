--------------------------- MODULE RuntimeSession ---------------------------
(* How the pages of a browser get a session with the Local Runtime: the      *)
(* session manager of canvas-agent/src/local-runtime-session.ts on one side, *)
(* the client of web/src/services/local-runtime-session.ts with the store    *)
(* that drives it on the other. The pages share one key store, and at every  *)
(* await of a page the others, the Runtime and the clock may go on. A key is *)
(* named after the page that generates it, a signature after its key. Both   *)
(* sides read one clock: what expires is gone for both at once.              *)
EXTENDS Naturals, FiniteSets

CONSTANTS Pages, NoPage,
          NumChallenges,     \* names of challenges, used again once forgotten
          NumSessions,       \* names of sessions, used again once forgotten
          PendingLimit,      \* MAX_PENDING_CHALLENGES
          MaxFaults          \* lost answers, restarts, revocations, ended sessions

ASSUME LimitAssumption == PendingLimit \in Nat \ {0} /\ MaxFaults \in Nat
ASSUME NamesAssumption ==
  /\ NumChallenges \in Nat /\ NumChallenges >= PendingLimit + Cardinality(Pages)
  /\ NumSessions \in Nat /\ NumSessions > Cardinality(Pages)
  /\ NoPage \notin Pages

VARIABLES registered,   \* keys the Runtime has a registration of, kept over restarts
          challenge,    \* by name: the challenge the Runtime holds, or NoChallenge
          session,      \* by name: the session the Runtime holds, or NoSession
          store,        \* the key record in the browser's database
          page,         \* per page: its client and how far its connect has come
          faults
vars == <<registered, challenge, session, store, page, faults>>

None == 0
Challenges == 1..NumChallenges
Sessions == 1..NumSessions

(* revoked, in both: the key was revoked after the challenge was made. *)
NoChallenge == [key |-> NoPage, revoked |-> FALSE]
NoSession == [key |-> NoPage, revoked |-> FALSE]
Held == [key : Pages, revoked : BOOLEAN]

(* RuntimeBrowserKeyRecord; the challenge a page still has to answer. *)
KeyRecord == [id : Pages \cup {NoPage}, registered : BOOLEAN]
NoRecord == [id |-> NoPage, registered |-> FALSE]
Pending == [name : {None} \cup Challenges, key : Pages \cup {NoPage}]
NoPending == [name |-> None, key |-> NoPage]

(* A page: the await its connect stands at; whether it connects a second     *)
(* time; the key it loaded; whether the runtimeInstanceId it has is the      *)
(* Runtime's; its challenge and session; whether a 401 is on its way.        *)
Steps == {"idle", "info", "load", "generate", "challenge", "unregister",
          "rechallenge", "exchange", "save", "status"}
Page == [step : Steps, again : BOOLEAN, key : KeyRecord, known : BOOLEAN,
         pending : Pending, session : {None} \cup Sessions, denied : BOOLEAN]

Open == {c \in Challenges : challenge[c] # NoChallenge}
Live == {s \in Sessions : session[s] # NoSession}

(* The shape of the state; no more challenges wait than the Runtime allows. *)
TypeOK ==
  /\ registered \subseteq Pages
  /\ challenge \in [Challenges -> Held \cup {NoChallenge}]
  /\ session \in [Sessions -> Held \cup {NoSession}]
  /\ store \in KeyRecord
  /\ page \in [Pages -> Page]
  /\ faults \in 0..MaxFaults
  /\ Cardinality(Open) <= PendingLimit

Init ==
  /\ registered = {}
  /\ challenge = [c \in Challenges |-> NoChallenge]
  /\ session = [s \in Sessions |-> NoSession]
  /\ store = NoRecord
  /\ page = [p \in Pages |->
       [step |-> "idle", again |-> FALSE, key |-> NoRecord, known |-> TRUE,
        pending |-> NoPending, session |-> None, denied |-> FALSE]]
  /\ faults = 0

Runtime == <<registered, challenge, session>>
Moves(p, next) == page' = [page EXCEPT ![p] = next]

(* A connect that is over, or has come to the status, forgets its key. *)
Idle(pg) == [pg EXCEPT !.step = "idle", !.key = NoRecord, !.again = FALSE]
ToStatus(pg) == [pg EXCEPT !.step = "status", !.key = NoRecord]

Faulty == faults < MaxFaults /\ faults' = faults + 1

FreshChallenge(c) == challenge[c] = NoChallenge /\ \A p \in Pages : page[p].pending.name # c
FreshSession(s) == session[s] = NoSession /\ \A p \in Pages : page[p].session # s

(* verifyRequest: the session stands, its key is registered, and the request *)
(* is signed with it, by the key the browser's database has at that moment.  *)
Accepts(p) ==
  LET s == page[p].session IN
  /\ s # None /\ session[s] # NoSession
  /\ session[s].key \in registered
  /\ session[s].key = store.id

(***************************************************************************)
(* A page connects.                                                        *)
(***************************************************************************)

(* connect: a session that has not expired is taken as it is. *)
Connect(p) ==
  /\ page[p].step = "idle"
  /\ Moves(p, [page[p] EXCEPT !.step = IF page[p].session # None THEN "status" ELSE "info"])
  /\ UNCHANGED <<Runtime, store, faults>>

(* connectOnce up to the key: another Runtime than before voids what the *)
(* page has of it.                                                       *)
ReadInfo(p) ==
  /\ page[p].step = "info"
  /\ Moves(p, IF page[p].known
              THEN [page[p] EXCEPT !.step = "load"]
              ELSE [page[p] EXCEPT !.step = "load", !.known = TRUE, !.session = None, !.pending = NoPending])
  /\ UNCHANGED <<Runtime, store, faults>>

(* What connectOnce does with its key: answer the challenge it still has, *)
(* give that up if it is another key's, or ask for one.                   *)
WithKey(pg, key) ==
  IF pg.pending = NoPending THEN [pg EXCEPT !.key = key, !.step = "challenge"]
  ELSE IF pg.pending.key = key.id THEN [pg EXCEPT !.key = key, !.step = "exchange"]
  ELSE Idle([pg EXCEPT !.pending = NoPending])

(* requireKey: the stored key, or a new one that is stored later. *)
LoadKey(p) ==
  /\ page[p].step = "load"
  /\ Moves(p, IF store = NoRecord THEN [page[p] EXCEPT !.step = "generate"] ELSE WithKey(page[p], store))
  /\ UNCHANGED <<Runtime, store, faults>>

GenerateKey(p) ==
  /\ page[p].step = "generate"
  /\ store' = [id |-> p, registered |-> FALSE]
  /\ Moves(p, WithKey(page[p], store'))
  /\ UNCHANGED <<Runtime, faults>>

(* Mutant: the limit on open challenges is not looked at. *)
GivenAlways(key, c) ==
  \/ /\ key \notin registered
     /\ c \in Open /\ challenge[c].key = key
     /\ UNCHANGED challenge
  \/ /\ key \in registered \/ \A d \in Open : challenge[d].key # key
     /\ FreshChallenge(c) /\ \A d \in 1..(c - 1) : ~FreshChallenge(d)
     /\ challenge' = [challenge EXCEPT ![c] = [key |-> key, revoked |-> FALSE]]

(* createChallenge of the Runtime: a key that is not registered is given the *)
(* challenge it already has; a new one only below the limit.                 *)
Given(key, c) ==
  \/ /\ key \notin registered
     /\ c \in Open /\ challenge[c].key = key
     /\ UNCHANGED challenge
  \/ /\ key \in registered \/ \A d \in Open : challenge[d].key # key
     /\ Cardinality(Open) < PendingLimit
     /\ FreshChallenge(c) /\ \A d \in 1..(c - 1) : ~FreshChallenge(d)
     /\ challenge' = [challenge EXCEPT ![c] = [key |-> key, revoked |-> FALSE]]

TooMany(key) ==
  /\ key \in registered \/ \A d \in Open : challenge[d].key # key
  /\ Cardinality(Open) >= PendingLimit

AsksByName(p) == page[p].step = "challenge" /\ page[p].key.registered

(* createChallenge of the page: a challenge is kept, unless the Runtime was   *)
(* another when the page read its name; a refusal ends the connect; the       *)
(* answer that the key is unknown makes it ask again with the whole key.      *)
ReceiveChallenge(p) ==
  /\ page[p].step \in {"challenge", "rechallenge"}
  /\ AsksByName(p) => page[p].key.id \in registered
  /\ \E c \in Challenges :
       /\ Given(page[p].key.id, c)
       /\ Moves(p, IF page[p].known
                   THEN [page[p] EXCEPT !.step = "exchange", !.pending = [name |-> c, key |-> page[p].key.id]]
                   ELSE Idle([page[p] EXCEPT !.pending = NoPending]))
  /\ UNCHANGED <<registered, session, store, faults>>

RefuseChallenge(p) ==
  /\ page[p].step \in {"challenge", "rechallenge"}
  /\ AsksByName(p) => page[p].key.id \in registered
  /\ TooMany(page[p].key.id)
  /\ Moves(p, Idle(page[p]))
  /\ UNCHANGED <<Runtime, store, faults>>

KeyUnknown(p) ==
  /\ AsksByName(p) /\ page[p].key.id \notin registered
  /\ Moves(p, [page[p] EXCEPT !.step = "unregister", !.key.registered = FALSE])
  /\ UNCHANGED <<Runtime, store, faults>>

SaveUnregistered(p) ==
  /\ page[p].step = "unregister"
  /\ store' = page[p].key
  /\ Moves(p, [page[p] EXCEPT !.step = "rechallenge"])
  /\ UNCHANGED <<Runtime, faults>>

(* exchange of the Runtime: a challenge is used up, its key registered. *)
Exchanged(c, s) ==
  /\ c \in Open
  /\ FreshSession(s) /\ \A t \in 1..(s - 1) : ~FreshSession(t)
  /\ challenge' = [challenge EXCEPT ![c] = NoChallenge]
  /\ registered' = registered \cup {challenge[c].key}
  /\ session' = [session EXCEPT ![s] = challenge[c]]

(* The answer is a session. A refusal leaves the page its challenge, which it *)
(* will send again until it expires.                                          *)
ReceiveSession(p) ==
  /\ page[p].step = "exchange"
  /\ \E s \in Sessions :
       /\ Exchanged(page[p].pending.name, s)
       /\ LET pg == [page[p] EXCEPT !.session = s, !.pending = NoPending]
          IN Moves(p, IF pg.key.registered THEN ToStatus(pg) ELSE [pg EXCEPT !.step = "save"])
  /\ UNCHANGED <<store, faults>>

RefuseExchange(p) ==
  /\ page[p].step = "exchange" /\ page[p].pending.name \notin Open
  /\ Moves(p, Idle(page[p]))
  /\ UNCHANGED <<Runtime, store, faults>>

SaveRegistered(p) ==
  /\ page[p].step = "save"
  /\ store' = [page[p].key EXCEPT !.registered = TRUE]
  /\ Moves(p, ToStatus(page[p]))
  /\ UNCHANGED <<Runtime, faults>>

(* Mutant: the store connects again without dropping the session. *)
RefusedOnly(pg) ==
  IF pg.again THEN Idle(pg) ELSE [pg EXCEPT !.step = "status", !.again = TRUE]

(* The store's connect reads the status; refused, it drops the session and *)
(* connects once more.                                                     *)
Refused(pg) ==
  LET without == [pg EXCEPT !.session = None, !.pending = NoPending]
  IN IF pg.again THEN Idle(without) ELSE [without EXCEPT !.step = "info", !.again = TRUE]

ReadStatus(p) ==
  /\ page[p].step = "status"
  /\ Moves(p, IF Accepts(p) THEN Idle(page[p]) ELSE Refused(page[p]))
  /\ UNCHANGED <<Runtime, store, faults>>

(***************************************************************************)
(* Other requests of the page. An accepted one changes nothing here. The   *)
(* answer to a refused one drops whatever session the page then has.       *)
(***************************************************************************)
RequestDenied(p) ==
  /\ page[p].session # None /\ ~page[p].denied /\ ~Accepts(p)
  /\ Moves(p, [page[p] EXCEPT !.denied = TRUE])
  /\ UNCHANGED <<Runtime, store, faults>>

LateDenial(p) ==
  /\ page[p].denied
  /\ Moves(p, [page[p] EXCEPT !.denied = FALSE, !.session = None])
  /\ UNCHANGED <<Runtime, store, faults>>

(* Mutant: a revocation leaves the key's open challenges. *)
NoChallengeOf(key) == {}

(* What a revocation takes with it. *)
ChallengesOf(key) == {c \in Open : challenge[c].key = key}
SessionsOf(key) == {s \in Live : session[s].key = key}

(* revokeRegistration, by a request under a session of that key. *)
RevokeRegistration(p) ==
  /\ Accepts(p) /\ Faulty
  /\ LET key == session[page[p].session].key IN
     /\ registered' = registered \ {key}
     /\ challenge' = [c \in Challenges |->
          IF c \in ChallengesOf(key) THEN NoChallenge
          ELSE IF challenge[c].key = key THEN [challenge[c] EXCEPT !.revoked = TRUE]
          ELSE challenge[c]]
     /\ session' = [s \in Sessions |->
          IF s \in SessionsOf(key) THEN NoSession
          ELSE IF session[s].key = key THEN [session[s] EXCEPT !.revoked = TRUE]
          ELSE session[s]]
  /\ UNCHANGED <<store, page>>

RevokeSession(p) ==
  /\ Accepts(p) /\ Faulty
  /\ session' = [session EXCEPT ![page[p].session] = NoSession]
  /\ UNCHANGED <<registered, challenge, store, page>>

(***************************************************************************)
(* The clock, the Runtime's end, and answers that never come (an aborted   *)
(* or superseded connect, its timeout, a broken connection).               *)
(***************************************************************************)
Answering(c) == c \in Open /\ \E p \in Pages : page[p].step = "exchange" /\ page[p].pending.name = c

ExpireChallenge(c) ==
  /\ c \in Open \/ \E p \in Pages : page[p].pending.name = c
  /\ IF Answering(c) THEN Faulty ELSE UNCHANGED faults
  /\ challenge' = [challenge EXCEPT ![c] = NoChallenge]
  /\ page' = [p \in Pages |->
       IF page[p].pending.name = c THEN [page[p] EXCEPT !.pending = NoPending] ELSE page[p]]
  /\ UNCHANGED <<registered, session, store>>

Used(s) == \E p \in Pages : page[p].session = s

ExpireSession(s) ==
  /\ s \in Live \/ Used(s)
  /\ IF Used(s) THEN Faulty ELSE UNCHANGED faults
  /\ session' = [session EXCEPT ![s] = NoSession]
  /\ page' = [p \in Pages |-> IF page[p].session = s THEN [page[p] EXCEPT !.session = None] ELSE page[p]]
  /\ UNCHANGED <<registered, challenge, store>>

Restart ==
  /\ Faulty
  /\ challenge' = [c \in Challenges |-> NoChallenge]
  /\ session' = [s \in Sessions |-> NoSession]
  /\ page' = [p \in Pages |-> [page[p] EXCEPT !.known = FALSE]]
  /\ UNCHANGED <<registered, store>>

LoseAnswer(p) ==
  /\ Faulty
  /\ page[p].step \in {"info", "challenge", "rechallenge", "exchange", "status"}
  /\ \/ UNCHANGED Runtime
     \/ /\ page[p].step \in {"challenge", "rechallenge"}
        /\ AsksByName(p) => page[p].key.id \in registered
        /\ \E c \in Challenges : Given(page[p].key.id, c)
        /\ UNCHANGED <<registered, session>>
     \/ /\ page[p].step = "exchange"
        /\ \E s \in Sessions : Exchanged(page[p].pending.name, s)
  /\ Moves(p, Idle(page[p]))
  /\ UNCHANGED store

(* What a page does by itself. *)
Advance(p) ==
  \/ Connect(p) \/ ReadInfo(p) \/ LoadKey(p) \/ GenerateKey(p)
  \/ ReceiveChallenge(p) \/ RefuseChallenge(p) \/ KeyUnknown(p) \/ SaveUnregistered(p)
  \/ ReceiveSession(p) \/ RefuseExchange(p) \/ SaveRegistered(p) \/ ReadStatus(p)

Next ==
  \/ \E p \in Pages :
       \/ Advance(p) \/ RequestDenied(p) \/ LateDenial(p)
       \/ RevokeRegistration(p) \/ RevokeSession(p) \/ LoseAnswer(p)
  \/ \E c \in Challenges : ExpireChallenge(c)
  \/ \E s \in Sessions : ExpireSession(s)
  \/ Restart

Spec == Init /\ [][Next]_vars

(* A page's loop goes on, and what it waits for is answered; a challenge   *)
(* lives for a minute; a session nobody uses ends.                         *)
FairSpec ==
  /\ Spec
  /\ \A p \in Pages : WF_vars(Advance(p)) /\ WF_vars(LateDenial(p))
  /\ \A c \in Challenges : WF_vars(ExpireChallenge(c))
  /\ \A s \in Sessions : WF_vars(ExpireSession(s) /\ ~Used(s))

(***************************************************************************)
(* Properties.                                                             *)
(***************************************************************************)

(* A revoked key has no session, and a challenge it was given before cannot *)
(* bring it back (revokeRegistration, exchange).                            *)
RevokedStaysOut ==
  \A s \in Live : session[s].key \in registered /\ ~session[s].revoked

(* Whatever was lost, restarted or revoked, and though the pages may have    *)
(* made a key each and sent a used challenge again: once that ends, every    *)
(* page comes to hold a session under which its requests are accepted, and   *)
(* keeps it (connect, connectOnce, request).                                 *)
PagesSettle == \A p \in Pages : <>[]Accepts(p)
=============================================================================
