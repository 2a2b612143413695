---------------------------- MODULE EffectLease -----------------------------
(***************************************************************************)
(* The claim of a product effect: an output of a finished generation is    *)
(* stored, put on a canvas or handed to an agent by one page at a time     *)
(* (provider-neutral-generation-effects.ts, generation-task-materializer.ts). *)
(* The record of an effect is shared by the pages and every operation on   *)
(* it runs under the lock of the effect, so each is one step.  A claim     *)
(* raises the fence and expires unless its page renews it in time; the     *)
(* token of a claim is random, so a claim is known by its page and fence.  *)
(* Time is the set late: the effects whose pending claim has expired.      *)
(***************************************************************************)
EXTENDS Naturals, WebPages

CONSTANTS
    MaxExpiries,  \* bound on the claims that expire while their page is open
    MaxClaims     \* bound on the claims of one effect

ASSUME LeaseAssumption == MaxExpiries \in Nat /\ MaxClaims \in Nat

VARIABLES
    record,    \* the stored record of each effect
    late,      \* effects whose claim has expired
    consumer,  \* the run of consumeEffect or materialize of each page
    expiries

leaseVars == <<record, late, consumer, expiries>>

NoClaim == [state |-> "none", fence |-> 0, holder |-> None]
AtRest == [pc |-> "idle", effect |-> None, fence |-> 0]

LeaseTypeOK ==
    /\ record \in [Effects -> [state : {"none", "pending", "completed", "released"},
                               fence : 0..MaxClaims, holder : Tabs \cup {None}]]
    /\ late \subseteq {e \in Effects : record[e].state = "pending"}
    /\ consumer \in [Tabs -> [pc : {"idle", "waiting", "claimed", "applying", "applied",
                                    "failing", "done"},
                              effect : Effects \cup {None}, fence : 0..MaxClaims]]
    /\ expiries \in 0..MaxExpiries

LeaseInit ==
    /\ record = [e \in Effects |-> NoClaim]
    /\ late = {}
    /\ consumer = [t \in Tabs |-> AtRest]
    /\ expiries = 0

(* The page holds the claim it made: same token and fence, not expired.    *)
Holds(t) ==
    LET e == consumer[t].effect
    IN  /\ record[e].state = "pending" /\ e \notin late
        /\ record[e].holder = t /\ record[e].fence = consumer[t].fence

Working(t) == consumer[t].pc \in {"claimed", "applying", "applied"}

(* A page takes up a finished task with an output it has not consumed.     *)
Start(t, e) ==
    /\ consumer[t].pc = "idle" /\ record[e].fence < MaxClaims
    /\ consumer' = [consumer EXCEPT ![t] = [AtRest EXCEPT !.pc = "waiting", !.effect = e]]
    /\ UNCHANGED <<record, late, expiries>>

(* claimWhenAvailable asks until the effect is not claimed by another.     *)
FindCompleted(t) ==
    /\ consumer[t].pc = "waiting"
    /\ record[consumer[t].effect].state = "completed"
    /\ consumer' = [consumer EXCEPT ![t].pc = "done"]
    /\ UNCHANGED <<record, late, expiries>>

Claimable(e) ==
    \/ record[e].state \in {"none", "released"}
    \/ record[e].state = "pending" /\ e \in late

Claim(t) ==
    LET e == consumer[t].effect
        fence == record[e].fence + 1
    IN  /\ consumer[t].pc = "waiting"
        /\ Claimable(e) /\ fence <= MaxClaims
        /\ record' = [record EXCEPT ![e] = [state |-> "pending", fence |-> fence, holder |-> t]]
        /\ late' = late \ {e}
        /\ consumer' = [consumer EXCEPT ![t].pc = "claimed", ![t].fence = fence]
        /\ UNCHANGED expiries

(* The consumer is run.                                                    *)
Apply(t) ==
    /\ consumer[t].pc = "claimed"
    /\ consumer' = [consumer EXCEPT ![t].pc = "applying"]
    /\ UNCHANGED <<record, late, expiries>>

(* It has returned, with or without an error.                              *)
Return(t, ok) ==
    /\ consumer[t].pc = "applying"
    /\ consumer' = [consumer EXCEPT ![t].pc = IF ok THEN "applied" ELSE "failing"]
    /\ UNCHANGED <<record, late, expiries>>

(* Before and after the consumer an abort is looked for: the heartbeat may *)
(* have found that the claim is gone.  A renewal that succeeds changes     *)
(* nothing here.                                                           *)
GiveUp(t) ==
    /\ consumer[t].pc \in {"claimed", "applied"} /\ ~Holds(t)
    /\ consumer' = [consumer EXCEPT ![t].pc = "failing"]
    /\ UNCHANGED <<record, late, expiries>>

(* Mutant: an expired or lost claim completes the effect.                  *)
CompleteUnfenced(t) ==
    LET e == consumer[t].effect
    IN  /\ consumer[t].pc = "applied"
        /\ record' = [record EXCEPT ![e].state = "completed", ![e].holder = None]
        /\ consumer' = [consumer EXCEPT ![t].pc = "done"]
        /\ UNCHANGED <<late, expiries>>

Complete(t) ==
    LET e == consumer[t].effect
    IN  /\ consumer[t].pc = "applied" /\ Holds(t)
        /\ record' = [record EXCEPT ![e].state = "completed", ![e].holder = None]
        /\ consumer' = [consumer EXCEPT ![t].pc = "done"]
        /\ UNCHANGED <<late, expiries>>

(* releaseClaim; a claim that is not held any more is left alone.  The     *)
(* task is taken up again when its page looks for unfinished work.         *)
Release(t) ==
    LET e == consumer[t].effect
    IN  /\ consumer[t].pc = "failing"
        /\ record' = IF Holds(t)
                     THEN [record EXCEPT ![e].state = "released", ![e].holder = None]
                     ELSE record
        /\ consumer' = [consumer EXCEPT ![t] = AtRest]
        /\ UNCHANGED <<late, expiries>>

(* A claim expires: of a closed page for certain, of an open one when it   *)
(* is suspended for longer than a claim lasts.                             *)
Abandoned(e) ==
    /\ record[e].state = "pending"
    /\ LET t == record[e].holder
       IN  ~(Working(t) \/ consumer[t].pc = "failing")
           \/ consumer[t].effect # e \/ consumer[t].fence # record[e].fence

ExpireAbandoned(e) ==
    /\ Abandoned(e) /\ e \notin late
    /\ late' = late \cup {e}
    /\ UNCHANGED <<record, consumer, expiries>>

Expire(e) ==
    /\ record[e].state = "pending" /\ e \notin late /\ ~Abandoned(e)
    /\ expiries < MaxExpiries /\ expiries' = expiries + 1
    /\ late' = late \cup {e}
    /\ UNCHANGED <<record, consumer>>

(* The page is closed in the middle of its work.                           *)
Close(t) ==
    /\ consumer' = [consumer EXCEPT ![t] = AtRest]
    /\ UNCHANGED <<record, late, expiries>>
=============================================================================
