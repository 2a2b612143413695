---------------------------- MODULE MCCliSession ----------------------------
(* Small instances of CliSession. *)
EXTENDS CliSession, TLC

(* Processes are interchangeable, and so are accounts. *)
CliSymmetry == Permutations(Processes) \cup Permutations(Accounts)

(* What the future depends on: the account a device code was confirmed with *)
(* matters while somebody may redeem the code, and the account of a binding *)
(* while the state file, an invocation or a receipt names the binding; of   *)
(* the tickets only the order matters.                                      *)
Named == {arbiter.session} \cup
    UNION {{job[i].expect, job[i].session, receipts[i].binding} : i \in Invocations}
Order == {<<i, k>> \in Invocations \X Invocations :
             0 < arbiter.ticket[i] /\ arbiter.ticket[i] <= arbiter.ticket[k]}
CliView ==
    <<arbiter.active, arbiter.session, Order, late, flow, job, cli, receipts, answers, faults,
      contested \cap (Named \cup {i \in Invocations : job[i].pc = "ran"}),
      [c \in Redeemable |-> confirmed[c]], [b \in Named \ {None} |-> owner[b]]>>

(* Bounds: a run with a fault has one invocation less; only the first        *)
(* invocation is a login.  Both cut what the surroundings may still start.   *)
FewerWithFault == faults = 0 \/ job[NumInvocations].pc = "idle"
OneLogin == \A i \in Invocations \ {1} : job[i].goal # "login"

(* What ensureAuthenticatedSession would have to establish for a record to be *)
(* queried under its account whatever sign-ins overlap: a standing binding is *)
(* kept, whichever account the child has just signed in to.                   *)
QueriedUnderOneAccount ==
    \A answer \in answers : answer.account = receipts[answer.receipt].account
=============================================================================
