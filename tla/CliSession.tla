----------------------------- MODULE CliSession -----------------------------
(***************************************************************************)
(* The Dreamina CLI as the local agents of one computer share it.  There   *)
(* is one CLI with one account signed in, whoever started it; any number   *)
(* of agent processes run it, one invocation at a time, under the lease of *)
(* DreaminaCliArbiter (dreamina-cli-arbiter.ts), whose state file also     *)
(* keeps the session: an opaque binding that stands for the account.       *)
(* DreaminaCliService (dreamina-cli.ts) signs in and out and binds the     *)
(* session; DreaminaCliRuntime (dreamina-cli-runtime.ts) submits work      *)
(* under the bound account and asks for its result only under that account. *)
(*                                                                         *)
(* An invocation is a call of the agent: its acquire, its CLI child, the   *)
(* commit and the release, once for the service and, for work of the       *)
(* runtime, once more after the status check of ensureReady.  Mutations    *)
(* of the state file are atomic: they are made under its lock.  Time is    *)
(* the set late: the requests whose queue entry or lease has passed its    *)
(* expiresAt.  A binding is 32 random bytes and a device code is unique:   *)
(* each is named by the invocation that made it.  As a binding is never    *)
(* used twice, it stands for sessionEpoch too.  The version child of       *)
(* prepare changes nothing and is left out.                                *)
(***************************************************************************)
EXTENDS Naturals, FiniteSets

CONSTANTS
    Processes, Accounts, None,
    NumInvocations,  \* bound on the invocations made
    MaxPending,      \* bound on the invocations made at the same time
    MaxFaults        \* bound on crashes and on leases lost by a live process

ASSUME CliAssumption ==
    /\ NumInvocations \in Nat /\ MaxPending \in Nat /\ MaxFaults \in Nat
    /\ None \notin Processes \cup Accounts \cup (1..NumInvocations)

Invocations == 1..NumInvocations   \* in the order they are made

VARIABLES
    arbiter,    \* the state file: ticket of each queued request, active lease, session
    late,       \* requests whose queue entry or lease has expired
    flow,       \* device code each process waits to see confirmed, this.flow
    job,        \* the invocations
    cli,        \* the account the CLI is signed in to
    confirmed,  \* the account a person confirmed a device code with
    receipts,   \* the accepted records of the journal, by submitting invocation
    answers,    \* query results given back for a receipt
    owner,      \* the account that was signed in when a binding was made
    contested,  \* bindings made while a code for another account could be redeemed
    faults

vars == <<arbiter, late, flow, job, cli, confirmed, receipts, answers, owner, contested, faults>>
outside == <<flow, cli, confirmed, receipts, answers, owner, contested, faults>>

Account == Accounts \cup {None}
Invocation == Invocations \cup {None}
ServiceWork == {"login", "logout", "check", "credit"}   \* the work of the service
Resting == [pc |-> "idle", proc |-> None, op |-> "none", goal |-> "none",
            target |-> None, code |-> None, expect |-> None, session |-> None,
            exit |-> FALSE, ok |-> FALSE, stale |-> FALSE, seen |-> None]

(* What an invocation is known by when it is over. *)
Over(pc) == [Resting EXCEPT !.pc = pc]

ArbiterState == [ticket : [Invocations -> Nat], nextTicket : Nat \ {0},
                 active : Invocation, session : Invocation]
Job == [pc : {"idle", "begun", "queued", "granted", "ran", "leaving", "done",
              "orphan", "dead"},
        proc : Processes \cup {None}, op : ServiceWork \cup {"submit", "query", "none"},
        goal : {"login", "logout", "status", "submit", "query", "none"},
        target : Invocation, code : Invocation, expect : Invocation,
        session : Invocation, exit : BOOLEAN, ok : BOOLEAN, stale : BOOLEAN,
        seen : Account]
Receipt == [binding : Invocation, account : Account]

TypeOK ==
    /\ arbiter \in ArbiterState
    /\ \A i, k \in Invocations :
          arbiter.ticket[i] = arbiter.ticket[k] => i = k \/ arbiter.ticket[i] = 0
    /\ late \subseteq {i \in Invocations : arbiter.ticket[i] # 0 \/ arbiter.active = i}
    /\ flow \in [Processes -> Invocation]
    /\ job \in [Invocations -> Job]
    /\ cli \in Account
    /\ confirmed \in [Invocations -> Account]
    /\ receipts \in [Invocations -> Receipt]
    /\ answers \subseteq [receipt : Invocations, account : Account]
    /\ owner \in [Invocations -> Account]
    /\ contested \subseteq Invocations
    /\ faults \in 0..MaxFaults

Init ==
    /\ arbiter = [ticket |-> [i \in Invocations |-> 0], nextTicket |-> 1,
                  active |-> None, session |-> None]
    /\ late = {}
    /\ flow = [p \in Processes |-> None]
    /\ job = [i \in Invocations |-> Resting]
    /\ cli = None
    /\ confirmed = [i \in Invocations |-> None]
    /\ receipts = [i \in Invocations |-> [binding |-> None, account |-> None]]
    /\ answers = {}
    /\ owner = [i \in Invocations |-> None]
    /\ contested = {}
    /\ faults = 0

-----------------------------------------------------------------------------
(* The arbiter. *)

Queued(i) == arbiter.ticket[i] # 0   \* tickets are counted from 1
Accepted(i) == receipts[i].binding # None

(* pruneExpired: what every mutation of the arbiter begins with. *)
PrunedTicket == [i \in Invocations |-> IF i \in late THEN 0 ELSE arbiter.ticket[i]]
(* Mutant: only the queue is pruned. *)
ActiveKept == arbiter.active

PrunedActive == IF arbiter.active \in late THEN None ELSE arbiter.active

(* assertLeaseState, and the first half of assertCurrent. *)
HoldsLease(i) == arbiter.active = i /\ i \notin late
(* Mutant: a request is granted in whatever session there is. *)
AnySession(i) == i \in Invocations

(* assertExpectedSession. *)
ExpectedSession(i) == job[i].expect \in {None, arbiter.session}

(* The request with the smallest ticket that has not expired. *)
Waiting(i) == Queued(i) /\ i \notin late
First(i) ==
    /\ Waiting(i)
    /\ \A k \in Invocations : Waiting(k) => arbiter.ticket[i] <= arbiter.ticket[k]

(* acquire, the ticket. *)
Enqueue(i) ==
    /\ job[i].pc = "begun"
    /\ arbiter' = [arbiter EXCEPT !.ticket = [PrunedTicket EXCEPT ![i] = arbiter.nextTicket],
                                  !.nextTicket = @ + 1, !.active = PrunedActive]
    /\ late' = {}
    /\ job' = [job EXCEPT ![i].pc = "queued"]
    /\ UNCHANGED outside

(* acquire, a round of its loop that finds the lease free and the request  *)
(* first in the queue.                                                     *)
Grant(i) ==
    /\ job[i].pc = "queued"
    /\ First(i) /\ PrunedActive = None
    /\ ExpectedSession(i)
    /\ arbiter' = [arbiter EXCEPT !.ticket = [PrunedTicket EXCEPT ![i] = 0], !.active = i]
    /\ late' = {}
    /\ job' = [job EXCEPT ![i].pc = "granted", ![i].session = arbiter.session]
    /\ UNCHANGED outside

(* acquire, a round that leaves the request waiting. *)
Wait(i) ==
    /\ job[i].pc = "queued" /\ Waiting(i)
    /\ PrunedActive # None \/ ~First(i)
    /\ arbiter' = [arbiter EXCEPT !.ticket = PrunedTicket, !.active = PrunedActive]
    /\ late' = {}
    /\ UNCHANGED <<job, outside>>

(* acquire fails: the deadline has passed, the session is not the expected *)
(* one, or the caller has gone.  removeQueued takes the entry out.         *)
GiveUp(i) ==
    /\ job[i].pc \in {"begun", "queued"}
    /\ arbiter' = [arbiter EXCEPT !.ticket[i] = 0]
    /\ late' = late \ {i}
    /\ job' = [job EXCEPT ![i] = Over("done")]
    /\ UNCHANGED outside

(* What makes the loop of acquire throw by itself. *)
Turned(i) == \/ ~Waiting(i)
             \/ ~ExpectedSession(i) /\ First(i) /\ PrunedActive = None

(* The heartbeat comes after the lease had expired and nobody has pruned   *)
(* it: refreshLease does not look at expiresAt.                            *)
Refresh(i) ==
    /\ job[i].pc \in {"granted", "ran", "leaving"}
    /\ arbiter.active = i /\ i \in late
    /\ ExpectedSession(i)
    /\ late' = late \ {i}
    /\ UNCHANGED <<arbiter, job, outside>>

(* The process of the invocation has died. *)
Gone(i) == job[i].pc \in {"orphan", "dead"}

(* expiresAt passes: for a queue entry its deadline, for a lease without   *)
(* a heartbeat because its process is dead or, as a fault, stalled.        *)
Expire(i) ==
    /\ i \notin late
    /\ late' = late \cup {i}
    /\ \/ Queued(i) /\ UNCHANGED faults
       \/ /\ arbiter.active = i /\ Gone(i)
          /\ UNCHANGED faults
       \/ /\ arbiter.active = i /\ ~Gone(i)
          /\ faults < MaxFaults /\ faults' = faults + 1
    /\ UNCHANGED <<arbiter, flow, job, cli, confirmed, receipts, answers, owner, contested>>

-----------------------------------------------------------------------------
(* What people ask of a process. *)

Pending == {i \in Invocations : job[i].pc \notin {"idle", "done", "dead"}}
Fresh(i) ==
    /\ job[i].pc = "idle" /\ \A k \in 1..i-1 : job[k].pc # "idle"
    /\ Cardinality(Pending) < MaxPending
Begin(i, p, op, goal, target, code) ==
    /\ Fresh(i)
    /\ job' = [job EXCEPT ![i] = [Resting EXCEPT !.pc = "begun", !.proc = p, !.op = op,
                                 !.goal = goal, !.target = target, !.code = code]]

(* startLogin, unless its own process waits for a device code; it looks      *)
(* before the version child, and knows nothing of other processes.         *)
StartLogin(i, p) ==
    /\ flow[p] = None
    /\ Begin(i, p, "login", "login", None, None)
    /\ UNCHANGED <<arbiter, late, outside>>

(* readStatus, for itself or as the ensureReady of a submission or a query *)
(* of receipt t: it redeems the pending device code, if there is one.      *)
StartStatus(i, p, goal, t) ==
    /\ IF goal = "query" THEN t \in Invocations /\ Accepted(t) ELSE t = None
    /\ Begin(i, p, IF flow[p] = None THEN "credit" ELSE "check", goal, t, flow[p])
    /\ UNCHANGED <<arbiter, late, outside>>

(* The invocation throws: its finally block is all that is left of it. *)
Failing(j) == [j EXCEPT !.pc = "leaving", !.exit = FALSE, !.seen = None]

(* logout: the earlier work of the service in this process has a stale     *)
(* epoch.  Children that run are killed, what waits for the lease is not.  *)
StartLogout(i, p) ==
    /\ Fresh(i)
    /\ flow' = [flow EXCEPT ![p] = None]
    /\ job' = [k \in Invocations |->
          IF k = i
          THEN [Resting EXCEPT !.pc = "begun", !.proc = p, !.op = "logout", !.goal = "logout"]
          ELSE IF job[k].proc = p /\ job[k].op \in ServiceWork
          THEN [(IF job[k].pc \in {"granted", "ran"} THEN Failing(job[k]) ELSE job[k])
                   EXCEPT !.stale = TRUE]
          ELSE job[k]]
    /\ UNCHANGED <<arbiter, late, cli, confirmed, receipts, answers, owner, contested, faults>>

(* flow.expiresAt passes. *)
FlowExpires(p) ==
    /\ flow[p] # None
    /\ flow' = [flow EXCEPT ![p] = None]
    /\ UNCHANGED <<arbiter, late, job, cli, confirmed, receipts, answers, owner, contested, faults>>

(* The device codes that may still be redeemed, by a process or a child. *)
Redeemable ==
    ({flow[p] : p \in Processes} \cup {job[i].code : i \in Invocations}) \ {None}

(* A person opens the verification page of a device code, signed in as a,  *)
(* while some process or child may still redeem it.                        *)
Confirm(c, a) ==
    /\ confirmed[c] = None
    /\ c \in Redeemable
    /\ confirmed' = [confirmed EXCEPT ![c] = a]
    /\ UNCHANGED <<arbiter, late, flow, job, cli, receipts, answers, owner, contested, faults>>

-----------------------------------------------------------------------------
(* The CLI child of an invocation. *)

(* The accounts a child that succeeds can leave the CLI signed in to: none *)
(* at all if it cannot succeed.  A login may sign the CLI out first, or     *)
(* leave it as it is until the device code is redeemed.                    *)
LeavesSignedIn(i) ==
    CASE job[i].op = "login"  -> {None, cli}
      [] job[i].op = "check"  -> {confirmed[job[i].code]} \ {None}
      [] job[i].op = "logout" -> {None}
      [] OTHER                -> {cli} \ {None}

(* Nobody hears the child of a process that crashed. *)
Answered(j, exit, account) ==
    IF j.pc = "orphan" THEN Over("dead")
    ELSE [j EXCEPT !.pc = "ran", !.exit = exit, !.seen = account]

(* runProcess: the child ends, well or with an exit code.  It neither     *)
(* knows nor asks whether the lease is still held; the child of a process  *)
(* that crashed goes on, for it is detached.                               *)
Run(i) ==
    /\ job[i].pc \in {"granted", "orphan"}
    /\ \E exit \in BOOLEAN, account \in Account :
          /\ IF exit THEN account \in LeavesSignedIn(i) ELSE account = cli
          /\ cli' = account
          /\ job' = [job EXCEPT ![i] = Answered(@, exit, account)]
          /\ contested' = IF exit /\ \E c \in Redeemable : confirmed[c] # account
                          THEN contested \cup {i} ELSE contested
    /\ UNCHANGED <<arbiter, late, flow, confirmed, receipts, answers, owner, faults>>

(* The child cannot be started, times out or is killed, perhaps after it    *)
(* has had its effect.                                                     *)
Killed(i) ==
    /\ job[i].pc \in {"granted", "ran", "orphan"}
    /\ job' = [job EXCEPT ![i] = IF @.pc = "orphan" THEN Over("dead") ELSE Failing(@)]
    /\ UNCHANGED <<arbiter, late, outside>>

-----------------------------------------------------------------------------
(* What is made of the child's answer. *)

(* assertEpoch and assertCurrent after the child. *)
MayCommit(i) == HoldsLease(i) /\ ExpectedSession(i) /\ ~job[i].stale
Committed(i, session) ==
    job' = [job EXCEPT ![i].pc = "leaving", ![i].ok = TRUE, ![i].session = session,
                       ![i].seen = None]

Refused(i) ==
    /\ job[i].pc = "ran"
    /\ ~MayCommit(i)
    /\ job' = [job EXCEPT ![i] = Failing(@)]
    /\ UNCHANGED <<arbiter, late, outside>>

(* Mutant: a sign-in that starts leaves the binding. *)
AdvancesSignedOut(i) ==
    \/ job[i].op = "logout" /\ job[i].exit
    \/ job[i].op = "credit" /\ ~job[i].exit /\ job[i].session # None

(* The commits of the service: which invocations drop the binding            *)
(* (advanceSession), make one when there is none (commitSession in             *)
(* ensureAuthenticatedSession), or keep what they were granted.              *)
Advances(i) ==
    \/ job[i].op \in {"login", "logout"} /\ job[i].exit
    \/ job[i].op = "credit" /\ ~job[i].exit /\ job[i].session # None
Binds(i) ==
    job[i].op \in {"check", "credit"} /\ job[i].exit /\ job[i].session = None

AdvanceSession(i) ==
    /\ job[i].pc = "ran" /\ MayCommit(i)
    /\ Advances(i)
    /\ arbiter' = [arbiter EXCEPT !.session = None]
    /\ Committed(i, None)
    /\ UNCHANGED <<late, outside>>

BindSession(i) ==
    /\ job[i].pc = "ran" /\ MayCommit(i)
    /\ Binds(i)
    /\ arbiter' = [arbiter EXCEPT !.session = i]
    /\ owner' = [owner EXCEPT ![i] = job[i].seen]
    /\ Committed(i, i)
    /\ UNCHANGED <<late, flow, cli, confirmed, receipts, answers, contested, faults>>

KeepSession(i) ==
    /\ job[i].pc = "ran" /\ MayCommit(i)
    /\ job[i].op \in ServiceWork /\ ~Advances(i) /\ ~Binds(i)
    /\ Committed(i, job[i].session)
    /\ UNCHANGED <<arbiter, late, outside>>

(* commitAcceptedReceipt, with the binding commitInvocationFence put into   *)
(* the record before the child was started.                                *)
AcceptReceipt(i) ==
    /\ job[i].pc = "ran" /\ MayCommit(i)
    /\ job[i].op = "submit"
    /\ receipts' = IF job[i].exit
                   THEN [receipts EXCEPT ![i] = [binding |-> job[i].expect,
                                                 account |-> job[i].seen]]
                   ELSE receipts
    /\ Committed(i, job[i].session)
    /\ UNCHANGED <<arbiter, late, flow, cli, confirmed, answers, owner, contested, faults>>

(* query gives the answer back. *)
AnswerQuery(i) ==
    /\ job[i].pc = "ran" /\ MayCommit(i)
    /\ job[i].op = "query"
    /\ answers' = IF job[i].exit
                  THEN answers \cup {[receipt |-> job[i].target, account |-> job[i].seen]}
                  ELSE answers
    /\ Committed(i, job[i].session)
    /\ UNCHANGED <<arbiter, late, flow, cli, confirmed, receipts, owner, contested, faults>>

(* Mutant: the lease goes, the time it had passed stays. *)
ReleasedStale(i) ==
    /\ job[i].pc = "leaving"
    /\ arbiter' = [arbiter EXCEPT !.active = IF @ = i THEN None ELSE @]
    /\ late' = late

(* release, after the assertCurrent that returns the result. *)
Released(i) ==
    /\ job[i].pc = "leaving"
    /\ arbiter' = [arbiter EXCEPT !.active = IF @ = i THEN None ELSE @]
    /\ late' = late \ {i}
Succeeded(i) == job[i].ok /\ HoldsLease(i)
SignedIn(i) == /\ Succeeded(i) /\ job[i].exit
               /\ \/ job[i].op = "credit"
                  \/ job[i].op = "check" /\ ~job[i].stale
(* Mutant: a query goes on in whatever session there is. *)
GoesOnAnyway(i) == job[i].goal \in {"submit", "query"}

(* Work of the runtime that ensureReady lets through: for a query, only     *)
(* one of a receipt that is bound to the session that was found.           *)
GoesOn(i) == \/ job[i].goal = "submit"
             \/ job[i].goal = "query" /\ receipts[job[i].target].binding = job[i].session
Ended(i) == job' = [job EXCEPT ![i] = Over("done")]

(* startLogin remembers the device code. *)
LeaveLogin(i) ==
    /\ Released(i)
    /\ job[i].op = "login"
    /\ flow' = IF Succeeded(i) /\ job[i].exit /\ ~job[i].stale
               THEN [flow EXCEPT ![job[i].proc] = i] ELSE flow
    /\ Ended(i)
    /\ UNCHANGED <<cli, confirmed, receipts, answers, owner, contested, faults>>

(* readStatus finds the CLI signed in. *)
LeaveSignedIn(i) ==
    /\ Released(i)
    /\ SignedIn(i)
    /\ flow' = IF job[i].op = "check" THEN [flow EXCEPT ![job[i].proc] = None] ELSE flow
    /\ IF GoesOn(i)
       THEN job' = [job EXCEPT ![i] = [Resting EXCEPT
              !.pc = "begun", !.proc = job[i].proc, !.op = job[i].goal,
              !.goal = job[i].goal, !.target = job[i].target, !.expect = job[i].session]]
       ELSE Ended(i)
    /\ UNCHANGED <<cli, confirmed, receipts, answers, owner, contested, faults>>

(* Anything else ends here: a failure, a logout, a submission, a query. *)
LeaveEnded(i) ==
    /\ Released(i)
    /\ job[i].op # "login" /\ ~SignedIn(i)
    /\ Ended(i)
    /\ UNCHANGED <<flow, cli, confirmed, receipts, answers, owner, contested, faults>>

-----------------------------------------------------------------------------
(* A process dies: its flow and its invocations with it, but neither their *)
(* queue entries and lease nor, perhaps, the child that runs.              *)
Crash(p) ==
    /\ faults < MaxFaults
    /\ flow[p] # None \/ \E i \in Invocations : job[i].proc = p /\ job[i].pc # "orphan"
    /\ faults' = faults + 1
    /\ flow' = [flow EXCEPT ![p] = None]
    /\ job' = [i \in Invocations |->
          IF job[i].proc # p \/ job[i].pc = "orphan" THEN job[i]
          ELSE IF job[i].pc = "granted" THEN [job[i] EXCEPT !.pc = "orphan"]
          ELSE Over("dead")]
    /\ UNCHANGED <<arbiter, late, cli, confirmed, receipts, answers, owner, contested>>

Serve(i) ==
    \/ Enqueue(i) \/ Grant(i) \/ Wait(i) \/ GiveUp(i) \/ Refresh(i) \/ Expire(i)
    \/ Run(i) \/ Killed(i) \/ Refused(i)
    \/ AdvanceSession(i) \/ BindSession(i) \/ KeepSession(i)
    \/ AcceptReceipt(i) \/ AnswerQuery(i)
    \/ LeaveLogin(i) \/ LeaveSignedIn(i) \/ LeaveEnded(i)

Ask(i) ==
    \E p \in Processes :
       \/ StartLogin(i, p) \/ StartLogout(i, p)
       \/ StartStatus(i, p, "status", None) \/ StartStatus(i, p, "submit", None)
       \/ \E t \in Invocations : StartStatus(i, p, "query", t)

Next ==
    \/ \E i \in Invocations : Serve(i) \/ Ask(i)
    \/ \E p \in Processes : FlowExpires(p) \/ Crash(p)
    \/ \E c \in Invocations, a \in Accounts : Confirm(c, a)

Spec == Init /\ [][Next]_vars

(* The event loop of a live process goes on, its children end or time out  *)
(* and its requests are polled; what a dead process left in the state file *)
(* expires.  Nothing makes a live request reach its deadline.              *)
Fairness ==
    \A i \in Invocations :
       /\ WF_vars(Enqueue(i)) /\ WF_vars(Grant(i) \/ Wait(i))
       /\ WF_vars(job[i].pc = "queued" /\ Turned(i) /\ GiveUp(i))
       /\ WF_vars(Run(i) \/ Killed(i))
       /\ WF_vars(Refused(i) \/ AdvanceSession(i) \/ BindSession(i) \/ KeepSession(i)
                  \/ AcceptReceipt(i) \/ AnswerQuery(i))
       /\ WF_vars(LeaveLogin(i) \/ LeaveSignedIn(i) \/ LeaveEnded(i))
       /\ WF_vars(Gone(i) /\ Expire(i))
FairSpec == Spec /\ Fairness

-----------------------------------------------------------------------------
(* While a binding stands, the CLI is signed in to the account that was     *)
(* signed in when it was made, or to none: whoever is given the binding as *)
(* the name of an account is not told of another one.  It takes the         *)
(* commits of login, checklogin, user_credit and logout, made by different *)
(* processes that stall and die, to keep the two in step.  Sign-ins do      *)
(* overlap, for a process only knows its own: the exception is a binding    *)
(* made for one account while a device code could still be redeemed for     *)
(* another, and no binding made after such a code was redeemed or dropped.  *)
BindingNamesAccount ==
    arbiter.session \notin contested \cup {None} =>
        cli \in {None, owner[arbiter.session]}

(* The account a record of accepted work is bound to is the account the      *)
(* work was submitted and paid under, with the same exception.             *)
ReceiptNamesAccount ==
    \A i \in Invocations :
       Accepted(i) /\ receipts[i].binding \notin contested =>
          receipts[i].account = owner[receipts[i].binding]

(* Accepted work is only queried under the account it was submitted with: *)
(* the answer of a query that ran under another one is not taken for it,   *)
(* with the same exception.                                                *)
QueriedUnderItsAccount ==
    \A answer \in answers :
       receipts[answer.receipt].binding \notin contested =>
          answer.account = receipts[answer.receipt].account

(* A request that waits for the CLI is granted it, unless it reaches its    *)
(* deadline, is cancelled or its process dies: neither the lease nor the    *)
(* queue entries of dead processes stand in its way for ever.              *)
WaiterServed ==
    \A i \in Invocations : job[i].pc = "queued" ~> job[i].pc # "queued"
=============================================================================
