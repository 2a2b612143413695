--------------------------- MODULE DreaminaJournal ---------------------------
(***************************************************************************)
(* The journal of generation tasks that several Runtimes of the agent      *)
(* share (dreamina-cli-runtime.ts, dreamina-task-reconciler.ts, the record *)
(* rules of dreamina-cli-state.ts).  Every access takes the lock of the    *)
(* state file, so an operation under it is one step here (StateFile says   *)
(* what the lock is worth); between two of them the other Runtimes move.   *)
(*                                                                         *)
(* A task waits in a durable queue, reserves one of MaxActive slots, gets  *)
(* leave to spawn the CLI, is spawned, and its receipt is stored; after    *)
(* that the Runtimes poll the provider under a lease.  The leases of queue,*)
(* reservation and poll are kept by heartbeats; one expires when its       *)
(* Runtime is gone or, MaxStalls times, when it is held up.                *)
(* The arbiter's one-invocation-at-a-time is CliSession's: here any number *)
(* of Runtimes may spawn at once.  Writes that fail are left out, but for  *)
(* the one that always fails (Delete).  The hidden mark of a record that   *)
(* was deleted after its submission changes no other operation, and a task *)
(* the provider cancelled is treated as one that failed there.             *)
(***************************************************************************)
EXTENDS Naturals, FiniteSets

CONSTANTS
    Runtimes,
    Tasks,
    None,         \* no Runtime, or no task
    Gone,         \* a Runtime identifier whose process has ended
    MaxActive,    \* maxActiveTasks
    MaxTickets,   \* bound on the tasks enqueued
    MaxEnds,      \* bound on the Runtimes that die or are disposed of
    MaxStalls,    \* bound on what holds a living Runtime up, and on clocks set back
    MaxErrors     \* bound on the polls that fail

ASSUME DreaminaJournalAssumption ==
    /\ None \notin Runtimes /\ Gone \notin Runtimes /\ None # Gone
    /\ None \notin Tasks /\ IsFiniteSet(Tasks)
    /\ MaxActive \in Nat \ {0}
    /\ {MaxTickets, MaxEnds, MaxStalls, MaxErrors} \subseteq Nat

VARIABLES
    journal,   \* the record of each task in the state file
    known,     \* the state each Runtime last saw of each task
    nextTicket,
    status,    \* of each Runtime: down or up
    ready,     \* its reconciler has initialised
    work,      \* what it is doing about each task
    poll,      \* the poll its reconciler is in
    provider,  \* of each task there: none, working, completed or failed
    sends,     \* history: how often each task was given to the provider's CLI
    ends, stalls, errors

vars == <<journal, known, nextTicket, status, ready, work, poll, provider, sends,
          ends, stalls, errors>>
budgets == <<ends, stalls, errors>>
outside == <<provider, sends>>

States == {"absent", "queued", "pending", "accepted", "succeeded", "failed", "cancelled",
           "unknown", "deleted"}
Ended == {"completed", "failed"}
Work == {"none", "starting", "waiting", "unrenewed", "reserved", "permitted", "running", "accepted"}

Owner == Runtimes \cup {None, Gone}
Record == [state : States, owner : Owner, spawnable : BOOLEAN, live : BOOLEAN,
           ticket : 0..MaxTickets, receipt : BOOLEAN, outputs : BOOLEAN, observed : BOOLEAN,
           due : BOOLEAN, poller : Owner, pollLive : BOOLEAN]
Absent == [state |-> "absent", owner |-> None, spawnable |-> FALSE, live |-> FALSE,
           ticket |-> 0, receipt |-> FALSE, outputs |-> FALSE, observed |-> FALSE,
           due |-> FALSE, poller |-> None, pollLive |-> FALSE]

Idle == [task |-> None, seen |-> "nothing"]
Poll == [task : Tasks \cup {None}, seen : Ended \cup {"nothing", "working", "unready", "error"}]

(* validRecord: what the state file may hold.                              *)
Valid(record) ==
    /\ record.owner # None => record.state \in {"queued", "pending"}
    /\ record.spawnable => record.state = "pending"
    /\ record.state \in {"queued", "pending"} => ~record.receipt
    /\ record.state \in {"accepted", "succeeded"} => record.receipt
    /\ record.outputs => record.state = "succeeded"

TypeOK ==
    /\ journal \in [Tasks -> Record] /\ \A t \in Tasks : Valid(journal[t])
    /\ known \in [Runtimes -> [Tasks -> States]]
    /\ nextTicket \in 1..(MaxTickets + 1)
    /\ status \in [Runtimes -> {"down", "up"}]
    /\ ready \in [Runtimes -> BOOLEAN]
    /\ work \in [Runtimes -> [Tasks -> Work]]
    /\ poll \in [Runtimes -> Poll]
    /\ provider \in [Tasks -> Ended \cup {"none", "working"}]
    /\ sends \in [Tasks -> Nat]
    /\ ends \in 0..MaxEnds /\ stalls \in 0..MaxStalls /\ errors \in 0..MaxErrors

Nothing == [t \in Tasks |-> "absent"]
Unoccupied == [t \in Tasks |-> "none"]

Init ==
    /\ journal = [t \in Tasks |-> Absent]
    /\ known = [r \in Runtimes |-> Nothing]
    /\ nextTicket = 1
    /\ status = [r \in Runtimes |-> "up"]
    /\ ready = [r \in Runtimes |-> FALSE]
    /\ work = [r \in Runtimes |-> Unoccupied]
    /\ poll = [r \in Runtimes |-> Idle]
    /\ provider = [t \in Tasks |-> "none"]
    /\ sends = [t \in Tasks |-> 0]
    /\ ends = 0 /\ stalls = 0 /\ errors = 0

-----------------------------------------------------------------------------
(* Reading the journal                                                     *)

Rank(state) ==
    CASE state = "queued" -> 0 [] state = "pending" -> 1 [] state = "accepted" -> 2 [] OTHER -> 3

Unleased(record, state) ==
    [record EXCEPT !.state = state, !.owner = None, !.spawnable = FALSE, !.live = FALSE, !.ticket = 0]

(* What reloadFromDisk makes of a record whose queue lease or reservation  *)
(* has expired: without leave to spawn it was never sent.                  *)
Recovered(record) ==
    IF record.live \/ record.state \notin {"queued", "pending"} THEN record
    ELSE Unleased(record, IF record.spawnable THEN "unknown" ELSE "failed")

Reloaded == [t \in Tasks |-> Recovered(journal[t])]

StatesOf(records) == [t \in Tasks |-> records[t].state]

(* reloadFromDisk refuses a file that lacks a record the Runtime holds, or *)
(* holds further on.                                                       *)
Readable(r) ==
    \A t \in Tasks : known[r][t] # "absent" =>
        /\ journal[t].state # "absent"
        /\ Rank(Reloaded[t].state) >= Rank(known[r][t])

(* The Runtime reloads under the lock and leaves the journal as records.   *)
Writes(r, records) ==
    /\ status[r] = "up" /\ Readable(r)
    /\ journal' = records
    /\ known' = [known EXCEPT ![r] = StatesOf(records)]

Reads(r) == Writes(r, Reloaded)

Refused(r) == status[r] = "up" /\ ~Readable(r) /\ UNCHANGED <<journal, known>>

Turn(r, t, to) == work' = [work EXCEPT ![r][t] = to]
Alone == UNCHANGED <<nextTicket, status, ready, poll, outside, budgets>>

-----------------------------------------------------------------------------
(* The queue                                                               *)

(* Mutant: a submission of unknown outcome gives its slot back.            *)
ReservesUntilUnknown(record) == record.state \in {"pending", "accepted"}

(* reservesOfficialSlot.                                                   *)
ReservesSlot(record) == record.state \in {"pending", "unknown", "accepted"}

(* hasQueuedGenerationPriority: after the slots taken and the tasks before *)
(* it in the queue there is a slot for t.                                  *)
HasPriority(records, t) ==
    LET taken == {u \in Tasks : ReservesSlot(records[u])}
        before == {u \in Tasks : /\ records[u].state = "queued" /\ records[u].live
                                 /\ records[u].ticket < records[t].ticket}
    IN Cardinality(taken) + Cardinality(before) < MaxActive

(* Of the tasks the Runtime has in its own queue none is before t.         *)
Heads(r, t) ==
    \A u \in Tasks : (work[r][u] \in {"waiting", "unrenewed"} /\ known[r][u] = "queued") =>
        journal[t].ticket <= journal[u].ticket

Load(r) == Reads(r) /\ UNCHANGED work /\ Alone

(* enqueueNew: a key that has a record is answered with it.                *)
Enqueue(r, t) ==
    /\ status[r] = "up" /\ work[r][t] = "none" /\ nextTicket <= MaxTickets
    /\ Reloaded[t].state = "absent"
    /\ Writes(r, [Reloaded EXCEPT ![t] =
           [Absent EXCEPT !.state = "queued", !.owner = r, !.live = TRUE, !.ticket = nextTicket]])
    /\ nextTicket' = nextTicket + 1
    /\ Turn(r, t, "starting")
    /\ UNCHANGED <<status, ready, poll, outside, budgets>>

(* The heartbeat of a waiting task fails and is not started again.         *)
HeartbeatEnds(r, t) ==
    /\ work[r][t] = "waiting"
    /\ \/ Refused(r)
       \/ Reads(r) /\ (Reloaded[t].state # "queued" \/ Reloaded[t].owner # r)
    /\ Turn(r, t, "unrenewed")
    /\ Alone

Reserved(r, t) ==
    [Reloaded EXCEPT ![t] = [Unleased(@, "pending") EXCEPT !.owner = r, !.live = TRUE]]

(* reserveSubmissionSlot, for a new task or, by promoteQueueHead, for the  *)
(* first of the Runtime's own queue.                                       *)
Reserve(r, t) ==
    /\ \/ work[r][t] = "starting"
       \/ /\ status[r] = "up" /\ work[r][t] \in {"waiting", "unrenewed"}
          /\ known[r][t] = "queued" /\ Heads(r, t)
    /\ \/ /\ Reloaded[t].state = "queued" /\ HasPriority(Reloaded, t)
          /\ Writes(r, Reserved(r, t)) /\ Turn(r, t, "reserved")
       \/ /\ Reloaded[t].state = "queued" /\ ~HasPriority(Reloaded, t)
          /\ Reads(r) /\ work' = [work EXCEPT ![r][t] = IF @ = "starting" THEN "waiting" ELSE @]
       \/ Reloaded[t].state # "queued" /\ Reads(r) /\ Turn(r, t, "none")
       \/ /\ work[r][t] = "starting" /\ Refused(r) /\ Turn(r, t, "none")
    /\ Alone

-----------------------------------------------------------------------------
(* The submission                                                          *)

Matches(records, r, t) == records[t].state = "pending" /\ records[t].owner = r

(* Mutant: leave to spawn is taken without a look at the reservation.      *)
PermitUnchecked(r, t) ==
    /\ work[r][t] = "reserved"
    /\ Writes(r, [Reloaded EXCEPT ![t].spawnable = TRUE])
    /\ Turn(r, t, "permitted")
    /\ Alone

(* commitInvocationFence.  A cancellation or a journal that is refused     *)
(* while the invocation is held leaves the reservation to expire.          *)
Permit(r, t) ==
    /\ work[r][t] = "reserved"
    /\ \/ /\ Matches(Reloaded, r, t)
          /\ Writes(r, [Reloaded EXCEPT ![t].spawnable = TRUE]) /\ Turn(r, t, "permitted")
       \/ Reads(r) /\ Turn(r, t, "none")
       \/ Refused(r) /\ Turn(r, t, "none")
    /\ Alone

(* runProcess: the CLI starts, and may reach the provider at any time.     *)
Spawn(r, t) ==
    /\ work[r][t] = "permitted"
    /\ Turn(r, t, "running")
    /\ sends' = [sends EXCEPT ![t] = @ + 1]
    /\ \E reached \in {"none", "working"} :
           provider' = [provider EXCEPT ![t] = IF @ = "none" THEN reached ELSE @]
    /\ UNCHANGED <<journal, known, nextTicket, status, ready, poll, budgets>>

(* The invocation was lost, or the account changed: nothing is stored.     *)
LoseInvocation(r, t) ==
    /\ work[r][t] = "running" /\ stalls < MaxStalls
    /\ stalls' = stalls + 1
    /\ Turn(r, t, "none")
    /\ UNCHANGED <<journal, known, nextTicket, status, ready, poll, outside, ends, errors>>

(* commitAcceptedReceipt, some time after the CLI has answered.            *)
Accept(r, t) ==
    /\ work[r][t] = "running" /\ provider[t] # "none"
    /\ \/ /\ Matches(Reloaded, r, t) /\ Reloaded[t].spawnable
          /\ Writes(r, [Reloaded EXCEPT ![t] =
                 [Unleased(@, "accepted") EXCEPT !.receipt = TRUE]])
          /\ Turn(r, t, "accepted")
       \/ Reads(r) /\ ~(Matches(Reloaded, r, t) /\ Reloaded[t].spawnable) /\ Turn(r, t, "none")
       \/ Refused(r) /\ Turn(r, t, "none")
    /\ Alone

Failing == {"reserved", "permitted", "running"}

(* Mutant: a failed submission is forgotten, spawned or not.               *)
ForgetFailure(r, t) ==
    /\ work[r][t] \in Failing
    /\ \/ Matches(Reloaded, r, t) /\ Writes(r, [Reloaded EXCEPT ![t] = Absent])
       \/ Reads(r) /\ ~Matches(Reloaded, r, t)
       \/ Refused(r)
    /\ Turn(r, t, "none")
    /\ Alone

(* commitSubmissionFailure, some time after the submission failed: not     *)
(* signed in, no CLI, cancelled, or the CLI failed, timed out or was       *)
(* aborted.  What was never spawned is removed, the rest is uncertain.     *)
CommitFailure(r, t) ==
    /\ work[r][t] \in Failing
    /\ \/ /\ Matches(Reloaded, r, t) /\ work[r][t] # "running"
          /\ Writes(r, [Reloaded EXCEPT ![t] = Absent])
       \/ /\ Matches(Reloaded, r, t) /\ work[r][t] = "running"
          /\ Writes(r, [Reloaded EXCEPT ![t] = Unleased(@, "unknown")])
       \/ Reads(r) /\ ~Matches(Reloaded, r, t)
       \/ Refused(r)
    /\ Turn(r, t, "none")
    /\ Alone

Cancel(r, t) ==
    /\ Reloaded[t].state = "queued"
    /\ Writes(r, [Reloaded EXCEPT ![t] = Unleased(@, "cancelled")])
    /\ work' = [work EXCEPT ![r][t] = IF @ = "starting" THEN @ ELSE "none"]
    /\ Alone

(* deleteTask.  A reserved record is marked without clearing its           *)
(* reservation, which no valid record has then: the write fails and the    *)
(* Runtime alone holds the task for deleted.                               *)
Delete(r, t) ==
    /\ \/ /\ Reloaded[t].state = "queued"
          /\ Writes(r, [Reloaded EXCEPT ![t] = Unleased(@, "deleted")])
          /\ work' = [work EXCEPT ![r][t] = IF @ = "starting" THEN @ ELSE "none"]
       \/ /\ Reloaded[t].state = "pending" /\ ~Reloaded[t].spawnable
          /\ status[r] = "up" /\ Readable(r)
          /\ journal' = Reloaded
          /\ known' = [known EXCEPT ![r] = [StatesOf(Reloaded) EXCEPT ![t] = "deleted"]]
          /\ UNCHANGED work
    /\ Alone

-----------------------------------------------------------------------------
(* The reconciler                                                          *)

Eligible(record) ==
    /\ record.receipt
    /\ record.state \in {"accepted", "unknown"} \/ (record.state = "succeeded" /\ ~record.outputs)

Scheduled(record) == IF Eligible(record) THEN [record EXCEPT !.due = TRUE] ELSE record

(* initialize: once in the life of a Runtime every task that has a receipt *)
(* gets a time to be polled at.                                            *)
Initialize(r) ==
    /\ status[r] = "up" /\ ~ready[r]
    /\ ready' = [ready EXCEPT ![r] = TRUE]
    /\ journal' = [t \in Tasks |-> Scheduled(journal[t])]
    /\ UNCHANGED <<known, nextTicket, status, work, poll, outside, budgets>>

(* scheduleBackground, once the receipt is stored.                         *)
ScheduleBackground(r, t) ==
    /\ work[r][t] = "accepted" /\ ready[r]
    /\ journal' = [journal EXCEPT ![t] = Scheduled(@)]
    /\ Turn(r, t, "none")
    /\ UNCHANGED known /\ Alone

Polls(r, t) == poll[r].task = t /\ journal[t].poller = r

(* Mutant: a lease is not taken over when it has expired.                  *)
ClaimFree(r, t) ==
    /\ status[r] = "up" /\ ready[r] /\ poll[r] = Idle
    /\ Eligible(journal[t]) /\ journal[t].due /\ journal[t].poller = None
    /\ journal' = [journal EXCEPT ![t].poller = r, ![t].pollLive = TRUE]
    /\ poll' = [poll EXCEPT ![r] = [task |-> t, seen |-> "nothing"]]
    /\ UNCHANGED <<known, nextTicket, status, ready, work, outside, budgets>>

(* claimDue.                                                               *)
Claim(r, t) ==
    /\ status[r] = "up" /\ ready[r] /\ poll[r] = Idle
    /\ Eligible(journal[t]) /\ journal[t].due
    /\ journal[t].poller = None \/ ~journal[t].pollLive
    /\ journal' = [journal EXCEPT ![t].poller = r, ![t].pollLive = TRUE]
    /\ poll' = [poll EXCEPT ![r] = [task |-> t, seen |-> "nothing"]]
    /\ UNCHANGED <<known, nextTicket, status, ready, work, outside, budgets>>

(* renewLease asks whether the lease is its own, not whether it is live.   *)
RenewPoll(r, t) ==
    /\ status[r] = "up" /\ Polls(r, t) /\ ~journal[t].pollLive
    /\ journal' = [journal EXCEPT ![t].pollLive = TRUE]
    /\ UNCHANGED <<known, nextTicket, status, ready, work, poll, outside, budgets>>

(* observe: the provider answers, or completed media cannot be fetched     *)
(* ("unready"), or the query fails.                                        *)
Observe(r) ==
    /\ status[r] = "up" /\ poll[r].task # None /\ poll[r].seen = "nothing"
    /\ \E seen \in {provider[poll[r].task], "unready", "error"} :
           /\ seen = "unready" => provider[poll[r].task] = "completed"
           /\ seen \in {"unready", "error"} => errors < MaxErrors
           /\ errors' = IF seen \in {"unready", "error"} THEN errors + 1 ELSE errors
           /\ poll' = [poll EXCEPT ![r].seen = seen]
    /\ UNCHANGED <<journal, known, nextTicket, status, ready, work, outside, ends, stalls>>

(* applyObservation, and when the task is polled again.                    *)
Applied(record, seen) ==
    LET free == [record EXCEPT !.poller = None, !.pollLive = FALSE] IN
    CASE seen = "error" -> [free EXCEPT !.due = TRUE]
      [] seen = "working" /\ record.state = "succeeded" -> [free EXCEPT !.due = TRUE, !.observed = TRUE]
      [] seen = "working" /\ record.state # "succeeded" ->
             [free EXCEPT !.state = "accepted", !.due = TRUE, !.observed = TRUE]
      [] seen = "unready" -> [free EXCEPT !.state = "succeeded", !.due = TRUE, !.observed = TRUE]
      [] seen = "completed" ->
             [free EXCEPT !.state = "succeeded", !.outputs = TRUE, !.due = FALSE, !.observed = TRUE]
      [] seen = "failed" ->
             [free EXCEPT !.state = IF record.state = "succeeded" THEN @ ELSE seen,
                          !.due = FALSE, !.observed = TRUE]

Answered(r, t) == status[r] = "up" /\ poll[r].task = t /\ poll[r].seen # "nothing"

(* Mutant: an answer is committed without a look at the lease.             *)
CommitUnleased(r, t) ==
    /\ Answered(r, t)
    /\ poll' = [poll EXCEPT ![r] = Idle]
    /\ journal' = [journal EXCEPT ![t] = Applied(@, poll[r].seen)]
    /\ known' = [known EXCEPT ![r][t] = journal'[t].state]
    /\ UNCHANGED <<nextTicket, status, ready, work, outside, budgets>>

(* commitObservation, commitSyncError and handleReconcileApplied: what     *)
(* comes without the lease is dropped.                                     *)
CommitObservation(r, t) ==
    /\ Answered(r, t)
    /\ poll' = [poll EXCEPT ![r] = Idle]
    /\ \/ /\ Polls(r, t)
          /\ journal' = [journal EXCEPT ![t] = Applied(@, poll[r].seen)]
          /\ known' = [known EXCEPT ![r][t] = journal'[t].state]
       \/ ~Polls(r, t) /\ UNCHANGED <<journal, known>>
    /\ UNCHANGED <<nextTicket, status, ready, work, outside, budgets>>

(* commitObservation with a time before the last observation's: the clock  *)
(* was set back.  The observation is dropped and the task polled again.    *)
CommitOlder(r, t) ==
    /\ Answered(r, t) /\ poll[r].seen # "error" /\ Polls(r, t) /\ journal[t].observed
    /\ stalls < MaxStalls /\ stalls' = stalls + 1
    /\ poll' = [poll EXCEPT ![r] = Idle]
    /\ journal' = [journal EXCEPT ![t] =
           [Scheduled(@) EXCEPT !.poller = None, !.pollLive = FALSE]]
    /\ known' = [known EXCEPT ![r][t] = journal'[t].state]
    /\ UNCHANGED <<nextTicket, status, ready, work, outside, ends, errors>>

-----------------------------------------------------------------------------
(* Time, the provider, and the ends of Runtimes                            *)

(* A heartbeat keeps the queue lease or the reservation of t alive.        *)
Kept(t) ==
    LET r == journal[t].owner IN
    /\ r \in Runtimes
    /\ status[r] = "up" /\ Readable(r)
    /\ work[r][t] \notin {"none", "unrenewed", "accepted"}

Expire(t) ==
    /\ journal[t].state \in {"queued", "pending"} /\ journal[t].live
    /\ Kept(t) => stalls < MaxStalls
    /\ stalls' = IF Kept(t) THEN stalls + 1 ELSE stalls
    /\ journal' = [journal EXCEPT ![t].live = FALSE]
    /\ UNCHANGED <<known, nextTicket, status, ready, work, poll, outside, ends, errors>>

ExpirePoll(t) ==
    /\ journal[t].poller # None /\ journal[t].pollLive
    /\ journal[t].poller # Gone => stalls < MaxStalls
    /\ stalls' = IF journal[t].poller # Gone THEN stalls + 1 ELSE stalls
    /\ journal' = [journal EXCEPT ![t].pollLive = FALSE]
    /\ UNCHANGED <<known, nextTicket, status, ready, work, poll, outside, ends, errors>>

ProviderEnds(t) ==
    /\ provider[t] = "working"
    /\ \E how \in Ended : provider' = [provider EXCEPT ![t] = how]
    /\ UNCHANGED <<journal, known, nextTicket, status, ready, work, poll, sends, budgets>>

Start(r) ==
    /\ status[r] = "down"
    /\ status' = [status EXCEPT ![r] = "up"]
    /\ UNCHANGED <<journal, known, nextTicket, ready, work, poll, outside, budgets>>

(* The process of r ends.                                                  *)
Ends(r) ==
    /\ status[r] = "up" /\ ends < MaxEnds
    /\ ends' = ends + 1
    /\ status' = [status EXCEPT ![r] = "down"]
    /\ known' = [known EXCEPT ![r] = Nothing]
    /\ ready' = [ready EXCEPT ![r] = FALSE]
    /\ work' = [work EXCEPT ![r] = Unoccupied]
    /\ poll' = [poll EXCEPT ![r] = Idle]
    /\ UNCHANGED <<nextTicket, outside, stalls, errors>>

(* dispose: what the Runtime submits is aborted and comes to its end, its  *)
(* queued tasks fail, and its polls are given up.                          *)
Dispose(r) ==
    /\ Readable(r)
    /\ \A t \in Tasks : work[r][t] \in {"none", "waiting", "unrenewed", "accepted"}
    /\ LET mine(record) == record.state = "queued" /\ record.owner = r
           failed(record) == IF mine(record) THEN Unleased(record, "failed") ELSE record
           released(record) ==
               IF record.poller = r THEN [record EXCEPT !.poller = None, !.pollLive = FALSE] ELSE record
       IN journal' = [t \in Tasks |-> released(failed(Reloaded[t]))]
    /\ Ends(r)

(* The identifiers of a process that died name nobody any more.            *)
Crash(r) ==
    /\ LET orphaned(record) == [record EXCEPT !.owner = IF @ = r THEN Gone ELSE @,
                                             !.poller = IF @ = r THEN Gone ELSE @]
       IN journal' = [t \in Tasks |-> orphaned(journal[t])]
    /\ Ends(r)

-----------------------------------------------------------------------------
Submission(r, t) ==
    \/ Reserve(r, t) \/ Permit(r, t) \/ Spawn(r, t) \/ Accept(r, t)
    \/ LoseInvocation(r, t) \/ CommitFailure(r, t)

Reconciliation(r, t) ==
    \/ ScheduleBackground(r, t) \/ Claim(r, t) \/ RenewPoll(r, t)
    \/ CommitObservation(r, t) \/ CommitOlder(r, t)

Next ==
    \/ \E r \in Runtimes, t \in Tasks :
           \/ Enqueue(r, t) \/ HeartbeatEnds(r, t)
           \/ Submission(r, t) \/ Cancel(r, t) \/ Delete(r, t) \/ Reconciliation(r, t)
    \/ \E r \in Runtimes :
           \/ Load(r) \/ Initialize(r) \/ Observe(r)
           \/ Start(r) \/ Dispose(r) \/ Crash(r)
    \/ \E t \in Tasks : Expire(t) \/ ExpirePoll(t) \/ ProviderEnds(t)

Spec == Init /\ [][Next]_vars

(* A Runtime that lives goes on with what it has begun, one that died is   *)
(* started again, and heartbeats of the dead do not keep leases alive.     *)
(* claimDue takes the task whose time has passed longest, so none is       *)
(* passed over for ever; the provider ends what it works on.               *)
Fairness ==
    /\ \A r \in Runtimes : WF_vars(Start(r)) /\ WF_vars(Initialize(r)) /\ WF_vars(Observe(r))
    /\ \A r \in Runtimes, t \in Tasks :
           /\ WF_vars(ScheduleBackground(r, t)) /\ WF_vars(CommitObservation(r, t))
           /\ SF_vars(Claim(r, t))
    /\ \A t \in Tasks : WF_vars(ExpirePoll(t)) /\ WF_vars(ProviderEnds(t))

FairSpec == Spec /\ Fairness

-----------------------------------------------------------------------------
(* Properties                                                              *)

(* What the user is told of a task.                                        *)
Verdict(t) ==
    CASE journal[t].state = "unknown" -> "uncertain"
      [] journal[t].state \in {"failed", "cancelled", "deleted"} /\ ~journal[t].receipt -> "unsent"
      [] journal[t].state \in {"succeeded", "failed"} /\ journal[t].receipt -> "finished"
      [] OTHER -> "open"

Promise == INSTANCE SubmissionPromise WITH
    sends <- sends, verdict <- [t \in Tasks |-> Verdict(t)]

(* A task is given to the provider's CLI at most once, across Runtimes,    *)
(* crashes, expired reservations and repeated calls with its key; one that *)
(* is called failed, cancelled or deleted before its submission was never  *)
(* submitted and never is, even by a process that was held up in between.  *)
SubmitsAsPromised == Promise!Spec

(* What the provider works on holds a slot of the journal, so it never     *)
(* works on more than MaxActive tasks (the count is over records that      *)
(* several Runtimes change; an uncertain or late submission counts too).   *)
SlotsCoverProvider ==
    LET working == {t \in Tasks : provider[t] = "working"} IN
    /\ \A t \in working : ReservesSlot(journal[t])
    /\ Cardinality(working) <= MaxActive

Settled(t) == journal[t].state \in {"succeeded", "failed", "cancelled", "deleted"}
                 /\ ~Eligible(journal[t])

(* A record that is settled stays as it is: no late answer of a Runtime    *)
(* whose poll lease was taken over, no late submission and no cancellation *)
(* changes it or has it polled again.                                      *)
SettledIsFinal == [][\A t \in Tasks : Settled(t) => journal'[t] = journal[t]]_vars

(* A task whose receipt is stored comes to its end: the Runtime that       *)
(* stored it may die before it has scheduled a poll, a poller may die with *)
(* its lease or be held up, polls may fail and clocks be set back.         *)
AcceptedIsSettled ==
    \A t \in Tasks : journal[t].state = "accepted" ~> Settled(t)

(* Once a submission that was refused before its spawn is removed, every   *)
(* Runtime that did not delete the task itself can submit it again.        *)
RemovedMayRetry ==
    \A r \in Runtimes, t \in Tasks :
        (journal[t].state = "absent" /\ work[r][t] = "none") => known[r][t] \in {"absent", "deleted"}
=============================================================================
