--------------------------- MODULE TaskExecution ---------------------------
(***************************************************************************)
(* One generation task of the Go back end, from the queue to its terminal  *)
(* state, with the billing order, route attempts and call log that go with *)
(* each of its runs: task_worker.go, task_terminal.go, task_billing.go,    *)
(* task_route_executor.go, task_lifecycle.go, provider_task_recovery.go    *)
(* and the dispatch half of model_router.go, over the task statements of   *)
(* repository.go.                                                          *)
(*                                                                         *)
(* A worker is a goroutine of processClaimedTask, in a process of its own: *)
(* lease_owner names the process.  It claims the row under a lease, and    *)
(* every later statement of it is an action of its own, so that a process  *)
(* may die or be held up, or another worker take over, between any two.    *)
(* What the worker read at the claim stays in worker[w] until a line of    *)
(* the code reads it again.  Database statements are atomic, as on SQLite. *)
(*                                                                         *)
(* Run r of the task is route_run r - 1 and has the billing order r: the   *)
(* first is created with the task, the others by retries.  Upstream jobs   *)
(* are numbered in the order they are accepted; the number stands for the  *)
(* provider request id, and 0 for the empty id.                            *)
(***************************************************************************)
EXTENDS Naturals, Sequences, FiniteSets

CONSTANTS
    Workers, NoWorker,
    NumRuns,     \* bound on runs: the first and the retries
    NumRoutes,   \* routes a logical model may dispatch a run to
    NumJobs,     \* bound on jobs the upstream accepts
    Kinds,       \* the kinds of task there are, of TaskKinds
    People,      \* who else acts: subset of {"retry", "query", "resolve"}
    FaultKinds,  \* what may fail: subset of {"crash", "lease", "log", "stall"}
    MaxFaults    \* bound on the faults of each kind

(* A logical task names a logical model and keeps route attempts.  The      *)
(* protocol of a resumable one creates a job and polls it by its id; with   *)
(* any other the answer to the POST is the result.                          *)
TaskKinds == [logical : BOOLEAN, resumable : BOOLEAN]

ASSUME BoundsAssumption ==
    /\ NumRuns \in Nat \ {0} /\ NumRoutes \in Nat \ {0}
    /\ NumJobs \in Nat /\ MaxFaults \in Nat
ASSUME SwitchesAssumption ==
    /\ Kinds \subseteq TaskKinds
    /\ People \subseteq {"retry", "query", "resolve"}
    /\ FaultKinds \subseteq {"crash", "lease", "log", "stall"}
    /\ NoWorker \notin Workers

Runs == 1..NumRuns
Pids == 0..NumJobs

VARIABLES
    kind,      \* what the task is, for good
    task,      \* the tasks row
    orders,    \* status of the billing order of each run
    attempts,  \* route_attempts rows of each run, by attempt_number
    calls,     \* status of the newest billable call log of each run
    jobs,      \* what the upstream has accepted
    worker,    \* the goroutines processing the task
    retry,     \* a RetryTask request, between its checks and its commit
    query,     \* a QueryFailedVideoTask request
    resolved,  \* orders an administrator finished (resolved_by)
    faults,    \* faults of each kind so far
    \* history: whether a task was claimed from a worker that still relied on
    \* its lease, and whether it was retried while someone was still at the
    \* run before
    overtaken, outlived

history == <<overtaken, outlived>>
vars == <<kind, task, orders, attempts, calls, jobs, worker, retry, query, resolved, faults, history>>

Unfinished == {"reserved", "running", "uncertain"}
OrderStatuses == Unfinished \cup {"absent", "settled", "refunded"}
TaskStatuses == {"queued", "running", "succeeded", "failed"}
DispatchStates == {"not_sent", "submission_unknown", "accepted", "rejected_no_job"}

(* How processTask ended.  "rejected" is a 401, 403, 404 or 429, "slot" a  *)
(* channel slot that was not granted, "timeout" an error that              *)
(* billingFailureUncertain recognises, "error" any other.                  *)
CallOutcomes == {"ok", "rejected", "slot", "error", "timeout", "cancelled"}
(* What a failed task is to do with its order when that is already known.  *)
Verdicts == {"refund", "uncertain"}

Steps == {"begin", "bill", "dispatch", "call", "answer", "poll", "finish",
          "next", "persist", "fail", "save", "settle", "close"}
Resting == [pc |-> "idle", run |-> 0, n |-> 0, state |-> "none", pid |-> 0,
            job |-> 0, out |-> "none", lease |-> "held"]

TypeOK ==
    /\ kind \in Kinds
    /\ task \in [status : TaskStatuses, run : Runs, pid : Pids,
                 owner : Workers \cup {NoWorker}, lease : {"none", "live", "expired"}]
    /\ orders \in [Runs -> OrderStatuses]
    /\ attempts \in [Runs -> Seq([state : DispatchStates, pid : Pids])]
    /\ \A r \in Runs : Len(attempts[r]) <= NumRoutes
    /\ calls \in [Runs -> {"none", "ok", "failed"}]
    /\ jobs \in Seq([run : Runs, state : {"working", "done", "failed"}]) /\ Len(jobs) <= NumJobs
    /\ worker \in [Workers ->
          [pc : Steps \cup {"idle"}, run : Runs \cup {0}, n : 0..NumRoutes,
           state : DispatchStates \cup {"none"}, pid : Pids, job : Pids,
           out : CallOutcomes \cup Verdicts \cup {"none", "unsaved"}, lease : {"held", "lost"}]]
    /\ retry \in {"none", "checked"}
    /\ query \in [pc : {"none", "claim", "query", "save", "settle"}, run : Runs \cup {0}, pid : Pids]
    /\ resolved \subseteq Runs
    /\ faults \in [FaultKinds -> 0..MaxFaults]
    /\ overtaken \in BOOLEAN /\ outlived \in BOOLEAN

(* CreateTaskWithCreditReservation has queued the task with its order. *)
Init ==
    /\ kind \in Kinds
    /\ task = [status |-> "queued", run |-> 1, pid |-> 0,
               owner |-> NoWorker, lease |-> "none"]
    /\ orders = [r \in Runs |-> IF r = 1 THEN "reserved" ELSE "absent"]
    /\ attempts = [r \in Runs |-> <<>>]
    /\ calls = [r \in Runs |-> "none"]
    /\ jobs = <<>>
    /\ worker = [w \in Workers |-> Resting]
    /\ retry = "none"
    /\ query = [pc |-> "none", run |-> 0, pid |-> 0]
    /\ resolved = {}
    /\ faults = [what \in FaultKinds |-> 0]
    /\ overtaken = FALSE /\ outlived = FALSE

-----------------------------------------------------------------------------
(* What the billing calls make of an order's status. *)
Settled(s)   == IF s \in Unfinished THEN "settled" ELSE s
Refunded(s)  == IF s \in Unfinished THEN "refunded" ELSE s
Uncertain(s) == IF s \in {"reserved", "running"} THEN "uncertain" ELSE s

Bill(r, s) == orders' = [orders EXCEPT ![r] = s]

Goto(w, pc) == worker' = [worker EXCEPT ![w].pc = pc]
Ends(w, pc, out) == worker' = [worker EXCEPT ![w].pc = pc, ![w].out = out]
Rests(w) == worker' = [worker EXCEPT ![w] = Resting]

Fault(what) ==
    /\ what \in FaultKinds /\ faults[what] < MaxFaults
    /\ faults' = [faults EXCEPT ![what] = @ + 1]

others == <<kind, retry, query, resolved, history>>

(* A worker before the end of its run, and one that has not been told that  *)
(* its lease is lost.                                                       *)
Early(w) == worker[w].pc \in Steps \ {"settle", "close"}
Live(w) == Early(w) /\ worker[w].lease = "held"

-----------------------------------------------------------------------------
(* The lease *)

(* Mutant: nobody takes over a running row whose lease ran out. *)
ClaimableQueued == task.status = "queued"

Claimable == task.status = "queued" \/ (task.status = "running" /\ task.lease # "live")

ClaimNextTask(w) ==
    /\ worker[w].pc = "idle" /\ Claimable
    /\ task' = [task EXCEPT !.status = "running", !.owner = w, !.lease = "live"]
    /\ worker' = [worker EXCEPT ![w] = [Resting EXCEPT !.pc = "begin", !.run = task.run,
                                            !.n = Len(attempts[task.run]), !.pid = task.pid]]
    /\ overtaken' = (overtaken \/ \E u \in Workers : Live(u))
    /\ UNCHANGED <<orders, attempts, calls, jobs, kind, retry, query, resolved, faults, outlived>>

(* A renewal asks whose the row is, not whether its lease has run out. *)
RenewTaskLease(w) ==
    /\ Live(w)
    /\ task.status = "running" /\ task.owner = w /\ task.lease = "expired"
    /\ task' = [task EXCEPT !.lease = "live"]
    /\ UNCHANGED <<orders, attempts, calls, jobs, worker, others, faults>>

(* A renewal fails because the row is no longer w's, or because the         *)
(* statement does: the goroutine reports it once and cancels the context.   *)
(* Until then w goes on, whoever has the row.                               *)
RenewalFails(w) ==
    /\ Live(w)
    /\ \/ (task.status # "running" \/ task.owner # w) /\ UNCHANGED faults
       \/ Fault("lease")
    /\ worker' = [worker EXCEPT ![w].lease = "lost"]
    /\ UNCHANGED <<task, orders, attempts, calls, jobs, others>>

(* The worker, its renewals included, is held up longer than a lease lasts. *)
WorkerStalls ==
    /\ task.status = "running" /\ task.lease = "live" /\ Live(task.owner)
    /\ Fault("stall")
    /\ task' = [task EXCEPT !.lease = "expired"]
    /\ UNCHANGED <<orders, attempts, calls, jobs, worker, others>>

(* Other leases are renewed in time unless the worker is gone or has given  *)
(* up renewing.                                                             *)
LeaseExpires ==
    /\ task.status = "running" /\ task.lease = "live"
    /\ worker[task.owner].pc = "idle" \/ worker[task.owner].lease = "lost"
    /\ task' = [task EXCEPT !.lease = "expired"]
    /\ UNCHANGED <<orders, attempts, calls, jobs, worker, others, faults>>

(* The process dies, or a statement fails and processClaimedTask returns;   *)
(* the row keeps the lease until it runs out.                               *)
Crash(w) ==
    /\ worker[w].pc # "idle" /\ Fault("crash")
    /\ Rests(w)
    /\ UNCHANGED <<task, orders, attempts, calls, jobs, others>>

-----------------------------------------------------------------------------
(* Routes *)

NewAttempt == [state |-> "not_sent", pid |-> 0]

(* Mutant: the attempts already made are not counted. *)
CanSwitchRouteAgain(r) == task.status = "running" /\ orders[r] \in {"reserved", "running"}

(* SwitchTaskLogicalRoute and createRouteAttempt.  The row must still name   *)
(* the route w knows: in its own run, that of the newest attempt when w was  *)
(* at it.  The next run may have got any route.                              *)
CanSwitchRoute(r) ==
    /\ Len(attempts[r]) < NumRoutes
    /\ task.status = "running" /\ orders[r] \in {"reserved", "running"}
SwitchRoute(w, pc) ==
    LET r == worker[w].run IN
    /\ CanSwitchRoute(r)
    /\ task.run = r => worker[w].n = Len(attempts[r])
    /\ attempts' = [attempts EXCEPT ![r] = Append(@, NewAttempt)]
    /\ worker' = [worker EXCEPT ![w].pc = pc, ![w].n = Len(attempts[r]) + 1,
                                ![w].state = "not_sent", ![w].pid = 0,
                                ![w].job = 0, ![w].out = "none"]

(* beginTaskRouteAttempt, by the dispatch state of the run's last attempt. *)
TakeAttempt(w) ==
    LET r == worker[w].run
        last == attempts[r][Len(attempts[r])]
    IN
    /\ worker[w].pc = "begin" /\ kind.logical
    /\ \/ /\ attempts[r] = <<>>
          /\ attempts' = [attempts EXCEPT ![r] = <<NewAttempt>>]
          /\ worker' = [worker EXCEPT ![w].pc = "bill", ![w].n = 1, ![w].state = "not_sent"]
       \/ /\ attempts[r] # <<>> /\ last.state = "not_sent"
          /\ worker' = [worker EXCEPT ![w].pc = "bill", ![w].n = Len(attempts[r]),
                                      ![w].state = "not_sent"]
          /\ UNCHANGED attempts
       \/ /\ attempts[r] # <<>> /\ last.state = "rejected_no_job"
          /\ SwitchRoute(w, "bill")
    /\ UNCHANGED <<task, orders, calls, jobs, others, faults>>

ResumeAttempt(w) ==
    LET r == worker[w].run
        n == Len(attempts[r])
        pid == IF worker[w].pid # 0 THEN worker[w].pid ELSE attempts[r][n].pid
    IN
    /\ worker[w].pc = "begin" /\ kind.logical /\ n > 0
    /\ attempts[r][n].state \in {"accepted", "submission_unknown"}
    /\ pid # 0
    /\ attempts' = [attempts EXCEPT ![r][n] = [@ EXCEPT !.state = "accepted"]]
    /\ task' = [task EXCEPT !.pid = IF worker[w].pid # 0 THEN @ ELSE pid]
    /\ worker' = [worker EXCEPT ![w].pc = "bill", ![w].n = n, ![w].state = "accepted",
                                ![w].pid = pid]
    /\ UNCHANGED <<orders, calls, jobs, others, faults>>

(* An attempt that may have created a job nobody knows the id of stops the  *)
(* run; no route to call ends it with a refund.                             *)
RefuseAttempt(w) ==
    LET r == worker[w].run
        n == Len(attempts[r])
    IN
    /\ worker[w].pc = "begin" /\ kind.logical
    /\ \/ /\ n > 0 /\ attempts[r][n].state \in {"accepted", "submission_unknown"}
          /\ worker[w].pid = 0 /\ attempts[r][n].pid = 0
          /\ Ends(w, "fail", "uncertain")
       \/ /\ n > 0 => attempts[r][n].state = "rejected_no_job"
          /\ Ends(w, "fail", "refund")
    /\ UNCHANGED <<task, orders, attempts, calls, jobs, others, faults>>

(* A statement of beginTaskRouteAttempt fails: a refund, whatever the state *)
(* of the last attempt, whose id the task row may have got by then.         *)
BeginFails(w) ==
    LET r == worker[w].run
        last == attempts[r][Len(attempts[r])]
    IN
    /\ worker[w].pc = "begin" /\ kind.logical /\ Fault("crash")
    /\ \/ UNCHANGED task
       \/ /\ attempts[r] # <<>> /\ last.state = "submission_unknown"
          /\ last.pid # 0 /\ worker[w].pid = 0
          /\ task' = [task EXCEPT !.pid = last.pid]
    /\ Ends(w, "fail", "refund")
    /\ UNCHANGED <<orders, attempts, calls, jobs, others>>

BeginDirect(w) ==
    /\ worker[w].pc = "begin" /\ ~kind.logical
    /\ Goto(w, "bill")
    /\ UNCHANGED <<task, orders, attempts, calls, jobs, others, faults>>

MarkBillingRunning(w) ==
    LET r == worker[w].run IN
    /\ worker[w].pc = "bill"
    /\ \/ /\ orders[r] \in {"reserved", "running"}
          /\ Bill(r, "running") /\ Goto(w, "dispatch")
       \/ /\ orders[r] \notin {"reserved", "running"}
          /\ UNCHANGED orders /\ Ends(w, "fail", "refund")
    /\ UNCHANGED <<task, attempts, calls, jobs, others, faults>>

(* Mutant: the dispatch state is left to be written with the outcome. *)
DispatchUnrecorded(w) ==
    /\ worker[w].pc = "dispatch"
    /\ worker' = [worker EXCEPT ![w].pc = "call", ![w].state = "submission_unknown"]
    /\ UNCHANGED <<task, orders, attempts, calls, jobs, others, faults>>

(* Written before the request: from here on a job may exist.  The row is    *)
(* saved as w read it when nothing had been sent.                           *)
MarkRouteAttemptDispatching(w) ==
    LET r == worker[w].run
        n == worker[w].n
    IN
    /\ worker[w].pc = "dispatch"
    /\ IF worker[w].state = "not_sent"
       THEN /\ attempts' = [attempts EXCEPT ![r][n] = [state |-> "submission_unknown", pid |-> 0]]
            /\ worker' = [worker EXCEPT ![w].pc = "call", ![w].state = "submission_unknown"]
       ELSE UNCHANGED attempts /\ Goto(w, "call")
    /\ UNCHANGED <<task, orders, calls, jobs, others, faults>>

-----------------------------------------------------------------------------
(* The provider *)

(* processTask with a known job id polls it; any other call submits.        *)
Resumed(w) == kind.resumable /\ worker[w].pid # 0

(* The upstream accepts the request; its answer is still on the way. *)
Submit(w) ==
    /\ worker[w].pc = "call" /\ ~Resumed(w) /\ worker[w].lease = "held"
    /\ Len(jobs) < NumJobs
    /\ jobs' = Append(jobs, [run |-> worker[w].run, state |-> "working"])
    /\ worker' = [worker EXCEPT ![w].pc = "answer", ![w].job = Len(jobs) + 1]
    /\ UNCHANGED <<task, orders, attempts, calls, others, faults>>

(* No job: no slot, a refusal, an upstream error, or no answer at all. A    *)
(* cancelled context fails the call at once.                                *)
SubmitFails(w) ==
    /\ worker[w].pc = "call" /\ ~Resumed(w)
    /\ IF worker[w].lease = "lost" THEN Ends(w, "finish", "cancelled")
       ELSE \E out \in {"slot", "rejected", "error", "timeout"} : Ends(w, "finish", out)
    /\ UNCHANGED <<task, orders, attempts, calls, jobs, others, faults>>

Resume(w) ==
    /\ worker[w].pc = "call" /\ Resumed(w)
    /\ worker' = [worker EXCEPT ![w].pc = "poll", ![w].job = worker[w].pid]
    /\ UNCHANGED <<task, orders, attempts, calls, jobs, others, faults>>

(* What follows a logged answer: polling, or for a synchronous protocol the *)
(* result itself, which may turn out to be unusable.                        *)
Answered(w) ==
    IF kind.resumable THEN Goto(w, "poll")
    ELSE \E out \in {"ok", "error"} : Ends(w, "finish", out)

(* recordProviderRequest and LogAPICall: the id goes to the task row, by    *)
(* task id alone, and the billable call is logged.  A synchronous answer    *)
(* need not carry an id.                                                    *)
RecordAnswer(w) ==
    /\ worker[w].pc = "answer" /\ worker[w].lease = "held"
    /\ \E pid \in {worker[w].job} \cup (IF kind.resumable THEN {} ELSE {task.pid}) :
          task' = [task EXCEPT !.pid = pid]
    /\ calls' = [calls EXCEPT ![worker[w].run] = "ok"]
    /\ Answered(w)
    /\ UNCHANGED <<orders, attempts, jobs, others, faults>>

(* The log fails before or after the id is written: the order becomes       *)
(* uncertain and the request goes on.                                       *)
AnswerNotLogged(w) ==
    LET r == worker[w].run IN
    /\ worker[w].pc = "answer" /\ worker[w].lease = "held" /\ Fault("log")
    /\ \E pid \in {task.pid, worker[w].job} : task' = [task EXCEPT !.pid = pid]
    /\ Bill(r, Uncertain(orders[r]))
    /\ Answered(w)
    /\ UNCHANGED <<attempts, calls, jobs, others>>

(* The connection breaks or the context ends before the answer is read. *)
AnswerLost(w) ==
    /\ worker[w].pc = "answer"
    /\ Ends(w, "finish", IF worker[w].lease = "lost" THEN "cancelled" ELSE "timeout")
    /\ UNCHANGED <<task, orders, attempts, calls, jobs, others, faults>>

(* Every logged poll writes the id to the task row and its own status over  *)
(* that of the task's newest create call (mergeVideoAPICallLog).            *)
Logged == {r \in Runs : calls[r] # "none"}
NewestCall == CHOOSE r \in Logged : \A s \in Logged : s <= r
LogPoll(pid, status) ==
    /\ task' = [task EXCEPT !.pid = pid]
    /\ calls' = IF Logged = {} THEN calls ELSE [calls EXCEPT ![NewestCall] = status]

(* How a poll that was answered is logged.  Not every protocol's word for a *)
(* failed job is one that enrichAPICallLogPayload knows.                    *)
Reported(state) == IF state = "failed" THEN {"ok", "failed"} ELSE {"ok"}

(* The job has ended; what it made may still fail to download. *)
PollEnds(w) ==
    LET state == jobs[worker[w].job].state IN
    /\ worker[w].pc = "poll" /\ worker[w].lease = "held" /\ state # "working"
    /\ \E status \in Reported(state) : LogPoll(worker[w].job, status)
    /\ Ends(w, "finish", "error") \/ (state = "done" /\ Ends(w, "finish", "ok"))
    /\ UNCHANGED <<orders, attempts, jobs, others, faults>>

(* A poll is refused, fails or gets no slot, whatever the job does. *)
PollFails(w) ==
    /\ worker[w].pc = "poll"
    /\ LogPoll(worker[w].job, "failed")
    /\ IF worker[w].lease = "lost" THEN Ends(w, "finish", "cancelled")
       ELSE \E out \in {"slot", "rejected", "error"} : Ends(w, "finish", out)
    /\ UNCHANGED <<orders, attempts, jobs, others, faults>>

(* The execution timeout passes between two polls. *)
PollTimesOut(w) ==
    /\ worker[w].pc = "poll" /\ worker[w].lease = "held"
    /\ Ends(w, "finish", "timeout")
    /\ UNCHANGED <<task, orders, attempts, calls, jobs, others, faults>>

JobEnds(j) ==
    /\ j \in DOMAIN jobs /\ jobs[j].state = "working" /\ kind.resumable
    /\ \E s \in {"done", "failed"} : jobs' = [jobs EXCEPT ![j].state = s]
    /\ UNCHANGED <<task, orders, attempts, calls, worker, others, faults>>

(* refreshTaskProviderState, then finishTaskRouteAttempt. *)
Dispatched(pid, out) ==
    IF out = "ok" \/ pid # 0 THEN "accepted"
    ELSE IF out \in {"slot", "rejected"} THEN "rejected_no_job"
    ELSE "submission_unknown"

FinishRouteAttempt(w) ==
    LET me    == worker[w]
        pid   == IF task.pid # 0 THEN task.pid ELSE me.pid
        state == Dispatched(pid, me.out)
    IN
    /\ me.pc = "finish"
    /\ attempts' = IF me.n = 0 THEN attempts
                   ELSE [attempts EXCEPT ![me.run][me.n] = [state |-> state, pid |-> pid]]
    /\ worker' = [worker EXCEPT
                    ![w].pid = pid,
                    ![w].state = IF me.n = 0 THEN @ ELSE state,
                    ![w].pc = IF me.out = "ok" THEN "persist"
                              ELSE IF me.n # 0 /\ state = "rejected_no_job" THEN "next"
                              ELSE "fail"]
    /\ UNCHANGED <<task, orders, calls, jobs, others, faults>>

(* nextRouteAttemptAfterFailure: another route, or the failure stands. *)
NextRouteAttempt(w) ==
    /\ worker[w].pc = "next"
    /\ \/ SwitchRoute(w, "dispatch")
       \/ Goto(w, "fail") /\ UNCHANGED attempts
    /\ UNCHANGED <<task, orders, calls, jobs, others, faults>>

-----------------------------------------------------------------------------
(* The end of a run *)

(* persistGeneratedMediaResult and finalizeCharacterTurnaroundTask *)
PersistResult(w) ==
    /\ worker[w].pc = "persist"
    /\ Goto(w, "save") \/ Ends(w, "fail", "unsaved")
    /\ UNCHANGED <<task, orders, attempts, calls, jobs, others, faults>>

(* SaveTaskCompletion writes the whole row the worker holds, run and order  *)
(* id included, over a row that is still running, whoever has its lease.    *)
SaveTaskCompletion(w) ==
    /\ worker[w].pc = "save" /\ task.status = "running"
    /\ task' = [status |-> "succeeded", run |-> worker[w].run, pid |-> worker[w].pid,
                owner |-> w, lease |-> "live"]
    /\ Goto(w, "settle")
    /\ UNCHANGED <<orders, attempts, calls, jobs, others, faults>>

(* Mutant: the upstream has done its work, so the order is settled. *)
SaveFailsCharged(w) ==
    LET r == worker[w].run IN
    /\ worker[w].pc = "save"
    /\ Bill(r, Settled(orders[r]))
    /\ Ends(w, "fail", "uncertain")
    /\ UNCHANGED <<task, attempts, calls, jobs, others, faults>>

(* handleResultPersistenceFailure: a conflict, or no room for the result. *)
SaveFails(w) ==
    /\ worker[w].pc = "save"
    /\ Ends(w, "fail", "uncertain")
    /\ UNCHANGED <<task, orders, attempts, calls, jobs, others, faults>>

(* Mutant: a failed settlement is only logged. *)
SettleFailureIgnored(w) ==
    LET r == worker[w].run IN
    /\ worker[w].pc = "settle"
    /\ Bill(r, Settled(orders[r])) \/ UNCHANGED orders
    /\ Rests(w)
    /\ UNCHANGED <<task, attempts, calls, jobs, others, faults>>

(* handleSuccess: the order is settled, or uncertain if that fails. *)
SettleBilling(w) ==
    LET r == worker[w].run IN
    /\ worker[w].pc = "settle"
    /\ Bill(r, Settled(orders[r])) \/ Bill(r, Uncertain(orders[r]))
    /\ Rests(w)
    /\ UNCHANGED <<task, attempts, calls, jobs, others, faults>>

(* A worker that knows its lease is lost leaves a failure to its successor. *)
LeaveToSuccessor(w) ==
    /\ worker[w].pc = "fail" /\ worker[w].lease = "lost" /\ worker[w].out \notin Verdicts
    /\ Rests(w)
    /\ UNCHANGED <<task, orders, attempts, calls, jobs, others, faults>>

(* A video whose wait ran out is put back, to be polled again later. *)
DeferRunningTaskForProviderPoll(w) ==
    /\ worker[w].pc = "fail" /\ worker[w].lease = "held"
    /\ worker[w].out = "timeout" /\ Resumed(w)
    /\ task' = IF task.status = "running" /\ task.owner = w
               THEN [task EXCEPT !.owner = NoWorker, !.lease = "none"]
               ELSE task
    /\ Rests(w)
    /\ UNCHANGED <<orders, attempts, calls, jobs, others, faults>>

(* markTerminalState writes only over a running row; the caller goes on     *)
(* to the bill either way.                                                  *)
MarkFailed(w) ==
    /\ worker[w].pc = "fail"
    /\ worker[w].lease = "held" \/ worker[w].out \in Verdicts
    /\ task' = IF task.status = "running"
               THEN [task EXCEPT !.status = "failed", !.owner = NoWorker, !.lease = "none"]
               ELSE task
    /\ Goto(w, "close")
    /\ UNCHANGED <<orders, attempts, calls, jobs, others, faults>>

(* BillingFailureRequiresReview *)
RequiresReview(r, out) ==
    \/ out \in {"timeout", "unsaved", "uncertain"}
    \/ out \in {"rejected", "error"}
         /\ (orders[r] = "uncertain" \/ \E s \in Runs : calls[s] = "ok")

(* Mutant: the order is the one the task row names by now. *)
CloseNewestBilling(w) ==
    LET r == task.run IN
    /\ worker[w].pc = "close"
    /\ Bill(r, IF RequiresReview(r, worker[w].out) THEN Uncertain(orders[r])
               ELSE Refunded(orders[r]))
    /\ Rests(w)
    /\ UNCHANGED <<task, attempts, calls, jobs, others, faults>>

CloseBilling(w) ==
    LET r == worker[w].run IN
    /\ worker[w].pc = "close"
    /\ Bill(r, IF RequiresReview(r, worker[w].out) THEN Uncertain(orders[r])
               ELSE Refunded(orders[r]))
    /\ Rests(w)
    /\ UNCHANGED <<task, attempts, calls, jobs, others, faults>>

-----------------------------------------------------------------------------
(* The user *)

(* retryTask reads the task and its order first... *)
CheckRetryEligibility ==
    /\ "retry" \in People /\ retry = "none"
    /\ task.status = "failed" /\ task.run < NumRuns
    /\ orders[task.run] # "uncertain"
    /\ retry' = "checked"
    /\ UNCHANGED <<kind, task, orders, attempts, calls, jobs, worker, query, resolved, faults, history>>

(* Someone is still at the run that has failed. *)
BusyWithRun == query.pc # "none" \/ \E w \in Workers : Early(w)

(* Mutant: the retried row keeps the provider request id. *)
RetryKeepingRequestID ==
    /\ retry = "checked"
    /\ retry' = "none"
    /\ IF task.status = "failed" /\ task.run < NumRuns
       THEN /\ task' = [task EXCEPT !.status = "queued", !.run = @ + 1]
            /\ Bill(task.run + 1, "reserved")
            /\ outlived' = (outlived \/ BusyWithRun)
       ELSE UNCHANGED <<task, orders, outlived>>
    /\ UNCHANGED <<kind, attempts, calls, jobs, worker, query, resolved, faults, overtaken>>

(* ...and commits against whatever the task is by then: RetryTaskWithBilling *)
(* reserves a new order and queues the next run.                             *)
RetryTaskWithBilling ==
    /\ retry = "checked"
    /\ retry' = "none"
    /\ IF task.status = "failed" /\ task.run < NumRuns
       THEN /\ task' = [status |-> "queued", run |-> task.run + 1, pid |-> 0,
                        owner |-> NoWorker, lease |-> "none"]
            /\ Bill(task.run + 1, "reserved")
            /\ outlived' = (outlived \/ BusyWithRun)
       ELSE UNCHANGED <<task, orders, outlived>>
    /\ UNCHANGED <<kind, attempts, calls, jobs, worker, query, resolved, faults, overtaken>>

(* queryFailedVideoTask, by the user or an administrator: it reads the task *)
(* and the order, takes the recovery lease while the task is still failed,  *)
(* asks the upstream, and saves over a row that is still failed.  The lease *)
(* admits one query at a time.                                              *)
BeginQuery ==
    /\ "query" \in People /\ kind.resumable /\ query.pc = "none"
    /\ task.status = "failed" /\ task.pid # 0
    /\ orders[task.run] # "refunded"
    /\ query' = [pc |-> "claim", run |-> task.run, pid |-> task.pid]
    /\ UNCHANGED <<kind, task, orders, attempts, calls, jobs, worker, retry, resolved, faults, history>>

QueryEnds == query' = [pc |-> "none", run |-> 0, pid |-> 0]
QueryGoto(pc) == query' = [query EXCEPT !.pc = pc]

ClaimFailedTaskProviderRecovery ==
    /\ query.pc = "claim"
    /\ task' = [task EXCEPT !.pid = query.pid]
    /\ IF task.status = "failed" THEN QueryGoto("query") ELSE QueryEnds
    /\ UNCHANGED <<kind, orders, attempts, calls, jobs, worker, retry, resolved, faults, history>>

QueryUpstream ==
    LET state == jobs[query.pid].state IN
    /\ query.pc = "query"
    /\ \/ LogPoll(query.pid, "failed") /\ QueryEnds
       \/ /\ \E status \in Reported(state) : LogPoll(query.pid, status)
          /\ QueryEnds \/ (state = "done" /\ QueryGoto("save"))
    /\ UNCHANGED <<kind, orders, attempts, jobs, worker, retry, resolved, faults, history>>

SaveRecovered ==
    /\ query.pc = "save"
    /\ \/ /\ task.status = "failed"
          /\ task' = [status |-> "succeeded", run |-> query.run, pid |-> query.pid,
                      owner |-> NoWorker, lease |-> "none"]
          /\ QueryGoto("settle")
          /\ UNCHANGED orders
       \/ /\ Bill(query.run, Uncertain(orders[query.run]))
          /\ QueryEnds
          /\ UNCHANGED task
    /\ UNCHANGED <<kind, attempts, calls, jobs, worker, retry, resolved, faults, history>>

SettleRecovered ==
    /\ query.pc = "settle"
    /\ \/ Bill(query.run, Settled(orders[query.run]))
       \/ Bill(query.run, Uncertain(orders[query.run]))
    /\ QueryEnds
    /\ UNCHANGED <<kind, task, attempts, calls, jobs, worker, retry, resolved, faults, history>>

(* The administrator *)
ResolveBillingOrder(r, s) ==
    /\ "resolve" \in People
    /\ orders[r] \in Unfinished
    /\ Bill(r, s)
    /\ resolved' = resolved \cup {r}
    /\ UNCHANGED <<kind, task, attempts, calls, jobs, worker, retry, query, faults, history>>

-----------------------------------------------------------------------------
(* What processClaimedTask does unless its process dies. *)
WorkerStep(w) ==
    \/ TakeAttempt(w) \/ ResumeAttempt(w) \/ RefuseAttempt(w) \/ BeginDirect(w)
    \/ MarkBillingRunning(w) \/ MarkRouteAttemptDispatching(w)
    \/ Submit(w) \/ SubmitFails(w) \/ Resume(w)
    \/ RecordAnswer(w) \/ AnswerLost(w)
    \/ PollEnds(w) \/ PollFails(w) \/ PollTimesOut(w)
    \/ FinishRouteAttempt(w) \/ NextRouteAttempt(w)
    \/ PersistResult(w) \/ SaveTaskCompletion(w) \/ SaveFails(w) \/ SettleBilling(w)
    \/ LeaveToSuccessor(w) \/ DeferRunningTaskForProviderPoll(w)
    \/ MarkFailed(w) \/ CloseBilling(w)

Retry == CheckRetryEligibility \/ RetryTaskWithBilling
Query ==
    \/ BeginQuery \/ ClaimFailedTaskProviderRecovery \/ QueryUpstream
    \/ SaveRecovered \/ SettleRecovered
Resolve == \E r \in Runs, s \in {"settled", "refunded"} : ResolveBillingOrder(r, s)

Next ==
    \/ \E w \in Workers :
          \/ ClaimNextTask(w) \/ WorkerStep(w)
          \/ RenewTaskLease(w) \/ RenewalFails(w)
          \/ BeginFails(w) \/ AnswerNotLogged(w) \/ Crash(w)
    \/ WorkerStalls \/ LeaseExpires
    \/ \E j \in 1..NumJobs : JobEnds(j)
    \/ Retry \/ Query \/ Resolve

Spec == Init /\ [][Next]_vars

(* The dispatch ticker keeps claiming, a lease that is not renewed runs     *)
(* out, a goroutine goes on, and every job the upstream accepts ends.  A    *)
(* video that is polled again and again meets its job's end some time.      *)
Fairness ==
    /\ WF_vars(\E w \in Workers : ClaimNextTask(w))
    /\ WF_vars(LeaseExpires)
    /\ \A w \in Workers :
          WF_vars(WorkerStep(w) \/ AnswerNotLogged(w)) /\ SF_vars(PollEnds(w))
    /\ \A j \in 1..NumJobs : WF_vars(JobEnds(j))
FairSpec == Spec /\ Fairness

-----------------------------------------------------------------------------
(* Properties *)

JobsOf(r) == {j \in DOMAIN jobs : jobs[j].run = r}

(* A run of a logical task never makes the upstream accept a second job,    *)
(* whatever dies or is taken over, until the task is claimed from a worker  *)
(* that still relies on its lease: the reason beginTaskRouteAttempt stops   *)
(* resending when the last submission is not known to have failed.          *)
SubmittedOnce ==
    kind.logical => overtaken \/ \A r \in Runs : Cardinality(JobsOf(r)) <= 1

(* An uncertain order keeps its credits until a person looks at it: no      *)
(* program step refunds it, as long as no worker was overtaken.             *)
UncertainIsReviewed ==
    [][\A r \in Runs :
          orders[r] = "uncertain" /\ orders'[r] = "refunded" => r \in resolved' \/ overtaken]_vars

(* A user who has the result has not got the credits back for it, unless an *)
(* administrator decided so or a worker was overtaken.                      *)
ResultIsPaid ==
    task.status = "succeeded" /\ orders[task.run] = "refunded"
       => task.run \in resolved \/ overtaken

(* Across retries, recoveries and takeovers the program charges a task at   *)
(* most once, and only for the run whose result the task shows.             *)
ChargedForResult ==
    \A r \in Runs :
       orders[r] = "settled" /\ r \notin resolved
          => task.status = "succeeded" /\ task.run = r

(* The id saved with a result is that of a job the same run submitted,      *)
(* unless a retry started while someone was still at the run before, whose  *)
(* late answer then leaves its id on the next.                              *)
ResultOfOwnJob ==
    task.status = "succeeded" /\ task.pid # 0 => outlived \/ jobs[task.pid].run = task.run

(* A task that was queued ends, crashes, lost leases and retries of the     *)
(* user's notwithstanding.                                                  *)
TaskEnds == task.status \in {"queued", "running"} ~> task.status \in {"succeeded", "failed"}

(* An order is finished or handed to review once its run is over, as long   *)
(* as no process dies in between.                                           *)
Crashed == "crash" \in FaultKinds /\ faults["crash"] > 0
BillCloses ==
    \A r \in Runs : orders[r] \in {"reserved", "running"}
                       ~> Crashed \/ orders[r] \in {"settled", "refunded", "uncertain"}
=============================================================================
