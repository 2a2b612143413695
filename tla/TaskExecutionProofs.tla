------------------------ MODULE TaskExecutionProofs ------------------------
(***************************************************************************)
(* Theorems about TaskExecution for every number of workers, runs, routes, *)
(* upstream jobs and faults.                                               *)
(***************************************************************************)
EXTENDS TaskExecution, FiniteSetTheorems, TLAPS

(* What is done has a run.                                                 *)
Named ==
    /\ \A w \in Workers : worker[w].pc # "idle" => worker[w].run # 0
    /\ query.pc # "none" => query.run # 0 /\ query.pid # 0

(* An order is settled for the run that saved the result, and a result     *)
(* stays.                                                                  *)
Charges ==
    /\ \A w \in Workers : worker[w].pc = "settle" =>
          task.status = "succeeded" /\ task.run = worker[w].run
    /\ query.pc = "settle" => task.status = "succeeded" /\ task.run = query.run
    /\ ChargedForResult

-----------------------------------------------------------------------------
(* No renewal fails while the row is the worker's; or nobody retries.      *)
Calm == "lease" \notin FaultKinds
NoRetry == "retry" \notin People
Single == Calm \/ NoRetry

(* Nobody has been held up longer than a lease lasts.                      *)
Unstalled == "stall" \in FaultKinds => faults["stall"] = 0

(* The lease, as long as nobody is overtaken: of the workers that rely on  *)
(* theirs there is one, and it is the row's owner while the row runs.      *)
Leases ==
    /\ \A w \in Workers : Live(w) /\ task.status = "running" =>
          task.owner = w /\ (Unstalled => task.lease = "live")
    /\ \A u, w \in Workers : Live(u) /\ Live(w) => u = w
    /\ \A w \in Workers : Early(w) => worker[w].run = task.run /\ task.status # "queued"
    /\ Calm => \A w \in Workers : Early(w) => Live(w) /\ task.status = "running"
    /\ NoRetry => /\ task.run = 1 /\ retry = "none" /\ query.run \in {0, 1}
                  /\ \A w \in Workers : worker[w].run \in {0, 1}

(* What the row says of a job, and whose it is.                            *)
Newest == attempts[task.run][Len(attempts[task.run])]
HasJob == \E j \in DOMAIN jobs : jobs[j].run = task.run

(* A worker that will submit, and one that may switch the route.           *)
Fresh(w) == Live(w) /\ ~Resumed(w) /\ worker[w].pc \in {"bill", "dispatch", "call"}
Spent(w) ==
    \/ worker[w].pc = "next"
    \/ /\ worker[w].pc = "finish" /\ worker[w].out \in {"slot", "rejected"}
       /\ worker[w].pid = 0 /\ task.pid = 0

OneJob == \A i, j \in DOMAIN jobs : jobs[i].run = jobs[j].run => i = j
Future ==
    task.status # "succeeded" => \A r \in Runs : r > task.run =>
       attempts[r] = <<>> /\ \A j \in DOMAIN jobs : jobs[j].run # r
Recorded ==
    HasJob /\ (task.status # "succeeded" \/ NoRetry) =>
       attempts[task.run] # <<>> /\ Newest.state \in {"submission_unknown", "accepted"}
Steady(w) ==
    /\ Early(w) => worker[w].n <= Len(attempts[task.run])
    /\ worker[w].pc \in {"bill", "dispatch", "call", "answer", "poll", "finish", "next"} =>
          worker[w].n # 0
    /\ worker[w].pc \in {"answer", "poll"} => worker[w].job # 0
    /\ worker[w].pc = "finish" /\ worker[w].out = "ok" => task.pid # 0
    /\ worker[w].pc \in {"persist", "save"} => worker[w].pid # 0
(* Fit to submit: nothing was sent that may have made a job.               *)
Sendable(w) ==
    /\ ~HasJob /\ worker[w].n = Len(attempts[task.run])
    /\ Newest.state # "rejected_no_job"
    /\ worker[w].pc # "call" => worker[w].state = "not_sent"
    /\ worker[w].pc = "call" => Newest.state # "not_sent"
Unsent == ~HasJob /\ Newest.state # "not_sent" /\ \A u \in Workers : ~Fresh(u)

Sends ==
    /\ OneJob /\ Future /\ Recorded
    /\ \A w \in Workers :
          /\ Steady(w) /\ (Fresh(w) => Sendable(w))
          /\ Spent(w) /\ worker[w].n = Len(attempts[task.run]) => Unsent

(* Every logical task is one that can be polled again.                     *)
Resumable == \A k \in Kinds : k.logical => k.resumable

-----------------------------------------------------------------------------
Quiet == Calm /\ "query" \notin People

Closing(w) == worker[w].pc = "close"

(* A result shown has its order.                                           *)
Earned ==
    task.status = "succeeded" /\ orders[task.run] = "refunded" => task.run \in resolved

(* The order of a task that has not failed is there, and nobody is left to *)
(* refund it.                                                              *)
Paid ==
    /\ query.pc = "none"
    /\ \A r \in Runs : r > task.run => orders[r] = "absent"
    /\ \A r \in resolved : orders[r] \in {"settled", "refunded"}
    /\ \A w \in Workers : Closing(w) =>
          worker[w].run < task.run \/ (task.status = "failed" /\ worker[w].run = task.run)
    /\ task.status \in {"queued", "running"} =>
          orders[task.run] \in Unfinished \/ task.run \in resolved
    /\ Earned

(* A doubtful order has nobody left to close it.                           *)
Doubts ==
    /\ task.status \in {"queued", "running"} => orders[task.run] # "uncertain"
    /\ \A w \in Workers : Closing(w) => orders[worker[w].run] # "uncertain"
    /\ \A u, w \in Workers : Closing(u) /\ Closing(w) /\ worker[u].run = worker[w].run => u = w

(* An id is that of a job of the run that holds it.                        *)
Job(pid, run) == pid # 0 => pid \in DOMAIN jobs /\ jobs[pid].run = run
OwnJobs ==
    /\ Job(task.pid, task.run)
    /\ \A w \in Workers : Early(w) => Job(worker[w].pid, worker[w].run) /\ Job(worker[w].job, worker[w].run)
    /\ \A r \in Runs : \A n \in DOMAIN attempts[r] : Job(attempts[r][n].pid, r)
(* Whoever writes an id to the row is at the run the row names.            *)
AtRun ==
    /\ \A w \in Workers : Early(w) => worker[w].run = task.run
    /\ query.pc # "none" => query.run = task.run
QueryOwn == query.pc # "none" => Job(query.pid, query.run)

-----------------------------------------------------------------------------
WorkerRow ==
    [pc : Steps \cup {"idle"}, run : Runs \cup {0}, n : 0..NumRoutes,
     state : DispatchStates \cup {"none"}, pid : Pids, job : Pids,
     out : CallOutcomes \cup Verdicts \cup {"none", "unsaved"}, lease : {"held", "lost"}]

(* A worker that moves, and what it was before.                            *)
Moved(w, row) ==
    /\ worker' \in [Workers -> WorkerRow]
    /\ worker'[w] = row /\ row \in WorkerRow
    /\ \A u \in Workers \ {w} : worker'[u] = worker[u]

LEMMA MovesRow ==
    ASSUME TypeOK, NEW w \in Workers, NEW row \in WorkerRow, worker' = [worker EXCEPT ![w] = row]
    PROVE  Moved(w, row)
BY DEF TypeOK, WorkerRow, Moved

LEMMA EndsRow ==
    ASSUME TypeOK, NEW w \in Workers, NEW pc \in Steps \cup {"idle"},
           NEW out \in CallOutcomes \cup Verdicts \cup {"none", "unsaved"}, Ends(w, pc, out)
    PROVE  Moved(w, [worker[w] EXCEPT !.pc = pc, !.out = out])
<1> DEFINE row == [worker[w] EXCEPT !.pc = pc, !.out = out]
<1>0. worker[w] \in WorkerRow BY DEF TypeOK, WorkerRow
<1>1. row \in WorkerRow BY <1>0 DEF WorkerRow
<1>2. worker' = [worker EXCEPT ![w] = row]
  BY DEF Ends, TypeOK
<1> HIDE DEF row
<1>3. Moved(w, row) BY <1>1, <1>2, MovesRow
<1> QED BY <1>3 DEF row

LEMMA GotoRow ==
    ASSUME TypeOK, NEW w \in Workers, NEW pc \in Steps \cup {"idle"}, Goto(w, pc)
    PROVE  Moved(w, [worker[w] EXCEPT !.pc = pc])
<1> DEFINE row == [worker[w] EXCEPT !.pc = pc]
<1>0. worker[w] \in WorkerRow BY DEF TypeOK, WorkerRow
<1>1. row \in WorkerRow BY <1>0 DEF WorkerRow
<1>2. worker' = [worker EXCEPT ![w] = row]
  BY DEF Goto, TypeOK
<1> HIDE DEF row
<1>3. Moved(w, row) BY <1>1, <1>2, MovesRow
<1> QED BY <1>3 DEF row

LEMMA RestingRow ==
    /\ Resting \in WorkerRow
    /\ Resting.pc = "idle" /\ Resting.run = 0 /\ Resting.n = 0 /\ Resting.state = "none"
    /\ Resting.pid = 0 /\ Resting.job = 0 /\ Resting.out = "none" /\ Resting.lease = "held"
BY BoundsAssumption DEF Resting, WorkerRow, Runs, Pids, Steps

LEMMA RestsRow ==
    ASSUME TypeOK, NEW w \in Workers, Rests(w)
    PROVE  Moved(w, Resting)
BY RestingRow, MovesRow DEF Rests

LEMMA SwitchRow ==
    ASSUME TypeOK, NEW w \in Workers, NEW pc \in Steps, worker[w].run \in Runs, SwitchRoute(w, pc)
    PROVE  Moved(w, [worker[w] EXCEPT !.pc = pc, !.n = Len(attempts[worker[w].run]) + 1,
                                      !.state = "not_sent", !.pid = 0, !.job = 0, !.out = "none"])
<1> DEFINE row == [worker[w] EXCEPT !.pc = pc, !.n = Len(attempts[worker[w].run]) + 1,
                                    !.state = "not_sent", !.pid = 0, !.job = 0, !.out = "none"]
<1>0. worker[w] \in WorkerRow BY DEF TypeOK, WorkerRow
<1>1. Len(attempts[worker[w].run]) + 1 \in 0..NumRoutes
  BY BoundsAssumption DEF TypeOK, SwitchRoute, CanSwitchRoute
<1>2. 0 \in Pids BY BoundsAssumption DEF Pids
<1>3. row \in WorkerRow BY <1>0, <1>1, <1>2 DEF WorkerRow, DispatchStates
<1>4. worker' = [worker EXCEPT ![w] = row]
  BY DEF SwitchRoute, TypeOK
<1> HIDE DEF row
<1>5. Moved(w, row) BY <1>3, <1>4, MovesRow
<1> QED BY <1>5 DEF row

-----------------------------------------------------------------------------
(* The parts of TypeOK that a step of a worker may write.                  *)
TaskRow == [status : TaskStatuses, run : Runs, pid : Pids,
            owner : Workers \cup {NoWorker}, lease : {"none", "live", "expired"}]
Attempt == [state : DispatchStates, pid : Pids]
AttemptsTyped ==
    /\ attempts \in [Runs -> Seq(Attempt)]
    /\ \A r \in Runs : Len(attempts[r]) <= NumRoutes
JobsTyped ==
    jobs \in Seq([run : Runs, state : {"working", "done", "failed"}]) /\ Len(jobs) <= NumJobs
Typed ==
    /\ task \in TaskRow /\ orders \in [Runs -> OrderStatuses] /\ AttemptsTyped
    /\ calls \in [Runs -> {"none", "ok", "failed"}] /\ JobsTyped
    /\ faults \in [FaultKinds -> 0..MaxFaults]

LEMMA TypedWorker == ASSUME TypeOK PROVE Typed /\ worker \in [Workers -> WorkerRow]
BY DEF TypeOK, Attempt, Typed, TaskRow, AttemptsTyped, JobsTyped, WorkerRow

LEMMA StepTyped ==
    ASSUME TypeOK, NEW w \in Workers, NEW row, Moved(w, row), Typed', UNCHANGED others
    PROVE  TypeOK'
BY DEF TypeOK, Typed, TaskRow, Attempt, AttemptsTyped, JobsTyped, WorkerRow, Moved, others, history

LEMMA OnlyWorker ==
    ASSUME TypeOK, NEW w \in Workers, NEW row, Moved(w, row),
           UNCHANGED <<task, orders, attempts, calls, jobs, others, faults>>
    PROVE  TypeOK'
<1>1. Typed BY TypedWorker
<1>2. Typed' BY <1>1 DEF Typed, AttemptsTyped, JobsTyped
<1> QED BY <1>2, StepTyped

LEMMA BillTyped ==
    ASSUME orders \in [Runs -> OrderStatuses], NEW r \in Runs, NEW s \in OrderStatuses, Bill(r, s)
    PROVE  orders' \in [Runs -> OrderStatuses] /\ orders'[r] = s
           /\ \A q \in Runs \ {r} : orders'[q] = orders[q]
BY DEF Bill

LEMMA FaultTyped ==
    ASSUME faults \in [FaultKinds -> 0..MaxFaults], NEW what, Fault(what)
    PROVE  faults' \in [FaultKinds -> 0..MaxFaults] /\ what \in FaultKinds
BY BoundsAssumption DEF Fault

LEMMA Verdict ==
    ASSUME NEW s \in OrderStatuses
    PROVE  Settled(s) \in OrderStatuses /\ Refunded(s) \in OrderStatuses /\ Uncertain(s) \in OrderStatuses
BY DEF Settled, Refunded, Uncertain, OrderStatuses, Unfinished

LEMMA Appended ==
    ASSUME NEW S, NEW s \in Seq(S), NEW e \in S
    PROVE  /\ Append(s, e) \in Seq(S) /\ Len(Append(s, e)) = Len(s) + 1
           /\ Append(s, e)[Len(s) + 1] = e /\ Append(s, e) # <<>>
           /\ \A k \in 1..Len(s) : Append(s, e)[k] = s[k]
<1>1. /\ Append(s, e) \in Seq(S) /\ Len(Append(s, e)) = Len(s) + 1
      /\ Append(s, e)[Len(s) + 1] = e
      /\ \A k \in 1..Len(s) : Append(s, e)[k] = s[k]
  OBVIOUS
<1>2. Len(s) \in Nat OBVIOUS
<1> QED BY <1>1, <1>2

LEMMA Element == ASSUME NEW S, NEW s \in Seq(S), NEW k \in 1..Len(s) PROVE s[k] \in S
OBVIOUS

LEMMA AppendTyped ==
    ASSUME AttemptsTyped, NEW r \in Runs, Len(attempts[r]) < NumRoutes,
           attempts' = [attempts EXCEPT ![r] = Append(@, NewAttempt)]
    PROVE  /\ AttemptsTyped' /\ Len(attempts'[r]) = Len(attempts[r]) + 1
           /\ attempts'[r][Len(attempts[r]) + 1] = NewAttempt
           /\ \A k \in 1..Len(attempts[r]) : attempts'[r][k] = attempts[r][k]
           /\ \A q \in Runs \ {r} : attempts'[q] = attempts[q]
<1> DEFINE new == Append(attempts[r], NewAttempt)
<1>1. NewAttempt \in Attempt
  BY BoundsAssumption DEF NewAttempt, Attempt, DispatchStates, Pids
<1>2. attempts \in [Runs -> Seq(Attempt)] /\ \A q \in Runs : Len(attempts[q]) <= NumRoutes
  BY DEF AttemptsTyped
<1>3. attempts[r] \in Seq(Attempt) BY <1>2
<1>4. /\ new \in Seq(Attempt) /\ Len(new) = Len(attempts[r]) + 1
      /\ new[Len(attempts[r]) + 1] = NewAttempt
      /\ \A k \in 1..Len(attempts[r]) : new[k] = attempts[r][k]
  BY <1>1, <1>3, Appended
<1>5. Len(new) <= NumRoutes BY <1>3, <1>4, BoundsAssumption
<1>6. attempts' = [attempts EXCEPT ![r] = new] BY <1>2
<1> HIDE DEF new
<1>7. attempts'[r] = new /\ \A q \in Runs \ {r} : attempts'[q] = attempts[q]
  BY <1>2, <1>6
<1>8. attempts' \in [Runs -> Seq(Attempt)] /\ \A q \in Runs : Len(attempts'[q]) <= NumRoutes
  BY <1>2, <1>4, <1>5, <1>6, <1>7
<1>9. AttemptsTyped' BY <1>8 DEF AttemptsTyped
<1> QED BY <1>4, <1>7, <1>9

LEMMA WriteTyped ==
    ASSUME AttemptsTyped, NEW r \in Runs, NEW n \in 1..Len(attempts[r]),
           NEW row \in Attempt,
           attempts' = [attempts EXCEPT ![r] = [attempts[r] EXCEPT ![n] = row]]
    PROVE  /\ AttemptsTyped' /\ attempts'[r][n] = row
           /\ Len(attempts'[r]) = Len(attempts[r])
           /\ \A k \in 1..Len(attempts[r]) : k # n => attempts'[r][k] = attempts[r][k]
           /\ \A q \in Runs \ {r} : attempts'[q] = attempts[q]
<1> DEFINE new == [attempts[r] EXCEPT ![n] = row]
<1>1. attempts[r] \in Seq(Attempt) BY DEF AttemptsTyped
<1>2. /\ new \in Seq(Attempt)
      /\ Len(new) = Len(attempts[r]) /\ new[n] = row
      /\ \A k \in 1..Len(attempts[r]) : k # n => new[k] = attempts[r][k]
  BY <1>1
<1>3. attempts'[r] = new /\ \A q \in Runs \ {r} : attempts'[q] = attempts[q]
  BY DEF AttemptsTyped
<1>4. attempts' = [attempts EXCEPT ![r] = new] OBVIOUS
<1> HIDE DEF new
<1> QED BY <1>2, <1>3, <1>4 DEF AttemptsTyped

(* Attempt n of run r, if there is one, is written over. *)
Written(r, n, row) ==
    /\ AttemptsTyped' /\ Len(attempts'[r]) = Len(attempts[r])
    /\ \A k \in 1..Len(attempts[r]) : attempts'[r][k] = IF k = n THEN row ELSE attempts[r][k]
    /\ \A q \in Runs \ {r} : attempts'[q] = attempts[q]

LEMMA AnyWriteTyped ==
    ASSUME AttemptsTyped, NEW r \in Runs, NEW n, NEW row,
           n \in 1..Len(attempts[r]) => row \in Attempt,
           attempts' = [attempts EXCEPT ![r] = [attempts[r] EXCEPT ![n] = row]]
    PROVE  Written(r, n, row)
<1>1. CASE n \in 1..Len(attempts[r])
  <2>1. row \in Attempt BY <1>1
  <2>2. /\ AttemptsTyped' /\ attempts'[r][n] = row
        /\ Len(attempts'[r]) = Len(attempts[r])
        /\ \A k \in 1..Len(attempts[r]) : k # n => attempts'[r][k] = attempts[r][k]
        /\ \A q \in Runs \ {r} : attempts'[q] = attempts[q]
    BY <1>1, <2>1, WriteTyped
  <2> QED BY <2>2 DEF Written
<1>2. CASE n \notin 1..Len(attempts[r])
  <2>1. attempts[r] \in Seq(Attempt) BY DEF AttemptsTyped
  <2>2. [attempts[r] EXCEPT ![n] = row] = attempts[r] BY <1>2, <2>1
  <2>3. attempts' = [attempts EXCEPT ![r] = attempts[r]] BY <2>2
  <2>4. attempts' = attempts BY <2>3 DEF AttemptsTyped
  <2> QED BY <1>2, <2>4 DEF AttemptsTyped, Written
<1> QED BY <1>1, <1>2

LEMMA StateTyped ==
    ASSUME NEW a \in Attempt, NEW s \in DispatchStates
    PROVE  /\ [a EXCEPT !.state = s] \in Attempt
           /\ [a EXCEPT !.state = s].state = s /\ [a EXCEPT !.state = s].pid = a.pid
BY DEF Attempt

LEMMA HasRun ==
    ASSUME TypeOK, Named, NEW w \in Workers, worker[w].pc # "idle"
    PROVE  worker[w].run \in Runs
BY DEF TypeOK, Named

-----------------------------------------------------------------------------
(* What each step makes of its worker. *)
LEMMA ClaimMoves ==
    ASSUME TypeOK, NEW w \in Workers, ClaimNextTask(w)
    PROVE  TypeOK' /\ Moved(w, [Resting EXCEPT !.pc = "begin", !.run = task.run,
                                               !.n = Len(attempts[task.run]), !.pid = task.pid])
<1> DEFINE row == [Resting EXCEPT !.pc = "begin", !.run = task.run,
                                  !.n = Len(attempts[task.run]), !.pid = task.pid]
<1>1. Typed BY TypedWorker
<1>2. Len(attempts[task.run]) \in 0..NumRoutes
  BY <1>1, BoundsAssumption DEF Typed, TaskRow, AttemptsTyped
<1>3. Resting \in WorkerRow BY RestingRow
<1>4. row \in WorkerRow
  BY <1>1, <1>2, <1>3 DEF Typed, TaskRow, WorkerRow, Steps
<1>5. worker' = [worker EXCEPT ![w] = row] BY DEF ClaimNextTask
<1>6. Typed' BY <1>1 DEF ClaimNextTask, Typed, TaskRow, TaskStatuses, AttemptsTyped, JobsTyped
<1> HIDE DEF row
<1>7. Moved(w, row) BY <1>4, <1>5, MovesRow
<1>8. UNCHANGED <<kind, retry, query, resolved>> /\ overtaken' \in BOOLEAN /\ outlived' \in BOOLEAN
  BY DEF ClaimNextTask, TypeOK
<1>9. TypeOK'
  BY <1>6, <1>7, <1>8
     DEF TypeOK, Typed, TaskRow, Attempt, AttemptsTyped, JobsTyped, WorkerRow, Moved
<1> QED BY <1>7, <1>9 DEF row

LEMMA RenewalMoves ==
    ASSUME TypeOK, NEW w \in Workers, RenewalFails(w)
    PROVE  TypeOK' /\ Moved(w, [worker[w] EXCEPT !.lease = "lost"])
<1> DEFINE row == [worker[w] EXCEPT !.lease = "lost"]
<1>1. Typed BY TypedWorker
<1>0. worker[w] \in WorkerRow BY DEF TypeOK, WorkerRow
<1>2. row \in WorkerRow BY <1>0 DEF WorkerRow
<1>3. worker' = [worker EXCEPT ![w] = row] BY DEF RenewalFails
<1>4. faults' \in [FaultKinds -> 0..MaxFaults] BY <1>1, FaultTyped DEF RenewalFails, Typed
<1>5. Typed' BY <1>1, <1>4 DEF RenewalFails, Typed, AttemptsTyped, JobsTyped
<1> HIDE DEF row
<1>6. Moved(w, row) BY <1>2, <1>3, MovesRow
<1>7. TypeOK' BY <1>5, <1>6, StepTyped DEF RenewalFails
<1> QED BY <1>6, <1>7 DEF row

LEMMA CrashMoves ==
    ASSUME TypeOK, NEW w \in Workers, Crash(w)
    PROVE  TypeOK' /\ Moved(w, Resting)
<1>1. Typed BY TypedWorker
<1>2. Moved(w, Resting) BY RestsRow DEF Crash
<1>3. faults' \in [FaultKinds -> 0..MaxFaults] BY <1>1, FaultTyped DEF Crash, Typed
<1>4. Typed' BY <1>1, <1>3 DEF Crash, Typed, AttemptsTyped, JobsTyped
<1> QED BY <1>2, <1>4, StepTyped DEF Crash

LEMMA SwitchTyped ==
    ASSUME Typed, NEW w \in Workers, NEW pc, worker[w].run \in Runs, SwitchRoute(w, pc)
    PROVE  LET r == worker[w].run IN
           /\ AttemptsTyped' /\ Len(attempts'[r]) = Len(attempts[r]) + 1
           /\ attempts'[r][Len(attempts[r]) + 1] = NewAttempt
           /\ \A k \in 1..Len(attempts[r]) : attempts'[r][k] = attempts[r][k]
           /\ \A q \in Runs \ {r} : attempts'[q] = attempts[q]
<1> DEFINE r == worker[w].run
<1>1. AttemptsTyped /\ r \in Runs /\ Len(attempts[r]) < NumRoutes
  BY DEF Typed, SwitchRoute, CanSwitchRoute
<1>2. attempts' = [attempts EXCEPT ![r] = Append(@, NewAttempt)] BY DEF SwitchRoute
<1> HIDE DEF r
<1>3. /\ AttemptsTyped' /\ Len(attempts'[r]) = Len(attempts[r]) + 1
      /\ attempts'[r][Len(attempts[r]) + 1] = NewAttempt
      /\ \A k \in 1..Len(attempts[r]) : attempts'[r][k] = attempts[r][k]
      /\ \A q \in Runs \ {r} : attempts'[q] = attempts[q]
  BY <1>1, <1>2, AppendTyped
<1> QED BY <1>3 DEF r

LEMMA FirstTyped ==
    ASSUME AttemptsTyped, NEW r \in Runs, attempts' = [attempts EXCEPT ![r] = <<NewAttempt>>]
    PROVE  /\ AttemptsTyped' /\ Len(attempts'[r]) = 1 /\ attempts'[r][1] = NewAttempt
           /\ \A q \in Runs \ {r} : attempts'[q] = attempts[q]
<1> DEFINE one == <<NewAttempt>>
<1>1. NewAttempt \in Attempt
  BY BoundsAssumption DEF NewAttempt, Attempt, DispatchStates, Pids
<1>2. attempts \in [Runs -> Seq(Attempt)] /\ \A q \in Runs : Len(attempts[q]) <= NumRoutes
  BY DEF AttemptsTyped
<1>3. one \in Seq(Attempt) /\ Len(one) = 1 /\ one[1] = NewAttempt BY <1>1
<1> HIDE DEF one
<1>4. attempts' = [attempts EXCEPT ![r] = one] BY DEF one
<1>5. attempts'[r] = one /\ \A q \in Runs \ {r} : attempts'[q] = attempts[q] BY <1>2, <1>4
<1>6. attempts' \in [Runs -> Seq(Attempt)] /\ \A q \in Runs : Len(attempts'[q]) <= NumRoutes
  <2>1. attempts' \in [Runs -> Seq(Attempt)] BY <1>2, <1>3, <1>4
  <2>2. 1 <= NumRoutes BY BoundsAssumption
  <2> QED BY <1>2, <1>3, <1>5, <2>1, <2>2
<1>7. AttemptsTyped' BY <1>6 DEF AttemptsTyped
<1> QED BY <1>3, <1>5, <1>7

(* The three ways of beginTaskRouteAttempt to a route to call. *)
First(w) ==
    LET r == worker[w].run IN
    /\ attempts[r] = <<>> /\ attempts' = [attempts EXCEPT ![r] = <<NewAttempt>>]
    /\ Moved(w, [worker[w] EXCEPT !.pc = "bill", !.n = 1, !.state = "not_sent"])
Again(w) ==
    LET r == worker[w].run IN
    /\ attempts[r] # <<>> /\ attempts[r][Len(attempts[r])].state = "not_sent" /\ attempts' = attempts
    /\ Moved(w, [worker[w] EXCEPT !.pc = "bill", !.n = Len(attempts[r]), !.state = "not_sent"])
Switched(w, pc) ==
    LET r == worker[w].run IN
    /\ SwitchRoute(w, pc)
    /\ Moved(w, [worker[w] EXCEPT !.pc = pc, !.n = Len(attempts[worker[w].run]) + 1,
                                  !.state = "not_sent", !.pid = 0, !.job = 0, !.out = "none"])

Refused(w) ==
    LET r == worker[w].run IN
    attempts[r] # <<>> /\ attempts[r][Len(attempts[r])].state = "rejected_no_job"

LEMMA TakeMoves ==
    ASSUME TypeOK, Named, NEW w \in Workers, TakeAttempt(w)
    PROVE  /\ TypeOK'
           /\ First(w) \/ Again(w) \/ (Refused(w) /\ Switched(w, "bill"))
<1> DEFINE r == worker[w].run
           last == attempts[r][Len(attempts[r])]
<1>0. Typed /\ worker[w] \in WorkerRow /\ r \in Runs
  BY TypedWorker, HasRun DEF TakeAttempt
<1>1. AttemptsTyped' => Typed' BY <1>0 DEF TakeAttempt, Typed, JobsTyped
<1>2. CASE /\ attempts[r] = <<>> /\ attempts' = [attempts EXCEPT ![r] = <<NewAttempt>>]
           /\ worker' = [worker EXCEPT ![w].pc = "bill", ![w].n = 1, ![w].state = "not_sent"]
  <2> DEFINE row == [worker[w] EXCEPT !.pc = "bill", !.n = 1, !.state = "not_sent"]
  <2>0. 1 \in 0..NumRoutes BY BoundsAssumption
  <2>1. row \in WorkerRow BY <1>0, <2>0 DEF WorkerRow, Steps, DispatchStates
  <2>2. worker' = [worker EXCEPT ![w] = row] BY <1>2
  <2> HIDE DEF row
  <2>3. Moved(w, row) BY <2>1, <2>2, MovesRow
  <2>4. AttemptsTyped' BY <1>0, <1>2, FirstTyped DEF Typed
  <2>5. TypeOK' BY <1>1, <2>3, <2>4, StepTyped DEF TakeAttempt
  <2> QED BY <1>2, <2>3, <2>5 DEF First, row
<1>3. CASE /\ attempts[r] # <<>> /\ last.state = "not_sent" /\ attempts' = attempts
           /\ worker' = [worker EXCEPT ![w].pc = "bill", ![w].n = Len(attempts[r]),
                                       ![w].state = "not_sent"]
  <2> DEFINE row == [worker[w] EXCEPT !.pc = "bill", !.n = Len(attempts[r]), !.state = "not_sent"]
  <2>0. Len(attempts[r]) \in 0..NumRoutes
    BY <1>0, BoundsAssumption DEF Typed, AttemptsTyped
  <2>1. row \in WorkerRow BY <1>0, <2>0 DEF WorkerRow, Steps, DispatchStates
  <2>2. worker' = [worker EXCEPT ![w] = row] BY <1>3
  <2> HIDE DEF row
  <2>3. Moved(w, row) BY <2>1, <2>2, MovesRow
  <2>4. AttemptsTyped' BY <1>0, <1>3 DEF Typed, AttemptsTyped
  <2>5. TypeOK' BY <1>1, <2>3, <2>4, StepTyped DEF TakeAttempt
  <2> QED BY <1>3, <2>3, <2>5 DEF Again, row
<1>4. CASE Refused(w) /\ SwitchRoute(w, "bill")
  <2>1. AttemptsTyped' BY <1>0, <1>4, SwitchTyped
  <2>2. Switched(w, "bill")
    <3>1. "bill" \in Steps /\ SwitchRoute(w, "bill") BY <1>4 DEF Steps
    <3> QED BY <1>0, <3>1, SwitchRow DEF Switched
  <2>3. TypeOK' BY <1>1, <2>1, <2>2, StepTyped DEF TakeAttempt, Switched
  <2> QED BY <1>4, <2>2, <2>3
<1> QED BY <1>2, <1>3, <1>4 DEF TakeAttempt, Refused

Went(w, pc) == Moved(w, [worker[w] EXCEPT !.pc = pc])
Ended(w, pc, out) == Moved(w, [worker[w] EXCEPT !.pc = pc, !.out = out])
Still == UNCHANGED <<task, orders, attempts, calls, jobs, others, faults>>

LEMMA EndsMoves ==
    ASSUME TypeOK, NEW w \in Workers, NEW pc \in Steps,
           NEW out \in CallOutcomes \cup Verdicts \cup {"none", "unsaved"}, Ends(w, pc, out)
    PROVE  Ended(w, pc, out) /\ (Still => TypeOK')
<1>1. Ended(w, pc, out) BY EndsRow DEF Ended
<1> QED BY <1>1, OnlyWorker DEF Ended, Still

LEMMA GotoMoves ==
    ASSUME TypeOK, NEW w \in Workers, NEW pc \in Steps, Goto(w, pc)
    PROVE  Went(w, pc) /\ (Still => TypeOK')
BY GotoRow, OnlyWorker DEF Went, Still

LEMMA ResumeAttemptMoves ==
    ASSUME TypeOK, Named, NEW w \in Workers, ResumeAttempt(w)
    PROVE  LET r == worker[w].run
               n == Len(attempts[r])
               pid == IF worker[w].pid # 0 THEN worker[w].pid ELSE attempts[r][n].pid
           IN
           /\ TypeOK' /\ r \in Runs /\ n \in 1..NumRoutes /\ pid # 0 /\ pid \in Pids
           /\ Moved(w, [worker[w] EXCEPT !.pc = "bill", !.n = n, !.state = "accepted", !.pid = pid])
           /\ Written(r, n, [attempts[r][n] EXCEPT !.state = "accepted"])
           /\ attempts[r][n] \in Attempt
<1> DEFINE r == worker[w].run
           n == Len(attempts[r])
           pid == IF worker[w].pid # 0 THEN worker[w].pid ELSE attempts[r][n].pid
           row == [worker[w] EXCEPT !.pc = "bill", !.n = n, !.state = "accepted", !.pid = pid]
           new == [attempts[r][n] EXCEPT !.state = "accepted"]
<1>1. Typed /\ worker[w] \in WorkerRow /\ r \in Runs
  BY TypedWorker, HasRun DEF ResumeAttempt
<1>2. AttemptsTyped /\ attempts[r] \in Seq(Attempt) /\ n <= NumRoutes
  BY <1>1 DEF Typed, AttemptsTyped
<1>3. n \in 1..Len(attempts[r]) /\ n \in 1..NumRoutes
  <2>1. n > 0 BY DEF ResumeAttempt
  <2>2. n \in Nat BY <1>2
  <2> QED BY <1>2, <2>1, <2>2, BoundsAssumption
<1>4. attempts[r][n] \in Attempt
  BY <1>2, <1>3, Element
<1>5. pid # 0 BY DEF ResumeAttempt
<1>6. pid \in Pids BY <1>1, <1>4 DEF WorkerRow, Attempt
<1>7. row \in WorkerRow
  <2>1. n \in 0..NumRoutes BY <1>3
  <2> HIDE DEF pid, n
  <2> QED BY <1>1, <1>6, <2>1 DEF WorkerRow, Steps, DispatchStates
<1>8. worker' = [worker EXCEPT ![w] = row] BY DEF ResumeAttempt
<1>9. new \in Attempt /\ new.state = "accepted" /\ new.pid = attempts[r][n].pid
  BY <1>4, StateTyped DEF DispatchStates
<1>10. attempts' = [attempts EXCEPT ![r] = [attempts[r] EXCEPT ![n] = new]] BY DEF ResumeAttempt
<1>11. task' \in TaskRow
  <2>1. task' = [task EXCEPT !.pid = IF worker[w].pid # 0 THEN @ ELSE pid] BY DEF ResumeAttempt
  <2> HIDE DEF pid
  <2> QED BY <1>1, <1>6, <2>1 DEF Typed, TaskRow
<1>12. UNCHANGED <<orders, calls, jobs, others, faults>> BY DEF ResumeAttempt
<1> HIDE DEF r, n, pid, row, new
<1>13. Moved(w, row) BY <1>7, <1>8, MovesRow
<1>14. Written(r, n, new)
  <2>1. r \in Runs /\ n \in 1..Len(attempts[r]) /\ new \in Attempt /\ AttemptsTyped
    BY <1>1, <1>2, <1>3, <1>9
  <2> QED BY <2>1, <1>10, AnyWriteTyped
<1>15. Typed' BY <1>1, <1>11, <1>12, <1>14 DEF Typed, JobsTyped, Written
<1>16. TypeOK' BY <1>12, <1>13, <1>15, StepTyped
<1> QED BY <1>1, <1>3, <1>4, <1>5, <1>6, <1>13, <1>14, <1>16 DEF r, n, pid, row, new

LEMMA RefuseMoves ==
    ASSUME TypeOK, NEW w \in Workers, RefuseAttempt(w)
    PROVE  TypeOK' /\ \E out \in Verdicts : Ended(w, "fail", out)
BY EndsMoves DEF RefuseAttempt, Verdicts, CallOutcomes, Steps, Still

LEMMA DirectMoves ==
    ASSUME TypeOK, NEW w \in Workers, BeginDirect(w)
    PROVE  TypeOK' /\ Went(w, "bill")
BY GotoMoves DEF BeginDirect, Steps, Still

LEMMA BillMoves ==
    ASSUME TypeOK, Named, NEW w \in Workers, MarkBillingRunning(w)
    PROVE  /\ TypeOK'
           /\ \/ /\ orders[worker[w].run] \in {"reserved", "running"}
                 /\ Bill(worker[w].run, "running") /\ Went(w, "dispatch")
              \/ /\ orders[worker[w].run] \notin {"reserved", "running"}
                 /\ UNCHANGED orders /\ Ended(w, "fail", "refund")
<1> DEFINE r == worker[w].run
<1>1. Typed /\ r \in Runs BY TypedWorker, HasRun DEF MarkBillingRunning
<1>2. CASE orders[r] \in {"reserved", "running"} /\ Bill(r, "running") /\ Goto(w, "dispatch")
  <2>1. Went(w, "dispatch") BY <1>2, GotoMoves DEF Steps
  <2>2. orders' \in [Runs -> OrderStatuses]
    BY <1>1, <1>2, BillTyped DEF Typed, OrderStatuses, Unfinished
  <2>3. Typed' BY <1>1, <2>2 DEF MarkBillingRunning, Typed, AttemptsTyped, JobsTyped
  <2>4. TypeOK' BY <2>1, <2>3, StepTyped DEF MarkBillingRunning, Went
  <2> QED BY <1>2, <2>1, <2>4
<1>3. CASE orders[r] \notin {"reserved", "running"} /\ UNCHANGED orders /\ Ends(w, "fail", "refund")
  BY <1>3, EndsMoves DEF MarkBillingRunning, Steps, Verdicts, Still
<1> QED BY <1>2, <1>3 DEF MarkBillingRunning

LEMMA DispatchMoves ==
    ASSUME TypeOK, Named, NEW w \in Workers, MarkRouteAttemptDispatching(w)
    PROVE  LET r == worker[w].run
               n == worker[w].n
           IN
           /\ TypeOK' /\ r \in Runs
           /\ \/ /\ worker[w].state = "not_sent"
                 /\ Written(r, n, [state |-> "submission_unknown", pid |-> 0])
                 /\ Moved(w, [worker[w] EXCEPT !.pc = "call", !.state = "submission_unknown"])
              \/ worker[w].state # "not_sent" /\ UNCHANGED attempts /\ Went(w, "call")
<1> DEFINE r == worker[w].run
           n == worker[w].n
           new == [state |-> "submission_unknown", pid |-> 0]
           row == [worker[w] EXCEPT !.pc = "call", !.state = "submission_unknown"]
<1>1. Typed /\ worker[w] \in WorkerRow /\ r \in Runs
  BY TypedWorker, HasRun DEF MarkRouteAttemptDispatching
<1>2. CASE /\ worker[w].state = "not_sent"
           /\ attempts' = [attempts EXCEPT ![r][n] = [state |-> "submission_unknown", pid |-> 0]]
           /\ worker' = [worker EXCEPT ![w].pc = "call", ![w].state = "submission_unknown"]
  <2>1. row \in WorkerRow BY <1>1 DEF WorkerRow, Steps, DispatchStates
  <2>2. worker' = [worker EXCEPT ![w] = row] BY <1>2
  <2>3. attempts' = [attempts EXCEPT ![r] = [attempts[r] EXCEPT ![n] = new]] BY <1>2
  <2>4. AttemptsTyped BY <1>1 DEF Typed
  <2>7. new \in Attempt BY BoundsAssumption DEF Attempt, DispatchStates, Pids
  <2> HIDE DEF row, new, r, n
  <2>8. Moved(w, row) BY <2>1, <2>2, MovesRow
  <2>9. Written(r, n, new) BY <1>1, <2>3, <2>4, <2>7, AnyWriteTyped
  <2>10. Typed' BY <1>1, <2>9 DEF MarkRouteAttemptDispatching, Typed, Written, JobsTyped
  <2>11. TypeOK' BY <2>8, <2>10, StepTyped DEF MarkRouteAttemptDispatching
  <2> QED BY <1>1, <1>2, <2>8, <2>9, <2>11 DEF row, new, r, n
<1>3. CASE worker[w].state # "not_sent" /\ UNCHANGED attempts /\ Goto(w, "call")
  BY <1>1, <1>3, GotoMoves DEF MarkRouteAttemptDispatching, Steps, Still
<1> QED BY <1>2, <1>3 DEF MarkRouteAttemptDispatching

LEMMA SubmitMoves ==
    ASSUME TypeOK, Named, NEW w \in Workers, Submit(w)
    PROVE  /\ TypeOK' /\ worker[w].run \in Runs
           /\ Moved(w, [worker[w] EXCEPT !.pc = "answer", !.job = Len(jobs) + 1])
           /\ Len(jobs') = Len(jobs) + 1 /\ Len(jobs) \in Nat
           /\ jobs'[Len(jobs) + 1].run = worker[w].run
           /\ \A j \in 1..Len(jobs) : jobs'[j] = jobs[j]
<1> DEFINE JobRow == [run : Runs, state : {"working", "done", "failed"}]
           new == [run |-> worker[w].run, state |-> "working"]
           row == [worker[w] EXCEPT !.pc = "answer", !.job = Len(jobs) + 1]
<1>1. Typed /\ worker[w] \in WorkerRow /\ worker[w].run \in Runs
  BY TypedWorker, HasRun DEF Submit
<1>2. jobs \in Seq(JobRow) /\ Len(jobs) < NumJobs BY <1>1 DEF Typed, JobsTyped, Submit
<1>3. new \in JobRow /\ new.run = worker[w].run BY <1>1
<1> HIDE DEF JobRow, new
<1>4. jobs' = Append(jobs, new) BY DEF Submit, new
<1>5. /\ jobs' \in Seq(JobRow) /\ Len(jobs') = Len(jobs) + 1
      /\ jobs'[Len(jobs) + 1] = new /\ \A j \in 1..Len(jobs) : jobs'[j] = jobs[j]
  BY <1>2, <1>3, <1>4, Appended
<1>6. Len(jobs) \in Nat BY <1>2
<1>7. Len(jobs) + 1 \in Pids BY <1>2, <1>6, BoundsAssumption DEF Pids
<1>8. row \in WorkerRow BY <1>1, <1>7 DEF WorkerRow, Steps
<1>9. worker' = [worker EXCEPT ![w] = row] BY DEF Submit
<1> HIDE DEF row
<1>10. Moved(w, row) BY <1>8, <1>9, MovesRow
<1>11. JobsTyped'
  <2>1. Len(jobs') <= NumJobs BY <1>2, <1>5, <1>6, BoundsAssumption
  <2> QED BY <1>5, <2>1 DEF JobsTyped, JobRow
<1>12. Typed' BY <1>1, <1>11 DEF Submit, Typed, AttemptsTyped
<1>13. TypeOK' BY <1>10, <1>12, StepTyped DEF Submit
<1> QED BY <1>1, <1>3, <1>5, <1>6, <1>10, <1>13 DEF row

LEMMA SubmitFailsMoves ==
    ASSUME TypeOK, NEW w \in Workers, SubmitFails(w)
    PROVE  TypeOK' /\ \E out \in CallOutcomes \ {"ok"} : Ended(w, "finish", out)
<1>1. PICK out \in CallOutcomes \ {"ok"} : Ends(w, "finish", out)
  BY DEF SubmitFails, CallOutcomes
<1> QED BY <1>1, EndsMoves DEF SubmitFails, Steps, Still

LEMMA ResumeMoves ==
    ASSUME TypeOK, NEW w \in Workers, Resume(w)
    PROVE  TypeOK' /\ Moved(w, [worker[w] EXCEPT !.pc = "poll", !.job = worker[w].pid])
<1> DEFINE row == [worker[w] EXCEPT !.pc = "poll", !.job = worker[w].pid]
<1>1. worker[w] \in WorkerRow BY TypedWorker
<1>2. row \in WorkerRow BY <1>1 DEF WorkerRow, Steps
<1>3. worker' = [worker EXCEPT ![w] = row] BY DEF Resume
<1> HIDE DEF row
<1>4. Moved(w, row) BY <1>2, <1>3, MovesRow
<1>5. TypeOK' BY <1>4, OnlyWorker DEF Resume
<1> QED BY <1>4, <1>5 DEF row

(* The id is written over the task row. *)
Identified(pid) ==
    /\ task' \in TaskRow /\ pid \in Pids /\ task'.pid = pid
    /\ task'.status = task.status /\ task'.run = task.run
    /\ task'.owner = task.owner /\ task'.lease = task.lease
(* What an answer makes of the worker, when the job is to be polled or not. *)
Goes(w) ==
    IF kind.resumable THEN Went(w, "poll")
    ELSE Ended(w, "finish", "ok") \/ Ended(w, "finish", "error")

LEMMA Identifies ==
    ASSUME Typed, NEW pid \in Pids, task' = [task EXCEPT !.pid = pid]
    PROVE  Identified(pid)
BY DEF Typed, TaskRow, Identified

LEMMA BeginFailsMoves ==
    ASSUME TypeOK, Named, NEW w \in Workers, BeginFails(w)
    PROVE  LET last == attempts[worker[w].run][Len(attempts[worker[w].run])] IN
           /\ TypeOK' /\ Ended(w, "fail", "refund")
           /\ \/ UNCHANGED task
              \/ attempts[worker[w].run] # <<>> /\ last.state = "submission_unknown"
                 /\ Identified(last.pid)
<1> DEFINE r == worker[w].run
           n == Len(attempts[r])
           last == attempts[r][n]
<1>1. Typed /\ r \in Runs BY TypedWorker, HasRun DEF BeginFails
<1>2. Ended(w, "fail", "refund") BY EndsMoves DEF BeginFails, Steps, Verdicts
<1>3. faults' \in [FaultKinds -> 0..MaxFaults] BY <1>1, FaultTyped DEF BeginFails, Typed
<1>4. CASE UNCHANGED task
  <2>1. Typed' BY <1>1, <1>3, <1>4 DEF BeginFails, Typed, AttemptsTyped, JobsTyped
  <2>2. TypeOK' BY <1>2, <2>1, StepTyped DEF BeginFails, Ended
  <2> QED BY <1>2, <1>4, <2>2
<1>5. CASE attempts[r] # <<>> /\ last.state = "submission_unknown" /\ task' = [task EXCEPT !.pid = last.pid]
  <2>1. attempts[r] \in Seq(Attempt) BY <1>1 DEF Typed, AttemptsTyped
  <2>2. n \in 1..Len(attempts[r]) BY <1>5, <2>1
  <2>3. last \in Attempt BY <2>1, <2>2, Element
  <2>7. last.pid \in Pids BY <2>3 DEF Attempt
  <2> HIDE DEF last
  <2>4. Identified(last.pid) BY <1>1, <1>5, <2>7, Identifies
  <2>5. Typed' BY <1>1, <1>3, <2>4 DEF BeginFails, Typed, Identified, AttemptsTyped, JobsTyped
  <2>6. TypeOK' BY <1>2, <2>5, StepTyped DEF BeginFails, Ended
  <2> QED BY <1>2, <1>5, <2>4, <2>6 DEF last
<1> QED BY <1>4, <1>5 DEF BeginFails

LEMMA AnsweredMoves ==
    ASSUME TypeOK, NEW w \in Workers, Answered(w)
    PROVE  Goes(w) /\ \E row : Moved(w, row)
<1>1. CASE kind.resumable
  BY <1>1, GotoMoves DEF Answered, Goes, Steps, Went
<1>2. CASE ~kind.resumable
  <2>1. PICK out \in {"ok", "error"} : Ends(w, "finish", out) BY <1>2 DEF Answered
  <2>2. Ended(w, "finish", out) BY <2>1, EndsMoves DEF Steps, CallOutcomes
  <2>3. Moved(w, [worker[w] EXCEPT !.pc = "finish", !.out = out]) BY <2>2 DEF Ended
  <2> QED BY <1>2, <2>1, <2>2, <2>3 DEF Goes
<1> QED BY <1>1, <1>2

LEMMA RecordMoves ==
    ASSUME TypeOK, Named, NEW w \in Workers, RecordAnswer(w)
    PROVE  /\ TypeOK' /\ Goes(w)
           /\ Identified(worker[w].job) \/ (~kind.resumable /\ Identified(task.pid))
<1>1. Typed /\ worker[w] \in WorkerRow /\ worker[w].run \in Runs
  BY TypedWorker, HasRun DEF RecordAnswer
<1>2. PICK pid \in {worker[w].job} \cup (IF kind.resumable THEN {} ELSE {task.pid}) :
            task' = [task EXCEPT !.pid = pid]
  BY DEF RecordAnswer
<1>3. pid \in Pids BY <1>1 DEF Typed, TaskRow, WorkerRow
<1>4. Identified(pid) BY <1>1, <1>2, <1>3, Identifies
<1>5. calls' \in [Runs -> {"none", "ok", "failed"}] BY <1>1 DEF RecordAnswer, Typed
<1>6. PICK row : Moved(w, row) BY AnsweredMoves DEF RecordAnswer
<1>7. Typed' BY <1>1, <1>4, <1>5 DEF RecordAnswer, Typed, Identified, AttemptsTyped, JobsTyped
<1>8. TypeOK' BY <1>6, <1>7, StepTyped DEF RecordAnswer
<1>9. Goes(w) BY AnsweredMoves DEF RecordAnswer
<1> QED BY <1>2, <1>4, <1>8, <1>9

LEMMA UnloggedMoves ==
    ASSUME TypeOK, Named, NEW w \in Workers, AnswerNotLogged(w)
    PROVE  /\ TypeOK' /\ Goes(w) /\ worker[w].run \in Runs
           /\ Identified(worker[w].job) \/ Identified(task.pid)
<1>1. Typed /\ worker[w] \in WorkerRow /\ worker[w].run \in Runs
  BY TypedWorker, HasRun DEF AnswerNotLogged
<1>2. PICK pid \in {task.pid, worker[w].job} : task' = [task EXCEPT !.pid = pid]
  BY DEF AnswerNotLogged
<1>3. pid \in Pids BY <1>1 DEF Typed, TaskRow, WorkerRow
<1>4. Identified(pid) BY <1>1, <1>2, <1>3, Identifies
<1>5. orders' \in [Runs -> OrderStatuses]
  <2>1. Uncertain(orders[worker[w].run]) \in OrderStatuses BY <1>1, Verdict DEF Typed
  <2> QED BY <1>1, <2>1, BillTyped DEF AnswerNotLogged, Typed
<1>6. PICK row : Moved(w, row) BY AnsweredMoves DEF AnswerNotLogged
<1>7. faults' \in [FaultKinds -> 0..MaxFaults] BY <1>1, FaultTyped DEF AnswerNotLogged, Typed
<1>8. Typed'
  BY <1>1, <1>4, <1>5, <1>7 DEF AnswerNotLogged, Typed, Identified, AttemptsTyped, JobsTyped
<1>9. TypeOK' BY <1>6, <1>8, StepTyped DEF AnswerNotLogged
<1>10. Goes(w) BY AnsweredMoves DEF AnswerNotLogged
<1> QED BY <1>1, <1>2, <1>4, <1>9, <1>10

LEMMA LostMoves ==
    ASSUME TypeOK, NEW w \in Workers, AnswerLost(w)
    PROVE  TypeOK' /\ \E out \in {"cancelled", "timeout"} : Ended(w, "finish", out)
<1>1. PICK out \in {"cancelled", "timeout"} : Ends(w, "finish", out)
  BY DEF AnswerLost
<1> QED BY <1>1, EndsMoves DEF AnswerLost, Steps, Still, CallOutcomes

LEMMA LogTyped ==
    ASSUME Typed, NEW pid \in Pids, NEW status \in {"ok", "failed"}, LogPoll(pid, status)
    PROVE  Identified(pid) /\ calls' \in [Runs -> {"none", "ok", "failed"}]
<1>1. Identified(pid) BY Identifies DEF LogPoll
<1>2. calls' \in [Runs -> {"none", "ok", "failed"}]
  <2>1. CASE Logged = {} BY <2>1 DEF LogPoll, Typed
  <2>2. CASE Logged # {}
    <3>1. calls' = [calls EXCEPT ![NewestCall] = status] BY <2>2 DEF LogPoll
    <3>2. calls \in [Runs -> {"none", "ok", "failed"}] BY DEF Typed
    <3> QED BY <3>1, <3>2
  <2> QED BY <2>1, <2>2
<1> QED BY <1>1, <1>2

LEMMA PollEndsMoves ==
    ASSUME TypeOK, NEW w \in Workers, PollEnds(w)
    PROVE  /\ TypeOK' /\ Identified(worker[w].job)
           /\ Ended(w, "finish", "ok") \/ Ended(w, "finish", "error")
<1>1. Typed /\ worker[w].job \in Pids BY TypedWorker DEF WorkerRow
<1>2. PICK status \in {"ok", "failed"} : LogPoll(worker[w].job, status)
  BY DEF PollEnds, Reported
<1>3. Identified(worker[w].job) /\ calls' \in [Runs -> {"none", "ok", "failed"}]
  BY <1>1, <1>2, LogTyped
<1>4. PICK out \in {"ok", "error"} : Ends(w, "finish", out) BY DEF PollEnds
<1>5. Ended(w, "finish", out) BY <1>4, EndsMoves DEF Steps, CallOutcomes
<1>6. Typed' BY <1>1, <1>3 DEF PollEnds, Typed, Identified, AttemptsTyped, JobsTyped
<1>7. TypeOK' BY <1>5, <1>6, StepTyped DEF PollEnds, Ended
<1> QED BY <1>3, <1>4, <1>5, <1>7

LEMMA PollFailsMoves ==
    ASSUME TypeOK, NEW w \in Workers, PollFails(w)
    PROVE  /\ TypeOK' /\ Identified(worker[w].job)
           /\ \E out \in CallOutcomes \ {"ok", "timeout"} : Ended(w, "finish", out)
<1>1. Typed /\ worker[w].job \in Pids BY TypedWorker DEF WorkerRow
<1>2. LogPoll(worker[w].job, "failed") BY DEF PollFails
<1>3. Identified(worker[w].job) /\ calls' \in [Runs -> {"none", "ok", "failed"}]
  BY <1>1, <1>2, LogTyped
<1>4. PICK out \in CallOutcomes \ {"ok", "timeout"} : Ends(w, "finish", out)
  BY DEF PollFails, CallOutcomes
<1>5. Ended(w, "finish", out) BY <1>4, EndsMoves DEF Steps
<1>6. Typed' BY <1>1, <1>3 DEF PollFails, Typed, Identified, AttemptsTyped, JobsTyped
<1>7. TypeOK' BY <1>5, <1>6, StepTyped DEF PollFails, Ended
<1> QED BY <1>3, <1>4, <1>5, <1>7

LEMMA TimesOutMoves ==
    ASSUME TypeOK, NEW w \in Workers, PollTimesOut(w)
    PROVE  TypeOK' /\ Ended(w, "finish", "timeout")
BY EndsMoves DEF PollTimesOut, Steps, Still, CallOutcomes

LEMMA PersistMoves ==
    ASSUME TypeOK, NEW w \in Workers, PersistResult(w)
    PROVE  TypeOK' /\ (Went(w, "save") \/ Ended(w, "fail", "unsaved"))
BY EndsMoves, GotoMoves DEF PersistResult, Steps, Still

LEMMA SaveFailsMoves ==
    ASSUME TypeOK, NEW w \in Workers, SaveFails(w)
    PROVE  TypeOK' /\ Ended(w, "fail", "uncertain")
BY EndsMoves DEF SaveFails, Steps, Still, Verdicts

LEMMA LeaveMoves ==
    ASSUME TypeOK, NEW w \in Workers, LeaveToSuccessor(w)
    PROVE  TypeOK' /\ Moved(w, Resting)
BY RestsRow, OnlyWorker DEF LeaveToSuccessor

(* refreshTaskProviderState's id, and where the failure handler sends a    *)
(* worker.                                                                 *)
FoundPid(w) == IF task.pid # 0 THEN task.pid ELSE worker[w].pid
FoundState(w) == Dispatched(FoundPid(w), worker[w].out)
After(w) ==
    IF worker[w].out = "ok" THEN "persist"
    ELSE IF worker[w].n # 0 /\ FoundState(w) = "rejected_no_job" THEN "next"
    ELSE "fail"

LEMMA FinishMoves ==
    ASSUME TypeOK, Named, NEW w \in Workers, FinishRouteAttempt(w)
    PROVE  LET r == worker[w].run
               n == worker[w].n
           IN
           /\ TypeOK' /\ r \in Runs /\ FoundPid(w) \in Pids /\ FoundState(w) \in DispatchStates
           /\ \/ n = 0 /\ UNCHANGED attempts
              \/ n # 0 /\ Written(r, n, [state |-> FoundState(w), pid |-> FoundPid(w)])
           /\ Moved(w, [worker[w] EXCEPT !.pc = After(w), !.pid = FoundPid(w),
                                         !.state = IF n = 0 THEN @ ELSE FoundState(w)])
<1> DEFINE r == worker[w].run
           n == worker[w].n
           new == [state |-> FoundState(w), pid |-> FoundPid(w)]
           row == [worker[w] EXCEPT !.pc = After(w), !.pid = FoundPid(w),
                                    !.state = IF n = 0 THEN @ ELSE FoundState(w)]
<1>1. Typed /\ worker[w] \in WorkerRow /\ r \in Runs /\ AttemptsTyped
  BY TypedWorker, HasRun DEF FinishRouteAttempt, Typed
<1>2. FoundPid(w) \in Pids BY <1>1 DEF FoundPid, Typed, TaskRow, WorkerRow
<1>3. FoundState(w) \in DispatchStates BY DEF FoundState, Dispatched, DispatchStates
<1>4. After(w) \in Steps BY DEF After, Steps
<1>5. row \in WorkerRow BY <1>1, <1>2, <1>3, <1>4 DEF WorkerRow
<1>6. worker' = [worker EXCEPT ![w] = row]
  BY DEF FinishRouteAttempt, After, FoundState, FoundPid
<1>7. new \in Attempt BY <1>2, <1>3 DEF Attempt
<1>8. attempts' = IF n = 0 THEN attempts
                  ELSE [attempts EXCEPT ![r] = [attempts[r] EXCEPT ![n] = new]]
  BY DEF FinishRouteAttempt, FoundState, FoundPid
<1> HIDE DEF row, new, r, n
<1>9. Moved(w, row) BY <1>5, <1>6, MovesRow
<1>10. (n = 0 /\ UNCHANGED attempts) \/ (n # 0 /\ Written(r, n, new))
  <2>1. CASE n # 0
    <3>1. attempts' = [attempts EXCEPT ![r] = [attempts[r] EXCEPT ![n] = new]] BY <1>8, <2>1
    <3> QED BY <1>1, <1>7, <2>1, <3>1, AnyWriteTyped
  <2> QED BY <1>8, <2>1
<1>11. AttemptsTyped' BY <1>1, <1>10 DEF Written, AttemptsTyped
<1>12. Typed' BY <1>1, <1>11 DEF FinishRouteAttempt, Typed, JobsTyped
<1>13. TypeOK' BY <1>9, <1>12, StepTyped DEF FinishRouteAttempt
<1> QED BY <1>1, <1>2, <1>3, <1>9, <1>10, <1>13 DEF row, new, r, n

LEMMA NextMoves ==
    ASSUME TypeOK, Named, NEW w \in Workers, NextRouteAttempt(w)
    PROVE  TypeOK' /\ (Switched(w, "dispatch") \/ (Went(w, "fail") /\ UNCHANGED attempts))
<1>1. Typed /\ worker[w].run \in Runs BY TypedWorker, HasRun DEF NextRouteAttempt
<1>2. CASE SwitchRoute(w, "dispatch")
  <2>1. AttemptsTyped' BY <1>1, <1>2, SwitchTyped
  <2>2. Switched(w, "dispatch") BY <1>1, <1>2, SwitchRow DEF Switched, Steps
  <2>3. Typed' BY <1>1, <2>1 DEF NextRouteAttempt, Typed, JobsTyped
  <2>4. TypeOK' BY <2>2, <2>3, StepTyped DEF NextRouteAttempt, Switched
  <2> QED BY <2>2, <2>4
<1>3. CASE Goto(w, "fail") /\ UNCHANGED attempts
  BY <1>3, GotoMoves DEF NextRouteAttempt, Steps, Still
<1> QED BY <1>2, <1>3 DEF NextRouteAttempt

LEMMA SaveMoves ==
    ASSUME TypeOK, Named, NEW w \in Workers, SaveTaskCompletion(w)
    PROVE  TypeOK' /\ Went(w, "settle")
<1>1. Typed /\ worker[w].run \in Runs /\ worker[w] \in WorkerRow
  BY TypedWorker, HasRun DEF SaveTaskCompletion
<1>2. Went(w, "settle") BY GotoMoves DEF SaveTaskCompletion, Steps
<1>3. task' \in TaskRow BY <1>1 DEF SaveTaskCompletion, TaskRow, TaskStatuses, WorkerRow
<1>4. Typed' BY <1>1, <1>3 DEF SaveTaskCompletion, Typed, AttemptsTyped, JobsTyped
<1>5. TypeOK' BY <1>2, <1>4, StepTyped DEF SaveTaskCompletion, Went
<1> QED BY <1>2, <1>5

LEMMA BilledTyped ==
    ASSUME Typed, NEW r \in Runs, NEW s \in OrderStatuses, Bill(r, s),
           UNCHANGED <<task, attempts, calls, jobs, faults>>
    PROVE  Typed'
BY BillTyped DEF Typed, AttemptsTyped, JobsTyped

LEMMA SettleMoves ==
    ASSUME TypeOK, Named, NEW w \in Workers, SettleBilling(w)
    PROVE  TypeOK' /\ Moved(w, Resting)
<1> DEFINE r == worker[w].run
<1>1. Typed /\ r \in Runs /\ orders[r] \in OrderStatuses
  BY TypedWorker, HasRun DEF SettleBilling, Typed
<1>2. PICK s \in OrderStatuses : Bill(r, s) BY <1>1, Verdict DEF SettleBilling
<1>3. Moved(w, Resting) BY RestsRow DEF SettleBilling
<1>4. Typed' BY <1>1, <1>2, BilledTyped DEF SettleBilling, others
<1>5. TypeOK' BY <1>3, <1>4, StepTyped DEF SettleBilling
<1> QED BY <1>3, <1>5

LEMMA DeferMoves ==
    ASSUME TypeOK, NEW w \in Workers, DeferRunningTaskForProviderPoll(w)
    PROVE  TypeOK' /\ Moved(w, Resting)
<1>1. Typed BY TypedWorker
<1>2. task' \in TaskRow
  <2>1. CASE task.status = "running" /\ task.owner = w
    BY <1>1, <2>1 DEF DeferRunningTaskForProviderPoll, Typed, TaskRow
  <2>2. CASE ~(task.status = "running" /\ task.owner = w)
    BY <1>1, <2>2 DEF DeferRunningTaskForProviderPoll, Typed
  <2> QED BY <2>1, <2>2
<1>3. Moved(w, Resting) BY RestsRow DEF DeferRunningTaskForProviderPoll
<1>4. Typed' BY <1>1, <1>2 DEF DeferRunningTaskForProviderPoll, Typed, AttemptsTyped, JobsTyped
<1>5. TypeOK' BY <1>3, <1>4, StepTyped DEF DeferRunningTaskForProviderPoll
<1> QED BY <1>3, <1>5

LEMMA FailMoves ==
    ASSUME TypeOK, NEW w \in Workers, MarkFailed(w)
    PROVE  TypeOK' /\ Went(w, "close")
<1>1. Typed BY TypedWorker
<1>2. task' \in TaskRow
  <2>1. CASE task.status = "running"
    BY <1>1, <2>1 DEF MarkFailed, Typed, TaskRow, TaskStatuses
  <2>2. CASE ~(task.status = "running")
    BY <1>1, <2>2 DEF MarkFailed, Typed
  <2> QED BY <2>1, <2>2
<1>3. Went(w, "close") BY GotoMoves DEF MarkFailed, Steps
<1>4. Typed' BY <1>1, <1>2 DEF MarkFailed, Typed, AttemptsTyped, JobsTyped
<1>5. TypeOK' BY <1>3, <1>4, StepTyped DEF MarkFailed, Went
<1> QED BY <1>3, <1>5

LEMMA CloseMoves ==
    ASSUME TypeOK, Named, NEW w \in Workers, CloseBilling(w)
    PROVE  /\ TypeOK' /\ Moved(w, Resting) /\ worker[w].run \in Runs
           /\ orders[worker[w].run] \in OrderStatuses
<1> DEFINE r == worker[w].run
<1>1. Typed /\ r \in Runs /\ orders[r] \in OrderStatuses
  BY TypedWorker, HasRun DEF CloseBilling, Typed
<1>2. PICK s \in OrderStatuses : Bill(r, s) BY <1>1, Verdict DEF CloseBilling
<1>3. Moved(w, Resting) BY RestsRow DEF CloseBilling
<1>4. Typed' BY <1>1, <1>2, BilledTyped DEF CloseBilling, others
<1>5. TypeOK' BY <1>3, <1>4, StepTyped DEF CloseBilling
<1> QED BY <1>1, <1>3, <1>5

(* The steps that move no worker.                                          *)
QueryRow == [pc : {"none", "claim", "query", "save", "settle"}, run : Runs \cup {0}, pid : Pids]

LEMMA AsideTyped ==
    ASSUME TypeOK, Typed', UNCHANGED <<kind, worker>>, retry' \in {"none", "checked"},
           query' \in QueryRow, resolved' \subseteq Runs, overtaken' \in BOOLEAN, outlived' \in BOOLEAN
    PROVE  TypeOK'
BY DEF TypeOK, Typed, TaskRow, Attempt, AttemptsTyped, JobsTyped, QueryRow

LEMMA Aside ==
    ASSUME TypeOK
    PROVE  /\ Typed /\ retry \in {"none", "checked"} /\ query \in QueryRow /\ resolved \subseteq Runs
           /\ kind \in Kinds /\ overtaken \in BOOLEAN /\ outlived \in BOOLEAN
BY TypedWorker DEF TypeOK, QueryRow

(* The lease of a running task runs out or is renewed; nothing else.       *)
LeaseStep(lease) ==
    /\ task.status = "running" /\ task' = [task EXCEPT !.lease = lease]
    /\ UNCHANGED <<orders, attempts, calls, jobs, worker, kind, retry, query, resolved, overtaken, outlived>>

LEMMA LeaseSteps ==
    /\ LeaseExpires => LeaseStep("expired") /\ UNCHANGED faults
    /\ WorkerStalls => LeaseStep("expired") /\ Fault("stall")
    /\ \A w \in Workers : RenewTaskLease(w) => LeaseStep("live") /\ UNCHANGED faults
BY DEF LeaseExpires, WorkerStalls, RenewTaskLease, LeaseStep, others, history

LEMMA LeaseTypes ==
    ASSUME TypeOK, NEW lease \in {"live", "expired"}, LeaseStep(lease),
           UNCHANGED faults \/ Fault("stall")
    PROVE  /\ TypeOK' /\ worker' = worker /\ task'.lease = lease
           /\ task'.status = task.status /\ task'.run = task.run /\ task'.pid = task.pid
           /\ task'.owner = task.owner
<1>1. Typed BY Aside
<1>2. faults' \in [FaultKinds -> 0..MaxFaults] BY <1>1, FaultTyped DEF Typed
<1>3. /\ task' \in TaskRow /\ task'.status = task.status /\ task'.run = task.run
      /\ task'.pid = task.pid /\ task'.owner = task.owner /\ task'.lease = lease
  BY <1>1 DEF LeaseStep, Typed, TaskRow
<1>4. Typed' BY <1>1, <1>2, <1>3 DEF LeaseStep, Typed, AttemptsTyped, JobsTyped
<1> QED BY <1>3, <1>4, AsideTyped, Aside DEF LeaseStep

LEMMA JobTypes ==
    ASSUME TypeOK, NEW j, JobEnds(j)
    PROVE  /\ TypeOK' /\ UNCHANGED <<task, orders, attempts, calls, worker, others, faults>>
           /\ j \in 1..Len(jobs) /\ Len(jobs') = Len(jobs) /\ Len(jobs) \in Nat
           /\ \A i \in 1..Len(jobs) : jobs'[i].run = jobs[i].run
<1> DEFINE JobRow == [run : Runs, state : {"working", "done", "failed"}]
<1>1. Typed /\ jobs \in Seq(JobRow) /\ Len(jobs) <= NumJobs
  BY Aside DEF Typed, JobsTyped
<1>2. j \in 1..Len(jobs) BY <1>1 DEF JobEnds
<1>3. jobs[j] \in JobRow
  <2> HIDE DEF JobRow
  <2> QED BY <1>1, <1>2, Element
<1>4. PICK s \in {"done", "failed"} : jobs' = [jobs EXCEPT ![j].state = s] BY DEF JobEnds
<1> DEFINE new == [jobs[j] EXCEPT !.state = s]
<1>5. new \in JobRow /\ new.run = jobs[j].run BY <1>3
<1>6. jobs' = [jobs EXCEPT ![j] = new] BY <1>4
<1> HIDE DEF JobRow, new
<1>7. /\ jobs' \in Seq(JobRow) /\ Len(jobs') = Len(jobs) /\ jobs'[j] = new
      /\ \A i \in 1..Len(jobs) : i # j => jobs'[i] = jobs[i]
  BY <1>1, <1>2, <1>5, <1>6
<1>8. Typed' BY <1>1, <1>7 DEF JobEnds, Typed, AttemptsTyped, JobsTyped, JobRow
<1>9. TypeOK' BY <1>8, AsideTyped, Aside DEF JobEnds, others, history
<1>10. Len(jobs) \in Nat BY <1>1
<1> QED BY <1>2, <1>5, <1>7, <1>9, <1>10 DEF JobEnds

LEMMA CheckTypes ==
    ASSUME TypeOK, CheckRetryEligibility
    PROVE  TypeOK'
<1>1. Typed' BY Aside DEF CheckRetryEligibility, Typed, AttemptsTyped, JobsTyped
<1> QED BY <1>1, AsideTyped, Aside DEF CheckRetryEligibility, history

LEMMA RetryTypes ==
    ASSUME TypeOK, RetryTaskWithBilling
    PROVE  TypeOK'
<1>0. Typed BY Aside
<1>1. Typed'
  <2>1. CASE task.status = "failed" /\ task.run < NumRuns
    <3>1. task.run + 1 \in Runs BY <1>0, <2>1, BoundsAssumption DEF Typed, TaskRow, Runs
    <3>2. task' \in TaskRow
      BY <2>1, <3>1, BoundsAssumption DEF RetryTaskWithBilling, TaskRow, TaskStatuses, Pids
    <3>3. orders' \in [Runs -> OrderStatuses]
      <4>1. Bill(task.run + 1, "reserved") BY <2>1 DEF RetryTaskWithBilling
      <4> QED BY <1>0, <3>1, <4>1, BillTyped DEF Typed, OrderStatuses, Unfinished
    <3> QED BY <1>0, <3>2, <3>3 DEF RetryTaskWithBilling, Typed, AttemptsTyped, JobsTyped
  <2>2. CASE ~(task.status = "failed" /\ task.run < NumRuns)
    BY <1>0, <2>2 DEF RetryTaskWithBilling, Typed, AttemptsTyped, JobsTyped
  <2> QED BY <2>1, <2>2
<1>2. overtaken' \in BOOLEAN /\ outlived' \in BOOLEAN BY Aside DEF RetryTaskWithBilling
<1> QED BY <1>1, <1>2, AsideTyped, Aside DEF RetryTaskWithBilling

LEMMA BeginQueryTypes ==
    ASSUME TypeOK, BeginQuery
    PROVE  TypeOK' /\ query'.pc = "claim" /\ query'.run = task.run /\ query'.pid = task.pid
<1>0. Typed BY Aside
<1>1. Typed' BY <1>0 DEF BeginQuery, Typed, AttemptsTyped, JobsTyped
<1>2. query' \in QueryRow BY <1>0 DEF BeginQuery, QueryRow, Typed, TaskRow
<1> QED BY <1>1, <1>2, AsideTyped, Aside DEF BeginQuery, history

LEMMA QueryMoves ==
    ASSUME query \in QueryRow, NEW pc \in {"claim", "query", "save", "settle"}
    PROVE  /\ QueryEnds => query' \in QueryRow /\ query'.pc = "none" /\ query'.run = 0
           /\ QueryGoto(pc) => /\ query' \in QueryRow /\ query'.pc = pc /\ query'.run = query.run
                               /\ query'.pid = query.pid
BY BoundsAssumption DEF QueryEnds, QueryGoto, QueryRow, Pids

LEMMA ClaimRecoveryTypes ==
    ASSUME TypeOK, ClaimFailedTaskProviderRecovery
    PROVE  TypeOK' /\ Identified(query.pid)
<1>0. Typed /\ query \in QueryRow BY Aside
<1>1. query.pid \in Pids BY <1>0 DEF QueryRow
<1>2. Identified(query.pid) BY <1>0, <1>1, Identifies DEF ClaimFailedTaskProviderRecovery
<1>3. Typed'
  BY <1>0, <1>2 DEF ClaimFailedTaskProviderRecovery, Typed, Identified, AttemptsTyped, JobsTyped
<1>4. query' \in QueryRow BY <1>0, QueryMoves DEF ClaimFailedTaskProviderRecovery
<1> QED BY <1>2, <1>3, <1>4, AsideTyped, Aside DEF ClaimFailedTaskProviderRecovery, history

LEMMA UpstreamTypes ==
    ASSUME TypeOK, QueryUpstream
    PROVE  TypeOK' /\ Identified(query.pid)
<1>0. Typed /\ query \in QueryRow BY Aside
<1>1. query.pid \in Pids BY <1>0 DEF QueryRow
<1>2. PICK status \in {"ok", "failed"} : LogPoll(query.pid, status) BY DEF QueryUpstream, Reported
<1>3. Identified(query.pid) /\ calls' \in [Runs -> {"none", "ok", "failed"}]
  BY <1>0, <1>1, <1>2, LogTyped
<1>4. Typed' BY <1>0, <1>3 DEF QueryUpstream, Typed, Identified, AttemptsTyped, JobsTyped
<1>5. query' \in QueryRow BY <1>0, QueryMoves DEF QueryUpstream
<1> QED BY <1>3, <1>4, <1>5, AsideTyped, Aside DEF QueryUpstream, history

LEMMA SaveRecoveredTypes ==
    ASSUME TypeOK, Named, SaveRecovered
    PROVE  TypeOK' /\ query.run \in Runs /\ orders[query.run] \in OrderStatuses
<1>0. Typed /\ query \in QueryRow BY Aside
<1>1. query.run \in Runs BY <1>0 DEF QueryRow, Named, SaveRecovered
<1>2. query.pid \in Pids /\ orders[query.run] \in OrderStatuses BY <1>0, <1>1 DEF QueryRow, Typed
<1>3. query' \in QueryRow BY <1>0, QueryMoves DEF SaveRecovered
<1>4. Typed'
  <2>1. CASE /\ task' = [status |-> "succeeded", run |-> query.run, pid |-> query.pid,
                         owner |-> NoWorker, lease |-> "none"]
             /\ UNCHANGED orders
    <3>1. task' \in TaskRow BY <2>1, <1>1, <1>2 DEF TaskRow, TaskStatuses
    <3> QED BY <1>0, <2>1, <3>1 DEF SaveRecovered, Typed, AttemptsTyped, JobsTyped
  <2>2. CASE Bill(query.run, Uncertain(orders[query.run])) /\ UNCHANGED task
    <3>1. Uncertain(orders[query.run]) \in OrderStatuses BY <1>2, Verdict
    <3> QED BY <1>0, <1>1, <2>2, <3>1, BilledTyped DEF SaveRecovered
  <2> QED BY <2>1, <2>2 DEF SaveRecovered
<1> QED BY <1>1, <1>2, <1>3, <1>4, AsideTyped, Aside DEF SaveRecovered, history

LEMMA SettleRecoveredTypes ==
    ASSUME TypeOK, Named, SettleRecovered
    PROVE  TypeOK' /\ query.run \in Runs /\ orders[query.run] \in OrderStatuses
<1>0. Typed /\ query \in QueryRow BY Aside
<1>1. query.run \in Runs BY <1>0 DEF QueryRow, Named, SettleRecovered
<1>2. orders[query.run] \in OrderStatuses BY <1>0, <1>1 DEF Typed
<1>3. query' \in QueryRow BY <1>0, QueryMoves DEF SettleRecovered
<1>4. PICK s \in OrderStatuses : Bill(query.run, s) BY <1>2, Verdict DEF SettleRecovered
<1>5. Typed' BY <1>0, <1>1, <1>4, BilledTyped DEF SettleRecovered
<1> QED BY <1>1, <1>2, <1>3, <1>5, AsideTyped, Aside DEF SettleRecovered, history

LEMMA ResolveTypes ==
    ASSUME TypeOK, NEW r \in Runs, NEW s \in {"settled", "refunded"}, ResolveBillingOrder(r, s)
    PROVE  TypeOK' /\ orders'[r] = s /\ \A q \in Runs \ {r} : orders'[q] = orders[q]
<1>0. Typed /\ s \in OrderStatuses BY Aside DEF OrderStatuses
<1>1. Bill(r, s) BY DEF ResolveBillingOrder
<1>2. orders'[r] = s /\ \A q \in Runs \ {r} : orders'[q] = orders[q]
  BY <1>0, <1>1, BillTyped DEF Typed
<1>3. Typed' BY <1>0, <1>1, BilledTyped DEF ResolveBillingOrder
<1>4. TypeOK' BY <1>3, AsideTyped, Aside DEF ResolveBillingOrder, history
<1> QED BY <1>2, <1>4

-----------------------------------------------------------------------------
(* Runs have names, and charges have results.                              *)
Base == TypeOK /\ Named /\ Charges

(* A step that neither charges nor touches a result.                       *)
NoCharge ==
    /\ \A w \in Workers : worker'[w].pc = "settle" =>
          worker[w].pc = "settle" /\ worker'[w].run = worker[w].run
    /\ query'.pc = "settle" => query.pc = "settle" /\ query'.run = query.run
    /\ task.status = "succeeded" => task'.status = "succeeded" /\ task'.run = task.run
    /\ \A r \in Runs : orders'[r] = "settled" /\ r \notin resolved' =>
          orders[r] = "settled" /\ r \notin resolved

LEMMA KeepsCharges == ASSUME Charges, NoCharge PROVE Charges'
BY DEF Charges, NoCharge, ChargedForResult

(* A worker's step that is not to the settlement.                          *)
Onward(w) ==
    \E row \in WorkerRow :
       /\ Moved(w, row) /\ row.pc # "settle"
       /\ row.pc # "idle" => row.run # 0

LEMMA OnwardKeeps ==
    ASSUME Base, NEW w \in Workers, Onward(w), UNCHANGED <<query, resolved>>,
           task.status = "succeeded" => task'.status = "succeeded" /\ task'.run = task.run,
           \A r \in Runs : orders'[r] = "settled" => orders[r] = "settled"
    PROVE  Named' /\ Charges'
<1>1. PICK row \in WorkerRow : Moved(w, row) /\ row.pc # "settle" /\ (row.pc # "idle" => row.run # 0)
  BY DEF Onward
<1>2. \A u \in Workers : u # w => worker'[u] = worker[u] BY <1>1 DEF Moved
<1>3. worker'[w] = row BY <1>1 DEF Moved
<1>4. Named'
  <2>1. \A u \in Workers : worker'[u].pc # "idle" => worker'[u].run # 0
    BY <1>1, <1>2, <1>3 DEF Base, Named
  <2> QED BY <2>1 DEF Base, Named
<1>5. NoCharge BY <1>1, <1>2, <1>3 DEF NoCharge
<1> QED BY <1>4, <1>5, KeepsCharges DEF Base

LEMMA OnwardRows ==
    ASSUME TypeOK, Named, NEW w \in Workers, worker[w].pc # "idle"
    PROVE  /\ \A pc : Went(w, pc) /\ pc # "settle" => Onward(w)
           /\ \A pc, out : Ended(w, pc, out) /\ pc # "settle" => Onward(w)
           /\ Moved(w, Resting) => Onward(w)
           /\ \A pc : Switched(w, pc) /\ pc # "settle" => Onward(w)
           /\ First(w) \/ Again(w) => Onward(w)
<1>1. worker[w] \in WorkerRow /\ worker[w].run # 0 BY TypedWorker DEF Named
<1>2. \A pc : Went(w, pc) /\ pc # "settle" => Onward(w)
  BY <1>1 DEF Went, Moved, Onward, WorkerRow
<1>3. \A pc, out : Ended(w, pc, out) /\ pc # "settle" => Onward(w)
  BY <1>1 DEF Ended, Moved, Onward, WorkerRow
<1>4. Moved(w, Resting) => Onward(w) BY RestingRow DEF Onward
<1>5. \A pc : Switched(w, pc) /\ pc # "settle" => Onward(w)
  BY <1>1 DEF Switched, Moved, Onward, WorkerRow
<1>6. First(w) \/ Again(w) => Onward(w)
  BY <1>1 DEF First, Again, Moved, Onward, WorkerRow
<1> QED BY <1>2, <1>3, <1>4, <1>5, <1>6

LEMMA WorkerKeepsBase ==
    ASSUME Base, NEW w \in Workers,
           \/ ClaimNextTask(w) \/ WorkerStep(w) \/ RenewalFails(w) \/ BeginFails(w)
           \/ AnswerNotLogged(w) \/ Crash(w)
    PROVE  Base'
<1> USE DEF Base, others
<1>0. Typed /\ worker[w] \in WorkerRow BY TypedWorker
<1>29. CASE BeginFails(w)
  <2>1. worker[w].pc # "idle" /\ UNCHANGED <<orders, query, resolved>> BY <1>29 DEF BeginFails
  <2>2. TypeOK' /\ Onward(w) BY <1>29, <2>1, BeginFailsMoves, OnwardRows
  <2>3. task'.status = task.status /\ task'.run = task.run
    BY <1>29, BeginFailsMoves DEF Identified
  <2> QED BY <2>1, <2>2, <2>3, OnwardKeeps
<1>1. CASE ClaimNextTask(w)
  <2> DEFINE row == [Resting EXCEPT !.pc = "begin", !.run = task.run,
                                    !.n = Len(attempts[task.run]), !.pid = task.pid]
  <2>1. TypeOK' /\ Moved(w, row) BY <1>1, ClaimMoves
  <2>2. row.pc = "begin" /\ row.run = task.run BY RestingRow DEF WorkerRow
  <2>3. task.run # 0 BY <1>0 DEF Typed, TaskRow, Runs
  <2> HIDE DEF row
  <2>4. Onward(w) BY <2>1, <2>2, <2>3 DEF Onward, Moved
  <2> QED BY <1>1, <2>1, <2>4, OnwardKeeps DEF ClaimNextTask, Claimable
<1>2. CASE RenewalFails(w)
  <2> DEFINE row == [worker[w] EXCEPT !.lease = "lost"]
  <2>1. TypeOK' /\ Moved(w, row) BY <1>2, RenewalMoves
  <2>2. row.pc = worker[w].pc /\ row.run = worker[w].run BY <1>0 DEF WorkerRow
  <2>3. worker[w].run # 0 /\ row.pc # "settle" BY <1>2, <2>2 DEF RenewalFails, Live, Early, Named, Steps
  <2> HIDE DEF row
  <2>4. Onward(w) BY <2>1, <2>2, <2>3 DEF Onward, Moved
  <2> QED BY <1>2, <2>1, <2>4, OnwardKeeps DEF RenewalFails
<1>3. CASE Crash(w)
  BY <1>3, CrashMoves, OnwardRows, OnwardKeeps DEF Crash
<1>4. CASE AnswerNotLogged(w)
  <2>1. TypeOK' /\ Goes(w) /\ worker[w].run \in Runs /\ (Identified(worker[w].job) \/ Identified(task.pid))
    BY <1>4, UnloggedMoves
  <2>2. Onward(w) BY <1>4, <2>1, OnwardRows DEF Goes, AnswerNotLogged
  <2>3. Bill(worker[w].run, Uncertain(orders[worker[w].run])) BY <1>4 DEF AnswerNotLogged
  <2>4. \A r \in Runs : orders'[r] = "settled" => orders[r] = "settled"
    BY <1>0, <2>1, <2>3 DEF Bill, Uncertain, Typed
  <2> QED BY <1>4, <2>1, <2>2, <2>4, OnwardKeeps DEF AnswerNotLogged, Identified
<1>5. CASE TakeAttempt(w)
  <2>1. worker[w].pc # "idle" /\ UNCHANGED <<task, orders, others>> BY <1>5 DEF TakeAttempt
  <2>2. Onward(w) BY <1>5, <2>1, TakeMoves, OnwardRows
  <2> QED BY <1>5, <2>1, <2>2, TakeMoves, OnwardKeeps
<1>6. CASE ResumeAttempt(w)
  <2> DEFINE n == Len(attempts[worker[w].run])
             pid == IF worker[w].pid # 0 THEN worker[w].pid ELSE attempts[worker[w].run][n].pid
             row == [worker[w] EXCEPT !.pc = "bill", !.n = n, !.state = "accepted", !.pid = pid]
  <2>1. TypeOK' /\ Moved(w, row) BY <1>6, ResumeAttemptMoves
  <2>2. row.pc = "bill" /\ row.run = worker[w].run BY <1>0 DEF WorkerRow
  <2> HIDE DEF row
  <2>3. worker[w].run # 0 BY <1>6 DEF ResumeAttempt, Named
  <2>4. Onward(w) BY <2>1, <2>2, <2>3 DEF Onward, Moved
  <2>5. task'.status = task.status /\ task'.run = task.run
    BY <1>0, <1>6 DEF ResumeAttempt, Typed, TaskRow
  <2>6. UNCHANGED <<orders, others>> BY <1>6 DEF ResumeAttempt
  <2> QED BY <2>1, <2>4, <2>5, <2>6, OnwardKeeps
<1>7. CASE RefuseAttempt(w)
  BY <1>7, RefuseMoves, OnwardRows, OnwardKeeps DEF RefuseAttempt
<1>8. CASE BeginDirect(w)
  BY <1>8, DirectMoves, OnwardRows, OnwardKeeps DEF BeginDirect
<1>9. CASE MarkBillingRunning(w)
  <2>1. worker[w].pc # "idle" /\ UNCHANGED <<task, others>> BY <1>9 DEF MarkBillingRunning
  <2>2. Onward(w) BY <1>9, <2>1, BillMoves, OnwardRows
  <2>3. worker[w].run \in Runs BY <2>1, HasRun
  <2>4. \A r \in Runs : orders'[r] = "settled" => orders[r] = "settled"
    BY <1>0, <1>9, <2>3, BillMoves DEF Bill, Typed
  <2> QED BY <1>9, <2>1, <2>2, <2>4, BillMoves, OnwardKeeps
<1>10. CASE MarkRouteAttemptDispatching(w)
  <2> DEFINE row == [worker[w] EXCEPT !.pc = "call", !.state = "submission_unknown"]
  <2>1. TypeOK' /\ (Moved(w, row) \/ Went(w, "call")) BY <1>10, DispatchMoves
  <2>2. row.pc = "call" /\ row.run = worker[w].run BY <1>0 DEF WorkerRow
  <2> HIDE DEF row
  <2>3. worker[w].pc # "idle" /\ UNCHANGED <<task, orders, others>>
    BY <1>10 DEF MarkRouteAttemptDispatching
  <2>4. worker[w].run # 0 BY <2>3 DEF Named
  <2>5. Onward(w) BY <2>1, <2>2, <2>3, <2>4, OnwardRows DEF Onward, Moved
  <2> QED BY <2>1, <2>3, <2>5, OnwardKeeps
<1>11. CASE Submit(w)
  <2> DEFINE row == [worker[w] EXCEPT !.pc = "answer", !.job = Len(jobs) + 1]
  <2>1. TypeOK' /\ Moved(w, row) BY <1>11, SubmitMoves
  <2>2. row.pc = "answer" /\ row.run = worker[w].run BY <1>0 DEF WorkerRow
  <2> HIDE DEF row
  <2>3. worker[w].run # 0 /\ UNCHANGED <<task, orders, others>> BY <1>11 DEF Submit, Named
  <2>4. Onward(w) BY <2>1, <2>2, <2>3 DEF Onward, Moved
  <2> QED BY <2>1, <2>3, <2>4, OnwardKeeps
<1>12. CASE SubmitFails(w)
  BY <1>12, SubmitFailsMoves, OnwardRows, OnwardKeeps DEF SubmitFails
<1>13. CASE Resume(w)
  <2> DEFINE row == [worker[w] EXCEPT !.pc = "poll", !.job = worker[w].pid]
  <2>1. TypeOK' /\ Moved(w, row) BY <1>13, ResumeMoves
  <2>2. row.pc = "poll" /\ row.run = worker[w].run BY <1>0 DEF WorkerRow
  <2> HIDE DEF row
  <2>3. worker[w].run # 0 /\ UNCHANGED <<task, orders, others>> BY <1>13 DEF Resume, Named
  <2>4. Onward(w) BY <2>1, <2>2, <2>3 DEF Onward, Moved
  <2> QED BY <2>1, <2>3, <2>4, OnwardKeeps
<1>14. CASE RecordAnswer(w)
  <2>1. worker[w].pc # "idle" /\ UNCHANGED <<orders, others>> BY <1>14 DEF RecordAnswer
  <2>2. Onward(w) BY <1>14, <2>1, RecordMoves, OnwardRows DEF Goes
  <2> QED BY <1>14, <2>1, <2>2, RecordMoves, OnwardKeeps DEF Identified
<1>15. CASE AnswerLost(w)
  BY <1>15, LostMoves, OnwardRows, OnwardKeeps DEF AnswerLost
<1>16. CASE PollEnds(w)
  <2>1. worker[w].pc # "idle" /\ UNCHANGED <<orders, others>> BY <1>16 DEF PollEnds
  <2>2. Onward(w) BY <1>16, <2>1, PollEndsMoves, OnwardRows
  <2> QED BY <1>16, <2>1, <2>2, PollEndsMoves, OnwardKeeps DEF Identified
<1>17. CASE PollFails(w)
  <2>1. worker[w].pc # "idle" /\ UNCHANGED <<orders, others>> BY <1>17 DEF PollFails
  <2>2. Onward(w) BY <1>17, <2>1, PollFailsMoves, OnwardRows
  <2> QED BY <1>17, <2>1, <2>2, PollFailsMoves, OnwardKeeps DEF Identified
<1>18. CASE PollTimesOut(w)
  BY <1>18, TimesOutMoves, OnwardRows, OnwardKeeps DEF PollTimesOut
<1>19. CASE FinishRouteAttempt(w)
  <2> DEFINE row == [worker[w] EXCEPT !.pc = After(w), !.pid = FoundPid(w),
                                      !.state = IF worker[w].n = 0 THEN @ ELSE FoundState(w)]
  <2>1. TypeOK' /\ Moved(w, row) BY <1>19, FinishMoves
  <2>2. row.pc = After(w) /\ row.run = worker[w].run BY <1>0 DEF WorkerRow
  <2> HIDE DEF row
  <2>3. worker[w].run # 0 /\ UNCHANGED <<task, orders, others>>
    BY <1>19 DEF FinishRouteAttempt, Named
  <2>4. After(w) # "settle" BY DEF After
  <2>5. Onward(w) BY <2>1, <2>2, <2>3, <2>4 DEF Onward, Moved
  <2> QED BY <2>1, <2>3, <2>5, OnwardKeeps
<1>20. CASE NextRouteAttempt(w)
  <2>1. worker[w].pc # "idle" /\ UNCHANGED <<task, orders, others>> BY <1>20 DEF NextRouteAttempt
  <2>2. Onward(w) BY <1>20, <2>1, NextMoves, OnwardRows
  <2> QED BY <1>20, <2>1, <2>2, NextMoves, OnwardKeeps
<1>21. CASE PersistResult(w)
  BY <1>21, PersistMoves, OnwardRows, OnwardKeeps DEF PersistResult
<1>22. CASE SaveTaskCompletion(w)
  <2>1. TypeOK' /\ Went(w, "settle") BY <1>22, SaveMoves
  <2> DEFINE row == [worker[w] EXCEPT !.pc = "settle"]
  <2>2. Moved(w, row) BY <2>1 DEF Went
  <2>3. row.pc = "settle" /\ row.run = worker[w].run BY <1>0 DEF WorkerRow
  <2> HIDE DEF row
  <2>4. worker'[w] = row /\ \A u \in Workers : u # w => worker'[u] = worker[u] BY <2>2 DEF Moved
  <2>5. worker[w].run # 0 /\ UNCHANGED <<orders, others>> BY <1>22 DEF SaveTaskCompletion, Named
  <2>6. Named' BY <2>3, <2>4, <2>5 DEF Named, others
  <2>7. task.status = "running" /\ task'.status = "succeeded" /\ task'.run = worker[w].run
    BY <1>22 DEF SaveTaskCompletion
  <2>8. Charges' BY <2>3, <2>4, <2>5, <2>7 DEF Charges, ChargedForResult, others
  <2> QED BY <2>1, <2>6, <2>8
<1>23. CASE SaveFails(w)
  BY <1>23, SaveFailsMoves, OnwardRows, OnwardKeeps DEF SaveFails
<1>24. CASE SettleBilling(w)
  <2>1. TypeOK' /\ Moved(w, Resting) BY <1>24, SettleMoves
  <2>2. worker'[w].pc = "idle" /\ \A u \in Workers : u # w => worker'[u] = worker[u]
    BY <2>1, RestingRow DEF Moved
  <2>3. UNCHANGED <<task, others>> BY <1>24 DEF SettleBilling
  <2>4. Named' BY <2>2, <2>3 DEF Named, others
  <2>5. worker[w].run \in Runs /\ task.status = "succeeded" /\ task.run = worker[w].run
    BY <1>24, HasRun DEF SettleBilling, Charges
  <2>6. \A r \in Runs : r # worker[w].run => orders'[r] = orders[r]
    BY <1>0, <1>24, <2>5 DEF SettleBilling, Bill, Typed
  <2>7. Charges' BY <2>2, <2>3, <2>5, <2>6 DEF Charges, ChargedForResult, others
  <2> QED BY <2>1, <2>4, <2>7
<1>25. CASE LeaveToSuccessor(w)
  BY <1>25, LeaveMoves, OnwardRows, OnwardKeeps DEF LeaveToSuccessor
<1>26. CASE DeferRunningTaskForProviderPoll(w)
  <2>1. worker[w].pc # "idle" /\ UNCHANGED <<orders, others>>
    BY <1>26 DEF DeferRunningTaskForProviderPoll
  <2>2. task.status = "succeeded" => task' = task BY <1>26 DEF DeferRunningTaskForProviderPoll
  <2> QED BY <1>26, <2>1, <2>2, DeferMoves, OnwardRows, OnwardKeeps
<1>27. CASE MarkFailed(w)
  <2>1. worker[w].pc # "idle" /\ UNCHANGED <<orders, others>> BY <1>27 DEF MarkFailed
  <2>2. task.status = "succeeded" => task' = task BY <1>27 DEF MarkFailed
  <2> QED BY <1>27, <2>1, <2>2, FailMoves, OnwardRows, OnwardKeeps
<1>28. CASE CloseBilling(w)
  <2>1. worker[w].pc # "idle" /\ UNCHANGED <<task, others>> BY <1>28 DEF CloseBilling
  <2>2. TypeOK' /\ Moved(w, Resting) /\ worker[w].run \in Runs BY <1>28, CloseMoves
  <2>3. \A r \in Runs : orders'[r] = "settled" => orders[r] = "settled"
    BY <1>0, <1>28, <2>2 DEF CloseBilling, Bill, Typed, Uncertain, Refunded
  <2> QED BY <2>1, <2>2, <2>3, OnwardRows, OnwardKeeps
<1> QED
  BY <1>1, <1>2, <1>3, <1>4, <1>5, <1>6, <1>7, <1>8, <1>9, <1>10, <1>11, <1>12, <1>13, <1>14,
     <1>15, <1>16, <1>17, <1>18, <1>19, <1>20, <1>21, <1>22, <1>23, <1>24, <1>25, <1>26, <1>27,
     <1>28, <1>29 DEF WorkerStep

LEMMA OthersKeepBase ==
    ASSUME Base,
           \/ LeaseExpires \/ WorkerStalls \/ \E w \in Workers : RenewTaskLease(w)
           \/ (\E j \in 1..NumJobs : JobEnds(j)) \/ Retry \/ Query \/ Resolve
    PROVE  Base'
<1> USE DEF Base
<1>0. Typed /\ query \in QueryRow BY Aside
<1>1. CASE LeaseExpires \/ WorkerStalls \/ \E w \in Workers : RenewTaskLease(w)
  <2>1. PICK lease \in {"live", "expired"} :
              LeaseStep(lease) /\ (UNCHANGED faults \/ Fault("stall"))
    BY <1>1, LeaseSteps
  <2>2. TypeOK' /\ task'.status = task.status /\ task'.run = task.run BY <2>1, LeaseTypes
  <2>3. Named' BY <2>1 DEF LeaseStep, Named
  <2>4. NoCharge BY <2>1, <2>2 DEF LeaseStep, NoCharge
  <2> QED BY <2>2, <2>3, <2>4, KeepsCharges
<1>2. CASE \E j \in 1..NumJobs : JobEnds(j)
  <2>1. PICK j : JobEnds(j) BY <1>2
  <2>2. TypeOK' /\ UNCHANGED <<task, orders, worker, others>> BY <2>1, JobTypes
  <2>3. Named' BY <2>2 DEF Named, others
  <2>4. NoCharge BY <2>2 DEF NoCharge, others
  <2> QED BY <2>2, <2>3, <2>4, KeepsCharges
<1>3. CASE CheckRetryEligibility
  <2>1. Named' BY <1>3 DEF CheckRetryEligibility, Named
  <2>2. NoCharge BY <1>3 DEF CheckRetryEligibility, NoCharge
  <2> QED BY <1>3, <2>1, <2>2, CheckTypes, KeepsCharges
<1>4. CASE RetryTaskWithBilling
  <2>1. Named' BY <1>4 DEF RetryTaskWithBilling, Named
  <2>2. \A r \in Runs : orders'[r] = "settled" => orders[r] = "settled"
    BY <1>0, <1>4 DEF RetryTaskWithBilling, Bill, Typed
  <2>3. UNCHANGED <<worker, query, resolved>> /\ (task.status = "succeeded" => task' = task)
    BY <1>4 DEF RetryTaskWithBilling
  <2>4. NoCharge BY <2>2, <2>3 DEF NoCharge
  <2> QED BY <1>4, <2>1, <2>4, RetryTypes, KeepsCharges
<1>5. CASE BeginQuery
  <2>1. /\ TypeOK' /\ query'.pc = "claim" /\ query'.run = task.run /\ query'.pid = task.pid
        /\ task.pid # 0 /\ UNCHANGED <<task, orders, worker, resolved>>
    BY <1>5, BeginQueryTypes DEF BeginQuery
  <2>2. task.run # 0 BY <1>0 DEF Typed, TaskRow, Runs
  <2>3. Named' BY <2>1, <2>2 DEF Named
  <2>4. NoCharge BY <2>1 DEF NoCharge
  <2> QED BY <2>1, <2>3, <2>4, KeepsCharges
<1>6. CASE ClaimFailedTaskProviderRecovery
  <2>1. TypeOK' /\ Identified(query.pid) BY <1>6, ClaimRecoveryTypes
  <2>2. UNCHANGED <<orders, worker, resolved>> /\ query.pc = "claim"
    BY <1>6 DEF ClaimFailedTaskProviderRecovery
  <2>3. \/ query'.pc = "none"
        \/ query'.pc = "query" /\ query'.run = query.run /\ query'.pid = query.pid
    BY <1>0, <1>6, QueryMoves DEF ClaimFailedTaskProviderRecovery, QueryGoto, QueryRow
  <2>4. Named' BY <2>2, <2>3 DEF Named
  <2>5. NoCharge BY <2>1, <2>2, <2>3 DEF NoCharge, Identified
  <2> QED BY <2>1, <2>4, <2>5, KeepsCharges
<1>7. CASE QueryUpstream
  <2>1. TypeOK' /\ Identified(query.pid) BY <1>7, UpstreamTypes
  <2>2. UNCHANGED <<orders, worker, resolved>> /\ query.pc = "query" BY <1>7 DEF QueryUpstream
  <2>3. \/ query'.pc = "none"
        \/ query'.pc = "save" /\ query'.run = query.run /\ query'.pid = query.pid
    BY <1>0, <1>7, QueryMoves DEF QueryUpstream
  <2>4. Named' BY <2>2, <2>3 DEF Named
  <2>5. NoCharge BY <2>1, <2>2, <2>3 DEF NoCharge, Identified
  <2> QED BY <2>1, <2>4, <2>5, KeepsCharges
<1>8. CASE SaveRecovered
  <2>1. TypeOK' /\ query.run \in Runs BY <1>8, SaveRecoveredTypes
  <2>2. UNCHANGED <<worker, resolved>> /\ query.pc = "save" BY <1>8 DEF SaveRecovered
  <2>3. CASE /\ task.status = "failed" /\ QueryGoto("settle") /\ UNCHANGED orders
             /\ task' = [status |-> "succeeded", run |-> query.run, pid |-> query.pid,
                         owner |-> NoWorker, lease |-> "none"]
    <3>1. query'.pc = "settle" /\ query'.run = query.run /\ query'.pid = query.pid
      BY <1>0, <2>3, QueryMoves
    <3>2. Named' BY <2>2, <3>1 DEF Named
    <3>3. task'.status = "succeeded" /\ task'.run = query.run BY <2>3
    <3>4. Charges' BY <2>2, <2>3, <3>1, <3>3 DEF Charges, ChargedForResult
    <3> QED BY <2>1, <3>2, <3>4
  <2>4. CASE Bill(query.run, Uncertain(orders[query.run])) /\ QueryEnds /\ UNCHANGED task
    <3>1. query'.pc = "none" BY <1>0, <2>4, QueryMoves
    <3>2. Named' BY <2>2, <3>1 DEF Named
    <3>3. \A r \in Runs : orders'[r] = "settled" => orders[r] = "settled"
      BY <1>0, <2>1, <2>4 DEF Bill, Typed, Uncertain
    <3>4. NoCharge BY <2>2, <2>4, <3>1, <3>3 DEF NoCharge
    <3> QED BY <2>1, <3>2, <3>4, KeepsCharges
  <2> QED BY <1>8, <2>3, <2>4 DEF SaveRecovered
<1>9. CASE SettleRecovered
  <2>1. TypeOK' /\ query.run \in Runs BY <1>9, SettleRecoveredTypes
  <2>2. UNCHANGED <<task, worker, resolved>> /\ query.pc = "settle" BY <1>9 DEF SettleRecovered
  <2>3. query'.pc = "none" BY <1>0, <1>9, QueryMoves DEF SettleRecovered
  <2>4. Named' BY <2>2, <2>3 DEF Named
  <2>5. \A r \in Runs : r # query.run => orders'[r] = orders[r]
    BY <1>0, <1>9 DEF SettleRecovered, Bill, Typed
  <2>6. Charges' BY <2>2, <2>3, <2>5 DEF Charges, ChargedForResult
  <2> QED BY <2>1, <2>4, <2>6
<1>10. CASE Resolve
  <2>1. PICK r \in Runs, s \in {"settled", "refunded"} : ResolveBillingOrder(r, s)
    BY <1>10 DEF Resolve
  <2>2. TypeOK' /\ \A q \in Runs \ {r} : orders'[q] = orders[q] BY <2>1, ResolveTypes
  <2>3. UNCHANGED <<task, worker, query>> /\ resolved' = resolved \cup {r}
    BY <2>1 DEF ResolveBillingOrder
  <2>4. Named' BY <2>3 DEF Named
  <2>5. NoCharge BY <2>2, <2>3 DEF NoCharge
  <2> QED BY <2>2, <2>4, <2>5, KeepsCharges
<1> QED
  BY <1>1, <1>2, <1>3, <1>4, <1>5, <1>6, <1>7, <1>8, <1>9, <1>10 DEF Retry, Query

LEMMA StutterKeepsBase == ASSUME Base, UNCHANGED vars PROVE Base'
BY DEF Base, TypeOK, Named, Charges, ChargedForResult, vars, history

LEMMA InitBase == Init => Base
<1> SUFFICES ASSUME Init PROVE Base OBVIOUS
<1>1. \A w \in Workers : worker[w] = Resting BY DEF Init
<1>2. worker \in [Workers -> WorkerRow] BY RestingRow DEF Init
<1>3. 1 \in Runs /\ 0 \in Pids BY BoundsAssumption DEF Runs, Pids
<1>4. orders \in [Runs -> OrderStatuses] BY DEF Init, OrderStatuses, Unfinished
<1>5. attempts \in [Runs -> Seq(Attempt)] /\ \A r \in Runs : Len(attempts[r]) = 0
  <2>1. << >> \in Seq(Attempt) /\ Len(<< >>) = 0 OBVIOUS
  <2> QED BY <2>1 DEF Init
<1>6. jobs \in Seq([run : Runs, state : {"working", "done", "failed"}]) /\ Len(jobs) <= NumJobs
  BY BoundsAssumption DEF Init
<1>7. 0 <= NumRoutes /\ 0 \in 0..MaxFaults BY BoundsAssumption
<1>8. faults \in [FaultKinds -> 0..MaxFaults] BY <1>7 DEF Init
<1>9. /\ kind \in Kinds /\ calls \in [Runs -> {"none", "ok", "failed"}] /\ retry = "none"
      /\ query \in QueryRow /\ resolved \subseteq Runs
      /\ overtaken \in BOOLEAN /\ outlived \in BOOLEAN
  BY <1>3 DEF Init, QueryRow
<1>10. task \in TaskRow BY <1>3 DEF Init, TaskRow, TaskStatuses
<1>11. TypeOK
  BY <1>2, <1>4, <1>5, <1>6, <1>7, <1>8, <1>9, <1>10
     DEF TypeOK, TaskRow, WorkerRow, Attempt, QueryRow
<1>12. Named BY <1>1, RestingRow DEF Init, Named
<1>13. Charges BY <1>1, RestingRow DEF Init, Charges, ChargedForResult
<1> QED BY <1>11, <1>12, <1>13 DEF Base

LEMMA BaseHolds == Spec => []Base
<1>1. Base /\ [Next]_vars => Base'
  BY WorkerKeepsBase, OthersKeepBase, StutterKeepsBase DEF Next
<1> QED BY InitBase, <1>1, PTL DEF Spec

(* Every variable keeps its type, whatever fails, whoever retries and       *)
(* however many workers and routes there are.                               *)
THEOREM TypeCorrect == Spec => []TypeOK
<1>1. Base => TypeOK BY DEF Base
<1> QED BY BaseHolds, <1>1, PTL

(* A task is charged at most once, and only for the run whose result it     *)
(* shows: across retries, takeovers, crashes and recoveries.                *)
THEOREM ChargedOnce == Spec => []ChargedForResult
<1>1. Base => ChargedForResult BY DEF Base, Charges
<1> QED BY BaseHolds, <1>1, PTL

-----------------------------------------------------------------------------
(* The lease.  A step in the middle of a run leaves the task's status, run  *)
(* and lease alone, and its worker in the run or at rest.                   *)
SameTask ==
    /\ task'.status = task.status /\ task'.run = task.run
    /\ task'.owner = task.owner /\ task'.lease = task.lease
Inside(w, row) ==
    /\ Early(w) /\ row.pc \in Steps \ {"settle", "close"}
    /\ row.run = worker[w].run /\ row.lease = worker[w].lease
Inner(w) ==
    /\ \E row \in WorkerRow : Moved(w, row) /\ (row = Resting \/ Inside(w, row))
    /\ SameTask /\ UNCHANGED others

LEMMA InsideRows ==
    ASSUME TypeOK, NEW w \in Workers, Early(w)
    PROVE  /\ \A pc \in Steps \ {"settle", "close"} : Went(w, pc) =>
                 \E row \in WorkerRow : Moved(w, row) /\ Inside(w, row)
           /\ \A pc \in Steps \ {"settle", "close"} : \A out : Ended(w, pc, out) =>
                 \E row \in WorkerRow : Moved(w, row) /\ Inside(w, row)
           /\ \A pc \in Steps \ {"settle", "close"} : Switched(w, pc) =>
                 \E row \in WorkerRow : Moved(w, row) /\ Inside(w, row)
           /\ First(w) \/ Again(w) => \E row \in WorkerRow : Moved(w, row) /\ Inside(w, row)
<1>1. worker[w] \in WorkerRow BY TypedWorker
<1>2. \A pc \in Steps \ {"settle", "close"} : Went(w, pc) =>
         \E row \in WorkerRow : Moved(w, row) /\ Inside(w, row)
  BY <1>1 DEF Went, Moved, Inside, WorkerRow
<1>3. \A pc \in Steps \ {"settle", "close"} : \A out : Ended(w, pc, out) =>
         \E row \in WorkerRow : Moved(w, row) /\ Inside(w, row)
  BY <1>1 DEF Ended, Moved, Inside, WorkerRow
<1>4. \A pc \in Steps \ {"settle", "close"} : Switched(w, pc) =>
         \E row \in WorkerRow : Moved(w, row) /\ Inside(w, row)
  <2> SUFFICES ASSUME NEW pc \in Steps \ {"settle", "close"}, Switched(w, pc)
               PROVE  \E row \in WorkerRow : Moved(w, row) /\ Inside(w, row)
    OBVIOUS
  <2> DEFINE row == [worker[w] EXCEPT !.pc = pc, !.n = Len(attempts[worker[w].run]) + 1,
                                      !.state = "not_sent", !.pid = 0, !.job = 0, !.out = "none"]
  <2>1. Moved(w, row) BY DEF Switched
  <2>2. row.pc = pc /\ row.run = worker[w].run /\ row.lease = worker[w].lease
    BY <1>1 DEF WorkerRow
  <2> HIDE DEF row
  <2> QED BY <2>1, <2>2 DEF Moved, Inside
<1>5. First(w) \/ Again(w) => \E row \in WorkerRow : Moved(w, row) /\ Inside(w, row)
  BY <1>1 DEF First, Again, Moved, Inside, WorkerRow, Steps
<1> QED BY <1>2, <1>3, <1>4, <1>5

(* Faults add up, and what has happened has.                               *)
LEMMA Aging ==
    ASSUME Base, [Next]_vars
    PROVE  /\ Unstalled' => Unstalled
           /\ (overtaken => overtaken') /\ (outlived => outlived')
           /\ (\A w \in Workers : ~ClaimNextTask(w)) => UNCHANGED overtaken
<1> DEFINE Older == /\ UNCHANGED faults \/ \E what : Fault(what)
                    /\ (overtaken => overtaken') /\ (outlived => outlived')
                    /\ (\A w \in Workers : ~ClaimNextTask(w)) => UNCHANGED overtaken
<1>1. ASSUME NEW w \in Workers, WorkerStep(w) PROVE Older
  <2>1. CASE TakeAttempt(w)
    <3>1. UNCHANGED <<others, faults>> BY <2>1 DEF TakeAttempt
    <3> QED BY <3>1 DEF others, history
  <2>6. CASE ResumeAttempt(w)
    <3>1. UNCHANGED <<others, faults>> BY <2>6 DEF ResumeAttempt
    <3> QED BY <3>1 DEF others, history
  <2>7. CASE RefuseAttempt(w) \/ BeginDirect(w) \/ MarkBillingRunning(w) \/ MarkRouteAttemptDispatching(w)
    BY <2>7 DEF RefuseAttempt, BeginDirect, MarkBillingRunning, MarkRouteAttemptDispatching,
                others, history
  <2>2. CASE Submit(w) \/ SubmitFails(w) \/ Resume(w) \/ RecordAnswer(w) \/ AnswerLost(w)
    BY <2>2 DEF Submit, SubmitFails, Resume, RecordAnswer, AnswerLost, others, history
  <2>3. CASE \/ PollEnds(w) \/ PollFails(w) \/ PollTimesOut(w)
             \/ FinishRouteAttempt(w) \/ NextRouteAttempt(w)
    BY <2>3 DEF PollEnds, PollFails, PollTimesOut, FinishRouteAttempt, NextRouteAttempt, others, history
  <2>4. CASE PersistResult(w) \/ SaveTaskCompletion(w) \/ SaveFails(w) \/ SettleBilling(w)
    BY <2>4 DEF PersistResult, SaveTaskCompletion, SaveFails, SettleBilling, others, history
  <2>5. CASE \/ LeaveToSuccessor(w) \/ DeferRunningTaskForProviderPoll(w)
             \/ MarkFailed(w) \/ CloseBilling(w)
    BY <2>5 DEF LeaveToSuccessor, DeferRunningTaskForProviderPoll, MarkFailed, CloseBilling, others, history
  <2> QED BY <1>1, <2>1, <2>2, <2>3, <2>4, <2>5, <2>6, <2>7 DEF WorkerStep
<1>2. ASSUME NEW w \in Workers,
             RenewTaskLease(w) \/ RenewalFails(w) \/ BeginFails(w) \/ AnswerNotLogged(w) \/ Crash(w)
      PROVE  Older
  BY <1>2 DEF RenewTaskLease, RenewalFails, BeginFails, AnswerNotLogged, Crash, others, history
<1>3. ASSUME NEW w \in Workers, ClaimNextTask(w) PROVE Older
  BY <1>3 DEF ClaimNextTask
<1>4. ASSUME WorkerStalls \/ LeaseExpires PROVE Older
  BY <1>4 DEF WorkerStalls, LeaseExpires, others, history
<1>5. ASSUME \E j \in 1..NumJobs : JobEnds(j) PROVE Older
  BY <1>5 DEF JobEnds, others, history
<1>6. ASSUME Retry PROVE Older
  <2>1. CASE CheckRetryEligibility BY <2>1 DEF CheckRetryEligibility, history
  <2>2. CASE RetryTaskWithBilling
    <3>1. UNCHANGED <<faults, overtaken>> /\ (outlived => outlived')
      BY <2>2, ZenonT(30) DEF RetryTaskWithBilling
    <3> QED BY <3>1
  <2> QED BY <1>6, <2>1, <2>2 DEF Retry
<1>7. ASSUME Query PROVE Older
  BY <1>7 DEF Query, BeginQuery, ClaimFailedTaskProviderRecovery, QueryUpstream, SaveRecovered,
              SettleRecovered, history
<1>8. ASSUME Resolve PROVE Older
  BY <1>8 DEF Resolve, ResolveBillingOrder, history
<1>9. ASSUME UNCHANGED vars PROVE Older
  BY <1>9 DEF vars, history
<1>10. Older BY <1>1, <1>2, <1>3, <1>4, <1>5, <1>6, <1>7, <1>8, <1>9 DEF Next
<1>11. ASSUME Unstalled' PROVE Unstalled
  <2>1. faults \in [FaultKinds -> 0..MaxFaults] BY DEF Base, TypeOK
  <2>2. ASSUME NEW what, Fault(what), "stall" \in FaultKinds PROVE faults["stall"] = 0
    <3>1. faults' = [faults EXCEPT ![what] = faults[what] + 1] /\ what \in FaultKinds
      BY <2>2 DEF Fault
    <3>2. faults'["stall"] = 0 BY <1>11, <2>2 DEF Unstalled
    <3>3. faults["stall"] \in Nat BY <2>1, <2>2
    <3>4. CASE what = "stall" BY <2>1, <3>1, <3>2, <3>3, <3>4
    <3>5. CASE what # "stall" BY <2>1, <3>1, <3>2, <3>5
    <3> QED BY <3>4, <3>5
  <2> QED BY <1>10, <1>11, <2>2 DEF Unstalled
<1> QED BY <1>10, <1>11

LEMMA InnerSteps ==
    ASSUME Base, NEW w \in Workers,
           WorkerStep(w) \/ BeginFails(w) \/ AnswerNotLogged(w) \/ Crash(w),
           ~SaveTaskCompletion(w), ~MarkFailed(w), ~DeferRunningTaskForProviderPoll(w)
    PROVE  Inner(w)
<1> USE DEF Base
<1>0. Typed /\ worker[w] \in WorkerRow BY TypedWorker
<1>1. CASE Crash(w) BY <1>1, CrashMoves DEF Crash, Inner, Moved, SameTask
<1>2. CASE AnswerNotLogged(w)
  BY <1>2, UnloggedMoves, InsideRows DEF AnswerNotLogged, Inner, SameTask, Identified, Goes, Early, Steps
<1>24. CASE BeginFails(w)
  BY <1>24, BeginFailsMoves, InsideRows DEF BeginFails, Inner, SameTask, Identified, Early, Steps
<1>3. CASE TakeAttempt(w)
  BY <1>3, TakeMoves, InsideRows DEF TakeAttempt, Inner, SameTask, Early, Steps
<1>4. CASE ResumeAttempt(w)
  <2> DEFINE n == Len(attempts[worker[w].run])
             pid == IF worker[w].pid # 0 THEN worker[w].pid ELSE attempts[worker[w].run][n].pid
             row == [worker[w] EXCEPT !.pc = "bill", !.n = n, !.state = "accepted", !.pid = pid]
  <2>1. Moved(w, row) BY <1>4, ResumeAttemptMoves
  <2>2. Early(w) BY <1>4 DEF ResumeAttempt, Early, Steps
  <2>3. row.pc = "bill" /\ row.run = worker[w].run /\ row.lease = worker[w].lease BY <1>0 DEF WorkerRow
  <2>4. SameTask BY <1>0, <1>4 DEF ResumeAttempt, Typed, TaskRow, SameTask
  <2> HIDE DEF row
  <2> QED BY <1>4, <2>1, <2>2, <2>3, <2>4 DEF ResumeAttempt, Inner, Inside, Moved, Steps
<1>5. CASE RefuseAttempt(w)
  BY <1>5, RefuseMoves, InsideRows DEF RefuseAttempt, Inner, SameTask, Early, Steps
<1>6. CASE BeginDirect(w)
  BY <1>6, DirectMoves, InsideRows DEF BeginDirect, Inner, SameTask, Early, Steps
<1>7. CASE MarkBillingRunning(w)
  BY <1>7, BillMoves, InsideRows DEF MarkBillingRunning, Inner, SameTask, Early, Steps
<1>8. CASE MarkRouteAttemptDispatching(w)
  <2> DEFINE row == [worker[w] EXCEPT !.pc = "call", !.state = "submission_unknown"]
  <2>1. Moved(w, row) \/ Went(w, "call") BY <1>8, DispatchMoves
  <2>2. Early(w) BY <1>8 DEF MarkRouteAttemptDispatching, Early, Steps
  <2>3. row.pc = "call" /\ row.run = worker[w].run /\ row.lease = worker[w].lease BY <1>0 DEF WorkerRow
  <2> HIDE DEF row
  <2>4. \E rw \in WorkerRow : Moved(w, rw) /\ Inside(w, rw)
    <3>1. CASE Moved(w, row) BY <3>1, <2>2, <2>3 DEF Inside, Moved, Steps
    <3>2. CASE Went(w, "call") BY <3>2, <2>2, InsideRows DEF Steps
    <3> QED BY <2>1, <3>1, <3>2
  <2> QED BY <1>8, <2>4 DEF MarkRouteAttemptDispatching, Inner, SameTask
<1>9. CASE Submit(w)
  <2> DEFINE row == [worker[w] EXCEPT !.pc = "answer", !.job = Len(jobs) + 1]
  <2>1. Moved(w, row) BY <1>9, SubmitMoves
  <2>2. Early(w) BY <1>9 DEF Submit, Early, Steps
  <2>3. row.pc = "answer" /\ row.run = worker[w].run /\ row.lease = worker[w].lease BY <1>0 DEF WorkerRow
  <2> HIDE DEF row
  <2> QED BY <1>9, <2>1, <2>2, <2>3 DEF Submit, Inner, Inside, Moved, Steps, SameTask
<1>10. CASE SubmitFails(w)
  BY <1>10, SubmitFailsMoves, InsideRows DEF SubmitFails, Inner, SameTask, Early, Steps
<1>11. CASE Resume(w)
  <2> DEFINE row == [worker[w] EXCEPT !.pc = "poll", !.job = worker[w].pid]
  <2>1. Moved(w, row) BY <1>11, ResumeMoves
  <2>2. Early(w) BY <1>11 DEF Resume, Early, Steps
  <2>3. row.pc = "poll" /\ row.run = worker[w].run /\ row.lease = worker[w].lease BY <1>0 DEF WorkerRow
  <2> HIDE DEF row
  <2> QED BY <1>11, <2>1, <2>2, <2>3 DEF Resume, Inner, Inside, Moved, Steps, SameTask
<1>12. CASE RecordAnswer(w)
  BY <1>12, RecordMoves, InsideRows DEF RecordAnswer, Inner, SameTask, Identified, Goes, Early, Steps
<1>13. CASE AnswerLost(w)
  BY <1>13, LostMoves, InsideRows DEF AnswerLost, Inner, SameTask, Early, Steps
<1>14. CASE PollEnds(w)
  BY <1>14, PollEndsMoves, InsideRows DEF PollEnds, Inner, SameTask, Identified, Early, Steps
<1>15. CASE PollFails(w)
  BY <1>15, PollFailsMoves, InsideRows DEF PollFails, Inner, SameTask, Identified, Early, Steps
<1>16. CASE PollTimesOut(w)
  BY <1>16, TimesOutMoves, InsideRows DEF PollTimesOut, Inner, SameTask, Early, Steps
<1>17. CASE FinishRouteAttempt(w)
  <2> DEFINE row == [worker[w] EXCEPT !.pc = After(w), !.pid = FoundPid(w),
                                      !.state = IF worker[w].n = 0 THEN @ ELSE FoundState(w)]
  <2>1. Moved(w, row) BY <1>17, FinishMoves
  <2>2. Early(w) BY <1>17 DEF FinishRouteAttempt, Early, Steps
  <2>3. row.pc = After(w) /\ row.run = worker[w].run /\ row.lease = worker[w].lease BY <1>0 DEF WorkerRow
  <2>4. After(w) \in Steps \ {"settle", "close"} BY DEF After, Steps
  <2> HIDE DEF row
  <2>5. Inside(w, row) BY <2>2, <2>3, <2>4 DEF Inside
  <2>6. row \in WorkerRow BY <2>1 DEF Moved
  <2>7. UNCHANGED <<task, others>> BY <1>17 DEF FinishRouteAttempt
  <2>8. SameTask BY <2>7 DEF SameTask
  <2> QED BY <2>1, <2>5, <2>6, <2>7, <2>8 DEF Inner
<1>18. CASE NextRouteAttempt(w)
  BY <1>18, NextMoves, InsideRows DEF NextRouteAttempt, Inner, SameTask, Early, Steps
<1>19. CASE PersistResult(w)
  BY <1>19, PersistMoves, InsideRows DEF PersistResult, Inner, SameTask, Early, Steps
<1>20. CASE SaveFails(w)
  BY <1>20, SaveFailsMoves, InsideRows DEF SaveFails, Inner, SameTask, Early, Steps
<1>21. CASE SettleBilling(w)
  BY <1>21, SettleMoves DEF SettleBilling, Inner, Moved, SameTask
<1>22. CASE LeaveToSuccessor(w)
  BY <1>22, LeaveMoves DEF LeaveToSuccessor, Inner, Moved, SameTask
<1>23. CASE CloseBilling(w)
  BY <1>23, CloseMoves DEF CloseBilling, Inner, Moved, SameTask
<1> QED
  BY <1>1, <1>2, <1>3, <1>4, <1>5, <1>6, <1>7, <1>8, <1>9, <1>10, <1>11, <1>12, <1>13, <1>14,
     <1>15, <1>16, <1>17, <1>18, <1>19, <1>20, <1>21, <1>22, <1>23, <1>24 DEF WorkerStep

LEMMA InnerKeepsLeases ==
    ASSUME Base, Leases, NEW w \in Workers, Inner(w), Unstalled' => Unstalled
    PROVE  Leases'
<1>1. PICK row \in WorkerRow : Moved(w, row) /\ (row = Resting \/ Inside(w, row)) BY DEF Inner
<1>2. worker'[w] = row /\ \A u \in Workers : u # w => worker'[u] = worker[u] BY <1>1 DEF Moved
<1>3. \A u \in Workers : Early(u)' =>
         Early(u) /\ worker'[u].run = worker[u].run /\ worker'[u].lease = worker[u].lease
  BY <1>1, <1>2, RestingRow DEF Early, Inside, Steps
<1>4. \A u \in Workers : Live(u)' => Live(u) BY <1>3 DEF Live
<1>5. SameTask /\ UNCHANGED others BY DEF Inner
<1>6. \A u \in Workers : Live(u)' /\ task'.status = "running" =>
         task'.owner = u /\ (Unstalled' => task'.lease = "live")
  BY <1>4, <1>5 DEF Leases, SameTask
<1>7. \A u, v \in Workers : Live(u)' /\ Live(v)' => u = v BY <1>4 DEF Leases
<1>8. \A u \in Workers : Early(u)' => worker'[u].run = task'.run /\ task'.status # "queued"
  BY <1>3, <1>5 DEF Leases, SameTask
<1>9. Calm => \A u \in Workers : Early(u)' => Live(u)' /\ task'.status = "running"
  BY <1>3, <1>5 DEF Leases, SameTask, Live
<1>10. NoRetry => /\ task'.run = 1 /\ retry' = "none" /\ query'.run \in {0, 1}
                  /\ \A u \in Workers : worker'[u].run \in {0, 1}
  BY <1>1, <1>2, <1>5, RestingRow DEF Leases, SameTask, others, Inside
<1> QED BY <1>6, <1>7, <1>8, <1>9, <1>10 DEF Leases, Calm, NoRetry

(* A step that ends the run of a worker or changes the row.                *)
LEMMA RowKeepsLeases ==
    ASSUME Base, Base', Leases, Single, NEW w \in Workers, Unstalled' => Unstalled,
           \A u \in Workers : u # w => worker'[u] = worker[u],
           UNCHANGED <<kind, retry, query>>,
           \/ SaveTaskCompletion(w) \/ MarkFailed(w)
           \/ DeferRunningTaskForProviderPoll(w) /\ Moved(w, Resting),
           ~Early(w)', worker'[w].run \in {0, worker[w].run}
    PROVE  Leases'
<1> USE DEF Base
<1>0. task \in TaskRow /\ worker[w].run # 0
  BY TypedWorker
     DEF Typed, Named, SaveTaskCompletion, MarkFailed, DeferRunningTaskForProviderPoll
<1>1. Early(w)
  BY DEF SaveTaskCompletion, MarkFailed, DeferRunningTaskForProviderPoll, Early, Steps
<1>2. \A u \in Workers : Early(u)' => u # w /\ Early(u) /\ worker'[u] = worker[u]
  BY DEF Early
<1>3. \A u \in Workers : Live(u)' => u # w /\ Live(u) BY <1>2 DEF Live
<1>10. \/ task'.status = "succeeded" /\ task'.run = worker[w].run
       \/ task'.status # "running" /\ task'.run = task.run
          /\ (task.status # "queued" => task'.status # "queued")
       \/ /\ DeferRunningTaskForProviderPoll(w)
          /\ task'.status = task.status /\ task'.run = task.run
  <2>1. CASE SaveTaskCompletion(w) BY <2>1 DEF SaveTaskCompletion
  <2>2. CASE MarkFailed(w)
    <3>1. CASE task.status = "running" BY <1>0, <2>2, <3>1 DEF MarkFailed, TaskRow
    <3>2. CASE task.status # "running" BY <2>2, <3>2 DEF MarkFailed
    <3> QED BY <3>1, <3>2
  <2>3. CASE DeferRunningTaskForProviderPoll(w)
    BY <1>0, <2>3 DEF DeferRunningTaskForProviderPoll, TaskRow
  <2> QED BY <2>1, <2>2, <2>3
<1>4. task'.run = task.run /\ task'.status # "queued"
  <2>1. worker[w].run = task.run /\ task.status # "queued" BY <1>1 DEF Leases
  <2> QED BY <2>1, <1>10
<1>5. \A u \in Workers : Live(u)' => task'.status # "running"
  <2> SUFFICES ASSUME NEW u \in Workers, Live(u)', task'.status = "running" PROVE FALSE
    OBVIOUS
  <2>1. DeferRunningTaskForProviderPoll(w) BY <1>10
  <2>2. Live(w) /\ u # w /\ Live(u) BY <1>1, <1>3, <2>1 DEF DeferRunningTaskForProviderPoll, Live
  <2> QED BY <2>2 DEF Leases
<1>6. \A u, v \in Workers : Live(u)' /\ Live(v)' => u = v BY <1>3 DEF Leases
<1>7. \A u \in Workers : Early(u)' => worker'[u].run = task'.run /\ task'.status # "queued"
  BY <1>2, <1>4 DEF Leases
<1>8. Calm => \A u \in Workers : ~Early(u)'
  <2> SUFFICES ASSUME Calm, NEW u \in Workers, Early(u)' PROVE FALSE OBVIOUS
  <2>1. Live(w) /\ u # w /\ Live(u) BY <1>1, <1>2 DEF Leases
  <2> QED BY <2>1 DEF Leases
<1>9. NoRetry => /\ task'.run = 1 /\ retry' = "none" /\ query'.run \in {0, 1}
                 /\ \A u \in Workers : worker'[u].run \in {0, 1}
  <2> SUFFICES ASSUME NoRetry, NEW u \in Workers
               PROVE  task'.run = 1 /\ retry' = "none" /\ query'.run \in {0, 1}
                      /\ worker'[u].run \in {0, 1}
    OBVIOUS
  <2>1. task.run = 1 /\ retry = "none" /\ query.run \in {0, 1} /\ worker[u].run \in {0, 1}
        /\ worker[w].run \in {0, 1}
    BY DEF Leases
  <2>2. worker'[u].run \in {0, 1} BY <2>1
  <2> QED BY <2>1, <2>2, <1>4
<1> QED BY <1>5, <1>6, <1>7, <1>8, <1>9 DEF Leases, Calm, NoRetry

LEMMA WorkerKeepsLeases ==
    ASSUME Base, Base', Leases, Single, NEW w \in Workers, Unstalled' => Unstalled, ~overtaken',
           \/ ClaimNextTask(w) \/ WorkerStep(w) \/ RenewalFails(w) \/ BeginFails(w)
           \/ AnswerNotLogged(w) \/ Crash(w)
    PROVE  Leases'
<1> USE DEF Base
<1>0. Typed /\ worker[w] \in WorkerRow /\ task \in TaskRow BY TypedWorker DEF Typed
<1>1. CASE ClaimNextTask(w)
  <2> DEFINE row == [Resting EXCEPT !.pc = "begin", !.run = task.run,
                                    !.n = Len(attempts[task.run]), !.pid = task.pid]
  <2>1. Moved(w, row) BY <1>1, ClaimMoves
  <2>2. row.pc = "begin" /\ row.run = task.run /\ row.lease = "held" BY RestingRow DEF WorkerRow
  <2> HIDE DEF row
  <2>3. worker'[w] = row /\ \A u \in Workers : u # w => worker'[u] = worker[u] BY <2>1 DEF Moved
  <2>4. /\ task'.status = "running" /\ task'.owner = w /\ task'.lease = "live"
        /\ task'.run = task.run /\ UNCHANGED <<retry, query>>
    BY <1>0, <1>1 DEF ClaimNextTask, TaskRow
  <2>5. \A u \in Workers : ~Live(u) BY <1>1 DEF ClaimNextTask
  <2>6. \A u \in Workers : Live(u)' => u = w BY <2>3, <2>5 DEF Live, Early
  <2>7. \A u \in Workers : Early(u)' => u = w \/ (Early(u) /\ worker'[u] = worker[u])
    BY <2>3 DEF Early
  <2>8. \A u \in Workers : Early(u)' => worker'[u].run = task'.run
    BY <2>2, <2>3, <2>4, <2>7 DEF Leases
  <2>9. Live(w)' BY <2>2, <2>3 DEF Live, Early, Steps
  <2>10. Calm => \A u \in Workers : Early(u)' => Live(u)'
    BY <2>5, <2>7, <2>9 DEF Leases
  <2>11. NoRetry => /\ task'.run = 1 /\ retry' = "none" /\ query'.run \in {0, 1}
                    /\ \A u \in Workers : worker'[u].run \in {0, 1}
    BY <2>2, <2>3, <2>4 DEF Leases
  <2> QED BY <2>4, <2>6, <2>8, <2>10, <2>11 DEF Leases, Calm, NoRetry
<1>2. CASE RenewalFails(w)
  <2> DEFINE row == [worker[w] EXCEPT !.lease = "lost"]
  <2>1. Moved(w, row) BY <1>2, RenewalMoves
  <2>2. row.pc = worker[w].pc /\ row.run = worker[w].run /\ row.lease = "lost" BY <1>0 DEF WorkerRow
  <2> HIDE DEF row
  <2>3. worker'[w] = row /\ \A u \in Workers : u # w => worker'[u] = worker[u] BY <2>1 DEF Moved
  <2>4. UNCHANGED <<task, others>> /\ Early(w) BY <1>2 DEF RenewalFails, Live
  <2>5. ~Calm
    <3> SUFFICES ASSUME Calm PROVE FALSE OBVIOUS
    <3>1. Live(w) /\ task.status = "running" /\ task.owner = w BY <2>4 DEF Leases
    <3> QED BY <1>2, <3>1 DEF RenewalFails, Fault, Calm
  <2>6. \A u \in Workers : Early(u)' => Early(u) /\ worker'[u].run = worker[u].run
    BY <2>2, <2>3, <2>4 DEF Early
  <2>7. \A u \in Workers : Live(u)' => Live(u) BY <2>2, <2>3 DEF Live, Early
  <2>8. NoRetry => /\ task'.run = 1 /\ retry' = "none" /\ query'.run \in {0, 1}
                   /\ \A u \in Workers : worker'[u].run \in {0, 1}
    BY <2>2, <2>3, <2>4 DEF Leases, others
  <2> QED BY <2>4, <2>5, <2>6, <2>7, <2>8 DEF Leases, Calm, NoRetry
<1>3. CASE SaveTaskCompletion(w)
  <2> DEFINE row == [worker[w] EXCEPT !.pc = "settle"]
  <2>1. Moved(w, row) BY <1>3, SaveMoves DEF Went
  <2>2. row.pc = "settle" /\ row.run = worker[w].run BY <1>0 DEF WorkerRow
  <2> HIDE DEF row
  <2> QED BY <1>3, <2>1, <2>2, RowKeepsLeases DEF Moved, Early, SaveTaskCompletion, others
<1>4. CASE MarkFailed(w)
  <2> DEFINE row == [worker[w] EXCEPT !.pc = "close"]
  <2>1. Moved(w, row) BY <1>4, FailMoves DEF Went
  <2>2. row.pc = "close" /\ row.run = worker[w].run BY <1>0 DEF WorkerRow
  <2> HIDE DEF row
  <2> QED BY <1>4, <2>1, <2>2, RowKeepsLeases DEF Moved, Early, MarkFailed, others
<1>5. CASE DeferRunningTaskForProviderPoll(w)
  <2>1. Moved(w, Resting) BY <1>5, DeferMoves
  <2> QED BY <1>5, <2>1, RestingRow, RowKeepsLeases
          DEF Moved, Early, Steps, DeferRunningTaskForProviderPoll, others
<1> QED BY <1>1, <1>2, <1>3, <1>4, <1>5, InnerSteps, InnerKeepsLeases

LEMMA OthersKeepLeases ==
    ASSUME Base, Base', Leases, Single, Unstalled' => Unstalled,
           \/ LeaseExpires \/ WorkerStalls \/ \E w \in Workers : RenewTaskLease(w)
           \/ (\E j \in 1..NumJobs : JobEnds(j)) \/ Retry \/ Query \/ Resolve
    PROVE  Leases'
<1> USE DEF Base
<1>0. Typed /\ query \in QueryRow /\ task \in TaskRow BY Aside DEF Typed
<1>12. CASE WorkerStalls \/ \E w \in Workers : RenewTaskLease(w)
  <2>1. PICK lease \in {"live", "expired"} :
              LeaseStep(lease) /\ (UNCHANGED faults \/ Fault("stall"))
              /\ (lease = "expired" => Fault("stall"))
    BY <1>12, LeaseSteps
  <2>2. /\ task'.status = task.status /\ task'.run = task.run /\ task'.owner = task.owner
        /\ task'.lease = lease /\ UNCHANGED <<worker, retry, query>>
    BY <2>1, LeaseTypes DEF LeaseStep
  <2>3. Fault("stall") => ~Unstalled'
    BY DEF Fault, Unstalled, TypeOK
  <2>4. \A u \in Workers : Live(u)' => Live(u) BY <2>2 DEF Live, Early
  <2>5. \A u \in Workers : Live(u)' /\ task'.status = "running" =>
           task'.owner = u /\ (Unstalled' => task'.lease = "live")
    BY <2>1, <2>2, <2>3, <2>4 DEF Leases
  <2> QED BY <2>2, <2>5 DEF Leases, Live, Early, Calm, NoRetry
<1>1. CASE LeaseExpires
  <2>1. /\ UNCHANGED <<worker, others>>
        /\ task'.status = task.status /\ task'.run = task.run /\ task.status = "running"
        /\ \A w \in Workers : task.owner = w => ~Live(w)
    BY <1>0, <1>1 DEF LeaseExpires, TaskRow, Live, Early, Steps
  <2>2. \A w \in Workers : ~Live(w) BY <2>1 DEF Leases
  <2> QED BY <2>1, <2>2 DEF Leases, Live, Early, others
<1>2. CASE UNCHANGED <<worker, retry>> /\ SameTask /\ query'.run \in {query.run, 0}
  BY <1>2 DEF Leases, Live, Early, SameTask
<1>3. CASE \E j \in 1..NumJobs : JobEnds(j)
  BY <1>2, <1>3, JobTypes DEF SameTask, others
<1>4. CASE CheckRetryEligibility
  <2>1. ~NoRetry BY <1>4 DEF CheckRetryEligibility, NoRetry
  <2>2. UNCHANGED <<task, worker>> BY <1>4 DEF CheckRetryEligibility
  <2> QED BY <2>1, <2>2 DEF Leases, Live, Early, Calm, NoRetry
<1>5. CASE RetryTaskWithBilling
  <2>1. ~NoRetry BY <1>5 DEF RetryTaskWithBilling, Leases
  <2>2. CASE task.status = "failed" /\ task.run < NumRuns
    <3>1. \A w \in Workers : ~Early(w) BY <2>1, <2>2 DEF Leases, Single
    <3>2. \A w \in Workers : ~Early(w)' BY <1>5, <3>1 DEF RetryTaskWithBilling, Early
    <3> QED BY <2>1, <3>2 DEF Leases, Live, NoRetry
  <2>3. CASE ~(task.status = "failed" /\ task.run < NumRuns)
    <3>1. UNCHANGED <<task, worker>> BY <1>5, <2>3 DEF RetryTaskWithBilling
    <3> QED BY <2>1, <3>1 DEF Leases, Live, Early, Calm, NoRetry
  <2> QED BY <2>2, <2>3
<1>6. CASE BeginQuery
  <2>1. UNCHANGED <<task, worker, retry>> /\ query'.run = task.run
    BY <1>6, BeginQueryTypes DEF BeginQuery
  <2> QED BY <2>1 DEF Leases, Live, Early, Calm, NoRetry
<1>7. CASE ClaimFailedTaskProviderRecovery
  <2>1. SameTask BY <1>7, ClaimRecoveryTypes DEF Identified, SameTask
  <2>2. query'.run \in {query.run, 0}
    BY <1>0, <1>7, QueryMoves DEF ClaimFailedTaskProviderRecovery
  <2> QED BY <1>2, <1>7, <2>1, <2>2 DEF ClaimFailedTaskProviderRecovery
<1>8. CASE QueryUpstream
  <2>1. SameTask BY <1>8, UpstreamTypes DEF Identified, SameTask
  <2>2. query'.run \in {query.run, 0} BY <1>0, <1>8, QueryMoves DEF QueryUpstream
  <2> QED BY <1>2, <1>8, <2>1, <2>2 DEF QueryUpstream
<1>9. CASE SaveRecovered
  <2>1. UNCHANGED <<worker, retry>> /\ query.pc = "save" BY <1>9 DEF SaveRecovered
  <2>2. query'.run \in {query.run, 0} BY <1>0, <1>9, QueryMoves DEF SaveRecovered
  <2>3. CASE UNCHANGED task BY <1>2, <2>1, <2>2, <2>3 DEF SameTask
  <2>4. CASE task.status = "failed" /\ task'.status = "succeeded" /\ task'.run = query.run
    <3>1. Calm => \A w \in Workers : ~Early(w) BY <2>4 DEF Leases
    <3>2. NoRetry => query.run = 1 BY <2>1 DEF Leases, Named
    <3>3. \A w \in Workers : Early(w) => worker[w].run = task'.run
      BY <2>4, <3>1, <3>2 DEF Leases, Single
    <3> QED BY <2>1, <2>2, <2>4, <3>1, <3>2, <3>3 DEF Leases, Live, Early, Calm, NoRetry
  <2> QED BY <1>9, <2>3, <2>4 DEF SaveRecovered
<1>10. CASE SettleRecovered
  <2>1. query'.run \in {query.run, 0} BY <1>0, <1>10, QueryMoves DEF SettleRecovered
  <2> QED BY <1>2, <1>10, <2>1 DEF SettleRecovered, SameTask
<1>11. CASE Resolve
  BY <1>2, <1>11 DEF Resolve, ResolveBillingOrder, SameTask
<1> QED
  BY <1>1, <1>3, <1>4, <1>5, <1>6, <1>7, <1>8, <1>9, <1>10, <1>11, <1>12 DEF Retry, Query

-----------------------------------------------------------------------------
(* The order of a run, as long as no lease of a live worker is lost and     *)
(* nobody queries the provider for a failed task.                           *)

(* A finished order stays, the order of a task at work is not finished, and *)
(* that of a result not refunded.                                           *)
Mild ==
    \A r \in Runs :
       /\ orders[r] \notin Unfinished => orders'[r] = orders[r]
       /\ r = task.run /\ task.status \in {"queued", "running"} /\ orders[r] \in Unfinished =>
             orders'[r] \in Unfinished
       /\ r = task.run /\ task.status = "succeeded" /\ orders'[r] = "refunded" =>
             orders[r] = "refunded"

LEMMA MildKeepsPaid ==
    ASSUME Base, Paid, Mild, UNCHANGED <<query, resolved>>, task'.run = task.run,
           \/ task'.status = task.status
           \/ task.status \in {"queued", "running"} /\ task'.status \in {"running", "succeeded"},
           \A w \in Workers : Closing(w)' => Closing(w) /\ worker'[w].run = worker[w].run
    PROVE  Paid'
<1> USE DEF Base
<1>0. Typed /\ task.run \in Runs /\ resolved \subseteq Runs BY Aside DEF Typed, TaskRow
<1>1. query'.pc = "none" BY DEF Paid
<1>2. \A r \in Runs : r > task'.run => orders'[r] = "absent"
  BY DEF Paid, Mild, Unfinished
<1>3. \A r \in resolved' : orders'[r] \in {"settled", "refunded"}
  BY <1>0 DEF Paid, Mild, Unfinished
<1>4. \A w \in Workers : Closing(w)' =>
         worker'[w].run < task'.run \/ (task'.status = "failed" /\ worker'[w].run = task'.run)
  BY DEF Paid
<1>5. task'.status \in {"queued", "running"} =>
         orders'[task'.run] \in Unfinished \/ task'.run \in resolved'
  BY <1>0 DEF Paid, Mild
<1>6. Earned'
  <2> SUFFICES ASSUME task'.status = "succeeded", orders'[task'.run] = "refunded"
               PROVE  task'.run \in resolved'
    BY DEF Earned
  <2>1. CASE task.status = "succeeded" BY <1>0, <2>1 DEF Paid, Earned, Mild
  <2>2. CASE task.status # "succeeded"
    <3>1. task.status \in {"queued", "running"} BY <2>2
    <3>2. orders[task.run] \in Unfinished => orders'[task.run] \in Unfinished BY <1>0, <3>1 DEF Mild
    <3>3. orders[task.run] \notin Unfinished BY <3>2 DEF Unfinished
    <3> QED BY <3>1, <3>3 DEF Paid
  <2> QED BY <2>1, <2>2
<1> QED BY <1>1, <1>2, <1>3, <1>4, <1>5, <1>6 DEF Paid

LEMMA InnerKeepsPaid ==
    ASSUME Base, Paid, Mild, NEW w \in Workers, Inner(w)
    PROVE  Paid'
<1>1. PICK row \in WorkerRow : Moved(w, row) /\ (row = Resting \/ Inside(w, row)) BY DEF Inner
<1>2. worker'[w] = row /\ \A u \in Workers : u # w => worker'[u] = worker[u] BY <1>1 DEF Moved
<1>3. \A u \in Workers : Closing(u)' => Closing(u) /\ worker'[u] = worker[u]
  BY <1>1, <1>2, RestingRow DEF Closing, Inside
<1> QED BY <1>3, MildKeepsPaid DEF Inner, SameTask, others

LEMMA SameIsMild == ASSUME orders' = orders PROVE Mild
BY DEF Mild

(* The orders other than r stay, and so does r's when it is finished.      *)
LEMMA BillIsMild ==
    ASSUME Typed, NEW r \in Runs, NEW s \in OrderStatuses, Bill(r, s),
           orders[r] \notin Unfinished => s = orders[r],
           r = task.run => /\ (task.status \in {"queued", "running"} /\ orders[r] \in Unfinished =>
                                  s \in Unfinished)
                           /\ (task.status = "succeeded" /\ s = "refunded" => orders[r] = "refunded")
    PROVE  Mild
<1>1. orders'[r] = s /\ \A q \in Runs \ {r} : orders'[q] = orders[q] BY BillTyped DEF Typed
<1>2. \A q \in Runs : q # r => orders'[q] = orders[q] BY <1>1
<1> QED BY <1>1, <1>2 DEF Mild

LEMMA StepIsMild ==
    ASSUME Base, Leases, Paid, Quiet, NEW w \in Workers,
           WorkerStep(w) \/ BeginFails(w) \/ AnswerNotLogged(w) \/ Crash(w)
    PROVE  Mild
<1> USE DEF Base
<1>0. Typed /\ task \in TaskRow /\ worker[w] \in WorkerRow BY TypedWorker DEF Typed
<1>1. CASE UNCHANGED orders BY <1>1, SameIsMild
<1>2. CASE AnswerNotLogged(w)
  <2>1. worker[w].run \in Runs /\ orders[worker[w].run] \in OrderStatuses
    BY <1>0, <1>2, HasRun DEF AnswerNotLogged, Typed
  <2>2. Bill(worker[w].run, Uncertain(orders[worker[w].run])) BY <1>2 DEF AnswerNotLogged
  <2> QED BY <1>0, <2>1, <2>2, Verdict, BillIsMild DEF Uncertain, Unfinished
<1>3. CASE MarkBillingRunning(w) /\ orders' # orders
  <2>1. worker[w].run \in Runs BY <1>3, HasRun DEF MarkBillingRunning
  <2>2. orders[worker[w].run] \in {"reserved", "running"} /\ Bill(worker[w].run, "running")
    BY <1>3, BillMoves
  <2> QED BY <1>0, <2>1, <2>2, BillIsMild DEF Unfinished, OrderStatuses
<1>4. CASE SettleBilling(w)
  <2>1. /\ worker[w].run \in Runs /\ orders[worker[w].run] \in OrderStatuses
        /\ task.status = "succeeded"
    BY <1>0, <1>4, HasRun DEF SettleBilling, Typed, Charges
  <2>2. \/ Bill(worker[w].run, Settled(orders[worker[w].run]))
        \/ Bill(worker[w].run, Uncertain(orders[worker[w].run]))
    BY <1>4 DEF SettleBilling
  <2>3. CASE Bill(worker[w].run, Settled(orders[worker[w].run]))
    BY <1>0, <2>1, <2>3, Verdict, BillIsMild DEF Settled, Unfinished
  <2>4. CASE Bill(worker[w].run, Uncertain(orders[worker[w].run]))
    BY <1>0, <2>1, <2>4, Verdict, BillIsMild DEF Uncertain, Unfinished
  <2> QED BY <2>2, <2>3, <2>4
<1>5. CASE CloseBilling(w)
  <2>1. worker[w].run \in Runs /\ orders[worker[w].run] \in OrderStatuses
    BY <1>5, CloseMoves
  <2>2. worker[w].run = task.run => task.status = "failed"
    BY <1>0, <1>5, <2>1 DEF CloseBilling, Closing, Paid, TaskRow, Runs
  <2>3. PICK s \in {Uncertain(orders[worker[w].run]), Refunded(orders[worker[w].run])} :
              Bill(worker[w].run, s)
    BY <1>5 DEF CloseBilling
  <2>4. s \in OrderStatuses BY <2>1, Verdict
  <2>5. orders[worker[w].run] \notin Unfinished => s = orders[worker[w].run]
    BY DEF Uncertain, Refunded, Unfinished
  <2> QED BY <1>0, <2>1, <2>2, <2>3, <2>4, <2>5, BillIsMild
<1> QED
  BY <1>1, <1>2, <1>3, <1>4, <1>5
     DEF WorkerStep, Crash, BeginFails, TakeAttempt, ResumeAttempt, RefuseAttempt, BeginDirect,
         MarkRouteAttemptDispatching, Submit, SubmitFails, Resume, RecordAnswer, AnswerLost,
         PollEnds, PollFails, PollTimesOut, FinishRouteAttempt, NextRouteAttempt, PersistResult,
         SaveTaskCompletion, SaveFails, LeaveToSuccessor, DeferRunningTaskForProviderPoll, MarkFailed

(* Where a worker's step takes it, and the steps that no live worker takes  *)
(* while the leases are calm.                                              *)
LEMMA WentTo ==
    ASSUME TypeOK, NEW w \in Workers, NEW pc, Went(w, pc)
    PROVE  /\ worker'[w].pc = pc /\ worker'[w].run = worker[w].run
           /\ worker'[w].pid = worker[w].pid /\ worker'[w].job = worker[w].job
           /\ \A u \in Workers : u # w => worker'[u] = worker[u]
<1>1. worker[w] \in WorkerRow BY TypedWorker
<1> QED BY <1>1 DEF Went, Moved, WorkerRow

LEMMA ClaimedTo ==
    ASSUME TypeOK, NEW w \in Workers, ClaimNextTask(w)
    PROVE  /\ worker'[w].pc = "begin" /\ worker'[w].run = task.run
           /\ worker'[w].pid = task.pid /\ worker'[w].job = 0
           /\ worker'[w].n = Len(attempts[task.run]) /\ worker'[w].lease = "held"
           /\ \A u \in Workers : u # w => worker'[u] = worker[u]
           /\ task'.status = "running" /\ task'.run = task.run /\ task'.pid = task.pid
           /\ task.status \in {"queued", "running"}
<1>1. worker'[w] = [Resting EXCEPT !.pc = "begin", !.run = task.run,
                                   !.n = Len(attempts[task.run]), !.pid = task.pid]
      /\ \A u \in Workers : u # w => worker'[u] = worker[u]
  BY ClaimMoves DEF Moved
<1>2. task \in TaskRow BY TypedWorker DEF Typed
<1>3. /\ task'.status = "running" /\ task'.run = task.run /\ task'.pid = task.pid
      /\ task.status \in {"queued", "running"}
  BY <1>2 DEF ClaimNextTask, Claimable, TaskRow
<1> QED BY <1>1, <1>3, RestingRow DEF WorkerRow

LEMMA FailedTo ==
    ASSUME Base, Leases, Calm, NEW w \in Workers, MarkFailed(w)
    PROVE  /\ Went(w, "close") /\ worker[w].run = task.run /\ task.status = "running"
           /\ task'.status = "failed" /\ task'.run = task.run /\ task'.pid = task.pid
           /\ UNCHANGED <<orders, attempts, jobs, others>>
<1>1. task \in TaskRow BY TypedWorker DEF Base, Typed
<1>2. Early(w) BY DEF MarkFailed, Early, Steps
<1>3. worker[w].run = task.run /\ task.status = "running" BY <1>2 DEF Leases
<1>4. task' = [task EXCEPT !.status = "failed", !.owner = NoWorker, !.lease = "none"]
  BY <1>3 DEF MarkFailed
<1>5. task'.status = "failed" /\ task'.run = task.run /\ task'.pid = task.pid
  BY <1>1, <1>4 DEF TaskRow
<1> QED BY <1>3, <1>5, FailMoves DEF Base, MarkFailed

LEMMA DeferredTo ==
    ASSUME Base, NEW w \in Workers, DeferRunningTaskForProviderPoll(w)
    PROVE  /\ Moved(w, Resting)
           /\ task'.status = task.status /\ task'.run = task.run /\ task'.pid = task.pid
           /\ UNCHANGED <<orders, attempts, jobs, others>>
<1>1. task \in TaskRow BY TypedWorker DEF Base, Typed
<1>2. task'.status = task.status /\ task'.run = task.run /\ task'.pid = task.pid
  BY <1>1 DEF DeferRunningTaskForProviderPoll, TaskRow
<1> QED BY <1>2, DeferMoves DEF Base, DeferRunningTaskForProviderPoll

LEMMA NoRenewalFails ==
    ASSUME Base, Leases, Calm, NEW w \in Workers, RenewalFails(w)
    PROVE  FALSE
<1>1. Early(w) BY DEF RenewalFails, Live
<1>2. task.status = "running" /\ task.owner = w BY <1>1 DEF Leases, Live
<1> QED BY <1>2 DEF RenewalFails, Fault, Calm

LEMMA WorkerKeepsPaid ==
    ASSUME Base, Leases, Paid, Quiet, NEW w \in Workers,
           \/ ClaimNextTask(w) \/ WorkerStep(w) \/ RenewalFails(w) \/ BeginFails(w)
           \/ AnswerNotLogged(w) \/ Crash(w)
    PROVE  Paid'
<1> USE DEF others
<1>0. TypeOK /\ Typed /\ task \in TaskRow /\ Calm /\ (RenewalFails(w) => FALSE)
  BY TypedWorker, NoRenewalFails DEF Base, Typed, Quiet
<1>1. CASE ClaimNextTask(w)
  <2>1. UNCHANGED <<orders, query, resolved>> BY <1>1 DEF ClaimNextTask
  <2>2. \A u \in Workers : Closing(u)' => Closing(u) /\ worker'[u].run = worker[u].run
    BY <1>0, <1>1, ClaimedTo DEF Closing
  <2> QED BY <1>0, <1>1, <2>1, <2>2, ClaimedTo, SameIsMild, MildKeepsPaid
<1>2. CASE SaveTaskCompletion(w)
  <2>1. Early(w) /\ UNCHANGED <<orders, others>>
    BY <1>2 DEF SaveTaskCompletion, Early, Steps
  <2>2. task.status = "running" /\ task'.status = "succeeded" /\ task'.run = task.run
    BY <1>2, <2>1 DEF SaveTaskCompletion, Leases
  <2>3. \A u \in Workers : Closing(u)' => Closing(u) /\ worker'[u].run = worker[u].run
    BY <1>0, <1>2, SaveMoves, WentTo DEF Closing, Base
  <2> QED BY <2>1, <2>2, <2>3, SameIsMild, MildKeepsPaid
<1>3. CASE MarkFailed(w)
  <2>1. /\ Went(w, "close") /\ worker[w].run = task.run /\ task.status = "running"
        /\ task'.status = "failed" /\ task'.run = task.run /\ UNCHANGED <<orders, others>>
    BY <1>0, <1>3, FailedTo
  <2>2. \A u \in Workers : Closing(u)' =>
           worker'[u].run < task'.run \/ (task'.status = "failed" /\ worker'[u].run = task'.run)
    <3> SUFFICES ASSUME NEW u \in Workers, Closing(u)'
                 PROVE  worker'[u].run < task'.run \/ (task'.status = "failed" /\ worker'[u].run = task'.run)
      OBVIOUS
    <3>1. CASE u = w BY <1>0, <2>1, <3>1, WentTo
    <3>2. CASE u # w
      <4>1. worker'[u] = worker[u] BY <1>0, <2>1, <3>2, WentTo
      <4> QED BY <2>1, <4>1 DEF Closing, Paid
    <3> QED BY <3>1, <3>2
  <2> QED BY <2>1, <2>2 DEF Paid, Earned, others
<1>4. CASE DeferRunningTaskForProviderPoll(w)
  <2>1. Moved(w, Resting) /\ task'.status = task.status /\ task'.run = task.run
        /\ UNCHANGED <<orders, others>>
    BY <1>4, DeferredTo
  <2>2. \A u \in Workers : Closing(u)' => Closing(u) /\ worker'[u].run = worker[u].run
    BY <2>1, RestingRow DEF Closing, Moved
  <2> QED BY <2>1, <2>2, SameIsMild, MildKeepsPaid
<1> QED BY <1>0, <1>1, <1>2, <1>3, <1>4, InnerSteps, StepIsMild, InnerKeepsPaid

LEMMA OthersKeepPaid ==
    ASSUME Base, Leases, Paid, Quiet,
           \/ LeaseExpires \/ WorkerStalls \/ \E w \in Workers : RenewTaskLease(w)
           \/ (\E j \in 1..NumJobs : JobEnds(j)) \/ Retry \/ Query \/ Resolve
    PROVE  Paid'
<1>0. TypeOK /\ Typed /\ task \in TaskRow /\ task.run \in Nat /\ resolved \subseteq Runs
  BY Aside DEF Base, Typed, TaskRow, Runs
<1>1. CASE /\ UNCHANGED <<orders, worker, query, resolved>>
           /\ task'.run = task.run /\ task'.status = task.status
  BY <1>1 DEF Paid, Earned, Closing
<1>2. CASE LeaseExpires \/ WorkerStalls \/ \E w \in Workers : RenewTaskLease(w)
  <2>1. PICK lease \in {"live", "expired"} :
              LeaseStep(lease) /\ (UNCHANGED faults \/ Fault("stall"))
    BY <1>2, LeaseSteps
  <2> QED BY <1>0, <1>1, <2>1, LeaseTypes DEF LeaseStep
<1>3. CASE \E j \in 1..NumJobs : JobEnds(j)
  BY <1>0, <1>1, <1>3, JobTypes DEF others
<1>4. CASE CheckRetryEligibility
  BY <1>1, <1>4 DEF CheckRetryEligibility
<1>5. CASE RetryTaskWithBilling
  <2>1. UNCHANGED <<worker, query, resolved>> BY <1>5 DEF RetryTaskWithBilling
  <2>2. CASE task.status = "failed" /\ task.run < NumRuns
    <3>1. /\ task'.status = "queued" /\ task'.run = task.run + 1
          /\ Bill(task.run + 1, "reserved")
      BY <1>5, <2>2 DEF RetryTaskWithBilling
    <3>2. task.run + 1 \in Runs BY <1>0, <2>2, BoundsAssumption DEF TaskRow, Runs
    <3>3. orders'[task.run + 1] = "reserved"
          /\ \A q \in Runs : q # task.run + 1 => orders'[q] = orders[q]
      BY <1>0, <3>1, <3>2 DEF Bill, Typed
    <3>4. orders[task.run + 1] = "absent" BY <1>0, <3>2 DEF Paid
    <3>5. \A r \in Runs : r > task'.run => orders'[r] = "absent"
      BY <1>0, <3>1, <3>3 DEF Paid, Runs
    <3>6. \A r \in resolved' : orders'[r] \in {"settled", "refunded"}
      BY <1>0, <2>1, <3>3, <3>4 DEF Paid
    <3>7. \A w \in Workers : Closing(w)' => worker'[w].run < task'.run
      <4> SUFFICES ASSUME NEW w \in Workers, Closing(w)' PROVE worker'[w].run < task'.run
        OBVIOUS
      <4>1. Closing(w) /\ worker'[w].run = worker[w].run BY <2>1 DEF Closing
      <4>2. worker[w].run \in Nat BY TypedWorker, <1>0 DEF WorkerRow, Runs
      <4> QED BY <1>0, <3>1, <4>1, <4>2 DEF Paid
    <3>8. orders'[task'.run] \in Unfinished BY <3>1, <3>3 DEF Unfinished
    <3>9. query'.pc = "none" BY <2>1 DEF Paid
    <3> QED BY <3>1, <3>5, <3>6, <3>7, <3>8, <3>9 DEF Paid, Earned
  <2>3. CASE ~(task.status = "failed" /\ task.run < NumRuns)
    BY <1>1, <1>5, <2>1, <2>3 DEF RetryTaskWithBilling
  <2> QED BY <2>2, <2>3
<1>6. CASE Query
  BY <1>6 DEF Query, BeginQuery, ClaimFailedTaskProviderRecovery, QueryUpstream, SaveRecovered,
              SettleRecovered, Paid, Quiet
<1>7. CASE Resolve
  <2>1. PICK r \in Runs, s \in {"settled", "refunded"} : ResolveBillingOrder(r, s)
    BY <1>7 DEF Resolve
  <2>2. /\ UNCHANGED <<task, worker, query>> /\ resolved' = resolved \cup {r}
        /\ orders[r] \in Unfinished
    BY <2>1 DEF ResolveBillingOrder
  <2>3. orders'[r] = s /\ \A q \in Runs : q # r => orders'[q] = orders[q]
    BY <1>0, <2>1, ResolveTypes
  <2>4. \A q \in Runs : q > task'.run => orders'[q] = "absent"
    BY <2>2, <2>3 DEF Paid, Unfinished
  <2>5. \A q \in resolved' : orders'[q] \in {"settled", "refunded"}
    BY <1>0, <2>2, <2>3 DEF Paid
  <2>6. task'.status \in {"queued", "running"} =>
           orders'[task'.run] \in Unfinished \/ task'.run \in resolved'
    BY <1>0, <2>2, <2>3 DEF Paid, TaskRow
  <2>7. Earned' BY <1>0, <2>2, <2>3 DEF Paid, Earned, TaskRow
  <2> QED BY <2>2, <2>4, <2>5, <2>6, <2>7 DEF Paid, Closing
<1> QED BY <1>2, <1>3, <1>4, <1>5, <1>6, <1>7 DEF Retry

-----------------------------------------------------------------------------
(* Doubtful orders, when every answer is logged as well.                    *)
Logging == "log" \notin FaultKinds

LEMMA DoubtsStay ==
    ASSUME Base, Doubts, task'.run = task.run,
           task'.status \in {"queued", "running"} => task.status \in {"queued", "running"},
           \A w \in Workers : Closing(w)' => Closing(w) /\ worker'[w].run = worker[w].run,
           \A r \in Runs : orders'[r] = "uncertain" => orders[r] = "uncertain"
    PROVE  Doubts'
<1>0. TypeOK /\ task.run \in Runs BY TypedWorker DEF Base, Typed, TaskRow
<1>1. \A w \in Workers : Closing(w) => worker[w].run \in Runs
  BY <1>0, HasRun DEF Base, Closing
<1> QED BY <1>0, <1>1 DEF Doubts

LEMMA WorkerKeepsDoubts ==
    ASSUME Base, Leases, Paid, Doubts, Quiet, Logging, NEW w \in Workers,
           \/ ClaimNextTask(w) \/ WorkerStep(w) \/ RenewalFails(w) \/ BeginFails(w)
           \/ AnswerNotLogged(w) \/ Crash(w)
    PROVE  Doubts'
<1>0. TypeOK /\ Typed /\ task \in TaskRow /\ task.run \in Runs /\ Calm /\ (RenewalFails(w) => FALSE)
  BY TypedWorker, NoRenewalFails DEF Base, Typed, TaskRow, Quiet
<1>1. CASE ClaimNextTask(w)
  <2>1. UNCHANGED orders BY <1>1 DEF ClaimNextTask
  <2>2. \A u \in Workers : Closing(u)' => Closing(u) /\ worker'[u].run = worker[u].run
    BY <1>0, <1>1, ClaimedTo DEF Closing
  <2> QED BY <1>0, <1>1, <2>1, <2>2, ClaimedTo, DoubtsStay
<1>2. CASE SaveTaskCompletion(w)
  <2>1. Early(w) /\ UNCHANGED orders BY <1>2 DEF SaveTaskCompletion, Early, Steps
  <2>2. task'.status = "succeeded" /\ task'.run = task.run
    BY <1>2, <2>1 DEF SaveTaskCompletion, Leases
  <2>3. \A u \in Workers : Closing(u)' => Closing(u) /\ worker'[u].run = worker[u].run
    BY <1>0, <1>2, SaveMoves, WentTo DEF Closing, Base
  <2> QED BY <2>1, <2>2, <2>3, DoubtsStay
<1>3. CASE MarkFailed(w)
  <2>1. /\ Went(w, "close") /\ worker[w].run = task.run /\ task.status = "running"
        /\ task'.status = "failed" /\ UNCHANGED orders
    BY <1>0, <1>3, FailedTo
  <2>2. worker'[w].run = task.run /\ \A u \in Workers : u # w => worker'[u] = worker[u]
    BY <1>0, <2>1, WentTo
  <2>3. \A u \in Workers : Closing(u)' /\ u # w =>
           Closing(u) /\ worker'[u].run = worker[u].run /\ worker[u].run < task.run
    BY <2>1, <2>2 DEF Closing, Paid
  <2>4. orders[task.run] # "uncertain" BY <2>1 DEF Doubts
  <2>5. task.run \in Nat BY <1>0 DEF Runs
  <2>6. \A u \in Workers : Closing(u)' /\ u # w => worker'[u].run # task.run
    BY <2>3, <2>5
  <2>7. \A u, v \in Workers : Closing(u)' /\ Closing(v)' /\ worker'[u].run = worker'[v].run => u = v
    BY <2>2, <2>3, <2>6 DEF Doubts
  <2>8. \A u \in Workers : Closing(u)' => orders'[worker'[u].run] # "uncertain"
    <3> SUFFICES ASSUME NEW u \in Workers, Closing(u)' PROVE orders'[worker'[u].run] # "uncertain"
      OBVIOUS
    <3>1. CASE u = w BY <2>1, <2>2, <2>4, <3>1
    <3>2. CASE u # w BY <2>1, <2>3, <3>2 DEF Doubts
    <3> QED BY <3>1, <3>2
  <2> QED BY <2>1, <2>7, <2>8 DEF Doubts
<1>4. CASE DeferRunningTaskForProviderPoll(w)
  <2>1. Moved(w, Resting) /\ task'.status = task.status /\ task'.run = task.run /\ UNCHANGED orders
    BY <1>4, DeferredTo
  <2>2. \A u \in Workers : Closing(u)' => Closing(u) /\ worker'[u].run = worker[u].run
    BY <2>1, RestingRow DEF Closing, Moved
  <2> QED BY <2>1, <2>2, DoubtsStay
<1>5. CASE SettleBilling(w)
  <2>1. Moved(w, Resting) /\ UNCHANGED task BY <1>5, SettleMoves DEF SettleBilling, Base
  <2>2. \A u \in Workers : Closing(u)' => Closing(u) /\ worker'[u] = worker[u]
    BY <2>1, RestingRow DEF Closing, Moved
  <2>3. worker[w].run \in Runs /\ task.status = "succeeded" /\ worker[w].run = task.run
    BY <1>5, HasRun DEF SettleBilling, Base, Charges
  <2>4. \A r \in Runs : r # task.run => orders'[r] = orders[r]
    BY <1>0, <1>5, <2>3 DEF SettleBilling, Bill, Typed
  <2>5. \A u \in Workers : Closing(u) => worker[u].run \in Runs /\ worker[u].run # task.run
    <3> SUFFICES ASSUME NEW u \in Workers, Closing(u)
                 PROVE  worker[u].run \in Runs /\ worker[u].run # task.run
      OBVIOUS
    <3>1. worker[u].run \in Runs BY HasRun DEF Base, Closing
    <3>2. worker[u].run < task.run BY <2>3 DEF Paid
    <3> QED BY <1>0, <3>1, <3>2 DEF Runs
  <2> QED BY <2>1, <2>2, <2>3, <2>4, <2>5 DEF Doubts
<1>6. CASE CloseBilling(w)
  <2>1. Moved(w, Resting) /\ worker[w].run \in Runs /\ UNCHANGED task
    BY <1>6, CloseMoves DEF CloseBilling, Base
  <2>2. \A u \in Workers : Closing(u)' => Closing(u) /\ worker'[u] = worker[u] /\ u # w
    BY <2>1, RestingRow DEF Closing, Moved
  <2>3. \A r \in Runs : r # worker[w].run => orders'[r] = orders[r]
    BY <1>0, <1>6, <2>1 DEF CloseBilling, Bill, Typed
  <2>4. Closing(w) BY <1>6 DEF CloseBilling, Closing
  <2>5. \A u \in Workers : Closing(u) /\ u # w => worker[u].run \in Runs /\ worker[u].run # worker[w].run
    <3> SUFFICES ASSUME NEW u \in Workers, Closing(u), u # w
                 PROVE  worker[u].run \in Runs /\ worker[u].run # worker[w].run
      OBVIOUS
    <3> QED BY <2>4, HasRun DEF Base, Closing, Doubts
  <2>6. task.status \in {"queued", "running"} => task.run # worker[w].run
    BY <1>0, <2>1, <2>4 DEF Paid, Runs
  <2> QED BY <1>0, <2>1, <2>2, <2>3, <2>5, <2>6 DEF Doubts
<1>7. CASE /\ WorkerStep(w) \/ BeginFails(w) \/ Crash(w)
           /\ ~SaveTaskCompletion(w) /\ ~MarkFailed(w) /\ ~DeferRunningTaskForProviderPoll(w)
           /\ ~SettleBilling(w) /\ ~CloseBilling(w)
  <2>1. Inner(w) BY <1>7, InnerSteps
  <2>2. PICK row \in WorkerRow : Moved(w, row) /\ (row = Resting \/ Inside(w, row)) BY <2>1 DEF Inner
  <2>3. worker'[w] = row /\ \A u \in Workers : u # w => worker'[u] = worker[u] BY <2>2 DEF Moved
  <2>4. \A u \in Workers : Closing(u)' => Closing(u) /\ worker'[u].run = worker[u].run
    BY <2>2, <2>3, RestingRow DEF Closing, Inside
  <2>5. \A r \in Runs : orders'[r] = "uncertain" => orders[r] = "uncertain"
    <3>1. CASE UNCHANGED orders BY <3>1
    <3>2. CASE MarkBillingRunning(w)
      <4>1. worker[w].run \in Runs BY <3>2, HasRun DEF Base, MarkBillingRunning
      <4> QED BY <1>0, <3>2, <4>1 DEF MarkBillingRunning, Bill, Typed
    <3> QED
      BY <1>7, <3>1, <3>2
         DEF WorkerStep, Crash, BeginFails, TakeAttempt, ResumeAttempt, RefuseAttempt, BeginDirect,
             MarkRouteAttemptDispatching, Submit, SubmitFails, Resume, RecordAnswer, AnswerLost,
             PollEnds, PollFails, PollTimesOut, FinishRouteAttempt, NextRouteAttempt,
             PersistResult, SaveFails, LeaveToSuccessor
  <2> QED BY <2>1, <2>4, <2>5, DoubtsStay DEF Inner, SameTask
<1>8. ~AnswerNotLogged(w) BY DEF AnswerNotLogged, Fault, Logging
<1> QED BY <1>0, <1>1, <1>2, <1>3, <1>4, <1>5, <1>6, <1>7, <1>8

LEMMA OthersKeepDoubts ==
    ASSUME Base, Paid, Doubts, Quiet,
           \/ LeaseExpires \/ WorkerStalls \/ \E w \in Workers : RenewTaskLease(w)
           \/ (\E j \in 1..NumJobs : JobEnds(j)) \/ Retry \/ Query \/ Resolve
    PROVE  Doubts'
<1>0. TypeOK /\ Typed /\ task \in TaskRow /\ task.run \in Nat
  BY Aside DEF Base, Typed, TaskRow, Runs
<1>1. CASE UNCHANGED <<orders, worker>> /\ task'.run = task.run /\ task'.status = task.status
  BY <1>1, DoubtsStay DEF Closing
<1>2. CASE LeaseExpires \/ WorkerStalls \/ \E w \in Workers : RenewTaskLease(w)
  <2>1. PICK lease \in {"live", "expired"} :
              LeaseStep(lease) /\ (UNCHANGED faults \/ Fault("stall"))
    BY <1>2, LeaseSteps
  <2> QED BY <1>0, <1>1, <2>1, LeaseTypes DEF LeaseStep
<1>3. CASE \E j \in 1..NumJobs : JobEnds(j)
  BY <1>0, <1>1, <1>3, JobTypes
<1>4. CASE CheckRetryEligibility
  BY <1>1, <1>4 DEF CheckRetryEligibility
<1>5. CASE RetryTaskWithBilling
  <2>1. UNCHANGED worker BY <1>5 DEF RetryTaskWithBilling
  <2>2. CASE task.status = "failed" /\ task.run < NumRuns
    <3>1. task'.run = task.run + 1 /\ Bill(task.run + 1, "reserved")
      BY <1>5, <2>2 DEF RetryTaskWithBilling
    <3>2. task.run + 1 \in Runs BY <1>0, <2>2, BoundsAssumption DEF TaskRow, Runs
    <3>3. orders'[task.run + 1] = "reserved"
          /\ \A q \in Runs : q # task.run + 1 => orders'[q] = orders[q]
      BY <1>0, <3>1, <3>2 DEF Bill, Typed
    <3>4. \A w \in Workers : Closing(w)' =>
             Closing(w) /\ worker'[w].run = worker[w].run /\ worker[w].run \in Runs
      BY <1>0, <2>1, HasRun DEF Closing, Base
    <3> QED BY <2>1, <3>1, <3>3, <3>4 DEF Doubts
  <2>3. CASE ~(task.status = "failed" /\ task.run < NumRuns)
    BY <1>1, <1>5, <2>1, <2>3 DEF RetryTaskWithBilling
  <2> QED BY <2>2, <2>3
<1>6. CASE Query
  BY <1>6 DEF Query, BeginQuery, ClaimFailedTaskProviderRecovery, QueryUpstream, SaveRecovered,
              SettleRecovered, Paid, Quiet
<1>7. CASE Resolve
  <2>1. PICK r \in Runs, s \in {"settled", "refunded"} : ResolveBillingOrder(r, s)
    BY <1>7 DEF Resolve
  <2>2. UNCHANGED <<task, worker>> BY <2>1 DEF ResolveBillingOrder
  <2>3. orders'[r] = s /\ \A q \in Runs : q # r => orders'[q] = orders[q]
    BY <1>0, <2>1, ResolveTypes
  <2>4. \A q \in Runs : orders'[q] = "uncertain" => orders[q] = "uncertain" BY <2>3
  <2> QED BY <2>2, <2>4, DoubtsStay DEF Closing
<1> QED BY <1>2, <1>3, <1>4, <1>5, <1>6, <1>7 DEF Retry

(* Only an administrator refunds a doubtful order.                         *)
LEMMA OnlyResolvedRefunds ==
    ASSUME Base, Paid, Doubts, Quiet, Logging, [Next]_vars
    PROVE  \A r \in Runs : orders[r] = "uncertain" /\ orders'[r] = "refunded" => r \in resolved'
<1> SUFFICES ASSUME NEW r \in Runs, orders[r] = "uncertain", orders'[r] = "refunded"
             PROVE  r \in resolved'
  OBVIOUS
<1>0. TypeOK /\ Typed BY Aside DEF Base
<1>1. CASE \E w \in Workers : CloseBilling(w)
  <2>1. PICK w \in Workers : CloseBilling(w) BY <1>1
  <2>2. orders[worker[w].run] # "uncertain" BY <2>1 DEF CloseBilling, Closing, Doubts
  <2>3. worker[w].run \in Runs BY <2>1, CloseMoves DEF Base
  <2>4. \A q \in Runs : q # worker[w].run => orders'[q] = orders[q]
    BY <1>0, <2>1, <2>3 DEF CloseBilling, Bill, Typed
  <2> QED BY <2>2, <2>4
<1>2. CASE Resolve
  <2>1. PICK q \in Runs, s \in {"settled", "refunded"} : ResolveBillingOrder(q, s)
    BY <1>2 DEF Resolve
  <2>2. \A p \in Runs \ {q} : orders'[p] = orders[p] BY <1>0, <2>1, ResolveTypes
  <2> QED BY <2>1, <2>2 DEF ResolveBillingOrder
<1>3. CASE RetryTaskWithBilling
  BY <1>0, <1>3 DEF RetryTaskWithBilling, Bill, Typed
<1>4. CASE \E w \in Workers : SettleBilling(w)
  <2>1. PICK w \in Workers : SettleBilling(w) BY <1>4
  <2> QED BY <1>0, <2>1 DEF SettleBilling, Bill, Typed, Settled, Uncertain, Unfinished
<1>5. CASE \E w \in Workers : MarkBillingRunning(w)
  BY <1>0, <1>5 DEF MarkBillingRunning, Bill, Typed
<1>6. \A w \in Workers : ~AnswerNotLogged(w) BY DEF AnswerNotLogged, Fault, Logging
<1>7. CASE Query
  BY <1>7 DEF Query, BeginQuery, ClaimFailedTaskProviderRecovery, QueryUpstream, SaveRecovered,
              SettleRecovered, Paid, Quiet
<1>8. CASE UNCHANGED orders BY <1>8
<1>9. \A w \in Workers :
         ClaimNextTask(w) \/ WorkerStep(w) \/ RenewalFails(w) \/ BeginFails(w) \/ Crash(w) =>
            UNCHANGED orders \/ CloseBilling(w) \/ SettleBilling(w) \/ MarkBillingRunning(w)
  <2> SUFFICES ASSUME NEW w \in Workers, ~CloseBilling(w), ~SettleBilling(w), ~MarkBillingRunning(w),
                      ClaimNextTask(w) \/ WorkerStep(w) \/ RenewalFails(w) \/ BeginFails(w) \/ Crash(w)
               PROVE  orders' = orders
    OBVIOUS
  <2>1. CASE ClaimNextTask(w) \/ RenewalFails(w) \/ BeginFails(w) \/ Crash(w)
    BY <2>1 DEF ClaimNextTask, RenewalFails, BeginFails, Crash
  <2>2. CASE TakeAttempt(w) \/ ResumeAttempt(w) \/ RefuseAttempt(w) \/ BeginDirect(w)
    BY <2>2 DEF TakeAttempt, ResumeAttempt, RefuseAttempt, BeginDirect
  <2>3. CASE MarkRouteAttemptDispatching(w) \/ Submit(w) \/ SubmitFails(w) \/ Resume(w)
    BY <2>3 DEF MarkRouteAttemptDispatching, Submit, SubmitFails, Resume
  <2>4. CASE RecordAnswer(w) \/ AnswerLost(w) \/ PollEnds(w) \/ PollFails(w) \/ PollTimesOut(w)
    BY <2>4 DEF RecordAnswer, AnswerLost, PollEnds, PollFails, PollTimesOut
  <2>5. CASE FinishRouteAttempt(w) \/ NextRouteAttempt(w) \/ PersistResult(w) \/ SaveFails(w)
    BY <2>5 DEF FinishRouteAttempt, NextRouteAttempt, PersistResult, SaveFails
  <2>6. CASE \/ SaveTaskCompletion(w) \/ LeaveToSuccessor(w)
             \/ DeferRunningTaskForProviderPoll(w) \/ MarkFailed(w)
    BY <2>6 DEF SaveTaskCompletion, LeaveToSuccessor, DeferRunningTaskForProviderPoll, MarkFailed
  <2> QED BY <2>1, <2>2, <2>3, <2>4, <2>5, <2>6 DEF WorkerStep
<1>10. CASE \/ LeaseExpires \/ WorkerStalls \/ \E w \in Workers : RenewTaskLease(w)
            \/ (\E j \in 1..NumJobs : JobEnds(j)) \/ CheckRetryEligibility
  BY <1>8, <1>10 DEF LeaseExpires, WorkerStalls, RenewTaskLease, JobEnds, CheckRetryEligibility
<1>11. CASE UNCHANGED vars BY <1>8, <1>11 DEF vars
<1> QED
  BY <1>1, <1>2, <1>3, <1>4, <1>5, <1>6, <1>7, <1>8, <1>9, <1>10, <1>11 DEF Next, Retry

-----------------------------------------------------------------------------
(* Whose job an id is, as long as no retry starts while someone is still at *)
(* the run before.                                                         *)
JobsStay == \A j \in DOMAIN jobs : j \in DOMAIN jobs' /\ jobs'[j].run = jobs[j].run
AttemptsOwn == \A r \in Runs : \A n \in DOMAIN attempts[r] : Job(attempts[r][n].pid, r)
WorkerOwn(w) == Job(worker[w].pid, worker[w].run) /\ Job(worker[w].job, worker[w].run)
KeepsIds(w) ==
    /\ \/ worker'[w].pid = 0
       \/ Early(w) /\ worker'[w].pid = worker[w].pid /\ worker'[w].run = worker[w].run
    /\ \/ worker'[w].job = 0
       \/ Early(w) /\ worker'[w].job = worker[w].job /\ worker'[w].run = worker[w].run
    /\ \A u \in Workers : u # w => worker'[u] = worker[u]

LEMMA JobStays ==
    ASSUME NEW pid, NEW r, Job(pid, r), JobsStay
    PROVE  pid # 0 => pid \in DOMAIN jobs' /\ jobs'[pid].run = r
BY DEF Job, JobsStay

LEMMA OwnJobsStay ==
    ASSUME OwnJobs, NEW w \in Workers, JobsStay, Job(task.pid, task.run)', AttemptsOwn',
           Early(w)' => WorkerOwn(w)',
           \A u \in Workers : u # w => worker'[u] = worker[u]
    PROVE  OwnJobs'
<1>1. \A u \in Workers : Early(u)' => WorkerOwn(u)'
  <2> SUFFICES ASSUME NEW u \in Workers, Early(u)', u # w PROVE WorkerOwn(u)' OBVIOUS
  <2>1. Early(u) /\ worker'[u] = worker[u] BY DEF Early
  <2> QED BY <2>1 DEF OwnJobs, JobsStay, Job, WorkerOwn
<1> QED BY <1>1 DEF OwnJobs, AttemptsOwn, WorkerOwn

LEMMA KeepsOwn ==
    ASSUME OwnJobs, NEW w \in Workers, JobsStay, KeepsIds(w)
    PROVE  Early(w)' => WorkerOwn(w)'
BY DEF OwnJobs, JobsStay, Job, WorkerOwn, KeepsIds

LEMMA TaskOwn ==
    ASSUME OwnJobs, JobsStay, task'.run = task.run, task'.pid = task.pid
    PROVE  Job(task.pid, task.run)'
BY DEF OwnJobs, JobsStay, Job

LEMMA SameAttemptsOwn ==
    ASSUME OwnJobs, JobsStay, UNCHANGED attempts
    PROVE  AttemptsOwn'
BY DEF OwnJobs, JobsStay, Job, AttemptsOwn

LEMMA SameJobsStay == ASSUME UNCHANGED jobs PROVE JobsStay
BY DEF JobsStay

LEMMA IdRows ==
    ASSUME TypeOK, NEW w \in Workers, Early(w)
    PROVE  /\ \A pc : Went(w, pc) => KeepsIds(w)
           /\ \A pc, out : Ended(w, pc, out) => KeepsIds(w)
           /\ \A pc : Switched(w, pc) => KeepsIds(w)
           /\ First(w) \/ Again(w) => KeepsIds(w)
           /\ Moved(w, Resting) => KeepsIds(w)
<1>1. worker[w] \in WorkerRow BY TypedWorker
<1>2. \A pc : Went(w, pc) => KeepsIds(w) BY <1>1 DEF Went, Moved, KeepsIds, WorkerRow
<1>3. \A pc, out : Ended(w, pc, out) => KeepsIds(w) BY <1>1 DEF Ended, Moved, KeepsIds, WorkerRow
<1>4. \A pc : Switched(w, pc) => KeepsIds(w)
  <2> SUFFICES ASSUME NEW pc, Switched(w, pc) PROVE KeepsIds(w) OBVIOUS
  <2> DEFINE row == [worker[w] EXCEPT !.pc = pc, !.n = Len(attempts[worker[w].run]) + 1,
                                      !.state = "not_sent", !.pid = 0, !.job = 0, !.out = "none"]
  <2>1. Moved(w, row) BY DEF Switched
  <2>2. row.pid = 0 /\ row.job = 0 BY <1>1 DEF WorkerRow
  <2> HIDE DEF row
  <2> QED BY <2>1, <2>2 DEF Moved, KeepsIds
<1>5. First(w) => KeepsIds(w)
  <2> SUFFICES ASSUME First(w) PROVE KeepsIds(w) OBVIOUS
  <2> DEFINE row == [worker[w] EXCEPT !.pc = "bill", !.n = 1, !.state = "not_sent"]
  <2>1. Moved(w, row) BY DEF First
  <2>2. row.pid = worker[w].pid /\ row.job = worker[w].job /\ row.run = worker[w].run
    BY <1>1 DEF WorkerRow
  <2> HIDE DEF row
  <2> QED BY <2>1, <2>2 DEF Moved, KeepsIds
<1>6. Again(w) => KeepsIds(w)
  <2> SUFFICES ASSUME Again(w) PROVE KeepsIds(w) OBVIOUS
  <2> DEFINE row == [worker[w] EXCEPT !.pc = "bill", !.n = Len(attempts[worker[w].run]),
                                      !.state = "not_sent"]
  <2>1. Moved(w, row) BY DEF Again
  <2>2. row.pid = worker[w].pid /\ row.job = worker[w].job /\ row.run = worker[w].run
    BY <1>1 DEF WorkerRow
  <2> HIDE DEF row
  <2> QED BY <2>1, <2>2 DEF Moved, KeepsIds
<1>7. Moved(w, Resting) => KeepsIds(w) BY RestingRow DEF Moved, KeepsIds
<1> QED BY <1>2, <1>3, <1>4, <1>5, <1>6, <1>7

LEMMA WrittenOwn ==
    ASSUME AttemptsTyped, OwnJobs, JobsStay, NEW r \in Runs, NEW n, NEW row, Written(r, n, row),
           n \in 1..Len(attempts[r]) => Job(row.pid, r)
    PROVE  AttemptsOwn'
<1> SUFFICES ASSUME NEW q \in Runs, NEW k \in DOMAIN attempts'[q]
             PROVE  Job(attempts[q][k].pid, q)'
  BY DEF AttemptsOwn
<1>1. CASE q # r
  <2>1. attempts'[q] = attempts[q] BY <1>1 DEF Written
  <2> QED BY <2>1 DEF OwnJobs, JobsStay, Job
<1>2. CASE q = r
  <2>1. DOMAIN attempts'[r] = 1..Len(attempts[r]) /\ DOMAIN attempts[r] = 1..Len(attempts[r])
    <3>1. attempts'[r] \in Seq(Attempt) /\ attempts[r] \in Seq(Attempt) BY DEF Written, AttemptsTyped
    <3>2. Len(attempts'[r]) = Len(attempts[r]) BY DEF Written
    <3> QED BY <3>1, <3>2
  <2>2. attempts'[r][k] = IF k = n THEN row ELSE attempts[r][k] BY <1>2, <2>1 DEF Written
  <2>3. CASE k = n BY <1>2, <2>1, <2>2, <2>3, JobStays DEF Job
  <2>4. CASE k # n BY <1>2, <2>1, <2>2, <2>4 DEF OwnJobs, JobsStay, Job
  <2> QED BY <2>3, <2>4
<1> QED BY <1>1, <1>2

LEMMA GrownOwn ==
    ASSUME AttemptsTyped, AttemptsTyped', OwnJobs, JobsStay, NEW r \in Runs,
           Len(attempts'[r]) = Len(attempts[r]) + 1,
           attempts'[r][Len(attempts[r]) + 1] = NewAttempt,
           \A k \in 1..Len(attempts[r]) : attempts'[r][k] = attempts[r][k],
           \A q \in Runs \ {r} : attempts'[q] = attempts[q]
    PROVE  AttemptsOwn'
<1> SUFFICES ASSUME NEW q \in Runs, NEW k \in DOMAIN attempts'[q]
             PROVE  Job(attempts[q][k].pid, q)'
  BY DEF AttemptsOwn
<1>1. CASE q # r
  <2>1. attempts'[q] = attempts[q] BY <1>1
  <2> QED BY <2>1 DEF OwnJobs, JobsStay, Job
<1>2. CASE q = r
  <2>1. /\ DOMAIN attempts'[r] = 1..Len(attempts[r]) + 1 /\ DOMAIN attempts[r] = 1..Len(attempts[r])
        /\ Len(attempts[r]) \in Nat
    <3>1. attempts'[r] \in Seq(Attempt) /\ attempts[r] \in Seq(Attempt) BY DEF AttemptsTyped
    <3> QED BY <3>1
  <2>2. CASE k = Len(attempts[r]) + 1 BY <1>2, <2>2 DEF NewAttempt, Job
  <2>3. CASE k \in 1..Len(attempts[r]) BY <1>2, <2>1, <2>3 DEF OwnJobs, JobsStay, Job
  <2> QED BY <1>2, <2>1, <2>2, <2>3
<1> QED BY <1>1, <1>2

LEMMA SwitchOwn ==
    ASSUME Typed, OwnJobs, JobsStay, NEW w \in Workers, worker[w].run \in Runs, NEW pc,
           SwitchRoute(w, pc)
    PROVE  AttemptsOwn'
BY SwitchTyped, GrownOwn DEF Typed

(* A step that writes nothing but the worker it moves.                     *)
LEMMA PlainKeepsOwn ==
    ASSUME OwnJobs, NEW w \in Workers, KeepsIds(w), UNCHANGED <<attempts, jobs>>,
           task'.run = task.run,
           task'.pid = task.pid \/ (Early(w) /\ worker[w].run = task.run /\ task'.pid = worker[w].job)
    PROVE  OwnJobs'
<1>1. JobsStay BY SameJobsStay
<1>2. Job(task.pid, task.run)' BY <1>1, TaskOwn DEF OwnJobs, JobsStay, Job
<1> QED BY <1>1, <1>2, SameAttemptsOwn, KeepsOwn, OwnJobsStay DEF KeepsIds

LEMMA JobsDomain ==
    /\ TypeOK => DOMAIN jobs = 1..Len(jobs)
    /\ TypeOK' => DOMAIN jobs' = 1..Len(jobs')
<1>1. ASSUME NEW S, NEW s \in Seq(S) PROVE DOMAIN s = 1..Len(s) OBVIOUS
<1>2. TypeOK => jobs \in Seq([run : Runs, state : {"working", "done", "failed"}]) BY DEF TypeOK
<1>3. TypeOK' => jobs' \in Seq([run : Runs, state : {"working", "done", "failed"}]) BY DEF TypeOK
<1> QED BY <1>1, <1>2, <1>3

LEMMA WorkerKeepsOwnJobs ==
    ASSUME Base, AtRun, OwnJobs, NEW w \in Workers,
           \/ ClaimNextTask(w) \/ WorkerStep(w) \/ RenewalFails(w) \/ BeginFails(w)
           \/ AnswerNotLogged(w) \/ Crash(w)
    PROVE  OwnJobs'
<1> USE DEF Base
<1>0. Typed /\ task \in TaskRow /\ worker[w] \in WorkerRow /\ AttemptsTyped
  BY TypedWorker DEF Typed
<1>r. Early(w) => worker[w].run = task.run BY DEF AtRun
<1>1. CASE ClaimNextTask(w)
  <2>1. UNCHANGED <<attempts, jobs>> BY <1>1 DEF ClaimNextTask
  <2>2. JobsStay BY <2>1, SameJobsStay
  <2>3. /\ worker'[w].run = task.run /\ worker'[w].pid = task.pid /\ worker'[w].job = 0
        /\ \A u \in Workers : u # w => worker'[u] = worker[u]
        /\ task'.run = task.run /\ task'.pid = task.pid
    BY <1>1, ClaimedTo
  <2>4. Job(task.pid, task.run)' BY <2>2, <2>3, TaskOwn
  <2>5. WorkerOwn(w)' BY <2>3, <2>4 DEF WorkerOwn, Job
  <2> QED BY <2>1, <2>2, <2>3, <2>4, <2>5, SameAttemptsOwn, OwnJobsStay
<1>2. CASE /\ Early(w) /\ UNCHANGED <<task, attempts, jobs>>
           /\ \/ \E pc : Went(w, pc)
              \/ \E pc, out : Ended(w, pc, out)
              \/ Moved(w, Resting)
  BY <1>2, IdRows, PlainKeepsOwn
<1>3. CASE /\ Early(w) /\ UNCHANGED <<attempts, jobs>>
           /\ \E pid \in {task.pid, worker[w].job} : Identified(pid)
           /\ Goes(w) \/ \E out : Ended(w, "finish", out)
  <2>1. KeepsIds(w) BY <1>3, IdRows DEF Goes
  <2> QED BY <1>r, <1>3, <2>1, PlainKeepsOwn DEF Identified
<1>4. CASE Moved(w, Resting) /\ UNCHANGED <<task, attempts, jobs>>
  <2>1. KeepsIds(w) BY <1>4, RestingRow DEF Moved, KeepsIds
  <2> QED BY <1>4, <2>1, PlainKeepsOwn
<1>5. CASE TakeAttempt(w)
  <2>1. Early(w) /\ worker[w].run \in Runs /\ UNCHANGED <<task, jobs>>
    BY <1>5, HasRun DEF TakeAttempt, Early, Steps
  <2>2. JobsStay BY <2>1, SameJobsStay
  <2>3. First(w) \/ Again(w) \/ Switched(w, "bill") BY <1>5, TakeMoves
  <2>4. KeepsIds(w) BY <2>1, <2>3, IdRows
  <2>5. AttemptsOwn'
    <3>1. CASE First(w)
      <4>1. /\ AttemptsTyped' /\ Len(attempts'[worker[w].run]) = 1
            /\ attempts'[worker[w].run][1] = NewAttempt
            /\ \A q \in Runs \ {worker[w].run} : attempts'[q] = attempts[q]
        BY <1>0, <2>1, <3>1, FirstTyped DEF First
      <4>2. Len(attempts[worker[w].run]) = 0 BY <3>1 DEF First
      <4>3. /\ Len(attempts'[worker[w].run]) = Len(attempts[worker[w].run]) + 1
            /\ attempts'[worker[w].run][Len(attempts[worker[w].run]) + 1] = NewAttempt
            /\ \A k \in 1..Len(attempts[worker[w].run]) :
                  attempts'[worker[w].run][k] = attempts[worker[w].run][k]
        BY <4>1, <4>2
      <4> QED BY <1>0, <2>1, <2>2, <4>1, <4>3, GrownOwn
    <3>2. CASE Again(w) BY <2>2, <3>2, SameAttemptsOwn DEF Again
    <3>3. CASE Switched(w, "bill") BY <1>0, <2>1, <2>2, <3>3, SwitchOwn DEF Switched
    <3> QED BY <2>3, <3>1, <3>2, <3>3
  <2> QED BY <2>1, <2>2, <2>4, <2>5, TaskOwn, KeepsOwn, OwnJobsStay DEF KeepsIds
<1>6. CASE NextRouteAttempt(w)
  <2>1. Early(w) /\ worker[w].run \in Runs /\ UNCHANGED <<task, jobs>>
    BY <1>6, HasRun DEF NextRouteAttempt, Early, Steps
  <2>2. JobsStay BY <2>1, SameJobsStay
  <2>3. CASE Switched(w, "dispatch")
    <3>1. AttemptsOwn' BY <1>0, <2>1, <2>2, <2>3, SwitchOwn DEF Switched
    <3>2. KeepsIds(w) BY <2>1, <2>3, IdRows
    <3> QED BY <2>1, <2>2, <3>1, <3>2, TaskOwn, KeepsOwn, OwnJobsStay DEF KeepsIds
  <2>4. CASE Went(w, "fail") /\ UNCHANGED attempts BY <1>2, <2>1, <2>4
  <2> QED BY <1>6, <2>3, <2>4, NextMoves
<1>7. CASE ResumeAttempt(w)
  <2> DEFINE r == worker[w].run
             n == Len(attempts[r])
             pid == IF worker[w].pid # 0 THEN worker[w].pid ELSE attempts[r][n].pid
             row == [worker[w] EXCEPT !.pc = "bill", !.n = n, !.state = "accepted", !.pid = pid]
             new == [attempts[r][n] EXCEPT !.state = "accepted"]
  <2>1. r \in Runs /\ n \in 1..NumRoutes /\ Moved(w, row) /\ Written(r, n, new)
        /\ attempts[r][n] \in Attempt
    BY <1>7, ResumeAttemptMoves
  <2>2. Early(w) /\ UNCHANGED jobs BY <1>7 DEF ResumeAttempt, Early, Steps
  <2>3. row.pid = pid /\ row.job = worker[w].job /\ row.run = r BY <1>0 DEF WorkerRow
  <2>4. new.pid = attempts[r][n].pid BY <2>1, StateTyped DEF DispatchStates
  <2>5. Job(attempts[r][n].pid, r)
    <3>1. n \in DOMAIN attempts[r]
      <4>1. attempts[r] \in Seq(Attempt) BY <1>0, <2>1 DEF AttemptsTyped
      <4> QED BY <2>1, <4>1
    <3> QED BY <2>1, <3>1 DEF OwnJobs
  <2>6. Job(pid, r) BY <2>2, <2>5 DEF OwnJobs, Job
  <2>7. task'.run = task.run /\ task'.pid \in {task.pid, pid}
    <3>1. task' = [task EXCEPT !.pid = IF worker[w].pid # 0 THEN @ ELSE pid]
      BY <1>7 DEF ResumeAttempt
    <3> HIDE DEF pid
    <3> QED BY <1>0, <3>1 DEF TaskRow
  <2> HIDE DEF row, new, pid, n
  <2>8. JobsStay BY <2>2, SameJobsStay
  <2>9. AttemptsOwn' BY <1>0, <2>1, <2>4, <2>5, <2>8, WrittenOwn
  <2>10. worker'[w] = row /\ \A u \in Workers : u # w => worker'[u] = worker[u] BY <2>1 DEF Moved
  <2>11. WorkerOwn(w)' BY <2>2, <2>3, <2>6, <2>8, <2>10 DEF WorkerOwn, OwnJobs, JobsStay, Job
  <2>12. Job(task.pid, task.run)' BY <1>r, <2>2, <2>6, <2>7, <2>8 DEF OwnJobs, JobsStay, Job
  <2> QED BY <2>8, <2>9, <2>10, <2>11, <2>12, OwnJobsStay
<1>8. CASE MarkRouteAttemptDispatching(w)
  <2> DEFINE r == worker[w].run
             n == worker[w].n
             new == [state |-> "submission_unknown", pid |-> 0]
             row == [worker[w] EXCEPT !.pc = "call", !.state = "submission_unknown"]
  <2>1. Early(w) /\ r \in Runs /\ UNCHANGED <<task, jobs>>
    BY <1>8, HasRun DEF MarkRouteAttemptDispatching, Early, Steps
  <2>2. CASE Written(r, n, new) /\ Moved(w, row)
    <3>1. row.pid = worker[w].pid /\ row.job = worker[w].job /\ row.run = r BY <1>0 DEF WorkerRow
    <3>3. Job(new.pid, r) BY DEF Job
    <3> HIDE DEF row, new, n
    <3>4. KeepsIds(w) BY <2>1, <2>2, <3>1 DEF Moved, KeepsIds
    <3>5. JobsStay BY <2>1, SameJobsStay
    <3>6. AttemptsOwn' BY <1>0, <2>1, <2>2, <3>3, <3>5, WrittenOwn
    <3> QED BY <2>1, <3>4, <3>5, <3>6, TaskOwn, KeepsOwn, OwnJobsStay DEF KeepsIds
  <2>3. CASE UNCHANGED attempts /\ Went(w, "call") BY <1>2, <2>1, <2>3
  <2> QED BY <1>8, <2>2, <2>3, DispatchMoves
<1>9. CASE Submit(w)
  <2> DEFINE row == [worker[w] EXCEPT !.pc = "answer", !.job = Len(jobs) + 1]
  <2>1. /\ Moved(w, row) /\ Len(jobs') = Len(jobs) + 1 /\ Len(jobs) \in Nat
        /\ jobs'[Len(jobs) + 1].run = worker[w].run
        /\ \A j \in 1..Len(jobs) : jobs'[j] = jobs[j]
    BY <1>9, SubmitMoves
  <2>2. DOMAIN jobs = 1..Len(jobs) /\ DOMAIN jobs' = 1..Len(jobs')
    BY <1>9, SubmitMoves, JobsDomain
  <2>3. JobsStay BY <2>1, <2>2 DEF JobsStay
  <2>4. Early(w) /\ UNCHANGED <<task, attempts>> BY <1>9 DEF Submit, Early, Steps
  <2>5. row.pid = worker[w].pid /\ row.job = Len(jobs) + 1 /\ row.run = worker[w].run
    BY <1>0 DEF WorkerRow
  <2> HIDE DEF row
  <2>6. worker'[w] = row /\ \A u \in Workers : u # w => worker'[u] = worker[u] BY <2>1 DEF Moved
  <2>7. WorkerOwn(w)'
    BY <2>1, <2>2, <2>3, <2>4, <2>5, <2>6 DEF WorkerOwn, OwnJobs, JobsStay, Job
  <2> QED BY <2>3, <2>4, <2>6, <2>7, TaskOwn, SameAttemptsOwn, OwnJobsStay
<1>10. CASE Resume(w)
  <2> DEFINE row == [worker[w] EXCEPT !.pc = "poll", !.job = worker[w].pid]
  <2>1. Moved(w, row) BY <1>10, ResumeMoves
  <2>2. Early(w) /\ UNCHANGED <<task, attempts, jobs>> BY <1>10 DEF Resume, Early, Steps
  <2>3. row.pid = worker[w].pid /\ row.job = worker[w].pid /\ row.run = worker[w].run
    BY <1>0 DEF WorkerRow
  <2> HIDE DEF row
  <2>4. worker'[w] = row /\ \A u \in Workers : u # w => worker'[u] = worker[u] BY <2>1 DEF Moved
  <2>5. JobsStay BY <2>2, SameJobsStay
  <2>6. WorkerOwn(w)' BY <2>2, <2>3, <2>4, <2>5 DEF WorkerOwn, OwnJobs, JobsStay, Job
  <2> QED BY <2>2, <2>4, <2>5, <2>6, TaskOwn, SameAttemptsOwn, OwnJobsStay
<1>11. CASE FinishRouteAttempt(w)
  <2> DEFINE r == worker[w].run
             n == worker[w].n
             new == [state |-> FoundState(w), pid |-> FoundPid(w)]
             row == [worker[w] EXCEPT !.pc = After(w), !.pid = FoundPid(w),
                                      !.state = IF n = 0 THEN @ ELSE FoundState(w)]
  <2>1. Early(w) /\ r \in Runs /\ UNCHANGED <<task, jobs>>
    BY <1>11, HasRun DEF FinishRouteAttempt, Early, Steps
  <2>2. Moved(w, row) /\ (UNCHANGED attempts \/ Written(r, n, new)) BY <1>11, FinishMoves
  <2>3. row.pid = FoundPid(w) /\ row.job = worker[w].job /\ row.run = r BY <1>0 DEF WorkerRow
  <2>4. new.pid = FoundPid(w) OBVIOUS
  <2>5. Job(FoundPid(w), r) BY <1>r, <2>1 DEF OwnJobs, FoundPid
  <2> HIDE DEF row, new, n
  <2>6. worker'[w] = row /\ \A u \in Workers : u # w => worker'[u] = worker[u] BY <2>2 DEF Moved
  <2>7. JobsStay BY <2>1, SameJobsStay
  <2>8. WorkerOwn(w)' BY <2>1, <2>3, <2>5, <2>6, <2>7 DEF WorkerOwn, OwnJobs, JobsStay, Job
  <2>9. AttemptsOwn' BY <1>0, <2>1, <2>2, <2>4, <2>5, <2>7, WrittenOwn, SameAttemptsOwn
  <2> QED BY <2>1, <2>6, <2>7, <2>8, <2>9, TaskOwn, OwnJobsStay
<1>12. CASE SaveTaskCompletion(w)
  <2>1. Early(w) /\ UNCHANGED <<attempts, jobs>> BY <1>12 DEF SaveTaskCompletion, Early, Steps
  <2>2. task'.run = worker[w].run /\ task'.pid = worker[w].pid BY <1>12 DEF SaveTaskCompletion
  <2>3. JobsStay BY <2>1, SameJobsStay
  <2>4. Job(task.pid, task.run)' BY <2>1, <2>2, <2>3 DEF OwnJobs, JobsStay, Job
  <2>5. KeepsIds(w) BY <1>12, <2>1, SaveMoves, IdRows
  <2> QED BY <2>1, <2>3, <2>4, <2>5, SameAttemptsOwn, KeepsOwn, OwnJobsStay DEF KeepsIds
<1>13. CASE MarkFailed(w)
  <2>1. Early(w) BY <1>13 DEF MarkFailed, Early, Steps
  <2>2. Went(w, "close") /\ UNCHANGED <<attempts, jobs>> BY <1>13, FailMoves DEF MarkFailed
  <2>3. task'.run = task.run /\ task'.pid = task.pid
    <3>1. CASE task.status = "running" BY <1>0, <1>13, <3>1 DEF MarkFailed, TaskRow
    <3>2. CASE task.status # "running" BY <1>13, <3>2 DEF MarkFailed
    <3> QED BY <3>1, <3>2
  <2> QED BY <2>1, <2>2, <2>3, IdRows, PlainKeepsOwn
<1>31. CASE RenewalFails(w)
  <2> DEFINE row == [worker[w] EXCEPT !.lease = "lost"]
  <2>1. Moved(w, row) BY <1>31, RenewalMoves
  <2>2. row.pid = worker[w].pid /\ row.job = worker[w].job /\ row.run = worker[w].run
    BY <1>0 DEF WorkerRow
  <2>3. Early(w) /\ UNCHANGED <<task, attempts, jobs>> BY <1>31 DEF RenewalFails, Live
  <2> HIDE DEF row
  <2>4. KeepsIds(w) BY <2>1, <2>2, <2>3 DEF Moved, KeepsIds
  <2> QED BY <2>3, <2>4, PlainKeepsOwn
<1>32. CASE BeginFails(w)
  <2> DEFINE r == worker[w].run
             n == Len(attempts[r])
             last == attempts[r][n]
  <2>1. Early(w) /\ r \in Runs /\ UNCHANGED <<attempts, jobs>>
    BY <1>32, HasRun DEF BeginFails, Early, Steps
  <2>2. /\ Ended(w, "fail", "refund")
        /\ UNCHANGED task \/ (attempts[r] # <<>> /\ Identified(last.pid))
    BY <1>32, BeginFailsMoves
  <2>3. CASE UNCHANGED task BY <1>2, <2>1, <2>2, <2>3
  <2>4. CASE attempts[r] # <<>> /\ Identified(last.pid)
    <3>1. n \in DOMAIN attempts[r]
      <4>1. attempts[r] \in Seq(Attempt) BY <1>0, <2>1 DEF AttemptsTyped
      <4> QED BY <2>4, <4>1
    <3>2. Job(last.pid, r) BY <2>1, <3>1 DEF OwnJobs
    <3> HIDE DEF last
    <3>3. JobsStay BY <2>1, SameJobsStay
    <3>4. Job(task.pid, task.run)' BY <1>r, <2>1, <2>4, <3>2, <3>3 DEF Identified, Job, JobsStay
    <3>5. KeepsIds(w) BY <2>1, <2>2, IdRows
    <3> QED BY <2>1, <3>3, <3>4, <3>5, SameAttemptsOwn, KeepsOwn, OwnJobsStay DEF KeepsIds
  <2> QED BY <2>2, <2>3, <2>4
<1>14. CASE DeferRunningTaskForProviderPoll(w)
  <2>1. /\ Moved(w, Resting) /\ task'.run = task.run /\ task'.pid = task.pid
        /\ UNCHANGED <<attempts, jobs>>
    BY <1>14, DeferredTo
  <2>2. KeepsIds(w) BY <2>1, RestingRow DEF Moved, KeepsIds
  <2> QED BY <2>1, <2>2, PlainKeepsOwn
<1>15. CASE AnswerNotLogged(w)
  BY <1>3, <1>15, UnloggedMoves DEF AnswerNotLogged, Early, Steps
<1>16. CASE RecordAnswer(w)
  BY <1>3, <1>16, RecordMoves DEF RecordAnswer, Early, Steps
<1>17. CASE PollEnds(w)
  BY <1>3, <1>17, PollEndsMoves DEF PollEnds, Early, Steps
<1>18. CASE PollFails(w)
  BY <1>3, <1>18, PollFailsMoves DEF PollFails, Early, Steps
<1>19. CASE Crash(w)
  BY <1>4, <1>19, CrashMoves DEF Crash
<1>20. CASE RefuseAttempt(w)
  BY <1>2, <1>20, RefuseMoves DEF RefuseAttempt, Early, Steps
<1>21. CASE BeginDirect(w)
  BY <1>2, <1>21, DirectMoves DEF BeginDirect, Early, Steps
<1>22. CASE MarkBillingRunning(w)
  BY <1>2, <1>22, BillMoves DEF MarkBillingRunning, Early, Steps
<1>23. CASE SubmitFails(w)
  BY <1>2, <1>23, SubmitFailsMoves DEF SubmitFails, Early, Steps
<1>24. CASE AnswerLost(w)
  BY <1>2, <1>24, LostMoves DEF AnswerLost, Early, Steps
<1>25. CASE PollTimesOut(w)
  BY <1>2, <1>25, TimesOutMoves DEF PollTimesOut, Early, Steps
<1>26. CASE PersistResult(w)
  BY <1>2, <1>26, PersistMoves DEF PersistResult, Early, Steps
<1>27. CASE SaveFails(w)
  BY <1>2, <1>27, SaveFailsMoves DEF SaveFails, Early, Steps
<1>28. CASE SettleBilling(w)
  BY <1>4, <1>28, SettleMoves DEF SettleBilling
<1>29. CASE LeaveToSuccessor(w)
  BY <1>4, <1>29, LeaveMoves DEF LeaveToSuccessor
<1>30. CASE CloseBilling(w)
  BY <1>4, <1>30, CloseMoves DEF CloseBilling
<1> QED
  BY <1>0, <1>1, <1>5, <1>6, <1>7, <1>8, <1>9, <1>10, <1>11, <1>12, <1>13, <1>14, <1>15, <1>16,
     <1>17, <1>18, <1>19, <1>20, <1>21, <1>22, <1>23, <1>24, <1>25, <1>26, <1>27, <1>28, <1>29,
     <1>30, <1>31, <1>32 DEF WorkerStep

LEMMA WorkerJobsStay ==
    ASSUME Base, NEW w \in Workers,
           \/ ClaimNextTask(w) \/ WorkerStep(w) \/ RenewalFails(w) \/ BeginFails(w)
           \/ AnswerNotLogged(w) \/ Crash(w)
    PROVE  JobsStay /\ UNCHANGED query
<1> USE DEF others
<1>1. CASE ClaimNextTask(w) \/ RenewalFails(w) \/ BeginFails(w) \/ AnswerNotLogged(w) \/ Crash(w)
  BY <1>1, SameJobsStay DEF ClaimNextTask, RenewalFails, BeginFails, AnswerNotLogged, Crash
<1>2. CASE TakeAttempt(w)
  <2>1. UNCHANGED <<jobs, others>> BY <1>2 DEF TakeAttempt
  <2> QED BY <2>1, SameJobsStay
<1>3. CASE ResumeAttempt(w)
  <2>1. UNCHANGED <<jobs, others>> BY <1>3 DEF ResumeAttempt
  <2> QED BY <2>1, SameJobsStay
<1>4. CASE RefuseAttempt(w) \/ BeginDirect(w) \/ MarkBillingRunning(w) \/ MarkRouteAttemptDispatching(w)
  BY <1>4, SameJobsStay
     DEF RefuseAttempt, BeginDirect, MarkBillingRunning, MarkRouteAttemptDispatching
<1>5. CASE Submit(w)
  <2>1. /\ TypeOK' /\ Len(jobs') = Len(jobs) + 1 /\ Len(jobs) \in Nat
        /\ \A j \in 1..Len(jobs) : jobs'[j] = jobs[j]
    BY <1>5, SubmitMoves DEF Base
  <2>2. DOMAIN jobs = 1..Len(jobs) /\ DOMAIN jobs' = 1..Len(jobs') BY <2>1, JobsDomain DEF Base
  <2>3. JobsStay BY <2>1, <2>2 DEF JobsStay
  <2> QED BY <1>5, <2>3 DEF Submit
<1>6. CASE SubmitFails(w) \/ Resume(w) \/ RecordAnswer(w) \/ AnswerLost(w)
  BY <1>6, SameJobsStay DEF SubmitFails, Resume, RecordAnswer, AnswerLost
<1>7. CASE PollEnds(w) \/ PollFails(w) \/ PollTimesOut(w) \/ FinishRouteAttempt(w) \/ NextRouteAttempt(w)
  BY <1>7, SameJobsStay DEF PollEnds, PollFails, PollTimesOut, FinishRouteAttempt, NextRouteAttempt
<1>8. CASE PersistResult(w) \/ SaveTaskCompletion(w) \/ SaveFails(w) \/ SettleBilling(w)
  BY <1>8, SameJobsStay DEF PersistResult, SaveTaskCompletion, SaveFails, SettleBilling
<1>9. CASE \/ LeaveToSuccessor(w) \/ DeferRunningTaskForProviderPoll(w)
           \/ MarkFailed(w) \/ CloseBilling(w)
  BY <1>9, SameJobsStay DEF LeaveToSuccessor, DeferRunningTaskForProviderPoll, MarkFailed, CloseBilling
<1> QED BY <1>1, <1>2, <1>3, <1>4, <1>5, <1>6, <1>7, <1>8, <1>9 DEF WorkerStep

LEMMA WorkerKeepsAtRun ==
    ASSUME Base, AtRun, NEW w \in Workers,
           \/ ClaimNextTask(w) \/ WorkerStep(w) \/ RenewalFails(w) \/ BeginFails(w)
           \/ AnswerNotLogged(w) \/ Crash(w)
    PROVE  AtRun'
<1> USE DEF Base
<1>0. task \in TaskRow /\ worker[w] \in WorkerRow BY TypedWorker DEF Typed
<1>q. UNCHANGED query BY WorkerJobsStay
<1>s. ASSUME task'.run = task.run, Early(w)' => worker'[w].run = task.run,
             \A u \in Workers : u # w => worker'[u] = worker[u]
      PROVE  AtRun'
  BY <1>q, <1>s DEF AtRun, Early
<1>1. CASE ClaimNextTask(w) BY <1>1, <1>s, ClaimedTo
<1>2. CASE RenewalFails(w)
  <2> DEFINE row == [worker[w] EXCEPT !.lease = "lost"]
  <2>1. Moved(w, row) BY <1>2, RenewalMoves
  <2>2. row.run = worker[w].run BY <1>0 DEF WorkerRow
  <2>3. Early(w) /\ UNCHANGED task BY <1>2 DEF RenewalFails, Live
  <2> HIDE DEF row
  <2> QED BY <1>s, <2>1, <2>2, <2>3 DEF Moved, AtRun
<1>3. CASE SaveTaskCompletion(w)
  <2>1. Early(w) /\ task'.run = worker[w].run BY <1>3 DEF SaveTaskCompletion, Early, Steps
  <2>2. worker'[w].run = worker[w].run /\ \A u \in Workers : u # w => worker'[u] = worker[u]
    BY <1>3, SaveMoves, WentTo
  <2> QED BY <1>s, <2>1, <2>2 DEF AtRun
<1>4. CASE MarkFailed(w)
  <2>1. worker'[w].pc = "close" /\ \A u \in Workers : u # w => worker'[u] = worker[u]
    BY <1>4, FailMoves, WentTo
  <2>2. task'.run = task.run
    <3>1. CASE task.status = "running" BY <1>0, <1>4, <3>1 DEF MarkFailed, TaskRow
    <3>2. CASE task.status # "running" BY <1>4, <3>2 DEF MarkFailed
    <3> QED BY <3>1, <3>2
  <2> QED BY <1>s, <2>1, <2>2 DEF Early
<1>5. CASE DeferRunningTaskForProviderPoll(w)
  BY <1>5, <1>s, DeferredTo, RestingRow DEF Moved, Early, Steps
<1>6. CASE Inner(w)
  <2>1. PICK row \in WorkerRow : Moved(w, row) /\ (row = Resting \/ Inside(w, row))
    BY <1>6 DEF Inner
  <2> QED BY <1>6, <1>s, <2>1, RestingRow DEF Inner, SameTask, Inside, Moved, AtRun, Early, Steps
<1> QED BY <1>1, <1>2, <1>3, <1>4, <1>5, <1>6, InnerSteps

LEMMA OthersKeepOwn ==
    ASSUME Base, AtRun, QueryOwn, OwnJobs, ~outlived',
           \/ LeaseExpires \/ WorkerStalls \/ \E w \in Workers : RenewTaskLease(w)
           \/ (\E j \in 1..NumJobs : JobEnds(j)) \/ Retry \/ Query \/ Resolve
    PROVE  AtRun' /\ QueryOwn' /\ OwnJobs'
<1>0. TypeOK /\ Typed /\ task \in TaskRow /\ query \in QueryRow BY Aside DEF Base, Typed
<1>1. ASSUME UNCHANGED <<attempts, worker>>, JobsStay, task'.run = task.run,
             task'.pid = task.pid \/ (query.pc # "none" /\ task'.pid = query.pid),
             query'.pc = "none"
             \/ (query'.run = query.run /\ query'.pid = query.pid /\ query.pc # "none")
      PROVE  AtRun' /\ QueryOwn' /\ OwnJobs'
  <2>1. AtRun' BY <1>1 DEF AtRun, Early
  <2>2. QueryOwn' BY <1>1 DEF QueryOwn, JobsStay, Job
  <2>3. Job(task.pid, task.run)' BY <1>1 DEF AtRun, QueryOwn, OwnJobs, JobsStay, Job
  <2>4. OwnJobs' BY <1>1, <2>3 DEF OwnJobs, JobsStay, Job, Early
  <2> QED BY <2>1, <2>2, <2>4
<1>2. CASE LeaseExpires \/ WorkerStalls \/ \E w \in Workers : RenewTaskLease(w)
  <2>1. PICK lease \in {"live", "expired"} :
              LeaseStep(lease) /\ (UNCHANGED faults \/ Fault("stall"))
    BY <1>2, LeaseSteps
  <2>2. UNCHANGED <<attempts, jobs, worker, query>> /\ task'.run = task.run /\ task'.pid = task.pid
    BY <1>0, <2>1, LeaseTypes DEF LeaseStep
  <2> QED BY <1>1, <2>2, SameJobsStay
<1>3. CASE \E j \in 1..NumJobs : JobEnds(j)
  <2>1. PICK j : JobEnds(j) BY <1>3
  <2>2. /\ TypeOK' /\ UNCHANGED <<task, attempts, worker, query>> /\ Len(jobs') = Len(jobs)
        /\ \A i \in 1..Len(jobs) : jobs'[i].run = jobs[i].run
    BY <1>0, <2>1, JobTypes DEF others
  <2>3. JobsStay BY <1>0, <2>2, JobsDomain DEF JobsStay
  <2> QED BY <1>1, <2>2, <2>3
<1>4. CASE CheckRetryEligibility
  BY <1>1, <1>4, SameJobsStay DEF CheckRetryEligibility
<1>5. CASE RetryTaskWithBilling
  <2>1. UNCHANGED <<attempts, jobs, worker, query>> /\ JobsStay
    BY <1>5, SameJobsStay DEF RetryTaskWithBilling
  <2>2. CASE task.status = "failed" /\ task.run < NumRuns
    <3>0. /\ task' = [status |-> "queued", run |-> task.run + 1, pid |-> 0,
                      owner |-> NoWorker, lease |-> "none"]
          /\ outlived' = (outlived \/ BusyWithRun)
      BY <1>5, <2>2, Zenon DEF RetryTaskWithBilling
    <3>1. task'.pid = 0 /\ ~BusyWithRun BY <3>0
    <3>2. query'.pc = "none" /\ \A w \in Workers : ~Early(w)'
      BY <2>1, <3>1 DEF BusyWithRun, Early
    <3>3. AtRun' /\ QueryOwn' BY <3>2 DEF AtRun, QueryOwn
    <3>4. OwnJobs' BY <2>1, <3>1, <3>2 DEF OwnJobs, JobsStay, Job
    <3> QED BY <3>3, <3>4
  <2>3. CASE ~(task.status = "failed" /\ task.run < NumRuns)
    BY <1>1, <1>5, <2>1, <2>3 DEF RetryTaskWithBilling
  <2> QED BY <2>2, <2>3
<1>6. CASE BeginQuery
  <2>1. /\ UNCHANGED <<task, attempts, jobs, worker>> /\ JobsStay
        /\ query'.run = task.run /\ query'.pid = task.pid
    BY <1>0, <1>6, BeginQueryTypes, SameJobsStay DEF BeginQuery
  <2> QED BY <2>1 DEF AtRun, QueryOwn, OwnJobs, JobsStay, Job, Early
<1>7. CASE ClaimFailedTaskProviderRecovery
  <2>1. UNCHANGED <<attempts, jobs, worker>> /\ query.pc = "claim"
    BY <1>7 DEF ClaimFailedTaskProviderRecovery
  <2>2. task'.run = task.run /\ task'.pid = query.pid
    BY <1>0, <1>7, ClaimRecoveryTypes DEF Identified
  <2>3. query'.pc = "none" \/ (query'.run = query.run /\ query'.pid = query.pid)
    BY <1>0, <1>7, QueryMoves DEF ClaimFailedTaskProviderRecovery, QueryGoto, QueryRow
  <2> QED BY <1>1, <2>1, <2>2, <2>3, SameJobsStay
<1>8. CASE QueryUpstream
  <2>1. UNCHANGED <<attempts, jobs, worker>> /\ query.pc = "query" BY <1>8 DEF QueryUpstream
  <2>2. task'.run = task.run /\ task'.pid = query.pid BY <1>0, <1>8, UpstreamTypes DEF Identified
  <2>3. query'.pc = "none" \/ (query'.run = query.run /\ query'.pid = query.pid)
    BY <1>0, <1>8, QueryMoves DEF QueryUpstream
  <2> QED BY <1>1, <2>1, <2>2, <2>3, SameJobsStay
<1>9. CASE SaveRecovered
  <2>1. UNCHANGED <<attempts, jobs, worker>> /\ query.pc = "save" BY <1>9 DEF SaveRecovered
  <2>2. query'.pc = "none" \/ (query'.run = query.run /\ query'.pid = query.pid)
    BY <1>0, <1>9, QueryMoves DEF SaveRecovered
  <2>3. query.run = task.run BY <2>1 DEF AtRun
  <2>4. task'.run = task.run /\ task'.pid \in {task.pid, query.pid}
    BY <1>9, <2>3 DEF SaveRecovered
  <2> QED BY <1>1, <2>1, <2>2, <2>4, SameJobsStay
<1>10. CASE SettleRecovered
  <2>1. query'.pc = "none" BY <1>0, <1>10, QueryMoves DEF SettleRecovered
  <2> QED BY <1>1, <1>10, <2>1, SameJobsStay DEF SettleRecovered
<1>11. CASE Resolve
  <2>1. UNCHANGED <<task, attempts, jobs, worker, query>> BY <1>11 DEF Resolve, ResolveBillingOrder
  <2> QED BY <1>1, <2>1, SameJobsStay
<1> QED
  BY <1>2, <1>3, <1>4, <1>5, <1>6, <1>7, <1>8, <1>9, <1>10, <1>11 DEF Retry, Query

LEMMA InitHolds ==
    ASSUME Init
    PROVE  /\ Leases /\ Paid /\ AtRun /\ QueryOwn /\ OwnJobs /\ Doubts
           /\ ~overtaken /\ ~outlived
<1>1. \A w \in Workers : worker[w].pc = "idle" /\ worker[w].run = 0
  BY RestingRow DEF Init
<1>2. \A w \in Workers : ~Early(w) /\ ~Live(w) /\ ~Closing(w)
  BY <1>1 DEF Early, Live, Closing, Steps
<1>3. /\ task.status = "queued" /\ task.run = 1 /\ task.pid = 0 /\ query.pc = "none"
      /\ query.run = 0 /\ retry = "none" /\ resolved = {} /\ 1 \in Runs
  BY BoundsAssumption DEF Init, Runs
<1>4. orders[1] = "reserved" /\ \A r \in Runs : r > 1 => orders[r] = "absent"
  BY <1>3 DEF Init
<1>5. Leases BY <1>1, <1>2, <1>3 DEF Leases
<1>6. Paid BY <1>2, <1>3, <1>4 DEF Paid, Earned, Unfinished
<1>7. AtRun /\ QueryOwn /\ OwnJobs
  <2>1. \A r \in Runs : attempts[r] = << >> BY DEF Init
  <2> QED BY <1>2, <1>3, <2>1 DEF AtRun, QueryOwn, OwnJobs, Job
<1>8. Doubts BY <1>2, <1>3, <1>4 DEF Doubts
<1>9. ~overtaken /\ ~outlived BY DEF Init
<1> QED BY <1>5, <1>6, <1>7, <1>8, <1>9

LEMMA StutterKeeps ==
    ASSUME UNCHANGED vars
    PROVE  /\ Leases => Leases'
           /\ Paid => Paid'
           /\ AtRun /\ QueryOwn /\ OwnJobs => (AtRun /\ QueryOwn /\ OwnJobs)'
           /\ Doubts => Doubts'
<1>1. Leases => Leases' BY DEF Leases, Unstalled, Live, Early, vars, Calm, NoRetry
<1>2. Paid => Paid' BY DEF Paid, Earned, Closing, vars
<1>3. AtRun /\ QueryOwn /\ OwnJobs => (AtRun /\ QueryOwn /\ OwnJobs)'
  BY DEF AtRun, QueryOwn, OwnJobs, Job, Early, vars
<1>4. Doubts => Doubts' BY DEF Doubts, Closing, vars
<1> QED BY <1>1, <1>2, <1>3, <1>4

LEMMA KeepsLeases ==
    ASSUME Base, Leases, Single, [Next]_vars, ~overtaken'
    PROVE  Leases'
<1>1. Unstalled' => Unstalled BY Aging
<1>2. CASE \E w \in Workers :
              \/ ClaimNextTask(w) \/ WorkerStep(w) \/ RenewalFails(w) \/ BeginFails(w)
              \/ AnswerNotLogged(w) \/ Crash(w)
  BY <1>1, <1>2, WorkerKeepsBase, WorkerKeepsLeases
<1>3. CASE \/ LeaseExpires \/ WorkerStalls \/ \E w \in Workers : RenewTaskLease(w)
           \/ (\E j \in 1..NumJobs : JobEnds(j)) \/ Retry \/ Query \/ Resolve
  BY <1>1, <1>3, OthersKeepBase, OthersKeepLeases
<1>4. CASE UNCHANGED vars BY <1>4, StutterKeeps
<1> QED BY <1>2, <1>3, <1>4 DEF Next

LEMMA KeepsBase == Base /\ [Next]_vars => Base'
<1> SUFFICES ASSUME Base, [Next]_vars PROVE Base' OBVIOUS
<1>1. CASE \E w \in Workers :
              \/ ClaimNextTask(w) \/ WorkerStep(w) \/ RenewalFails(w) \/ BeginFails(w)
              \/ AnswerNotLogged(w) \/ Crash(w)
  BY <1>1, WorkerKeepsBase
<1>2. CASE \/ LeaseExpires \/ WorkerStalls \/ \E w \in Workers : RenewTaskLease(w)
           \/ (\E j \in 1..NumJobs : JobEnds(j)) \/ Retry \/ Query \/ Resolve
  BY <1>2, OthersKeepBase
<1>3. CASE UNCHANGED vars BY <1>3, StutterKeepsBase
<1> QED BY <1>1, <1>2, <1>3 DEF Next

(* Only a worker that was held up is overtaken.                            *)
LEMMA OnlyStalled ==
    ASSUME Base, Leases, NEW w \in Workers, ClaimNextTask(w), ~overtaken, overtaken'
    PROVE  ~Unstalled'
<1>1. PICK u \in Workers : Live(u) BY DEF ClaimNextTask
<1>2. Early(u) /\ task.status # "queued" BY <1>1 DEF Leases, Live
<1>3. task.status = "running" /\ task.lease # "live" BY <1>2 DEF ClaimNextTask, Claimable
<1>4. ~Unstalled BY <1>1, <1>3 DEF Leases
<1> QED BY <1>4 DEF Unstalled, ClaimNextTask

LeasesInv == Base /\ (overtaken => ~Unstalled) /\ (overtaken \/ Leases)

LEMMA LeasesHold ==
    ASSUME Single
    PROVE  Spec => []LeasesInv
<1>1. Init => LeasesInv BY InitBase, InitHolds DEF LeasesInv
<1>2. LeasesInv /\ [Next]_vars => LeasesInv'
  <2> SUFFICES ASSUME LeasesInv, [Next]_vars PROVE LeasesInv' OBVIOUS
  <2>1. Base' BY KeepsBase DEF LeasesInv
  <2>2. overtaken' \/ Leases' BY Aging, KeepsLeases DEF LeasesInv
  <2>3. ASSUME overtaken' PROVE ~Unstalled'
    <3>1. CASE overtaken BY <3>1, Aging DEF LeasesInv
    <3>2. CASE ~overtaken
      <4>1. PICK w \in Workers : ClaimNextTask(w) BY <2>3, <3>2, Aging DEF LeasesInv
      <4> QED BY <2>3, <3>2, <4>1, OnlyStalled DEF LeasesInv
    <3> QED BY <3>1, <3>2
  <2> QED BY <2>1, <2>2, <2>3 DEF LeasesInv
<1> QED BY <1>1, <1>2, PTL DEF Spec

QuietInv == Base /\ (overtaken \/ (Leases /\ Paid))

LEMMA QuietHolds ==
    ASSUME Quiet
    PROVE  Spec => []QuietInv
<1>0. Single BY DEF Quiet, Single
<1>1. Init => QuietInv BY InitBase, InitHolds DEF QuietInv
<1>2. QuietInv /\ [Next]_vars => QuietInv'
  <2> SUFFICES ASSUME QuietInv, [Next]_vars PROVE QuietInv' OBVIOUS
  <2>1. Base' BY KeepsBase DEF QuietInv
  <2>2. ASSUME ~overtaken' PROVE Leases' /\ Paid'
    <3>1. Base /\ Leases /\ Paid BY <2>2, Aging DEF QuietInv
    <3>2. Leases' BY <1>0, <2>2, <3>1, KeepsLeases
    <3>3. CASE \E w \in Workers :
                  \/ ClaimNextTask(w) \/ WorkerStep(w) \/ RenewalFails(w) \/ BeginFails(w)
                  \/ AnswerNotLogged(w) \/ Crash(w)
      BY <3>1, <3>2, <3>3, WorkerKeepsPaid
    <3>4. CASE \/ LeaseExpires \/ WorkerStalls \/ \E w \in Workers : RenewTaskLease(w)
               \/ (\E j \in 1..NumJobs : JobEnds(j)) \/ Retry \/ Query \/ Resolve
      BY <3>1, <3>2, <3>4, OthersKeepPaid
    <3>5. CASE UNCHANGED vars BY <3>1, <3>2, <3>5, StutterKeeps
    <3> QED BY <3>3, <3>4, <3>5 DEF Next
  <2> QED BY <2>1, <2>2 DEF QuietInv
<1> QED BY <1>1, <1>2, PTL DEF Spec

(* A user who has the result has not got the credits back for it, until a  *)
(* worker held up past its lease is overtaken, as long as no renewal fails *)
(* while the row is the worker's and nobody queries the provider for a     *)
(* failed task: otherwise a stale worker may refund the run it lost.       *)
THEOREM ResultsArePaid ==
    ASSUME Quiet
    PROVE  Spec => []ResultIsPaid
<1>1. QuietInv => ResultIsPaid BY DEF QuietInv, Paid, Earned, ResultIsPaid
<1> QED BY QuietHolds, <1>1, PTL

(* No program step refunds an order once it is doubtful, in the same        *)
(* circumstances and when no answer fails to be logged.                     *)
THEOREM DoubtfulIsReviewed ==
    ASSUME Quiet, Logging
    PROVE  Spec => UncertainIsReviewed
<1> DEFINE Reviewed == overtaken \/ Doubts
           Refunds == \A r \in Runs :
              orders[r] = "uncertain" /\ orders'[r] = "refunded" => r \in resolved' \/ overtaken
<1>1. Init => Reviewed BY InitHolds
<1>2. QuietInv /\ Reviewed /\ [Next]_vars => Reviewed'
  <2> SUFFICES ASSUME QuietInv, Reviewed, [Next]_vars, ~overtaken' PROVE Doubts' OBVIOUS
  <2>0. Base /\ Leases /\ Paid /\ Doubts BY Aging DEF QuietInv
  <2>1. CASE \E w \in Workers :
                \/ ClaimNextTask(w) \/ WorkerStep(w) \/ RenewalFails(w) \/ BeginFails(w)
                \/ AnswerNotLogged(w) \/ Crash(w)
    BY <2>0, <2>1, WorkerKeepsDoubts
  <2>2. CASE \/ LeaseExpires \/ WorkerStalls \/ \E w \in Workers : RenewTaskLease(w)
             \/ (\E j \in 1..NumJobs : JobEnds(j)) \/ Retry \/ Query \/ Resolve
    BY <2>0, <2>2, OthersKeepDoubts
  <2>3. CASE UNCHANGED vars BY <2>0, <2>3, StutterKeeps
  <2> QED BY <2>1, <2>2, <2>3 DEF Next
<1>3. QuietInv /\ Reviewed /\ [Next]_vars => [Refunds]_vars
  <2> SUFFICES ASSUME QuietInv, Reviewed, [Next]_vars, ~overtaken PROVE Refunds OBVIOUS
  <2> QED BY OnlyResolvedRefunds DEF QuietInv
<1>4. Spec => [][Refunds]_vars
  <2> HIDE DEF Reviewed, Refunds
  <2> QED BY QuietHolds, <1>1, <1>2, <1>3, PTL DEF Spec
<1> QED BY <1>4 DEF UncertainIsReviewed

OwnInv == Base /\ (outlived \/ (AtRun /\ QueryOwn /\ OwnJobs))

(* The id saved with a result is that of a job the same run submitted,      *)
(* whatever fails and whoever is overtaken, until a retry starts while      *)
(* someone is still at the run before: the late answer of that one is       *)
(* written by the task's id alone.                                          *)
THEOREM ResultsAreOwn == Spec => []ResultOfOwnJob
<1>1. Init => OwnInv BY InitBase, InitHolds DEF OwnInv
<1>2. OwnInv /\ [Next]_vars => OwnInv'
  <2> SUFFICES ASSUME OwnInv, [Next]_vars PROVE OwnInv' OBVIOUS
  <2>1. Base' BY KeepsBase DEF OwnInv
  <2>2. ASSUME ~outlived' PROVE AtRun' /\ QueryOwn' /\ OwnJobs'
    <3>1. Base /\ AtRun /\ QueryOwn /\ OwnJobs BY <2>2, Aging DEF OwnInv
    <3>2. CASE \E w \in Workers :
                  \/ ClaimNextTask(w) \/ WorkerStep(w) \/ RenewalFails(w) \/ BeginFails(w)
                  \/ AnswerNotLogged(w) \/ Crash(w)
      <4>1. AtRun' /\ OwnJobs' BY <3>1, <3>2, WorkerKeepsAtRun, WorkerKeepsOwnJobs
      <4>2. JobsStay /\ UNCHANGED query BY <3>1, <3>2, WorkerJobsStay
      <4>3. QueryOwn' BY <3>1, <4>2 DEF QueryOwn, Job, JobsStay
      <4> QED BY <4>1, <4>3
    <3>3. CASE \/ LeaseExpires \/ WorkerStalls \/ \E w \in Workers : RenewTaskLease(w)
               \/ (\E j \in 1..NumJobs : JobEnds(j)) \/ Retry \/ Query \/ Resolve
      BY <2>2, <3>1, <3>3, OthersKeepOwn
    <3>4. CASE UNCHANGED vars BY <3>1, <3>4, StutterKeeps
    <3> QED BY <3>2, <3>3, <3>4 DEF Next
  <2> QED BY <2>1, <2>2 DEF OwnInv
<1>3. OwnInv => ResultOfOwnJob BY DEF OwnInv, OwnJobs, Job, ResultOfOwnJob
<1> QED BY <1>1, <1>2, <1>3, PTL DEF Spec

-----------------------------------------------------------------------------
(* A run is sent to the provider once.                                     *)
JobRuns == DOMAIN jobs' = DOMAIN jobs /\ \A j \in DOMAIN jobs : jobs'[j].run = jobs[j].run
TaskKept ==
    /\ task'.run = task.run
    /\ task.pid # 0 => task'.pid # 0
    /\ task'.status # "succeeded" => task.status # "succeeded"

(* A worker that has moved on and may submit no more than it might before. *)
Fit(w) ==
    /\ Steady(w)' /\ (Fresh(w)' => Fresh(w) /\ Sendable(w)')
    /\ Spent(w)' /\ worker'[w].n = Len(attempts[task.run]) =>
          /\ ~HasJob /\ Newest.state # "not_sent"
          /\ \A u \in Workers : u # w => ~Fresh(u)

LEMMA SendsKept ==
    ASSUME Sends, UNCHANGED <<kind, attempts>>, JobRuns, TaskKept,
           \A w \in Workers : worker'[w] = worker[w] \/ Fit(w)
    PROVE  Sends'
<1>1. (HasJob' <=> HasJob) /\ Newest' = Newest /\ Len(attempts'[task'.run]) = Len(attempts[task.run])
  BY DEF HasJob, Newest, JobRuns, TaskKept
<1>2. OneJob' BY DEF Sends, OneJob, JobRuns
<1>3. Future' BY DEF Sends, Future, JobRuns, TaskKept
<1>4. Recorded' BY <1>1 DEF Sends, Recorded, TaskKept
<1>5. \A u \in Workers : Fresh(u)' => Fresh(u)
  BY DEF Fit, Fresh, Live, Early, Resumed
<1>6. ASSUME NEW u \in Workers PROVE Steady(u)'
  BY <1>1, <1>6 DEF Sends, Fit, Steady, Early, TaskKept
<1>7. ASSUME NEW u \in Workers, Fresh(u)' PROVE Sendable(u)'
  <2>1. CASE Fit(u) BY <1>7, <2>1 DEF Fit
  <2>2. CASE worker'[u] = worker[u]
    BY <1>1, <1>5, <1>7, <2>2 DEF Sends, Sendable
  <2> QED BY <2>1, <2>2
<1>8. ASSUME NEW u \in Workers, Spent(u)', worker'[u].n = Len(attempts'[task'.run]) PROVE Unsent'
  <2>1. CASE Fit(u)
    <3>1. ~HasJob /\ Newest.state # "not_sent" /\ \A v \in Workers : v # u => ~Fresh(v)
      BY <1>1, <1>8, <2>1 DEF Fit
    <3>2. ~Fresh(u)' BY <1>8 DEF Fresh, Spent
    <3> QED BY <1>1, <1>5, <3>1, <3>2 DEF Unsent
  <2>2. CASE worker'[u] = worker[u]
    <3>1. Spent(u) BY <1>8, <2>2 DEF Spent, TaskKept
    <3>2. Unsent BY <1>1, <1>8, <2>2, <3>1 DEF Sends
    <3> QED BY <1>1, <1>5, <3>2 DEF Unsent
  <2> QED BY <2>1, <2>2
<1> QED BY <1>2, <1>3, <1>4, <1>6, <1>7, <1>8 DEF Sends

(* Where no worker is before its end there is nothing else to see to.      *)
LEMMA NobodyEarly ==
    ASSUME \A w \in Workers : ~Early(w)', OneJob', Future', Recorded'
    PROVE  Sends'
BY DEF Sends, Steady, Fresh, Live, Spent, Early, Steps

(* The newest attempt of the run is a new one.                             *)
LEMMA Extended ==
    ASSUME TypeOK, Sends, UNCHANGED <<kind, task, jobs>>, NEW w \in Workers, Early(w),
           \A u \in Workers : u # w => worker'[u] = worker[u],
           ~HasJob, \A u \in Workers : ~Fresh(u),
           Len(attempts'[task.run]) = Len(attempts[task.run]) + 1,
           attempts'[task.run][Len(attempts[task.run]) + 1] = NewAttempt,
           \A q \in Runs \ {task.run} : attempts'[q] = attempts[q],
           worker'[w].pc \in {"bill", "dispatch"}, worker'[w].state = "not_sent",
           worker'[w].n = Len(attempts[task.run]) + 1
    PROVE  Sends'
<1> DEFINE r == task.run
           k == Len(attempts[r])
<1>1. task \in TaskRow /\ AttemptsTyped BY TypedWorker DEF Typed
<1>2. r \in Runs /\ r \in Nat /\ k \in Nat /\ \A q \in Runs : q > r => q # r
  BY <1>1, BoundsAssumption DEF TaskRow, AttemptsTyped, Runs
<1>3. ~HasJob' /\ Newest'.state = "not_sent" BY DEF HasJob, Newest, NewAttempt
<1>4. OneJob' BY DEF Sends, OneJob
<1>5. Future' BY <1>2 DEF Sends, Future
<1>6. Recorded' BY <1>3 DEF Recorded
<1>7. ASSUME NEW u \in Workers PROVE Steady(u)'
  <2>1. CASE u = w BY <1>2, <2>1 DEF Steady
  <2>2. CASE u # w
    <3>1. worker[u].n \in Nat BY BoundsAssumption DEF TypeOK
    <3>2. Steady(u) BY DEF Sends
    <3> HIDE DEF k, r
    <3>3. Early(u)' => worker'[u].n <= k + 1 BY <1>2, <2>2, <3>1, <3>2 DEF Steady, Early, k, r
    <3> QED BY <2>2, <3>2, <3>3 DEF Steady, Early, k, r
  <2> QED BY <2>1, <2>2
<1>8. ASSUME NEW u \in Workers, Fresh(u)' PROVE Sendable(u)'
  <2>1. u = w BY <1>8 DEF Fresh, Live, Early, Resumed
  <2> QED BY <1>3, <2>1 DEF Sendable
<1>9. ASSUME NEW u \in Workers, Spent(u)', worker'[u].n = Len(attempts'[r]) PROVE FALSE
  <2>1. u # w BY <1>9 DEF Spent
  <2>2. Early(u) BY <1>9, <2>1 DEF Spent, Early, Steps
  <2>3. worker[u].n <= k /\ worker[u].n \in Nat BY <2>2, BoundsAssumption DEF Sends, Steady, TypeOK
  <2> QED BY <1>2, <1>9, <2>1, <2>3
<1> QED BY <1>4, <1>5, <1>6, <1>7, <1>8, <1>9 DEF Sends

(* An attempt of the run is written over.                                  *)
LEMMA Rewritten ==
    ASSUME TypeOK, Sends, UNCHANGED <<kind, jobs>>, TaskKept, NEW w \in Workers,
           \A u \in Workers : u # w => worker'[u] = worker[u],
           NEW n, NEW row, Written(task.run, n, row), row.state # "not_sent",
           n = Len(attempts[task.run]) =>
              /\ HasJob => row.state \in {"submission_unknown", "accepted"}
              /\ row.state = "rejected_no_job" => \A u \in Workers : u # w => ~Fresh(u),
           Steady(w)', Fresh(w)' => Fresh(w) /\ Sendable(w)',
           Spent(w)' => /\ worker'[w].n = n
                        /\ n = Len(attempts[task.run]) =>
                              n # 0 /\ ~HasJob /\ \A u \in Workers : u # w => ~Fresh(u)
    PROVE  Sends'
<1> DEFINE r == task.run
           k == Len(attempts[r])
<1>1. task \in TaskRow /\ AttemptsTyped BY TypedWorker DEF Typed
<1>2. /\ r \in Runs /\ r \in Nat /\ k \in Nat /\ \A q \in Runs : q > r => q # r
      /\ attempts[r] \in Seq(Attempt) /\ attempts'[r] \in Seq(Attempt)
      /\ task'.run = r /\ Len(attempts'[r]) = k
  BY <1>1, BoundsAssumption DEF TaskRow, AttemptsTyped, Runs, Written, TaskKept
<1>3. HasJob' <=> HasJob BY DEF HasJob, TaskKept
<1>4. k # 0 => /\ n = k => Newest' = row
               /\ n # k => Newest' = Newest
  BY <1>2 DEF Newest, Written
<1>5. OneJob' BY DEF Sends, OneJob
<1>6. Future'
  BY <1>2 DEF Sends, Future, Written, TaskKept
<1>7. Recorded'
  <2> SUFFICES ASSUME HasJob', task'.status # "succeeded" \/ NoRetry
               PROVE  attempts'[task'.run] # <<>> /\ Newest'.state \in {"submission_unknown", "accepted"}
    BY DEF Recorded
  <2>1. attempts[r] # <<>> /\ Newest.state \in {"submission_unknown", "accepted"} /\ HasJob
    BY <1>3 DEF Sends, Recorded, TaskKept
  <2>2. k # 0 BY <1>2, <2>1
  <2>3. attempts'[r] # <<>> BY <1>2, <2>2
  <2> QED BY <1>2, <1>4, <2>1, <2>2, <2>3
<1>8. \A u \in Workers : Fresh(u)' => Fresh(u) BY DEF Fresh, Live, Early, Resumed
<1>9. ASSUME NEW u \in Workers PROVE Steady(u)'
  BY <1>2 DEF Sends, Steady, Early, TaskKept
<1>10. ASSUME NEW u \in Workers, Fresh(u)' PROVE Sendable(u)'
  <2>1. CASE u = w BY <1>10, <2>1
  <2>2. CASE u # w
    <3>1. Fresh(u) /\ Sendable(u) /\ Steady(u) BY <1>8, <1>10 DEF Sends
    <3>2. worker[u].n = k /\ worker[u].n # 0
      BY <3>1 DEF Sendable, Steady, Fresh
    <3>3. n = k => row.state # "rejected_no_job" BY <2>2, <3>1
    <3>4. Newest'.state # "rejected_no_job" BY <1>4, <3>1, <3>2, <3>3 DEF Sendable
    <3>5. worker[u].pc = "call" => Newest'.state # "not_sent" BY <1>4, <3>1, <3>2 DEF Sendable
    <3> QED BY <1>2, <1>3, <2>2, <3>1, <3>4, <3>5 DEF Sendable
  <2> QED BY <2>1, <2>2
<1>11. ASSUME NEW u \in Workers, Spent(u)', worker'[u].n = k PROVE Unsent'
  <2>1. CASE u = w
    <3>1. n = k /\ k # 0 /\ ~HasJob /\ \A v \in Workers : v # w => ~Fresh(v) BY <1>11, <2>1
    <3>2. ~Fresh(w)' BY <1>11, <2>1 DEF Fresh, Spent
    <3>3. Newest'.state # "not_sent" BY <1>4, <3>1
    <3> QED BY <1>3, <1>8, <3>1, <3>2, <3>3 DEF Unsent
  <2>2. CASE u # w
    <3>1. Spent(u) BY <1>11, <2>2 DEF Spent, TaskKept
    <3>2. Unsent BY <1>11, <2>2, <3>1 DEF Sends
    <3>3. k # 0
      <4>1. worker[u].n # 0 BY <3>1 DEF Sends, Steady, Spent
      <4> QED BY <1>11, <2>2, <4>1
    <3>4. Newest'.state # "not_sent" BY <1>4, <3>2, <3>3 DEF Unsent
    <3> QED BY <1>3, <1>8, <3>2, <3>4 DEF Unsent
  <2> QED BY <2>1, <2>2
<1> QED BY <1>2, <1>5, <1>6, <1>7, <1>9, <1>10, <1>11 DEF Sends

(* Every field of the rows that Went and Ended leave.                      *)
LEMMA WentFields ==
    ASSUME TypeOK, NEW w \in Workers, NEW pc, Went(w, pc)
    PROVE  /\ worker'[w].pc = pc /\ worker'[w].run = worker[w].run /\ worker'[w].n = worker[w].n
           /\ worker'[w].state = worker[w].state /\ worker'[w].pid = worker[w].pid
           /\ worker'[w].job = worker[w].job /\ worker'[w].out = worker[w].out
           /\ worker'[w].lease = worker[w].lease
           /\ \A u \in Workers : u # w => worker'[u] = worker[u]
<1>1. worker[w] \in WorkerRow BY TypedWorker
<1>2. worker'[w] = [worker[w] EXCEPT !.pc = pc] BY DEF Went, Moved
<1> QED BY <1>1, <1>2 DEF WorkerRow, Went, Moved

LEMMA EndedFields ==
    ASSUME TypeOK, NEW w \in Workers, NEW pc, NEW out, Ended(w, pc, out)
    PROVE  /\ worker'[w].pc = pc /\ worker'[w].run = worker[w].run /\ worker'[w].n = worker[w].n
           /\ worker'[w].state = worker[w].state /\ worker'[w].pid = worker[w].pid
           /\ worker'[w].job = worker[w].job /\ worker'[w].out = out
           /\ worker'[w].lease = worker[w].lease
           /\ \A u \in Workers : u # w => worker'[u] = worker[u]
<1>1. worker[w] \in WorkerRow BY TypedWorker
<1>2. worker'[w] = [worker[w] EXCEPT !.pc = pc, !.out = out] BY DEF Ended, Moved
<1> QED BY <1>1, <1>2 DEF WorkerRow, Ended, Moved

(* A step that only moves its worker on, to where nothing is sent.         *)
LEMMA RestKeepsSends ==
    ASSUME Sends, UNCHANGED <<kind, attempts, jobs>>, TaskKept, NEW w \in Workers,
           \A u \in Workers : u # w => worker'[u] = worker[u],
           Fit(w)
    PROVE  Sends'
BY SendsKept DEF JobRuns

Quits(w) ==
    /\ worker'[w].pc \in {"idle", "begin", "fail", "settle", "close"}
    /\ Early(w)' => \/ Early(w) /\ worker'[w].n = worker[w].n
                    \/ worker'[w].n <= Len(attempts[task.run])
LEMMA QuitsFits ==
    ASSUME Sends, UNCHANGED attempts, TaskKept, NEW w \in Workers, Quits(w)
    PROVE  Fit(w)
BY DEF Sends, Fit, Quits, Steady, Fresh, Spent, Early, TaskKept

(* While a worker is at it the row says what it did.                       *)
LEMMA Going ==
    ASSUME Leases, Single, NEW w \in Workers, Early(w)
    PROVE  (task.status # "succeeded" \/ NoRetry) /\ worker[w].run = task.run
BY DEF Leases, Single

LEMMA TakeKeepsSends ==
    ASSUME Base, Leases, Sends, Single, NEW w \in Workers, TakeAttempt(w)
    PROVE  Sends'
<1> DEFINE r == task.run
           k == Len(attempts[r])
<1>0. /\ TypeOK /\ Named /\ Early(w) /\ worker[w].run = r /\ UNCHANGED <<kind, task, jobs>>
      /\ task.status # "succeeded" \/ NoRetry
  BY Going DEF Base, TakeAttempt, Early, Steps, others
<1>1. r \in Runs /\ attempts[r] \in Seq(Attempt) /\ k \in Nat /\ AttemptsTyped
  BY <1>0, TypedWorker DEF Typed, TaskRow, AttemptsTyped
<1>2. worker[w] \in WorkerRow BY <1>0, TypedWorker
<1>3. CASE First(w)
  <2>1. k = 0 BY <1>0, <1>3 DEF First
  <2>2. ~HasJob BY <1>0, <1>3 DEF Sends, Recorded, First
  <2>3. \A u \in Workers : ~Fresh(u)
    <3> SUFFICES ASSUME NEW u \in Workers, Fresh(u) PROVE FALSE OBVIOUS
    <3>1. worker[u].n # 0 /\ worker[u].n <= 0 /\ worker[u].n \in Nat
      BY <1>0, <2>1, BoundsAssumption DEF Sends, Steady, Fresh, Live, TypeOK
    <3> QED BY <3>1
  <2>4. worker'[w] = [worker[w] EXCEPT !.pc = "bill", !.n = 1, !.state = "not_sent"]
        /\ \A u \in Workers : u # w => worker'[u] = worker[u]
    BY <1>3 DEF First, Moved
  <2>5. worker'[w].pc = "bill" /\ worker'[w].n = 1 /\ worker'[w].state = "not_sent"
    BY <1>2, <2>4 DEF WorkerRow
  <2>6. /\ Len(attempts'[r]) = 1 /\ attempts'[r][1] = NewAttempt
        /\ \A q \in Runs \ {r} : attempts'[q] = attempts[q]
    BY <1>0, <1>1, <1>3, FirstTyped DEF First
  <2> HIDE DEF r, k
  <2>7. /\ k + 1 = 1 /\ Len(attempts'[r]) = k + 1 /\ attempts'[r][k + 1] = NewAttempt
        /\ worker'[w].n = k + 1
    BY <2>1, <2>5, <2>6
  <2> QED BY <1>0, <2>2, <2>3, <2>4, <2>5, <2>6, <2>7, Extended DEF r, k
<1>4. CASE Again(w)
  <2>1. worker'[w] = [worker[w] EXCEPT !.pc = "bill", !.n = k, !.state = "not_sent"]
        /\ \A u \in Workers : u # w => worker'[u] = worker[u]
    BY <1>0, <1>4 DEF Again, Moved
  <2>2. worker'[w].pc = "bill" /\ worker'[w].n = k /\ worker'[w].state = "not_sent"
    BY <1>2, <2>1 DEF WorkerRow
  <2>3. attempts[r] # <<>> /\ Newest.state = "not_sent" /\ attempts' = attempts
    BY <1>0, <1>4 DEF Again, Newest
  <2>4. k # 0 BY <1>1, <2>3
  <2>5. ~HasJob BY <1>0, <2>3 DEF Sends, Recorded
  <2>6. Newest' = Newest /\ ~HasJob' /\ k' = k BY <1>0, <2>3, <2>5 DEF Newest, HasJob
  <2>7. OneJob' /\ Future' /\ Recorded'
    BY <1>0, <2>3, <2>6 DEF Sends, OneJob, Future, Recorded
  <2>8. ASSUME NEW u \in Workers PROVE Steady(u)'
    <3>1. CASE u = w BY <1>1, <2>2, <2>3, <2>4, <2>6, <3>1 DEF Steady
    <3>2. CASE u # w BY <1>0, <2>1, <2>3, <3>2 DEF Sends, Steady, Early
    <3> QED BY <3>1, <3>2
  <2>9. ASSUME NEW u \in Workers, Fresh(u)' PROVE Sendable(u)'
    <3>1. CASE u = w BY <2>2, <2>3, <2>6, <3>1 DEF Sendable
    <3>2. CASE u # w
      <4>1. Fresh(u) BY <1>0, <2>1, <2>9, <3>2 DEF Fresh, Live, Early, Resumed
      <4> QED BY <2>1, <2>6, <3>2, <4>1 DEF Sends, Sendable
    <3> QED BY <3>1, <3>2
  <2>10. ASSUME NEW u \in Workers, Spent(u)', worker'[u].n = k' PROVE FALSE
    <3>1. u # w BY <2>2, <2>10 DEF Spent
    <3>2. Spent(u) /\ worker[u].n = k BY <1>0, <2>1, <2>6, <2>10, <3>1 DEF Spent
    <3> QED BY <2>3, <3>2 DEF Sends, Unsent
  <2> QED BY <2>7, <2>8, <2>9, <2>10 DEF Sends
<1>5. CASE Refused(w) /\ Switched(w, "bill")
  <2>1. Newest.state = "rejected_no_job" BY <1>0, <1>5 DEF Refused, Newest
  <2>2. ~HasJob BY <1>0, <2>1 DEF Sends, Recorded
  <2>3. \A u \in Workers : ~Fresh(u) BY <2>1 DEF Sends, Sendable
  <2>4. /\ worker'[w] = [worker[w] EXCEPT !.pc = "bill", !.n = k + 1, !.state = "not_sent",
                                          !.pid = 0, !.job = 0, !.out = "none"]
        /\ \A u \in Workers : u # w => worker'[u] = worker[u]
    BY <1>0, <1>5 DEF Switched, Moved
  <2>5. worker'[w].pc = "bill" /\ worker'[w].n = k + 1 /\ worker'[w].state = "not_sent"
    BY <1>2, <2>4 DEF WorkerRow
  <2>6. /\ Len(attempts'[r]) = k + 1 /\ attempts'[r][k + 1] = NewAttempt
        /\ \A q \in Runs \ {r} : attempts'[q] = attempts[q]
    BY <1>0, <1>1, <1>5, TypedWorker, SwitchTyped DEF Switched
  <2> QED BY <1>0, <2>2, <2>3, <2>4, <2>5, <2>6, Extended
<1> QED BY <1>0, <1>3, <1>4, <1>5, TakeMoves

LEMMA NextKeepsSends ==
    ASSUME Base, Leases, Sends, Single, NEW w \in Workers, NextRouteAttempt(w)
    PROVE  Sends'
<1> DEFINE r == task.run
           k == Len(attempts[r])
<1>0. /\ TypeOK /\ Named /\ Early(w) /\ worker[w].run = r /\ UNCHANGED <<kind, task, jobs>>
      /\ worker[w].pc = "next"
  BY Going DEF Base, NextRouteAttempt, Early, Steps, others
<1>1. r \in Runs /\ k \in Nat BY <1>0, TypedWorker DEF Typed, TaskRow, AttemptsTyped
<1>2. worker[w] \in WorkerRow BY <1>0, TypedWorker
<1>3. CASE Switched(w, "dispatch")
  <2>1. worker[w].n = k BY <1>0, <1>3 DEF Switched, SwitchRoute
  <2>2. Unsent BY <1>0, <2>1 DEF Sends, Spent
  <2>4. /\ worker'[w] = [worker[w] EXCEPT !.pc = "dispatch", !.n = k + 1, !.state = "not_sent",
                                          !.pid = 0, !.job = 0, !.out = "none"]
        /\ \A u \in Workers : u # w => worker'[u] = worker[u]
    BY <1>0, <1>3 DEF Switched, Moved
  <2>5. worker'[w].pc = "dispatch" /\ worker'[w].n = k + 1 /\ worker'[w].state = "not_sent"
    BY <1>2, <2>4 DEF WorkerRow
  <2>6. /\ Len(attempts'[r]) = k + 1 /\ attempts'[r][k + 1] = NewAttempt
        /\ \A q \in Runs \ {r} : attempts'[q] = attempts[q]
    BY <1>0, <1>1, <1>3, TypedWorker, SwitchTyped DEF Switched
  <2> QED BY <1>0, <2>2, <2>4, <2>5, <2>6, Extended DEF Unsent
<1>4. CASE Went(w, "fail") /\ UNCHANGED attempts
  <2>1. Quits(w) /\ \A u \in Workers : u # w => worker'[u] = worker[u]
    BY <1>0, <1>4, WentFields DEF Quits
  <2>2. TaskKept BY <1>0 DEF TaskKept
  <2>3. Fit(w) BY <1>4, <2>1, <2>2, QuitsFits
  <2> QED BY <1>0, <1>4, <2>1, <2>2, <2>3, RestKeepsSends
<1> QED BY <1>0, <1>3, <1>4, NextMoves

LEMMA ResumeAttemptKeepsSends ==
    ASSUME Base, Leases, Sends, Single, Resumable, kind.logical, NEW w \in Workers, ResumeAttempt(w)
    PROVE  Sends'
<1> DEFINE r == worker[w].run
           n == Len(attempts[r])
           pid == IF worker[w].pid # 0 THEN worker[w].pid ELSE attempts[r][n].pid
           row == [attempts[r][n] EXCEPT !.state = "accepted"]
<1>0. /\ TypeOK /\ Named /\ Early(w) /\ r = task.run /\ UNCHANGED <<kind, jobs>>
      /\ worker[w] \in WorkerRow /\ task \in TaskRow /\ kind.resumable
  BY Going, TypedWorker, Aside DEF Base, ResumeAttempt, Early, Steps, others, Typed, Resumable
<1>1. /\ r \in Runs /\ n \in 1..NumRoutes /\ pid # 0 /\ pid \in Pids
      /\ Moved(w, [worker[w] EXCEPT !.pc = "bill", !.n = n, !.state = "accepted", !.pid = pid])
      /\ Written(r, n, row) /\ attempts[r][n] \in Attempt
  <2>1. TypeOK /\ Named BY <1>0
  <2>2. /\ r \in Runs /\ n \in 1..NumRoutes /\ Written(r, n, row) /\ attempts[r][n] \in Attempt
        /\ Moved(w, [worker[w] EXCEPT !.pc = "bill", !.n = n, !.state = "accepted", !.pid = pid])
    BY <2>1, ResumeAttemptMoves, ZenonT(60)
  <2>3. pid # 0 /\ pid \in Pids BY <2>1, ResumeAttemptMoves, ZenonT(60)
  <2> QED BY <2>2, <2>3
<1>2. row.state = "accepted" BY <1>1 DEF Attempt
<1>3. task' = [task EXCEPT !.pid = IF worker[w].pid # 0 THEN @ ELSE pid]
  BY <1>0 DEF ResumeAttempt
<1> HIDE DEF pid, row
<1>4. TaskKept BY <1>0, <1>1, <1>3 DEF TaskKept, TaskRow
<1>5. /\ worker'[w].pc = "bill" /\ worker'[w].n = n /\ worker'[w].pid # 0
      /\ \A u \in Workers : u # w => worker'[u] = worker[u]
  BY <1>0, <1>1 DEF Moved, WorkerRow
<1>6. ~Fresh(w)' /\ ~Spent(w)' BY <1>0, <1>5 DEF Fresh, Resumed, Spent
<1>7. Len(attempts'[task'.run]) = n /\ n \in Nat /\ n # 0
  <2>1. Len(attempts'[task'.run]) = n BY <1>0, <1>1, <1>4 DEF Written, TaskKept
  <2> HIDE DEF n
  <2> QED BY <1>1, <2>1, BoundsAssumption
<1>8. Steady(w)' BY <1>5, <1>7 DEF Steady
<1> QED BY <1>0, <1>1, <1>2, <1>4, <1>5, <1>6, <1>8, Rewritten

LEMMA DispatchKeepsSends ==
    ASSUME Base, Leases, Sends, Single, NEW w \in Workers, MarkRouteAttemptDispatching(w)
    PROVE  Sends'
<1> DEFINE r == worker[w].run
           n == worker[w].n
           row == [state |-> "submission_unknown", pid |-> 0]
<1>0. /\ TypeOK /\ Named /\ Early(w) /\ r = task.run /\ UNCHANGED <<kind, task, jobs>>
      /\ worker[w] \in WorkerRow /\ worker[w].pc = "dispatch"
  BY Going, TypedWorker DEF Base, MarkRouteAttemptDispatching, Early, Steps, others
<1>1. TaskKept BY <1>0 DEF TaskKept
<1>2. Steady(w) /\ (Fresh(w) => Sendable(w)) BY DEF Sends
<1>3. CASE worker[w].state # "not_sent" /\ UNCHANGED attempts /\ Went(w, "call")
  <2>1. /\ worker'[w].pc = "call" /\ worker'[w].n = n /\ worker'[w].pid = worker[w].pid
        /\ worker'[w].lease = worker[w].lease
        /\ \A u \in Workers : u # w => worker'[u] = worker[u]
    BY <1>0, <1>3, WentFields
  <2>2. Fresh(w)' => Fresh(w) BY <1>0, <2>1 DEF Fresh, Live, Resumed
  <2>3. ~Fresh(w)' BY <1>0, <1>2, <1>3, <2>2 DEF Sendable
  <2>4. Steady(w)' BY <1>0, <1>2, <1>3, <2>1 DEF Steady
  <2>5. Fit(w) BY <2>1, <2>3, <2>4 DEF Fit, Spent
  <2> QED BY <1>0, <1>1, <1>3, <2>1, <2>5, RestKeepsSends
<1>4. CASE /\ worker[w].state = "not_sent" /\ Written(r, n, row)
           /\ Moved(w, [worker[w] EXCEPT !.pc = "call", !.state = "submission_unknown"])
  <2>1. n \in 1..Len(attempts[r])
    <3>1. n # 0 /\ n <= Len(attempts[r]) BY <1>0, <1>2 DEF Steady
    <3>2. n \in Nat /\ Len(attempts[r]) \in Nat
      BY <1>0, BoundsAssumption, TypedWorker DEF WorkerRow, Typed, TaskRow, AttemptsTyped
    <3> QED BY <3>1, <3>2
  <2>2. row.state = "submission_unknown" OBVIOUS
  <2>3. /\ worker'[w].pc = "call" /\ worker'[w].n = n /\ worker'[w].pid = worker[w].pid
        /\ worker'[w].lease = worker[w].lease
        /\ \A u \in Workers : u # w => worker'[u] = worker[u]
    BY <1>0, <1>4 DEF Moved, WorkerRow
  <2>4. Fresh(w)' => Fresh(w) BY <1>0, <2>3 DEF Fresh, Live, Early, Resumed
  <2> HIDE DEF row
  <2>5. Len(attempts'[r]) = Len(attempts[r]) /\ attempts'[r][n] = row BY <1>4, <2>1 DEF Written
  <2>6. Steady(w)' BY <1>0, <1>1, <1>2, <2>3, <2>5 DEF Steady, TaskKept
  <2>7. Fresh(w)' => Sendable(w)'
    <3> SUFFICES ASSUME Fresh(w)' PROVE Sendable(w)' OBVIOUS
    <3>1. ~HasJob /\ n = Len(attempts[r]) BY <1>0, <1>2, <2>4 DEF Sendable
    <3>2. Newest' = row BY <1>0, <2>5, <3>1 DEF Newest
    <3>3. ~HasJob' BY <1>0, <3>1 DEF HasJob
    <3> QED BY <1>0, <2>2, <2>3, <2>5, <3>1, <3>2, <3>3 DEF Sendable
  <2>8. ~Spent(w)' BY <2>3 DEF Spent
  <2> QED BY <1>0, <1>1, <1>4, <2>2, <2>3, <2>4, <2>6, <2>7, <2>8, Rewritten
<1>5. TypeOK /\ Named BY <1>0
<1>6. \/ /\ worker[w].state = "not_sent" /\ Written(r, n, row)
         /\ Moved(w, [worker[w] EXCEPT !.pc = "call", !.state = "submission_unknown"])
      \/ worker[w].state # "not_sent" /\ UNCHANGED attempts /\ Went(w, "call")
  BY <1>5, DispatchMoves, Zenon
<1> QED BY <1>3, <1>4, <1>6

LEMMA FinishKeepsSends ==
    ASSUME Base, Leases, Sends, Single, NEW w \in Workers, FinishRouteAttempt(w)
    PROVE  Sends'
<1> DEFINE r == worker[w].run
           n == worker[w].n
           row == [state |-> FoundState(w), pid |-> FoundPid(w)]
<1>0. /\ TypeOK /\ Named /\ Early(w) /\ r = task.run /\ UNCHANGED <<kind, task, jobs>>
      /\ worker[w] \in WorkerRow /\ worker[w].pc = "finish"
  BY Going, TypedWorker DEF Base, FinishRouteAttempt, Early, Steps, others
<1>1. TaskKept BY <1>0 DEF TaskKept
<1>2. Steady(w) /\ n # 0 BY <1>0 DEF Sends, Steady
<1>3. /\ Written(r, n, row)
      /\ Moved(w, [worker[w] EXCEPT !.pc = After(w), !.pid = FoundPid(w),
                                    !.state = IF n = 0 THEN @ ELSE FoundState(w)])
  <2>1. TypeOK /\ Named BY <1>0
  <2>2. n # 0 BY <1>2
  <2>3. Moved(w, [worker[w] EXCEPT !.pc = After(w), !.pid = FoundPid(w),
                                   !.state = IF n = 0 THEN @ ELSE FoundState(w)])
    BY <2>1, FinishMoves, ZenonT(60)
  <2>4. n = 0 \/ Written(r, n, row) BY <2>1, FinishMoves, ZenonT(60)
  <2> QED BY <2>2, <2>3, <2>4
<1>4. /\ worker'[w].pc = After(w) /\ worker'[w].n = n /\ worker'[w].pid = FoundPid(w)
      /\ \A u \in Workers : u # w => worker'[u] = worker[u]
  <2> HIDE DEF n
  <2> QED BY <1>0, <1>3 DEF Moved, WorkerRow, n
<1>5. row.state = FoundState(w) OBVIOUS
<1> HIDE DEF row
<1>6. row.state # "not_sent" BY <1>5 DEF FoundState, Dispatched
<1>7. row.state = "rejected_no_job" => Spent(w) BY <1>0, <1>5 DEF FoundState, FoundPid, Dispatched, Spent
<1>8. row.state \in {"rejected_no_job", "submission_unknown", "accepted"}
  BY <1>5 DEF FoundState, Dispatched
<1>9. Spent(w) /\ n = Len(attempts[r]) => ~HasJob /\ \A u \in Workers : ~Fresh(u)
  BY <1>0 DEF Sends, Unsent
<1>10. worker'[w].pc \in {"persist", "next", "fail"} /\ ~Fresh(w)'
  BY <1>4 DEF After, Fresh
<1>11. Spent(w)' => row.state = "rejected_no_job"
  BY <1>4, <1>5, <1>10 DEF Spent, After
<1>12. Steady(w)'
  <2>1. worker'[w].pc = "persist" => worker'[w].pid # 0
    BY <1>0, <1>2, <1>4 DEF After, Steady, FoundPid
  <2>2. Len(attempts'[task'.run]) = Len(attempts[r]) BY <1>0, <1>3 DEF Written
  <2> QED BY <1>0, <1>2, <1>4, <1>10, <2>1, <2>2 DEF Steady
<1> QED BY <1>0, <1>1, <1>2, <1>3, <1>4, <1>6, <1>7, <1>8, <1>9, <1>10, <1>11, <1>12, Rewritten

LEMMA SubmitKeepsSends ==
    ASSUME Base, Leases, Sends, Single, NEW w \in Workers, Submit(w)
    PROVE  Sends'
<1> DEFINE r == task.run
           k == Len(attempts[r])
           new == Len(jobs) + 1
<1>0. /\ TypeOK /\ Named /\ Early(w) /\ worker[w].run = r /\ UNCHANGED <<kind, task, attempts>>
      /\ worker[w] \in WorkerRow /\ worker[w].pc = "call" /\ Fresh(w)
  BY Going, TypedWorker DEF Base, Submit, Early, Steps, others, Fresh, Live
<1>1. /\ r \in Runs /\ r \in Nat /\ attempts[r] \in Seq(Attempt) /\ k \in Nat
      /\ DOMAIN jobs = 1..Len(jobs)
  BY <1>0, BoundsAssumption, TypedWorker, JobsDomain DEF Typed, TaskRow, AttemptsTyped, Runs
<1>2. Sendable(w) /\ Steady(w) BY <1>0 DEF Sends
<1>3. /\ TypeOK' /\ Moved(w, [worker[w] EXCEPT !.pc = "answer", !.job = new])
      /\ Len(jobs') = new /\ Len(jobs) \in Nat /\ jobs'[new].run = worker[w].run
      /\ \A j \in 1..Len(jobs) : jobs'[j] = jobs[j]
  <2>1. TypeOK /\ Named BY <1>0
  <2> QED BY <2>1, SubmitMoves, ZenonT(60)
<1>4. DOMAIN jobs' = 1..new BY <1>3, JobsDomain
<1>5. new # 0 /\ new \notin 1..Len(jobs) /\ \A j \in 1..new : j # new => j \in 1..Len(jobs)
  BY <1>3
<1>6. /\ worker'[w].pc = "answer" /\ worker'[w].n = worker[w].n /\ worker'[w].job = new
      /\ \A u \in Workers : u # w => worker'[u] = worker[u]
  <2> HIDE DEF new
  <2> QED BY <1>0, <1>3 DEF Moved, WorkerRow
<1> HIDE DEF new
<1>7. k # 0 /\ attempts[r] # <<>> /\ Newest.state \in {"submission_unknown", "accepted"}
  <2>1. k # 0 /\ worker[w].n = k BY <1>0, <1>2 DEF Sendable, Steady
  <2>2. attempts[r] # <<>> /\ k \in 1..Len(attempts[r]) BY <1>1, <2>1
  <2>3. attempts[r][k] \in Attempt BY <1>1, <2>2, Element
  <2> QED BY <1>0, <1>2, <2>1, <2>2, <2>3 DEF Sendable, Newest, Attempt, DispatchStates
<1>8. OneJob'
  BY <1>0, <1>1, <1>2, <1>3, <1>4, <1>5 DEF Sends, OneJob, Sendable, HasJob
<1>9. Future'
  BY <1>0, <1>1, <1>3, <1>4, <1>5 DEF Sends, Future, Runs
<1>10. Recorded' BY <1>0, <1>7 DEF Recorded, Newest
<1>11. ASSUME NEW u \in Workers PROVE Steady(u)'
  <2>1. CASE u = w BY <1>0, <1>2, <1>5, <1>6, <2>1 DEF Steady, Early, Steps
  <2>2. CASE u # w BY <1>0, <1>6, <2>2 DEF Sends, Steady, Early
  <2> QED BY <2>1, <2>2
<1>12. ASSUME NEW u \in Workers PROVE ~Fresh(u)'
  <2>1. CASE u = w BY <1>6, <2>1 DEF Fresh
  <2>2. CASE u # w
    <3>1. Fresh(u)' => Live(u) BY <1>6, <2>2 DEF Fresh, Live, Early
    <3> QED BY <1>0, <2>2, <3>1 DEF Leases, Fresh
  <2> QED BY <2>1, <2>2
<1>13. ASSUME NEW u \in Workers, Spent(u)', worker'[u].n = Len(attempts'[task'.run]) PROVE FALSE
  <2>1. u # w BY <1>6, <1>13 DEF Spent
  <2>2. Spent(u) /\ worker[u].n = k BY <1>0, <1>6, <1>13, <2>1 DEF Spent
  <2> QED BY <1>0, <2>2 DEF Sends, Unsent
<1> QED BY <1>8, <1>9, <1>10, <1>11, <1>12, <1>13 DEF Sends

LEMMA SubmitFailsKeepsSends ==
    ASSUME Base, Leases, Sends, Single, NEW w \in Workers, SubmitFails(w)
    PROVE  Sends'
<1>0. /\ TypeOK /\ Early(w) /\ UNCHANGED <<kind, task, attempts, jobs>>
      /\ worker[w].pc = "call" /\ ~Resumed(w)
  BY DEF Base, SubmitFails, Early, Steps, others
<1>1. PICK out \in CallOutcomes \ {"ok"} : Ended(w, "finish", out) BY <1>0, SubmitFailsMoves
<1>2. /\ worker'[w].pc = "finish" /\ worker'[w].n = worker[w].n /\ worker'[w].out = out
      /\ \A u \in Workers : u # w => worker'[u] = worker[u]
  BY <1>0, <1>1, EndedFields
<1>3. out \in {"slot", "rejected"} => Fresh(w)
  <2>1. worker[w].lease = "lost" => Ends(w, "finish", "cancelled") BY DEF SubmitFails
  <2>2. Ends(w, "finish", "cancelled") => Ended(w, "finish", "cancelled")
    BY <1>0, EndsMoves DEF Steps, CallOutcomes
  <2>3. Ended(w, "finish", "cancelled") => worker'[w].out = "cancelled" BY <1>0, EndedFields
  <2>4. out \in {"slot", "rejected"} => worker[w].lease # "lost" BY <1>2, <2>1, <2>2, <2>3
  <2>5. worker[w].lease \in {"held", "lost"} BY <1>0 DEF TypeOK
  <2> QED BY <1>0, <2>4, <2>5 DEF Fresh, Live
<1>4. Steady(w)' BY <1>0, <1>2 DEF Sends, Steady, Early
<1>5. Spent(w)' /\ worker'[w].n = Len(attempts[task.run]) =>
         ~HasJob /\ Newest.state # "not_sent" /\ \A u \in Workers : u # w => ~Fresh(u)
  <2> SUFFICES ASSUME Spent(w)'
               PROVE  ~HasJob /\ Newest.state # "not_sent" /\ \A u \in Workers : u # w => ~Fresh(u)
    OBVIOUS
  <2>1. Fresh(w) BY <1>2, <1>3 DEF Spent
  <2>2. Sendable(w) BY <2>1 DEF Sends
  <2> QED BY <1>0, <2>1, <2>2 DEF Sendable, Leases, Fresh
<1>6. Fit(w) BY <1>2, <1>4, <1>5 DEF Fit, Fresh
<1>7. TaskKept BY <1>0 DEF TaskKept
<1> QED BY <1>0, <1>2, <1>6, <1>7, RestKeepsSends

(* An id written over the row leaves it one.                               *)
LEMMA IdentifiedKeeps ==
    ASSUME NEW pid, Identified(pid), pid # 0 \/ pid = task.pid
    PROVE  TaskKept /\ task'.pid = pid
BY DEF Identified, TaskKept

LEMMA ProviderKeepsSends ==
    ASSUME Base, Leases, Sends, Single, Resumable, kind.logical, NEW w \in Workers,
           \/ Resume(w) \/ RecordAnswer(w) \/ AnswerNotLogged(w) \/ AnswerLost(w)
           \/ PollEnds(w) \/ PollFails(w) \/ PollTimesOut(w)
    PROVE  Sends'
<1>0. /\ TypeOK /\ Named /\ Early(w) /\ UNCHANGED <<kind, attempts, jobs>> /\ kind.resumable
      /\ worker[w] \in WorkerRow /\ worker[w].pc \in {"call", "answer", "poll"}
  BY TypedWorker, Aside DEF Base, Resume, RecordAnswer, AnswerNotLogged, AnswerLost, PollEnds,
     PollFails, PollTimesOut, Early, Steps, others, Resumable
<1>1. Steady(w) /\ worker[w].n # 0 /\ worker[w].n <= Len(attempts[task.run])
      /\ (worker[w].pc \in {"answer", "poll"} => worker[w].job # 0)
  BY <1>0 DEF Sends, Steady
<1>2. ASSUME TaskKept, worker'[w].pc \in {"poll", "finish"}, worker'[w].n = worker[w].n,
             \A u \in Workers : u # w => worker'[u] = worker[u],
             worker'[w].pc = "poll" => worker'[w].job # 0,
             worker'[w].pc = "finish" =>
                task'.pid # 0 \/ worker'[w].out \in {"error", "timeout", "cancelled"}
      PROVE  Sends'
  <2>1. Steady(w)' BY <1>0, <1>1, <1>2 DEF Steady, TaskKept
  <2>2. ~Fresh(w)' /\ ~Spent(w)' BY <1>2 DEF Fresh, Spent
  <2>3. Fit(w) BY <2>1, <2>2 DEF Fit
  <2> QED BY <1>0, <1>2, <2>3, RestKeepsSends
<1>3. CASE Resume(w)
  <2> DEFINE row == [worker[w] EXCEPT !.pc = "poll", !.job = worker[w].pid]
  <2>1. Moved(w, row)
    <3>1. TypeOK BY <1>0
    <3> QED BY <1>3, <3>1, ResumeMoves, ZenonT(60)
  <2>2. worker[w].pid # 0 /\ UNCHANGED task BY <1>3 DEF Resume, Resumed
  <2>3. row.pc = "poll" /\ row.job = worker[w].pid /\ row.n = worker[w].n
    BY <1>0 DEF WorkerRow
  <2> HIDE DEF row
  <2>4. TaskKept BY <2>2 DEF TaskKept
  <2> QED BY <1>2, <2>1, <2>2, <2>3, <2>4 DEF Moved
<1>4. CASE RecordAnswer(w) \/ AnswerNotLogged(w)
  <2>1. Goes(w) /\ (Identified(worker[w].job) \/ Identified(task.pid))
    BY <1>0, <1>4, RecordMoves, UnloggedMoves
  <2>2. Went(w, "poll") BY <1>0, <2>1 DEF Goes
  <2>3. worker[w].pc = "answer" BY <1>4 DEF RecordAnswer, AnswerNotLogged
  <2>4. TaskKept BY <1>1, <2>1, <2>3, IdentifiedKeeps
  <2>5. /\ worker'[w].pc = "poll" /\ worker'[w].n = worker[w].n /\ worker'[w].job = worker[w].job
        /\ \A u \in Workers : u # w => worker'[u] = worker[u]
    BY <1>0, <2>2, WentFields
  <2> QED BY <1>1, <1>2, <2>3, <2>4, <2>5
<1>5. CASE AnswerLost(w) \/ PollTimesOut(w)
  <2>1. PICK out \in {"cancelled", "timeout"} : Ended(w, "finish", out)
    BY <1>0, <1>5, LostMoves, TimesOutMoves
  <2>2. TaskKept BY <1>5 DEF AnswerLost, PollTimesOut, TaskKept
  <2>3. /\ worker'[w].pc = "finish" /\ worker'[w].n = worker[w].n /\ worker'[w].out = out
        /\ \A u \in Workers : u # w => worker'[u] = worker[u]
    BY <1>0, <2>1, EndedFields
  <2> QED BY <1>2, <2>1, <2>2, <2>3
<1>6. CASE PollEnds(w) \/ PollFails(w)
  <2>1. Identified(worker[w].job) /\ \E out : Ended(w, "finish", out)
    BY <1>0, <1>6, PollEndsMoves, PollFailsMoves
  <2>2. worker[w].pc = "poll" BY <1>6 DEF PollEnds, PollFails
  <2>3. TaskKept /\ task'.pid # 0 BY <1>1, <2>1, <2>2, IdentifiedKeeps
  <2>4. /\ worker'[w].pc = "finish" /\ worker'[w].n = worker[w].n
        /\ \A u \in Workers : u # w => worker'[u] = worker[u]
    BY <1>0, <2>1, EndedFields
  <2> QED BY <1>2, <2>3, <2>4
<1> QED BY <1>3, <1>4, <1>5, <1>6

LEMMA BillKeepsSends ==
    ASSUME Base, Leases, Sends, Single, NEW w \in Workers, MarkBillingRunning(w)
    PROVE  Sends'
<1>0. /\ TypeOK /\ Named /\ Early(w) /\ UNCHANGED <<kind, task, attempts, jobs>>
      /\ worker[w].pc = "bill"
  BY DEF Base, MarkBillingRunning, Early, Steps, others
<1>1. TaskKept BY <1>0 DEF TaskKept
<1>2. Went(w, "dispatch") \/ Ended(w, "fail", "refund") BY <1>0, BillMoves
<1>3. CASE Went(w, "dispatch")
  <2>1. /\ worker'[w].pc = "dispatch" /\ worker'[w].n = worker[w].n
        /\ worker'[w].state = worker[w].state /\ worker'[w].pid = worker[w].pid
        /\ worker'[w].lease = worker[w].lease
        /\ \A u \in Workers : u # w => worker'[u] = worker[u]
    BY <1>0, <1>3, WentFields
  <2>2. Steady(w)' BY <1>0, <2>1 DEF Sends, Steady, Early
  <2>3. Fresh(w)' => Fresh(w) BY <1>0, <2>1 DEF Fresh, Live, Resumed
  <2>4. Fresh(w)' => Sendable(w)'
    BY <1>0, <2>1, <2>3 DEF Sends, Sendable, HasJob, Newest
  <2>5. Fit(w) BY <2>1, <2>2, <2>3, <2>4 DEF Fit, Spent
  <2> QED BY <1>0, <1>1, <2>1, <2>5, RestKeepsSends
<1>4. CASE Ended(w, "fail", "refund")
  <2>1. Quits(w) /\ \A u \in Workers : u # w => worker'[u] = worker[u]
    BY <1>0, <1>4, EndedFields DEF Quits
  <2> QED BY <1>0, <1>1, <2>1, QuitsFits, RestKeepsSends
<1> QED BY <1>2, <1>3, <1>4

LEMMA PersistKeepsSends ==
    ASSUME Base, Leases, Sends, Single, NEW w \in Workers, PersistResult(w)
    PROVE  Sends'
<1>0. /\ TypeOK /\ Early(w) /\ UNCHANGED <<kind, task, attempts, jobs>>
      /\ worker[w].pc = "persist"
  BY DEF Base, PersistResult, Early, Steps, others
<1>1. TaskKept BY <1>0 DEF TaskKept
<1>3. CASE Went(w, "save")
  <2>1. /\ worker'[w].pc = "save" /\ worker'[w].n = worker[w].n /\ worker'[w].pid = worker[w].pid
        /\ \A u \in Workers : u # w => worker'[u] = worker[u]
    BY <1>0, <1>3, WentFields
  <2>2. Steady(w)' BY <1>0, <2>1 DEF Sends, Steady, Early
  <2>3. Fit(w) BY <2>1, <2>2 DEF Fit, Spent, Fresh
  <2> QED BY <1>0, <1>1, <2>1, <2>3, RestKeepsSends
<1>4. CASE Ended(w, "fail", "unsaved")
  <2>1. Quits(w) /\ \A u \in Workers : u # w => worker'[u] = worker[u]
    BY <1>0, <1>4, EndedFields DEF Quits
  <2> QED BY <1>0, <1>1, <2>1, QuitsFits, RestKeepsSends
<1> QED BY <1>0, <1>3, <1>4, PersistMoves

LEMMA WorkerKeepsSends ==
    ASSUME Base, Leases, Sends, Single, Resumable, kind.logical, NEW w \in Workers,
           \/ ClaimNextTask(w) \/ WorkerStep(w) \/ RenewalFails(w) \/ BeginFails(w)
           \/ AnswerNotLogged(w) \/ Crash(w)
    PROVE  Sends'
<1>0. TypeOK /\ Named /\ worker[w] \in WorkerRow /\ task \in TaskRow
  BY TypedWorker DEF Base, Typed
<1>1. ASSUME UNCHANGED <<kind, attempts, jobs>>, TaskKept, Quits(w),
             \A u \in Workers : u # w => worker'[u] = worker[u]
      PROVE  Sends'
  BY <1>1, QuitsFits, RestKeepsSends
<1>2. ASSUME UNCHANGED <<kind, attempts, jobs>>, TaskKept, Moved(w, Resting)
      PROVE  Sends'
  <2>1. Quits(w) /\ \A u \in Workers : u # w => worker'[u] = worker[u]
    BY <1>2, RestingRow DEF Quits, Moved, Early, Steps
  <2> QED BY <1>1, <1>2, <2>1
<1>3. ASSUME UNCHANGED <<kind, attempts, jobs>>, TaskKept, Early(w), NEW pc \in {"fail", "settle", "close"},
             Went(w, pc) \/ \E out : Ended(w, pc, out)
      PROVE  Sends'
  <2>1. Quits(w) /\ \A u \in Workers : u # w => worker'[u] = worker[u]
    BY <1>0, <1>3, WentFields, EndedFields DEF Quits
  <2> QED BY <1>1, <1>3, <2>1
<1>4. task' = task => TaskKept BY DEF TaskKept
<1>5. CASE ClaimNextTask(w)
  <2>1. /\ worker'[w].pc = "begin" /\ worker'[w].n = Len(attempts[task.run])
        /\ \A u \in Workers : u # w => worker'[u] = worker[u]
        /\ task'.run = task.run /\ task'.pid = task.pid /\ task.status \in {"queued", "running"}
    BY <1>0, <1>5, ClaimedTo
  <2>2. TaskKept BY <2>1 DEF TaskKept
  <2>3. Len(attempts[task.run]) \in Nat BY <1>0, TypedWorker DEF Typed, TaskRow, AttemptsTyped
  <2>4. Quits(w) BY <2>1, <2>3 DEF Quits
  <2> QED BY <1>1, <1>5, <2>1, <2>2, <2>4 DEF ClaimNextTask
<1>6. CASE RenewalFails(w)
  <2> DEFINE row == [worker[w] EXCEPT !.lease = "lost"]
  <2>1. Moved(w, row)
    <3>1. TypeOK BY <1>0
    <3> QED BY <1>6, <3>1, RenewalMoves, ZenonT(60)
  <2>2. /\ row.pc = worker[w].pc /\ row.n = worker[w].n /\ row.job = worker[w].job
        /\ row.out = worker[w].out /\ row.pid = worker[w].pid /\ row.lease = "lost"
    BY <1>0 DEF WorkerRow
  <2> HIDE DEF row
  <2>3. worker'[w] = row /\ \A u \in Workers : u # w => worker'[u] = worker[u]
    BY <2>1 DEF Moved
  <2>4. UNCHANGED <<kind, task, attempts, jobs>> BY <1>6 DEF RenewalFails, others
  <2>5. Steady(w)' BY <2>2, <2>3, <2>4 DEF Sends, Steady, Early
  <2>6. ~Fresh(w)' BY <2>2, <2>3 DEF Fresh, Live
  <2>7. Spent(w)' => Spent(w) BY <2>2, <2>3, <2>4 DEF Spent
  <2>8. Fit(w) BY <2>2, <2>3, <2>5, <2>6, <2>7 DEF Sends, Unsent, Fit
  <2> QED BY <1>4, <2>3, <2>4, <2>8, RestKeepsSends
<1>7. CASE Crash(w)
  <2>1. Moved(w, Resting) BY <1>0, <1>7, CrashMoves
  <2> QED BY <1>2, <1>4, <1>7, <2>1 DEF Crash, others
<1>8. CASE RefuseAttempt(w)
  <2>1. \E out : Ended(w, "fail", out) BY <1>0, <1>8, RefuseMoves
  <2>2. Early(w) BY <1>8 DEF RefuseAttempt, Early, Steps
  <2> QED BY <1>3, <1>4, <1>8, <2>1, <2>2 DEF RefuseAttempt, others
<1>19. CASE BeginFails(w)
  <2> DEFINE last == attempts[worker[w].run][Len(attempts[worker[w].run])]
  <2>1. Ended(w, "fail", "refund")
    <3>1. TypeOK /\ Named BY <1>0 DEF Base
    <3> QED BY <1>19, <3>1, BeginFailsMoves
  <2>2. Early(w) /\ UNCHANGED <<kind, attempts, jobs>>
    BY <1>19 DEF BeginFails, Early, Steps, others
  <2>3. UNCHANGED task \/ (task' = [task EXCEPT !.pid = last.pid] /\ last.pid # 0)
    BY <1>19 DEF BeginFails
  <2>4. TaskKept
    <3> HIDE DEF last
    <3> QED BY <1>0, <1>4, <2>3 DEF TaskKept, TaskRow
  <2> QED BY <1>3, <2>1, <2>2, <2>4
<1>9. CASE BeginDirect(w) BY <1>9 DEF BeginDirect
<1>10. CASE SaveFails(w)
  <2>1. Ended(w, "fail", "uncertain") BY <1>0, <1>10, SaveFailsMoves
  <2>2. Early(w) BY <1>10 DEF SaveFails, Early, Steps
  <2> QED BY <1>3, <1>4, <1>10, <2>1, <2>2 DEF SaveFails, others
<1>11. CASE SaveTaskCompletion(w)
  <2>1. Went(w, "settle") BY <1>0, <1>11, SaveMoves
  <2>2. Early(w) /\ worker[w].pid # 0
    BY <1>11 DEF SaveTaskCompletion, Early, Steps, Sends, Steady
  <2>3. worker[w].run = task.run BY <2>2, Going
  <2>4. TaskKept BY <1>11, <2>2, <2>3 DEF SaveTaskCompletion, TaskKept
  <2> QED BY <1>3, <1>11, <2>1, <2>2, <2>4 DEF SaveTaskCompletion, others
<1>12. CASE SettleBilling(w)
  <2>1. Moved(w, Resting) BY <1>0, <1>12, SettleMoves
  <2> QED BY <1>2, <1>4, <1>12, <2>1 DEF SettleBilling, others
<1>13. CASE LeaveToSuccessor(w)
  <2>1. Moved(w, Resting) BY <1>0, <1>13, LeaveMoves
  <2> QED BY <1>2, <1>4, <1>13, <2>1 DEF LeaveToSuccessor, others
<1>14. CASE DeferRunningTaskForProviderPoll(w)
  <2>1. /\ Moved(w, Resting) /\ task'.status = task.status /\ task'.run = task.run
        /\ task'.pid = task.pid /\ UNCHANGED <<attempts, jobs, others>>
    BY <1>14, DeferredTo
  <2>2. TaskKept BY <2>1 DEF TaskKept
  <2> QED BY <1>2, <2>1, <2>2 DEF others
<1>15. CASE MarkFailed(w)
  <2>1. Went(w, "close") BY <1>0, <1>15, FailMoves
  <2>2. Early(w) BY <1>15 DEF MarkFailed, Early, Steps
  <2>3. TaskKept BY <1>0, <1>15 DEF MarkFailed, TaskKept, TaskRow
  <2> QED BY <1>3, <1>15, <2>1, <2>2, <2>3 DEF MarkFailed, others
<1>16. CASE CloseBilling(w)
  <2>1. Moved(w, Resting) BY <1>0, <1>16, CloseMoves
  <2> QED BY <1>2, <1>4, <1>16, <2>1 DEF CloseBilling, others
<1>17. CASE \/ TakeAttempt(w) \/ ResumeAttempt(w) \/ MarkBillingRunning(w)
            \/ MarkRouteAttemptDispatching(w) \/ Submit(w) \/ SubmitFails(w)
            \/ FinishRouteAttempt(w) \/ NextRouteAttempt(w) \/ PersistResult(w)
  BY <1>17, TakeKeepsSends, ResumeAttemptKeepsSends, BillKeepsSends, DispatchKeepsSends,
     SubmitKeepsSends, SubmitFailsKeepsSends, FinishKeepsSends, NextKeepsSends, PersistKeepsSends
<1>18. CASE \/ Resume(w) \/ RecordAnswer(w) \/ AnswerNotLogged(w) \/ AnswerLost(w)
            \/ PollEnds(w) \/ PollFails(w) \/ PollTimesOut(w)
  BY <1>18, ProviderKeepsSends
<1> QED
  BY <1>5, <1>6, <1>7, <1>8, <1>9, <1>10, <1>11, <1>12, <1>13, <1>14, <1>15, <1>16, <1>17, <1>18, <1>19
  DEF WorkerStep

LEMMA OthersKeepSends ==
    ASSUME Base, Leases, Sends, Single,
           \/ LeaseExpires \/ WorkerStalls \/ \E w \in Workers : RenewTaskLease(w)
           \/ (\E j \in 1..NumJobs : JobEnds(j)) \/ Retry \/ Query \/ Resolve
    PROVE  Sends'
<1>0. TypeOK /\ Named /\ task \in TaskRow /\ query \in QueryRow BY Aside DEF Base, Typed
<1>1. ASSUME UNCHANGED <<kind, attempts, worker>>, JobRuns, TaskKept PROVE Sends'
  BY <1>1, SendsKept
<1>2. UNCHANGED jobs => JobRuns BY DEF JobRuns
<1>3. task' = task => TaskKept BY DEF TaskKept
<1>4. Calm /\ task.status = "failed" => \A w \in Workers : ~Early(w) BY DEF Leases
<1>5. CASE LeaseExpires \/ WorkerStalls \/ \E w \in Workers : RenewTaskLease(w)
  <2>1. PICK lease \in {"live", "expired"} : LeaseStep(lease) BY <1>5, LeaseSteps
  <2>2. TaskKept BY <1>0, <2>1 DEF LeaseStep, TaskRow, TaskKept
  <2>3. UNCHANGED <<kind, attempts, jobs, worker>> BY <1>5, <2>1 DEF LeaseStep
  <2> QED BY <1>1, <1>2, <2>2, <2>3
<1>6. CASE \E j \in 1..NumJobs : JobEnds(j)
  <2>1. PICK j : JobEnds(j) BY <1>6
  <2>2. /\ TypeOK' /\ UNCHANGED <<task, attempts, worker, others>> /\ Len(jobs') = Len(jobs)
        /\ \A i \in 1..Len(jobs) : jobs'[i].run = jobs[i].run
    BY <1>0, <2>1, JobTypes
  <2>3. JobRuns BY <1>0, <2>2, JobsDomain DEF JobRuns
  <2> QED BY <1>1, <1>3, <2>2, <2>3 DEF others
<1>7. CASE CheckRetryEligibility
  BY <1>1, <1>2, <1>3, <1>7 DEF CheckRetryEligibility
<1>8. CASE RetryTaskWithBilling
  <2>1. CASE task' = task
    BY <1>1, <1>2, <1>3, <1>8, <2>1 DEF RetryTaskWithBilling
  <2>2. CASE /\ task.status = "failed" /\ task.run < NumRuns
             /\ task' = [status |-> "queued", run |-> task.run + 1, pid |-> 0,
                         owner |-> NoWorker, lease |-> "none"]
    <3>1. Calm BY <1>8 DEF RetryTaskWithBilling, Leases, Single
    <3>2. UNCHANGED <<attempts, jobs, worker>> BY <1>8 DEF RetryTaskWithBilling
    <3>3. \A w \in Workers : ~Early(w)' BY <1>4, <2>2, <3>1, <3>2 DEF Early
    <3>4. /\ task.run \in Nat /\ task'.run \in Runs /\ task'.run > task.run
          /\ \A r \in Runs : r > task'.run => r > task.run
      BY <1>0, <2>2, BoundsAssumption DEF TaskRow, Runs
    <3>5. ~HasJob' BY <2>2, <3>2, <3>4 DEF Sends, Future, HasJob
    <3>6. OneJob' /\ Future' /\ Recorded'
      BY <2>2, <3>2, <3>4, <3>5 DEF Sends, OneJob, Future, Recorded
    <3> QED BY <3>3, <3>6, NobodyEarly
  <2> QED BY <1>8, <2>1, <2>2 DEF RetryTaskWithBilling
<1>9. CASE BeginQuery
  BY <1>1, <1>2, <1>3, <1>9 DEF BeginQuery
<1>10. CASE ClaimFailedTaskProviderRecovery \/ QueryUpstream
  <2>1. Identified(query.pid) BY <1>0, <1>10, ClaimRecoveryTypes, UpstreamTypes
  <2>2. query.pid # 0 BY <1>0, <1>10 DEF Named, ClaimFailedTaskProviderRecovery, QueryUpstream
  <2>3. TaskKept BY <2>1, <2>2, IdentifiedKeeps
  <2> QED BY <1>1, <1>2, <1>10, <2>3 DEF ClaimFailedTaskProviderRecovery, QueryUpstream
<1>11. CASE SaveRecovered
  <2>1. UNCHANGED <<kind, attempts, jobs, worker>> BY <1>11 DEF SaveRecovered
  <2>2. CASE task' = task BY <1>1, <1>2, <1>3, <2>1, <2>2
  <2>3. CASE /\ task.status = "failed"
             /\ task' = [status |-> "succeeded", run |-> query.run, pid |-> query.pid,
                         owner |-> NoWorker, lease |-> "none"]
    <3>1. query.run # 0 /\ query.pid # 0 BY <1>0, <1>11 DEF Named, SaveRecovered
    <3>2. CASE NoRetry
      <4>1. query.run = task.run BY <3>1, <3>2 DEF Leases
      <4>2. TaskKept BY <2>3, <3>1, <4>1 DEF TaskKept
      <4> QED BY <1>1, <1>2, <2>1, <4>2
    <3>3. CASE ~NoRetry
      <4>1. \A w \in Workers : ~Early(w)' BY <1>4, <2>1, <2>3, <3>3 DEF Single, Early
      <4>2. OneJob' /\ Future' /\ Recorded'
        BY <2>1, <2>3, <3>3 DEF Sends, OneJob, Future, Recorded, NoRetry
      <4> QED BY <4>1, <4>2, NobodyEarly
    <3> QED BY <3>2, <3>3
  <2> QED BY <1>11, <2>2, <2>3 DEF SaveRecovered
<1>12. CASE SettleRecovered
  BY <1>1, <1>2, <1>3, <1>12 DEF SettleRecovered
<1>13. CASE Resolve
  BY <1>1, <1>2, <1>3, <1>13 DEF Resolve, ResolveBillingOrder
<1> QED
  BY <1>5, <1>6, <1>7, <1>8, <1>9, <1>10, <1>11, <1>12, <1>13 DEF Retry, Query

LEMMA InitSends == Init => Sends
<1> SUFFICES ASSUME Init PROVE Sends OBVIOUS
<1>1. DOMAIN jobs = {} BY DEF Init
<1>2. \A r \in Runs : attempts[r] = <<>> BY DEF Init
<1>3. OneJob /\ Future /\ Recorded BY <1>1, <1>2 DEF OneJob, Future, Recorded, HasJob
<1>4. ASSUME NEW w \in Workers PROVE ~Early(w) /\ ~Fresh(w) /\ ~Spent(w) /\ Steady(w)
  <2>1. worker[w].pc = "idle" BY DEF Init, Resting
  <2> QED BY <2>1 DEF Early, Fresh, Live, Spent, Steady, Steps
<1> QED BY <1>3, <1>4 DEF Sends

LEMMA KindStays == [Next]_vars => kind' = kind
<1> SUFFICES ASSUME [Next]_vars PROVE kind' = kind OBVIOUS
<1>1. ASSUME NEW w \in Workers, WorkerStep(w) PROVE kind' = kind
  <2>1. CASE TakeAttempt(w) \/ BeginDirect(w) \/ MarkBillingRunning(w)
    BY <2>1 DEF TakeAttempt, BeginDirect, MarkBillingRunning, others
  <2>5. CASE ResumeAttempt(w) BY <2>5 DEF ResumeAttempt, others
  <2>6. CASE RefuseAttempt(w) BY <2>6 DEF RefuseAttempt, others
  <2>7. CASE MarkRouteAttemptDispatching(w) BY <2>7 DEF MarkRouteAttemptDispatching, others
  <2>2. CASE \/ Submit(w) \/ SubmitFails(w) \/ Resume(w) \/ RecordAnswer(w) \/ AnswerLost(w)
             \/ PollEnds(w) \/ PollFails(w) \/ PollTimesOut(w)
    BY <2>2 DEF Submit, SubmitFails, Resume, RecordAnswer, AnswerLost, PollEnds, PollFails,
       PollTimesOut, others
  <2>3. CASE \/ FinishRouteAttempt(w) \/ NextRouteAttempt(w) \/ PersistResult(w)
             \/ SaveTaskCompletion(w) \/ SaveFails(w) \/ SettleBilling(w)
    BY <2>3 DEF FinishRouteAttempt, NextRouteAttempt, PersistResult, SaveTaskCompletion,
       SaveFails, SettleBilling, others
  <2>4. CASE \/ LeaveToSuccessor(w) \/ DeferRunningTaskForProviderPoll(w)
             \/ MarkFailed(w) \/ CloseBilling(w)
    BY <2>4 DEF LeaveToSuccessor, DeferRunningTaskForProviderPoll, MarkFailed, CloseBilling, others
  <2> QED BY <1>1, <2>1, <2>2, <2>3, <2>4, <2>5, <2>6, <2>7 DEF WorkerStep
<1>2. ASSUME NEW w \in Workers,
             \/ ClaimNextTask(w) \/ RenewTaskLease(w) \/ RenewalFails(w) \/ BeginFails(w)
             \/ AnswerNotLogged(w) \/ Crash(w)
      PROVE  kind' = kind
  BY <1>2 DEF ClaimNextTask, RenewTaskLease, RenewalFails, BeginFails, AnswerNotLogged, Crash, others
<1>3. CASE LeaseExpires \/ WorkerStalls \/ (\E j \in 1..NumJobs : JobEnds(j))
  BY <1>3 DEF LeaseExpires, WorkerStalls, JobEnds, others
<1>4. CASE Retry
  BY <1>4 DEF Retry, CheckRetryEligibility, RetryTaskWithBilling
<1>5. CASE Query
  BY <1>5 DEF Query, BeginQuery, ClaimFailedTaskProviderRecovery, QueryUpstream, SaveRecovered,
     SettleRecovered
<1>6. CASE Resolve BY <1>6 DEF Resolve, ResolveBillingOrder
<1>7. CASE UNCHANGED vars BY <1>7 DEF vars
<1> QED BY <1>1, <1>2, <1>3, <1>4, <1>5, <1>6, <1>7 DEF Next

LEMMA SentIsSubmitted ==
    ASSUME TypeOK, OneJob
    PROVE  \A r \in Runs : Cardinality(JobsOf(r)) <= 1
<1> SUFFICES ASSUME NEW r \in Runs PROVE Cardinality(JobsOf(r)) <= 1 OBVIOUS
<1>1. CASE JobsOf(r) = {} BY <1>1, FS_EmptySet
<1>2. CASE JobsOf(r) # {}
  <2>1. PICK j : j \in JobsOf(r) BY <1>2
  <2>2. JobsOf(r) = {j} BY <2>1 DEF JobsOf, OneJob
  <2>3. Cardinality({j}) = 1 BY FS_Singleton
  <2> QED BY <2>2, <2>3
<1> QED BY <1>1, <1>2

LEMMA StutterKeepsSends == ASSUME Sends, UNCHANGED vars PROVE Sends'
BY DEF vars, Sends, OneJob, Future, Recorded, HasJob, Newest, Steady, Fresh, Live, Early, Spent,
   Sendable, Unsent, Resumed

SendInv == Base /\ (overtaken \/ (Leases /\ (kind.logical => Sends)))

(* No run of a task of a logical model is sent to the provider twice,       *)
(* whatever crashes, is refused, polled again or recovered, until a worker  *)
(* held up past its lease is overtaken: provided the provider answers every *)
(* such task with the id of a job to poll, and no renewal fails while the   *)
(* row is the worker's, or nobody retries.                                  *)
THEOREM SentOnce ==
    ASSUME Single, Resumable
    PROVE  Spec => []SubmittedOnce
<1>1. Init => SendInv BY InitBase, InitHolds, InitSends DEF SendInv
<1>2. SendInv /\ [Next]_vars => SendInv'
  <2> SUFFICES ASSUME SendInv, [Next]_vars PROVE SendInv' OBVIOUS
  <2>1. Base' BY KeepsBase DEF SendInv
  <2>2. ASSUME ~overtaken' PROVE Leases' /\ (kind.logical => Sends)'
    <3>1. Base /\ Leases /\ (kind.logical => Sends) BY <2>2, Aging DEF SendInv
    <3>2. Leases' BY <2>2, <3>1, KeepsLeases
    <3>3. ASSUME kind'.logical PROVE Sends'
      <4>1. kind.logical /\ Sends BY <3>1, <3>3, KindStays
      <4>2. CASE \E w \in Workers :
                    \/ ClaimNextTask(w) \/ WorkerStep(w) \/ RenewalFails(w) \/ BeginFails(w)
                    \/ AnswerNotLogged(w) \/ Crash(w)
        BY <3>1, <4>1, <4>2, WorkerKeepsSends
      <4>3. CASE \/ LeaseExpires \/ WorkerStalls \/ \E w \in Workers : RenewTaskLease(w)
                 \/ (\E j \in 1..NumJobs : JobEnds(j)) \/ Retry \/ Query \/ Resolve
        BY <3>1, <4>1, <4>3, OthersKeepSends
      <4>4. CASE UNCHANGED vars BY <4>1, <4>4, StutterKeepsSends
      <4> QED BY <4>2, <4>3, <4>4 DEF Next
    <3> QED BY <3>2, <3>3
  <2> QED BY <2>1, <2>2 DEF SendInv
<1>3. SendInv => SubmittedOnce BY SentIsSubmitted DEF SendInv, Base, Sends, SubmittedOnce
<1> QED BY <1>1, <1>2, <1>3, PTL DEF Spec

(* Until a worker is held up past its lease, no task is claimed from one    *)
(* that still relies on its own: at most one worker does, and while the row *)
(* runs it is the owner and its lease has not run out.  Provided no renewal *)
(* fails while the row is the worker's, or nobody retries.                  *)
THEOREM OneLeaseHolder ==
    ASSUME Single
    PROVE  Spec => [](Unstalled =>
             /\ ~overtaken
             /\ \A u, w \in Workers : Live(u) /\ Live(w) => u = w
             /\ \A w \in Workers : Live(w) /\ task.status = "running" =>
                   task.owner = w /\ task.lease = "live")
<1> DEFINE One == Unstalled =>
             /\ ~overtaken
             /\ \A u, w \in Workers : Live(u) /\ Live(w) => u = w
             /\ \A w \in Workers : Live(w) /\ task.status = "running" =>
                   task.owner = w /\ task.lease = "live"
<1>1. LeasesInv => One BY DEF LeasesInv, Leases
<1> QED BY LeasesHold, <1>1, PTL
=============================================================================
