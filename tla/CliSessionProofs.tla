-------------------------- MODULE CliSessionProofs --------------------------
(* Theorems about CliSession for every set of agent processes and accounts,  *)
(* every number of invocations and every number of crashes and lost leases.  *)
EXTENDS CliSession, TLAPS

Uncommitted == {"begun", "queued", "granted", "ran"}   \* steps before the commit
Inactive == {"idle", "done", "dead"}
Asking == {"check", "credit", "submit", "query"}       \* its child tells the account

(* What an invocation is known by at each step of it. *)
Shaped(row) ==
    /\ row.pc \in Inactive => row.proc = None /\ row.op = "none" /\ row.goal = "none"
    /\ row.pc \notin Inactive => row.proc # None /\ row.op # "none"
    /\ row.op = "check" <=> row.code # None
    /\ row.op \in {"submit", "query"} => row.expect # None
    /\ row.goal = "query" <=> row.target # None
    /\ row.op = "query" => row.goal = "query"
    /\ row.pc = "leaving" /\ row.ok /\ row.exit /\ row.op \in {"check", "credit"}
          => row.session # None

(* A request is in the queue only while it waits, or when its process died, *)
(* and holds the lease only from the grant to the release.                  *)
Placed ==
    \A i \in Invocations :
       /\ arbiter.ticket[i] < arbiter.nextTicket
       /\ arbiter.ticket[i] # 0 => job[i].pc \in {"queued", "dead"}
       /\ arbiter.active = i => job[i].pc \in {"granted", "ran", "leaving", "orphan", "dead"}

Types == TypeOK /\ Placed /\ \A i \in Invocations : Shaped(job[i])

(* Somebody may still redeem device code c. *)
Waits(c) ==
    \/ \E p \in Processes : flow[p] = c
    \/ \E i \in Invocations : job[i].code = c

(* The CLI is not signed in to another account than a, and no device code   *)
(* that may still be redeemed signs it in to another one.                   *)
Only(a) ==
    /\ cli \in {None, a}
    /\ \A c \in Invocations : Waits(c) => confirmed[c] = a

(* A standing binding has an account, the only one if it is not contested.  *)
Bound ==
    arbiter.session # None =>
       /\ owner[arbiter.session] # None
       /\ arbiter.session \notin contested => Only(owner[arbiter.session])

(* A login that is committed has dropped the binding. *)
Dropped ==
    \A i \in Invocations :
       /\ job[i].op = "login" /\ job[i].pc = "leaving" /\ job[i].exit /\ job[i].ok
       /\ arbiter.active = i
       => arbiter.session = None

(* What a child told its invocation stays true while it has the lease. *)
Told ==
    \A i \in Invocations :
       job[i].pc = "ran" /\ job[i].exit /\ job[i].op \in Asking /\ arbiter.active = i =>
          /\ job[i].seen # None
          /\ job[i].op \in {"check", "credit"} /\ i \notin contested => Only(job[i].seen)
          /\ job[i].op \in {"submit", "query"} /\ arbiter.session \notin contested \cup {None}
                => job[i].seen = owner[arbiter.session]

SignedInAs == Bound /\ Dropped /\ Told

(* A binding is made once, and a record accepted once. *)
Unused ==
    \A i \in Invocations :
       /\ \/ job[i].pc = "idle"
          \/ job[i].op \in ServiceWork /\ job[i].pc \in Uncommitted
          => owner[i] = None
       /\ \/ job[i].pc = "idle" \/ job[i].op \in ServiceWork
          \/ job[i].op = "submit" /\ job[i].pc \in Uncommitted
          => ~Accepted(i)

(* A record, a query and an answer keep to the account of their binding. *)
Kept ==
    /\ \A i \in Invocations : Accepted(i) =>
          /\ owner[receipts[i].binding] # None
          /\ receipts[i].binding \notin contested =>
                receipts[i].account = owner[receipts[i].binding]
    /\ \A i \in Invocations :
          /\ job[i].goal = "query" => Accepted(job[i].target)
          /\ job[i].op = "query" => receipts[job[i].target].binding = job[i].expect
    /\ \A answer \in answers :
          /\ Accepted(answer.receipt)
          /\ receipts[answer.receipt].binding \notin contested =>
                answer.account = receipts[answer.receipt].account

IInv == Types /\ SignedInAs /\ Unused /\ Kept

-----------------------------------------------------------------------------
(* Invocation i goes on to row; the others stay where they are. *)
Moves(i, row) ==
    job' = [k \in Invocations |-> IF k = i THEN row ELSE job[k]]

(* Nothing is not an invocation, a process or an account. *)
LEMMA NoneApart == None \notin Invocations /\ None \notin Processes /\ None \notin Accounts
BY CliAssumption DEF Invocations

LEMMA RestingType ==
  /\ Resting \in Job
  /\ Resting.pc = "idle" /\ Resting.proc = None /\ Resting.op = "none"
  /\ Resting.goal = "none" /\ Resting.target = None /\ Resting.code = None
  /\ Resting.expect = None /\ Resting.session = None /\ Resting.exit = FALSE
  /\ Resting.ok = FALSE /\ Resting.stale = FALSE /\ Resting.seen = None
BY DEF Resting, Job, Invocation, Account, ServiceWork

(* An invocation that is over. *)
LEMMA OverType ==
  ASSUME NEW pc \in Inactive
  PROVE  /\ Over(pc) \in Job /\ Shaped(Over(pc))
         /\ Over(pc).pc = pc /\ Over(pc).op = "none" /\ Over(pc).goal = "none"
         /\ Over(pc).code = None
<1>1. Over(pc) \in Job
  BY DEF Over, Inactive, Resting, Job, Invocation, Account, ServiceWork
<1>2. /\ Over(pc).pc = pc /\ Over(pc).op = "none" /\ Over(pc).code = None
      /\ Over(pc).goal = "none" /\ Over(pc).target = None /\ Over(pc).proc = None
  BY DEF Over, Resting
<1>3. Shaped(Over(pc))
  BY <1>2 DEF Shaped, Inactive
<1> QED BY <1>1, <1>2, <1>3

(* Moving one invocation to a well-shaped row keeps the jobs well-shaped. *)
LEMMA MoveTypes ==
  ASSUME Types, NEW i \in Invocations, NEW row \in Job, Shaped(row), Moves(i, row)
  PROVE  /\ job' \in [Invocations -> Job]
         /\ \A k \in Invocations : Shaped(job'[k])
         /\ job'[i] = row /\ \A k \in Invocations : k # i => job'[k] = job[k]
BY DEF Types, TypeOK, Moves

(* A failing invocation keeps everything but its answer. *)
LEMMA FailingType ==
  ASSUME NEW j \in Job, Shaped(j), j.pc \in {"granted", "ran"}
  PROVE  /\ Failing(j) \in Job /\ Shaped(Failing(j))
         /\ Failing(j).pc = "leaving" /\ Failing(j).exit = FALSE
         /\ Failing(j).op = j.op /\ Failing(j).code = j.code /\ Failing(j).goal = j.goal
         /\ Failing(j).target = j.target /\ Failing(j).expect = j.expect
         /\ Failing(j).proc = j.proc
<1> DEFINE row == Failing(j)
<1>1. row \in Job
  BY DEF Failing, Job, Account
<1>2. /\ row.pc = "leaving" /\ row.exit = FALSE /\ row.op = j.op /\ row.code = j.code
      /\ row.goal = j.goal /\ row.target = j.target /\ row.expect = j.expect
      /\ row.proc = j.proc
  BY DEF Failing, Job
<1> HIDE DEF row
<1>3. Shaped(row)
  BY <1>2 DEF Shaped, Inactive
<1> QED BY <1>1, <1>2, <1>3 DEF row

(* A step within an invocation leaves what it is about as it is. *)
Like(row, j) ==
    /\ row.op = j.op /\ row.code = j.code /\ row.goal = j.goal
    /\ row.target = j.target /\ row.expect = j.expect /\ row.proc = j.proc

(* Invocation i takes a step within it, to pc. *)
StepsTo(i, pc) ==
    \E row \in Job : Shaped(row) /\ Moves(i, row) /\ Like(row, job[i]) /\ row.pc = pc

(* The steps of the acquire and of the child, as moves. *)
LEMMA EnqueueMoves ==
  ASSUME Types, NEW i \in Invocations, Enqueue(i)
  PROVE  StepsTo(i, "queued")
<1> DEFINE row == [job[i] EXCEPT !.pc = "queued"]
<1>1. job[i] \in Job /\ Shaped(job[i]) /\ job[i].pc = "begun"
  BY DEF Types, TypeOK, Enqueue
<1>2. row \in Job /\ Like(row, job[i]) /\ row.pc = "queued"
  BY <1>1 DEF Job, Like
<1>3. Moves(i, row)
  BY DEF Enqueue, Moves, Types, TypeOK
<1> HIDE DEF row
<1>4. Shaped(row)
  BY <1>1, <1>2 DEF Shaped, Like, Inactive
<1> QED BY <1>2, <1>3, <1>4 DEF StepsTo

LEMMA GrantMoves ==
  ASSUME Types, NEW i \in Invocations, Grant(i)
  PROVE  StepsTo(i, "granted")
<1> DEFINE row == [job[i] EXCEPT !.pc = "granted", !.session = arbiter.session]
<1>1. job[i] \in Job /\ Shaped(job[i]) /\ job[i].pc = "queued"
  BY DEF Types, TypeOK, Grant
<1>2. row \in Job /\ Like(row, job[i]) /\ row.pc = "granted"
  BY <1>1 DEF Job, Like, Types, TypeOK, ArbiterState
<1>3. Moves(i, row)
  BY DEF Grant, Moves, Types, TypeOK
<1> HIDE DEF row
<1>4. Shaped(row)
  BY <1>1, <1>2 DEF Shaped, Like, Inactive
<1> QED BY <1>2, <1>3, <1>4 DEF StepsTo

LEMMA RefusedMoves ==
  ASSUME Types, NEW i \in Invocations,
         job[i].pc \in {"granted", "ran"}, job' = [job EXCEPT ![i] = Failing(@)]
  PROVE  /\ StepsTo(i, "leaving") /\ Moves(i, Failing(job[i]))
         /\ Failing(job[i]).exit = FALSE
<1>1. job[i] \in Job /\ Shaped(job[i])
  BY DEF Types, TypeOK
<1>2. Moves(i, Failing(job[i]))
  BY DEF Moves, Types, TypeOK
<1> QED BY <1>1, <1>2, FailingType DEF StepsTo, Like

(* The commit of an invocation, to a session that a signed-in one has. *)
LEMMA CommittedMoves ==
  ASSUME Types, NEW i \in Invocations, NEW session \in Invocation, Committed(i, session),
         job[i].pc = "ran",
         job[i].exit /\ job[i].op \in {"check", "credit"} => session # None
  PROVE  /\ StepsTo(i, "leaving")
         /\ job'[i].exit = job[i].exit
<1> DEFINE row == [job[i] EXCEPT !.pc = "leaving", !.ok = TRUE, !.session = session,
                                 !.seen = None]
<1>1. job[i] \in Job /\ Shaped(job[i])
  BY DEF Types, TypeOK
<1>2. /\ row \in Job /\ Like(row, job[i]) /\ row.pc = "leaving"
      /\ row.exit = job[i].exit /\ row.session = session
  BY <1>1 DEF Job, Like, Account
<1>3. Moves(i, row)
  BY DEF Committed, Moves, Types, TypeOK
<1> HIDE DEF row
<1>4. Shaped(row)
  BY <1>1, <1>2 DEF Shaped, Like, Inactive
<1>5. job'[i] = row
  BY <1>3 DEF Moves
<1> QED BY <1>2, <1>3, <1>4, <1>5 DEF StepsTo

(* A child of a live process ends: its invocation knows how. *)
LEMMA AnsweredType ==
  ASSUME NEW j \in Job, Shaped(j), j.pc = "granted",
         NEW exit \in BOOLEAN, NEW account \in Account
  PROVE  LET row == Answered(j, exit, account)
         IN  /\ row \in Job /\ Shaped(row) /\ Like(row, j) /\ row.pc = "ran"
             /\ row.exit = exit /\ row.seen = account
<1> DEFINE row == [j EXCEPT !.pc = "ran", !.exit = exit, !.seen = account]
<1>1. /\ row \in Job /\ Like(row, j) /\ row.pc = "ran"
      /\ row.exit = exit /\ row.seen = account
  BY DEF Job, Like
<1>2. Answered(j, exit, account) = row
  BY DEF Answered
<1> HIDE DEF row
<1>3. Shaped(row)
  BY <1>1 DEF Shaped, Like, Inactive
<1> QED BY <1>1, <1>2, <1>3

(* The row of a new piece of work. *)
IsNew(row, p, op, goal, target, code, expect) ==
    /\ row.pc = "begun" /\ row.proc = p /\ row.op = op /\ row.goal = goal
    /\ row.target = target /\ row.code = code /\ row.expect = expect

BeginsAs(i, p, op, goal, target, code, expect) ==
    \E row \in Job :
       Shaped(row) /\ Moves(i, row) /\ IsNew(row, p, op, goal, target, code, expect)

(* What a person begins, is a new row. *)
LEMMA BeginMoves ==
  ASSUME Types, NEW i \in Invocations, NEW p \in Processes,
         NEW op \in {"login", "check", "credit"}, NEW goal \in {"login", "status", "submit", "query"},
         NEW target \in Invocation, NEW code \in Invocation,
         op = "check" <=> code # None, goal = "query" <=> target # None,
         Begin(i, p, op, goal, target, code)
  PROVE  BeginsAs(i, p, op, goal, target, code, None) /\ job[i].pc = "idle"
<1> DEFINE row == [Resting EXCEPT !.pc = "begun", !.proc = p, !.op = op, !.goal = goal,
                                  !.target = target, !.code = code]
<1>1. row \in Job /\ IsNew(row, p, op, goal, target, code, None)
  BY RestingType DEF Job, IsNew, ServiceWork
<1>2. Moves(i, row) /\ job[i].pc = "idle"
  BY DEF Begin, Fresh, Moves, Types, TypeOK
<1> HIDE DEF row
<1>3. Shaped(row)
  BY <1>1, NoneApart DEF IsNew, Shaped, Inactive
<1> QED BY <1>1, <1>2, <1>3 DEF BeginsAs

LEMMA StartLoginMoves ==
  ASSUME Types, NEW i \in Invocations, NEW p \in Processes, StartLogin(i, p)
  PROVE  BeginsAs(i, p, "login", "login", None, None, None) /\ job[i].pc = "idle"
<1>1. None \in Invocation
  BY DEF Invocation
<1> QED BY <1>1, BeginMoves DEF StartLogin

(* The goals of readStatus, and what each is asked for. *)
LEMMA StartStatusMoves ==
  ASSUME Types, NEW i \in Invocations, NEW p \in Processes,
         NEW goal \in {"status", "submit", "query"}, NEW t \in Invocation,
         StartStatus(i, p, goal, t)
  PROVE  /\ BeginsAs(i, p, IF flow[p] = None THEN "credit" ELSE "check", goal, t, flow[p], None)
         /\ job[i].pc = "idle"
<1>1. flow[p] \in Invocation
  BY DEF Types, TypeOK
<1>2. goal = "query" <=> t # None
  BY NoneApart DEF StartStatus
<1> QED BY <1>1, <1>2, BeginMoves DEF StartStatus

(* What becomes of the other work of a process that signs out. *)
LEMMA StartLogoutMoves ==
  ASSUME Types, NEW i \in Invocations, NEW p \in Processes, StartLogout(i, p)
  PROVE  /\ job' \in [Invocations -> Job] /\ \A k \in Invocations : Shaped(job'[k])
         /\ job[i].pc = "idle" /\ IsNew(job'[i], p, "logout", "logout", None, None, None)
         /\ \A k \in Invocations : k # i =>
               /\ Like(job'[k], job[k])
               /\ \/ job'[k].pc = "leaving" /\ job'[k].exit = FALSE
                     /\ job[k].pc \in {"granted", "ran"}
                  \/ /\ job'[k].pc = job[k].pc /\ job'[k].exit = job[k].exit
                     /\ job'[k].ok = job[k].ok /\ job'[k].seen = job[k].seen
<1> DEFINE row == [Resting EXCEPT !.pc = "begun", !.proc = p, !.op = "logout",
                                  !.goal = "logout"]
           stale(k) == [(IF job[k].pc \in {"granted", "ran"} THEN Failing(job[k]) ELSE job[k])
                           EXCEPT !.stale = TRUE]
<1>1. row \in Job /\ IsNew(row, p, "logout", "logout", None, None, None)
  BY RestingType DEF Job, IsNew, ServiceWork
<1>3. job[i].pc = "idle"
  BY DEF StartLogout, Fresh
<1>4. Shaped(row)
  <2> HIDE DEF row
  <2> QED BY <1>1, NoneApart DEF IsNew, Shaped, Inactive
<1>5. ASSUME NEW k \in Invocations, job[k].proc = p, job[k].op \in ServiceWork
      PROVE  /\ stale(k) \in Job /\ Shaped(stale(k)) /\ Like(stale(k), job[k])
             /\ \/ stale(k).pc = "leaving" /\ stale(k).exit = FALSE
                   /\ job[k].pc \in {"granted", "ran"}
                \/ /\ stale(k).pc = job[k].pc /\ stale(k).exit = job[k].exit
                   /\ stale(k).ok = job[k].ok /\ stale(k).seen = job[k].seen
  <2> DEFINE j == IF job[k].pc \in {"granted", "ran"} THEN Failing(job[k]) ELSE job[k]
             made == [j EXCEPT !.stale = TRUE]
  <2>1. job[k] \in Job /\ Shaped(job[k])
    BY DEF Types, TypeOK
  <2>2. /\ j \in Job /\ Shaped(j) /\ Like(j, job[k])
        /\ \/ j.pc = "leaving" /\ j.exit = FALSE /\ job[k].pc \in {"granted", "ran"}
           \/ j = job[k]
    BY <2>1, FailingType DEF Like
  <2>3. job[k].pc \notin Inactive
    BY <2>1, <1>5 DEF Shaped, ServiceWork
  <2>4. j.pc \notin Inactive
    BY <2>2, <2>3 DEF Inactive
  <2> HIDE DEF j
  <2>5. /\ made \in Job /\ made.pc = j.pc /\ made.exit = j.exit /\ made.ok = j.ok
        /\ made.seen = j.seen /\ made.session = j.session /\ Like(made, j)
    BY <2>2 DEF Job, Like
  <2>6. made = stale(k)
    BY DEF j
  <2> HIDE DEF made
  <2>7. Shaped(made)
    BY <2>2, <2>4, <2>5 DEF Shaped, Like, Inactive
  <2>8. Like(made, job[k])
    BY <2>2, <2>5 DEF Like
  <2>9. \/ made.pc = "leaving" /\ made.exit = FALSE /\ job[k].pc \in {"granted", "ran"}
        \/ /\ made.pc = job[k].pc /\ made.exit = job[k].exit
           /\ made.ok = job[k].ok /\ made.seen = job[k].seen
    BY <2>2, <2>5
  <2> HIDE DEF stale
  <2> QED BY <2>5, <2>6, <2>7, <2>8, <2>9
<1>6. job' = [k \in Invocations |->
         IF k = i THEN row
         ELSE IF job[k].proc = p /\ job[k].op \in ServiceWork THEN stale(k) ELSE job[k]]
  BY DEF StartLogout
<1> HIDE DEF row, stale
<1>7. job'[i] = row
  BY <1>6
<1>8. ASSUME NEW k \in Invocations, k # i
      PROVE  /\ job'[k] \in Job /\ Shaped(job'[k]) /\ Like(job'[k], job[k])
             /\ \/ job'[k].pc = "leaving" /\ job'[k].exit = FALSE
                   /\ job[k].pc \in {"granted", "ran"}
                \/ /\ job'[k].pc = job[k].pc /\ job'[k].exit = job[k].exit
                   /\ job'[k].ok = job[k].ok /\ job'[k].seen = job[k].seen
  <2>1. CASE job[k].proc = p /\ job[k].op \in ServiceWork
    <3>1. job'[k] = stale(k)
      BY <1>6, <1>8, <2>1
    <3> QED BY <3>1, <2>1, <1>5
  <2>2. CASE ~(job[k].proc = p /\ job[k].op \in ServiceWork)
    <3>1. job'[k] = job[k]
      BY <1>6, <1>8, <2>2
    <3> QED BY <3>1 DEF Like, Types, TypeOK
  <2> QED BY <2>1, <2>2
<1>9. job' \in [Invocations -> Job] /\ \A k \in Invocations : Shaped(job'[k])
  BY <1>1, <1>4, <1>6, <1>7, <1>8
<1> QED BY <1>1, <1>3, <1>7, <1>8, <1>9

(* A signed-in invocation of the runtime goes on to its own child. *)
LEMMA GoesOnMoves ==
  ASSUME Types, NEW i \in Invocations, LeaveSignedIn(i), GoesOn(i)
  PROVE  BeginsAs(i, job[i].proc, job[i].goal, job[i].goal, job[i].target, None,
                  job[i].session)
<1> DEFINE row == [Resting EXCEPT !.pc = "begun", !.proc = job[i].proc, !.op = job[i].goal,
                     !.goal = job[i].goal, !.target = job[i].target,
                     !.expect = job[i].session]
<1>1. job[i] \in Job /\ Shaped(job[i])
  BY DEF Types, TypeOK
<1>2. job[i].goal \in {"submit", "query"}
  BY DEF GoesOn
<1>3. row \in Job
  BY <1>1, <1>2, RestingType DEF Job
<1>4. IsNew(row, job[i].proc, job[i].goal, job[i].goal, job[i].target, None, job[i].session)
  BY RestingType DEF Job, IsNew
<1>5. Moves(i, row)
  BY DEF LeaveSignedIn, Moves, Types, TypeOK
<1>6. /\ job[i].pc = "leaving" /\ job[i].ok /\ job[i].exit /\ job[i].op \in {"check", "credit"}
  BY DEF LeaveSignedIn, Released, SignedIn, Succeeded
<1> HIDE DEF row
<1>7. Shaped(row)
  BY <1>1, <1>2, <1>4, <1>6 DEF IsNew, Shaped, Inactive
<1> QED BY <1>3, <1>4, <1>5, <1>7 DEF BeginsAs

(* What a process that dies leaves of its invocations. *)
LEMMA CrashMoves ==
  ASSUME Types, NEW p \in Processes, Crash(p)
  PROVE  /\ job' \in [Invocations -> Job]
         /\ \A k \in Invocations :
               /\ Shaped(job'[k])
               /\ \/ job'[k] = job[k]
                  \/ job[k].pc = "granted" /\ job'[k].pc = "orphan" /\ Like(job'[k], job[k])
                  \/ job[k].pc \notin {"idle", "done"} /\ job'[k] = Over("dead")
<1> SUFFICES ASSUME NEW k \in Invocations
             PROVE  /\ job'[k] \in Job /\ Shaped(job'[k])
                    /\ \/ job'[k] = job[k]
                       \/ job[k].pc = "granted" /\ job'[k].pc = "orphan" /\ Like(job'[k], job[k])
                       \/ job[k].pc \notin {"idle", "done"} /\ job'[k] = Over("dead")
  <2> job' = [k \in Invocations |-> job'[k]]
    BY DEF Crash
  <2> QED OBVIOUS
<1>1. job[k] \in Job /\ Shaped(job[k])
  BY DEF Types, TypeOK
<1>2. CASE job[k].proc # p \/ job[k].pc = "orphan"
  BY <1>1, <1>2 DEF Crash
<1>3. CASE ~(job[k].proc # p \/ job[k].pc = "orphan") /\ job[k].pc = "granted"
  <2> DEFINE row == [job[k] EXCEPT !.pc = "orphan"]
  <2>1. job'[k] = row
    BY <1>3 DEF Crash
  <2>2. row \in Job /\ row.pc = "orphan" /\ Like(row, job[k])
    BY <1>1 DEF Job, Like
  <2> HIDE DEF row
  <2>3. Shaped(row)
    BY <1>1, <1>3, <2>2 DEF Shaped, Like, Inactive
  <2> QED BY <1>3, <2>1, <2>2, <2>3
<1>4. CASE ~(job[k].proc # p \/ job[k].pc = "orphan") /\ job[k].pc # "granted"
  <2>1. job'[k] = Over("dead")
    BY <1>4 DEF Crash
  <2>2. job[k].pc \notin {"idle", "done"}
    <3>1. p # None
      BY NoneApart
    <3> QED BY <1>1, <1>4, <3>1 DEF Shaped, Inactive
  <2> QED BY <2>1, <2>2, OverType DEF Inactive
<1> QED BY <1>2, <1>3, <1>4

-----------------------------------------------------------------------------
(* Type correctness, and where a request is. *)

(* What pruning leaves of the queue and of the lease. *)
LEMMA PrunedType ==
  ASSUME Types
  PROVE  /\ PrunedTicket \in [Invocations -> Nat]
         /\ \A i \in Invocations : PrunedTicket[i] \in {0, arbiter.ticket[i]}
         /\ PrunedActive \in Invocation /\ PrunedActive \in {None, arbiter.active}
BY DEF Types, TypeOK, ArbiterState, PrunedTicket, PrunedActive, Invocation

(* The rest of Types, for a step that only moves jobs and the lease's time. *)
Rest ==
    /\ flow \in [Processes -> Invocation] /\ cli \in Account
    /\ confirmed \in [Invocations -> Account]
    /\ receipts \in [Invocations -> Receipt]
    /\ answers \subseteq [receipt : Invocations, account : Account]
    /\ owner \in [Invocations -> Account]
    /\ contested \subseteq Invocations
    /\ faults \in 0..MaxFaults

Jobs == job \in [Invocations -> Job] /\ \A i \in Invocations : Shaped(job[i])

(* The state file is well-typed, no two requests have a ticket, and only what *)
(* is in it is late.                                                          *)
Filed ==
    /\ arbiter \in ArbiterState
    /\ \A i, k \in Invocations :
          arbiter.ticket[i] = arbiter.ticket[k] => i = k \/ arbiter.ticket[i] = 0
    /\ late \subseteq {i \in Invocations : arbiter.ticket[i] # 0 \/ arbiter.active = i}

LEMMA TypesParts ==
  ASSUME Rest', Jobs', Filed', Placed'
  PROVE  Types'
BY DEF Types, TypeOK, Rest, Jobs, Filed

LEMMA EnqueueFiled ==
  ASSUME Types, NEW i \in Invocations, Enqueue(i)
  PROVE  Filed' /\ Placed'
<1> DEFINE ticket == [PrunedTicket EXCEPT ![i] = arbiter.nextTicket]
<1>1. /\ arbiter \in ArbiterState /\ job[i].pc = "begun" /\ late' = {}
      /\ arbiter' = [arbiter EXCEPT !.ticket = ticket, !.nextTicket = @ + 1,
                                    !.active = PrunedActive]
  BY DEF Types, TypeOK, Enqueue
<1>2. ticket \in [Invocations -> Nat]
  BY <1>1, PrunedType DEF ArbiterState
<1>3. /\ ticket[i] = arbiter.nextTicket
      /\ \A k \in Invocations : k # i => ticket[k] \in {0, arbiter.ticket[k]}
  BY PrunedType
<1> HIDE DEF ticket
<1>4. /\ arbiter' \in ArbiterState /\ arbiter'.ticket = ticket
      /\ arbiter'.nextTicket = arbiter.nextTicket + 1 /\ arbiter'.active = PrunedActive
  <2>1. PrunedActive \in Invocation
    BY PrunedType
  <2>2. arbiter.nextTicket \in Nat /\ arbiter.nextTicket + 1 \in Nat \ {0}
    BY <1>1 DEF ArbiterState
  <2> QED BY <1>1, <1>2, <2>1, <2>2 DEF ArbiterState
<1>5. Filed'
  BY <1>1, <1>2, <1>3, <1>4 DEF Filed, ArbiterState, Types, TypeOK, Placed
<1>6. job'[i].pc = "queued" /\ \A k \in Invocations : k # i => job'[k] = job[k]
  BY EnqueueMoves, MoveTypes DEF StepsTo
<1>7. Placed'
  BY <1>1, <1>2, <1>3, <1>4, <1>6, PrunedType, NoneApart DEF Placed, Types, ArbiterState
<1> QED BY <1>5, <1>7

LEMMA GrantFiled ==
  ASSUME Types, NEW i \in Invocations, Grant(i)
  PROVE  Filed' /\ Placed'
<1> DEFINE ticket == [PrunedTicket EXCEPT ![i] = 0]
<1>1. /\ arbiter \in ArbiterState /\ job[i].pc = "queued" /\ late' = {}
      /\ arbiter' = [arbiter EXCEPT !.ticket = ticket, !.active = i]
  BY DEF Types, TypeOK, Grant
<1>2. ticket \in [Invocations -> Nat]
  BY <1>1, PrunedType DEF ArbiterState
<1>3. /\ ticket[i] = 0
      /\ \A k \in Invocations : k # i => ticket[k] \in {0, arbiter.ticket[k]}
  BY PrunedType
<1> HIDE DEF ticket
<1>4. /\ arbiter' \in ArbiterState /\ arbiter'.ticket = ticket
      /\ arbiter'.nextTicket = arbiter.nextTicket /\ arbiter'.active = i
  BY <1>1, <1>2, PrunedType DEF ArbiterState, Invocation
<1>5. Filed'
  BY <1>1, <1>2, <1>3, <1>4 DEF Filed, ArbiterState, Types, TypeOK, Placed
<1>6. job'[i].pc = "granted" /\ \A k \in Invocations : k # i => job'[k] = job[k]
  BY GrantMoves, MoveTypes DEF StepsTo
<1>7. Placed'
  BY <1>1, <1>2, <1>3, <1>4, <1>6, PrunedType, NoneApart DEF Placed, Types, ArbiterState
<1> QED BY <1>5, <1>7

LEMMA WaitFiled ==
  ASSUME Types, NEW i \in Invocations, Wait(i)
  PROVE  Filed' /\ Placed'
<1>1. /\ arbiter \in ArbiterState /\ late' = {} /\ job' = job
      /\ arbiter' = [arbiter EXCEPT !.ticket = PrunedTicket, !.active = PrunedActive]
  BY DEF Types, TypeOK, Wait
<1>2. /\ arbiter' \in ArbiterState /\ arbiter'.ticket = PrunedTicket
      /\ arbiter'.nextTicket = arbiter.nextTicket /\ arbiter'.active = PrunedActive
  BY <1>1, PrunedType DEF ArbiterState
<1>3. Filed'
  BY <1>1, <1>2, PrunedType DEF Filed, ArbiterState, Types, TypeOK
<1>4. Placed'
  BY <1>1, <1>2, PrunedType, NoneApart DEF Placed, Types, ArbiterState
<1> QED BY <1>3, <1>4

LEMMA GiveUpFiled ==
  ASSUME Types, NEW i \in Invocations, GiveUp(i)
  PROVE  Filed' /\ Placed'
<1>1. /\ arbiter \in ArbiterState /\ late' = late \ {i} /\ job[i].pc \in {"begun", "queued"}
      /\ arbiter' = [arbiter EXCEPT !.ticket[i] = 0]
  BY DEF Types, TypeOK, GiveUp
<1>2. /\ arbiter' \in ArbiterState /\ arbiter'.nextTicket = arbiter.nextTicket
      /\ arbiter'.active = arbiter.active /\ arbiter'.ticket[i] = 0
      /\ \A k \in Invocations : k # i => arbiter'.ticket[k] = arbiter.ticket[k]
  BY <1>1 DEF ArbiterState
<1>3. Filed'
  BY <1>1, <1>2 DEF Filed, ArbiterState, Types, TypeOK
<1>4. job'[i].pc = "done" /\ \A k \in Invocations : k # i => job'[k] = job[k]
  BY OverType DEF GiveUp, Types, TypeOK, Inactive
<1>5. Placed'
  BY <1>1, <1>2, <1>4 DEF Placed, Types, TypeOK, ArbiterState
<1> QED BY <1>3, <1>5

LEMMA ReleasedFiled ==
  ASSUME Types, NEW i \in Invocations, Released(i),
         job'[i].pc \in {"begun", "done"}, \A k \in Invocations : k # i => job'[k] = job[k]
  PROVE  Filed' /\ Placed'
<1>1. /\ arbiter \in ArbiterState /\ late' = late \ {i} /\ job[i].pc = "leaving"
      /\ arbiter' = [arbiter EXCEPT !.active = IF @ = i THEN None ELSE @]
  BY DEF Types, TypeOK, Released
<1>2. /\ arbiter' \in ArbiterState /\ arbiter'.nextTicket = arbiter.nextTicket
      /\ arbiter'.active = IF arbiter.active = i THEN None ELSE arbiter.active
      /\ arbiter'.ticket = arbiter.ticket
  BY <1>1 DEF ArbiterState, Invocation
<1>3. Filed'
  BY <1>1, <1>2 DEF Filed, ArbiterState, Types, TypeOK
<1>4. Placed'
  BY <1>1, <1>2, NoneApart DEF Placed, Types, TypeOK, ArbiterState
<1> QED BY <1>3, <1>4

(* A step that leaves the queue and the lease alone, and moves no invocation *)
(* out of the places it may be in there.                                     *)
LEMMA StayFiled ==
  ASSUME Types, arbiter' \in ArbiterState, late' = late,
         arbiter'.ticket = arbiter.ticket, arbiter'.nextTicket = arbiter.nextTicket,
         arbiter'.active = arbiter.active,
         \A k \in Invocations :
            \/ job'[k].pc \in {job[k].pc, "dead"}
            \/ job[k].pc = "idle" /\ job'[k].pc = "begun"
            \/ job[k].pc \in {"granted", "ran"} /\ job'[k].pc \in {"ran", "leaving", "orphan"}
  PROVE  Filed' /\ Placed'
<1>1. Filed'
  BY DEF Filed, Types, TypeOK
<1>2. Placed'
  BY DEF Types, Placed
<1> QED BY <1>1, <1>2

(* The commit of a session. *)
LEMMA CommitFiled ==
  ASSUME Types, NEW i \in Invocations, NEW session \in Invocation,
         arbiter' = [arbiter EXCEPT !.session = session], late' = late,
         job[i].pc = "ran", job'[i].pc = "leaving",
         \A k \in Invocations : k # i => job'[k] = job[k]
  PROVE  Filed' /\ Placed'
<1>1. arbiter \in ArbiterState
  BY DEF Types, TypeOK
<1>2. /\ arbiter' \in ArbiterState /\ arbiter'.ticket = arbiter.ticket
      /\ arbiter'.nextTicket = arbiter.nextTicket /\ arbiter'.active = arbiter.active
  BY <1>1 DEF ArbiterState
<1> QED BY <1>2, StayFiled

LEMMA LateFiled ==
  ASSUME Types, NEW i \in Invocations, Refresh(i) \/ Expire(i)
  PROVE  Filed' /\ Placed' /\ UNCHANGED <<arbiter, job>>
<1>1. arbiter' = arbiter /\ job' = job
  BY DEF Refresh, Expire, outside
<1>2. late' \subseteq {k \in Invocations : arbiter.ticket[k] # 0 \/ arbiter.active = k}
  BY DEF Refresh, Expire, Types, TypeOK, Queued
<1>3. Filed'
  BY <1>1, <1>2 DEF Filed, Types, TypeOK
<1>4. Placed'
  BY <1>1 DEF Placed, Types
<1> QED BY <1>1, <1>3, <1>4

(* A step of one invocation with its move. *)
LEMMA StepJobs ==
  ASSUME Types, NEW i \in Invocations, NEW pc, StepsTo(i, pc)
  PROVE  /\ Jobs' /\ job'[i].pc = pc /\ Like(job'[i], job[i])
         /\ \A k \in Invocations : k # i => job'[k] = job[k]
<1>1. PICK row \in Job : Shaped(row) /\ Moves(i, row) /\ Like(row, job[i]) /\ row.pc = pc
  BY DEF StepsTo
<1> QED BY <1>1, MoveTypes DEF Jobs

LEMMA BeginJobs ==
  ASSUME Types, NEW i \in Invocations, NEW p, NEW op, NEW goal, NEW target, NEW code,
         NEW expect, BeginsAs(i, p, op, goal, target, code, expect)
  PROVE  /\ Jobs' /\ IsNew(job'[i], p, op, goal, target, code, expect)
         /\ \A k \in Invocations : k # i => job'[k] = job[k]
<1>1. PICK row \in Job :
         Shaped(row) /\ Moves(i, row) /\ IsNew(row, p, op, goal, target, code, expect)
  BY DEF BeginsAs
<1> QED BY <1>1, MoveTypes DEF Jobs

(* An invocation that is over, and nothing else. *)
LEMMA OverJobs ==
  ASSUME Types, NEW i \in Invocations, NEW pc \in Inactive, job' = [job EXCEPT ![i] = Over(pc)]
  PROVE  /\ Jobs' /\ job'[i] = Over(pc) /\ job'[i].pc = pc
         /\ \A k \in Invocations : k # i => job'[k] = job[k]
<1>1. Moves(i, Over(pc))
  BY DEF Moves, Types, TypeOK
<1> QED BY <1>1, MoveTypes, OverType DEF Jobs

(* The accounts that a child of each kind leaves. *)
LEMMA LeavesType ==
  ASSUME Types, NEW i \in Invocations
  PROVE  LeavesSignedIn(i) \subseteq Account
<1>1. cli \in Account
  BY DEF Types, TypeOK
<1>2. job[i].op = "check" => confirmed[job[i].code] \in Account
  BY DEF Types, TypeOK, Shaped, Job, Invocation
<1> QED BY <1>1, <1>2 DEF LeavesSignedIn, Account

(* What the end of a child makes of its invocation and of the CLI. *)
RunsTo(i, exit, account) ==
    /\ exit => account \in LeavesSignedIn(i)
    /\ ~exit => account = cli
    /\ account \in Account /\ cli' = account
    /\ contested' = IF exit /\ \E c \in Redeemable : confirmed[c] # account
                    THEN contested \cup {i} ELSE contested
    /\ \/ job[i].pc = "orphan" /\ job'[i] = Over("dead")
       \/ /\ job[i].pc = "granted" /\ job'[i].pc = "ran" /\ Like(job'[i], job[i])
          /\ job'[i].exit = exit /\ job'[i].seen = account

LEMMA RunJobs ==
  ASSUME Types, NEW i \in Invocations, Run(i)
  PROVE  /\ \E exit \in BOOLEAN, account \in Account : RunsTo(i, exit, account)
         /\ Jobs' /\ \A k \in Invocations : k # i => job'[k] = job[k]
<1>1. PICK exit \in BOOLEAN, account \in Account :
         /\ IF exit THEN account \in LeavesSignedIn(i) ELSE account = cli
         /\ cli' = account
         /\ job' = [job EXCEPT ![i] = Answered(@, exit, account)]
         /\ contested' = IF exit /\ \E c \in Redeemable : confirmed[c] # account
                         THEN contested \cup {i} ELSE contested
  BY DEF Run
<1>2. job[i] \in Job /\ Shaped(job[i])
  BY DEF Types, TypeOK
<1>3. CASE job[i].pc = "orphan"
  <2>1. job' = [job EXCEPT ![i] = Over("dead")]
    BY <1>1, <1>3 DEF Answered
  <2> QED BY <1>1, <1>3, <2>1, OverJobs DEF RunsTo, Inactive
<1>4. CASE job[i].pc = "granted"
  <2> DEFINE row == Answered(job[i], exit, account)
  <2>1. Moves(i, row)
    BY <1>1 DEF Moves, Types, TypeOK
  <2>2. /\ row \in Job /\ Shaped(row) /\ Like(row, job[i]) /\ row.pc = "ran"
        /\ row.exit = exit /\ row.seen = account
    BY <1>2, <1>4, AnsweredType
  <2> HIDE DEF row
  <2>3. Jobs' /\ job'[i] = row /\ \A k \in Invocations : k # i => job'[k] = job[k]
    BY <2>1, <2>2, MoveTypes DEF Jobs
  <2> QED BY <1>1, <1>4, <2>2, <2>3 DEF RunsTo
<1> QED BY <1>3, <1>4 DEF Run

LEMMA RequestTypes ==
  ASSUME Types, NEW i \in Invocations,
         Enqueue(i) \/ Grant(i) \/ Wait(i) \/ GiveUp(i) \/ Refresh(i) \/ Expire(i)
  PROVE  Types'
<1>1. CASE Enqueue(i)
  <2>1. Rest'
    BY <1>1 DEF Enqueue, outside, Rest, Types, TypeOK
  <2> QED BY <1>1, <2>1, EnqueueMoves, StepJobs, EnqueueFiled, TypesParts
<1>2. CASE Grant(i)
  <2>1. Rest'
    BY <1>2 DEF Grant, outside, Rest, Types, TypeOK
  <2> QED BY <1>2, <2>1, GrantMoves, StepJobs, GrantFiled, TypesParts
<1>3. CASE Wait(i)
  <2>1. Rest' /\ Jobs'
    BY <1>3 DEF Wait, outside, Rest, Jobs, Types, TypeOK
  <2> QED BY <1>3, <2>1, WaitFiled, TypesParts
<1>4. CASE GiveUp(i)
  <2>1. Rest'
    BY <1>4 DEF GiveUp, outside, Rest, Types, TypeOK
  <2>2. Jobs'
    BY <1>4, OverJobs DEF GiveUp, Inactive
  <2> QED BY <1>4, <2>1, <2>2, GiveUpFiled, TypesParts
<1>5. CASE Refresh(i) \/ Expire(i)
  <2>1. Rest'
    BY <1>5, CliAssumption DEF Refresh, Expire, outside, Rest, Types, TypeOK
  <2>2. Jobs'
    BY <1>5, LateFiled DEF Jobs, Types, TypeOK
  <2> QED BY <1>5, <2>1, <2>2, LateFiled, TypesParts
<1> QED BY <1>1, <1>2, <1>3, <1>4, <1>5

(* The steps of an invocation when its child has answered. *)
Commit(i) ==
    \/ AdvanceSession(i) \/ BindSession(i) \/ KeepSession(i)
    \/ AcceptReceipt(i) \/ AnswerQuery(i)

LEMMA CommitMoves ==
  ASSUME Types, NEW i \in Invocations, Commit(i)
  PROVE  StepsTo(i, "leaving") /\ job'[i].exit = job[i].exit
<1>1. job[i].session \in Invocation /\ i \in Invocation /\ None \in Invocation
  BY DEF Types, TypeOK, Job, Invocation
<1>2. job[i].pc = "ran"
  BY DEF Commit, AdvanceSession, BindSession, KeepSession, AcceptReceipt, AnswerQuery
<1>3. CASE AdvanceSession(i)
  <2>1. Committed(i, None) /\ ~(job[i].exit /\ job[i].op \in {"check", "credit"})
    BY <1>3 DEF AdvanceSession, Advances
  <2> QED BY <1>1, <1>2, <2>1, CommittedMoves
<1>4. CASE BindSession(i)
  <2>1. Committed(i, i) /\ i # None
    BY <1>4, NoneApart DEF BindSession
  <2> QED BY <1>1, <1>2, <2>1, CommittedMoves
<1>5. CASE KeepSession(i)
  <2>1. /\ Committed(i, job[i].session)
        /\ job[i].exit /\ job[i].op \in {"check", "credit"} => job[i].session # None
    BY <1>5 DEF KeepSession, Binds
  <2> QED BY <1>1, <1>2, <2>1, CommittedMoves
<1>6. CASE AcceptReceipt(i) \/ AnswerQuery(i)
  <2>1. Committed(i, job[i].session) /\ job[i].op \notin {"check", "credit"}
    BY <1>6 DEF AcceptReceipt, AnswerQuery
  <2> QED BY <1>1, <1>2, <2>1, CommittedMoves
<1> QED BY <1>3, <1>4, <1>5, <1>6 DEF Commit

LEMMA CommitTypes ==
  ASSUME Types, NEW i \in Invocations, Commit(i)
  PROVE  Types'
<1>1. /\ Jobs' /\ job'[i].pc = "leaving"
      /\ \A k \in Invocations : k # i => job'[k] = job[k]
  BY CommitMoves, StepJobs
<1>2. job[i].pc = "ran" /\ job[i] \in Job /\ Shaped(job[i]) /\ late' = late
  BY DEF Commit, AdvanceSession, BindSession, KeepSession, AcceptReceipt, AnswerQuery,
         outside, Types, TypeOK
<1>3. /\ job[i].seen \in Account /\ job[i].expect \in Invocation
      /\ job[i].op = "query" => job[i].target \in Invocations
  BY <1>2 DEF Job, Shaped, Invocation
<1>4. Filed' /\ Placed'
  <2>1. CASE AdvanceSession(i) \/ BindSession(i)
    <3>1. \E session \in Invocation : arbiter' = [arbiter EXCEPT !.session = session]
      BY <2>1 DEF AdvanceSession, BindSession, Invocation
    <3> QED BY <1>1, <1>2, <3>1, CommitFiled
  <2>2. CASE ~(AdvanceSession(i) \/ BindSession(i))
    <3>1. arbiter' = arbiter /\ arbiter \in ArbiterState
      BY <2>2 DEF Commit, KeepSession, AcceptReceipt, AnswerQuery, Types, TypeOK
    <3> QED BY <1>1, <1>2, <3>1, StayFiled
  <2> QED BY <2>1, <2>2
<1>5. Rest'
  <2>1. receipts' \in [Invocations -> Receipt]
    <3>1. [binding |-> job[i].expect, account |-> job[i].seen] \in Receipt
      BY <1>3 DEF Receipt
    <3> QED BY <3>1 DEF Commit, AdvanceSession, BindSession, KeepSession, AcceptReceipt,
                AnswerQuery, outside, Types, TypeOK
  <2>2. answers' \subseteq [receipt : Invocations, account : Account]
    BY <1>3 DEF Commit, AdvanceSession, BindSession, KeepSession, AcceptReceipt,
       AnswerQuery, outside, Types, TypeOK
  <2>3. owner' \in [Invocations -> Account]
    BY <1>3 DEF Commit, AdvanceSession, BindSession, KeepSession, AcceptReceipt,
       AnswerQuery, outside, Types, TypeOK
  <2>4. UNCHANGED <<flow, cli, confirmed, contested, faults>>
    BY DEF Commit, AdvanceSession, BindSession, KeepSession, AcceptReceipt,
       AnswerQuery, outside
  <2> QED BY <2>1, <2>2, <2>3, <2>4 DEF Rest, Types, TypeOK
<1> QED BY <1>1, <1>4, <1>5, TypesParts

(* The child is killed, or what it says is refused. *)
LEMMA KilledMoves ==
  ASSUME Types, NEW i \in Invocations, Killed(i) \/ Refused(i)
  PROVE  /\ UNCHANGED <<arbiter, late, outside>> /\ Jobs'
         /\ \A k \in Invocations : k # i => job'[k] = job[k]
         /\ \/ job[i].pc = "orphan" /\ job'[i] = Over("dead")
            \/ /\ job[i].pc \in {"granted", "ran"} /\ job'[i].pc = "leaving"
               /\ job'[i].exit = FALSE /\ Like(job'[i], job[i])
<1>1. UNCHANGED <<arbiter, late, outside>>
  BY DEF Killed, Refused
<1>2. CASE job[i].pc = "orphan"
  <2>1. job' = [job EXCEPT ![i] = Over("dead")]
    BY <1>2 DEF Killed, Refused
  <2> QED BY <1>1, <1>2, <2>1, OverJobs DEF Inactive
<1>3. CASE job[i].pc # "orphan"
  <2>1. job[i].pc \in {"granted", "ran"} /\ job' = [job EXCEPT ![i] = Failing(@)]
    BY <1>3 DEF Killed, Refused
  <2>2. StepsTo(i, "leaving") /\ Moves(i, Failing(job[i])) /\ Failing(job[i]).exit = FALSE
    BY <2>1, RefusedMoves
  <2>3. job'[i].exit = FALSE
    BY <2>2 DEF Moves
  <2> QED BY <1>1, <2>1, <2>2, <2>3, StepJobs
<1> QED BY <1>2, <1>3

LEMMA ChildTypes ==
  ASSUME Types, NEW i \in Invocations, Run(i) \/ Killed(i) \/ Refused(i)
  PROVE  Types'
<1>1. CASE Run(i)
  <2>1. /\ Jobs' /\ \A k \in Invocations : k # i => job'[k] = job[k]
        /\ \E exit \in BOOLEAN, account \in Account : RunsTo(i, exit, account)
    BY <1>1, RunJobs
  <2>2. cli' \in Account /\ \/ job[i].pc = "orphan" /\ job'[i].pc = "dead"
                            \/ job[i].pc = "granted" /\ job'[i].pc = "ran"
    BY <2>1, OverType DEF RunsTo, Inactive
  <2>3. Rest' /\ arbiter' = arbiter /\ late' = late /\ arbiter \in ArbiterState
    BY <1>1, <2>2 DEF Run, Rest, Types, TypeOK
  <2>4. Filed' /\ Placed'
    BY <2>1, <2>2, <2>3, StayFiled
  <2> QED BY <2>1, <2>3, <2>4, TypesParts
<1>2. CASE Killed(i) \/ Refused(i)
  <2>1. /\ UNCHANGED <<arbiter, late, outside>> /\ Jobs'
        /\ \A k \in Invocations : k # i => job'[k] = job[k]
        /\ \/ job[i].pc = "orphan" /\ job'[i] = Over("dead")
           \/ job[i].pc \in {"granted", "ran"} /\ job'[i].pc = "leaving"
    BY <1>2, KilledMoves
  <2>2. Rest' /\ arbiter \in ArbiterState
    BY <2>1 DEF outside, Rest, Types, TypeOK
  <2>3. Filed' /\ Placed'
    BY <2>1, <2>2, StayFiled, OverType DEF Inactive
  <2> QED BY <2>1, <2>2, <2>3, TypesParts
<1> QED BY <1>1, <1>2

Leave(i) == LeaveLogin(i) \/ LeaveSignedIn(i) \/ LeaveEnded(i)

(* An invocation leaves the service: over, or on to its own child. *)
LEMMA LeaveMoves ==
  ASSUME Types, NEW i \in Invocations, Leave(i)
  PROVE  /\ Jobs' /\ \A k \in Invocations : k # i => job'[k] = job[k]
         /\ \/ job'[i] = Over("done")
            \/ /\ LeaveSignedIn(i) /\ GoesOn(i)
               /\ IsNew(job'[i], job[i].proc, job[i].goal, job[i].goal, job[i].target,
                        None, job[i].session)
<1>1. CASE LeaveSignedIn(i) /\ GoesOn(i)
  BY <1>1, GoesOnMoves, BeginJobs
<1>2. CASE ~(LeaveSignedIn(i) /\ GoesOn(i))
  <2>1. job' = [job EXCEPT ![i] = Over("done")]
    BY <1>2 DEF Leave, LeaveLogin, LeaveSignedIn, LeaveEnded, Ended
  <2> QED BY <2>1, OverJobs DEF Inactive
<1> QED BY <1>1, <1>2

LEMMA LeaveTypes ==
  ASSUME Types, NEW i \in Invocations, Leave(i)
  PROVE  Types'
<1>1. /\ Jobs' /\ \A k \in Invocations : k # i => job'[k] = job[k]
      /\ job'[i].pc \in {"begun", "done"}
  BY LeaveMoves, OverType DEF Inactive, IsNew
<1>2. Filed' /\ Placed'
  <2>1. Released(i)
    BY DEF Leave, LeaveLogin, LeaveSignedIn, LeaveEnded
  <2> QED BY <1>1, <2>1, ReleasedFiled
<1>3. flow' \in [Processes -> Invocation]
  BY DEF Leave, LeaveLogin, LeaveSignedIn, LeaveEnded, Types, TypeOK, Invocation
<1>4. Rest'
  <2>1. UNCHANGED <<cli, confirmed, receipts, answers, owner, contested, faults>>
    BY DEF Leave, LeaveLogin, LeaveSignedIn, LeaveEnded
  <2> QED BY <1>3, <2>1 DEF Rest, Types, TypeOK
<1> QED BY <1>1, <1>2, <1>4, TypesParts

(* What people ask of a process begins an invocation. *)
LEMMA AskTypes ==
  ASSUME Types, NEW i \in Invocations, Ask(i)
  PROVE  Types'
<1>1. PICK p \in Processes :
         \/ StartLogin(i, p) \/ StartLogout(i, p)
         \/ StartStatus(i, p, "status", None) \/ StartStatus(i, p, "submit", None)
         \/ \E t \in Invocations : StartStatus(i, p, "query", t)
  BY DEF Ask
<1>2. Jobs' /\ \A k \in Invocations :
         \/ job'[k].pc \in {job[k].pc, "dead"}
         \/ job[k].pc = "idle" /\ job'[k].pc = "begun"
         \/ job[k].pc \in {"granted", "ran"} /\ job'[k].pc \in {"ran", "leaving", "orphan"}
  <2>1. CASE StartLogin(i, p)
    BY <2>1, StartLoginMoves, BeginJobs DEF IsNew
  <2>2. CASE StartLogout(i, p)
    BY <2>2, StartLogoutMoves DEF IsNew, Jobs
  <2>3. ASSUME NEW goal \in {"status", "submit", "query"}, NEW t \in Invocation,
               StartStatus(i, p, goal, t)
        PROVE  Jobs' /\ job[i].pc = "idle" /\ job'[i].pc = "begun"
               /\ \A k \in Invocations : k # i => job'[k] = job[k]
    BY <2>3, StartStatusMoves, BeginJobs DEF IsNew
  <2> QED BY <1>1, <2>1, <2>2, <2>3 DEF Invocation
<1>3. /\ arbiter' = arbiter /\ late' = late /\ arbiter \in ArbiterState
      /\ UNCHANGED <<cli, confirmed, receipts, answers, owner, contested, faults>>
      /\ flow' \in [Processes -> Invocation]
  BY <1>1 DEF StartLogin, StartLogout, StartStatus, outside, Types, TypeOK, Invocation
<1>4. Rest'
  BY <1>3 DEF Rest, Types, TypeOK
<1>5. Filed' /\ Placed'
  BY <1>2, <1>3, StayFiled
<1> QED BY <1>2, <1>4, <1>5, TypesParts

(* The flow of a process, its death, and the person at the account's page. *)
LEMMA OutsideTypes ==
  ASSUME Types,
         \/ \E p \in Processes : FlowExpires(p) \/ Crash(p)
         \/ \E c \in Invocations, a \in Accounts : Confirm(c, a)
  PROVE  Types'
<1>1. CASE \E p \in Processes : Crash(p)
  <2>1. PICK p \in Processes : Crash(p)
    BY <1>1
  <2>2. /\ job' \in [Invocations -> Job]
        /\ \A k \in Invocations :
               /\ Shaped(job'[k])
               /\ \/ job'[k] = job[k]
                  \/ job[k].pc = "granted" /\ job'[k].pc = "orphan"
                  \/ job'[k] = Over("dead")
    BY <2>1, CrashMoves
  <2>3. Jobs' /\ arbiter' = arbiter /\ late' = late /\ arbiter \in ArbiterState
    BY <2>1, <2>2 DEF Crash, Jobs, Types, TypeOK
  <2>4. Filed' /\ Placed'
    BY <2>2, <2>3, StayFiled, OverType DEF Inactive
  <2>5. Rest'
    BY <2>1, CliAssumption DEF Crash, Rest, Types, TypeOK, Invocation
  <2> QED BY <2>3, <2>4, <2>5, TypesParts
<1>2. CASE ~\E p \in Processes : Crash(p)
  <2>1. /\ arbiter' = arbiter /\ late' = late /\ job' = job
        /\ UNCHANGED <<cli, receipts, answers, owner, contested, faults>>
        /\ flow' \in [Processes -> Invocation]
        /\ confirmed' \in [Invocations -> Account]
    BY <1>2 DEF FlowExpires, Confirm, Types, TypeOK, Invocation, Account
  <2>2. Rest' /\ Jobs' /\ arbiter \in ArbiterState
    BY <2>1 DEF Rest, Jobs, Types, TypeOK
  <2>3. Filed' /\ Placed'
    BY <2>1, <2>2, StayFiled
  <2> QED BY <2>2, <2>3, TypesParts
<1> QED BY <1>1, <1>2

LEMMA TypesNext == Types /\ [Next]_vars => Types'
<1> SUFFICES ASSUME Types, [Next]_vars PROVE Types'
  OBVIOUS
<1>1. CASE UNCHANGED vars
  BY <1>1 DEF vars, Types, TypeOK, Placed
<1>2. ASSUME NEW i \in Invocations, Serve(i) PROVE Types'
  <2>1. \/ Enqueue(i) \/ Grant(i) \/ Wait(i) \/ GiveUp(i) \/ Refresh(i) \/ Expire(i)
        \/ Run(i) \/ Killed(i) \/ Refused(i) \/ Commit(i) \/ Leave(i)
    BY <1>2 DEF Serve, Commit, Leave
  <2> QED BY <2>1, RequestTypes, ChildTypes, CommitTypes, LeaveTypes
<1>3. ASSUME NEW i \in Invocations, Ask(i) PROVE Types'
  BY <1>3, AskTypes
<1>4. CASE \/ \E p \in Processes : FlowExpires(p) \/ Crash(p)
           \/ \E c \in Invocations, a \in Accounts : Confirm(c, a)
  BY <1>4, OutsideTypes
<1> QED BY <1>1, <1>2, <1>3, <1>4 DEF Next

LEMMA TypesInit == Init => Types
<1> SUFFICES ASSUME Init PROVE Types
  OBVIOUS
<1>1. arbiter \in ArbiterState
  BY DEF Init, ArbiterState, Invocation
<1>2. \A i \in Invocations : job[i] \in Job /\ Shaped(job[i]) /\ job[i].pc = "idle"
  BY RestingType DEF Init, Shaped, Inactive
<1>3. job \in [Invocations -> Job]
  BY <1>2 DEF Init
<1>4. receipts \in [Invocations -> Receipt]
  BY DEF Init, Receipt, Invocation, Account
<1>5. TypeOK
  BY <1>1, <1>3, <1>4, CliAssumption DEF Init, TypeOK, Invocation, Account
<1>6. Placed
  BY NoneApart DEF Init, Placed
<1> QED BY <1>2, <1>5, <1>6 DEF Types

(* The state file and what the agents keep of their invocations have their   *)
(* shape, no two requests have one ticket, and what is late is in the queue   *)
(* or has the lease.                                                          *)
THEOREM TypeCorrect == Spec => []TypeOK
<1>1. Types => TypeOK
  BY DEF Types
<1> QED BY TypesInit, TypesNext, <1>1, PTL DEF Spec

-----------------------------------------------------------------------------
(* The accounts that go with a binding.  A step that lets no other device    *)
(* code be redeemed.                                                         *)
Calmer == \A c \in Invocations : Waits(c)' => Waits(c)

LEMMA WaitsMeans == \A c \in Invocations : Waits(c) <=> c \in Redeemable
BY NoneApart DEF Waits, Redeemable

(* Device codes are only forgotten. *)
LEMMA ForgetCalmer ==
  ASSUME \A p \in Processes : flow'[p] \in {flow[p], None},
         \A k \in Invocations : job'[k].code \in {job[k].code, None}
  PROVE  Calmer
<1> SUFFICES ASSUME NEW c \in Invocations, Waits(c)'
             PROVE  Waits(c)
  BY DEF Calmer
<1>1. c # None
  BY NoneApart
<1> QED BY <1>1 DEF Waits

(* Only(a) after the step. *)
StillOnly(a) ==
    /\ cli' \in {None, a}
    /\ \A c \in Invocations : Waits(c)' => confirmed'[c] = a

LEMMA OnlyKept ==
  ASSUME Calmer, cli' = cli, confirmed' = confirmed
  PROVE  \A a : Only(a) => StillOnly(a)
BY DEF Only, StillOnly, Calmer

(* What invocation k was told, and whether it signs in, is as it was. *)
Steady(k) ==
    job'[k].pc \in {"ran", "leaving"} /\ job'[k].exit =>
       /\ job[k].exit /\ job[k].op = job'[k].op
       /\ job'[k].pc = "ran" =>
             /\ job[k].pc = "ran" /\ job'[k].seen = job[k].seen
             /\ arbiter'.active = k => arbiter.active = k
       /\ job'[k].pc = "leaving" =>
             /\ job[k].pc \in {"ran", "leaving"}
             /\ job[k].op = "login" /\ job'[k].ok /\ arbiter'.active = k =>
                   \/ arbiter'.session = None
                   \/ job[k].pc = "leaving" /\ job[k].ok /\ arbiter.active = k

(* Most steps leave the accounts alone. *)
LEMMA AccountsKept ==
  ASSUME Types, SignedInAs, Calmer, \A k \in Invocations : Steady(k),
         cli' = cli, confirmed' = confirmed, owner' = owner, contested' = contested,
         arbiter'.session \in {None, arbiter.session}
  PROVE  SignedInAs'
<1>1. Bound'
  <2> SUFFICES ASSUME arbiter'.session # None
               PROVE  /\ owner[arbiter'.session] # None
                      /\ arbiter'.session \notin contested => StillOnly(owner[arbiter'.session])
    BY DEF Bound, Only, StillOnly
  <2> QED BY OnlyKept DEF SignedInAs, Bound
<1>2. Dropped'
  BY DEF SignedInAs, Dropped, Steady
<1>3. Told'
  <2> SUFFICES ASSUME NEW i \in Invocations, job'[i].pc = "ran", job'[i].exit,
                      job'[i].op \in Asking, arbiter'.active = i
               PROVE  /\ job'[i].seen # None
                      /\ job'[i].op \in {"check", "credit"} /\ i \notin contested
                            => StillOnly(job'[i].seen)
                      /\ /\ job'[i].op \in {"submit", "query"}
                         /\ arbiter'.session \notin contested \cup {None}
                         => job'[i].seen = owner[arbiter'.session]
    BY DEF Told, Only, StillOnly
  <2>1. /\ job[i].pc = "ran" /\ job[i].exit /\ job[i].op = job'[i].op /\ arbiter.active = i
        /\ job'[i].seen = job[i].seen
    BY DEF Steady
  <2> QED BY <2>1, OnlyKept DEF SignedInAs, Told
<1> QED BY <1>1, <1>2, <1>3 DEF SignedInAs

(* An invocation that stays where it is, or fails, is steady. *)
LEMMA StaysSteady ==
  ASSUME Types, arbiter'.session = arbiter.session,
         NEW k \in Invocations, arbiter'.active = k => arbiter.active = k,
         \/ job'[k].pc = job[k].pc /\ job'[k].exit = job[k].exit /\ job'[k].op = job[k].op
            /\ job'[k].ok = job[k].ok /\ job'[k].seen = job[k].seen
         \/ job'[k].pc \notin {"ran", "leaving"}
         \/ job'[k].exit = FALSE
  PROVE  Steady(k)
BY DEF Steady

(* The queue, the lease and its time. *)
LEMMA RequestAccounts ==
  ASSUME Types, SignedInAs, NEW i \in Invocations,
         Enqueue(i) \/ Grant(i) \/ Wait(i) \/ GiveUp(i) \/ Refresh(i) \/ Expire(i)
  PROVE  SignedInAs'
<1>1. UNCHANGED <<flow, cli, confirmed, owner, contested>> /\ arbiter'.session = arbiter.session
  BY DEF Enqueue, Grant, Wait, GiveUp, Refresh, Expire, outside, Types, TypeOK, ArbiterState
<1>2. \A k \in Invocations : job'[k].code \in {job[k].code, None}
  <2>1. CASE Enqueue(i) \/ Grant(i)
    BY <2>1, EnqueueMoves, GrantMoves, StepJobs DEF Like
  <2>2. CASE GiveUp(i)
    BY <2>2, OverJobs, OverType DEF GiveUp, Inactive
  <2>3. CASE Wait(i) \/ Refresh(i) \/ Expire(i)
    BY <2>3 DEF Wait, Refresh, Expire
  <2> QED BY <2>1, <2>2, <2>3
<1>3. Calmer
  BY <1>1, <1>2, ForgetCalmer
<1>4. \A k \in Invocations : Steady(k)
  <2>1. CASE Enqueue(i)
    <3>1. job'[i].pc = "queued" /\ \A k \in Invocations : k # i => job'[k] = job[k]
      BY <2>1, EnqueueMoves, StepJobs
    <3>2. arbiter'.active \in {None, arbiter.active}
      BY <2>1, PrunedType DEF Enqueue, Types, TypeOK, ArbiterState
    <3> QED BY <1>1, <3>1, <3>2, StaysSteady, NoneApart
  <2>2. CASE Grant(i)
    <3>1. job'[i].pc = "granted" /\ \A k \in Invocations : k # i => job'[k] = job[k]
      BY <2>2, GrantMoves, StepJobs
    <3>2. arbiter'.active = i
      BY <2>2 DEF Grant, Types, TypeOK, ArbiterState
    <3>3. ASSUME NEW k \in Invocations, k # i PROVE Steady(k)
      BY <1>1, <3>1, <3>2, <3>3, StaysSteady
    <3>4. Steady(i)
      BY <3>1 DEF Steady
    <3> QED BY <3>3, <3>4
  <2>3. CASE Wait(i)
    <3>1. job' = job
      BY <2>3 DEF Wait
    <3>2. arbiter'.active \in {None, arbiter.active}
      BY <2>3, PrunedType DEF Wait, Types, TypeOK, ArbiterState
    <3> QED BY <1>1, <3>1, <3>2, StaysSteady, NoneApart
  <2>4. CASE GiveUp(i)
    <3>1. job'[i].pc = "done" /\ \A k \in Invocations : k # i => job'[k] = job[k]
      BY <2>4, OverJobs DEF GiveUp, Inactive
    <3>2. arbiter'.active = arbiter.active
      BY <2>4 DEF GiveUp, Types, TypeOK, ArbiterState
    <3> QED BY <1>1, <3>1, <3>2, StaysSteady
  <2>5. CASE Refresh(i) \/ Expire(i)
    <3>1. arbiter' = arbiter /\ job' = job
      BY <2>5, LateFiled
    <3> QED BY <3>1, StaysSteady
  <2> QED BY <2>1, <2>2, <2>3, <2>4, <2>5
<1> QED BY <1>1, <1>3, <1>4, AccountsKept

(* A child that is killed, and an answer that is refused. *)
LEMMA KilledAccounts ==
  ASSUME Types, SignedInAs, NEW i \in Invocations, Killed(i) \/ Refused(i)
  PROVE  SignedInAs'
<1>1. /\ UNCHANGED <<arbiter, flow, cli, confirmed, owner, contested>>
      /\ \A k \in Invocations : k # i => job'[k] = job[k]
      /\ \/ job'[i] = Over("dead")
         \/ job'[i].exit = FALSE /\ Like(job'[i], job[i])
  BY KilledMoves DEF outside
<1>2. \A k \in Invocations : job'[k].code \in {job[k].code, None}
  BY <1>1, OverType DEF Like, Inactive
<1>3. Calmer
  BY <1>1, <1>2, ForgetCalmer
<1>4. \A k \in Invocations : Steady(k)
  BY <1>1, StaysSteady, OverType DEF Inactive
<1> QED BY <1>1, <1>3, <1>4, AccountsKept

(* The commit of an answer: only BindSession names an account, and the one   *)
(* its child told it of is the one the CLI is signed in to, if to any.       *)
LEMMA CommitAccounts ==
  ASSUME Types, SignedInAs, NEW i \in Invocations, Commit(i)
  PROVE  SignedInAs'
<1>1. /\ job'[i].pc = "leaving" /\ Like(job'[i], job[i]) /\ job'[i].exit = job[i].exit
      /\ \A k \in Invocations : k # i => job'[k] = job[k]
  BY CommitMoves, StepJobs
<1>2. job[i].pc = "ran" /\ arbiter.active = i /\ UNCHANGED <<flow, cli, confirmed, contested>>
      /\ arbiter \in ArbiterState
  BY DEF Commit, AdvanceSession, BindSession, KeepSession, AcceptReceipt, AnswerQuery,
         MayCommit, HoldsLease, outside, Types, TypeOK
<1>3. Calmer
  BY <1>1, <1>2, ForgetCalmer DEF Like
<1>4. CASE BindSession(i)
  <2>1. /\ arbiter'.session = i /\ arbiter'.active = i
        /\ owner' = [owner EXCEPT ![i] = job[i].seen]
        /\ job[i].exit /\ job[i].op \in {"check", "credit"}
    BY <1>2, <1>4 DEF BindSession, Binds, ArbiterState
  <2>2. /\ job[i].seen # None
        /\ i \notin contested => Only(job[i].seen)
    BY <1>2, <2>1 DEF SignedInAs, Told, Asking
  <2>3. owner'[i] = job[i].seen
    BY <2>1 DEF Types, TypeOK
  <2>4. i \notin contested => StillOnly(owner'[i])
    BY <1>2, <1>3, <2>2, <2>3, OnlyKept
  <2>5. Bound'
    BY <1>2, <2>1, <2>2, <2>3, <2>4 DEF Bound, Only, StillOnly
  <2>6. Dropped'
    BY <1>1, <1>2, <2>1 DEF Dropped, SignedInAs, Like
  <2>7. Told'
    BY <1>1, <2>1 DEF Told
  <2> QED BY <2>5, <2>6, <2>7 DEF SignedInAs
<1>5. CASE ~BindSession(i)
  <2>1. /\ owner' = owner /\ arbiter'.active = i
        /\ \/ arbiter'.session = None
           \/ arbiter'.session = arbiter.session /\ (job[i].op = "login" => ~job[i].exit)
    BY <1>2, <1>5 DEF Commit, AdvanceSession, KeepSession, AcceptReceipt, AnswerQuery,
       outside, Advances, ArbiterState
  <2>2. \A k \in Invocations : Steady(k)
    BY <1>1, <1>2, <2>1 DEF Steady, Like
  <2> QED BY <1>2, <1>3, <2>1, <2>2, AccountsKept
<1> QED BY <1>4, <1>5

(* An invocation leaves: a login that succeeded leaves its device code, *)
(* when there is no binding.                                                 *)
LEMMA LeaveAccounts ==
  ASSUME Types, SignedInAs, NEW i \in Invocations, Leave(i)
  PROVE  SignedInAs'
<1>1. /\ job'[i].code = None /\ job'[i].op # "login" /\ job'[i].pc \in {"begun", "done"}
      /\ \A k \in Invocations : k # i => job'[k] = job[k]
  <2>1. CASE job'[i] = Over("done")
    BY <2>1, LeaveMoves, OverType DEF Inactive
  <2>2. CASE job'[i] # Over("done")
    BY <2>2, LeaveMoves DEF IsNew, GoesOn
  <2> QED BY <2>1, <2>2
<1>2. /\ UNCHANGED <<cli, confirmed, owner, contested>> /\ arbiter \in ArbiterState
      /\ arbiter' = [arbiter EXCEPT !.active = IF @ = i THEN None ELSE @]
  BY DEF Leave, LeaveLogin, LeaveSignedIn, LeaveEnded, Released, Types, TypeOK
<1>3. /\ arbiter'.session = arbiter.session
      /\ arbiter'.active = IF arbiter.active = i THEN None ELSE arbiter.active
  BY <1>2 DEF ArbiterState
<1>4. \A k \in Invocations : Steady(k)
  <2>1. \A k \in Invocations : arbiter'.active = k => arbiter.active = k
    BY <1>3, NoneApart
  <2> QED BY <1>1, <1>3, <2>1, StaysSteady
<1>5. CASE LeaveLogin(i) /\ Succeeded(i) /\ job[i].exit /\ ~job[i].stale
  <2>1. /\ job[i].pc = "leaving" /\ job[i].op = "login" /\ job[i].ok /\ arbiter.active = i
        /\ flow' = [flow EXCEPT ![job[i].proc] = i]
    BY <1>5 DEF LeaveLogin, Released, Succeeded, HoldsLease
  <2>2. arbiter.session = None
    BY <1>5, <2>1 DEF SignedInAs, Dropped
  <2>3. Bound' /\ Dropped'
    BY <1>3, <2>2 DEF Bound, Dropped
  <2>4. Told'
    <3> \A k \in Invocations : arbiter'.active # k
      BY <1>3, <2>1, NoneApart
    <3> QED BY DEF Told
  <2> QED BY <2>3, <2>4 DEF SignedInAs
<1>6. CASE ~(LeaveLogin(i) /\ Succeeded(i) /\ job[i].exit /\ ~job[i].stale)
  <2>1. \A p \in Processes : flow'[p] \in {flow[p], None}
    BY <1>6 DEF Leave, LeaveLogin, LeaveSignedIn, LeaveEnded, Types, TypeOK
  <2>2. Calmer
    BY <1>1, <2>1, ForgetCalmer
  <2> QED BY <1>2, <1>3, <1>4, <2>2, AccountsKept
<1> QED BY <1>5, <1>6

(* What people begin: a check is of the device code its process waits for.   *)
LEMMA AskAccounts ==
  ASSUME Types, SignedInAs, NEW i \in Invocations, Ask(i)
  PROVE  SignedInAs'
<1>1. PICK p \in Processes :
         \/ StartLogin(i, p) \/ StartLogout(i, p)
         \/ StartStatus(i, p, "status", None) \/ StartStatus(i, p, "submit", None)
         \/ \E t \in Invocations : StartStatus(i, p, "query", t)
  BY DEF Ask
<1>2. UNCHANGED <<arbiter, cli, confirmed, owner, contested>>
  BY <1>1 DEF StartLogin, StartLogout, StartStatus, outside
<1> SUFFICES Calmer /\ \A k \in Invocations : Steady(k)
  BY <1>2, AccountsKept
<1>3. CASE StartLogin(i, p)
  <2>1. /\ \A k \in Invocations : k # i => job'[k] = job[k]
        /\ IsNew(job'[i], p, "login", "login", None, None, None)
    BY <1>3, StartLoginMoves, BeginJobs
  <2>2. flow' = flow
    BY <1>3 DEF StartLogin, outside
  <2>3. Calmer
    BY <2>1, <2>2, ForgetCalmer DEF IsNew
  <2>4. \A k \in Invocations : Steady(k)
    BY <1>2, <2>1, StaysSteady DEF IsNew
  <2> QED BY <2>3, <2>4
<1>4. CASE StartLogout(i, p)
  <2>1. /\ IsNew(job'[i], p, "logout", "logout", None, None, None)
        /\ \A k \in Invocations : k # i =>
               /\ Like(job'[k], job[k])
               /\ \/ job'[k].exit = FALSE
                  \/ /\ job'[k].pc = job[k].pc /\ job'[k].exit = job[k].exit
                     /\ job'[k].ok = job[k].ok /\ job'[k].seen = job[k].seen
    BY <1>4, StartLogoutMoves
  <2>2. \A q \in Processes : flow'[q] \in {flow[q], None}
    BY <1>4 DEF StartLogout, Types, TypeOK
  <2>3. Calmer
    BY <2>1, <2>2, ForgetCalmer DEF Like, IsNew
  <2>4. Steady(i)
    BY <2>1 DEF Steady, IsNew
  <2>5. ASSUME NEW k \in Invocations, k # i PROVE Steady(k)
    BY <1>2, <2>1, <2>5, StaysSteady DEF Like
  <2> QED BY <2>3, <2>4, <2>5
<1>5. ASSUME NEW goal \in {"status", "submit", "query"}, NEW t \in Invocation,
             StartStatus(i, p, goal, t)
      PROVE  Calmer /\ \A k \in Invocations : Steady(k)
  <2>1. /\ \A k \in Invocations : k # i => job'[k] = job[k]
        /\ job'[i].code = flow[p] /\ job'[i].op # "login" /\ job'[i].pc = "begun"
    BY <1>5, StartStatusMoves, BeginJobs DEF IsNew
  <2>2. flow' = flow
    BY <1>5 DEF StartStatus, outside
  <2>3. Calmer
    BY <2>1, <2>2 DEF Calmer, Waits
  <2>4. \A k \in Invocations : Steady(k)
    BY <1>2, <2>1, StaysSteady
  <2> QED BY <2>3, <2>4
<1> QED BY <1>1, <1>3, <1>4, <1>5 DEF Invocation

(* A flow that expires, a process that dies, and the person who confirms a   *)
(* device code, which no binding or answer that is not contested has seen.   *)
LEMMA OutsideAccounts ==
  ASSUME Types, SignedInAs,
         \/ \E p \in Processes : FlowExpires(p) \/ Crash(p)
         \/ \E c \in Invocations, a \in Accounts : Confirm(c, a)
  PROVE  SignedInAs'
<1>1. CASE \E p \in Processes : FlowExpires(p) \/ Crash(p)
  <2>1. PICK p \in Processes : FlowExpires(p) \/ Crash(p)
    BY <1>1
  <2>2. UNCHANGED <<arbiter, cli, confirmed, owner, contested>>
        /\ \A q \in Processes : flow'[q] \in {flow[q], None}
    BY <2>1 DEF FlowExpires, Crash, Types, TypeOK
  <2>3. \A k \in Invocations :
           \/ job'[k] = job[k]
           \/ job'[k].pc = "orphan" /\ Like(job'[k], job[k])
           \/ job'[k].pc = "dead" /\ job'[k].code = None /\ job'[k].op = "none"
    BY <2>1, CrashMoves, OverType DEF FlowExpires, Inactive
  <2>4. Calmer
    BY <2>2, <2>3, ForgetCalmer DEF Like
  <2>5. \A k \in Invocations : Steady(k)
    BY <2>2, <2>3, StaysSteady
  <2> QED BY <2>2, <2>4, <2>5, AccountsKept
<1>2. CASE \E c \in Invocations, a \in Accounts : Confirm(c, a)
  <2>1. PICK c \in Invocations, a \in Accounts : Confirm(c, a)
    BY <1>2
  <2>2. /\ confirmed[c] = None /\ Waits(c)
        /\ UNCHANGED <<arbiter, flow, job, cli, owner, contested>>
    BY <2>1, WaitsMeans DEF Confirm
  <2>3. \A b : Only(b) => b = None
    BY <2>2 DEF Only
  <2>4. Bound'
    BY <2>2, <2>3 DEF SignedInAs, Bound
  <2>5. Told'
    BY <2>2, <2>3 DEF SignedInAs, Told
  <2>6. Dropped'
    BY <2>2 DEF SignedInAs, Dropped
  <2> QED BY <2>4, <2>5, <2>6 DEF SignedInAs
<1> QED BY <1>1, <1>2

(* A child ends: it leaves the CLI signed out, as it found it, or signed in   *)
(* with the account of the device code that its invocation redeems.          *)
LEMMA RunAccounts ==
  ASSUME Types, SignedInAs, NEW i \in Invocations, Run(i)
  PROVE  SignedInAs'
<1>1. PICK exit \in BOOLEAN, account \in Account : RunsTo(i, exit, account)
  BY RunJobs
<1>2. UNCHANGED <<arbiter, flow, confirmed, owner>>
      /\ \A k \in Invocations : k # i => job'[k] = job[k]
  BY RunJobs DEF Run
<1>3. \A k \in Invocations : job'[k].code \in {job[k].code, None}
  BY <1>1, <1>2, OverType DEF RunsTo, Like, Inactive
<1>4. Calmer
  BY <1>2, <1>3, ForgetCalmer
<1>5. job[i].op = "check" => Waits(job[i].code) /\ job[i].code \in Invocations
  BY DEF Waits, Types, TypeOK, Shaped, Job, Invocation
<1>6. \/ cli' = None \/ cli' = cli
      \/ job[i].op = "check" /\ cli' = confirmed[job[i].code]
  BY <1>1 DEF RunsTo, LeavesSignedIn
<1>7. \A a : Only(a) => StillOnly(a)
  BY <1>2, <1>4, <1>5, <1>6 DEF Only, StillOnly, Calmer
<1>8. contested \subseteq contested'
  BY <1>1 DEF RunsTo
<1>9. Bound'
  BY <1>2, <1>7, <1>8 DEF SignedInAs, Bound, Only, StillOnly
<1>10. Dropped'
  <2> SUFFICES ASSUME NEW k \in Invocations, job'[k].op = "login", job'[k].pc = "leaving",
                      job'[k].exit, job'[k].ok, arbiter.active = k
               PROVE  arbiter.session = None
    BY <1>2 DEF Dropped
  <2>1. k # i
    BY <1>1, OverType DEF RunsTo, Inactive
  <2> QED BY <1>2, <2>1 DEF SignedInAs, Dropped
<1>11. Told'
  <2> SUFFICES ASSUME NEW k \in Invocations, job'[k].pc = "ran", job'[k].exit,
                      job'[k].op \in Asking, arbiter.active = k
               PROVE  /\ job'[k].seen # None
                      /\ job'[k].op \in {"check", "credit"} /\ k \notin contested'
                            => StillOnly(job'[k].seen)
                      /\ /\ job'[k].op \in {"submit", "query"}
                         /\ arbiter.session \notin contested' \cup {None}
                         => job'[k].seen = owner[arbiter.session]
    BY <1>2 DEF Told, Only, StillOnly
  <2>1. CASE k = i
    <3>1. /\ job'[i].seen = account /\ job'[i].op = job[i].op /\ job[i].op \in Asking
          /\ exit /\ account \in LeavesSignedIn(i) /\ cli' = account
      BY <1>1, <2>1, OverType DEF RunsTo, Like, Inactive
    <3>2. account # None
      BY <3>1 DEF LeavesSignedIn, Asking
    <3>3. i \notin contested' => StillOnly(account)
      <4> SUFFICES ASSUME i \notin contested', NEW c \in Invocations, Waits(c)'
                   PROVE  confirmed[c] = account
        BY <1>2, <3>1 DEF StillOnly
      <4>1. c \in Redeemable
        BY <1>4, WaitsMeans DEF Calmer
      <4> QED BY <1>1, <3>1, <4>1 DEF RunsTo
    <3>4. job[i].op \in {"submit", "query"} => account = cli
      BY <3>1 DEF LeavesSignedIn
    <3>5. arbiter.session \notin contested' \cup {None} => cli \in {None, owner[arbiter.session]}
      BY <1>8 DEF SignedInAs, Bound, Only
    <3> QED BY <2>1, <3>1, <3>2, <3>3, <3>4, <3>5
  <2>2. CASE k # i
    <3>1. job'[k] = job[k]
      BY <1>2, <2>2
    <3> QED BY <1>7, <1>8, <3>1 DEF SignedInAs, Told
  <2> QED BY <2>1, <2>2
<1> QED BY <1>9, <1>10, <1>11 DEF SignedInAs

LEMMA AccountsNext ==
  ASSUME Types, SignedInAs, [Next]_vars
  PROVE  SignedInAs'
<1>1. CASE UNCHANGED vars
  <2> \A c \in Invocations : Waits(c)' <=> Waits(c)
    BY <1>1 DEF vars, Waits
  <2> QED BY <1>1 DEF vars, SignedInAs, Bound, Dropped, Told, Only
<1>2. ASSUME NEW i \in Invocations, Serve(i) PROVE SignedInAs'
  <2>1. \/ Enqueue(i) \/ Grant(i) \/ Wait(i) \/ GiveUp(i) \/ Refresh(i) \/ Expire(i)
        \/ Run(i) \/ (Killed(i) \/ Refused(i)) \/ Commit(i) \/ Leave(i)
    BY <1>2 DEF Serve, Commit, Leave
  <2> QED BY <2>1, RequestAccounts, RunAccounts, KilledAccounts, CommitAccounts, LeaveAccounts
<1>3. ASSUME NEW i \in Invocations, Ask(i) PROVE SignedInAs'
  BY <1>3, AskAccounts
<1>4. CASE \/ \E p \in Processes : FlowExpires(p) \/ Crash(p)
           \/ \E c \in Invocations, a \in Accounts : Confirm(c, a)
  BY <1>4, OutsideAccounts
<1> QED BY <1>1, <1>2, <1>3, <1>4 DEF Next

-----------------------------------------------------------------------------
(* Bindings, records and answers.  What invocation k makes of its own is as  *)
(* new as it was, and what it asks for is the work of an accepted record.    *)
Follows(k) ==
    /\ job'[k].pc = "idle" => job[k].pc = "idle"
    /\ job'[k].op \in ServiceWork =>
          \/ job[k].pc = "idle"
          \/ /\ job[k].op \in ServiceWork
             /\ job'[k].pc \in Uncommitted => job[k].pc \in Uncommitted
    /\ job'[k].op = "submit" /\ job'[k].pc \in Uncommitted =>
          \/ job[k].op \in ServiceWork
          \/ job[k].op = "submit" /\ job[k].pc \in Uncommitted
    /\ job'[k].goal = "query" => Accepted(job'[k].target)
    /\ job'[k].op = "query" => receipts[job'[k].target].binding = job'[k].expect

LEMMA RecordsKept ==
  ASSUME Unused, Kept, receipts' = receipts, answers' = answers, owner' = owner,
         contested \subseteq contested',
         \A k \in Invocations : Follows(k)
  PROVE  Unused' /\ Kept'
<1>1. \A k : Accepted(k)' <=> Accepted(k)
  BY DEF Accepted
<1>2. Unused'
  <2> SUFFICES ASSUME NEW k \in Invocations
               PROVE  /\ \/ job'[k].pc = "idle"
                         \/ job'[k].op \in ServiceWork /\ job'[k].pc \in Uncommitted
                         => owner[k] = None
                      /\ \/ job'[k].pc = "idle" \/ job'[k].op \in ServiceWork
                         \/ job'[k].op = "submit" /\ job'[k].pc \in Uncommitted
                         => ~Accepted(k)
    BY <1>1 DEF Unused
  <2> QED BY DEF Unused, Follows
<1>3. Kept'
  <2>1. \A k \in Invocations :
          /\ job'[k].goal = "query" => Accepted(job'[k].target)
          /\ job'[k].op = "query" => receipts[job'[k].target].binding = job'[k].expect
    BY DEF Follows
  <2>2. \A k \in Invocations : job'[k].goal = "query" => receipts[job'[k].target].binding # None
    BY <2>1 DEF Accepted
  <2> QED BY <2>1, <2>2 DEF Kept, Accepted
<1> QED BY <1>2, <1>3

(* An invocation that goes on with what it is about. *)
LEMMA LikeFollows ==
  ASSUME Kept, NEW k \in Invocations, Like(job'[k], job[k]),
         job'[k].pc = "idle" => job[k].pc = "idle",
         job'[k].pc \in Uncommitted => job[k].pc \in Uncommitted
  PROVE  Follows(k)
BY DEF Kept, Like, Follows

(* One that is over has nothing of its own. *)
LEMMA OverFollows ==
  ASSUME NEW k \in Invocations, NEW pc \in {"done", "dead"}, job'[k] = Over(pc)
  PROVE  Follows(k)
<1>1. job'[k].pc = pc /\ job'[k].op = "none" /\ job'[k].goal = "none"
  BY OverType DEF Inactive
<1> QED BY <1>1 DEF Follows, ServiceWork

LEMMA RequestRecords ==
  ASSUME Types, Unused, Kept, NEW i \in Invocations,
         \/ Enqueue(i) \/ Grant(i) \/ Wait(i) \/ GiveUp(i) \/ Refresh(i) \/ Expire(i)
         \/ Run(i) \/ Killed(i) \/ Refused(i)
  PROVE  Unused' /\ Kept'
<1>1. /\ receipts' = receipts /\ answers' = answers /\ owner' = owner
      /\ contested \subseteq contested'
  BY DEF Enqueue, Grant, Wait, GiveUp, Refresh, Expire, Run, Killed, Refused, outside
<1>2. \A k \in Invocations : job'[k] = job[k] => Follows(k)
  BY LikeFollows DEF Like
<1>3. \A k \in Invocations : k # i => job'[k] = job[k]
  <2>1. CASE Enqueue(i) \/ Grant(i)
    BY <2>1, EnqueueMoves, GrantMoves, StepJobs
  <2>2. CASE GiveUp(i)
    BY <2>2, OverJobs DEF GiveUp, Inactive
  <2>3. CASE Wait(i) \/ Refresh(i) \/ Expire(i)
    BY <2>3 DEF Wait, Refresh, Expire
  <2>4. CASE Run(i) \/ Killed(i) \/ Refused(i)
    BY <2>4, RunJobs, KilledMoves
  <2> QED BY <2>1, <2>2, <2>3, <2>4
<1>4. Follows(i)
  <2>1. CASE Enqueue(i)
    <3>1. Like(job'[i], job[i]) /\ job'[i].pc = "queued"
      BY <2>1, EnqueueMoves, StepJobs
    <3>2. job[i].pc = "begun"
      BY <2>1 DEF Enqueue
    <3> QED BY <3>1, <3>2, LikeFollows DEF Uncommitted
  <2>2. CASE Grant(i)
    <3>1. Like(job'[i], job[i]) /\ job'[i].pc = "granted"
      BY <2>2, GrantMoves, StepJobs
    <3>2. job[i].pc = "queued"
      BY <2>2 DEF Grant
    <3> QED BY <3>1, <3>2, LikeFollows DEF Uncommitted
  <2>3. CASE GiveUp(i)
    BY <2>3, OverJobs, OverFollows DEF GiveUp, Inactive
  <2>4. CASE Wait(i) \/ Refresh(i) \/ Expire(i)
    BY <1>2, <2>4 DEF Wait, Refresh, Expire
  <2>5. CASE Run(i)
    <3>1. PICK exit \in BOOLEAN, account \in Account : RunsTo(i, exit, account)
      BY <2>5, RunJobs
    <3>2. \/ job'[i] = Over("dead")
          \/ job[i].pc = "granted" /\ job'[i].pc = "ran" /\ Like(job'[i], job[i])
      BY <3>1 DEF RunsTo
    <3> QED BY <3>2, OverFollows, LikeFollows DEF Uncommitted
  <2>6. CASE Killed(i) \/ Refused(i)
    <3>1. \/ job'[i] = Over("dead")
          \/ job'[i].pc = "leaving" /\ Like(job'[i], job[i])
      BY <2>6, KilledMoves
    <3> QED BY <3>1, OverFollows, LikeFollows DEF Uncommitted
  <2> QED BY <2>1, <2>2, <2>3, <2>4, <2>5, <2>6
<1> QED BY <1>1, <1>2, <1>3, <1>4, RecordsKept

(* Of the commits, a binding is new, a record is bound to the account its    *)
(* child told, and an answer is one of the account of its record.            *)
LEMMA CommitRecords ==
  ASSUME Types, SignedInAs, Unused, Kept, NEW i \in Invocations, Commit(i)
  PROVE  Unused' /\ Kept'
<1>1. /\ job'[i].pc = "leaving" /\ Like(job'[i], job[i])
      /\ \A k \in Invocations : k # i => job'[k] = job[k]
  BY CommitMoves, StepJobs
<1>2. job[i].pc = "ran" /\ arbiter.active = i /\ ExpectedSession(i)
  BY DEF Commit, AdvanceSession, BindSession, KeepSession, AcceptReceipt, AnswerQuery,
         MayCommit, HoldsLease
<1>3. \A k \in Invocations : Follows(k)
  <2>1. Follows(i)
    BY <1>1, LikeFollows DEF Uncommitted
  <2>2. ASSUME NEW k \in Invocations, k # i PROVE Follows(k)
    BY <1>1, <2>2, LikeFollows DEF Like
  <2> QED BY <2>1, <2>2
<1>4. ASSUME job[i].exit, job[i].op \in {"submit", "query"}
      PROVE  /\ job[i].expect # None /\ owner[job[i].expect] # None
             /\ job[i].expect \notin contested => owner[job[i].expect] = job[i].seen
  <2>1. job[i].expect # None /\ job[i].expect = arbiter.session
    BY <1>2, <1>4 DEF ExpectedSession, Types, Shaped
  <2> QED BY <1>2, <1>4, <2>1 DEF SignedInAs, Bound, Told, Asking
<1>5. CASE AdvanceSession(i) \/ KeepSession(i)
  BY <1>3, <1>5, RecordsKept DEF AdvanceSession, KeepSession, outside
<1>6. CASE BindSession(i)
  <2>1. /\ owner' = [owner EXCEPT ![i] = job[i].seen]
        /\ receipts' = receipts /\ answers' = answers /\ owner[i] = None
        /\ job[i].op \in ServiceWork /\ contested' = contested
    BY <1>2, <1>6 DEF BindSession, Binds, Unused, ServiceWork, Uncommitted
  <2>2. \A k \in Invocations : k # i => owner'[k] = owner[k]
    BY <2>1 DEF Types, TypeOK
  <2>3. Unused'
    BY <1>1, <2>1, <2>2 DEF Unused, Accepted, Like, Uncommitted
  <2>4. Kept'
    <3>1. \A k \in Invocations : Accepted(k) =>
             receipts[k].binding # i /\ receipts[k].binding \in Invocations
      BY <2>1 DEF Kept, Accepted, Types, TypeOK, Receipt, Invocation
    <3>2. \A k \in Invocations :
             /\ job'[k].goal = job[k].goal /\ job'[k].op = job[k].op
             /\ job'[k].target = job[k].target /\ job'[k].expect = job[k].expect
      BY <1>1 DEF Like
    <3> QED BY <2>1, <2>2, <3>1, <3>2 DEF Kept, Accepted
  <2> QED BY <2>3, <2>4
<1>7. CASE AcceptReceipt(i)
  <2>1. /\ owner' = owner /\ answers' = answers /\ job[i].op = "submit"
        /\ contested' = contested
        /\ receipts' = IF job[i].exit
              THEN [receipts EXCEPT ![i] = [binding |-> job[i].expect,
                                            account |-> job[i].seen]]
              ELSE receipts
    BY <1>7 DEF AcceptReceipt
  <2>2. CASE ~job[i].exit
    BY <1>3, <2>1, <2>2, RecordsKept
  <2>3. CASE job[i].exit
    <3>1. ~Accepted(i)
      BY <1>2, <2>1 DEF Unused, Uncommitted
    <3>2. /\ receipts'[i].binding = job[i].expect /\ receipts'[i].account = job[i].seen
          /\ \A k \in Invocations : k # i => receipts'[k] = receipts[k]
      BY <2>1, <2>3 DEF Types, TypeOK
    <3>3. \A k \in Invocations :
             /\ job'[k].goal = job[k].goal /\ job'[k].op = job[k].op
             /\ job'[k].target = job[k].target /\ job'[k].expect = job[k].expect
             /\ k # i => job'[k].pc = job[k].pc
      BY <1>1 DEF Like
    <3>4. Unused'
      BY <1>1, <2>1, <3>2, <3>3 DEF Unused, Accepted, ServiceWork, Uncommitted
    <3>5. \A k \in Invocations : job[k].goal = "query" => job[k].target \in Invocations \ {i}
      BY <3>1 DEF Kept, Types, TypeOK, Job, Shaped, Invocation
    <3>6. \A answer \in answers : answer.receipt \in Invocations \ {i}
      BY <3>1 DEF Kept, Types, TypeOK
    <3>7. \A k \in Invocations : job[k].op = "query" => job[k].goal = "query"
      BY DEF Types, Shaped
    <3>8. Kept'
      <4>1. \A k \in Invocations : receipts'[k].binding # None =>
               /\ owner[receipts'[k].binding] # None
               /\ receipts'[k].binding \notin contested =>
                     receipts'[k].account = owner[receipts'[k].binding]
        BY <1>4, <2>1, <2>3, <3>2 DEF Kept, Accepted
      <4>2. \A k \in Invocations :
               /\ job[k].goal = "query" => receipts'[job[k].target].binding # None
               /\ job[k].op = "query" => receipts'[job[k].target].binding = job[k].expect
        BY <3>2, <3>5, <3>7 DEF Kept, Accepted
      <4>3. \A answer \in answers :
               /\ receipts'[answer.receipt].binding # None
               /\ receipts'[answer.receipt].binding \notin contested =>
                     answer.account = receipts'[answer.receipt].account
        BY <3>2, <3>6 DEF Kept, Accepted
      <4> QED BY <2>1, <3>3, <4>1, <4>2, <4>3 DEF Kept, Accepted
    <3> QED BY <3>4, <3>8
  <2> QED BY <2>2, <2>3
<1>8. CASE AnswerQuery(i)
  <2>1. /\ owner' = owner /\ receipts' = receipts /\ job[i].op = "query"
        /\ contested' = contested
        /\ answers' = IF job[i].exit
              THEN answers \cup {[receipt |-> job[i].target, account |-> job[i].seen]}
              ELSE answers
    BY <1>8 DEF AnswerQuery
  <2>2. CASE ~job[i].exit
    BY <1>3, <2>1, <2>2, RecordsKept
  <2>3. CASE job[i].exit
    <3>1. /\ Accepted(job[i].target) /\ job[i].target \in Invocations
          /\ receipts[job[i].target].binding = job[i].expect
      BY <2>1 DEF Kept, Types, TypeOK, Shaped, Job, Invocation
    <3>2. receipts[job[i].target].binding \notin contested =>
             job[i].seen = receipts[job[i].target].account
      BY <1>4, <2>1, <2>3, <3>1 DEF Kept
    <3>3. \A answer \in answers' :
             /\ receipts[answer.receipt].binding # None
             /\ receipts[answer.receipt].binding \notin contested =>
                   answer.account = receipts[answer.receipt].account
      BY <2>1, <2>3, <3>1, <3>2 DEF Kept, Accepted
    <3>4. \A k \in Invocations :
             /\ job'[k].goal = job[k].goal /\ job'[k].op = job[k].op
             /\ job'[k].target = job[k].target /\ job'[k].expect = job[k].expect
             /\ k # i => job'[k].pc = job[k].pc
      BY <1>1 DEF Like
    <3>5. Unused'
      BY <1>1, <2>1, <3>4 DEF Unused, Accepted, ServiceWork, Uncommitted
    <3>6. Kept'
      BY <2>1, <3>3, <3>4 DEF Kept, Accepted
    <3> QED BY <3>5, <3>6
  <2> QED BY <2>2, <2>3
<1> QED BY <1>5, <1>6, <1>7, <1>8 DEF Commit

(* Work goes on to a query only of a record bound to the session it found. *)
LEMMA LeaveRecords ==
  ASSUME Types, Unused, Kept, NEW i \in Invocations, Leave(i)
  PROVE  Unused' /\ Kept'
<1>1. /\ receipts' = receipts /\ answers' = answers /\ owner' = owner
      /\ contested' = contested
  BY DEF Leave, LeaveLogin, LeaveSignedIn, LeaveEnded
<1>2. \A k \in Invocations : k # i => job'[k] = job[k]
  BY LeaveMoves
<1>3. Follows(i)
  <2>1. CASE job'[i] = Over("done")
    BY <2>1, OverFollows
  <2>2. CASE job'[i] # Over("done")
    <3>1. /\ LeaveSignedIn(i) /\ GoesOn(i)
          /\ IsNew(job'[i], job[i].proc, job[i].goal, job[i].goal, job[i].target,
                   None, job[i].session)
      BY <2>2, LeaveMoves
    <3>2. job[i].op \in ServiceWork /\ job[i].goal \in {"submit", "query"}
      BY <3>1 DEF LeaveSignedIn, SignedIn, GoesOn, ServiceWork
    <3>3. job[i].goal = "query" => /\ Accepted(job[i].target)
                                   /\ receipts[job[i].target].binding = job[i].session
      BY <3>1 DEF Kept, GoesOn
    <3> QED BY <3>1, <3>2, <3>3 DEF IsNew, Follows, ServiceWork
  <2> QED BY <2>1, <2>2
<1>4. ASSUME NEW k \in Invocations, k # i PROVE Follows(k)
  BY <1>2, <1>4, LikeFollows DEF Like
<1> QED BY <1>1, <1>3, <1>4, RecordsKept

(* What people begin is new, and a query is of an accepted record. *)
LEMMA AskRecords ==
  ASSUME Types, Unused, Kept, NEW i \in Invocations, Ask(i)
  PROVE  Unused' /\ Kept'
<1>1. PICK p \in Processes :
         \/ StartLogin(i, p) \/ StartLogout(i, p)
         \/ StartStatus(i, p, "status", None) \/ StartStatus(i, p, "submit", None)
         \/ \E t \in Invocations : StartStatus(i, p, "query", t)
  BY DEF Ask
<1>2. /\ receipts' = receipts /\ answers' = answers /\ owner' = owner
      /\ contested' = contested
  BY <1>1 DEF StartLogin, StartLogout, StartStatus, outside
<1> SUFFICES \A k \in Invocations : Follows(k)
  BY <1>2, RecordsKept
<1>3. CASE StartLogin(i, p)
  <2>1. /\ job[i].pc = "idle" /\ \A k \in Invocations : k # i => job'[k] = job[k]
        /\ IsNew(job'[i], p, "login", "login", None, None, None)
    BY <1>3, StartLoginMoves, BeginJobs
  <2>2. Follows(i)
    BY <2>1 DEF Follows, IsNew
  <2> QED BY <2>1, <2>2, LikeFollows DEF Like
<1>4. CASE StartLogout(i, p)
  <2>1. /\ job[i].pc = "idle" /\ IsNew(job'[i], p, "logout", "logout", None, None, None)
        /\ \A k \in Invocations : k # i =>
               /\ Like(job'[k], job[k])
               /\ job'[k].pc = "leaving" \/ job'[k].pc = job[k].pc
    BY <1>4, StartLogoutMoves
  <2>2. Follows(i)
    BY <2>1 DEF Follows, IsNew
  <2>3. ASSUME NEW k \in Invocations, k # i PROVE Follows(k)
    BY <2>1, <2>3, LikeFollows DEF Uncommitted
  <2> QED BY <2>2, <2>3
<1>5. ASSUME NEW goal \in {"status", "submit", "query"}, NEW t \in Invocation,
             StartStatus(i, p, goal, t)
      PROVE  \A k \in Invocations : Follows(k)
  <2>1. /\ job[i].pc = "idle" /\ \A k \in Invocations : k # i => job'[k] = job[k]
        /\ IsNew(job'[i], p, IF flow[p] = None THEN "credit" ELSE "check", goal, t,
                 flow[p], None)
    BY <1>5, StartStatusMoves, BeginJobs
  <2>2. goal = "query" => Accepted(t)
    BY <1>5 DEF StartStatus
  <2>3. Follows(i)
    BY <2>1, <2>2 DEF Follows, IsNew
  <2> QED BY <2>1, <2>3, LikeFollows DEF Like
<1> QED BY <1>1, <1>3, <1>4, <1>5 DEF Invocation

LEMMA RecordsNext ==
  ASSUME Types, SignedInAs, Unused, Kept, [Next]_vars
  PROVE  Unused' /\ Kept'
<1>1. CASE UNCHANGED vars
  BY <1>1 DEF vars, Unused, Kept, Accepted
<1>2. ASSUME NEW i \in Invocations, Serve(i) PROVE Unused' /\ Kept'
  <2>1. \/ \/ Enqueue(i) \/ Grant(i) \/ Wait(i) \/ GiveUp(i) \/ Refresh(i) \/ Expire(i)
           \/ Run(i) \/ Killed(i) \/ Refused(i)
        \/ Commit(i) \/ Leave(i)
    BY <1>2 DEF Serve, Commit, Leave
  <2> QED BY <2>1, RequestRecords, CommitRecords, LeaveRecords
<1>3. ASSUME NEW i \in Invocations, Ask(i) PROVE Unused' /\ Kept'
  BY <1>3, AskRecords
<1>4. ASSUME NEW p \in Processes, FlowExpires(p) \/ Crash(p) PROVE Unused' /\ Kept'
  <2>1. /\ receipts' = receipts /\ answers' = answers /\ owner' = owner
        /\ contested' = contested
    BY <1>4 DEF FlowExpires, Crash
  <2>2. ASSUME NEW k \in Invocations PROVE Follows(k)
    <3>1. \/ job'[k] = Over("dead")
          \/ Like(job'[k], job[k]) /\ (job'[k].pc = "orphan" \/ job'[k].pc = job[k].pc)
      BY <1>4, CrashMoves DEF FlowExpires, Like
    <3> QED BY <3>1, OverFollows, LikeFollows DEF Uncommitted
  <2> QED BY <2>1, <2>2, RecordsKept
<1>5. ASSUME NEW c \in Invocations, NEW a \in Accounts, Confirm(c, a)
      PROVE  Unused' /\ Kept'
  <2>1. /\ receipts' = receipts /\ answers' = answers /\ owner' = owner /\ job' = job
        /\ contested' = contested
    BY <1>5 DEF Confirm
  <2> QED BY <2>1, LikeFollows, RecordsKept DEF Like
<1> QED BY <1>1, <1>2, <1>3, <1>4, <1>5 DEF Next

LEMMA Invariant == Spec => []IInv
<1>1. Init => IInv
  <2> SUFFICES ASSUME Init PROVE IInv
    OBVIOUS
  <2>1. \A i \in Invocations : job[i].pc = "idle" /\ job[i].op = "none"
           /\ job[i].goal = "none" /\ job[i].code = None
    BY RestingType DEF Init
  <2>2. SignedInAs
    BY <2>1, NoneApart DEF Init, SignedInAs, Bound, Dropped, Told
  <2>3. Unused /\ Kept
    BY <2>1 DEF Init, Unused, Kept, Accepted
  <2> QED BY TypesInit, <2>2, <2>3 DEF IInv
<1>2. IInv /\ [Next]_vars => IInv'
  BY TypesNext, AccountsNext, RecordsNext DEF IInv
<1> QED BY <1>1, <1>2, PTL DEF Spec

(* Whoever is given a binding as the name of an account is not told of        *)
(* another one: while it stands the CLI is signed in to its account, or to   *)
(* none, whatever processes stall, die or sign in and out, and whether a     *)
(* login signs the CLI out or not.  A binding made while a device code could *)
(* still be redeemed for another account is the only exception.              *)
THEOREM BindingsNameAccounts == Spec => []BindingNamesAccount
<1>1. IInv => BindingNamesAccount
  BY DEF IInv, SignedInAs, Bound, Only, BindingNamesAccount
<1> QED BY Invariant, <1>1, PTL

(* A record of accepted work is bound to the account the work was submitted  *)
(* and paid under, though it is written after the child has ended.           *)
THEOREM ReceiptsNameAccounts == Spec => []ReceiptNamesAccount
<1>1. IInv => ReceiptNamesAccount
  BY DEF IInv, Kept, ReceiptNamesAccount
<1> QED BY Invariant, <1>1, PTL

(* No answer of a query that ran under another account is taken for the      *)
(* result of accepted work.                                                  *)
THEOREM QueriesUnderAccounts == Spec => []QueriedUnderItsAccount
<1>1. IInv => QueriedUnderItsAccount
  BY DEF IInv, Kept, QueriedUnderItsAccount
<1> QED BY Invariant, <1>1, PTL
=============================================================================
