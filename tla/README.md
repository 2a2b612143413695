# A TLA+ model of open-ai-canvas

The modules beside this file model the parts of open-ai-canvas where money,
generation jobs, signed-in accounts and the user's own work are shared by actors
that do not wait for each other: the credit ledger and the execution of
generation tasks on the server; on a user's computer, the command line tool, the
state files and the task journal that several local agents share, and the
sessions they give to the pages; in the browser, the canvas and the asset
library that several pages edit while generated results are put into them. TLC
checks the modules on small instances; TLAPS proves the safety properties of every
modelled component for every instance, under conditions that Proofs names.
Everything is translated from the source; paths
below are relative to `src/`, and `PROJECT.json` gives the lines behind each
definition.

## The system

| Component | State it keeps | Operations | Modelled in |
|---|---|---|---|
| Credit ledger (`backend/internal/repository/finance.go`, `service/finance.go`) | accounts (available, reserved), billing orders, redeem codes, ledger entries with unique reference keys | grant, redeem, disable, adjust, reserve, mark running or uncertain, settle, refund | `CreditLedger`, `CreditPurse`, `Totals` |
| Task worker and terminal handling (`service/task_worker.go`, `task_terminal.go`, `task_billing.go`, `task_lifecycle.go`, `repository/repository.go`) | task rows with status, lease, route run, provider request id | claim, renew, execute, defer, complete, fail, retry | `TaskExecution` |
| Model routing (`service/model_router.go`, `task_route_executor.go`, `repository/logical_models.go`) | route attempts with their dispatch state, prices of an order | begin, dispatch, finish, switch | `TaskExecution` (attempts), `CreditLedger` (repricing); the choice of a route is not modelled |
| Provider protocols and call log (`service/provider.go`, `admin.go`) | call log rows | submit, poll, log | `TaskExecution`: one submit-and-poll protocol, one synchronous |
| Video task recovery (`service/provider_task_recovery.go`) | a recovery lease on a failed task | query the upstream, save, settle | `TaskExecution` |
| Billing review and administration (`service/billing_review.go`, `admin.go`) | none of its own | resolve an uncertain order; report | `TaskExecution` (resolve) |
| Dreamina CLI arbiter and sign-in (`canvas-agent/src/dreamina-cli-arbiter.ts`, `dreamina-cli.ts`) | state file: queue, lease, session binding; pending device code per process | acquire, release, login, logout, status, submit, query | `CliSession` |
| Agent state files and locks (`dreamina-cli-state.ts`) | lock directory with its lease, state file, backup | acquire, refresh, take over, release; replace, recover | `StateFile` |
| Dreamina runtime and reconciler (`dreamina-cli-runtime.ts`, `dreamina-task-reconciler.ts`) | journal of tasks with queue leases, reservations and poll leases; per process what it saw of it | enqueue, reserve, spawn, store the receipt, cancel, delete, poll, recover, dispose | `DreaminaJournal`, `SubmissionPromise` |
| Effects of finished generations (`dreamina-task-store.ts`, `web/src/services/provider-neutral-generation-effects.ts`, `generation-task-materializer.ts`) | a claim with fence and expiry for each effect | claim, renew, complete, release | `EffectLease` |
| Local runtime sessions (`canvas-agent/src/local-runtime-session.ts`, `web/src/services/local-runtime-session.ts`, `web/src/stores/use-local-runtime-store.ts`) | registered keys, open challenges, sessions; a key in the browser's database; per page its challenge and session | challenge, exchange, verify, revoke; connect, request | `RuntimeSession` |
| Asset library (`web/src/stores/use-asset-store.ts`, `lib/asset-storage-revision.ts`, `services/generation-asset-repository.ts`) | stored document with revision and tombstones; per page its memory, queued change and running insertion | edit, save, insert a generated asset | `AssetStore`, `EntityRebase`; with the claims, `AssetDelivery` |
| Canvas (`web/src/stores/canvas/use-canvas-store.ts`, `lib/canvas/canvas-storage-revision.ts`, `services/canvas-generation-consumer.ts`) | the same for canvases, with the stamps of stored results | edit, save, commit a result, show it, take it back | `CanvasStore`, `EntityRebase` |
| Provider task cancellation (`service/provider_task_cancellation.go`) | leased queue of cancellations | enqueue, claim, cancel, give up | not modelled: nothing in the repository calls it |
| Coordination (`service/coordination.go`, `channel_circuit.go`) | slots with expiring tokens, circuit counters, in memory or Redis | acquire, renew, release, trip | planned: `ChannelSlots` |
| Task creation and admission | active task count of a user | create with reservation | its result is `TaskExecution`'s initial state; limit planned with `ChannelSlots` |
| Text stream replay | stored stream, cursor | append, resume | planned: `TextReplay` |
| Storage quota and resources | bytes used, reservations, references | reserve, commit, delete | planned: `UploadQuota` |
| Canvas sessions and tools (`canvas-agent/src/canvas-session.ts`) | connected pages, pending tool calls | call, answer, reconnect | planned: `CanvasCalls` |
| Projects, shots, storyboards, catalogues, adapters, HTTP handlers, user interface, migrations | one row, or nothing | read and write | not modelled: no protocol between actors |

How they interact. A request creates a task and reserves its price in one
transaction. A worker of some server process claims the row under a lease,
chooses a route (which may reprice the order), marks the order running, calls the
upstream, and records its answer in three places: the task row, the route
attempt, the call log. The end of a run writes the task and then, in another
transaction, the order. Retries, manual recoveries and the administrator act on
the same rows with no lock held in between. On a user's computer, agent
processes share one CLI and one task journal through state files, each changed
under a lock directory; the account the CLI is signed in to is known to the CLI
alone, and a binding in a state file stands for it. A page gets a session of an
agent's Runtime with a key all pages of the browser share. When a generation
ends, every open page may take up its effects: one claims an effect at a time,
stores the asset or puts the result on the canvas, under the storage lock of the
account, while people edit the same documents on every page.

What is hard about it. Transactions that read and then write by what they read,
at two isolation levels; workers that lose a lease without knowing it; a
process dying between a request and the record of its answer, or between two
renames; decisions made from an order that its worker has not closed yet; a
lease that expires while its process is suspended, with a child process that
goes on regardless; pages that save a document another page has changed since;
answers that never come or come for what was replaced. The list, each entry at
its line with the properties that would catch it, is under `hazards` in
`PROJECT.json`.

What correct means, by component:

* ledger: reserved credits are exactly the holds of unfinished orders; no
  credit is made or lost; an order is finished once; sources count once;
* tasks: at most one upstream job for a run as long as no worker that relies on
  its lease is overtaken; charged only for the result shown; a result is not
  refunded; a doubtful cost waits for a person; every task ends and every order
  closes;
* CLI: a binding never stands for another account; work is submitted, recorded
  and queried under one account; whoever waits is served;
* state files: what was reported as stored is found again; an interrupted
  exchange leaves file and backup in a state nothing of which is lost;
* journal: a task is submitted at most once and as the user is told; the
  provider works on no more tasks than there are slots; what is settled stays
  so, and what was accepted is settled;
* sessions: a revoked key stays out; every page settles on a session that is
  accepted;
* asset library and canvas: an output becomes one asset; no page reverts or
  revives what another did; a result counts as stored only when it is;
* planned parts: never more calls than slots; a resumed stream repeats and
  omits nothing; usage equals what is stored; a tool call is answered once.

## Modules

`Totals` sums a function on `1..n` by a recursive function, so that proofs can
use it.

`CreditPurse` is the abstract specification of the ledger: a balance a user can
spend, and orders that hold part of it and are charged or released once. It has
no accounts table, no isolation, no transactions.

`CreditLedger` is the tables. `available`, `reserved`, `orders`, `codes` are
rows; `bonus` and `adjusted` are what the ledger entries sum to; `tx[t]` is what
an open read-then-write transaction has read. Operations that begin with a
write, or are one conditional UPDATE, are one action (`RedeemCode`,
`ReserveBillingOrder`, `MarkBillingRunning`...); `SettleBillingOrder`,
`RefundBillingOrder` and `SwitchTaskLogicalRoute` are `Begin...` and
`Commit...`. The constant `Snapshot` chooses the database: on SQLite the first
write of a transaction fails if anyone committed after its first read
(`view = "stale"`), on PostgreSQL at its default isolation it does not. An
order's `amount` and `reservedAmount` are always written together and are one
field. It implements `CreditPurse` under the refinement mapping at its end,
where the three unfinished statuses are all "open".

Each component's theorems are in the module named after it with `Proofs` at the
end; see Proofs.

`TaskExecution` is one task with its orders, attempts, call log, upstream jobs,
workers and the people around it. Each statement of `processClaimedTask` that
reads or writes shared state is an action of its own, named after its function;
`worker[w]` keeps what the goroutine read. Merged or abstracted:

* the lease: `RenewTaskLease` asks for the owner and not for the time, so a
  lease that ran out is renewed if nobody has claimed the row. `RenewalFails` is
  the renewing goroutine learning that the row is not its own, or its statement
  failing (a "lease" fault): only then is `worker[w].lease` "lost" and the
  context cancelled. Otherwise a lease runs out when its worker is gone, or by
  `WorkerStalls`, a worker held up past it (a "stall" fault), which then goes on
  from wherever it was, not knowing whether another has the row;
* `overtaken` remembers that a task was claimed from a worker that still relied
  on its lease, `outlived` that a retry was committed while somebody was still
  at the run before: what the properties except;
* a worker stands for one process: `lease_owner` names the process, and two
  goroutines of one process at the same task are not modelled;
* database statements are atomic, as on SQLite; any statement that fails so
  that the worker returns early is `Crash`, and one of `beginTaskRouteAttempt`
  is `BeginFails`, for that ends the run with a refund;
* routes are not told apart: a switch adds an attempt, and the count of attempts
  stands for the compare-and-set and the unique index on it;
* `SwitchTaskLogicalRoute` with `createRouteAttempt`, `UpdateTaskProviderState`
  with `ClaimFailedTaskProviderRecovery`, and the review check of
  `RequiresReview` with the billing call after it are one action each;
* one recovery query at a time, which its lease ensures; delays between polls
  are just time; a slot or circuit that refuses is the outcome "slot";
* only billed tasks; the status `cancelled` is left out because no operation
  reaches it (`cancelTask` refuses, `cancelActiveTask` has no callers).

Tasks that name a fixed channel keep no attempts: after a crash they may be
submitted again, by design, so `SubmittedOnce` speaks of logical tasks.

`CliSession` is the shared CLI. `arbiter` is the state file; `job[i]` the
invocations, each from its acquire through its child process to its release;
`flow[p]` the device code a process waits for, so that a second sign-in is
refused by the process that has one open and by no other. A `login --headless`
that succeeds may leave the CLI as it was or signed out; the code does not say. `cli` is the account the CLI is
signed in to and `confirmed` what a person did on the verification page: both
external, modelled from how the code uses them. `owner`, `receipts` and
`answers` remember under which account things were done, `contested` which
bindings were made while a device code of another account could still be
redeemed: the exception of the account properties. Abstractions:

* a mutation of the state file is atomic, for it is made under the file's lock
  (what that lock is worth, `StateFile` says);
* a request keeps its place in the queue as the number of a ticket, for a
  request leaves the code's array from any position and the others keep their
  order;
* time is the set `late` of requests past their `expiresAt`; any queued request
  may pass its deadline, a lease only when its holder is dead or stalled;
* a binding is named after the invocation that made it. It is never used twice,
  so it stands for `sessionEpoch`; the fence is the identity of the request;
* an invocation begins at the last `assertEpoch` before its acquire. Work
  queued when `logout` is called is not cancelled by it, only made stale: its
  child still runs, and its answer is refused;
* a child may have its effect and then fail to report; the child of a process
  that died is detached and may still have it;
* left out: the `--version` child and the bound on the queue; the journal's
  reservations and slots are `DreaminaJournal`'s. The check before a receipt is persisted and the
  persisting are one step.

`StateFile` is the replacement of one state file. A writer goes through the
steps of `withStateLock` and `persistRuntimeDiskState`, one file system call per
action: `lock` is the directory with its lease, `file` and `backup` the two
files, `moved` a directory a writer has renamed away. A content is the set of
changes it was made by: a change adds a record, or takes out the record of
another (`Removes`), as `commitSubmissionFailure` does; `Records` are the records
of a content, and the writer's check (`Removable`) allows what recovery's
(`Progression`) refuses. Any call of the file system may fail (`StepFails`), the
removal of the backup included. `ousted` remembers that a lock directory was touched
under a writer that lives; the properties are claimed until then, because the
code's takeover does not exclude it (see Disagreements). `Age` makes a lease old
when its holder died or, at most `MaxStalls` times, when it is suspended for
longer than `LOCK_STALE_MS`. A rename over an existing file may be denied
(Windows), which is what the backup is for. Temporary files, directory
synchronisation and the contents' text are left out.

`DreaminaJournal` is the journal of generation tasks. An operation under the
state file's lock is one action, named after its function; `known[r]` is what a
Runtime has in memory, `work[r][t]` where its submission stands, `poll[r]` the
observation it has made and not yet committed. The leases of queue, reservation
and poll expire when their Runtime is gone or held up. `SubmissionPromise` is
what the journal promises, without files and processes; the mapping reads the
verdict off a record. Abstracted or left out: the `hidden` mark, a cancellation
by the provider (as its failure), the older synchronous `run`, staging and
artifact files; the exclusion of CLI invocations is `CliSession`'s. Enqueues are
serialised in the code; the model allows more interleavings.

`RuntimeSession` is how pages get sessions. `registered`, `challenge` and
`session` are the Runtime's maps, `store` the key record in IndexedDB, `page[p]`
a page's client: its fields, its place in `connectOnce` (one value per await)
and whether a 401 is on its way. A key is named after the page that made it and
a signature after its key: what a signature proves is abstracted to which key
made it. Challenges and sessions are small numbers, used again once nobody
remembers them. Expiry is one event for both sides. Left out: the checks of a
single request that concern neither session nor key (origin, nonce, clock skew,
scope), and untrusted origins.

`WebPages` holds the constants of the web modules. `EntityRebase` is the
three-way merge both stores use: a document is a set of entities with
tombstones, an entity a function from fields to values.

`EffectLease` is the claim of a product effect, whose record is shared and whose
operations run under the effect's lock. `AssetStore` is the asset library:
`disk` the stored document, `memory`, `observed`, `queue`, `save` and
`insertion` what a page keeps, `lock` the Web Lock. `AssetDelivery` composes
them: the consumer of an effect inserts into the library. A failed write fails
the insertion that waits for that write; one that still waits for the lock goes
on. `touched`, `inserted` and `phantoms` remember what people and insertions
did. Left out:
`replaceAssets` (a synchronous import) and the cleanup of unused files.

`CanvasStore` is the canvas: the same queue and rebase, with a merge that joins
stamps and reports conflicts, and with attempts to store a result (`work[t]`).
A canvas is one project; connections, sessions and messages are merged by the
same `mergeEntities` and are not told apart from nodes. A result replaces the
content of its node by a value named after its effect. `deleted` remembers the
nodes a person has deleted. Undoing a deletion puts the node back with the id,
content and stamps it had (`RestoreNode`, from `removed`); undo and redo of other
edits are edits with an earlier value, and those that bring back a result
that was shown and taken back are not modelled. Synchronisation with the
server is left out.

The `MC` modules give model values, the sets of amounts and kinds, and symmetry.
`MCCliSession` also gives a view, under which states are one when they differ
only in what nothing can use again: the numbers of tickets beyond their order,
the accounts of codes nobody can redeem and of bindings nobody knows.

## Runs

Every passing run is exhaustive within its bounds. `CHECK_DEADLOCK FALSE` is set
because tasks, orders, edits and faults are bounded, so the system does stop.

| Run | What it explores | What it shows |
|---|---|---|
| `CreditLedger_orders` | 1 user, 2 orders, 2 connections, both billing modes, prices 1-2, a code, a bonus, one adjustment, SQLite | holds are backed, credits conserved, finishing finds its reservation and happens once, `CreditPurse` is implemented |
| `TaskExecution_retries` | 2 workers, 2 runs, 2 routes, 3 upstream jobs, a crash or a stalled worker, retries, an administrator | results stay paid and are of their own run; doubtful orders wait for a person; only the run whose result is shown is charged |
| `TaskExecution_liveness` | one run of a routed video or a direct image under fairness, with the manual query and one crash or stall, or a failed renewal and a lost call log | one upstream job until a stalled worker is overtaken; the task ends; its order closes unless a process died |
| `CliSession_accounts` | 2 processes, 2 accounts, 4 invocations (3 with a fault), 2 at once, sign-ins that overlap, one crash or lost lease | bindings, receipts and queries agree on the account |
| `CliSession_queue` | the same CLI under fairness, 3 invocations of which the first may be a login | dead holders and waiters do not block the others |
| `StateFile_crashes` | 3 writers, one of which takes out a record of another, 2 deaths, one lease that gets old under a living writer, denied renames | stored changes stay stored; an interrupted exchange keeps every change, and only a record taken out makes recovery refuse it |
| `DreaminaJournal_slots` | 2 Runtimes, 2 tasks, 1 slot, one death or disposal, one stall | one submission as promised; no more work than slots; settled is final |
| `DreaminaJournal_polling` | 2 Runtimes, 1 task under fairness, 2 deaths, a failed poll, a stall or clock set back | an accepted task is settled |
| `RuntimeSession_pages` | 2 pages, 2 open challenges, one fault at any step: a lost answer, a restart, a revocation, an expiry | a revoked key stays out; both pages settle |
| `AssetDelivery_pages` | 2 pages, 2 edits, 1 effect with 2 claims, one expiry, one failed write or closed page | one asset per output; no page reverts or revives what another did |
| `CanvasStore_results` | 2 pages, 2 edits (undone deletions among them), 2 effects on one node, 2 attempts, one failed write or closed page | stamps come only with their result |
| `DreaminaJournal_peers` (violation) | 2 Runtimes, 1 task, no fault at all | a removed submission blocks the other Runtime |

Why these bounds are enough to be worth something. The ledger's races need two
transactions on one order and a second order whose reservation hides the
inconsistency; both are there, and prices 1 and 2 make a wrong difference
visible. A late worker needs one successor and one later run: 2 workers, 2 runs.
Two routes allow one switch, three jobs one submission more than the runs may
make. One fault of a kind is enough to set a worker adrift; several in a row
repeat it. A sign-in by one account, work under it, then a sign-in by another is
4 invocations including the query; two at once is the least that queues. A
takeover goes wrong with a third writer between two, and a recovery is
interrupted by a second death: 3 writers, 2 deaths. Two tasks at one slot is the
least that contends for it, two Runtimes the least of which one can be late. Two
pages and two edits give every pair of an edit and a stale save; a claim that
expires needs one successor. Two challenges are the limit's boundary for two
pages, and one fault at every step is what a connect can meet; with two faults
the invariants still hold (`RuntimeSession_faults`). For the safety properties
the proofs lift all these bounds; for liveness they remain.

The conditions the passing runs state. `SubmittedOnce`, `ResultIsPaid` and
`UncertainIsReviewed` are claimed until a worker is `overtaken`, `ResultOfOwnJob`
until a run is `outlived`; without these exceptions each fails with one stall
(`_stall` for the first). `TaskExecution_retries` leaves out what else is known
to break its properties: a renewal that fails while the row is the worker's
breaks `UncertainIsReviewed` (`_stalerefund`) and, in the same way,
`ResultIsPaid`; a call log that cannot be written breaks `UncertainIsReviewed`;
the manual query breaks `ResultIsPaid` (`_recoveryrace`).
`TaskExecution_liveness` leaves out synchronous logical tasks, which send again
after a crash (`_resend`). The constraint `StallAlone` keeps behaviours with a
stall small: no other fault, a video on its first route, an upstream that
refuses nothing, fails no job and answers in time; `CrashAlone` does so for
crashes in the liveness run. They cut behaviours at a fault, which nothing is
obliged to meet, or at one of several outcomes, so that some fair behaviour
remains from every state. `CliSession_accounts` excepts bindings made while
another account's device code was open (`contested`), which `_relogin` shows to
be needed; `FewerWithFault` and `OneLogin` bound what is begun. That a CLI stays
signed out after `logout` is not claimed, since queued work may still sign it
in; that no binding is then left for the wrong account is. `SavesOnlyOwnEdits` and
`CreatedOnce` except what `phantoms` records: an asset that an insertion showed
and then could not store, and one it showed while a change was queued, which
that change's successor takes for the page's own. `StampsByCommitOnly` and
`StampedIsStored` except nodes a person has deleted, as `CanvasStore_restored`
shows they must.

Fairness. For tasks: the dispatch ticker claims whenever there is something to
claim; a lease that nobody renews runs out; a goroutine goes on; upstream jobs
end. Only `PollEnds` is strong: a video is deferred and polled again, so the
poll that meets the end of its job is enabled again and again but not
continuously. User actions, faults and the administrator are never fair. For the
CLI: the event loop of a live process goes on, a child ends or is killed at its
timeout, and what a dead process left in the state file expires. A live request
is never forced to its deadline: it gives up fairly only when its own loop
throws. For the journal: a Runtime that died is started again, a live one goes
on with what it has begun, the leases of the dead expire, the provider ends what
it works on; `Claim` is strong because `claimDue` takes the task that has been
due longest, so none is passed over for ever, though another Runtime may take
any one turn. For sessions: the loop of the canvas panel connects again, and the
browser answers or times out what it awaits; a challenge expires after a minute
and an abandoned session after ten. A challenge is not made to expire just while
it is being answered, except as a fault: a minute is longer than an exchange.
`PagesSettle` speaks of what follows the last fault, the end of a used session
being one of them.

### Further configurations

These are not among the runs; they show, with `tlc -config`, what the
conditions above are for, or widen a run.

| Configuration | Shows |
|---|---|
| `CreditLedger_sources` | (passes) 2 users, 2 codes, bonuses, additions and deductions beside an order: each source counts once, for one user |
| `CreditLedger_readcommitted` | the order actions at PostgreSQL's isolation: `FinishedOnce` fails |
| `TaskExecution_recovery` | (passes) videos with retries, the manual query and a crash together: only the run whose result is shown is charged |
| `TaskExecution_stalerefund`, `_recoveryrace`, `_resend` | `UncertainIsReviewed`, `ResultIsPaid`, `SubmittedOnce` fail |
| `TaskExecution_stall` | one worker held up past its lease: `NeverResent`, `SubmittedOnce` without its exception, fails |
| `CliSession_relogin` | `QueriedUnderOneAccount`, `QueriedUnderItsAccount` without its exception, fails |
| `StateFile_removed` | one death after a record was taken out: `AlwaysRecoverable` fails |
| `StateFile_takeover` | 4 writers, one death: `BackupByOwner` fails |
| `RuntimeSession_faults` | (passes) the invariants with two faults |
| `AssetDelivery_publication` | `PublicationKeepsEdits` fails |
| `CanvasStore_overwrite`, `_tabs` | `CommittedResultSurvives`, `SavesOnlyOwnEdits` fail |
| `CanvasStore_restored` | `StampsByCommitAlways`, `StampsByCommitOnly` without its exception, fails |

## Disagreements with what the code says of itself

The finding in `PROJECT.json` is `DreaminaJournal_peers`: a submission that fails
before its spawn is removed from the journal, so that the same operation may be
tried again; a Runtime that has seen the record meanwhile then finds its file
unreadable (`dreamina_state_invalid`) until it is restarted.

The configurations show more of them:

* `CreditLedger_readcommitted`: settle and refund read the order and update it by
  id alone (`finance.go:730`). At READ COMMITTED two of them finish the same
  order when another order of the user backs the second movement.
* `TaskExecution_stalerefund`: a worker that lost its lease refunds the order its
  successor left uncertain, because it finds the order not startable and takes
  that for a failure before the request (`task_worker.go:124`; the comment at
  `finance.go:600` says otherwise).
* `TaskExecution_recoveryrace`: the manual query checks the order, the worker
  that failed the task then refunds it, and the query saves a free result
  (`provider_task_recovery.go:90`).
* `TaskExecution_resend`: a synchronous call whose request id was recorded before
  a crash is sent again (`model_router.go:875`).
* `TaskExecution_stall`: a worker is held up past its lease just before it marks
  its attempt as dispatched; another claims the task, takes the same attempt and
  submits; the first goes on, looks only at the attempt in its memory
  (`model_router.go:901`), saves it by its id and submits as well. The claim is
  made "with the database lease as the truth" (comment at `repository.go:338`),
  and resending is stopped elsewhere "to avoid charging twice"
  (`model_router.go:889`).
* `StateFile_removed`: the file is replaced by way of its backup by a writer that
  takes out a record, and the writer dies before the backup is removed. The
  writer's check allows the removal (`dreamina-cli-state.ts:444`), recovery's
  finds the record missing (line 213) and refuses, for every writer from then on.
  The comment at line 136 says that the backup "leaves a recoverable state at
  every interruption point".
* `CliSession_relogin`: a second pending sign-in confirmed by another account
  inherits the standing binding, and work of the first account is queried under
  the second (`dreamina-cli.ts:257`).
* `StateFile_takeover`: two processes find the same old lease, one takes the lock
  over and the other moves its new directory away. The comment at
  `dreamina-cli-state.ts:146` says that the backup is touched by the lease's
  owner only.
* `AssetDelivery_publication`: a generated asset that is published replaces a
  field of it the user has edited and not saved yet.
* `CanvasStore_overwrite`: an edit made between the save before a result and its
  commit is queued on top of the committed document, though the page's memory
  lacks the result (`use-canvas-store.ts:158`). The next save takes the content
  back and leaves the stamp, so nobody stores it again.
* `CanvasStore_tabs`: a page queues its whole memory as a change of the document
  it wrote last, so its second edit reverts what another page saved in between.
* `CanvasStore_restored`: a page removes the node of a result that is being
  committed and undoes this while the removal is being saved. The rebase then
  stores the node as the undo has it, without the result, and joins to it the
  stamp the queue carries: an ordinary save publishes a stamp without its
  result, although by the comment at `use-canvas-store.ts:287` the queue carries
  confirmed stamps only.

Seen beside them, and excepted or allowed by the models:

* a retry checked before the earlier order is closed can start a run while that
  order goes to review; `ChargedForResult` shows that no run is charged for it;
* an order whose process dies between saving a result and settling stays
  running: `BillCloses` excludes crashes for this reason, and the billing review
  only reports such orders;
* deleting a task that is pending with a reservation makes a record the state
  file refuses: the write fails and the Runtime reads "deleted" from memory
  until the record ends;
* a submission whose receipt is not known keeps its slot for ever, by design; a
  receipt that comes after its reservation has expired is dropped;
* a failed insertion leaves an asset that only its page shows; an edit of it
  may store it;
* a result shown before its commit makes the queue carry the older durable
  version of its node; a failed attempt puts the node back as it was before,
  over an edit another page saved meanwhile;
* a second `connect` of the local runtime store aborts the first and shares its
  promise, so it fails with the first one's abort; a failed exchange leaves its
  challenge in the page, which sends it again until it expires; a late 401
  drops whatever session the page then has. `PagesSettle` holds in spite of all
  three, and of two pages that each make a key;
* no page calls the Runtime's revocation routes.

## Proofs

The eight modules `<Component>Proofs` are checked by TLAPS. What they state holds
for every value of the constants that satisfies the named assumptions of the
component: bounds are naturals, a value that stands for "nobody" or "nothing" is
not one of the things it stands in for, prices are positive, the Dreamina tasks
are finitely many, a new asset's name is not an effect's. The bounds of the runs
(one crash, two edits...) are among these constants, so the theorems speak of
any number of crashes and edits.

| Module | Theorem | Property | Condition |
|---|---|---|---|
| `CreditLedgerProofs` | `TypeCorrect` | `TypeOK`: in particular, no balance becomes negative | |
| | `HoldsAreBacked`, `CreditsAreConserved`, `BalanceIsConsistent`, `OrdersFinishOnce` | `HoldsBacked`, `CreditsConserved`, `BalanceConsistent`, `FinishedOnce` | SQLite |
| | `ImplementsPurse` | `PurseSpec` | SQLite |
| `TaskExecutionProofs` | `TypeCorrect`, `ChargedOnce` | `TypeOK`, `ChargedForResult` | |
| | `SentOnce` | `SubmittedOnce` | `Single`, `Resumable`; until `overtaken`, as the property says |
| | `OneLeaseHolder` | until a stall: nobody is overtaken, one worker relies on its lease, the running row names it and the lease is live | `Single` |
| | `ResultsAreOwn` | `ResultOfOwnJob` | until a retry starts over a worker at the run before, as the property says |
| | `ResultsArePaid` | `ResultIsPaid` | `Quiet` |
| | `DoubtfulIsReviewed` | `UncertainIsReviewed` | `Quiet`, `Logging` |
| `CliSessionProofs` | `TypeCorrect` | `TypeOK` | |
| | `BindingsNameAccounts`, `ReceiptsNameAccounts`, `QueriesUnderAccounts` | `BindingNamesAccount`, `ReceiptNamesAccount`, `QueriedUnderItsAccount` | except contested bindings, as the properties say |
| `StateFileProofs` | `TypeCorrect`, `StoredIsKept`, `ExchangeIsRecoverable` | `TypeOK`, `DoneIsStored`, `Recoverable` | until `ousted`, which the properties say themselves |
| | `MutualExclusion`, `OwnerKeepsBackup` | one writer holds the lease; only it changes the backup | until `ousted` |
| `DreaminaJournalProofs` | `TypeCorrect`, `SlotsCover`, `SettledStaysSettled` | `TypeOK`, `SlotsCoverProvider`, `SettledIsFinal` | |
| | `KeepsPromise` | `SubmitsAsPromised` | |
| `RuntimeSessionProofs` | `TypeCorrect`, `RevokedKeysStayOut` | `TypeOK`, `RevokedStaysOut` | |
| `AssetDeliveryProofs` | `TypeCorrect`, `InsertedOnce`, `OwnEditsOnly`, `NothingRevived` | `TypeOK`, `CreatedOnce`, `SavesOnlyOwnEdits`, `DeletedStaysDeleted` | except phantoms, as the properties say |
| `CanvasStoreProofs` | `TypeCorrect`, `StampsComeByCommit`, `StampsComeWithResults` | `TypeOK`, `StampsByCommitOnly`, `StampedIsStored` | except deleted nodes, as the properties say |

The conditions are values of the switches; the configurations named here drop one
and break a property. `CreditLedger_readcommitted` drops SQLite's
isolation. `Quiet` is `Calm`, no renewal fails while the row is the worker's
(`_stalerefund`), and nobody starts the manual query (`_recoveryrace`); `Logging`
says that no answer fails to be logged; `Resumable` that a logical task answers
with an id to poll (`_resend`). `Single` is `Calm`, or nobody retries: so
`SentOnce` also covers any number of failed renewals in a task of one run. None
of them excludes stalls: any number of workers may be held up, and what is
claimed of `SubmittedOnce`, `ResultIsPaid` and `UncertainIsReviewed` is claimed
until the first that still relies on its lease is overtaken, as the properties
say. `ChargedOnce` and `ResultsAreOwn` need no value of a switch, nor do the
theorems about the CLI: with every fault and every person at once, which no run can
afford to explore, no run is charged but the one whose result the task shows.

The arguments. None of the properties is inductive.

*Ledger.* A commit writes by what the transaction read, so the invariant has to
say that this is still so: `IInv` is `TypeInv /\ ReadsCurrent /\ Accounted`.
`TypeInv` adds to `TypeOK` that an existing order belongs to a user and that a
transaction read an unfinished order (`Owned`). `ReadsCurrent` says that a
transaction whose view is fresh read the row as it is; it holds because every
commit makes the other views stale (`TxAfter`). `Accounted` is `HoldsBacked /\
CreditsConserved`. Each order operation writes one row and moves an account by
the change in that row's hold and charge: `AccountedWrite` proves once, from the
lemmas about sums, that such a write keeps `Accounted`, and one lemma per kind of
row computes the change. `BalanceConsistent` follows since one hold is at most
the sum of the holds; `FinishedOnce` since a fresh read of an unfinished order
means the order is unfinished; the refinement from one step lemma (`PurseStep`)
in which marking an order and beginning or rolling back a transaction are
stutters.

*Tasks.* `Base` is the type with `Named` (whoever works has a run) and `Charges`:
a worker that is about to settle has seen its own run succeed, and a success is
never taken back. `Leases` adds that the workers relying on their lease are one,
the row's owner, and that its lease is live as long as nobody was held up
(`Unstalled`); it holds until a worker is overtaken, so the invariants are
`Base /\ (overtaken \/ ...)`, and `Aging` says that what has happened has. A
claim needs a row that is queued, and then nobody is at the task, or a lease
that has run out, and then somebody was held up (`OnlyStalled`). `Sends` follows a submission: a worker is fit to submit
(`Sendable`) only if its attempt is the newest and no job of the run exists; when
a job exists, the newest attempt says "accepted" or "submission unknown"
(`Recorded`), and the code switches or submits again in neither state; a
rejected attempt that is to be replaced has made no job (`Unsent`). `Paid` says
that a task that has not failed has its order and that nobody is left to refund
it: whoever is about to refund belongs to an earlier run or to a failed task.
`OwnJobs` names the run of every id on its way, and `AtRun` says that whoever may
write one is at the run of the row; these two need no lease, only that no retry
has started over somebody's head. `Doubts` says that an uncertain order has nobody
left to close it.

*CLI.* The binding's account is not compared with the CLI's at each call, so the
invariant must carry the agreement from the sign-in on. `SignedInAs` says: a
standing binding that is not contested is for the only account the CLI is signed
in to or can come to be, which speaks also of every device code somebody may
still redeem (`Bound`, `Only`); a login that is committed has dropped the
binding (`Dropped`); what a child told its invocation stays true while that has
the lease (`Told`). `Kept` carries the account on through receipts, queries and
answers; it needs that bindings and receipts are not used again (`Unused`). Any
number of sign-ins may be under way; a binding made while a code could still be
redeemed for another account is contested, and is what the theorems except.

*State file.* `IInv` is `TypeOK /\ (ousted \/ (LockInv /\ FileInv /\ done
\subseteq Visible))`. `LockInv` says of each step who holds the lock directory
and what was moved out of the way; it gives `MutualExclusion`, without which the
properties cannot be argued for one writer at a time. `FileInv` gives the state
of file and backup at each step of the exchange (`Exchanging`); it says that the
file holds every change of the backup and is missing only where a rename has just
moved it; what a removal takes back is a record and not a change, which is why
the content survives every death and the progression check may still refuse it.

*Journal.* `Sound` relates a record to what was sent and to the provider: a task
that was sent has a receipt, is uncertain or may be spawned, so no other record
may be called unsent. `Finds` says what a submitting Runtime meets when it comes
back to the record, `Asks` that a poll, however late, brings what the provider
has said for good; and the slots are at most `MaxActive`, which the properties
do not say and `SlotsCover` needs. `KeepsPromise` is proved by one step lemma: a
step that changes no verdict and sends nothing is a stutter, the others are
`Send`, `GiveUp`, `Doubt` and `Finish` of `SubmissionPromise`.

*Sessions.* `ChallengesStand`: no open challenge is of a key that was revoked
since; without it an exchange could register the key again. `KeysNamed` says
that a page in the middle of a connect has a key.

*Canvas.* The argument follows the stamps of one node. What a page has queued or
writes carries only stamps the page last saw stored, and its base carries all of
those its change was made from (`Carries`, `Stamped`); memory has more only while
an attempt shows its result (`Shows`); a content made by an effect goes with the
effect's stamp everywhere (`Own`). All of this is false of a node that was
deleted and stored again, hence the exception.

*Assets.* `Traced`: whatever is stored, shown, queued or being written was added
by hand, inserted or left by a failed insertion. `Born`: an insertion's asset is
stored or has a tombstone, so it is not inserted twice. `Touched`: what people
touched covers the difference between a queued change and its base, also while a
save is under way and another edit joins (`Restored`: an asset deleted by the
first and put back by the second counts as touched in every field). `Adding`: a
page about to add an asset is the only one that knows of it. All but `Touched`
are proved of every step in one form: `Moves(t)` says what a step of page `t`
may do to one asset, each action is shown to be such a move, and each part of
the invariant to survive one. `Merged...` lemmas, shared in kind with the
canvas, say what `EntityRebase` makes of one entity.

Only model-checked: liveness (`TaskEnds`, `BillCloses`, `WaiterServed`,
`AcceptedIsSettled`, `PagesSettle`), what fails (the violation and the further
configurations), and `CreditLedger` and `TaskExecution` outside the conditions
above. TLAPS 1.4.5 does not reach liveness under fairness or `ENABLED`; nor
induction over data, so the lemmas about sums start from the recursive equation
of `Totals`' function, and nothing is proved from a RECURSIVE operator.

## Not modelled

* `requestProviderCancellation` and `cancelActiveTask`: no caller reaches them.
* Choice of a route, quotes, circuit breaking; token prices beyond their
  bounds: arithmetic and configuration, no protocol.
* Projects, storyboards, catalogues, adapters, prompt templates, settings: one
  row at a time.
* User interface, timeline and layout: gestures and pure functions of what is
  shown; the vendored media libraries.
* Formats of provider requests and answers, of state files and of signatures:
  data.
* The file system below a rename, and power loss.

## Plan

1. Proofs: `TaskExecution`'s conditions one by one, where the code is right
   without them (a worker that has lost its lease in a run no one retries keeps
   `ResultIsPaid`); the ledger at READ COMMITTED for users who have one open
   order; an abstract mutex and an abstract register that `StateFile`
   implements until a lock is touched; an abstract claim for `EffectLease`.
2. `ChannelSlots` (expiring tokens, admission limit) against an abstract
   counting semaphore. A worker's slot lives 45 minutes and is not renewed.
3. `CanvasCalls`: tool calls that outlive a page's connection. A generation call
   may wait 35 minutes, its page's session ends after ten
   (`canvas-session.ts:41`).
4. `UploadQuota`, `TextReplay`; token price arithmetic as functions checked
   against a reference definition, with its 64-bit width.
