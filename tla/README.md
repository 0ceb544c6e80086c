# Verification of the Hollysys delivery controller

The repository is a controller that drives an unattended software delivery: a
human starts a *run* from a chat message, the controller creates Kanban work
cards one after the other (specification, design, code, test, review), Hermes
agents work on them, and the result is a merge request on GitLab.  Everything
the controller knows is in one SQLite file; everything it does happens in
several threads of one process that s6 restarts when it dies.

This directory holds TLA+ models of the parts of the controller where several
threads, crashes and external systems meet, the TLC configurations that check
them, and TLAPS proofs.  `PROJECT.json` lists the components, runs, mutants,
findings, hazards, theorems, and the source lines behind every definition.

## Inventory

| Component | State it keeps | Operations | Hard behaviour |
|---|---|---|---|
| Run lifecycle (`store.py` `run_control`, `service.py`) | one row per run: `state`, `state_version`; abort requests; in-memory sets `_reconciling_runs`, `_aborting_runs` | `transition_run`, `set_run_exception`, `mark_flow_completed`, `mark_completed`, abort request / confirm / mark / finish, `resolve`, `recover`, legacy upgrade, dependency handlers | rows are read, minutes of I/O follow, then the row is written by compare-and-swap; a dozen writers in three kinds of threads |
| Reconcile queue (`reconcile_intents`, `poll_once`, `consume_reconcile_once`, `reconcile_all`) | one intent per run: status, lease, revision; event cursors | enqueue, claim, renew, finish; poll; periodic enqueue | leases that expire, wake-ups that are lost, fairness between runs |
| Card publication (`_create_work`, `_ensure_work_published`, `_operation`, `operations`) | managed cards, operations ledger, Kanban statuses | create on hold, register, release, record, cancel; archive on abort | every step is an external effect that a crash or an abort may separate from the next |
| Delivery workflow (`workflow.py`, `_reconcile_run`) | history of completions | route a completion to the next stage, repair, finalisation, retry | limits and same-head pairing of test and review |
| Worker attempts and watchdog (`record_card_runtime_event`, `_enqueue_stale_worker_notices`, `worker_supervisor.py`, `worker_recovery.py`) | attempt identity, leases, redispatch budget, provider cool-down | lifecycle events, observation, reclaim, redispatch | late events of old attempts, crash between redispatch and accounting |
| Dependency circuit (`record_dependency_failure`, `_recover_gitlab_circuit`) | outages, backoff, associated runs | failure, half-open probe, recovery of each run | partial recovery, backoff arithmetic |
| Outbox (`enqueue`, `flush_outbox`, `notifier.py`) | messages, attempts, dead letters | enqueue, select, send, finish, fail | send and acknowledge are not atomic; two loops flush |
| Start requests (`begin_request`, `_start`, `_initialize_run`, daemon) | durable requests, operations ledger, the run's first cards | begin, validate, bind run, initialize, finish, resume, recover | resumption after a crash, duplicates, a reconcile of a run that is not initialized yet |
| Delivery binding and merge (`gitlab.py`, `_finalize_merged`) | MR identity, checked head | publish, ready transition, complete | the head moves while it is being checked |
| GitLab/git/Kanban access, RPC, CLI, configuration, schemas, messages | none of their own | I/O, parsing, rendering | — |

Components interact through the database and through three kinds of threads:
the *intent workers* reconcile a run when its intent is claimed; the *sweep*
(`reconcile_all`) continues aborts, probes GitLab, looks for stale workers and
enqueues every open run every 30 s; *RPC threads* serve human commands.  A
reconcile of a run is serialised by an in-memory claim, not by a database lock.

## Modules

### `RunControl`

The `run_control` row of one run and all its writers.  `state` and `version`
are the row; `claim` and `abortClaim` are the two in-memory sets, restricted to
this run; `pc[t]` says where thread `t` is, `snap[t]` is the row it read and has
not written yet together with the call site (`human_block`, `admission`,
`dependency`, `recovered`, `circuit`, `resolve`, `recover`, `upgrade`) that
will hand it to `transition_run`.  A read and the later write are two actions,
everything else a thread does between them is left out.  `ReadStates` and
`NewStates` are the tables of the call sites: the states in which a site goes on
and the state it asks for.  `TransitionRun` succeeds if the row is as it was
read; otherwise it raises, and what happens then depends on the thread:
`WorkerRefused` (recorded as a run exception, or only logged), `RpcRefused`
(answered), `SweepRefused` (ends the process).  `SetRunException`,
`MarkFlowCompleted`, `CompleteMerged`, `MarkAborting`, `FinishAbort`,
`ConfirmAbort` are the writers that check the state in their own transaction.
`Crash` and `Restart` clear everything that is memory.

A request resumed by `reconcile_all` after a restart runs the code of an RPC
and is an RPC thread here.  `merge_wait` and `transition_pending` appear in the
code's state sets but no code reaches them (`Route.merge` is never returned, and
`set_merge_wait` has no other caller); they are kept in the sets and are unreachable in the model
too.

### `ReconcileQueue`

From a Kanban event to a reconcile.  `status`, `owner`, `dirty`, `expired` are
the intent rows (`dirty` is "revision differs from leased_revision", the only
use the code makes of revisions), `born` the order of `created_at`.  `event` and
`polled` are the poll loop; `holder` the in-memory claim; `news` is a history
variable: runs whose board shows something no finished reconcile has read.
`finish_reconcile` is two actions because its SELECT runs before Python's
sqlite3 opens the write transaction.  A lease may expire under a live worker
(`LiveLeaseExpires`, bounded by `MaxFaults`) and always expires when the boot
that took it is gone.

### `CardPublication`

The creation and release of successive work cards of one run, beside an abort.
`board` is Kanban (external; `ready` and `triage` are folded into `todo`),
`managed` the store's cards, `op` the ledger entry of each card's release.  One
reconciler suffices because of theorem `ReconcileIsExclusive`.  Each external
effect and each check of the row is an action of its own.

A card is its idempotency key: stage, iteration within the stage, and mode.
`route` is the stage and mode that the history and the head call for, and
`context` numbers the histories and heads there have been: a worker's completion
and a `Push` change both.  `PrepareWork` computes the key anew each time
(`Key`), and `CreateWork` finds the card that has it, whose body must be what
would be written now (`VerifyWork`, `body`, `seen`).  A crash after `CreateWork`
followed by a `Push` therefore leads to another card, or to an exception.
`Recover` issues a latest card that was archived again.

### `DeliveryWorkflow`

How the completion of the latest card is judged, and what comes next.  `history`
is the list of work cards with what the worker reported and what the controller
made of it; `commits` is the delivery branch, each head with the version of the
PRD and of every document; `draft` and `checked` are the hand-over.  As in the
code, the counters (`ReviewAttempts`, `ProtocolFailures`, `CodeModifications`),
the frozen baselines and the paired test are functions of the history.  One
reconcile is a sequence of steps, one for each time the code reads the head of
the merge request again: `ValidateCompletion` (context and finalization checks),
`ValidateGate` (author and gate validation), `CheckFrozen`, `Route` with its
variants `RouteCancelled` and `RouteUnpaired`, `FinalizeCodeFlow`, `MarkReady`,
`MarkFlowCompleted`.  A `Push` may come between any two of them, a `Crash`
starts the reconcile over, `BadCompletion` is a worker that gives up or delivers
what has to be refused; a version 0 in it is a digest or path set that no head
has, which `AuthoredCommit` cannot restore.  The phases are a constant, the code's three (`spec`,
`plan`, `tasks`) being one value of it.

Abstracted: the creation of a card is one step and its preflight check reads the
head of the step that creates it (`CardPublication` has the rest); metadata is
valid, refused by a check that does not depend on the head, or unparsable;
exception cards, human blocks and `resolve` are left out, so an exception is
left by `recover` only.  `validate_artifact_gate_at_ref` cannot fail after
`_frozen_violation` found nothing, because the completion it checks is already
among the baselines; the branch after it is unreachable, and so is the merge path
of `_reconcile_run`.

### `WorkerAttempts`

The attempts of one card.  `task`, `current`, `spawned` and `events` are Hermes'
board as the patches in `container/` make it: a worker changes its card only
while it owns it (`WorkerOwns`), and `reclaim` compares the run id
(`ReclaimAllowed`).  `row`, `recovery` and `runtime` are `card_attempts` and
`card_runtime`; `RecordEvent` is `record_card_runtime_event` with its early
returns (`PreservesFinished`, `IsLate`) as definitions of their own.  Four
actors interleave: Hermes and its workers, the poll loop, the watchdog (`wd`:
read, check under the reconcile claim, Supervisor, recheck, then redispatch or
archive, one action per external call) and an abort (`ab`).  An error nobody
catches is `Restart`.  An attempt stands for its run id, its session and its
worker's pid, which the code derives from it or compares with it; times are
abstracted to "may be stale at any time".

The Supervisor is one step: it ends the worker and confirms, or its answer is
lost, or it does nothing.  A confirmation is certain only of the worker process
itself, which every scan of `/proc` finds as long as it lives; a descendant that
is forked while the Supervisor scans, or during the SIGTERM grace, and whose
parent then exits is missed by `_freeze_tree` and `_remaining` although
`README.md:757` promises that all descendants are gone.  Descendants are
therefore not modelled.

### `StartRequests`

One start message.  `req` and `bound` are the durable request, `ledger` the
operations of `_initialize_run` for each run, `world` what exists outside
(branch, workspace, board, root card).  The RPC thread and the sweep execute the
same steps, one of them at a time (`BeginRequestExecution`); `Recover` resumes a
run in exception; an intent worker reconciles every run whose control row is
open, which includes the one being initialized.  Every external call may fail
before or after its effect.

### `NoticeChannel`, `Outbox`

`NoticeChannel` says what a sender may rely on: a posted notice is shown at
least once before it is confirmed, is confirmed or given up, and stays so.
`Outbox` is the table and its two flushers, the outbox loop and the sweep, with
the lock between them, batches, backoff, dead letters and crashes between
sending and recording.  `ImplementsChannel` maps `posted` to the rows, `shown`
to the messages delivered, and the final statuses to `confirmed` and
`undeliverable`.

### `DependencyCircuit`

The outage tables, shared by one worker per run and the sweep.  A scope is a
run or `Global`; `outage` is the row per scope, `members` the associated runs by
outage id.  `record_dependency_failure` is `RecordSelect` and `RecordUpsert`,
because its SELECT is outside the write transaction; each run is associated,
degraded and recovered in its own step; `DegradeRead`/`DegradeWrite` and
`FinishRead`/`FinishWrite` are the read of the row and its compare-and-swap.
The backoff is abstracted to a flag that time sets.  A run's own backoff holds
back the sweep (`Swept`), an event of the run may come before its end
(`MayReconcile`).

## Runs

| Run | Shows | Bounds |
|---|---|---|
| `run_control` | `TerminalIsFinal`, `AbortOnlyAdvances`, `ExceptionNeedsRecover`, `OneReconcile`, `AbortIsConfirmed`, `AbortCompletes` | one thread of each kind, two abort requests, read-modify-write cycles up to version 3: three threads can each hold a stale row, a request can be replaced by another one, and every site is reached; the safety properties are proved for any number of threads |
| `reconcile_queue` | `NoOrphanLease`, `ClaimNotLeaked`, `EventsAreReconciled` | one run, two workers, two events, two faults: a stolen lease, and a crash at any step |
| `card_publication` | `AbortedIsQuiet`, `SerialWork`, `LedgerIsTrue`, `HoldIsReleased` | two managed cards (up to eight keys), two pushes, outages, exceptions and recoveries up to version 3: a creation is resumed after a crash at the same and at another key, with the same and with another body |
| `idle_active_run` | violated: see Findings | two managed cards, one version more |
| `delivery_workflow` | `ReadyIsProved`, `DeliveryIsFrozen`, `BudgetIsKept` | one document, one review, one modification, one retry, two faults: a fault and a second one while the first is repaired, at any two steps; no author pushes above the 12th head |
| `delivery_phases` | `PhasesAreAccepted`, `FinalizationIsLast`, `DeliveryEnds` | two documents, two reviews each, one fault: a later phase can disturb an earlier document, and a finalization follows a repaired review; 12 heads, which `DeliveryEnds` shows to be enough for every delivery that ends |
| `worker_attempts` | `OnlyOwnersLive`, `ExitIsConfirmed`, `BudgetIsEarned`, `TimelineIsFinal`, `DeadWorkerIsReplaced` | two attempts, a limit of one redispatch, one crash: the first attempt is redispatched, its events arrive late, the second uses the budget up |
| `provider_cooldown` | violated: see Findings | the same without crashes |
| `start_requests` | `OneRunPerMessage`, `FirstWorkIsSingle`, `WorkIsPrepared`, `AnswerIsFinal`, `RequestIsAnswered`, `StartedRunGetsWork` | two faults (a crash, a failed call, a duplicate message, a recovery), hence up to three runs: a fault and another one while the first is made good |
| `start_resume` | violated: see Findings | one fault |
| `outbox` | `ImplementsChannel`, `OthersAreSettled` | three notices, two of which are refused every time, batches of two, one crash: the refused ones fill a batch |
| `dependency_circuit` | `FewRunsStayIsolated`, `CircuitCloses`, `RunsProceed` | two runs, a threshold of two, two failed calls, one crash: both runs fail, or one fails twice, or the probe fails |

`run_control`, `reconcile_queue`, `card_publication`, `worker_attempts` and
`outbox` also check the type invariant of their module; in `DeliveryWorkflow`,
`StartRequests` and `DependencyCircuit` it is proved only.

Each passing property has a mutant in `PROJECT.json`: a plausible slip in the
code under which TLC finds the property violated.

## Fairness

The daemon's loops never end and s6 restarts the process (`WF` on `Restart`, on
the steps of threads that are in the middle of their code, on the sweep and on
claims).  Strong fairness is assumed only of the outside world: stopping a
worker, closing the merge request, a `promote`, a reconcile do not fail every
time they are tried.  `AbortCompletes` further assumes that the daemon stays
up from some point on, `EventsAreReconciled` that the run stays in the sweep's
list, GitLab comes back and commands do not come for ever, `HoldIsReleased` that
crashes, outages and aborts cease.  `DeliveryEnds` assumes that workers finish
(the watchdog redispatches the ones that do not) and that the run is reconciled
(`EventsAreReconciled`); the number of faults is bounded, since someone who
pushes for ever can hold a delivery up for ever.  It excepts the deliveries whose
baseline no head has (`Unrestorable`, see Findings).

`DeadWorkerIsReplaced` assumes that the Supervisor, asked again and again,
answers at times, and that the worktree is at times found unchanged.
`RequestIsAnswered` and `StartedRunGetsWork` assume that the sweep returns to a
running request, that queue workers take every open run, and that a reconcile is
not under way every single time the sweep tries to claim the run.
`OthersAreSettled` assumes that notices outside `Stubborn` are not refused for
ever and that the backoff ends.  `RunsProceed` assumes that a run that the
sweep asks for again and again is reconciled (`ReconcileQueue`), and that calls fail finitely
often; `CircuitCloses` that the sweep comes back.  In all of them the number of
faults is bounded by a constant.

## Proofs

Every safety property that a passing run checks is also a theorem, for every
value of the constants; the liveness properties are model-checked only.  Each
module has its proofs in a module of its own:

| Module | Assumption | Theorems (property) |
|---|---|---|
| `RunControlProofs` | `ThreadsAssumption` | `TypeCorrect`, `ReconcileIsExclusive` (`OneReconcile`), `AbortNeedsConfirmation` (`AbortIsConfirmed`), `TerminalStatesAreFinal` (`TerminalIsFinal`), `AbortsOnlyAdvance` (`AbortOnlyAdvances`), `ExceptionsNeedRecovery` (`ExceptionNeedsRecover`) |
| `ReconcileQueueProofs` | `QueueAssumption` | `TypeCorrect`, `LeasesAreNotOrphaned` (`NoOrphanLease`), `ClaimsAreNotLeaked` (`ClaimNotLeaked`), `StolenLeasesAreHarmless` |
| `CardPublicationProofs` | `CardAssumption` | `TypeCorrect`, `AbortsAreQuiet` (`AbortedIsQuiet`), `WorkIsSerial` (`SerialWork`), `LedgerTellsTheTruth` (`LedgerIsTrue`) |
| `DeliveryWorkflowProofs` | `WorkflowAssumption` | `TypeCorrect`, `ReadyDeliveriesAreProved` (`ReadyIsProved`), `DeliveriesAreFrozen` (`DeliveryIsFrozen`), `PhasesComeInOrder` (`PhasesAreAccepted`), `FinalizationsAreLast` (`FinalizationIsLast`), `BudgetsAreKept` (`BudgetIsKept`) |
| `WorkerAttemptsProofs` | `AttemptAssumption` | `TypeCorrect`, `CardsAreNotTakenFromTheLiving` (`OnlyOwnersLive`), `ConfirmationsStayTrue` (`ExitIsConfirmed`), `BudgetsAreEarned` (`BudgetIsEarned`), `TimelinesAreFinal` (`TimelineIsFinal`) |
| `StartRequestsProofs` | `FaultAssumption` | `TypeCorrect`, `MessagesDeliverOneRun` (`OneRunPerMessage`), `FirstWorkIsNotDoubled` (`FirstWorkIsSingle`), `WorkBeginsPrepared` (`WorkIsPrepared`), `AnswersAreFinal` (`AnswerIsFinal`) |
| `OutboxProofs` | `OutboxAssumption` | `TypeCorrect`, `OutboxImplementsChannel` (`ImplementsChannel`) |
| `DependencyCircuitProofs` | `CircuitAssumption` | `TypeCorrect`, `FewRunsAreIsolated` (`FewRunsStayIsolated`) |

The assumptions say that the bounds are natural numbers and that values such as
"nobody" or the global scope are not threads or runs.  `WorkflowAssumption` adds
that the document phases are distinct and none is the PRD or the code, and that
the limits are positive (the configuration demands it), `CircuitAssumption` that
the threshold is.  In each module the safety properties follow from an inductive
invariant `IInv`: it holds at first (`InitIInv` or the like), every action keeps
it, and `Invariance` combines the two.

### `RunControlProofs`

`RunControlProofs` proves for any sets of workers, command threads and
requests, and without the version bound playing a role:

* `TypeCorrect`: the type invariant is inductive by itself.
* `Invariance`: `IInv` = `TypeOK` and
  * `Holder`: a thread that works under the reconcile claim holds it,
  * `SnapAgrees`: a row that was read is not newer than the row, and equal to
    it if the version is the same (every write increments the version, so
    comparing versions compares rows),
  * `SitesAgree`: `transition_run` is called with a row that was read, and
    workers never recover or upgrade,
  * `TokenHeld`: a confirmation in progress has selected a request,
  * `AbortIsConfirmed`.
* `ReconcileIsExclusive` (`OneReconcile`) follows from `Holder`,
  `AbortNeedsConfirmation` is a conjunct.
* `OnlyRowWrites` lists the steps that write the row; from it and `IInv` follow
  `TerminalStatesAreFinal`, `AbortsOnlyAdvance` and `ExceptionsNeedRecovery`.
  `AbortsOnlyAdvance` needs `SnapAgrees`: a dependency handler that read
  `abort_requested` writes it back only if nobody has moved on to `aborting`.

### `ReconcileQueueProofs`

The properties are not inductive because they speak of what a worker does next
and not of what it knows.  `IInv` adds that a busy worker knows its run, that
the lease columns name a worker only while the row is leased and the worker busy
with this run (`LeaseIsBusy`; without the status `finish_reconcile` could find a
row its own and not leased, and leave it behind), and that the worker inside
`reconcile_run` holds the claim of its run.  `StolenLeasesAreHarmless` draws the
conclusion: a lease may expire under a slow worker and the intent be taken by
another, but the claim in memory keeps the two reconciles apart.

### `CardPublicationProofs`

`CardPublicationProofs` proves `TypeCorrect` and, for any number of cards,
crashes and outages, `AbortsAreQuiet`, `WorkIsSerial` and
`LedgerTellsTheTruth`.  None of the three is inductive; each is strengthened by
what the threads know when they are in the middle of their code:

* `AbortSafe`: the abort reads the managed cards after the run has left the
  mutable states, so no release begins after that read; a card that is
  dispatchable or whose release is under way is among its targets, and there is
  none when the run is aborted;
* `LedgerSafe`: a card exists before it is registered, is registered before it
  is released, and is off its hold before the ledger says so;
* `SerialSafe`: a card is created and registered while all managed ones have
  finished, and is released only after that.  The argument does not need the
  keys: a card that was created and not registered stays on hold, whether its key
  comes round again or not.

`TypeCorrect` needs `Typed`, which adds that the managed cards are finitely many,
so that their number bounds the iteration of the next key, and that the latest
one is among them.  The only assumption is that the bounds are natural numbers.

### `DeliveryWorkflowProofs`

The controller keeps no counters and no phase: it recomputes everything from the
history of cards at each reconcile.  The invariant therefore speaks of the
history (`HistoryIsSound`) and, for a reconcile that is under way, of what it
has established at each of its reads (`PlaceIsTrue`):

* `CardsAreSound`: what is written on a card agrees (only documents are
  finalized, only a valid completion is accepted, ...);
* `ReviewIsTested`: before a code review there is an accepted, passed test,
  followed by code reviews only; `ReadyIsProved` needs it because a review is
  repeated after protocol errors;
* `PhasesAreEarned`: the phases before the latest card were accepted *by cards
  that are not judged again*, which is what makes `PhasesAreAccepted` inductive;
* `FinalizationsAreOpen`: a finalization is derived from the review that reached
  the limit, and until the phase is over all cards are finalizations of the same
  document;
* `DocumentsComeFirst` and `BudgetIsHeld`: the implementations already spent, and
  the latest one if it can still become one more, are within the budget.

The argument has three layers.  Lemmas about stages: the documents are distinct,
so that `SEQUENCE` is injective and a stage has one position, a next stage and a
floor (`Positions`, `NextStages`, `ProducerFloor`).  Lemmas about a history of
which only the last card is judged, completed or marked (`LastCardChanges`), and
about a history to which a card is issued: `Issues(h, d)` is what every new card
has to satisfy, `CardIsIssued` shows that it suffices, and `CreateWorkIssues`,
`RetryIssues`, `RepairIssues`, `TestIssues` and `RouteIssues` show that each call
site satisfies it.  Then one lemma per action.

### `WorkerAttemptsProofs`

A watchdog acts on what it read some steps ago, and an event is handled long
after it was written; the invariant says that both are still true then.
`EventsAreTrue`: an exit, a reclaim or a completion in the queue still describes
its attempt, however late it is read.  `TargetIsGone` and `DoomedIsGone`: from
the Supervisor's confirmation on, the worker in question is gone, and until the
watchdog uses this the card is still the target's or archived by an abort.
`CardIsOwned` and `OnlyOwnersLive` make these stable: attempts are not reused, and
who has left the card does not get it back.  `MarksAreEarned` counts: the marks in
the ledger, and the redispatch that is issued and not marked yet, are not more
than the redispatches.  `TimelinesAreFinal` is proved from `RowsAreTrue` (an
attempt recorded as reclaimed was) for each step that writes the rows.

### `StartRequestsProofs`

`IInv` consists of who works on what (`OneStarter`, `RunIsSaved`, `RunIsBound`,
`ClaimIsHeld`), of what has happened at each place of the code (`PlaceIsTrue`,
`LedgerIsTrue`, `WorkIsPrepared`) and of the cards (`CardsAreOrdered`,
`AnswerIsTrue`).  The essential part is that a starter, a recovery and a
reconcile that create the first work card each hold the claim of the run and have
seen, under it, that there is none.  `RunsAreFaults` bounds the runs of one
message: each one beyond the first was lost by a fault.

### `OutboxProofs`

`OutboxProofs` proves `TypeCorrect` and, for any set of notices and any batch
limit, `OutboxImplementsChannel`: every step of the outbox is a step of
`NoticeChannel` or leaves its variables alone.  The refinement needs `IInv`: a
flusher works only under the lock, so the two never handle a notice at the same
time; the notice in hand is unsettled; and a flusher that is about to record a
delivery has made one.

### `DependencyCircuitProofs`

`MembersAreStruck`: the outages of the runs have no members, registered or about
to be, other than runs that had an error.  `OpeningIsEarned`: a worker that is
about to open the global circuit for a timeout has counted enough of them; the
count is taken before the row is written, and the set of struck runs only grows.
`SweepIsGlobal` rules the sweep out as the one that opens it: its failed probe
finds the circuit open.  The type invariant itself is not inductive, since
outages are numbered up to a bound; `IdsAreBudgeted` counts the outages that the
threads may still open, two for each failed call.

### What stays with TLC

`AbortCompletes`, `EventsAreReconciled`, `HoldIsReleased`, `DeliveryEnds`,
`DeadWorkerIsReplaced`, `RequestIsAnswered`, `StartedRunGetsWork`,
`OthersAreSettled`, `CircuitCloses` and `RunsProceed` are liveness properties:
fairness and ENABLED are outside the prover.

## Findings

Three documented claims are violated by the code; each has a run, and
`PROJECT.json` quotes the claim:

* `idle_active_run`: an outage recorded during a publication archives the new
  card and leaves an active run without work.
* `provider_cooldown`: the cool-down after a provider's EX_TEMPFAIL never
  begins; the card is dispatched again at once and the controller process ends.
* `start_resume`: a start that is interrupted after it created the delivery
  branch fails on that branch whenever it is resumed.

The models show more, for which no run is kept:

* A lost compare-and-swap in the sweep ends the process (`SweepRefused`,
  `DegradeWrite`), although `README.md:658` names only local failures; in a
  worker the same error of the dependency handler fails the intent, which is
  taken up again.
* A crash between `create_work` and `add_managed_card`, and a push before the
  creation is resumed, leave the first card on the board for good: it is on hold
  and unregistered, so that neither a reconcile nor an abort sees it
  (`CreateWork`, `Key`).  If its key comes round again, or the head moved without
  changing the key, `_verify_work` raises (`VerifyWork`): the run is in
  exception, and as long as the next card has that key each `recover` ends there
  again.
* An intent enqueued between the SELECT and the UPDATE of `finish_reconcile` is
  marked done (`FinishSelect`, `FinishUpdate`; `tests/test_v4_contract.py:117`);
  the next sweep makes up for it.
* A passed review that is refused because a frozen document was changed still
  counts, so that there can be one review beyond the limit (`README.md:701`); if
  it fails, `RepairContext` refuses the attempt and the run is in exception.
* A push around the ready transition ends in an exception (`MarkReady`) instead
  of a new test (`README.md:722`).
* A crash between the reclaim of a card and `update_worker_watchdog` loses the
  count of that redispatch (`WatchdogReclaim`, `WatchdogMark`), so there may be
  more redispatches than `README.md:749` allows; `BudgetIsEarned` is the
  direction that holds.
* `redispatch_stale_worker` finds the card running again when Hermes was faster
  than its read-back (`WatchdogReread`), and the error ends the process.
* A crash between `save_run` and `bind_request_run` leaves an active run nobody
  works for: the run key is random, so the resumed request makes another run
  (`ValidateStart`).
* A reconcile that comes before the root card is registered finds an unknown run
  and puts it into exception (`ReconcileRun`); the start then fails when it
  creates the first work card.
* A crash or a stale version between `recover_dependency` and the last
  transition leaves a run `dependency_degraded` without an open outage: it is
  reconciled, but never `active` again, which switches its watchdog off
  (`Close`, `FinishWrite`).
* The scoped outage of a run that has left for exception stays open and
  corroborates later failures of other runs (`Corroborating`; `README.md:653`
  speaks of runs that fail at the same time).
* `create_abort_request` refuses an abort in `human_blocked` and `retry_wait`
  (`AbortableStates`), although `README.md:805` promises an abort at any time.
* A reconcile result that is stale because the row moved on is recorded as a run
  exception (`WorkerRefused`) instead of being discarded (`README.md:771`).
* `claim_reconcile` prefers the oldest `created_at`, which no enqueue refreshes:
  as many slow runs as there are workers starve a younger one
  (`README.md:772`).
* A push that arrives before the reconcile of a code review is a protocol
  failure (`ValidateCompletion`): the code review is repeated, not the test
  (`README.md:711`, the comment at `service.py:3075`).
* `_frozen_baselines` accepts a passed review that was refused as a protocol
  error (`FreezesPhase`): its document is frozen (`README.md:686`).  If it was
  refused for a wrong digest or path set, no head can satisfy the baseline: every
  author is followed by another repair, which no counter limits
  (`Unrestorable`; `CheckFrozen`, `CreateWork`), although `README.md:686` promises
  two retries at most.

## Plan

Modelled: `RunControl`, `ReconcileQueue`, `CardPublication`, `DeliveryWorkflow`,
`WorkerAttempts`, `StartRequests`, `Outbox` with `NoticeChannel`,
`DependencyCircuit`; their safety properties are proved.  Next, in this order:

1. `RunLifecycle`, the abstract life of a run, implemented by `RunControl`
   (refinement, checked and proved).
2. Exception cards, human blocks and `resolve` beside `CardPublication` and
   `DeliveryWorkflow`; the delivery binding and the completion of a merged run.

## Not modelled

GitLab, git and Kanban access, RPC framing, the CLI, configuration, schemas and
message rendering hold no state of their own: they are I/O and conversions,
and their failures are the nondeterministic outcomes of the modules above.  Of
the Hermes patch in `container/` the claims, fences, exit events and
compare-and-swaps that the controller relies on are in `WorkerAttempts`; the
rest of it (prompts, terminal, delegation, metrics) and the scripts are
deployment code.  The Supervisor's handling of process trees is described under
`WorkerAttempts`; its process identities, signals and `/proc` scans are not
modelled.  `_release_provider_cooldowns` is unreachable (see `provider_cooldown`)
and `retry_dead_outbox` is called nowhere.
