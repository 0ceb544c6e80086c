---------------------------- MODULE WorkerAttempts ----------------------------
(***************************************************************************)
(* The attempts of one work card: Hermes spawns workers and appends task   *)
(* events, the poll loop turns them into card_attempts and card_runtime    *)
(* (store.py), the sweep's watchdog stops a stale worker and reclaims its  *)
(* card, and an abort stops it for good (service.py, kanban.py).           *)
(*                                                                         *)
(* An attempt is its Kanban run id; it stands for the worker pid and the   *)
(* session id too, which the code derives from it or compares with it.     *)
(* Times are left out: a row that was started and is not finished may be   *)
(* stale at any time, and the order of created_at is the order of the      *)
(* attempts.  The Supervisor is one step here, and so are Hermes' claim    *)
(* and spawn; of a worker's processes only the worker itself, the one a    *)
(* confirmation is certain about, is modelled.                             *)
(***************************************************************************)
EXTENDS Naturals, Sequences, FiniteSets

CONSTANTS MaxAttempts,           \* bound: workers Hermes spawns for the card
          WorkerRedispatchLimit, \* config.worker_redispatch_limit
          MaxFaults              \* bound: crashes of the controller

ASSUME AttemptAssumption ==
  MaxAttempts \in Nat /\ WorkerRedispatchLimit \in Nat /\ MaxFaults \in Nat

Attempts == 1..MaxAttempts

VARIABLES
  run,        \* run_control.state
  task,       \* Kanban: the status of the card
  current,    \* Kanban: current_run_id, 0 when the card is unclaimed
  spawned,    \* Kanban: the last run id
  alive,      \* attempts whose worker process runs
  left,       \* history: attempts that ended their work on the card themselves
  events,     \* task_events behind the poll cursor
  row,        \* card_attempts.status
  recovery,   \* attempts whose recovery_reason is set
  runtime,    \* card_runtime: session, finished, redispatch_count
  poll,       \* where the poll loop is
  wd,         \* where the watchdog is
  target,     \* the attempt it has read
  budget,     \* the redispatch_count it has read
  moved,      \* deadline_at has changed since it read the row
  ab,         \* where the abort is
  doomed,     \* the attempt the abort stops
  reclaims,   \* history: redispatches the watchdog has issued
  faults      \* crashes so far

kanban   == <<task, current, spawned, events>>
process  == <<alive, left>>
store    == <<row, recovery, runtime>>
watchdog == <<wd, target, budget>>
abort    == <<ab, doomed>>
vars == <<run, task, current, spawned, alive, left, events, row,
          recovery, runtime, poll, wd, target, budget, moved, ab, doomed,
          reclaims, faults>>

Kinds == {"claimed", "progress", "completed", "blocked", "reclaimed",
          "worker_exited"}

\* Mutant of Terminal: the exit of a worker finishes its attempt.
TerminalWithExit == {"completed", "blocked", "reclaimed", "worker_exited"}

\* The kinds of events that finish an attempt.
Terminal == {"completed", "blocked", "reclaimed"}

\* The runtime row, the attempts, the card and the threads are well formed.
TypeOK ==
  /\ run \in {"active", "exception", "aborting", "aborted"}
  /\ task \in {"ready", "running", "blocked", "done", "archived"}
  /\ spawned \in 0..MaxAttempts
  /\ current \in 0..spawned
  /\ alive \subseteq 1..spawned
  /\ left \subseteq 1..spawned
  /\ events \in Seq([kind : Kinds, run : 1..spawned, tempfail : BOOLEAN])
  /\ row \in [Attempts -> {"none", "running", "exited"} \cup Terminal]
  /\ recovery \subseteq Attempts
  /\ runtime \in [session : 0..spawned, finished : BOOLEAN, count : Nat]
  /\ poll \in {"idle", "tempfail", "quarantine", "cursor"}
  /\ wd \in {"idle", "check", "observe", "recheck", "reclaim", "reread",
             "record", "mark", "archive", "close", "exception"}
  /\ target \in 0..spawned
  /\ budget \in Nat
  /\ moved \in BOOLEAN
  /\ ab \in {"idle", "observe", "recheck", "reclaim", "record"}
  /\ doomed \in 0..spawned
  /\ reclaims \in Nat
  /\ faults \in 0..MaxFaults

\* register_card_attempt has made the runtime row, the card is released.
Init ==
  /\ run = "active"
  /\ task = "ready"
  /\ current = 0
  /\ spawned = 0
  /\ alive = {}
  /\ left = {}
  /\ events = <<>>
  /\ row = [a \in Attempts |-> "none"]
  /\ recovery = {}
  /\ runtime = [session |-> 0, finished |-> FALSE, count |-> 0]
  /\ poll = "idle"
  /\ wd = "idle"
  /\ target = 0
  /\ budget = 0
  /\ moved = FALSE
  /\ ab = "idle"
  /\ doomed = 0
  /\ reclaims = 0
  /\ faults = 0

-----------------------------------------------------------------------------
(* Hermes and its workers (external, as patched by container/) *)

Event(kind, a) == [kind |-> kind, run |-> a, tempfail |-> FALSE]

\* The dispatcher claims a ready card and spawns a worker.
Spawn ==
  /\ task = "ready"
  /\ spawned < MaxAttempts
  /\ spawned' = spawned + 1
  /\ current' = spawned'
  /\ task' = "running"
  /\ alive' = alive \cup {spawned'}
  /\ events' = Append(events, Event("claimed", spawned'))
  /\ UNCHANGED <<run, left, store, poll, watchdog, moved, abort, reclaims,
                 faults>>

\* _assert_expected_worker_attempt: a worker changes its card only while the
\* card is running and the attempt is the current one.
WorkerOwns(a) == a \in alive /\ task = "running" /\ current = a

Progress(a) ==
  /\ WorkerOwns(a)
  /\ Event("progress", a) \notin {events[i] : i \in 1..Len(events)}
  /\ events' = Append(events, Event("progress", a))
  /\ UNCHANGED <<run, task, current, spawned, process, store, poll, watchdog,
                 moved, abort, reclaims, faults>>

\* The worker completes its card or blocks it; its process lives on a while.
Finish(a) ==
  /\ WorkerOwns(a)
  /\ \E kind \in {"completed", "blocked"} :
       /\ task' = IF kind = "completed" THEN "done" ELSE "blocked"
       /\ events' = Append(events, Event(kind, a))
  /\ current' = 0
  /\ left' = left \cup {a}
  /\ UNCHANGED <<run, spawned, alive, store, poll, watchdog, moved,
                 abort, reclaims, faults>>

\* The worker process ends by itself; the waitpid event is best effort.
Exit(a) ==
  /\ a \in alive
  /\ alive' = alive \ {a}
  /\ \/ UNCHANGED events
     \/ events' = Append(events, Event("worker_exited", a))
     \/ /\ WorkerOwns(a)
        /\ events' = Append(events, [kind |-> "worker_exited", run |-> a,
                                     tempfail |-> TRUE])
  /\ UNCHANGED <<run, task, current, spawned, left, store, poll, watchdog,
                 moved, abort, reclaims, faults>>

\* reclaim_task: the compare-and-swap of the patched Hermes.
ReclaimAllowed(a) == task = "running" /\ current = a

\* ... and its effect: the card is ready again, or archived at once.
Reclaim(a, status) ==
  /\ task' = status
  /\ current' = 0
  /\ events' = Append(events, Event("reclaimed", a))
  /\ UNCHANGED spawned

\* SupervisorClient._call: the Supervisor knows the attempt and ends its
\* worker, or there is no answer, and nobody knows whether it did.
Observe(a, confirmed) ==
  /\ confirmed => ReclaimAllowed(a)
  /\ \/ /\ alive' = alive \ {a}
        /\ \/ UNCHANGED events
           \/ /\ a \in alive
              /\ events' = Append(events, Event("worker_exited", a))
     \/ /\ ~confirmed
        /\ UNCHANGED <<alive, events>>
  /\ UNCHANGED <<task, current, spawned, left>>

-----------------------------------------------------------------------------
(* ControllerStore *)

\* record_card_runtime_event, step by step: the start of another session ...
NewSession(e) == e.kind = "claimed" /\ e.run # runtime.session

\* Mutant of PreservesFinished: a finished attempt is not protected.
PreservesNothing(e) == FALSE

\* ... an event that may not reopen a finished attempt ...
PreservesFinished(e) ==
  runtime.finished /\ e.kind \notin Terminal /\ ~NewSession(e)

\* ... an event of an attempt that is not the current one ...
IsLate(e) ==
  /\ runtime.session # 0
  /\ e.run # runtime.session
  /\ e.kind = "claimed" => e.run < runtime.session

\* Mutant of AttemptStatus: the kind of the last event is the status.
AttemptStatusIsKind(e) ==
  IF e.kind \in Terminal \cup {"worker_exited"} THEN e.kind
    ELSE IF row[e.run] = "none" THEN "running" ELSE row[e.run]

\* ... the row of the attempt ...
AttemptStatus(e) ==
  IF e.kind = "worker_exited"
    THEN IF row[e.run] = "reclaimed" THEN "reclaimed" ELSE "exited"
    ELSE IF e.kind \in Terminal THEN e.kind
    ELSE IF row[e.run] = "none" THEN "running" ELSE row[e.run]

\* ... and the runtime row of the card.
RecordEvent(e) ==
  /\ row' = IF PreservesFinished(e) /\ e.kind # "worker_exited"
              THEN row ELSE [row EXCEPT ![e.run] = AttemptStatus(e)]
  /\ IF PreservesFinished(e) \/ IsLate(e)
       THEN UNCHANGED <<runtime, moved>>
       ELSE /\ runtime' = [runtime EXCEPT !.session = e.run,
                                          !.finished = e.kind \in Terminal]
            /\ moved' = (moved \/ e.kind # "worker_exited")
  /\ UNCHANGED recovery

\* Mutant of IncrementRedispatch: all attempts are counted, not the marks.
CountAttempts ==
  /\ recovery' = {a \in Attempts : row[a] # "none"}
  /\ runtime' = [runtime EXCEPT !.count = Cardinality(recovery')]
  /\ moved' = TRUE
  /\ UNCHANGED row

\* update_worker_watchdog(increment_redispatch): the newest row is marked, and
\* the marks are counted.
IncrementRedispatch ==
  LET known  == {a \in Attempts : row[a] # "none"}
      newest == {a \in known : \A b \in known : b <= a}
  IN  /\ recovery' = recovery \cup newest
      /\ runtime' = [runtime EXCEPT !.count = Cardinality(recovery')]
      /\ moved' = TRUE
      /\ UNCHANGED row

\* _worker_identity: the session of the runtime row owns the card.
WorkerIdentity == task = "running" /\ runtime.session = current

\* The process ends; s6 starts it again.
Restart ==
  /\ poll' = "idle"
  /\ wd' = "idle"
  /\ ab' = "idle"
  /\ UNCHANGED <<target, budget, doomed>>

Crash ==
  /\ faults < MaxFaults
  /\ <<poll, wd, ab>> # <<"idle", "idle", "idle">>
  /\ faults' = faults + 1
  /\ Restart
  /\ UNCHANGED <<run, kanban, process, store, moved, reclaims>>

-----------------------------------------------------------------------------
(* The poll loop *)

\* poll_once: the event is recorded before the cursor moves.
PollEvent ==
  /\ poll = "idle"
  /\ events # <<>>
  /\ RecordEvent(Head(events))
  /\ poll' = IF Head(events).tempfail THEN "tempfail" ELSE "cursor"
  /\ UNCHANGED <<run, kanban, process, watchdog, abort, reclaims, faults>>

\* _record_provider_tempfail_exit: only for the attempt that owns the card.
RecordProviderTempfailExit ==
  /\ poll = "tempfail"
  /\ poll' = IF ReclaimAllowed(Head(events).run) THEN "quarantine" ELSE "cursor"
  /\ UNCHANGED <<run, kanban, process, store, watchdog, moved, abort, reclaims,
                 faults>>

\* quarantine_provider_tempfail reclaims the card and expects to find it
\* blocked.  It never is: reclaim makes it ready, or the card was taken away
\* before.  _operation makes the error fatal.
QuarantineProviderTempfail ==
  /\ poll = "quarantine"
  /\ IF ReclaimAllowed(Head(events).run)
       THEN Reclaim(Head(events).run, "ready")
       ELSE UNCHANGED kanban
  /\ Restart
  /\ UNCHANGED <<run, process, store, moved, reclaims, faults>>

SetCursor ==
  /\ poll = "cursor"
  /\ events' = Tail(events)
  /\ poll' = "idle"
  /\ UNCHANGED <<run, task, current, spawned, process, store, watchdog, moved,
                 abort, reclaims, faults>>

\* The reconcile of a finished card: record_attempt_completion.  It holds the
\* reconcile claim, which the watchdog has from its first check on.
ReconcileCompletion ==
  /\ run = "active"
  /\ task = "done"
  /\ wd \in {"idle", "check"}
  /\ ~runtime.finished
  /\ runtime' = [runtime EXCEPT !.finished = TRUE]
  /\ UNCHANGED <<run, kanban, process, row, recovery, poll, watchdog, moved,
                 abort, reclaims, faults>>

-----------------------------------------------------------------------------
(* The watchdog: _enqueue_stale_worker_notices *)

\* It reads a stale runtime row and the card; all evidence agrees.
WatchdogRead ==
  /\ wd = "idle"
  /\ run = "active"
  /\ runtime.session # 0
  /\ ~runtime.finished
  /\ WorkerIdentity
  /\ wd' = "check"
  /\ target' = runtime.session
  /\ budget' = runtime.count
  /\ moved' = FALSE
  /\ UNCHANGED <<run, kanban, process, store, poll, abort, reclaims, faults>>

\* _watchdog_target_is_current.
TargetIsCurrent ==
  run = "active" /\ WorkerIdentity /\ target = current /\ ~moved

\* The reconcile claim is taken and the target read again.
WatchdogCheck ==
  /\ wd = "check"
  /\ wd' = IF TargetIsCurrent THEN "observe" ELSE "idle"
  /\ UNCHANGED <<run, kanban, process, store, poll, target, budget, moved,
                 abort, reclaims, faults>>

\* Mutant of WatchdogObserve: a worker that cannot be confirmed to have
\* exited is reclaimed too.
WatchdogTrusts ==
  /\ wd = "observe"
  /\ \E confirmed \in BOOLEAN : Observe(target, confirmed) /\ wd' = "recheck"
  /\ UNCHANGED <<run, store, poll, target, budget, moved, abort, reclaims,
                 faults>>

\* The Supervisor ends the worker; without its confirmation nothing happens.
WatchdogObserve ==
  /\ wd = "observe"
  /\ \E confirmed \in BOOLEAN :
       /\ Observe(target, confirmed)
       /\ wd' = IF confirmed THEN "recheck" ELSE "idle"
  /\ UNCHANGED <<run, store, poll, target, budget, moved, abort, reclaims,
                 faults>>

\* The target, the worktree and the merge request are read once more.
WatchdogRecheck ==
  /\ wd = "recheck"
  /\ \/ /\ TargetIsCurrent
        /\ wd' = IF budget >= WorkerRedispatchLimit THEN "archive" ELSE "reclaim"
     \/ wd' = "idle"
  /\ UNCHANGED <<run, kanban, process, store, poll, target, budget, moved,
                 abort, reclaims, faults>>

\* The card changed after it was read and the command line refuses: a
\* contract error, recorded as an exception of the run.
ReclaimRefused ==
  /\ ~ReclaimAllowed(target)
  /\ run' = IF run = "active" THEN "exception" ELSE run
  /\ wd' = "idle"
  /\ UNCHANGED <<kanban, poll, target, budget, abort>>

\* redispatch_stale_worker reclaims the card ...
WatchdogReclaim ==
  /\ wd = "reclaim"
  /\ \/ /\ ReclaimAllowed(target)
        /\ Reclaim(target, "ready")
        /\ reclaims' = reclaims + 1
        /\ wd' = "reread"
        /\ UNCHANGED <<run, poll, target, budget, abort>>
     \/ /\ ~ReclaimAllowed(target)
        /\ task # "running"
        /\ wd' = "reread"
        /\ UNCHANGED <<run, kanban, reclaims, poll, target, budget, abort>>
     \/ /\ ~ReclaimAllowed(target)
        /\ task = "running"
        /\ Restart
        /\ UNCHANGED <<run, kanban, reclaims>>
     \/ /\ ReclaimRefused
        /\ UNCHANGED reclaims
  /\ UNCHANGED <<process, store, moved, faults>>

\* ... and reads it back: a card that has already been dispatched again, or
\* has ended, is an error nobody catches; a blocked one is released.
WatchdogReread ==
  /\ wd = "reread"
  /\ IF task \in {"ready", "blocked"}
       THEN /\ task' = "ready"
            /\ wd' = "record"
            /\ UNCHANGED <<poll, target, budget, abort>>
       ELSE Restart /\ UNCHANGED task
  /\ UNCHANGED <<run, current, spawned, events, process, store, moved, reclaims,
                 faults>>

\* _record_reclaimed_attempt.
WatchdogRecord ==
  /\ wd \in {"record", "close"}
  /\ RecordEvent(Event("reclaimed", target))
  /\ wd' = IF wd = "record" THEN "mark" ELSE "exception"
  /\ UNCHANGED <<run, kanban, process, poll, target, budget, abort, reclaims,
                 faults>>

WatchdogMark ==
  /\ wd = "mark"
  /\ IncrementRedispatch
  /\ wd' = "idle"
  /\ UNCHANGED <<run, kanban, process, poll, target, budget, abort, reclaims,
                 faults>>

\* The budget is used up: abort_task archives the card.
WatchdogArchive ==
  /\ wd = "archive"
  /\ \/ /\ ReclaimAllowed(target)
        /\ Reclaim(target, "archived")
        /\ wd' = "close"
        /\ UNCHANGED <<run, poll, target, budget, abort>>
     \/ /\ task # "running"
        /\ task' = "archived"
        /\ wd' = "close"
        /\ UNCHANGED <<run, current, spawned, events, poll, target, budget, abort>>
     \/ /\ task = "running" /\ ~ReclaimAllowed(target)
        /\ Restart
        /\ UNCHANGED <<run, kanban>>
     \/ ReclaimRefused
  /\ UNCHANGED <<process, store, moved, reclaims, faults>>

\* _exception; it is superseded, and the process ends, if the run is aborted.
WatchdogException ==
  /\ wd = "exception"
  /\ IF run = "active"
       THEN /\ run' = "exception"
            /\ wd' = "idle"
            /\ UNCHANGED <<poll, target, budget, abort>>
       ELSE Restart /\ UNCHANGED run
  /\ UNCHANGED <<kanban, process, store, moved, reclaims, faults>>

-----------------------------------------------------------------------------
(* An abort: _abort_managed_task *)

\* A confirmed abort; RunControl has the details.
ConfirmAbort ==
  /\ run \in {"active", "exception"}
  /\ run' = "aborting"
  /\ UNCHANGED <<kanban, process, store, poll, watchdog, moved, abort, reclaims,
                 faults>>

\* An unclaimed card is archived, a claimed one only with its worker's
\* identity; when the card is archived the abort is complete.
AbortManagedTask ==
  /\ ab = "idle"
  /\ run = "aborting"
  /\ \/ /\ task = "archived"
        /\ run' = "aborted"
        /\ UNCHANGED <<task, abort>>
     \/ /\ task \notin {"archived", "running"}
        /\ task' = "archived"
        /\ UNCHANGED <<run, abort>>
     \/ /\ WorkerIdentity
        /\ ab' = "observe"
        /\ doomed' = current
        /\ UNCHANGED <<run, task>>
  /\ UNCHANGED <<current, spawned, events, process, store, poll, watchdog, moved,
                 reclaims, faults>>

\* Mutant of AbortObserve: an unconfirmed exit is taken for an exit.
AbortTrusts ==
  /\ ab = "observe"
  /\ \E confirmed \in BOOLEAN : Observe(doomed, confirmed) /\ ab' = "recheck"
  /\ UNCHANGED <<run, store, poll, watchdog, moved, doomed, reclaims, faults>>

AbortObserve ==
  /\ ab = "observe"
  /\ \E confirmed \in BOOLEAN :
       /\ Observe(doomed, confirmed)
       /\ ab' = IF confirmed THEN "recheck" ELSE "idle"
  /\ UNCHANGED <<run, store, poll, watchdog, moved, doomed, reclaims, faults>>

AbortRecheck ==
  /\ ab = "recheck"
  /\ ab' = IF WorkerIdentity /\ doomed = current THEN "reclaim" ELSE "idle"
  /\ UNCHANGED <<run, kanban, process, store, poll, watchdog, moved, doomed,
                 reclaims, faults>>

AbortReclaim ==
  /\ ab = "reclaim"
  /\ \/ /\ ReclaimAllowed(doomed)
        /\ Reclaim(doomed, "archived")
        /\ ab' = "record"
        /\ UNCHANGED <<poll, watchdog, doomed>>
     \/ /\ task # "running"
        /\ task' = "archived"
        /\ ab' = "record"
        /\ UNCHANGED <<current, spawned, events, poll, watchdog, doomed>>
     \/ /\ task = "running" /\ ~ReclaimAllowed(doomed)
        /\ Restart
        /\ UNCHANGED kanban
     \/ /\ ~ReclaimAllowed(doomed)
        /\ ab' = "idle"
        /\ UNCHANGED <<kanban, poll, watchdog, doomed>>
  /\ UNCHANGED <<run, process, store, moved, reclaims, faults>>

AbortRecord ==
  /\ ab = "record"
  /\ RecordEvent(Event("reclaimed", doomed))
  /\ ab' = "idle"
  /\ UNCHANGED <<run, kanban, process, poll, watchdog, doomed, reclaims, faults>>

-----------------------------------------------------------------------------
Hermes == Spawn \/ \E a \in Attempts :
                     Progress(a) \/ Finish(a) \/ Exit(a)

Poll == PollEvent \/ RecordProviderTempfailExit \/ QuarantineProviderTempfail
        \/ SetCursor

Watchdog ==
  WatchdogRead \/ WatchdogCheck \/ WatchdogObserve \/ WatchdogRecheck
  \/ WatchdogReclaim \/ WatchdogReread \/ WatchdogRecord \/ WatchdogMark
  \/ WatchdogArchive \/ WatchdogException

Abort == ConfirmAbort \/ AbortManagedTask \/ AbortObserve \/ AbortRecheck
         \/ AbortReclaim \/ AbortRecord

Next == Hermes \/ Poll \/ ReconcileCompletion \/ Watchdog \/ Abort \/ Crash

Spec == Init /\ [][Next]_vars

\* The loops go on (s6 restarts them), and the Supervisor answers now and then
\* when it is asked again and again, finding the worktree unchanged.
FairSpec ==
  /\ Spec
  /\ WF_vars(Poll)
  /\ WF_vars(Watchdog)
  /\ SF_vars(WatchdogObserve /\ wd' = "recheck")
  /\ SF_vars(WatchdogRecheck /\ wd' # "idle")

-----------------------------------------------------------------------------
(* Properties *)

\* A card is never taken away from a living worker: a worker that runs and
\* does not own the card has completed or blocked it by itself.  The watchdog,
\* the abort, a crash and a slow Supervisor may come in any order
\* (_enqueue_stale_worker_notices, _abort_managed_task, reclaim_task).
OnlyOwnersLive == alive \subseteq {current} \cup left

\* What the watchdog and the abort know from the Supervisor stays true until
\* they use it: the worker of an attempt they may still reclaim is gone.
ExitIsConfirmed ==
  /\ wd \in {"recheck", "reclaim", "archive"} /\ ReclaimAllowed(target)
       => target \notin alive
  /\ ab \in {"recheck", "reclaim"} /\ ReclaimAllowed(doomed)
       => doomed \notin alive

\* A run is given up for its redispatch budget only after that many
\* redispatches were issued: no crash, race or provider failure uses the budget
\* up (update_worker_watchdog, the redispatch_count the watchdog read).
BudgetIsEarned ==
  /\ runtime.count <= reclaims
  /\ wd \in {"archive", "close", "exception"} => reclaims >= WorkerRedispatchLimit

\* Late and repeated events are harmless: the runtime row never returns to an
\* older session, a finished session is not reopened, and the timeline of a
\* reclaimed attempt is closed (record_card_runtime_event).
TimelineIsFinal ==
  [][/\ runtime'.session >= runtime.session
     /\ runtime.finished /\ ~runtime'.finished
          => runtime'.session > runtime.session
     /\ \A a \in Attempts : row[a] = "reclaimed" => row'[a] = "reclaimed"]_vars

\* A card whose worker is gone without a trace does not stay claimed: the
\* watchdog takes it back, unless someone aborts the run.
DeadWorkerIsReplaced ==
  \A a \in Attempts :
    (run = "active" /\ ReclaimAllowed(a) /\ a \notin alive)
      ~> (run # "active" \/ ~ReclaimAllowed(a))

\* README.md:959: an attempt that exits with EX_TEMPFAIL enters a cool-down,
\* and its card is dispatched again only after it.
ProviderFailureCools ==
  [][poll = "quarantine" => task' # "ready" \/ task = "ready"]_vars
=============================================================================
