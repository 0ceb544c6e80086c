--------------------------- MODULE CardPublication ---------------------------
(***************************************************************************)
(* The publication of work cards: _create_work, _ensure_work_published and *)
(* _operation (service.py) with the operations ledger (store.py), against  *)
(* a concurrent abort (_continue_abort_once), GitLab outages that move     *)
(* state_version, and crashes between any two effects.                     *)
(*                                                                         *)
(* One run.  RunControl shows that one thread at a time reconciles it, so  *)
(* there is one reconciler here; the abort has a claim of its own and runs *)
(* beside it.  Which card comes next is a function of the history and of   *)
(* the head of the merge request (DeliveryWorkflow) that is computed anew  *)
(* each time: after a crash and a push the creation is resumed with another*)
(* key, or with the same key and another body.  Kanban itself is external. *)
(***************************************************************************)
EXTENDS Naturals, FiniteSets

CONSTANTS MaxCards,    \* bound: managed work cards
          MaxContext,  \* bound: no push above this context
          MaxVersion   \* bound: no outage, failure or recovery above it

ASSUME CardAssumption ==
  MaxCards \in Nat /\ MaxContext \in Nat /\ MaxVersion \in Nat

\* What route_completion and the preflight of _create_work may call for.
Routes == {[stage |-> "write",  mode |-> "normal"],
           [stage |-> "write",  mode |-> "finalization"],
           [stage |-> "review", mode |-> "normal"]}

\* A card by its idempotency key: the stage, the iteration and the mode.
Cards == [stage : {"write", "review"}, mode : {"normal", "finalization"},
          iteration : 1..MaxCards]

NoCard == [stage |-> "none", mode |-> "none", iteration |-> 0]

VARIABLES
  state, version,   \* run_control
  route,            \* what the history and the head call for
  context,          \* numbers the histories and heads there have been
  board,            \* Kanban: the status of each card
  body,             \* Kanban: the context each card was written in
  managed, latest,  \* managed_cards of the store, and the last one
  op,               \* operations: the status of each card's release
  rc,               \* where the reconciler is
  card,             \* the card it creates or publishes
  seen,             \* the context its CardRecord is made of
  created,          \* it is inside _create_work
  expect,           \* expected_state_version of the operation
  ab,               \* where the abort is
  targets           \* cards the abort still has to stop

run        == <<state, version>>
work       == <<route, context>>
store      == <<managed, latest, op>>
kanban     == <<board, body, store>>
reconciler == <<rc, card, seen, created, expect>>
abort      == <<ab, targets>>
vars == <<state, version, route, context, board, body, managed, latest, op,
          rc, card, seen, created, expect, ab, targets>>

MutableStates == {"active", "dependency_degraded"}
AbortStates   == {"abort_requested", "aborting"}

\* "ready" and "triage" count as "todo" here.
ACTIVE_STATUSES == {"blocked", "todo", "running"}

\* The durable rows, the board and the place of each thread are well formed.
TypeOK ==
  /\ state \in MutableStates \cup AbortStates \cup {"exception", "aborted"}
  /\ version \in Nat
  /\ route \in Routes
  /\ context \in Nat
  /\ board \in [Cards -> {"none", "archived", "done"} \cup ACTIVE_STATUSES]
  /\ body \in [Cards -> Nat]
  /\ managed \subseteq Cards
  /\ latest \in Cards \cup {NoCard}
  /\ op \in [Cards -> {"none", "executing", "uncertain", "done"}]
  /\ rc \in {"idle", "create", "register", "check", "publish", "operate",
             "release", "record", "verify", "cancel"}
  /\ card \in Cards \cup {NoCard}
  /\ rc # "idle" => card \in Cards
  /\ seen \in Nat
  /\ created \in BOOLEAN
  /\ expect \in Nat
  /\ ab \in {"idle", "stopping"}
  /\ targets \subseteq Cards

Init ==
  /\ state = "active"
  /\ version = 1
  /\ route = [stage |-> "write", mode |-> "normal"]
  /\ context = 1
  /\ board = [c \in Cards |-> "none"]
  /\ body = [c \in Cards |-> 0]
  /\ managed = {}
  /\ latest = NoCard
  /\ op = [c \in Cards |-> "none"]
  /\ rc = "idle"
  /\ card = NoCard
  /\ seen = 0
  /\ created = FALSE
  /\ expect = 0
  /\ ab = "idle"
  /\ targets = {}

-----------------------------------------------------------------------------
(* The reconciler *)

\* _assert_reconcile_mutable does not raise.
AssertReconcileMutable == state \in MutableStates

\* _operation: the row is mutable and still has the version read before.
VersionUnchanged == AssertReconcileMutable /\ version = expect

Goto(place) == rc' = place /\ UNCHANGED <<card, seen, created, expect>>

\* The reconcile is over; what it remembered is gone.
Leave == /\ rc' = "idle"
         /\ card' = NoCard
         /\ seen' = 0
         /\ created' = FALSE
         /\ expect' = 0

\* ReconcileSuperseded: _create_work cancels its card, a reconcile that only
\* published a held card gives up.
Superseded == IF created THEN Goto("cancel") ELSE Leave

\* The idempotency key: iteration = attempts + 1, over the managed cards of the
\* stage.
Key(r) ==
  [stage |-> r.stage, mode |-> r.mode,
   iteration |-> Cardinality({c \in managed : c.stage = r.stage}) + 1]

\* _create_work up to the CardRecord: the history and the head are read, the key
\* follows from what they call for.
PrepareWork(r, now) ==
  /\ Cardinality(managed) < MaxCards
  /\ card' = Key(r)
  /\ rc' = "create"
  /\ seen' = now

NoActiveWork == \A c \in managed : board[c] \notin ACTIVE_STATUSES

\* _reconcile_run reads the cards: a card on hold is published, an active card
\* is left alone, and the first card, or the successor of a finished one, is
\* created.  A latest card that ended otherwise ends the reconcile.
ReconcileRun ==
  /\ rc = "idle"
  /\ AssertReconcileMutable
  /\ \/ /\ \E c \in managed : board[c] = "blocked" /\ card' = c
        /\ rc' = "publish"
        /\ UNCHANGED seen
     \/ /\ NoActiveWork
        /\ managed # {} => board[latest] = "done"
        /\ PrepareWork(route, context)
  /\ created' = FALSE
  /\ UNCHANGED <<run, work, kanban, expect, abort>>

\* _record_run_exception and set_run_exception.
RecordRunException ==
  IF AssertReconcileMutable
    THEN state' = "exception" /\ version' = version + 1
    ELSE UNCHANGED run

\* Mutant of CreateWork: the card is not created on hold.
CreateWorkUnheld ==
  /\ rc = "create"
  /\ board' = [board EXCEPT ![card] = "ready"]
  /\ Goto("register")
  /\ UNCHANGED <<run, work, body, store, abort>>

\* Mutant of CreateWork: the card can be dispatched from the start.
CreateWorkReleased ==
  /\ rc = "create"
  /\ board' = [board EXCEPT ![card] = IF @ = "none" THEN "todo" ELSE @]
  /\ Goto("register")
  /\ UNCHANGED <<run, work, body, store, abort>>

\* _verify_work: the body of the card is what would be written now.
VerifyWork == body[card] = seen

\* kanban.create_work: a new card on hold, or the one that already has the key
\* and may have been written in another context.
CreateWork ==
  /\ rc = "create"
  /\ \/ /\ board[card] = "none"
        /\ board' = [board EXCEPT ![card] = "blocked"]
        /\ body' = [body EXCEPT ![card] = seen]
        /\ Goto("register")
        /\ UNCHANGED run
     \/ /\ board[card] # "none" /\ VerifyWork
        /\ Goto("register")
        /\ UNCHANGED <<run, board, body>>
     \/ /\ board[card] # "none" /\ ~VerifyWork
        /\ RecordRunException
        /\ Leave
        /\ UNCHANGED <<board, body>>
  /\ UNCHANGED <<work, store, abort>>

\* store.add_managed_card.
AddManagedCard ==
  /\ rc = "register"
  /\ managed' = managed \cup {card}
  /\ latest' = card
  /\ created' = TRUE
  /\ rc' = "check"
  /\ UNCHANGED <<run, work, board, body, op, card, seen, expect, abort>>

\* Only now the abort can see the card: the run is checked again.
CheckAfterRegister ==
  /\ rc = "check"
  /\ Goto(IF AssertReconcileMutable THEN "publish" ELSE "cancel")
  /\ UNCHANGED <<run, work, kanban, abort>>

\* _ensure_work_published reads state_version for the operation.
EnsureWorkPublished ==
  /\ rc = "publish"
  /\ IF AssertReconcileMutable
       THEN rc' = "operate" /\ expect' = version /\ UNCHANGED <<card, seen, created>>
       ELSE Superseded
  /\ UNCHANGED <<run, work, kanban, abort>>

\* _operation up to operation_result: a finished release is not repeated.
BeginOperation ==
  /\ rc = "operate"
  /\ IF VersionUnchanged
       THEN IF op[card] = "done"
              THEN Leave /\ UNCHANGED op
              ELSE Goto("release") /\ op' = [op EXCEPT ![card] = "executing"]
       ELSE Superseded /\ UNCHANGED op
  /\ UNCHANGED <<run, work, board, body, managed, latest, abort>>

\* Mutant of Release: a failed promote is taken for a success.
ReleaseUnverified ==
  /\ rc = "release"
  /\ Goto("record")
  /\ board' \in {board, [board EXCEPT ![card] = IF @ = "blocked" THEN "todo"
                                                                 ELSE @]}
  /\ UNCHANGED <<run, work, body, store, abort>>

\* kanban.release: promote, then read back.  It fails if the card was archived
\* or the command did not take effect; a command that failed after it took
\* effect counts as a success.
Release ==
  /\ rc = "release"
  /\ \/ /\ board[card] # "archived"
        /\ board' = [board EXCEPT ![card] = IF @ = "blocked" THEN "todo"
                                                             ELSE @]
        /\ Goto("record")
        /\ UNCHANGED op
     \/ /\ board[card] \in {"blocked", "archived"}
        /\ op' = [op EXCEPT ![card] = "uncertain"]
        /\ Leave
        /\ UNCHANGED board
  /\ UNCHANGED <<run, work, body, managed, latest, abort>>

\* store.finish_operation.
FinishOperation ==
  /\ rc = "record"
  /\ op' = [op EXCEPT ![card] = "done"]
  /\ Goto("verify")
  /\ UNCHANGED <<run, work, board, body, managed, latest, abort>>

\* The end of _operation discards the result when the row has moved.
VerifyOperation ==
  /\ rc = "verify"
  /\ IF VersionUnchanged THEN Leave ELSE Superseded
  /\ UNCHANGED <<run, work, kanban, abort>>

\* _create_work cancels its card with _abort_managed_task; a worker that is not
\* confirmed dead, or a failing command, leaves it as it is.
CancelWork ==
  /\ rc = "cancel"
  /\ board' \in {board, [board EXCEPT ![card] = "archived"]}
  /\ Leave
  /\ UNCHANGED <<run, work, body, store, abort>>

-----------------------------------------------------------------------------
(* The abort *)

ConfirmAbort ==
  /\ state \in MutableStates \cup {"exception"}
  /\ state' = "abort_requested"
  /\ version' = version + 1
  /\ UNCHANGED <<work, kanban, reconciler, abort>>

\* Mutant of AbortTargets: cards on hold are taken for harmless.
AbortTargetsDispatched == {c \in managed : board[c] \in {"todo", "running"}}

AbortTargets == {c \in managed : board[c] \in ACTIVE_STATUSES}

\* _continue_abort_once reads the cards and marks the run aborting.
BeginAbort ==
  /\ ab = "idle"
  /\ state \in AbortStates
  /\ targets' = AbortTargets
  /\ state' = "aborting"
  /\ version' = IF state = "aborting" THEN version ELSE version + 1
  /\ ab' = "stopping"
  /\ UNCHANGED <<work, kanban, reconciler>>

\* _abort_managed_task: unclaimed cards by CAS, running ones once their worker
\* is confirmed dead.
AbortManagedTask(c) ==
  /\ ab = "stopping"
  /\ c \in targets
  /\ board' = [board EXCEPT ![c] = "archived"]
  /\ targets' = targets \ {c}
  /\ UNCHANGED <<run, work, body, store, reconciler, ab>>

\* A worker is not confirmed dead, a CAS is refused, Kanban or GitLab fails:
\* the next sweep starts over.
AbortWaits ==
  /\ ab = "stopping"
  /\ ab' = "idle"
  /\ targets' = {}
  /\ UNCHANGED <<run, work, kanban, reconciler>>

FinishAbort ==
  /\ ab = "stopping"
  /\ targets = {}
  /\ state' = "aborted"
  /\ version' = version + 1
  /\ ab' = "idle"
  /\ UNCHANGED <<work, kanban, reconciler, targets>>

-----------------------------------------------------------------------------
(* Everybody else *)

\* An outage is recorded or closed for this run by another thread.
DependencyStep ==
  /\ state \in MutableStates
  /\ version < MaxVersion
  /\ state' \in IF state = "active" THEN {"dependency_degraded"}
                                   ELSE MutableStates
  /\ version' = version + 1
  /\ UNCHANGED <<work, kanban, reconciler, abort>>

\* The watchdog or a completion that cannot be routed ends in an exception.
RunFails ==
  /\ state \in MutableStates
  /\ version < MaxVersion
  /\ state' = "exception"
  /\ version' = version + 1
  /\ UNCHANGED <<work, kanban, reconciler, abort>>

\* Somebody pushes: the completion is judged anew, a frozen document was changed
\* or is as it was.
Push ==
  /\ context < MaxContext
  /\ context' = context + 1
  /\ route' \in Routes
  /\ UNCHANGED <<run, kanban, reconciler, abort>>

\* recover, under the reconcile claim: a latest card that was archived is issued
\* again, at its stage or, if the preflight finds a frozen document changed, at
\* the producer of its phase.  The answer in the body is a new one.
Recover ==
  /\ rc = "idle"
  /\ state = "exception"
  /\ version < MaxVersion
  /\ state' = "active"
  /\ version' = version + 1
  /\ IF managed # {} /\ NoActiveWork /\ board[latest] # "done"
       THEN /\ context' = context + 1
            /\ \E s \in {latest.stage, "write"} :
                 PrepareWork([stage |-> s, mode |-> latest.mode], context + 1)
       ELSE UNCHANGED <<context, card, rc, seen>>
  /\ created' = FALSE
  /\ UNCHANGED <<route, kanban, expect, abort>>

\* Hermes dispatches a card; its worker completes it, and what comes next
\* depends on the completion.
Dispatch(c) ==
  /\ board[c] = "todo"
  /\ board' = [board EXCEPT ![c] = "running"]
  /\ UNCHANGED <<run, work, body, store, reconciler, abort>>

WorkerCompletes(c) ==
  /\ board[c] = "running"
  /\ board' = [board EXCEPT ![c] = "done"]
  /\ context' = context + 1
  /\ route' \in Routes
  /\ UNCHANGED <<run, body, store, reconciler, abort>>

\* The daemon dies; what it remembered is gone.
Crash ==
  /\ Leave
  /\ ab' = "idle"
  /\ targets' = {}
  /\ UNCHANGED <<run, work, kanban>>

ReconcilerStep ==
  \/ ReconcileRun \/ CreateWork \/ AddManagedCard \/ CheckAfterRegister
  \/ EnsureWorkPublished \/ BeginOperation \/ Release \/ FinishOperation
  \/ VerifyOperation \/ CancelWork

AbortStep ==
  \/ ConfirmAbort \/ BeginAbort \/ AbortWaits \/ FinishAbort
  \/ \E c \in Cards : AbortManagedTask(c)

Next ==
  \/ ReconcilerStep
  \/ AbortStep
  \/ DependencyStep \/ RunFails \/ Recover \/ Push
  \/ \E c \in Cards : Dispatch(c) \/ WorkerCompletes(c)
  \/ Crash

Spec == Init /\ [][Next]_vars

\* The sweep keeps the run reconciled (ReconcileQueue); promote does not fail
\* for ever.
FairSpec ==
  /\ Spec
  /\ WF_vars(ReconcilerStep)
  /\ SF_vars(Release /\ rc' = "record")

-----------------------------------------------------------------------------
(* Properties *)

\* Once an abort is finished nothing of the run can be dispatched any more,
\* although a reconcile that began before may still be creating, publishing or
\* cancelling a card.
AbortedIsQuiet ==
  state = "aborted" => \A c \in Cards : board[c] \notin {"todo", "running"}

\* Work is serial: of the cards the controller manages one is live at a time;
\* and a card that was created and not registered, which a crash and a push can
\* leave behind for good, stays on hold, so that nobody ever works on it.
SerialWork ==
  /\ \A c, d \in managed :
       board[c] \in ACTIVE_STATUSES /\ board[d] \in ACTIVE_STATUSES => c = d
  /\ \A c \in Cards \ managed : board[c] \in {"none", "blocked"}

\* A release the ledger calls done did happen: the card left its hold.
\* Otherwise a retry would skip it and the card would stay on hold for ever.
LedgerIsTrue ==
  \A c \in Cards : op[c] = "done" => board[c] \notin {"none", "blocked"}

\* A publication that a crash or a failed promote interrupted is completed, if
\* the run stays mutable and crashes and outages cease.
HoldIsReleased ==
  <>[][ReconcilerStep]_<<run, reconciler>> =>
    (\E c \in managed : board[c] = "blocked") ~>
      (\A c \in managed : board[c] # "blocked") \/ ~AssertReconcileMutable

-----------------------------------------------------------------------------
(* A claim of the documentation that the code does not keep *)

\* README.md:825, "never leave an idle run that is active without a work card":
\* the reconciler does not come to rest on an archived card.
ActiveRunHasWork ==
  AssertReconcileMutable /\ rc = "idle" /\ managed # {}
    => board[latest] # "archived"
=============================================================================
