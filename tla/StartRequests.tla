---------------------------- MODULE StartRequests ----------------------------
(***************************************************************************)
(* One durable start request and the runs made for it: begin_request,      *)
(* validate_start, save_run, the ledgered steps of _initialize_run and     *)
(* finish_request (service.py, store.py, gitlab.py, kanban.py), executed   *)
(* by the RPC thread, by the sweep that resumes requests, and by a human's *)
(* recover, while an intent worker reconciles every active run, the one    *)
(* being initialized included.                                             *)
(*                                                                         *)
(* run_key is a random token: each validate_start makes a new run.  The    *)
(* offline caches are prepared and ledgered like the workspace, the first  *)
(* work card is created and registered in one step (CardPublication has    *)
(* the details), and a retry is due at any time (DependencyCircuit has the *)
(* backoff).  Aborts are left to RunControl.                               *)
(***************************************************************************)
EXTENDS Naturals, FiniteSets

CONSTANT MaxFaults \* bound: crashes, failed calls, duplicates and recoveries

ASSUME FaultAssumption == MaxFaults \in Nat

Runs     == 1..(MaxFaults + 1)
Starters == {"rpc", "sweep"}
Threads  == Starters \cup {"recover"}

\* The operations of _initialize_run, in their order.
Operations == <<"remote-branch", "workspace", "board", "complete-root">>
Steps      == DOMAIN Operations

VARIABLES
  req,      \* requests.status, "none" before the message
  bound,    \* requests.run_key, 0 when NULL
  saved,    \* rows of runs
  control,  \* run_control.state
  ledger,   \* operations.status
  world,    \* the external effects there are, by run
  cards,    \* managed_cards: purposes registered
  works,    \* work cards created for the first stage
  claim,    \* _reconciling_runs: the thread that holds the run
  pc,       \* where a thread is
  of,       \* the run it works on
  step,     \* the operation it is at
  worker,   \* where the intent worker is
  target,   \* the run it reconciles
  resumed,  \* history: runs a human recovered
  faults    \* faults so far

request  == <<req, bound>>
external == <<world, cards, works>>
thread   == <<pc, of, step>>
intent   == <<worker, target>>
vars == <<req, bound, saved, control, ledger, world, cards, works, claim, pc,
          of, step, worker, target, resumed, faults>>

Mutable == {"active", "dependency_degraded"}
Effects == {"remote-branch", "workspace", "board", "root", "complete-root"}

\* The request row, the ledger and the places of the threads are well formed.
TypeOK ==
  /\ req \in {"none", "running", "done", "failed"}
  /\ saved \in 0..(MaxFaults + 1)
  /\ bound \in 0..saved
  /\ control \in [Runs -> {"none", "active", "dependency_degraded", "exception"}]
  /\ ledger \in [Runs -> [Steps -> {"none", "executing", "uncertain", "failed",
                                    "done"}]]
  /\ world \in [Runs -> SUBSET Effects]
  /\ cards \in [Runs -> SUBSET {"root", "work"}]
  /\ works \in [Runs -> Nat]
  /\ claim \in [Runs -> Threads \cup {"worker", "none"}]
  /\ pc \in [Threads -> {"idle", "facts", "control", "bind", "claim", "begin",
                         "act", "finish", "root", "register", "work", "answer"}]
  /\ of \in [Threads -> 0..saved]
  /\ step \in [Threads -> Steps]
  /\ worker \in {"idle", "read", "work", "exception"}
  /\ target \in 0..saved
  /\ resumed \subseteq Runs
  /\ faults \in 0..MaxFaults

Init ==
  /\ req = "none"
  /\ bound = 0
  /\ saved = 0
  /\ control = [r \in Runs |-> "none"]
  /\ ledger = [r \in Runs |-> [s \in Steps |-> "none"]]
  /\ world = [r \in Runs |-> {}]
  /\ cards = [r \in Runs |-> {}]
  /\ works = [r \in Runs |-> 0]
  /\ claim = [r \in Runs |-> "none"]
  /\ pc = [t \in Threads |-> "idle"]
  /\ of = [t \in Threads |-> 0]
  /\ step = [t \in Threads |-> 1]
  /\ worker = "idle"
  /\ target = 0
  /\ resumed = {}
  /\ faults = 0

-----------------------------------------------------------------------------
(* Steps of a thread *)

Goto(t, place) == pc' = [pc EXCEPT ![t] = place]
Fault == faults < MaxFaults /\ faults' = faults + 1

\* Mutant of Release: the claim is kept.
ReleaseNothing(t) == UNCHANGED claim

\* finally: the thread gives back what it has claimed.
Release(t) == claim' = [r \in Runs |-> IF claim[r] = t THEN "none" ELSE claim[r]]

Leave(t) == Goto(t, "idle") /\ Release(t) /\ UNCHANGED <<of, step>>

Perform(r, effect) == world' = [world EXCEPT ![r] = @ \cup {effect}]
Record(t, status)  == ledger' = [ledger EXCEPT ![of[t]][step[t]] = status]

\* set_run_exception, from the states it accepts.
SetRunException(r) ==
  control' = [control EXCEPT ![r] = IF @ \in Mutable THEN "exception" ELSE @]

\* An error that will not go away: a start fails its request, a recovery
\* returns the run to exception.
Refuse(t) ==
  /\ IF t \in Starters
       THEN req' = "failed" /\ UNCHANGED control
       ELSE SetRunException(of[t]) /\ UNCHANGED req
  /\ Leave(t)
  /\ UNCHANGED bound

\* A DependencyError: the request stays running, and the run, if there is
\* one, waits (_record_request_dependency_error).
Outage(t) ==
  /\ control' = IF of[t] = 0 \/ pc[t] = "facts" THEN control
                ELSE [control EXCEPT ![of[t]] =
                        IF t = "recover" THEN "exception"
                        ELSE IF @ = "active" THEN "dependency_degraded" ELSE @]
  /\ Leave(t)
  /\ UNCHANGED request

\* _begin_request_execution: one thread executes a request.
BeginRequestExecution(t) == \A u \in Starters : pc[u] = "idle"

\* Mutant of Start: begin_request does not refuse a failed request.
StartFailedAgain(t) ==
  /\ pc[t] = "idle"
  /\ BeginRequestExecution(t)
  /\ \/ t = "rpc" /\ req = "none" /\ UNCHANGED faults
     \/ t = "rpc" /\ req \in {"running", "failed"} /\ Fault
     \/ t = "sweep" /\ req = "running" /\ UNCHANGED faults
  /\ req' = "running"
  /\ Goto(t, "facts")
  /\ UNCHANGED <<bound, saved, control, ledger, external, claim, of, step,
                 intent, resumed>>

\* start and begin_request: the message, a duplicate of it, or the sweep.  A
\* request that is over is answered from its row.
Start(t) ==
  /\ pc[t] = "idle"
  /\ BeginRequestExecution(t)
  /\ \/ t = "rpc" /\ req = "none" /\ UNCHANGED faults
     \/ t = "rpc" /\ req = "running" /\ Fault
     \/ t = "sweep" /\ req = "running" /\ UNCHANGED faults
  /\ req' = "running"
  /\ Goto(t, "facts")
  /\ UNCHANGED <<bound, saved, control, ledger, external, claim, of, step,
                 intent, resumed>>

\* The run of an interrupted request is read from the store ...
PersistedRun(t) ==
  /\ pc[t] = "facts"
  /\ bound # 0
  /\ of' = [of EXCEPT ![t] = bound]
  /\ Goto(t, "control")
  /\ UNCHANGED <<request, saved, control, ledger, external, claim, step, intent,
                 resumed, faults>>

\* ... otherwise validate_start reads GitLab and makes a new one: save_run.
ValidateStart(t) ==
  /\ pc[t] = "facts"
  /\ bound = 0
  /\ \/ /\ saved' = saved + 1
        /\ of' = [of EXCEPT ![t] = saved']
        /\ Goto(t, "control")
        /\ UNCHANGED <<request, control, claim, step, faults>>
     \/ Fault /\ Refuse(t) /\ UNCHANGED saved
     \/ Fault /\ Outage(t) /\ UNCHANGED saved
  /\ UNCHANGED <<ledger, external, intent, resumed>>

EnsureRunControl(t) ==
  /\ pc[t] = "control"
  /\ control' = [control EXCEPT ![of[t]] = IF @ = "none" THEN "active" ELSE @]
  /\ Goto(t, "bind")
  /\ UNCHANGED <<request, saved, ledger, external, claim, of, step, intent,
                 resumed, faults>>

\* Mutant of BindRequestRun: the request does not remember its run.
BindNothing(t) ==
  /\ pc[t] = "bind"
  /\ Goto(t, "claim")
  /\ UNCHANGED <<request, saved, control, ledger, external, claim, of, step,
                 intent, resumed, faults>>

BindRequestRun(t) ==
  /\ pc[t] = "bind"
  /\ IF req = "running" /\ bound \in {0, of[t]}
       THEN /\ bound' = of[t]
            /\ Goto(t, "claim")
            /\ UNCHANGED <<req, control, claim, of, step>>
       ELSE Refuse(t)
  /\ UNCHANGED <<saved, ledger, external, intent, resumed, faults>>

\* Mutant of Claimable: the claim of another thread is not respected.
ClaimableAlways(r) == TRUE

\* _begin_reconcile.
Claimable(r) == claim[r] = "none"

\* The run is claimed; if it has cards the request is answered with its
\* status.  A run that is busy leaves the request running.
BeginReconcile(t) ==
  /\ pc[t] = "claim"
  /\ IF Claimable(of[t])
       THEN /\ claim' = [claim EXCEPT ![of[t]] = t]
            /\ Goto(t, IF cards[of[t]] # {} THEN "answer" ELSE "begin")
            /\ step' = [step EXCEPT ![t] = 1]
            /\ UNCHANGED of
       ELSE Leave(t)
  /\ UNCHANGED <<request, saved, control, ledger, external, intent, resumed,
                 faults>>

-----------------------------------------------------------------------------
(* _initialize_run *)

\* The operation after this one; the root card comes before the last one.
NextStep(t) ==
  /\ Goto(t, CASE step[t] = 3 -> "root"
               [] step[t] = 4 -> "work"
               [] OTHER -> "begin")
  /\ step' = [step EXCEPT ![t] = IF step[t] = 4 THEN 4 ELSE @ + 1]
  /\ UNCHANGED of

\* Mutant of BeginOperation: an operation begun before is not repeated.
BeginOperationOnce(t) ==
  /\ pc[t] = "begin"
  /\ IF ledger[of[t]][step[t]] # "none"
       THEN NextStep(t) /\ UNCHANGED ledger
       ELSE Goto(t, "act") /\ Record(t, "executing") /\ UNCHANGED <<of, step>>
  /\ UNCHANGED <<request, saved, control, external, claim, intent, resumed,
                 faults>>

\* operation_result: an operation that is done is not repeated.
BeginOperation(t) ==
  /\ pc[t] = "begin"
  /\ IF ledger[of[t]][step[t]] = "done"
       THEN NextStep(t) /\ UNCHANGED ledger
       ELSE Goto(t, "act") /\ Record(t, "executing") /\ UNCHANGED <<of, step>>
  /\ UNCHANGED <<request, saved, control, external, claim, intent, resumed,
                 faults>>

\* create_delivery_branch refuses a branch that exists; ensure_workspace,
\* ensure_board and complete_root accept what they find.
Collides(t) ==
  Operations[step[t]] = "remote-branch" /\ "remote-branch" \in world[of[t]]

\* The call: it succeeds, is refused, or fails at an unknown point.
Act(t) ==
  /\ pc[t] = "act"
  /\ \/ /\ ~Collides(t)
        /\ Perform(of[t], Operations[step[t]])
        /\ Goto(t, "finish")
        /\ UNCHANGED <<request, control, ledger, claim, of, step, faults>>
     \/ /\ Collides(t)
        /\ Record(t, "failed")
        /\ Refuse(t)
        /\ UNCHANGED <<world, faults>>
     \/ /\ Fault
        /\ Record(t, "failed")
        /\ Refuse(t)
        /\ UNCHANGED world
     \/ /\ Fault
        /\ Record(t, "uncertain")
        /\ Outage(t)
        /\ \/ UNCHANGED world
           \/ ~Collides(t) /\ Perform(of[t], Operations[step[t]])
  /\ UNCHANGED <<saved, cards, works, intent, resumed>>

FinishOperation(t) ==
  /\ pc[t] = "finish"
  /\ Record(t, "done")
  /\ NextStep(t)
  /\ UNCHANGED <<request, saved, control, external, claim, intent, resumed,
                 faults>>

\* create_root, idempotent by its key.
CreateRoot(t) ==
  /\ pc[t] = "root"
  /\ \/ /\ Perform(of[t], "root")
        /\ Goto(t, "register")
        /\ UNCHANGED <<request, control, claim, of, step, faults>>
     \/ /\ Fault
        /\ Outage(t)
        /\ UNCHANGED world \/ Perform(of[t], "root")
  /\ UNCHANGED <<saved, ledger, cards, works, intent, resumed>>

RegisterRoot(t) ==
  /\ pc[t] = "register"
  /\ cards' = [cards EXCEPT ![of[t]] = @ \cup {"root"}]
  /\ Goto(t, "begin")
  /\ UNCHANGED <<request, saved, control, ledger, world, works, claim, of, step,
                 intent, resumed, faults>>

\* The first work card gets a new key when one is registered already.
AddWork(r) ==
  /\ works' = [works EXCEPT ![r] = IF "work" \in cards[r] THEN @ + 1 ELSE 1]
  /\ cards' = [cards EXCEPT ![r] = @ \cup {"work"}]
  /\ UNCHANGED world

\* _create_work; it is superseded if the run is not mutable any more.
CreateWork(t) ==
  /\ pc[t] = "work"
  /\ \/ /\ control[of[t]] \in Mutable
        /\ AddWork(of[t])
        /\ Goto(t, "answer")
        /\ UNCHANGED <<request, control, claim, of, step, faults>>
     \/ control[of[t]] \notin Mutable /\ Refuse(t) /\ UNCHANGED <<external, faults>>
     \/ Fault /\ Refuse(t) /\ UNCHANGED external
     \/ Fault /\ Outage(t) /\ UNCHANGED external
  /\ UNCHANGED <<saved, ledger, intent, resumed>>

\* finish_request; the sweep then closes the outages of the run.
Answer(t) ==
  /\ pc[t] = "answer"
  /\ req' = IF t \in Starters THEN "done" ELSE req
  /\ control' = IF t # "sweep" THEN control
                ELSE [control EXCEPT ![of[t]] =
                        IF @ = "dependency_degraded" THEN "active" ELSE @]
  /\ Leave(t)
  /\ UNCHANGED <<bound, saved, ledger, external, intent, resumed, faults>>

\* recover, by a human (or by the sweep, again): the initialization is resumed
\* if the run has no cards, otherwise the reconcile goes on with it.  (A work
\* card that was archived is issued again: CardPublication.)
Recover(r) ==
  /\ pc["recover"] = "idle"
  /\ control[r] = "exception"
  /\ Claimable(r)
  /\ Fault
  /\ control' = [control EXCEPT ![r] = "active"]
  /\ resumed' = resumed \cup {r}
  /\ of' = [of EXCEPT !["recover"] = r]
  /\ step' = [step EXCEPT !["recover"] = 1]
  /\ IF cards[r] = {}
       THEN claim' = [claim EXCEPT ![r] = "recover"] /\ Goto("recover", "begin")
       ELSE UNCHANGED <<claim, pc>>
  /\ UNCHANGED <<request, saved, ledger, external, intent>>

-----------------------------------------------------------------------------
(* The intent worker: the sweep enqueues every active run *)

WorkerLeaves(place) ==
  /\ worker' = place
  /\ claim' = [claim EXCEPT ![target] = "none"]
  /\ UNCHANGED target

ReconcileBegin(r) ==
  /\ worker = "idle"
  /\ control[r] \in Mutable
  /\ Claimable(r)
  /\ claim' = [claim EXCEPT ![r] = "worker"]
  /\ target' = r
  /\ worker' = "read"
  /\ UNCHANGED <<request, saved, control, ledger, external, thread, resumed,
                 faults>>

\* _reconcile_run as far as the first card: a run without cards is unknown, a
\* blocked root is completed.
ReconcileRun ==
  /\ worker = "read"
  /\ \/ /\ cards[target] = {}
        /\ WorkerLeaves("exception")
        /\ UNCHANGED <<control, world, faults>>
     \/ /\ cards[target] = {"root"}
        /\ Perform(target, "complete-root")
        /\ worker' = "work"
        /\ UNCHANGED <<control, claim, target, faults>>
     \/ /\ "work" \in cards[target]
        /\ control' = [control EXCEPT ![target] = "active"]
        /\ WorkerLeaves("idle")
        /\ UNCHANGED <<world, faults>>
     \/ /\ cards[target] # {}
        /\ Fault
        /\ control' = [control EXCEPT ![target] = "dependency_degraded"]
        /\ WorkerLeaves("idle")
        /\ UNCHANGED world
  /\ UNCHANGED <<request, saved, ledger, cards, works, thread, resumed>>

\* Mutant of ReconcileWork: only a start creates the first work card.
ReconcileNoWork ==
  /\ worker = "work"
  /\ WorkerLeaves("idle")
  /\ UNCHANGED <<request, saved, control, ledger, external, thread, resumed,
                 faults>>

\* _create_work; a success closes the outages of the run, an outage or an
\* error is recorded.
ReconcileWork ==
  /\ worker = "work"
  /\ \/ /\ AddWork(target)
        /\ control' = [control EXCEPT ![target] = "active"]
        /\ WorkerLeaves("idle")
        /\ UNCHANGED faults
     \/ /\ Fault
        /\ control' = [control EXCEPT ![target] = "dependency_degraded"]
        /\ WorkerLeaves("idle")
        /\ UNCHANGED external
     \/ /\ Fault
        /\ WorkerLeaves("exception")
        /\ UNCHANGED <<control, external>>
  /\ UNCHANGED <<request, saved, ledger, thread, resumed>>

\* _record_run_exception, after the claim was given back.
RecordRunException ==
  /\ worker = "exception"
  /\ SetRunException(target)
  /\ worker' = "idle"
  /\ UNCHANGED <<request, saved, ledger, external, claim, thread, target,
                 resumed, faults>>

\* The process ends and forgets its claims; s6 starts it again.
Crash ==
  /\ Fault
  /\ \/ \E t \in Threads : pc[t] # "idle"
     \/ worker # "idle"
  /\ pc' = [t \in Threads |-> "idle"]
  /\ claim' = [r \in Runs |-> "none"]
  /\ worker' = "idle"
  /\ UNCHANGED <<request, saved, control, ledger, external, of, step, target,
                 resumed>>

-----------------------------------------------------------------------------
Continue(t) ==
  PersistedRun(t) \/ ValidateStart(t) \/ EnsureRunControl(t)
  \/ BindRequestRun(t) \/ BeginReconcile(t) \/ BeginOperation(t) \/ Act(t)
  \/ FinishOperation(t) \/ CreateRoot(t) \/ RegisterRoot(t) \/ CreateWork(t)
  \/ Answer(t)

WorkerStep == ReconcileRun \/ ReconcileWork \/ RecordRunException

Next ==
  \/ \E t \in Starters : Start(t)
  \/ \E t \in Threads : Continue(t)
  \/ \E r \in Runs : Recover(r) \/ ReconcileBegin(r)
  \/ WorkerStep
  \/ Crash

Spec == Init /\ [][Next]_vars

\* Threads go on, the sweep comes back to a running request every 30 seconds,
\* the queue gives every active run to a worker, and a reconcile is not under
\* way whenever the sweep comes: it takes less than the sweep's interval.
FairSpec ==
  /\ Spec
  /\ \A t \in Threads : WF_vars(Continue(t))
  /\ WF_vars(WorkerStep)
  /\ WF_vars(Start("sweep"))
  /\ []<>(pc["sweep"] = "claim")
       => []<><<BeginReconcile("sweep") /\ worker = "idle">>_vars
  /\ \A r \in Runs : SF_vars(ReconcileBegin(r))

-----------------------------------------------------------------------------
(* Properties *)

\* One message delivers one run: crashes, retries, duplicates of the message
\* and reconciles never give cards to a second run made for it, unless a human
\* recovers that run (start, bind_request_run, _history).
OneRunPerMessage ==
  /\ \A r \in Runs : cards[r] # {} => r = bound \/ r \in resumed
  /\ req = "done" => "root" \in cards[bound]

\* A run gets its first work card once, whoever finishes the initialization:
\* the start, its retry, a recovery or the reconcile (_initialize_run,
\* _reconcile_run, _begin_reconcile).
FirstWorkIsSingle == \A r \in Runs : works[r] <= 1

\* The work of a run begins only on what the ledger and GitLab agree on: each
\* operation before the root card was performed (_operation).
WorkIsPrepared ==
  \A r \in Runs : "root" \in cards[r] =>
    {"remote-branch", "workspace", "board", "root"} \subseteq world[r]

\* What the sender was told stays true: an answered or refused request is not
\* executed again and keeps its run (begin_request, bind_request_run).
AnswerIsFinal ==
  [][/\ req \in {"done", "failed"} => req' = req
     /\ bound # 0 => bound' = bound]_vars

\* Every accepted message is answered (running_requests in reconcile_all).
RequestIsAnswered == req = "running" ~> req \in {"done", "failed"}

\* A request answered while its initialization was interrupted is no false
\* promise: the run gets its first card, or a human is asked.
StartedRunGetsWork ==
  req = "done" ~> \A r \in Runs :
                    r = bound => works[r] > 0 \/ control[r] = "exception"

\* The docstring of _initialize_run (service.py:418-422): every mutating step is
\* idempotent.  A step the run has performed itself is not refused later.
InitializationIsIdempotent ==
  \A r \in Runs : "remote-branch" \in world[r] => ledger[r][1] # "failed"
=============================================================================
