----------------------------- MODULE RunControl -----------------------------
(***************************************************************************)
(* The run_control row of one run (store.py) and every thread of the       *)
(* controller that writes it (service.py): the reconcile-intent workers,   *)
(* the periodic sweep (reconcile_all) and the RPC threads that serve human *)
(* commands.  No database lock is held while a thread talks to Kanban or   *)
(* GitLab, so a thread reads the row, works, and writes much later:        *)
(* transition_run compares state_version, the other writers compare the    *)
(* state inside their UPDATE.  The module keeps exactly these reads and    *)
(* writes as separate steps and leaves out what happens between them.      *)
(*                                                                         *)
(* A request that reconcile_all resumes after a restart runs the same code *)
(* as an RPC and fails in the same way, so it is an RPC thread here.       *)
(***************************************************************************)
EXTENDS Naturals, FiniteSets

CONSTANTS Workers,     \* threads of _reconcile_intent_loop
          Rpcs,        \* threads that serve resolve, recover and abort
          Sweep,       \* the thread of _reconcile_loop
          NoThread,    \* nobody holds the in-memory claim
          Requests,    \* ids of abort requests
          NoRequest,
          MaxVersion   \* bound: no new read-modify-write starts above it

Threads == Workers \cup Rpcs \cup {Sweep}

ASSUME ThreadsAssumption ==
  /\ Sweep \notin Workers \cup Rpcs
  /\ Workers \cap Rpcs = {}
  /\ NoThread \notin Threads
  /\ NoRequest \notin Requests
  /\ MaxVersion \in Nat

-----------------------------------------------------------------------------
(* Constants of store.py *)

TERMINAL_RUN_STATES ==
  {"completed", "completed_ready", "completed_with_findings",
   "completed_test_failed", "aborted", "completed_before_abort"}

RUN_STATES ==
  {"active", "transition_pending", "human_blocked", "retry_wait",
   "dependency_degraded", "merge_wait", "abort_requested", "aborting",
   "exception"} \cup TERMINAL_RUN_STATES

AbortStates == {"abort_requested", "aborting"}

\* States in which _assert_reconcile_mutable lets a reconcile go on.
MutableStates == {"active", "dependency_degraded", "merge_wait"}

\* States from which an abort may be requested and confirmed.
AbortableStates == MutableStates \cup {"exception"}

\* Mutant of OpenStates: the callers pass no expected_states.
AnyState == RUN_STATES

\* expected_states of set_run_exception and of mark_flow_completed.
OpenStates == MutableStates \cup
                {"transition_pending", "human_blocked", "retry_wait"}

\* Mutant of FlowTerminals: a state the schema does not know.
FlowTerminalsMisspelt == {"completed_ready", "completed_failed"}

FlowTerminals ==
  {"completed_ready", "completed_with_findings", "completed_test_failed"}

\* The call sites of transition_run.
Sites == {"human_block", "admission", "dependency", "recovered", "circuit",
          "resolve", "recover", "upgrade"}

\* The states in which a site goes on to call transition_run; it passes the
\* state it read (or a set that contains it) as expected_states.
ReadStates(site) ==
  CASE site = "human_block" -> MutableStates \cup
                                 {"transition_pending", "retry_wait"}
    [] site = "admission"   -> MutableStates \cup
                                 {"transition_pending", "retry_wait"}
    [] site = "dependency"  -> MutableStates \cup AbortStates
    [] site \in {"recovered", "circuit"} -> {"dependency_degraded"}
    [] site = "resolve"     -> {"human_blocked"}
    [] OTHER                -> {"exception"}

\* new_state of a site, given the state it read.
NewStates(site, seen) ==
  CASE site = "human_block" -> {"human_blocked"}
    [] site = "admission"   -> {"retry_wait", "human_blocked"}
    [] site = "dependency"  -> IF seen \in AbortStates
                                 THEN {seen} ELSE {"dependency_degraded"}
    [] site = "recovered"   -> {"active", "dependency_degraded"}
    [] site = "circuit"     -> {"dependency_degraded"}
    [] OTHER                -> {"active"}

-----------------------------------------------------------------------------
VARIABLES
  state, version,   \* run_control.state and state_version
  request,          \* abort_requests: the status of each request
  late,             \* requests whose expires_at has passed
  claim,            \* the thread in _reconciling_runs, in memory
  abortClaim,       \* the thread in _aborting_runs, in memory
  pc,               \* where each thread is
  snap,             \* the row a thread read and has not written back
  job,              \* the command an RPC thread serves
  token,            \* the pending request abort-confirm selected
  daemon            \* "up", "down" (crash) or "fatal" (exit on an error)

row     == <<state, version>>
aborts  == <<request, late, token>>
claims  == <<claim, abortClaim>>
vars    == <<state, version, request, late, claim, abortClaim, pc, snap, job,
             token, daemon>>

NoSnap == [site |-> "none", state |-> "none", version |-> 0]

Snapshots == {NoSnap} \cup
             [site : Sites, state : RUN_STATES, version : Nat]

PCs == {"idle", "reconcile", "flow", "except", "merged", "returned", "cas",
        "error", "raise", "degrading", "issuing", "abort", "stopping",
        "claiming", "requesting", "refused", "confirming"}

RequestStatus == {"unused", "pending", "expired", "confirmed"}

\* The run_control row, the abort request and the threads are well formed.
TypeOK ==
  /\ state \in RUN_STATES
  /\ version \in Nat
  /\ request \in [Requests -> RequestStatus]
  /\ late \subseteq Requests
  /\ claim \in Threads \cup {NoThread}
  /\ abortClaim \in Threads \cup {NoThread}
  /\ pc \in [Threads -> PCs]
  /\ snap \in [Threads -> Snapshots]
  /\ job \in [Threads -> {"none", "resolve", "recover"}]
  /\ token \in [Threads -> Requests \cup {NoRequest}]
  /\ daemon \in {"up", "down", "fatal"}

\* A run starts with ensure_run_control: active, state_version 1.
Init ==
  /\ state = "active"
  /\ version = 1
  /\ request = [q \in Requests |-> "unused"]
  /\ late = {}
  /\ claim = NoThread
  /\ abortClaim = NoThread
  /\ pc = [t \in Threads |-> "idle"]
  /\ snap = [t \in Threads |-> NoSnap]
  /\ job = [t \in Threads |-> "none"]
  /\ token = [t \in Threads |-> NoRequest]
  /\ daemon = "up"

-----------------------------------------------------------------------------
(* Building blocks *)

Goto(t, label) == pc' = [pc EXCEPT ![t] = label]

\* Mutants of ReleaseClaims: the finally clause also runs for a thread that was
\* refused the claim; _continue_abort has no finally clause.
ReleaseAnyClaim(t) == claim' = NoThread /\ abortClaim' = NoThread

ReleaseReconcileOnly(t) ==
  /\ claim' = IF claim = t THEN NoThread ELSE claim
  /\ UNCHANGED abortClaim

\* The finally clauses: whoever holds a claim gives it back.
ReleaseClaims(t) ==
  /\ claim' = IF claim = t THEN NoThread ELSE claim
  /\ abortClaim' = IF abortClaim = t THEN NoThread ELSE abortClaim

\* The thread is done with the run.
Leave(t) ==
  /\ Goto(t, "idle")
  /\ ReleaseClaims(t)
  /\ snap' = [snap EXCEPT ![t] = NoSnap]
  /\ job' = [job EXCEPT ![t] = "none"]

\* UPDATE run_control SET state=..., state_version=state_version+1.
Write(new) == state' = new /\ version' = version + 1

\* SELECT * FROM run_control, kept for a transition_run at this site.
Remember(t, site) ==
  snap' = [snap EXCEPT ![t] = [site |-> site, state |-> state,
                               version |-> version]]

-----------------------------------------------------------------------------
(* transition_run *)

\* A site reads the row and decides to call transition_run.
ReadFor(t, site) ==
  /\ version < MaxVersion
  /\ state \in ReadStates(site)
  /\ Remember(t, site)
  /\ Goto(t, "cas")
  /\ UNCHANGED <<row, aborts, claims, job, daemon>>

\* Where the thread goes once its transition is committed: resolve and
\* recover go on to create work; a failed admission raises RunPolicyError,
\* which recover answers with set_run_exception.
AfterWrite(t) ==
  CASE snap[t].site \in {"resolve", "recover"} ->
         Goto(t, "issuing") /\ UNCHANGED <<claims, job>> /\
           snap' = [snap EXCEPT ![t] = NoSnap]
    [] snap[t].site = "admission" /\ job[t] = "recover" ->
         Goto(t, "raise") /\ UNCHANGED <<claims, job>> /\
           snap' = [snap EXCEPT ![t] = NoSnap]
    [] OTHER -> Leave(t)

\* Mutant of RowAsRead: only the states are compared.
RowStateOnly(t) == state \in ReadStates(snap[t].site)

\* What transition_run compares: expected_states and expected_version.
RowAsRead(t) ==
  /\ state \in ReadStates(snap[t].site)
  /\ version = snap[t].version

\* transition_run succeeds.
TransitionRun(t) ==
  /\ pc[t] = "cas"
  /\ RowAsRead(t)
  /\ \E new \in NewStates(snap[t].site, snap[t].state) : Write(new)
  /\ AfterWrite(t)
  /\ UNCHANGED <<aborts, daemon>>

\* The process ends: claims, snapshots and threads are memory, the row and the
\* requests are on disk.
Die(how) ==
  /\ daemon' = how
  /\ claim' = NoThread
  /\ abortClaim' = NoThread
  /\ pc' = [t \in Threads |-> "idle"]
  /\ snap' = [t \in Threads |-> NoSnap]
  /\ job' = [t \in Threads |-> "none"]
  /\ token' = [t \in Threads |-> NoRequest]
  /\ UNCHANGED <<row, request, late>>

\* ValueError: invalid_run_transition or stale_run_version.
Refusal(t) == pc[t] = "cas" /\ ~RowAsRead(t)

\* A worker that was reconciling goes on to record a run exception; one that
\* was already in a DependencyError handler only fails the intent.
WorkerRefused(w) ==
  /\ Refusal(w)
  /\ IF snap[w].site = "dependency"
       THEN Leave(w)
       ELSE Goto(w, "error") /\ ReleaseClaims(w) /\ UNCHANGED <<snap, job>>
  /\ UNCHANGED <<row, aborts, daemon>>

\* An RPC answers with the error; recover first restores the exception when
\* the refusal came from the creation of work.
RpcRefused(r) ==
  /\ Refusal(r)
  /\ IF job[r] = "recover" /\ snap[r].site = "admission"
       THEN Goto(r, "raise") /\ UNCHANGED <<claims, job>> /\
              snap' = [snap EXCEPT ![r] = NoSnap]
       ELSE Leave(r)
  /\ UNCHANGED <<row, aborts, daemon>>

\* Nothing in reconcile_all or in _reconcile_loop catches a refused
\* transition_run or a refused set_run_exception.
SweepRefused ==
  /\ \/ Refusal(Sweep)
     \/ pc[Sweep] = "raise" /\ state \notin OpenStates \cup {"exception"}
  /\ Die("fatal")

-----------------------------------------------------------------------------
(* One reconcile of the run by a worker *)

\* reconcile_run takes the claim; _reconcile_run reads the row and returns at
\* once for a terminal run, an exception or a human block.
ReconcileBegin(w) ==
  /\ pc[w] = "idle"
  /\ claim = NoThread
  /\ version < MaxVersion
  /\ state \notin TERMINAL_RUN_STATES \cup AbortStates
                    \cup {"exception", "human_blocked"}
  /\ claim' = w
  /\ Goto(w, "reconcile")
  /\ UNCHANGED <<row, aborts, abortClaim, snap, job, daemon>>

\* _assert_reconcile_mutable raises ReconcileSuperseded.
Superseded(w) ==
  /\ pc[w] = "reconcile"
  /\ state \notin MutableStates
  /\ Leave(w)
  /\ UNCHANGED <<row, aborts, daemon>>

\* The reconcile returns normally; the claim is given back before
\* _recover_run_dependency looks for an outage to close.
ReconcileReturn(w) ==
  /\ pc[w] = "reconcile"
  /\ state \in MutableStates
  /\ Goto(w, "returned")
  /\ ReleaseClaims(w)
  /\ UNCHANGED <<row, aborts, snap, job, daemon>>

\* _recover_run_dependency finds no outage of this run, or the run is not
\* degraded.
NothingToRecover(w) ==
  /\ pc[w] = "returned"
  /\ Leave(w)
  /\ UNCHANGED <<row, aborts, daemon>>

\* RunPolicyError, ValueError, ValidationError or TypeError.
ReconcileFails(w) ==
  /\ pc[w] = "reconcile"
  /\ Goto(w, "error")
  /\ ReleaseClaims(w)
  /\ UNCHANGED <<row, aborts, snap, job, daemon>>

\* _record_run_exception reads the row first ...
RecordRunException(w) ==
  /\ pc[w] = "error"
  /\ IF state \in MutableStates
       THEN Goto(w, "raise") /\ UNCHANGED <<claims, snap, job>>
       ELSE Leave(w)
  /\ UNCHANGED <<row, aborts, daemon>>

\* ... and set_run_exception reads it again and writes; from any other state
\* it raises or returns without a write.
SetRunException(t) ==
  /\ pc[t] \in {"raise", "except"}
  /\ t = Sweep => state \in OpenStates \cup {"exception"}
  /\ IF state \in OpenStates THEN Write("exception") ELSE UNCHANGED row
  /\ Leave(t)
  /\ UNCHANGED <<aborts, daemon>>

\* The last _assert_reconcile_mutable before _exception writes its result or
\* before _finalize_code_flow does.
Conclude(w) ==
  /\ pc[w] = "reconcile"
  /\ state \in MutableStates
  /\ \E label \in {"except", "flow"} : Goto(w, label)
  /\ UNCHANGED <<row, aborts, claims, snap, job, daemon>>

\* mark_flow_completed.  _finalize_code_flow may also end without it: the MR
\* head moved, or _operation found that the run moved on (ReconcileSuperseded);
\* or fail: the head moved under the ready transition (CheckedHeadConflict), or
\* mark_flow_completed refused the state.
MarkFlowCompleted(w) ==
  /\ pc[w] = "flow"
  /\ \/ /\ state \in OpenStates
        /\ \E new \in FlowTerminals : Write(new)
        /\ Leave(w)
     \/ /\ Goto(w, "error")
        /\ ReleaseClaims(w)
        /\ UNCHANGED <<row, snap, job>>
     \/ /\ Leave(w)
        /\ UNCHANGED row
  /\ UNCHANGED <<aborts, daemon>>

\* The delivery MR is merged: decided before the run is known to be mutable.
ObserveMerged(w) ==
  /\ pc[w] = "reconcile"
  /\ Goto(w, "merged")
  /\ UNCHANGED <<row, aborts, claims, snap, job, daemon>>

\* _complete_merged_run reads the row and calls finish_abort or mark_completed;
\* each checks the state again in its own transaction, so an abort confirmed
\* in between makes mark_completed raise.
CompleteMerged(w) ==
  /\ pc[w] = "merged"
  /\ \/ /\ state \in OpenStates \cup {"exception"}
        /\ Write("completed")
        /\ Leave(w)
     \/ /\ state \in AbortStates
        /\ Write("completed_before_abort")
        /\ Leave(w)
     \/ /\ state \in AbortStates
        /\ Goto(w, "error")
        /\ ReleaseClaims(w)
        /\ UNCHANGED <<row, snap, job>>
     \/ /\ state \in TERMINAL_RUN_STATES
        /\ Leave(w)
        /\ UNCHANGED row
  /\ UNCHANGED <<aborts, daemon>>

\* A blocked card with a valid human block: the row is read once more and
\* moved to human_blocked; any other state makes transition_run raise.
HumanBlock(w) ==
  /\ pc[w] = "reconcile"
  /\ \/ ReadFor(w, "human_block")
     \/ /\ state \notin ReadStates("human_block") \cup {"human_blocked"}
        /\ Goto(w, "error")
        /\ ReleaseClaims(w)
        /\ UNCHANGED <<row, aborts, snap, job, daemon>>

\* _create_work: the profile preflight refused the assignee.  The thread is a
\* worker in its reconcile or an RPC that re-issues work.
AdmissionFails(t) ==
  /\ pc[t] \in {"reconcile", "issuing"}
  /\ ReadFor(t, "admission")

\* A DependencyError: a worker leaves the claim behind, an RPC still holds it
\* while it records the outage.
DependencyFails(t) ==
  /\ \/ /\ pc[t] = "reconcile"
        /\ ReleaseClaims(t)
     \/ /\ pc[t] \in {"abort", "stopping"}
        /\ ReleaseClaims(t)
     \/ /\ t \in Rpcs
        /\ pc[t] = "issuing" /\ job[t] = "resolve"
        /\ UNCHANGED claims
     \/ /\ t \in Rpcs \cup {Sweep}
        /\ pc[t] = "idle"
        /\ version < MaxVersion
        /\ UNCHANGED claims
  /\ Goto(t, "degrading")
  /\ UNCHANGED <<row, aborts, snap, job, daemon>>

\* _handle_dependency_error, once the outage is recorded.
HandleDependencyError(t) ==
  /\ pc[t] = "degrading"
  /\ \/ ReadFor(t, "dependency")
     \/ /\ state \notin ReadStates("dependency") \/ version >= MaxVersion
        /\ Leave(t)
        /\ UNCHANGED <<row, aborts, daemon>>

\* _finish_dependency_recovery after a successful reconcile of this run.
RecoverRunDependency(w) ==
  /\ pc[w] = "returned"
  /\ ReadFor(w, "recovered")

-----------------------------------------------------------------------------
(* The periodic sweep *)

\* _recover_gitlab_circuit: the probe failed, or it succeeded and
\* _finish_dependency_recovery runs for every run of the outage.
RecoverGitlabCircuit ==
  /\ pc[Sweep] = "idle"
  /\ \E site \in {"circuit", "recovered"} : ReadFor(Sweep, site)

\* The watchdog's _record_run_exception.
SweepException ==
  /\ pc[Sweep] = "idle"
  /\ version < MaxVersion
  /\ state \in MutableStates
  /\ Goto(Sweep, "raise")
  /\ UNCHANGED <<row, aborts, claims, snap, job, daemon>>

\* _upgrade_legacy_exhausted_code_exception reads the row before it takes the
\* reconcile claim.
UpgradeRead ==
  /\ pc[Sweep] = "idle"
  /\ version < MaxVersion
  /\ state = "exception"
  /\ Remember(Sweep, "upgrade")
  /\ Goto(Sweep, "claiming")
  /\ UNCHANGED <<row, aborts, claims, job, daemon>>

UpgradeClaim ==
  /\ pc[Sweep] = "claiming"
  /\ IF claim = NoThread
       THEN /\ claim' = Sweep
            /\ Goto(Sweep, "cas")
            /\ UNCHANGED <<abortClaim, snap, job>>
       ELSE Leave(Sweep)
  /\ UNCHANGED <<row, aborts, daemon>>

-----------------------------------------------------------------------------
(* Executing a confirmed abort: the sweep, or a worker whose intent finds it *)

\* _continue_abort; a worker takes it under its reconcile claim.
ContinueAbort(t) ==
  /\ pc[t] = "idle"
  /\ state \in AbortStates
  /\ abortClaim = NoThread
  /\ abortClaim' = t
  /\ IF t = Sweep THEN UNCHANGED claim ELSE claim = NoThread /\ claim' = t
  /\ Goto(t, "abort")
  /\ UNCHANGED <<row, aborts, snap, job, daemon>>

MarkAborting(t) ==
  /\ pc[t] = "abort"
  /\ IF state = "abort_requested" THEN Write("aborting") ELSE UNCHANGED row
  /\ Goto(t, "stopping")
  /\ UNCHANGED <<aborts, claims, snap, job, daemon>>

\* A worker process has not been confirmed dead: the run stays aborting.
AbortWaits(t) ==
  /\ pc[t] = "stopping"
  /\ Leave(t)
  /\ UNCHANGED <<row, aborts, daemon>>

\* Cards archived and MR closed, or found merged.
FinishAbort(t) ==
  /\ pc[t] = "stopping"
  /\ IF state \in AbortStates
       THEN \E new \in {"aborted", "completed_before_abort"} : Write(new)
       ELSE UNCHANGED row
  /\ Leave(t)
  /\ UNCHANGED <<aborts, daemon>>

-----------------------------------------------------------------------------
(* Human commands *)

\* abort-request: the state is checked before the transaction that inserts.
AbortRequest(r) ==
  /\ pc[r] = "idle"
  /\ \E q \in Requests : request[q] = "unused"
  /\ IF state \in AbortableStates
       THEN Goto(r, "requesting") ELSE Goto(r, "refused")
  /\ UNCHANGED <<row, aborts, claims, snap, job, daemon>>

\* The ValueError is returned to the caller.
AbortRefused(r) ==
  /\ pc[r] = "refused"
  /\ Leave(r)
  /\ UNCHANGED <<row, aborts, daemon>>

\* create_abort_request: older pending requests expire, one is inserted.
CreateAbortRequest(r) ==
  /\ pc[r] = "requesting"
  /\ \/ \E q \in Requests :
          /\ request[q] = "unused"
          /\ request' = [p \in Requests |->
                           IF p = q THEN "pending"
                           ELSE IF request[p] = "pending" THEN "expired"
                           ELSE request[p]]
     \/ /\ \A q \in Requests : request[q] # "unused"
        /\ UNCHANGED request
  /\ Leave(r)
  /\ UNCHANGED <<row, late, token, daemon>>

\* The confirmation window of a request passes.
TokenExpires(q) ==
  /\ request[q] = "pending"
  /\ q \notin late
  /\ late' = late \cup {q}
  /\ UNCHANGED <<row, request, token, claims, pc, snap, job, daemon>>

\* confirm_abort_request selects the pending request.  A wrong token, sender or
\* chat raises; so does a late one, and the raise rolls its UPDATE back.
ConfirmAbortSelect(r) ==
  /\ pc[r] = "idle"
  /\ \E q \in Requests \ late :
       /\ request[q] = "pending"
       /\ token' = [token EXCEPT ![r] = q]
  /\ Goto(r, "confirming")
  /\ UNCHANGED <<row, request, late, claims, snap, job, daemon>>

\* Mutant of ConfirmAbort: the confirmation itself is not recorded.
ConfirmAbortUnrecorded(r) ==
  /\ pc[r] = "confirming"
  /\ IF state \in AbortableStates
       THEN Write("abort_requested") ELSE UNCHANGED row
  /\ token' = [token EXCEPT ![r] = NoRequest]
  /\ Leave(r)
  /\ UNCHANGED <<request, late, daemon>>

\* ... and commits the confirmation with the state change.  The request is
\* spent even when the run is no longer in an abortable state.
ConfirmAbort(r) ==
  /\ pc[r] = "confirming"
  /\ request' = [request EXCEPT ![token[r]] = "confirmed"]
  /\ IF state \in AbortableStates
       THEN Write("abort_requested") ELSE UNCHANGED row
  /\ token' = [token EXCEPT ![r] = NoRequest]
  /\ Leave(r)
  /\ UNCHANGED <<late, daemon>>

\* resolve and recover take the reconcile claim, then read the row.
Command(r) ==
  /\ pc[r] = "idle"
  /\ claim = NoThread
  /\ version < MaxVersion
  /\ \E site \in {"resolve", "recover"} :
       /\ state \in ReadStates(site)
       /\ Remember(r, site)
       /\ job' = [job EXCEPT ![r] = site]
  /\ claim' = r
  /\ Goto(r, "cas")
  /\ UNCHANGED <<row, aborts, abortClaim, daemon>>

\* The work is re-issued; or it is not, and recover restores the exception.
Reissue(r) ==
  /\ pc[r] = "issuing"
  /\ \/ Leave(r)
     \/ /\ job[r] = "recover"
        /\ Goto(r, "raise")
        /\ UNCHANGED <<claims, snap, job>>
  /\ UNCHANGED <<row, aborts, daemon>>

-----------------------------------------------------------------------------
\* SIGKILL, power loss, or a shutdown that ends threads midway.
Crash == Die("down")

\* s6 starts the controller again.
Restart ==
  /\ daemon # "up"
  /\ daemon' = "up"
  /\ UNCHANGED <<row, aborts, claims, pc, snap, job>>

WorkerStep(w) ==
  \/ ReconcileBegin(w) \/ Superseded(w) \/ ReconcileReturn(w)
  \/ NothingToRecover(w) \/ ReconcileFails(w) \/ RecordRunException(w)
  \/ Conclude(w) \/ MarkFlowCompleted(w) \/ ObserveMerged(w)
  \/ CompleteMerged(w) \/ HumanBlock(w) \/ RecoverRunDependency(w)
  \/ WorkerRefused(w)

AbortStep(t) ==
  ContinueAbort(t) \/ MarkAborting(t) \/ AbortWaits(t) \/ FinishAbort(t)

SweepStep ==
  \/ RecoverGitlabCircuit \/ SweepException \/ UpgradeRead \/ UpgradeClaim
  \/ SweepRefused

RpcStep(r) ==
  \/ AbortRequest(r) \/ AbortRefused(r) \/ CreateAbortRequest(r)
  \/ ConfirmAbortSelect(r) \/ ConfirmAbort(r) \/ Command(r) \/ Reissue(r) \/ RpcRefused(r)

SharedStep(t) ==
  \/ TransitionRun(t) \/ SetRunException(t) \/ AdmissionFails(t)
  \/ DependencyFails(t) \/ HandleDependencyError(t)

Next ==
  \/ /\ daemon = "up"
     /\ \/ \E w \in Workers : WorkerStep(w)
        \/ \E t \in Workers \cup {Sweep} : AbortStep(t)
        \/ SweepStep
        \/ \E r \in Rpcs : RpcStep(r)
        \/ \E t \in Threads : SharedStep(t)
        \/ Crash
  \/ \E q \in Requests : TokenExpires(q)
  \/ Restart

Spec == Init /\ [][Next]_vars

\* What the daemon's loops guarantee: s6 restarts it, and no thread stops in
\* the middle of its code.  What the outside world is trusted with: stopping
\* the workers, Kanban and GitLab do not fail for ever (SF).
ThreadProgress(t) ==
  /\ WF_vars(daemon = "up" /\ SharedStep(t) /\ pc[t] # "idle")
  /\ WF_vars(daemon = "up" /\ AbortWaits(t))

Fairness ==
  /\ WF_vars(Restart)
  /\ \A t \in Workers \cup {Sweep} :
       /\ ThreadProgress(t)
       /\ SF_vars(daemon = "up" /\ MarkAborting(t))
       /\ SF_vars(daemon = "up" /\ FinishAbort(t))
  /\ WF_vars(daemon = "up" /\ SweepStep /\ pc[Sweep] # "idle")
  /\ \A w \in Workers :
       WF_vars(daemon = "up" /\ WorkerStep(w) /\ pc[w] # "idle")
  /\ SF_vars(daemon = "up" /\ ContinueAbort(Sweep))

FairSpec == Spec /\ Fairness

-----------------------------------------------------------------------------
(* Properties *)

\* A thread inside _reconcile_run, inside a command, or inside the legacy
\* upgrade: everything _begin_reconcile is meant to serialise.
Reconciling(t) ==
  \/ pc[t] \in {"reconcile", "flow", "except", "merged", "issuing"}
  \/ pc[t] = "cas" /\ snap[t].site \in {"human_block", "resolve", "recover",
                                        "admission", "upgrade"}

\* Two threads never reconcile the run at the same time ("a run has only one
\* reconcile at a time"), although the claim is in memory, is taken and given
\* back on different paths, and the sweep takes it in the middle of its code.
OneReconcile ==
  \A t, u \in Threads : Reconciling(t) /\ Reconciling(u) => t = u

\* A run that reached a terminal state is never written again: no late
\* reconcile, dependency handler, abort or recovery reopens or relabels it.
TerminalIsFinal == [][state \notin TERMINAL_RUN_STATES]_row

\* A confirmed abort only moves forward.  A reconcile, a dependency handler or
\* a command that read the row before the confirmation cannot undo it, and a
\* dependency handler that read abort_requested cannot undo aborting.
AbortOnlyAdvances ==
  [][/\ state \in AbortStates =>
          state' \in AbortStates \cup {"aborted", "completed_before_abort"}
     /\ state = "aborting" => state' # "abort_requested"]_row

\* The run is in an abort state, or ended by an abort, only if a human
\* confirmed a request with its token.
AbortIsConfirmed ==
  state \in AbortStates \cup {"aborted", "completed_before_abort"} =>
    \E q \in Requests : request[q] = "confirmed"

\* "exception does not recover by itself": it returns to active only by a
\* human's recover command, or the upgrade of a legacy run, that read this
\* very exception; a recovery meant for an earlier one does not apply.
ExceptionNeedsRecover ==
  [][state = "exception" /\ state' = "active" =>
       \E t \in Rpcs \cup {Sweep} :
         /\ pc[t] = "cas"
         /\ snap[t].site \in {"recover", "upgrade"}
         /\ snap[t].version = version]_row

\* A confirmed abort is executed, if the daemon stays up: no interleaving of
\* the sweep, the workers and late dependency handlers loses it.
AbortCompletes ==
  <>[](daemon = "up") =>
    (state \in AbortStates ~>
       state \in {"aborted", "completed_before_abort"})
=============================================================================
