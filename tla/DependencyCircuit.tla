-------------------------- MODULE DependencyCircuit --------------------------
(***************************************************************************)
(* GitLab outages and the runs they hold up: dependency_outages and        *)
(* dependency_outage_runs (store.py), _handle_dependency_error, the        *)
(* half-open probe of the sweep and _finish_dependency_recovery            *)
(* (service.py).  Every run has a worker, the sweep has the circuit.       *)
(*                                                                         *)
(* The scope "gitlab:<run>" is the run, the global scope is Global; a      *)
(* Kanban outage has only scopes of the first kind and behaves like them.  *)
(* The backoff is the flag due, which time may set once the outage is      *)
(* recorded, and state_version is the flag fresh of a thread: nobody has   *)
(* written the row since the thread read it.                               *)
(***************************************************************************)
EXTENDS Naturals, FiniteSets

CONSTANTS Runs,
          Global,      \* the scope "gitlab"
          Sweep,       \* the sweep's thread
          Threshold,   \* config.dependency_circuit_failure_threshold
          MaxFailures, \* bound: failed calls
          MaxFaults    \* bound: crashes

ASSUME CircuitAssumption ==
  /\ Global \notin Runs
  /\ Sweep \notin Runs
  /\ Threshold \in Nat \ {0}
  /\ MaxFailures \in Nat
  /\ MaxFaults \in Nat

Scopes  == Runs \cup {Global}
Threads == Runs \cup {Sweep}
Ids     == 0..(2 * MaxFailures)   \* a failure may open two outages

VARIABLES
  state,    \* run_control.state
  outage,   \* dependency_outages
  members,  \* dependency_outage_runs, by scope and outage id
  ids,      \* outage ids so far
  job,      \* what a thread is doing
  struck,   \* history: runs that had a transient error
  failures, \* failed calls so far
  faults    \* crashes so far

table == <<outage, members, ids>>
past  == <<struck, failures, faults>>
vars  == <<state, outage, members, ids, job, struck, failures, faults>>

Classes == {"transient", "auth"}
Places  == {"idle", "select", "upsert", "associate", "corroborate", "degrade",
            "degrading", "recover", "probe", "finish", "finishing"}

\* The outage tables and the places of the threads are well formed.
TypeOK ==
  /\ state \in [Runs -> {"active", "dependency_degraded", "exception"}]
  /\ outage \in [Scopes -> [open : BOOLEAN, id : Ids, due : BOOLEAN,
                            half : BOOLEAN, class : Classes]]
  /\ members \in [Scopes -> [Ids -> SUBSET Runs]]
  /\ ids \in Ids
  /\ job \in [Threads -> [pc : Places,
                         scope : Scopes,         \* the scope it works on
                         seen : Ids,             \* the outage id it has selected
                         kind : Classes,         \* the error class it handles
                         todo : SUBSET Runs,     \* runs still to be seen to
                         run : Scopes,           \* the run it has read, and
                         up : BOOLEAN,           \* will write active
                         fresh : BOOLEAN]]
  /\ struck \subseteq Runs
  /\ failures \in 0..MaxFailures
  /\ faults \in 0..MaxFaults

\* A recovered outage: its other columns are read no more.
Closed == [open |-> FALSE, id |-> 0, due |-> FALSE, half |-> FALSE,
           class |-> "transient"]

Idle == [pc |-> "idle", scope |-> Global, seen |-> 0, kind |-> "auth", todo |-> {},
         run |-> Global, up |-> FALSE, fresh |-> FALSE]

Init ==
  /\ state = [r \in Runs |-> "active"]
  /\ outage = [s \in Scopes |-> Closed]
  /\ members = [s \in Scopes |-> [i \in Ids |-> {}]]
  /\ ids = 0
  /\ job = [t \in Threads |-> Idle]
  /\ struck = {}
  /\ failures = 0
  /\ faults = 0

-----------------------------------------------------------------------------
At(t, place)   == job[t].pc = place
Goto(t, place) == job' = [job EXCEPT ![t].pc = place]
Stop(t)        == job' = [job EXCEPT ![t] = Idle]
Loop(todo, j, place) == IF todo = {} THEN Idle
                        ELSE [j EXCEPT !.pc = place, !.todo = todo, !.run = Global,
                                       !.up = FALSE, !.fresh = FALSE]
Forget         == job' = [t \in Threads |-> Idle]
Fails == failures < MaxFailures /\ failures' = failures + 1

\* _dependency_retry_blocked.
RetryBlocked(s) == outage[s].open /\ ~outage[s].due

\* transition_run bumps state_version: the other readers' rows are stale.
Written(r, now) == [t \in Threads |-> IF now[t].run = r THEN [now[t] EXCEPT !.fresh = FALSE]
                                                       ELSE now[t]]

\* The backoff of an outage is over.
BecomesDue(s) ==
  /\ RetryBlocked(s)
  /\ outage' = [outage EXCEPT ![s].due = TRUE]
  /\ UNCHANGED <<state, members, ids, job, past>>

\* Mutant of MayReconcile: a waiting run is left to the recovery of its outage.
MayReconcileDue(r) ==
  /\ At(r, "idle")
  /\ ~RetryBlocked(Global)
  /\ \/ state[r] = "active"
     \/ state[r] = "dependency_degraded" /\ outage[r].open /\ outage[r].due

\* An event of a waiting run is not held back by the run's own backoff, only by
\* the global one.
MayReconcile(r) ==
  /\ At(r, "idle")
  /\ ~RetryBlocked(Global)
  /\ state[r] \in {"active", "dependency_degraded"}

\* active_reconcile_run_keys: the sweep waits for the end of the backoff.
Swept(r) == state[r] = "dependency_degraded" => ~RetryBlocked(r)

\* _reconcile_run_with_policy: the calls to GitLab succeed ...
ReconcileSucceeds(r) ==
  /\ MayReconcile(r)
  /\ Goto(r, "recover")
  /\ UNCHANGED <<state, table, past>>

\* ... or one fails: a timeout is the run's own outage, a 401 or 429 is
\* everyone's (_dependency_scope) ...
ReconcileFails(r) ==
  /\ MayReconcile(r)
  /\ Fails
  /\ \E class \in Classes :
       /\ job' = [job EXCEPT ![r] =
            [Idle EXCEPT !.pc = "select", !.kind = class, !.todo = {r},
                         !.scope = IF class = "auth" THEN Global ELSE r]]
       /\ struck' = IF class = "auth" THEN struck ELSE struck \cup {r}
  /\ UNCHANGED <<state, table, faults>>

\* ... or the answer breaks the contract: _record_run_exception.
ReconcileRefused(r) ==
  /\ MayReconcile(r)
  /\ Fails
  /\ state' = [state EXCEPT ![r] = "exception"]
  /\ job' = Written(r, job)
  /\ UNCHANGED <<table, struck, faults>>

-----------------------------------------------------------------------------
(* record_dependency_failure and _handle_dependency_error *)

\* The SELECT, outside the write transaction: an open outage continues.
RecordSelect(t) ==
  /\ At(t, "select")
  /\ LET row == outage[job[t].scope]
     IN  job' = [job EXCEPT ![t].pc = "upsert",
                            ![t].seen = IF row.open THEN row.id ELSE 0]
  /\ UNCHANGED <<state, table, past>>

\* The UPSERT, with a new id unless the outage continues.
RecordUpsert(t) ==
  LET new == job[t].seen = 0
      id  == IF new THEN ids + 1 ELSE job[t].seen
  IN  /\ At(t, "upsert")
      /\ ids' = IF new THEN id ELSE ids
      /\ outage' = [outage EXCEPT ![job[t].scope] =
           [open |-> TRUE, id |-> id, due |-> FALSE, half |-> FALSE,
            class |-> job[t].kind]]
      /\ job' = [job EXCEPT ![t].pc = "associate", ![t].seen = id]
      /\ UNCHANGED <<state, members, past>>

\* associate_outage_run, one run at a time; then the runs that must wait are
\* the thread's own or, after a failed probe, those of the outage.
Associate(t) ==
  /\ At(t, "associate")
  /\ \E now \in IF job[t].todo = {} THEN {{}} ELSE {{r} : r \in job[t].todo} :
       /\ members' = [members EXCEPT ![job[t].scope][job[t].seen] = @ \cup now]
       /\ job' = [job EXCEPT ![t] =
            IF now # job[t].todo THEN [@ EXCEPT !.todo = job[t].todo \ now]
            ELSE [@ EXCEPT
              !.pc = IF job[t].scope = Global THEN "degrade" ELSE "corroborate",
              !.todo = IF t = Sweep THEN members[Global][job[t].seen] ELSE {t}]]
  /\ UNCHANGED <<state, outage, ids, past>>

\* Mutant of Corroborating: the failures are counted, not the runs.
CountsFailures ==
  IF failures >= Threshold THEN Runs ELSE {}

\* The runs of the open scoped outages with a transient error.
Corroborating ==
  UNION {members[s][outage[s].id] :
           s \in {r \in Runs : outage[r].open /\ outage[r].class = "transient"}}

\* Enough runs corroborate each other: the outage is the host's too.
Corroborate(t) ==
  /\ At(t, "corroborate")
  /\ IF Cardinality(Corroborating) >= Threshold
       THEN job' = [job EXCEPT ![t].pc = "select", ![t].scope = Global,
                               ![t].todo = Corroborating]
       ELSE Goto(t, "degrade")
  /\ UNCHANGED <<state, table, past>>

\* run_control: the row of a run that must wait, or that may go on again, is
\* read ...
Read(t, r, up, place) ==
  job' = [job EXCEPT ![t].pc = place, ![t].todo = @ \ {r}, ![t].run = r,
                     ![t].up = up, ![t].fresh = TRUE]

Skip(t, r) == job' = [job EXCEPT ![t] = Loop(@.todo \ {r}, @, @.pc)]

DegradeRead(t) ==
  /\ At(t, "degrade")
  /\ \/ job[t].todo = {} /\ Stop(t)
     \/ \E r \in job[t].todo :
          IF state[r] = "dependency_degraded" \/ (t = r /\ state[r] = "active")
            THEN Read(t, r, FALSE, "degrading")
            ELSE Skip(t, r)
  /\ UNCHANGED <<state, table, past>>

\* ... and written by transition_run, if nobody else has.
TransitionRun(t, place) ==
  LET r == job[t].run
  IN  /\ job[t].fresh
      /\ state' = [state EXCEPT ![r] = IF job[t].up THEN "active"
                                                   ELSE "dependency_degraded"]
      /\ job' = [Written(r, job) EXCEPT ![t] = Loop(@.todo, @, place)]

\* A stale version in the handler escapes every policy: it ends the process in
\* the sweep, and fails the intent in a worker.
DegradeWrite(t) ==
  /\ At(t, "degrading")
  /\ \/ TransitionRun(t, "degrade")
     \/ ~job[t].fresh /\ t = Sweep /\ Forget /\ UNCHANGED state
     \/ ~job[t].fresh /\ t # Sweep /\ Stop(t) /\ UNCHANGED state
  /\ UNCHANGED <<table, past>>

-----------------------------------------------------------------------------
(* Recovery *)

\* recover_dependency, and the runs of the outage it closed.
Close(t, s) ==
  /\ outage' = [outage EXCEPT ![s] = Closed]
  /\ job' = [job EXCEPT ![t].pc = "finish", ![t].scope = s,
                         ![t].todo = members[s][outage[s].id]]

\* _recover_run_dependency, after a reconcile that succeeded.
RecoverRunDependency(r) ==
  /\ At(r, "recover")
  /\ IF outage[r].open /\ outage[r].due /\ r \in members[r][outage[r].id]
       THEN Close(r, r)
       ELSE Stop(r) /\ UNCHANGED outage
  /\ UNCHANGED <<state, members, ids, past>>

\* Mutant of ProbeDue: a probe that was interrupted is not repeated.
ProbeDueOnce == outage[Global].open /\ outage[Global].due /\ ~outage[Global].half

\* _recover_gitlab_circuit: a due outage is probed ...
ProbeDue == outage[Global].open /\ outage[Global].due

ProbeBegin ==
  /\ At(Sweep, "idle")
  /\ ProbeDue
  /\ outage' = [outage EXCEPT ![Global].half = TRUE]
  /\ Goto(Sweep, "probe")
  /\ UNCHANGED <<state, members, ids, past>>

\* ... and fails again, or is closed.
ProbeFails ==
  /\ At(Sweep, "probe")
  /\ Fails
  /\ \E class \in Classes :
       job' = [job EXCEPT ![Sweep] = [Idle EXCEPT !.pc = "select", !.kind = class]]
  /\ UNCHANGED <<state, table, struck, faults>>

ProbeSucceeds ==
  /\ At(Sweep, "probe")
  /\ Close(Sweep, Global)
  /\ UNCHANGED <<state, members, ids, past>>

\* _finish_dependency_recovery: the next run is read, with the open outages
\* that still hold it up ...
HeldUp(r) == \E s \in Scopes : outage[s].open /\ r \in members[s][outage[s].id]

FinishRead(t) ==
  /\ At(t, "finish")
  /\ \/ job[t].todo = {} /\ Stop(t)
     \/ \E r \in job[t].todo :
          IF state[r] = "dependency_degraded"
            THEN Read(t, r, ~HeldUp(r), "finishing")
            ELSE Skip(t, r)
  /\ UNCHANGED <<state, table, past>>

\* ... and written; a stale version ends the sweep's process or becomes an
\* exception of the worker's run.
FinishWrite(t) ==
  /\ At(t, "finishing")
  /\ \/ TransitionRun(t, "finish")
     \/ ~job[t].fresh /\ t = Sweep /\ Forget /\ UNCHANGED state
     \/ /\ ~job[t].fresh /\ t # Sweep
        /\ state' = [state EXCEPT ![t] = "exception"]
        /\ job' = [Written(t, job) EXCEPT ![t] = Idle]
  /\ UNCHANGED <<table, past>>

Crash ==
  /\ faults < MaxFaults
  /\ \E t \in Threads : ~At(t, "idle")
  /\ faults' = faults + 1
  /\ Forget
  /\ UNCHANGED <<state, table, struck, failures>>

-----------------------------------------------------------------------------
Reconcile(r) == ReconcileSucceeds(r) \/ ReconcileFails(r) \/ ReconcileRefused(r)

Continue(t) ==
  RecordSelect(t) \/ RecordUpsert(t) \/ Associate(t) \/ Corroborate(t)
  \/ DegradeRead(t) \/ DegradeWrite(t) \/ FinishRead(t) \/ FinishWrite(t)

Probe == ProbeBegin \/ ProbeFails \/ ProbeSucceeds

Next ==
  \/ \E s \in Scopes : BecomesDue(s)
  \/ \E r \in Runs : Reconcile(r) \/ RecoverRunDependency(r)
  \/ \E t \in Threads : Continue(t)
  \/ Probe
  \/ Crash

Spec == Init /\ [][Next]_vars

\* Time passes, threads go on, the sweep comes back, and every run that the sweep
\* asks for again and again is reconciled (ReconcileQueue).
FairSpec ==
  /\ Spec
  /\ \A s \in Scopes : WF_vars(BecomesDue(s))
  /\ \A t \in Threads : WF_vars(Continue(t))
  /\ \A r \in Runs : /\ WF_vars(RecoverRunDependency(r))
                    /\ SF_vars(Swept(r) /\ Reconcile(r))
  /\ WF_vars(Probe)

-----------------------------------------------------------------------------
(* Properties *)

\* Timeouts of fewer runs than the threshold never open the global circuit,
\* however often they fail (README.md:654, _handle_dependency_error).
FewRunsStayIsolated ==
  [][~outage[Global].open /\ outage'[Global].open
       /\ outage'[Global].class = "transient"
     => Cardinality(struck) >= Threshold]_vars

\* The global circuit does not stay open: a crash during the probe, in the
\* half-open state too, or a race with new failures leaves it to the next
\* sweep (_recover_gitlab_circuit, mark_dependency_half_open).
CircuitCloses == outage[Global].open ~> ~outage[Global].open

\* No outage, global or of one run, holds a run up for ever, whatever step of
\* the recording or the recovery was interrupted: every run is reconciled
\* successfully again, or a human is asked.
RunsProceed ==
  \A r \in Runs : []<>(At(r, "recover") \/ state[r] = "exception")
=============================================================================
