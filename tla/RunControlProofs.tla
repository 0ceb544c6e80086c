-------------------------- MODULE RunControlProofs --------------------------
(***************************************************************************)
(* Proofs about RunControl, for any number of workers, commands and abort  *)
(* requests.  TypeOK is proved first, one lemma per group of actions; then *)
(* the invariant IInv, from which the properties of the runs follow; then  *)
(* what one step may do to the run row, from IInv and from the list of the *)
(* only actions that write it (OnlyRowWrites).                             *)
(***************************************************************************)
EXTENDS RunControl, TLAPS

-----------------------------------------------------------------------------
(* Type correctness *)

\* The sets of states the guards test contain states of the row only.
LEMMA StateSets ==
  /\ MutableStates \subseteq RUN_STATES
  /\ OpenStates \subseteq RUN_STATES
  /\ FlowTerminals \subseteq RUN_STATES
  /\ AbortStates \subseteq RUN_STATES
BY DEF MutableStates, OpenStates, FlowTerminals, AbortStates, RUN_STATES,
       TERMINAL_RUN_STATES

\* Whatever a call of transition_run may write is a state of the row.
LEMMA NewStatesTyped ==
  ASSUME NEW site, NEW seen, NEW new \in NewStates(site, seen)
  PROVE  new \in RUN_STATES
BY DEF NewStates, AbortStates, RUN_STATES

\* The part of TypeOK about the threads and their claims.
ThreadsTyped ==
  /\ claim \in Threads \cup {NoThread}
  /\ abortClaim \in Threads \cup {NoThread}
  /\ pc \in [Threads -> PCs]
  /\ snap \in [Threads -> Snapshots]
  /\ job \in [Threads -> {"none", "resolve", "recover"}]

\* A thread that leaves resets its own entries.
LEMMA LeaveTyped ==
  ASSUME TypeOK, NEW t \in Threads, Leave(t)
  PROVE  ThreadsTyped'
BY DEF TypeOK, Leave, Goto, ReleaseClaims, ThreadsTyped, PCs, Snapshots

\* So does one that has just written the row, however it goes on.
LEMMA AfterWriteTyped ==
  ASSUME TypeOK, NEW t \in Threads, AfterWrite(t)
  PROVE  ThreadsTyped'
<1>1. CASE Leave(t)
  BY <1>1, LeaveTyped
<1>2. CASE /\ \/ pc' = [pc EXCEPT ![t] = "issuing"]
              \/ pc' = [pc EXCEPT ![t] = "raise"]
           /\ UNCHANGED <<claims, job>>
           /\ snap' = [snap EXCEPT ![t] = NoSnap]
  BY <1>2 DEF TypeOK, ThreadsTyped, PCs, Snapshots, claims
<1> QED
  BY <1>1, <1>2 DEF AfterWrite, Goto

\* Reading the row for a later transition_run.
LEMMA ReadForTyped ==
  ASSUME TypeOK, NEW t \in Threads, NEW site \in Sites, ReadFor(t, site)
  PROVE  TypeOK'
BY DEF TypeOK, ReadFor, Remember, Goto, PCs, Snapshots, row, aborts, claims

\* A successful transition_run.
LEMMA TransitionTyped ==
  ASSUME TypeOK, NEW t \in Threads, TransitionRun(t)
  PROVE  TypeOK'
<1>1. state' \in RUN_STATES /\ version' \in Nat
  BY NewStatesTyped DEF TransitionRun, Write, TypeOK
<1>2. ThreadsTyped'
  BY AfterWriteTyped DEF TransitionRun
<1> QED
  BY <1>1, <1>2 DEF TypeOK, ThreadsTyped, TransitionRun, aborts

\* The steps of a reconcile keep the types.
LEMMA WorkerTyped ==
  ASSUME TypeOK, NEW w \in Workers, WorkerStep(w)
  PROVE  TypeOK'
<1> USE StateSets
        DEF TypeOK, Leave, Goto, ReleaseClaims, Write, PCs, Snapshots, row,
            aborts, claims, Threads
<1>1. CASE ReconcileBegin(w)
  BY <1>1 DEF ReconcileBegin
<1>2. CASE Superseded(w)
  BY <1>2 DEF Superseded
<1>3. CASE ReconcileReturn(w)
  BY <1>3 DEF ReconcileReturn
<1>4. CASE NothingToRecover(w)
  BY <1>4 DEF NothingToRecover
<1>5. CASE ReconcileFails(w)
  BY <1>5 DEF ReconcileFails
<1>6. CASE RecordRunException(w)
  BY <1>6 DEF RecordRunException
<1>7. CASE Conclude(w)
  BY <1>7 DEF Conclude
<1>8. CASE MarkFlowCompleted(w)
  BY <1>8 DEF MarkFlowCompleted
<1>9. CASE ObserveMerged(w)
  BY <1>9 DEF ObserveMerged
<1>10. CASE CompleteMerged(w)
  BY <1>10 DEF CompleteMerged, RUN_STATES, TERMINAL_RUN_STATES
<1>11. CASE HumanBlock(w)
  BY <1>11, ReadForTyped DEF HumanBlock, Sites
<1>12. CASE RecoverRunDependency(w)
  BY <1>12, ReadForTyped DEF RecoverRunDependency, Sites
<1>13. CASE WorkerRefused(w)
  BY <1>13 DEF WorkerRefused, Refusal
<1> QED
  BY <1>1, <1>2, <1>3, <1>4, <1>5, <1>6, <1>7, <1>8, <1>9,
     <1>10, <1>11, <1>12, <1>13
  DEF WorkerStep

\* The steps of a confirmed abort keep the types.
LEMMA AbortTyped ==
  ASSUME TypeOK, NEW t \in Workers \cup {Sweep}, AbortStep(t)
  PROVE  TypeOK'
<1> USE StateSets
        DEF TypeOK, Leave, Goto, ReleaseClaims, Write, PCs, Snapshots, row,
            aborts, claims, Threads
<1>1. CASE ContinueAbort(t)
  BY <1>1 DEF ContinueAbort
<1>2. CASE MarkAborting(t)
  BY <1>2 DEF MarkAborting, RUN_STATES
<1>3. CASE AbortWaits(t)
  BY <1>3 DEF AbortWaits
<1>4. CASE FinishAbort(t)
  BY <1>4 DEF FinishAbort, RUN_STATES, TERMINAL_RUN_STATES
<1> QED
  BY <1>1, <1>2, <1>3, <1>4 DEF AbortStep

\* The steps of the periodic sweep keep the types.
LEMMA SweepTyped ==
  ASSUME TypeOK, SweepStep
  PROVE  TypeOK'
<1> USE StateSets
        DEF TypeOK, Leave, Goto, ReleaseClaims, Write, PCs, Snapshots, row,
            aborts, claims, Threads
<1>1. CASE RecoverGitlabCircuit
  BY <1>1, ReadForTyped DEF RecoverGitlabCircuit, Sites
<1>2. CASE SweepException
  BY <1>2 DEF SweepException
<1>3. CASE UpgradeRead
  BY <1>3 DEF UpgradeRead, Remember, Sites
<1>4. CASE UpgradeClaim
  BY <1>4 DEF UpgradeClaim
<1>5. CASE SweepRefused
  BY <1>5 DEF SweepRefused, Die
<1> QED
  BY <1>1, <1>2, <1>3, <1>4, <1>5 DEF SweepStep

\* The steps of a human command keep the types.
LEMMA RpcTyped ==
  ASSUME TypeOK, NEW r \in Rpcs, RpcStep(r)
  PROVE  TypeOK'
<1> USE StateSets
        DEF TypeOK, Leave, Goto, ReleaseClaims, Write, PCs, Snapshots, row,
            aborts, claims, Threads
<1>1. CASE AbortRequest(r)
  BY <1>1 DEF AbortRequest
<1>2. CASE AbortRefused(r)
  BY <1>2 DEF AbortRefused
<1>3. CASE CreateAbortRequest(r)
  BY <1>3 DEF CreateAbortRequest, RequestStatus
<1>4. CASE ConfirmAbortSelect(r)
  BY <1>4 DEF ConfirmAbortSelect
<1>5. CASE ConfirmAbort(r)
  <2>1. request' \in [Requests -> RequestStatus]
    BY <1>5 DEF ConfirmAbort, RequestStatus
  <2>2. state' \in RUN_STATES /\ version' \in Nat
    BY <1>5 DEF ConfirmAbort, RUN_STATES
  <2>3. token' \in [Threads -> Requests \cup {NoRequest}]
    BY <1>5 DEF ConfirmAbort
  <2>4. ThreadsTyped'
    BY <1>5, LeaveTyped DEF ConfirmAbort
  <2> QED
    BY <1>5, <2>1, <2>2, <2>3, <2>4 DEF ConfirmAbort, ThreadsTyped
<1>6. CASE Command(r)
  BY <1>6 DEF Command, Remember, Sites
<1>7. CASE Reissue(r)
  BY <1>7 DEF Reissue
<1>8. CASE RpcRefused(r)
  BY <1>8 DEF RpcRefused, Refusal
<1> QED
  BY <1>1, <1>2, <1>3, <1>4, <1>5, <1>6, <1>7, <1>8 DEF RpcStep

\* The steps workers, sweep and commands share keep the types.
LEMMA SharedTyped ==
  ASSUME TypeOK, NEW t \in Threads, SharedStep(t)
  PROVE  TypeOK'
<1> USE StateSets
        DEF TypeOK, Leave, Goto, ReleaseClaims, Write, PCs, Snapshots, row,
            aborts, claims, Threads
<1>1. CASE TransitionRun(t)
  BY <1>1, TransitionTyped
<1>2. CASE SetRunException(t)
  BY <1>2 DEF SetRunException, RUN_STATES
<1>3. CASE AdmissionFails(t)
  BY <1>3, ReadForTyped DEF AdmissionFails, Sites
<1>4. CASE DependencyFails(t)
  BY <1>4 DEF DependencyFails
<1>5. CASE HandleDependencyError(t)
  BY <1>5, ReadForTyped DEF HandleDependencyError, Sites
<1> QED
  BY <1>1, <1>2, <1>3, <1>4, <1>5 DEF SharedStep

\* The first row is typed.
LEMMA InitTyped ==
  ASSUME Init
  PROVE  TypeOK
BY DEF Init, TypeOK, RUN_STATES, RequestStatus, PCs, Snapshots

\* Every step keeps the types.
LEMMA NextTyped ==
  ASSUME TypeOK, [Next]_vars
  PROVE  TypeOK'
<1>1. CASE \E w \in Workers : WorkerStep(w)
  BY <1>1, WorkerTyped
<1>2. CASE \E t \in Workers \cup {Sweep} : AbortStep(t)
  BY <1>2, AbortTyped
<1>3. CASE SweepStep
  BY <1>3, SweepTyped
<1>4. CASE \E r \in Rpcs : RpcStep(r)
  BY <1>4, RpcTyped
<1>5. CASE \E t \in Threads : SharedStep(t)
  BY <1>5, SharedTyped
<1>6. CASE Crash
  BY <1>6 DEF Crash, Die, TypeOK, PCs, Snapshots, row
<1>7. CASE \E q \in Requests : TokenExpires(q)
  BY <1>7 DEF TokenExpires, TypeOK, row, claims
<1>8. CASE Restart
  BY <1>8 DEF Restart, TypeOK, row, aborts, claims
<1>9. CASE UNCHANGED vars
  BY <1>9 DEF vars, TypeOK
<1> QED
  BY <1>1, <1>2, <1>3, <1>4, <1>5, <1>6, <1>7, <1>8, <1>9 DEF Next

\* The run row, the abort requests, the claims and what the threads remember
\* keep the types of store.py and service.py.
THEOREM TypeCorrect == Spec => []TypeOK
BY InitTyped, NextTyped, PTL DEF Spec

-----------------------------------------------------------------------------
(* The safety invariant.  None of OneReconcile, AbortIsConfirmed and the   *)
(* action properties follows from TypeOK alone.                            *)

\* Whoever works under the reconcile claim holds it.
Holder == \A t \in Threads : Reconciling(t) => claim = t

\* A row that was read is no newer than the row, and equal to it if no write
\* came in between: every write increments state_version.
SnapAgrees ==
  /\ version >= 1
  /\ \A t \in Threads :
       /\ snap[t].version <= version
       /\ snap[t].version = version => snap[t].state = state

\* A thread calls transition_run only after it read the row, and workers
\* neither recover nor upgrade a run.
SitesAgree ==
  /\ \A t \in Threads : pc[t] \in {"cas", "claiming"} => snap[t].site \in Sites
  /\ \A w \in Workers : snap[w].site \notin {"recover", "upgrade"}

\* A confirmation in progress has selected a request.
TokenHeld == \A t \in Threads : pc[t] = "confirming" => token[t] \in Requests

Safe == Holder /\ SnapAgrees /\ SitesAgree /\ TokenHeld /\ AbortIsConfirmed

IInv == TypeOK /\ Safe

\* The first row satisfies the invariant.
LEMMA InitSafe ==
  ASSUME Init
  PROVE  Safe
BY DEF Init, Safe, Holder, SnapAgrees, SitesAgree, TokenHeld, NoSnap,
       AbortIsConfirmed, AbortStates, Reconciling, Threads

\* A successful transition_run: the row has not changed since it was read, so
\* an abort is written back as it was.
LEMMA TransitionSafe ==
  ASSUME IInv, NEW t \in Threads, TransitionRun(t)
  PROVE  Safe'
<1> USE ThreadsAssumption
        DEF IInv, TypeOK, Safe, Holder, Reconciling, SnapAgrees, SitesAgree,
            Sites, TokenHeld, AbortIsConfirmed, AbortStates, Threads,
            Snapshots, NoSnap, Leave, Goto, ReleaseClaims, Write, row, aborts,
            claims
<1>1. Holder'
  BY DEF TransitionRun, AfterWrite
<1>2. SnapAgrees' /\ SitesAgree' /\ TokenHeld'
  BY DEF TransitionRun, AfterWrite
<1>3. AbortIsConfirmed'
  BY DEF TransitionRun, RowAsRead, NewStates
<1> QED
  BY <1>1, <1>2, <1>3

\* A step of a reconcile.
LEMMA WorkerSafe ==
  ASSUME IInv, NEW w \in Workers, WorkerStep(w)
  PROVE  Safe'
<1> USE ThreadsAssumption
        DEF IInv, TypeOK, Safe, Holder, Reconciling, SnapAgrees, SitesAgree,
            Sites, TokenHeld, AbortIsConfirmed, AbortStates, Threads,
            Snapshots, NoSnap, Leave, Goto, ReleaseClaims, Write, row, aborts,
            claims
<1>1. CASE ReconcileBegin(w)
  BY <1>1 DEF ReconcileBegin
<1>2. CASE Superseded(w)
  BY <1>2 DEF Superseded
<1>3. CASE ReconcileReturn(w)
  BY <1>3 DEF ReconcileReturn
<1>4. CASE NothingToRecover(w)
  BY <1>4 DEF NothingToRecover
<1>5. CASE ReconcileFails(w)
  BY <1>5 DEF ReconcileFails
<1>6. CASE RecordRunException(w)
  BY <1>6 DEF RecordRunException
<1>7. CASE Conclude(w)
  BY <1>7 DEF Conclude
<1>8. CASE MarkFlowCompleted(w)
  BY <1>8 DEF MarkFlowCompleted, FlowTerminals
<1>9. CASE ObserveMerged(w)
  BY <1>9 DEF ObserveMerged
<1>10. CASE CompleteMerged(w)
  BY <1>10 DEF CompleteMerged
<1>11. CASE HumanBlock(w)
  BY <1>11 DEF HumanBlock, ReadFor, Remember
<1>12. CASE RecoverRunDependency(w)
  BY <1>12 DEF RecoverRunDependency, ReadFor, Remember
<1>13. CASE WorkerRefused(w)
  BY <1>13 DEF WorkerRefused, Refusal, RowAsRead
<1> QED
  BY <1>1, <1>2, <1>3, <1>4, <1>5, <1>6, <1>7, <1>8, <1>9,
     <1>10, <1>11, <1>12, <1>13
  DEF WorkerStep

\* A step of a confirmed abort.
LEMMA AbortSafe ==
  ASSUME IInv, NEW t \in Workers \cup {Sweep}, AbortStep(t)
  PROVE  Safe'
<1> USE ThreadsAssumption
        DEF IInv, TypeOK, Safe, Holder, Reconciling, SnapAgrees, SitesAgree,
            Sites, TokenHeld, AbortIsConfirmed, AbortStates, Threads,
            Snapshots, NoSnap, Leave, Goto, ReleaseClaims, Write, row, aborts,
            claims
<1>1. CASE ContinueAbort(t)
  BY <1>1 DEF ContinueAbort
<1>2. CASE MarkAborting(t)
  BY <1>2 DEF MarkAborting
<1>3. CASE AbortWaits(t)
  BY <1>3 DEF AbortWaits
<1>4. CASE FinishAbort(t)
  BY <1>4 DEF FinishAbort
<1> QED
  BY <1>1, <1>2, <1>3, <1>4
  DEF AbortStep

\* A step of the periodic sweep.
LEMMA SweepSafe ==
  ASSUME IInv, SweepStep
  PROVE  Safe'
<1> USE ThreadsAssumption
        DEF IInv, TypeOK, Safe, Holder, Reconciling, SnapAgrees, SitesAgree,
            Sites, TokenHeld, AbortIsConfirmed, AbortStates, Threads,
            Snapshots, NoSnap, Leave, Goto, ReleaseClaims, Write, row, aborts,
            claims
<1>1. CASE RecoverGitlabCircuit
  BY <1>1 DEF RecoverGitlabCircuit, ReadFor, Remember
<1>2. CASE SweepException
  BY <1>2 DEF SweepException
<1>3. CASE UpgradeRead
  BY <1>3 DEF UpgradeRead, Remember
<1>4. CASE UpgradeClaim
  BY <1>4 DEF UpgradeClaim
<1>5. CASE SweepRefused
  BY <1>5 DEF SweepRefused, Die
<1> QED
  BY <1>1, <1>2, <1>3, <1>4, <1>5
  DEF SweepStep

\* A step of a human command.
LEMMA RpcSafe ==
  ASSUME IInv, NEW r \in Rpcs, RpcStep(r)
  PROVE  Safe'
<1> USE ThreadsAssumption
        DEF IInv, TypeOK, Safe, Holder, Reconciling, SnapAgrees, SitesAgree,
            Sites, TokenHeld, AbortIsConfirmed, AbortStates, Threads,
            Snapshots, NoSnap, Leave, Goto, ReleaseClaims, Write, row, aborts,
            claims
<1>1. CASE AbortRequest(r)
  BY <1>1 DEF AbortRequest
<1>2. CASE AbortRefused(r)
  BY <1>2 DEF AbortRefused
<1>3. CASE CreateAbortRequest(r)
  BY <1>3 DEF CreateAbortRequest
<1>4. CASE ConfirmAbortSelect(r)
  BY <1>4 DEF ConfirmAbortSelect
<1>5. CASE ConfirmAbort(r)
  BY <1>5 DEF ConfirmAbort
<1>6. CASE Command(r)
  BY <1>6 DEF Command, Remember
<1>7. CASE Reissue(r)
  BY <1>7 DEF Reissue
<1>8. CASE RpcRefused(r)
  BY <1>8 DEF RpcRefused, Refusal, RowAsRead
<1> QED
  BY <1>1, <1>2, <1>3, <1>4, <1>5, <1>6, <1>7, <1>8
  DEF RpcStep

\* A step of the code that workers, sweep and commands share.
LEMMA SharedSafe ==
  ASSUME IInv, NEW t \in Threads, SharedStep(t)
  PROVE  Safe'
<1> USE ThreadsAssumption
        DEF IInv, TypeOK, Safe, Holder, Reconciling, SnapAgrees, SitesAgree,
            Sites, TokenHeld, AbortIsConfirmed, AbortStates, Threads,
            Snapshots, NoSnap, Leave, Goto, ReleaseClaims, Write, row, aborts,
            claims
<1>1. CASE TransitionRun(t)
  BY <1>1, TransitionSafe
<1>2. CASE SetRunException(t)
  BY <1>2 DEF SetRunException
<1>3. CASE AdmissionFails(t)
  BY <1>3 DEF AdmissionFails, ReadFor, Remember
<1>4. CASE DependencyFails(t)
  BY <1>4 DEF DependencyFails
<1>5. CASE HandleDependencyError(t)
  BY <1>5 DEF HandleDependencyError, ReadFor, Remember
<1> QED
  BY <1>1, <1>2, <1>3, <1>4, <1>5
  DEF SharedStep

\* Every step keeps the invariant.
LEMMA NextSafe ==
  ASSUME IInv, [Next]_vars
  PROVE  IInv'
<1> SUFFICES Safe'
  BY NextTyped DEF IInv
<1>1. CASE \E w \in Workers : WorkerStep(w)
  BY <1>1, WorkerSafe
<1>2. CASE \E t \in Workers \cup {Sweep} : AbortStep(t)
  BY <1>2, AbortSafe
<1>3. CASE SweepStep
  BY <1>3, SweepSafe
<1>4. CASE \E r \in Rpcs : RpcStep(r)
  BY <1>4, RpcSafe
<1>5. CASE \E t \in Threads : SharedStep(t)
  BY <1>5, SharedSafe
<1>6. CASE \/ Crash \/ Restart \/ UNCHANGED vars
           \/ \E q \in Requests : TokenExpires(q)
  <2> USE ThreadsAssumption
          DEF IInv, TypeOK, Safe, Holder, Reconciling, SnapAgrees, SitesAgree,
              Sites, TokenHeld, AbortIsConfirmed, AbortStates, Threads,
              Snapshots, NoSnap, Leave, Goto, ReleaseClaims, Write, row, aborts,
              claims
  <2>1. CASE Crash
    BY <2>1 DEF Crash, Die
  <2>2. CASE Restart
    BY <2>2 DEF Restart
  <2>3. CASE UNCHANGED vars
    BY <2>3 DEF vars
  <2>4. CASE \E q \in Requests : TokenExpires(q)
    BY <2>4 DEF TokenExpires
  <2> QED
    BY <1>6, <2>1, <2>2, <2>3, <2>4
<1> QED
  BY <1>1, <1>2, <1>3, <1>4, <1>5, <1>6 DEF Next

\* IInv is an invariant of the specification.
THEOREM Invariance == Spec => []IInv
<1>1. Init => IInv
  BY InitTyped, InitSafe DEF IInv
<1>2. IInv /\ [Next]_vars => IInv'
  BY NextSafe
<1> QED
  BY <1>1, <1>2, PTL DEF Spec

\* Two threads never reconcile the run at the same time.
THEOREM ReconcileIsExclusive == Spec => []OneReconcile
<1>1. IInv => OneReconcile
  BY DEF IInv, Safe, Holder, OneReconcile
<1> QED
  BY <1>1, Invariance, PTL

\* A run aborts only after a human confirmed a request.
THEOREM AbortNeedsConfirmation == Spec => []AbortIsConfirmed
<1>1. IInv => AbortIsConfirmed
  BY DEF IInv, Safe
<1> QED
  BY <1>1, Invariance, PTL

-----------------------------------------------------------------------------
(* Action properties *)

\* The steps that write the row, with the states they write it from and to.
RowWrite ==
  \/ \E t \in Threads : TransitionRun(t)
  \/ state \in OpenStates /\ state' = "exception"
  \/ state \in OpenStates /\ state' \in FlowTerminals
  \/ state \in OpenStates \cup {"exception"} /\ state' = "completed"
  \/ state = "abort_requested" /\ state' = "aborting"
  \/ state \in AbortStates /\ state' \in {"aborted", "completed_before_abort"}
  \/ state \in AbortableStates /\ state' = "abort_requested"

\* No other step touches the row.
LEMMA OnlyRowWrites ==
  ASSUME [Next]_vars
  PROVE  UNCHANGED row \/ RowWrite
<1> USE DEF row, RowWrite, Write, Threads
<1>1. ASSUME NEW w \in Workers, WorkerStep(w)
      PROVE  UNCHANGED row \/ RowWrite
  BY <1>1 DEF WorkerStep, ReconcileBegin, Superseded, ReconcileReturn,
     NothingToRecover, ReconcileFails, RecordRunException, Conclude,
     MarkFlowCompleted, ObserveMerged, CompleteMerged, HumanBlock,
     RecoverRunDependency, WorkerRefused, ReadFor
<1>2. ASSUME NEW t \in Workers \cup {Sweep}, AbortStep(t)
      PROVE  UNCHANGED row \/ RowWrite
  BY <1>2 DEF AbortStep, ContinueAbort, MarkAborting, AbortWaits, FinishAbort
<1>3. CASE SweepStep
  BY <1>3 DEF SweepStep, RecoverGitlabCircuit, SweepException, UpgradeRead,
     UpgradeClaim, SweepRefused, ReadFor, Die
<1>4. ASSUME NEW r \in Rpcs, RpcStep(r)
      PROVE  UNCHANGED row \/ RowWrite
  BY <1>4 DEF RpcStep, AbortRequest, AbortRefused, CreateAbortRequest,
     ConfirmAbortSelect, ConfirmAbort, Command, Reissue, RpcRefused
<1>5. ASSUME NEW t \in Threads, SharedStep(t)
      PROVE  UNCHANGED row \/ RowWrite
  BY <1>5 DEF SharedStep, SetRunException, AdmissionFails, DependencyFails,
     HandleDependencyError, ReadFor
<1>6. CASE Crash \/ Restart \/ \E q \in Requests : TokenExpires(q)
  BY <1>6 DEF Crash, Die, Restart, TokenExpires
<1>7. CASE UNCHANGED vars
  BY <1>7 DEF vars
<1> QED
  BY <1>1, <1>2, <1>3, <1>4, <1>5, <1>6, <1>7 DEF Next

\* No step writes the row of a run that is over.
THEOREM TerminalStatesAreFinal == Spec => TerminalIsFinal
<1>1. IInv /\ [Next]_vars => [state \notin TERMINAL_RUN_STATES]_row
  <2> SUFFICES ASSUME IInv, RowWrite
               PROVE  state \notin TERMINAL_RUN_STATES
    BY OnlyRowWrites
  <2> USE DEF MutableStates, AbortStates, TERMINAL_RUN_STATES
  <2>1. ASSUME NEW t \in Threads, TransitionRun(t)
        PROVE  state \notin TERMINAL_RUN_STATES
    <3>1. snap[t].site \in Sites /\ state \in ReadStates(snap[t].site)
      BY <2>1 DEF IInv, Safe, SitesAgree, TransitionRun, RowAsRead
    <3> QED
      BY <3>1 DEF ReadStates, Sites
  <2> QED
    BY <2>1 DEF RowWrite, OpenStates, AbortableStates
<1> QED
  BY <1>1, Invariance, PTL DEF Spec, TerminalIsFinal

\* A confirmed abort only moves forward.
THEOREM AbortsOnlyAdvance == Spec => AbortOnlyAdvances
<1> DEFINE Advance ==
      /\ state \in AbortStates =>
           state' \in AbortStates \cup {"aborted", "completed_before_abort"}
      /\ state = "aborting" => state' # "abort_requested"
<1>1. IInv /\ [Next]_vars => [Advance]_row
  <2> SUFFICES ASSUME IInv, RowWrite, state \in AbortStates
               PROVE  Advance
    BY OnlyRowWrites DEF AbortStates
  <2>1. ASSUME NEW t \in Threads, TransitionRun(t)
        PROVE  Advance
    <3>1. /\ snap[t].site \in Sites /\ state \in ReadStates(snap[t].site)
          /\ snap[t].version = version
      BY <2>1 DEF IInv, Safe, SitesAgree, TransitionRun, RowAsRead
    <3>2. snap[t].site = "dependency"
      BY <3>1 DEF ReadStates, Sites, MutableStates, AbortStates
    <3>3. snap[t].state = state
      BY <3>1 DEF IInv, Safe, SnapAgrees
    <3>4. state' = state
      BY <2>1, <3>2, <3>3 DEF TransitionRun, NewStates, Write
    <3> QED
      BY <3>4 DEF AbortStates
  <2> QED
    BY <2>1 DEF RowWrite, OpenStates, AbortableStates, MutableStates,
       AbortStates
<1> QED
  BY <1>1, Invariance, PTL DEF Spec, AbortOnlyAdvances

\* An exception ends in active only by a command that read this exception.
THEOREM ExceptionsNeedRecovery == Spec => ExceptionNeedsRecover
<1> DEFINE Recovered ==
      state = "exception" /\ state' = "active" =>
        \E t \in Rpcs \cup {Sweep} :
          /\ pc[t] = "cas"
          /\ snap[t].site \in {"recover", "upgrade"}
          /\ snap[t].version = version
<1>1. IInv /\ [Next]_vars => [Recovered]_row
  <2> SUFFICES ASSUME IInv, RowWrite, state = "exception", state' = "active"
               PROVE  \E t \in Rpcs \cup {Sweep} :
                        /\ pc[t] = "cas"
                        /\ snap[t].site \in {"recover", "upgrade"}
                        /\ snap[t].version = version
    BY OnlyRowWrites
  <2>1. PICK t \in Threads : TransitionRun(t)
    BY DEF RowWrite, FlowTerminals, OpenStates, MutableStates, AbortStates
  <2>2. /\ pc[t] = "cas"
        /\ snap[t].site \in Sites /\ state \in ReadStates(snap[t].site)
        /\ snap[t].version = version
    BY <2>1 DEF IInv, Safe, SitesAgree, TransitionRun, RowAsRead
  <2>3. snap[t].site \in {"recover", "upgrade"}
    BY <2>2 DEF ReadStates, Sites, MutableStates, AbortStates
  <2>4. t \notin Workers
    BY <2>3 DEF IInv, Safe, SitesAgree
  <2> QED
    BY <2>2, <2>3, <2>4 DEF Threads
<1> QED
  BY <1>1, Invariance, PTL DEF Spec, ExceptionNeedsRecover
=============================================================================
