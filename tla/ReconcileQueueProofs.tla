------------------------- MODULE ReconcileQueueProofs -------------------------
(***************************************************************************)
(* Proofs about ReconcileQueue, for any sets of runs and workers and any   *)
(* number of events, crashes and expired leases.                           *)
(***************************************************************************)
EXTENDS ReconcileQueue, TLAPS

\* A worker between a claim and its end knows its run.
BusyHasRun == \A w \in Workers : pc[w] # "idle" => cur[w] \in Runs

\* The lease columns name a worker only while the row is leased, and the worker
\* is busy with the run: without the status, finish_reconcile could find the
\* row its own and not leased, and leave it behind.
LeaseIsBusy ==
  \A r \in Runs : owner[r] \in Workers =>
    /\ status[r] = "leased"
    /\ pc[owner[r]] # "idle"
    /\ cur[owner[r]] = r

\* The worker in reconcile_run holds the claim of its run.
ReconcilerHolds ==
  \A w \in Workers : pc[w] = "reconcile" => holder[cur[w]] = w

IInv == TypeOK /\ BusyHasRun /\ LeaseIsBusy /\ ClaimNotLeaked /\ ReconcilerHolds

-----------------------------------------------------------------------------
(* Facts about the steps *)

\* An enqueue changes no lease.
LEMMA EnqueueKeeps ==
  ASSUME IInv, NEW r \in Runs, EnqueueReconcile(r), polled' \subseteq Runs,
         UNCHANGED <<board, holder, world, threads>>
  PROVE  IInv'
<1>1. Append(born, r) \in Seq(Runs)
  BY DEF IInv, TypeOK
<1>2. TypeOK'
  BY <1>1 DEF EnqueueReconcile, IInv, TypeOK, board, world, threads
<1>3. BusyHasRun' /\ LeaseIsBusy'
  BY DEF EnqueueReconcile, IInv, TypeOK, BusyHasRun, LeaseIsBusy, threads
<1>4. ClaimNotLeaked' /\ ReconcilerHolds'
  BY DEF EnqueueReconcile, IInv, ClaimNotLeaked, ReconcilerHolds, threads
<1> QED
  BY <1>2, <1>3, <1>4 DEF IInv

\* The invariant holds at first.
LEMMA InitIInv == Init => IInv
<1> SUFFICES ASSUME Init PROVE IInv
  OBVIOUS
<1> USE QueueAssumption DEF Init
<1>1. TypeOK
  <2>1. rerun \in [Workers -> BOOLEAN] /\ backoff \in BOOLEAN /\ up \in BOOLEAN
    OBVIOUS
  <2>2. events \in 0..MaxEvents /\ faults \in 0..MaxFaults
    OBVIOUS
  <2>3. born \in Seq(Runs)
    OBVIOUS
  <2> QED
    BY <2>1, <2>2, <2>3 DEF TypeOK, PCs
<1>2. BusyHasRun /\ LeaseIsBusy /\ ClaimNotLeaked /\ ReconcilerHolds
  BY DEF BusyHasRun, LeaseIsBusy, ClaimNotLeaked, ReconcilerHolds
<1> QED
  BY <1>1, <1>2 DEF IInv

\* The poll loop, the sweep and the board keep it.
LEMMA ProducersKeep ==
  ASSUME IInv, NEW r \in Runs,
         \/ PollEvent(r) \/ PollEnqueue(r) \/ SweepEnqueue(r)
         \/ KanbanEvent(r)
  PROVE  IInv'
<1> USE DEF IInv
<1>1. CASE PollEvent(r)
  BY <1>1 DEF PollEvent, TypeOK, BusyHasRun, LeaseIsBusy, ClaimNotLeaked,
     ReconcilerHolds, intents, world, threads
<1>2. CASE PollEnqueue(r)
  BY <1>2, EnqueueKeeps DEF PollEnqueue, TypeOK
<1>3. CASE SweepEnqueue(r)
  BY <1>3, EnqueueKeeps DEF SweepEnqueue, TypeOK
<1>4. CASE KanbanEvent(r)
  <2>1. events' \in 0..MaxEvents
    BY <1>4, QueueAssumption DEF KanbanEvent, TypeOK
  <2> QED
    BY <1>4, <2>1 DEF KanbanEvent, TypeOK, BusyHasRun, LeaseIsBusy,
       ClaimNotLeaked, ReconcilerHolds, intents, world, threads
<1> QED
  BY <1>1, <1>2, <1>3, <1>4

\* So do commands and time.
LEMMA SurroundingsKeep ==
  ASSUME IInv, NEW r \in Runs,
         \/ RpcBegin(r) \/ RpcEnd(r)
         \/ DeadLeaseExpires(r) \/ LiveLeaseExpires(r)
  PROVE  IInv'
<1> USE QueueAssumption DEF IInv
<1>1. CASE RpcBegin(r)
  BY <1>1 DEF RpcBegin, TypeOK, BusyHasRun, LeaseIsBusy, ClaimNotLeaked,
     ReconcilerHolds, intents, board, world, threads
<1>2. CASE RpcEnd(r)
  BY <1>2 DEF RpcEnd, TypeOK, BusyHasRun, LeaseIsBusy, ClaimNotLeaked,
     ReconcilerHolds, intents, board, threads
<1>3. CASE DeadLeaseExpires(r)
  BY <1>3 DEF DeadLeaseExpires, TypeOK, BusyHasRun, LeaseIsBusy, ClaimNotLeaked,
     ReconcilerHolds, board, world, threads
<1>4. CASE LiveLeaseExpires(r)
  <2>1. faults' \in 0..MaxFaults
    BY <1>4 DEF LiveLeaseExpires, TypeOK
  <2> QED
    BY <1>4, <2>1 DEF LiveLeaseExpires, TypeOK, BusyHasRun, LeaseIsBusy,
       ClaimNotLeaked, ReconcilerHolds, board, threads
<1> QED
  BY <1>1, <1>2, <1>3, <1>4

-----------------------------------------------------------------------------
(* The steps of a worker *)

\* A claim: the worker was idle, so no row names it.
LEMMA ClaimKeeps ==
  ASSUME IInv, NEW w \in Workers, ClaimReconcile(w)
  PROVE  IInv'
<1> USE QueueAssumption DEF IInv
<1>1. PICK r \in Runs :
        /\ status' = [status EXCEPT ![r] = "leased"]
        /\ owner' = [owner EXCEPT ![r] = w]
        /\ expired' = expired \ {r}
        /\ dirty' = dirty \ {r}
        /\ cur' = [cur EXCEPT ![w] = r]
  <2>1. PICK i \in 1..Len(born) :
          /\ status' = [status EXCEPT ![born[i]] = "leased"]
          /\ owner' = [owner EXCEPT ![born[i]] = w]
          /\ expired' = expired \ {born[i]}
          /\ dirty' = dirty \ {born[i]}
          /\ cur' = [cur EXCEPT ![w] = born[i]]
    BY DEF ClaimReconcile
  <2>2. born[i] \in Runs
    BY DEF TypeOK
  <2> QED
    BY <2>1, <2>2
<1>2. pc[w] = "idle" /\ pc' = [pc EXCEPT ![w] = "claimed"]
      /\ UNCHANGED <<born, board, polled, holder, world, rerun>>
  BY DEF ClaimReconcile, Goto
<1>3. TypeOK'
  BY <1>1, <1>2 DEF TypeOK, PCs, board, world
<1>4. \A s \in Runs : owner[s] # w
  BY <1>2 DEF LeaseIsBusy
<1>5. BusyHasRun' /\ LeaseIsBusy'
  BY <1>1, <1>2, <1>4 DEF TypeOK, BusyHasRun, LeaseIsBusy
<1>6. ClaimNotLeaked' /\ ReconcilerHolds'
  BY <1>1, <1>2 DEF TypeOK, ClaimNotLeaked, ReconcilerHolds
<1> QED
  BY <1>3, <1>5, <1>6

\* Between the claim and the end of its work a worker keeps its run.
LEMMA WorkKeeps ==
  ASSUME IInv, NEW w \in Workers,
         \/ UpdateReconcileStep(w) \/ SkipReconcile(w) \/ BeginReconcile(w)
         \/ ReconcileSucceeds(w) \/ ReconcileFails(w)
  PROVE  IInv'
<1> USE QueueAssumption DEF IInv
<1>1. CASE UpdateReconcileStep(w)
  <2>1. TypeOK'
    BY <1>1 DEF UpdateReconcileStep, Goto, TypeOK, PCs, board, world
  <2>2. BusyHasRun' /\ LeaseIsBusy'
    BY <1>1 DEF UpdateReconcileStep, Goto, TypeOK, BusyHasRun, LeaseIsBusy
  <2>3. ClaimNotLeaked' /\ ReconcilerHolds'
    BY <1>1 DEF UpdateReconcileStep, Goto, TypeOK, ClaimNotLeaked,
       ReconcilerHolds
  <2> QED
    BY <2>1, <2>2, <2>3
<1>2. CASE SkipReconcile(w)
  <2>1. TypeOK'
    BY <1>2 DEF SkipReconcile, Goto, TypeOK, PCs, intents, board, world
  <2>2. BusyHasRun' /\ LeaseIsBusy'
    BY <1>2 DEF SkipReconcile, Goto, TypeOK, BusyHasRun, LeaseIsBusy, intents
  <2>3. ClaimNotLeaked' /\ ReconcilerHolds'
    BY <1>2 DEF SkipReconcile, Goto, TypeOK, ClaimNotLeaked, ReconcilerHolds
  <2> QED
    BY <2>1, <2>2, <2>3
<1>3. CASE BeginReconcile(w)
  <2>1. TypeOK'
    BY <1>3 DEF BeginReconcile, Goto, TypeOK, PCs, intents, world
  <2>2. BusyHasRun' /\ LeaseIsBusy'
    BY <1>3 DEF BeginReconcile, Goto, TypeOK, BusyHasRun, LeaseIsBusy, intents
  <2>3. cur[w] \in Runs
    BY <1>3 DEF BeginReconcile, BusyHasRun
  <2>4. ClaimNotLeaked' /\ ReconcilerHolds'
    BY <1>3, <2>3 DEF BeginReconcile, Goto, TypeOK, ClaimNotLeaked,
       ReconcilerHolds
  <2> QED
    BY <2>1, <2>2, <2>4
<1>4. ASSUME pc[w] = "reconcile", NEW place \in {"worked", "failing"},
             Goto(w, place), Release(w),
             UNCHANGED <<intents, event, events, polled, up, faults, cur, rerun>>,
             news' \subseteq Runs, listed' \subseteq Runs, backoff' \in BOOLEAN
      PROVE  IInv'
  <2>1. TypeOK'
    BY <1>4 DEF Goto, Release, TypeOK, PCs, intents
  <2>2. BusyHasRun' /\ LeaseIsBusy'
    BY <1>4 DEF Goto, TypeOK, BusyHasRun, LeaseIsBusy, intents
  <2>3. cur[w] \in Runs /\ holder[cur[w]] = w
    BY <1>4 DEF BusyHasRun, ReconcilerHolds
  <2>4. ClaimNotLeaked' /\ ReconcilerHolds'
    BY <1>4, <2>3 DEF Goto, Release, TypeOK, ClaimNotLeaked, ReconcilerHolds
  <2> QED
    BY <2>1, <2>2, <2>4
<1>5. CASE ReconcileSucceeds(w)
  BY <1>4, <1>5 DEF ReconcileSucceeds, TypeOK, board, world
<1>6. CASE ReconcileFails(w)
  <2>1. cur[w] \in Runs
    BY <1>6 DEF ReconcileFails, BusyHasRun
  <2> QED
    BY <1>4, <1>6, <2>1 DEF ReconcileFails, TypeOK
<1> QED
  BY <1>1, <1>2, <1>3, <1>5, <1>6

\* finish_reconcile: a worker that leaves either clears the lease columns of its
\* run or has found that they do not name it.
LEMMA FinishKeeps ==
  ASSUME IInv, NEW w \in Workers, FinishSelect(w) \/ FinishUpdate(w)
  PROVE  IInv'
<1> USE QueueAssumption DEF IInv
<1>1. cur[w] \in Runs
  BY DEF FinishSelect, FinishUpdate, BusyHasRun
<1>2. CASE FinishSelect(w)
  <2>1. TypeOK'
    <3>1. rerun' \in [Workers -> BOOLEAN]
      <4>1. PICK b \in BOOLEAN : rerun' \in {rerun, [rerun EXCEPT ![w] = b]}
        <5>1. (cur[w] \in dirty) \in BOOLEAN
          OBVIOUS
        <5> QED
          BY <1>2, <5>1 DEF FinishSelect
      <4> QED
        BY <4>1 DEF TypeOK
    <3>2. pc' \in [Workers -> PCs] /\ cur' \in [Workers -> Runs \cup {None}]
      BY <1>2 DEF FinishSelect, Goto, TypeOK, PCs
    <3> QED
      BY <1>2, <3>1, <3>2 DEF FinishSelect, TypeOK, intents, board, world
  <2>2. BusyHasRun'
    BY <1>2 DEF FinishSelect, Goto, TypeOK, BusyHasRun
  <2>3. LeaseIsBusy'
    <3>1. CASE Leases(w)
      BY <1>2, <3>1 DEF FinishSelect, Goto, TypeOK, LeaseIsBusy, intents
    <3>2. CASE ~Leases(w)
      <4>1. \A r \in Runs : owner[r] # w
        BY <3>2 DEF Leases, LeaseIsBusy
      <4> QED
        BY <1>2, <3>2, <4>1 DEF FinishSelect, Goto, TypeOK, LeaseIsBusy, intents
    <3> QED
      BY <3>1, <3>2
  <2>4. ClaimNotLeaked' /\ ReconcilerHolds'
    BY <1>2 DEF FinishSelect, Goto, TypeOK, ClaimNotLeaked, ReconcilerHolds
  <2> QED
    BY <2>1, <2>2, <2>3, <2>4
<1>3. CASE FinishUpdate(w)
  <2>1. TypeOK'
    BY <1>1, <1>3 DEF FinishUpdate, Goto, TypeOK, PCs, board, world
  <2>2. BusyHasRun' /\ LeaseIsBusy'
    BY <1>1, <1>3 DEF FinishUpdate, Goto, TypeOK, BusyHasRun, LeaseIsBusy
  <2>3. ClaimNotLeaked' /\ ReconcilerHolds'
    BY <1>3 DEF FinishUpdate, Goto, TypeOK, ClaimNotLeaked, ReconcilerHolds
  <2> QED
    BY <2>1, <2>2, <2>3
<1> QED
  BY <1>2, <1>3

\* A crash clears the memory and turns the leases into leases of a dead boot.
LEMMA CrashKeeps ==
  ASSUME IInv, Crash \/ Restart
  PROVE  IInv'
<1> USE QueueAssumption DEF IInv
<1>1. CASE Crash
  <2>1. faults' \in 0..MaxFaults
    BY <1>1 DEF Crash, TypeOK
  <2>2. \A r \in Runs : owner'[r] \in {None, Dead}
    BY <1>1 DEF Crash, TypeOK
  <2>3. TypeOK'
    BY <1>1, <2>1, <2>2 DEF Crash, TypeOK, PCs
  <2> QED
    BY <1>1, <2>2, <2>3 DEF Crash, BusyHasRun, LeaseIsBusy, ClaimNotLeaked,
       ReconcilerHolds
<1>2. CASE Restart
  BY <1>2 DEF Restart, TypeOK, BusyHasRun, LeaseIsBusy, ClaimNotLeaked,
     ReconcilerHolds, intents, board, threads
<1> QED
  BY <1>1, <1>2

-----------------------------------------------------------------------------
(* Theorems *)

\* Every step keeps the invariant.
LEMMA NextIInv == IInv /\ [Next]_vars => IInv'
<1> SUFFICES ASSUME IInv, [Next]_vars PROVE IInv'
  OBVIOUS
<1>1. CASE Next
  <2>1. ASSUME NEW r \in Runs,
               \/ PollEvent(r) \/ PollEnqueue(r) \/ SweepEnqueue(r)
               \/ KanbanEvent(r)
        PROVE  IInv'
    BY <2>1, ProducersKeep
  <2>2. ASSUME NEW r \in Runs,
               \/ RpcBegin(r) \/ RpcEnd(r) \/ DeadLeaseExpires(r)
               \/ LiveLeaseExpires(r)
        PROVE  IInv'
    BY <2>2, SurroundingsKeep
  <2>3. ASSUME NEW w \in Workers,
               \/ ClaimReconcile(w) \/ WorkerStep(w) \/ ReconcileSucceeds(w)
               \/ ReconcileFails(w)
        PROVE  IInv'
    BY <2>3, ClaimKeeps, WorkKeeps, FinishKeeps DEF WorkerStep
  <2>4. ASSUME PollFails \/ CircuitRecovers PROVE IInv'
    <3>1. TypeOK'
      BY <2>4 DEF PollFails, CircuitRecovers, IInv, TypeOK, intents, board,
         world, threads
    <3>2. BusyHasRun' /\ LeaseIsBusy' /\ ClaimNotLeaked' /\ ReconcilerHolds'
      BY <2>4 DEF PollFails, CircuitRecovers, IInv, BusyHasRun, LeaseIsBusy,
         ClaimNotLeaked, ReconcilerHolds, intents, threads
    <3> QED
      BY <3>1, <3>2 DEF IInv
  <2> QED
    BY <1>1, <2>1, <2>2, <2>3, <2>4, CrashKeeps DEF Next
<1>2. CASE UNCHANGED vars
  BY <1>2 DEF vars, IInv, TypeOK, BusyHasRun, LeaseIsBusy, ClaimNotLeaked,
     ReconcilerHolds
<1> QED
  BY <1>1, <1>2

\* The invariant holds in every reachable state.
LEMMA Invariance == Spec => []IInv
BY InitIInv, NextIInv, PTL DEF Spec

\* The intents, leases and claims are well formed in every reachable state.
THEOREM TypeCorrect == Spec => []TypeOK
<1>1. IInv => TypeOK
  BY DEF IInv
<1> QED
  BY <1>1, Invariance, PTL

\* No lease of a live worker is left behind by consume_reconcile_once, however
\* leases are stolen, lost or abandoned.
THEOREM LeasesAreNotOrphaned == Spec => []NoOrphanLease
<1>1. IInv => NoOrphanLease
  BY DEF IInv, LeaseIsBusy, NoOrphanLease
<1> QED
  BY <1>1, Invariance, PTL

\* The in-memory claim of reconcile_run is never leaked.
THEOREM ClaimsAreNotLeaked == Spec => []ClaimNotLeaked
<1>1. IInv => ClaimNotLeaked
  BY DEF IInv
<1> QED
  BY <1>1, Invariance, PTL

\* Two workers reconcile the same run at the same time only one after the other:
\* a lease that expires under its worker lets another one claim the intent, and
\* the in-memory claim alone keeps them apart.
ReconcilesApart ==
  \A v, w \in Workers :
    pc[v] = "reconcile" /\ pc[w] = "reconcile" /\ cur[v] = cur[w] => v = w

\* It does, for any number of stolen leases.
THEOREM StolenLeasesAreHarmless == Spec => []ReconcilesApart
<1>1. IInv => ReconcilesApart
  BY DEF IInv, ReconcilerHolds, ReconcilesApart
<1> QED
  BY <1>1, Invariance, PTL
=============================================================================
