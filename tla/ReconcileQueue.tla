--------------------------- MODULE ReconcileQueue ---------------------------
(***************************************************************************)
(* How a Kanban event reaches a reconcile of its run: the poll loop, the   *)
(* reconcile_intents table with its leases (store.py), the intent workers  *)
(* (consume_reconcile_once) and the periodic sweep (reconcile_all) that    *)
(* enqueues every run again.                                               *)
(*                                                                         *)
(* A row of reconcile_intents is unique per run.  revision is compared     *)
(* with leased_revision only for equality, so dirty[r] stands for          *)
(* "revision # leased_revision".  finish_reconcile reads before its write  *)
(* transaction starts: its SELECT and its UPDATE are two steps.  What a    *)
(* reconcile does to the run is in RunControl; here it succeeds, fails or  *)
(* takes the run out of the sweep's list.                                  *)
(***************************************************************************)
EXTENDS Naturals, Sequences

CONSTANTS Runs, Workers,
          Rpc,         \* a command (resolve, recover) that claims the run
          None,
          Dead,        \* the lease owner of a boot that is gone
          MaxEvents,   \* bound: Kanban events of the environment
          MaxFaults    \* bound: crashes, and leases that expire under a
                       \* live worker

ASSUME QueueAssumption ==
  /\ Rpc # None /\ Rpc # Dead /\ None # Dead
  /\ {Rpc, None, Dead} \cap Workers = {}
  /\ None \notin Runs
  /\ MaxEvents \in Nat
  /\ MaxFaults \in Nat

VARIABLES
  status, owner, dirty,  \* reconcile_intents
  expired,               \* lease_until has passed
  born,                  \* the runs in the order of created_at
  event,                 \* runs with a terminal event after the cursor
  news,                  \* runs with an event no finished reconcile has read
  polled,                \* pending_reconcile of poll_once, in memory
  holder,                \* _reconciling_runs, in memory
  listed,                \* runs active_reconcile_run_keys would return
  backoff,               \* the gitlab circuit is in backoff
  pc, cur,               \* where a worker is, and in which run
  rerun,                 \* what the SELECT of finish_reconcile returned
  up, events, faults

intents == <<status, owner, dirty, expired, born>>
board   == <<event, news, events>>
world   == <<listed, backoff, up, faults>>
threads == <<pc, cur, rerun>>
vars    == <<status, owner, dirty, expired, born, event, news, polled, holder,
             listed, backoff, pc, cur, rerun, up, events, faults>>

PCs == {"idle", "claimed", "policy", "reconcile", "worked", "finishing",
        "updating", "failing", "updating_error"}

\* The intent, the leases, the claims and the places of the threads are well formed.
TypeOK ==
  /\ status \in [Runs -> {"absent", "pending", "leased", "done"}]
  /\ owner \in [Runs -> Workers \cup {None, Dead}]
  /\ dirty \subseteq Runs
  /\ expired \subseteq Runs
  /\ born \in Seq(Runs)
  /\ event \subseteq Runs
  /\ news \subseteq Runs
  /\ polled \subseteq Runs
  /\ holder \in [Runs -> Workers \cup {Rpc, None}]
  /\ listed \subseteq Runs
  /\ backoff \in BOOLEAN
  /\ pc \in [Workers -> PCs]
  /\ cur \in [Workers -> Runs \cup {None}]
  /\ rerun \in [Workers -> BOOLEAN]
  /\ up \in BOOLEAN
  /\ events \in 0..MaxEvents
  /\ faults \in 0..MaxFaults

Init ==
  /\ status = [r \in Runs |-> "absent"]
  /\ owner = [r \in Runs |-> None]
  /\ dirty = {}
  /\ expired = {}
  /\ born = <<>>
  /\ event = {}
  /\ news = {}
  /\ polled = {}
  /\ holder = [r \in Runs |-> None]
  /\ listed = Runs
  /\ backoff = FALSE
  /\ pc = [w \in Workers |-> "idle"]
  /\ cur = [w \in Workers |-> None]
  /\ rerun = [w \in Workers |-> FALSE]
  /\ up = TRUE
  /\ events = 0
  /\ faults = 0

-----------------------------------------------------------------------------
(* Producers *)

\* A managed card ends, or blocks, on its board.
KanbanEvent(r) ==
  /\ events < MaxEvents
  /\ events' = events + 1
  /\ event' = event \cup {r}
  /\ news' = news \cup {r}
  /\ UNCHANGED <<intents, polled, holder, world, threads>>

\* enqueue_reconcile: insert, or coalesce into the run's row; a leased row
\* stays leased and only its revision moves.
EnqueueReconcile(r) ==
  /\ status' = [status EXCEPT ![r] = IF @ = "leased" THEN @ ELSE "pending"]
  /\ dirty' = dirty \cup {r}
  /\ born' = IF status[r] = "absent" THEN Append(born, r) ELSE born
  /\ UNCHANGED <<owner, expired>>

\* poll_once: the lifecycle observation and the cursor are committed per event;
\* the run is remembered for the end of the loop.
PollEvent(r) ==
  /\ r \in event
  /\ event' = event \ {r}
  /\ polled' = polled \cup {r}
  /\ UNCHANGED <<intents, news, events, holder, world, threads>>

\* The end of poll_once, one transaction per run.
PollEnqueue(r) ==
  /\ r \in polled
  /\ polled' = polled \ {r}
  /\ EnqueueReconcile(r)
  /\ UNCHANGED <<board, holder, world, threads>>

\* A later board cannot be read: the cursors stay advanced, the runs in
\* pending_reconcile are forgotten.
PollFails ==
  /\ polled # {}
  /\ polled' = {}
  /\ UNCHANGED <<intents, board, holder, world, threads>>

\* Mutant of SweepEnqueue: only runs that have no intent yet.
SweepEnqueueNew(r) ==
  /\ ~backoff
  /\ r \in listed
  /\ status[r] = "absent"
  /\ EnqueueReconcile(r)
  /\ UNCHANGED <<board, polled, holder, world, threads>>

\* The last part of reconcile_all, and the enqueue of a legacy upgrade.
SweepEnqueue(r) ==
  /\ ~backoff
  /\ r \in listed
  /\ EnqueueReconcile(r)
  /\ UNCHANGED <<board, polled, holder, world, threads>>

-----------------------------------------------------------------------------
(* consume_reconcile_once *)

Goto(w, label) == pc' = [pc EXCEPT ![w] = label]

Claimable(r) ==
  \/ status[r] = "pending"
  \/ status[r] = "leased" /\ r \in expired

\* UPDATE and finish only touch a row this worker still leases.
Leases(w) == status[cur[w]] = "leased" /\ owner[cur[w]] = w

\* claim_reconcile: the oldest row that is pending or whose lease has expired.
ClaimReconcile(w) ==
  /\ pc[w] = "idle"
  /\ \E i \in 1..Len(born) :
       LET r == born[i] IN
         /\ Claimable(r)
         /\ \A j \in 1..(i - 1) : ~Claimable(born[j])
         /\ status' = [status EXCEPT ![r] = "leased"]
         /\ owner' = [owner EXCEPT ![r] = w]
         /\ expired' = expired \ {r}
         /\ dirty' = dirty \ {r}
         /\ cur' = [cur EXCEPT ![w] = r]
  /\ Goto(w, "claimed")
  /\ UNCHANGED <<born, board, polled, holder, world, rerun>>

\* update_reconcile_step renews the lease, or raises reconcile_lease_lost.
UpdateReconcileStep(w) ==
  /\ pc[w] \in {"claimed", "worked"}
  /\ IF Leases(w)
       THEN /\ expired' = expired \ {cur[w]}
            /\ Goto(w, IF pc[w] = "claimed" THEN "policy" ELSE "finishing")
       ELSE UNCHANGED expired /\ Goto(w, "failing")
  /\ UNCHANGED <<status, owner, dirty, born, board, polled, holder, world,
                 cur, rerun>>

\* _reconcile_run_with_policy does nothing while the circuit is in backoff, and
\* nothing while somebody else reconciles the run: the intent is done.
SkipReconcile(w) ==
  /\ pc[w] = "policy"
  /\ backoff \/ holder[cur[w]] # None
  /\ Goto(w, "worked")
  /\ UNCHANGED <<intents, board, polled, holder, world, cur, rerun>>

\* reconcile_run takes the claim and reads the board.  A run that is blocked or
\* over is left as it is.
BeginReconcile(w) ==
  /\ pc[w] = "policy"
  /\ ~backoff
  /\ holder[cur[w]] = None
  /\ holder' = [holder EXCEPT ![cur[w]] = w]
  /\ news' = news \ (listed \cap {cur[w]})
  /\ Goto(w, "reconcile")
  /\ UNCHANGED <<intents, event, events, polled, world, cur, rerun>>

\* Mutant of Release: the claim is not discarded.
ReleaseForgotten(w) == UNCHANGED holder

\* The finally clause of reconcile_run.
Release(w) == holder' = [holder EXCEPT ![cur[w]] = None]

ReconcileSucceeds(w) ==
  /\ pc[w] = "reconcile"
  /\ Goto(w, "worked")
  /\ Release(w)
  /\ UNCHANGED <<intents, board, polled, world, cur, rerun>>

\* A failure: the policy records a GitLab outage, or blocks the run and takes
\* it off the sweep's list, and the intent ends normally; any other error
\* goes to consume_reconcile_once.
ReconcileFails(w) ==
  /\ pc[w] = "reconcile"
  /\ \/ /\ Goto(w, "worked")
        /\ \/ backoff' = TRUE /\ UNCHANGED listed
           \/ listed' = listed \ {cur[w]} /\ UNCHANGED backoff
     \/ Goto(w, "failing") /\ UNCHANGED <<listed, backoff>>
  /\ Release(w)
  /\ news' = news \cup {cur[w]}
  /\ UNCHANGED <<intents, event, events, polled, up, faults, cur, rerun>>

\* finish_reconcile, the SELECT.  Without the lease it raises; the except clause
\* calls it once more, and that error only reaches the log.
FinishSelect(w) ==
  /\ pc[w] \in {"finishing", "failing"}
  /\ IF Leases(w)
       THEN /\ rerun' = [rerun EXCEPT ![w] = cur[w] \in dirty]
            /\ Goto(w, IF pc[w] = "finishing" THEN "updating"
                                              ELSE "updating_error")
            /\ UNCHANGED cur
       ELSE /\ Goto(w, IF pc[w] = "finishing" THEN "failing" ELSE "idle")
            /\ cur' = [cur EXCEPT ![w] = IF pc[w] = "failing" THEN None ELSE @]
            /\ UNCHANGED rerun
  /\ UNCHANGED <<intents, board, polled, holder, world>>

\* Mutant of FinishUpdate: the lease columns are left as they are.
FinishKeepsLease(w) ==
  /\ pc[w] \in {"updating", "updating_error"}
  /\ status' = [status EXCEPT ![cur[w]] =
                  IF rerun[w] \/ pc[w] = "updating_error"
                    THEN "leased" ELSE "done"]
  /\ Goto(w, "idle")
  /\ cur' = [cur EXCEPT ![w] = None]
  /\ rerun' = [rerun EXCEPT ![w] = FALSE]
  /\ UNCHANGED <<owner, expired, dirty, born, board, polled, holder, world>>

\* Mutant of FinishUpdate: a failed intent gets a status of its own, which
\* claim_reconcile does not select.
FinishMarksFailed(w) ==
  /\ pc[w] \in {"updating", "updating_error"}
  /\ status' = [status EXCEPT ![cur[w]] =
                  IF pc[w] = "updating_error" THEN "failed"
                  ELSE IF rerun[w] THEN "pending" ELSE "done"]
  /\ owner' = [owner EXCEPT ![cur[w]] = None]
  /\ expired' = expired \ {cur[w]}
  /\ Goto(w, "idle")
  /\ cur' = [cur EXCEPT ![w] = None]
  /\ rerun' = [rerun EXCEPT ![w] = FALSE]
  /\ UNCHANGED <<dirty, born, board, polled, holder, world>>

\* finish_reconcile, the UPDATE: WHERE intent_id only.
FinishUpdate(w) ==
  /\ pc[w] \in {"updating", "updating_error"}
  /\ status' = [status EXCEPT ![cur[w]] =
                  IF rerun[w] \/ pc[w] = "updating_error"
                    THEN "pending" ELSE "done"]
  /\ owner' = [owner EXCEPT ![cur[w]] = None]
  /\ expired' = expired \ {cur[w]}
  /\ Goto(w, "idle")
  /\ cur' = [cur EXCEPT ![w] = None]
  /\ rerun' = [rerun EXCEPT ![w] = FALSE]
  /\ UNCHANGED <<dirty, born, board, polled, holder, world>>

-----------------------------------------------------------------------------
(* The rest of the controller, time and failures *)

\* A command claims the run; when it is done the run may be active again.
RpcBegin(r) ==
  /\ holder[r] = None
  /\ holder' = [holder EXCEPT ![r] = Rpc]
  /\ UNCHANGED <<intents, board, polled, world, threads>>

RpcEnd(r) ==
  /\ holder[r] = Rpc
  /\ holder' = [holder EXCEPT ![r] = None]
  /\ listed' \in {listed, listed \cup {r}}
  /\ UNCHANGED <<intents, board, polled, backoff, up, faults, threads>>

\* _recover_gitlab_circuit: the probe succeeds.
CircuitRecovers ==
  /\ backoff
  /\ backoff' = FALSE
  /\ UNCHANGED <<intents, board, polled, holder, listed, up, faults, threads>>

\* The lease of a boot that is gone runs out.
DeadLeaseExpires(r) ==
  /\ status[r] = "leased" /\ owner[r] = Dead
  /\ r \notin expired
  /\ expired' = expired \cup {r}
  /\ UNCHANGED <<status, owner, dirty, born, board, polled, holder, world,
                 threads>>

\* A worker is slower than its lease.
LiveLeaseExpires(r) ==
  /\ faults < MaxFaults
  /\ status[r] = "leased" /\ owner[r] \in Workers
  /\ r \notin expired
  /\ faults' = faults + 1
  /\ expired' = expired \cup {r}
  /\ UNCHANGED <<status, owner, dirty, born, board, polled, holder, listed,
                 backoff, up, threads>>

\* The process dies.  What a reconcile had read and not finished is news again;
\* the next boot uses other lease owners.
Crash ==
  /\ up
  /\ faults < MaxFaults
  /\ up' = FALSE
  /\ faults' = faults + 1
  /\ news' = news \cup {r \in Runs : holder[r] \in Workers}
  /\ owner' = [r \in Runs |-> IF owner[r] \in Workers THEN Dead ELSE owner[r]]
  /\ polled' = {}
  /\ holder' = [r \in Runs |-> None]
  /\ pc' = [w \in Workers |-> "idle"]
  /\ cur' = [w \in Workers |-> None]
  /\ rerun' = [w \in Workers |-> FALSE]
  /\ UNCHANGED <<status, dirty, expired, born, event, events, listed, backoff>>

Restart ==
  /\ ~up
  /\ up' = TRUE
  /\ UNCHANGED <<intents, board, polled, holder, listed, backoff, faults,
                 threads>>

WorkerStep(w) ==
  \/ UpdateReconcileStep(w) \/ SkipReconcile(w) \/ BeginReconcile(w)
  \/ FinishSelect(w) \/ FinishUpdate(w)

Next ==
  \/ /\ up
     /\ \/ \E r \in Runs : PollEvent(r) \/ PollEnqueue(r) \/ SweepEnqueue(r)
                             \/ RpcBegin(r) \/ RpcEnd(r)
        \/ \E w \in Workers : ClaimReconcile(w) \/ WorkerStep(w)
                                \/ ReconcileSucceeds(w) \/ ReconcileFails(w)
        \/ PollFails
        \/ CircuitRecovers
  \/ \E r \in Runs : KanbanEvent(r) \/ DeadLeaseExpires(r)
                       \/ LiveLeaseExpires(r)
  \/ Crash
  \/ Restart

Spec == Init /\ [][Next]_vars

\* The loops of the daemon run for ever, s6 restarts it, commands end, and the
\* outside world does not fail a reconcile for ever.
Fairness ==
  /\ WF_vars(Restart)
  /\ \A r \in Runs : /\ WF_vars(up /\ SweepEnqueue(r))
                     /\ WF_vars(up /\ RpcEnd(r))
                     /\ WF_vars(DeadLeaseExpires(r))
  /\ \A w \in Workers : /\ WF_vars(up /\ ClaimReconcile(w))
                        /\ WF_vars(up /\ WorkerStep(w))
                        /\ WF_vars(up /\ (ReconcileSucceeds(w)
                                            \/ ReconcileFails(w)))
                        /\ SF_vars(up /\ ReconcileSucceeds(w))

FairSpec == Spec /\ Fairness

-----------------------------------------------------------------------------
(* Properties *)

\* A lease that names a live worker belongs to a worker that is still busy with
\* this very run: no path of consume_reconcile_once, the except clause and a
\* stolen lease included, leaves a lease behind that only time can clear.
NoOrphanLease ==
  \A r \in Runs : owner[r] \in Workers =>
    pc[owner[r]] # "idle" /\ cur[owner[r]] = r

\* The in-memory claim of a run is never leaked: it is a command's, or that of
\* the worker that is reconciling the run now.
ClaimNotLeaked ==
  \A r \in Runs : holder[r] \in Workers =>
    pc[holder[r]] = "reconcile" /\ cur[holder[r]] = r

\* No finished reconcile is needed any more for what the board shows of r.
Settled(r) == r \notin news /\ holder[r] \notin Workers

\* Every event is reconciled, although the poll loop forgets runs, a finishing
\* worker overwrites a concurrent enqueue, and a claimed run is skipped: the
\* sweep enqueues the run again.  Provided that the run stays in the sweep's
\* list, GitLab comes back and commands do not come for ever.
EventsAreReconciled ==
  \A r \in Runs :
    <>[](~backoff /\ r \in listed /\ holder[r] # Rpc) => []<>Settled(r)
=============================================================================
