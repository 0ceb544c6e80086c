-------------------------------- MODULE Outbox --------------------------------
(***************************************************************************)
(* The durable outbox: enqueue, pending_outbox, finish_outbox, fail_outbox *)
(* (store.py), flush_outbox (service.py), which the outbox loop and the    *)
(* sweep both call, and Feishu as notifier.py uses it.                     *)
(*                                                                         *)
(* A notice is its outbox key.  The order of next_attempt_at is the order  *)
(* in which rows become due: new rows are due at once, failed ones when    *)
(* their backoff is over.  A batch is sent in any order.                   *)
(***************************************************************************)
EXTENDS Naturals, Sequences

CONSTANTS Notices,
          NoNotice,
          Stubborn,  \* notices whose sending may time out for ever
          Limit,     \* pending_outbox(limit)
          MaxFaults  \* bound: crashes

ASSUME OutboxAssumption ==
  /\ NoNotice \notin Notices
  /\ Stubborn \subseteq Notices
  /\ Limit \in Nat \ {0}
  /\ MaxFaults \in Nat

Flushers == {"loop", "sweep"}

VARIABLES
  status,    \* outbox.status, "none" without a row
  due,       \* the rows that are due, in the order of next_attempt_at
  delivered, \* Feishu: idempotency keys it has accepted
  lock,      \* _outbox_lock
  pc,        \* where a flusher is
  batch,     \* the rows it has read and not yet handled
  item,      \* the row it handles
  faults     \* crashes so far

flusher == <<lock, pc, batch, item>>
vars == <<status, due, delivered, lock, pc, batch, item, faults>>

Unsettled == {"pending", "retrying"}
Settled   == {"done", "dead"}

\* The outbox rows and the flushers' batches are well formed.
TypeOK ==
  /\ status \in [Notices -> {"none"} \cup Unsettled \cup Settled]
  /\ due \in Seq(Notices)
  /\ delivered \subseteq Notices
  /\ lock \in Flushers \cup {"free"}
  /\ pc \in [Flushers -> {"idle", "send", "finish", "retry", "bury"}]
  /\ batch \in [Flushers -> SUBSET Notices]
  /\ item \in [Flushers -> Notices \cup {NoNotice}]
  /\ faults \in 0..MaxFaults

Init ==
  /\ status = [n \in Notices |-> "none"]
  /\ due = <<>>
  /\ delivered = {}
  /\ lock = "free"
  /\ pc = [f \in Flushers |-> "idle"]
  /\ batch = [f \in Flushers |-> {}]
  /\ item = [f \in Flushers |-> NoNotice]
  /\ faults = 0

\* The rows pending_outbox selects.
Selected ==
  LET first == {due[i] : i \in {j \in 1..Len(due) : j <= Limit}}
  IN  {n \in first : status[n] \in Unsettled}

\* The order without a row, which is in it at most once.
Without(n) ==
  LET places == {i \in 1..Len(due) : due[i] = n}
      place  == CHOOSE i \in places : TRUE
  IN  IF places = {} THEN due
      ELSE [j \in 1..(Len(due) - 1) |-> due[IF j < place THEN j ELSE j + 1]]

-----------------------------------------------------------------------------
\* enqueue: INSERT OR IGNORE by a stable key, from any thread and any retry.
Enqueue(n) ==
  /\ IF status[n] = "none"
       THEN /\ status' = [status EXCEPT ![n] = "pending"]
            /\ due' = Append(due, n)
       ELSE UNCHANGED <<status, due>>
  /\ UNCHANGED <<delivered, flusher, faults>>

\* The backoff of a failed row is over.
BecomesDue(n) ==
  /\ status[n] = "retrying"
  /\ \A i \in 1..Len(due) : due[i] # n
  /\ due' = Append(due, n)
  /\ UNCHANGED <<status, delivered, flusher, faults>>

\* Mutant of LockIsFree: nobody looks at the lock.
LockIsIgnored == TRUE

\* _outbox_lock.acquire(blocking=False).
LockIsFree == lock = "free"

\* flush_outbox: the batch is read once.
FlushBegin(f) ==
  /\ pc[f] = "idle"
  /\ LockIsFree
  /\ Selected # {}
  /\ lock' = f
  /\ pc' = [pc EXCEPT ![f] = "send"]
  /\ batch' = [batch EXCEPT ![f] = Selected]
  /\ UNCHANGED <<status, due, delivered, item, faults>>

\* notifier.send: Feishu accepts the key, or has accepted it before; it
\* refuses it for good; or there is an error, and Feishu may have accepted it.
Sent(f, place) == pc' = [pc EXCEPT ![f] = place]

SendSucceeds(f, n) == delivered' = delivered \cup {n} /\ Sent(f, "finish")
SendRefused(f)     == UNCHANGED delivered /\ Sent(f, "bury")
SendUncertain(f, n) == delivered' = delivered \cup {n} /\ Sent(f, "retry")
SendFails(f)       == UNCHANGED delivered /\ Sent(f, "retry")

Send(f, n) ==
  /\ pc[f] = "send"
  /\ n \in batch[f]
  /\ item' = [item EXCEPT ![f] = n]
  /\ \/ SendSucceeds(f, n) \/ SendRefused(f)
     \/ SendUncertain(f, n) \/ SendFails(f)
  /\ UNCHANGED <<status, due, lock, batch, faults>>

\* The row is updated; after the last row the lock is released.
Handled(f, state) ==
  LET rest == batch[f] \ {item[f]}
  IN  /\ status' = [status EXCEPT ![item[f]] = state]
      /\ batch' = [batch EXCEPT ![f] = rest]
      /\ pc' = [pc EXCEPT ![f] = IF rest = {} THEN "idle" ELSE "send"]
      /\ lock' = IF rest = {} THEN "free" ELSE lock
      /\ item' = [item EXCEPT ![f] = NoNotice]
      /\ UNCHANGED <<delivered, faults>>

\* Mutant of FinishOutbox: a status pending_outbox and the reports ignore.
FinishOutboxSent(f) ==
  /\ pc[f] = "finish"
  /\ Handled(f, "sent")
  /\ due' = Without(item[f])

FinishOutbox(f) ==
  /\ pc[f] = "finish"
  /\ Handled(f, "done")
  /\ due' = Without(item[f])

\* Mutant of FailOutbox: the row keeps its next_attempt_at.
FailOutboxAtOnce(f) ==
  \/ /\ pc[f] = "retry"
     /\ Handled(f, "retrying")
     /\ UNCHANGED due
  \/ /\ pc[f] = "bury"
     /\ Handled(f, "dead")
     /\ due' = Without(item[f])

\* fail_outbox: after a backoff the row is due again, or it is a dead letter.
FailOutbox(f) ==
  /\ \/ pc[f] = "retry" /\ Handled(f, "retrying")
     \/ pc[f] = "bury" /\ Handled(f, "dead")
  /\ due' = Without(item[f])

\* The process ends, between the sending and the update too.
Crash ==
  /\ faults < MaxFaults
  /\ lock # "free"
  /\ faults' = faults + 1
  /\ lock' = "free"
  /\ pc' = [f \in Flushers |-> "idle"]
  /\ batch' = [f \in Flushers |-> {}]
  /\ item' = [f \in Flushers |-> NoNotice]
  /\ UNCHANGED <<status, due, delivered>>

-----------------------------------------------------------------------------
Flush(f) ==
  \/ FlushBegin(f)
  \/ \E n \in Notices : Send(f, n)
  \/ FinishOutbox(f)
  \/ FailOutbox(f)

Next ==
  \/ \E n \in Notices : Enqueue(n) \/ BecomesDue(n)
  \/ \E f \in Flushers : Flush(f)
  \/ Crash

Spec == Init /\ [][Next]_vars

\* The loop flushes every two seconds, backoffs end, and Feishu answers at last
\* whoever sends a notice that is not stubborn.
FairSpec ==
  /\ Spec
  /\ \A n \in Notices : WF_vars(BecomesDue(n))
  /\ \A f \in Flushers : WF_vars(Flush(f) /\ pc[f] # "idle")
  /\ WF_vars(\E f \in Flushers : FlushBegin(f))
  /\ \A n \in Notices \ Stubborn :
       SF_vars(\E f \in Flushers : Send(f, n) /\ pc'[f] \in {"finish", "bury"})

-----------------------------------------------------------------------------
(* Properties *)

\* The rows and Feishu together are the channel the README promises.
Channel ==
  INSTANCE NoticeChannel WITH
    posted <- {n \in Notices : status[n] # "none"},
    shown <- delivered,
    confirmed <- {n \in Notices : status[n] = "done"},
    undeliverable <- {n \in Notices : status[n] = "dead"}

\* The outbox implements the channel: whatever crashes, races of the two
\* flushers, lost answers and repeated enqueues there are, a notice is shown
\* once, is done only if it was shown, and a settled one is never touched
\* again (flush_outbox, finish_outbox, fail_outbox, enqueue).
ImplementsChannel == Channel!Spec

\* A notice that Feishu keeps failing does not hold up the others, however
\* small the batch is (pending_outbox orders by next_attempt_at).
OthersAreSettled ==
  \A n \in Notices \ Stubborn :
    status[n] # "none" ~> status[n] \in Settled
=============================================================================
