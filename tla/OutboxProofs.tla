----------------------------- MODULE OutboxProofs -----------------------------
(***************************************************************************)
(* Proofs about Outbox, for every set of notices and every batch size.     *)
(***************************************************************************)
EXTENDS Outbox, TLAPS

\* At most one flusher works, and the lock names it (_outbox_lock).
Exclusive == \A f \in Flushers : pc[f] # "idle" => lock = f

\* The rows in a batch have not been settled since they were read.
BatchIsOpen ==
  \A f \in Flushers : pc[f] # "idle" =>
    \A n \in batch[f] : status[n] \in Unsettled

\* The row in hand is one of the batch, and is finished only if Feishu has it.
ItemIsSent ==
  \A f \in Flushers :
    /\ pc[f] \in {"finish", "retry", "bury"} => item[f] \in batch[f]
    /\ pc[f] = "finish" => item[f] \in delivered

\* What Feishu has is a row.
DeliveredIsPosted == \A n \in delivered : status[n] # "none"

IInv == TypeOK /\ Exclusive /\ BatchIsOpen /\ ItemIsSent /\ DeliveredIsPosted

\* Removing a row from a sequence of rows leaves a sequence of rows.
LEMMA WithoutType ==
  ASSUME due \in Seq(Notices), NEW n
  PROVE  Without(n) \in Seq(Notices)
<1> DEFINE places == {i \in 1..Len(due) : due[i] = n}
           place  == CHOOSE i \in places : TRUE
<1>1. CASE places = {}
  BY <1>1 DEF Without
<1>2. CASE places # {}
  <2>1. Len(due) \in Nat /\ Len(due) - 1 \in Nat
    BY <1>2
  <2>2. place \in 1..Len(due)
    BY <1>2
  <2>3. \A j \in 1..(Len(due) - 1) :
          (IF j < place THEN j ELSE j + 1) \in 1..Len(due)
    BY <2>1, <2>2
  <2>4. \A j \in 1..Len(due) : due[j] \in Notices
    OBVIOUS
  <2>5. [j \in 1..(Len(due) - 1) |-> due[IF j < place THEN j ELSE j + 1]]
          \in Seq(Notices)
    BY <2>1, <2>3, <2>4
  <2> QED
    BY <1>2, <2>5 DEF Without
<1> QED
  BY <1>1, <1>2

\* pending_outbox selects notices.
LEMMA SelectedType == TypeOK => Selected \in SUBSET Notices
<1> SUFFICES ASSUME TypeOK, NEW x \in Selected PROVE x \in Notices
  OBVIOUS
<1>1. due \in Seq(Notices)
  BY DEF TypeOK
<1>2. PICK i \in 1..Len(due) : x = due[i]
  BY DEF Selected
<1> QED
  BY <1>1, <1>2

\* Handling the row in hand keeps the invariant, if its new status is one of
\* the table and the row was sent when it is called done.
LEMMA HandledKeeps ==
  ASSUME IInv, NEW f \in Flushers, NEW state \in Unsettled \cup Settled,
         pc[f] \in {"finish", "retry", "bury"}, Handled(f, state),
         due' = Without(item[f])
  PROVE  IInv'
<1>1. item[f] \in batch[f] /\ item[f] \in Notices /\ lock = f
  BY DEF IInv, TypeOK, ItemIsSent, Exclusive, Flushers
<1>2. due' \in Seq(Notices)
  BY WithoutType DEF IInv, TypeOK
<1>3. TypeOK'
  BY <1>1, <1>2 DEF Handled, IInv, TypeOK, Flushers, Unsettled, Settled
<1>4. \A g \in Flushers : g # f => pc[g] = "idle" /\ pc'[g] = "idle"
  BY <1>1 DEF Handled, IInv, TypeOK, Exclusive
<1>5. Exclusive'
  BY <1>1, <1>4 DEF Handled, IInv, TypeOK, Exclusive, Flushers
<1>6. BatchIsOpen'
  BY <1>1, <1>4 DEF Handled, IInv, TypeOK, BatchIsOpen
<1>7. ItemIsSent'
  BY <1>1, <1>4 DEF Handled, IInv, TypeOK, ItemIsSent
<1>8. DeliveredIsPosted'
  BY <1>1 DEF Handled, IInv, TypeOK, DeliveredIsPosted, Unsettled, Settled
<1> QED
  BY <1>3, <1>5, <1>6, <1>7, <1>8 DEF IInv

\* The invariant holds at first.
LEMMA InitIInv == Init => IInv
BY OutboxAssumption DEF Init, IInv, TypeOK, Exclusive, BatchIsOpen, ItemIsSent,
   DeliveredIsPosted, Flushers, Unsettled, Settled

\* Every step keeps it.
LEMMA NextIInv == IInv /\ [Next]_vars => IInv'
<1> SUFFICES ASSUME IInv, [Next]_vars PROVE IInv'
  OBVIOUS
<1> USE DEF IInv
<1>1. ASSUME NEW n \in Notices, Enqueue(n) PROVE IInv'
  <2>1. Append(due, n) \in Seq(Notices)
    BY DEF TypeOK
  <2>2. TypeOK'
    BY <1>1, <2>1 DEF Enqueue, TypeOK, flusher, Unsettled, Settled
  <2>3. Exclusive' /\ BatchIsOpen' /\ ItemIsSent' /\ DeliveredIsPosted'
    BY <1>1 DEF Enqueue, flusher, TypeOK, Exclusive, BatchIsOpen, ItemIsSent,
       DeliveredIsPosted, Unsettled
  <2> QED
    BY <2>2, <2>3
<1>2. ASSUME NEW n \in Notices, BecomesDue(n) PROVE IInv'
  <2>1. Append(due, n) \in Seq(Notices)
    BY DEF TypeOK
  <2> QED
    BY <1>2, <2>1 DEF BecomesDue, flusher, TypeOK, Exclusive, BatchIsOpen,
       ItemIsSent, DeliveredIsPosted
<1>3. ASSUME NEW f \in Flushers, FlushBegin(f) PROVE IInv'
  <2>1. Selected \in SUBSET Notices
    BY SelectedType
  <2>2. \A n \in Selected : status[n] \in Unsettled
    BY DEF Selected
  <2>3. TypeOK'
    BY <1>3, <2>1 DEF FlushBegin, TypeOK, Flushers
  <2>4. \A g \in Flushers : pc[g] = "idle"
    BY <1>3 DEF FlushBegin, LockIsFree, Exclusive, Flushers
  <2>5. Exclusive' /\ BatchIsOpen'
    BY <1>3, <2>2, <2>4 DEF FlushBegin, TypeOK, Exclusive, BatchIsOpen
  <2>6. ItemIsSent' /\ DeliveredIsPosted'
    BY <1>3, <2>4 DEF FlushBegin, TypeOK, ItemIsSent, DeliveredIsPosted
  <2> QED
    BY <2>3, <2>5, <2>6
<1>4. ASSUME NEW f \in Flushers, NEW n \in Notices, Send(f, n) PROVE IInv'
  <2>1. TypeOK'
    BY <1>4 DEF Send, SendSucceeds, SendRefused, SendUncertain, SendFails, Sent,
       TypeOK
  <2>2. Exclusive' /\ BatchIsOpen'
    BY <1>4 DEF Send, SendSucceeds, SendRefused, SendUncertain, SendFails, Sent,
       TypeOK, Exclusive, BatchIsOpen
  <2>3. ItemIsSent'
    BY <1>4 DEF Send, SendSucceeds, SendRefused, SendUncertain, SendFails, Sent,
       TypeOK, ItemIsSent
  <2>4. DeliveredIsPosted'
    BY <1>4 DEF Send, SendSucceeds, SendRefused, SendUncertain, SendFails, Sent,
       TypeOK, BatchIsOpen, DeliveredIsPosted, Unsettled
  <2> QED
    BY <2>1, <2>2, <2>3, <2>4
<1>5. ASSUME NEW f \in Flushers, FinishOutbox(f) PROVE IInv'
  BY <1>5, HandledKeeps DEF FinishOutbox, Settled
<1>6. ASSUME NEW f \in Flushers, FailOutbox(f) PROVE IInv'
  BY <1>6, HandledKeeps DEF FailOutbox, Settled, Unsettled
<1>7. ASSUME Crash PROVE IInv'
  BY <1>7, OutboxAssumption DEF Crash, TypeOK, Exclusive, BatchIsOpen, ItemIsSent,
     DeliveredIsPosted
<1>8. ASSUME UNCHANGED vars PROVE IInv'
  BY <1>8 DEF vars, TypeOK, Exclusive, BatchIsOpen, ItemIsSent,
     DeliveredIsPosted
<1> QED
  BY <1>1, <1>2, <1>3, <1>4, <1>5, <1>6, <1>7, <1>8 DEF Next, Flush

\* Every reachable state satisfies the invariant.
LEMMA Invariance == Spec => []IInv
BY InitIInv, NextIInv, PTL DEF Spec

\* The tables, the lock and the batches are well typed in every reachable state.
THEOREM TypeCorrect == Spec => []TypeOK
<1>1. IInv => TypeOK
  BY DEF IInv
<1> QED
  BY <1>1, Invariance, PTL

-----------------------------------------------------------------------------
(* The refinement *)

\* The empty outbox is the empty channel.
LEMMA InitRefines == Init => Channel!Init
BY DEF Init, Channel!Init

\* A step that leaves the rows and Feishu alone is no step of the channel.
LEMMA QuietStep ==
  ASSUME UNCHANGED <<status, delivered>>
  PROVE  UNCHANGED Channel!vars
BY DEF Channel!vars

\* Every step of the outbox is a step of the channel or invisible to it.
LEMMA NextRefines ==
  IInv /\ IInv' /\ [Next]_vars => [Channel!Next]_(Channel!vars)
<1> SUFFICES ASSUME IInv, IInv', [Next]_vars
             PROVE  Channel!Next \/ UNCHANGED Channel!vars
  OBVIOUS
<1> USE DEF Channel!Open
<1>1. ASSUME NEW n \in Notices, Enqueue(n)
      PROVE  Channel!Next \/ UNCHANGED Channel!vars
  <2>1. CASE status[n] = "none"
    <3>1. Channel!Post(n)
      BY <1>1, <2>1 DEF Enqueue, Channel!Post, IInv, TypeOK
    <3> QED
      BY <3>1 DEF Channel!Next
  <2>2. CASE status[n] # "none"
    BY <1>1, <2>2, QuietStep DEF Enqueue
  <2> QED
    BY <2>1, <2>2
<1>2. ASSUME NEW f \in Flushers, NEW n \in Notices, Send(f, n)
      PROVE  Channel!Next \/ UNCHANGED Channel!vars
  <2>1. status[n] \in Unsettled
    BY <1>2 DEF Send, IInv, BatchIsOpen
  <2>2. CASE delivered' = delivered \cup {n} /\ n \notin delivered
    <3>1. Channel!Show(n)
      BY <1>2, <2>1, <2>2 DEF Send, Channel!Show, Unsettled
    <3> QED
      BY <3>1 DEF Channel!Next
  <2>3. CASE delivered' = delivered
    BY <1>2, <2>3, QuietStep DEF Send
  <2> QED
    BY <1>2, <2>2, <2>3 DEF Send, SendSucceeds, SendRefused, SendUncertain,
       SendFails
<1>3. ASSUME NEW f \in Flushers, NEW state \in Unsettled \cup Settled,
             pc[f] \in {"finish", "retry", "bury"}, Handled(f, state),
             state = "done" => pc[f] = "finish"
      PROVE  Channel!Next \/ UNCHANGED Channel!vars
  <2>1. PICK n \in Notices : n = item[f] /\ status[n] \in Unsettled
    BY <1>3 DEF IInv, TypeOK, ItemIsSent, BatchIsOpen
  <2>2. status' = [status EXCEPT ![n] = state] /\ delivered' = delivered
    BY <1>3, <2>1 DEF Handled
  <2>3. CASE state \in Unsettled
    <3>1. UNCHANGED Channel!vars
      BY <2>1, <2>2, <2>3 DEF Channel!vars, IInv, TypeOK, Unsettled
    <3> QED
      BY <3>1
  <2>4. CASE state = "done"
    <3>1. n \in delivered
      BY <1>3, <2>1, <2>4 DEF IInv, ItemIsSent
    <3>2. Channel!Confirm(n)
      BY <2>1, <2>2, <2>4, <3>1 DEF Channel!Confirm, IInv, TypeOK, Unsettled
    <3> QED
      BY <2>1, <3>2 DEF Channel!Next
  <2>5. CASE state = "dead"
    <3>1. Channel!GiveUp(n)
      BY <2>1, <2>2, <2>5 DEF Channel!GiveUp, IInv, TypeOK, Unsettled
    <3> QED
      BY <2>1, <3>1 DEF Channel!Next
  <2> QED
    BY <1>3, <2>3, <2>4, <2>5 DEF Settled
<1>4. ASSUME NEW f \in Flushers, FinishOutbox(f) \/ FailOutbox(f)
      PROVE  Channel!Next \/ UNCHANGED Channel!vars
  BY <1>3, <1>4 DEF FinishOutbox, FailOutbox, Settled, Unsettled
<1>5. ASSUME UNCHANGED <<status, delivered>>
      PROVE  Channel!Next \/ UNCHANGED Channel!vars
  BY <1>5, QuietStep
<1>6. ASSUME NEW n \in Notices, BecomesDue(n) PROVE UNCHANGED <<status, delivered>>
  BY <1>6 DEF BecomesDue
<1>7. ASSUME NEW f \in Flushers, FlushBegin(f)
      PROVE  UNCHANGED <<status, delivered>>
  BY <1>7 DEF FlushBegin
<1>8. ASSUME Crash \/ UNCHANGED vars PROVE UNCHANGED <<status, delivered>>
  BY <1>8 DEF Crash, vars
<1> QED
  BY <1>1, <1>2, <1>4, <1>5, <1>6, <1>7, <1>8 DEF Next, Flush

\* The outbox implements the channel, for every set of notices, every batch
\* size and any number of crashes.
THEOREM OutboxImplementsChannel == Spec => ImplementsChannel
BY InitRefines, NextRefines, Invariance, PTL
   DEF Spec, ImplementsChannel, Channel!Spec
=============================================================================
