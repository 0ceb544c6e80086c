------------------------- MODULE WorkerAttemptsProofs -------------------------
(***************************************************************************)
(* Proofs about WorkerAttempts, for any number of attempts and crashes and *)
(* any redispatch limit.                                                   *)
(***************************************************************************)
EXTENDS WorkerAttempts, FiniteSetTheorems, TLAPS

EventRecords(n) == [kind : Kinds, run : 1..n, tempfail : BOOLEAN]

\* The attempt can do nothing to the card any more, and has not finished it.
Gone(a) == a \notin alive /\ a \notin left

\* Kanban names an owner while the card runs, and only then; who has left the
\* card does not get it back.
CardIsOwned ==
  /\ (task = "running") <=> (current # 0)
  /\ current \notin left

\* What an event says of its attempt is still true when it is read, however
\* late that is.
EventIsTrue(e, living, leavers) ==
  /\ e.kind = "worker_exited" => e.run \notin living
  /\ e.kind = "reclaimed" => e.run \notin living \cup leavers
  /\ e.kind \in {"completed", "blocked"} => e.run \in leavers
  /\ e.tempfail = TRUE => e.kind = "worker_exited"

EventsAreTrue == \A i \in 1..Len(events) : EventIsTrue(events[i], alive, left)

\* The poll loop has an event in hand.
PollHasEvent ==
  /\ poll # "idle" => events # <<>>
  /\ poll \in {"tempfail", "quarantine"} => Head(events).tempfail = TRUE

\* From the Supervisor's confirmation on, the worker of the target is gone.
\* Until the watchdog uses this, the card is still the target's, or archived
\* by an abort.
TargetIsGone ==
  /\ wd # "idle" => target # 0
  /\ wd \in {"recheck", "reclaim", "reread", "record", "archive", "close"}
       => Gone(target)
  /\ wd \in {"recheck", "reclaim", "archive"}
       => ReclaimAllowed(target) \/ task = "archived"

\* The same for the attempt an abort stops.
DoomedIsGone ==
  /\ ab # "idle" => doomed # 0
  /\ ab \in {"recheck", "reclaim", "record"} => Gone(doomed)

\* An attempt that is recorded as reclaimed was.
RowsAreTrue ==
  \A a \in Attempts : row[a] = "reclaimed" => a <= spawned /\ Gone(a)

\* A redispatch that was issued and is not marked yet.
Unmarked ==
  wd \in {"record", "mark"} \/ (wd = "reread" /\ task # "archived")

\* The marks are redispatches, and the one under way is not among them.
MarksAreEarned ==
  /\ runtime.count = Cardinality(recovery)
  /\ Cardinality(recovery) + (IF Unmarked THEN 1 ELSE 0) <= reclaims
  /\ wd # "idle" => budget <= reclaims
  /\ wd \in {"archive", "close", "exception"} => WorkerRedispatchLimit <= reclaims

IInv ==
  /\ TypeOK /\ CardIsOwned /\ OnlyOwnersLive /\ EventsAreTrue /\ PollHasEvent
  /\ TargetIsGone /\ DoomedIsGone /\ RowsAreTrue /\ MarksAreEarned

-----------------------------------------------------------------------------
(* Events *)

\* The events stay well formed when another one is appended or spawned grows.
LEMMA AppendType ==
  ASSUME TypeOK, NEW n \in Nat, spawned <= n, NEW e \in EventRecords(n)
  PROVE  /\ events \in Seq(EventRecords(n))
         /\ Append(events, e) \in Seq(EventRecords(n))
<1>1. events \in Seq(EventRecords(spawned)) /\ spawned \in Nat
  BY AttemptAssumption DEF TypeOK, EventRecords
<1>2. EventRecords(spawned) \subseteq EventRecords(n)
  BY <1>1 DEF EventRecords
<1>3. events \in Seq(EventRecords(n))
  BY <1>1, <1>2
<1> QED
  BY <1>3

\* An event that is true when it is appended keeps the events true, if the
\* others are.
LEMMA AppendTrue ==
  ASSUME TypeOK, PollHasEvent, NEW e, events' = Append(events, e),
         poll' \in {poll, "idle"}, EventIsTrue(e, alive', left'),
         \A i \in 1..Len(events) : EventIsTrue(events[i], alive', left')
  PROVE  EventsAreTrue' /\ PollHasEvent'
<1>1. events \in Seq(EventRecords(spawned))
  BY DEF TypeOK, EventRecords
<1>2. /\ Len(events') = Len(events) + 1
      /\ \A i \in 1..Len(events) : events'[i] = events[i]
      /\ events'[Len(events) + 1] = e
  BY <1>1
<1>3. events' # <<>>
  BY <1>1, <1>2
<1>4. events # <<>> => Head(events') = Head(events)
  BY <1>1, <1>2
<1>5. EventsAreTrue'
  BY <1>1, <1>2 DEF EventsAreTrue
<1>6. PollHasEvent'
  BY <1>3, <1>4 DEF PollHasEvent
<1> QED
  BY <1>5, <1>6

\* The first event, as the poll loop finds it.
LEMMA HeadIsTrue ==
  ASSUME TypeOK, EventsAreTrue, events # <<>>
  PROVE  /\ Head(events) \in EventRecords(spawned)
         /\ EventIsTrue(Head(events), alive, left)
<1>1. events \in Seq(EventRecords(spawned))
  BY DEF TypeOK, EventRecords
<1>2. Len(events) \in Nat /\ Len(events) > 0 /\ Head(events) = events[1]
  BY <1>1
<1> QED
  BY <1>1, <1>2 DEF EventsAreTrue

-----------------------------------------------------------------------------
(* Hermes and its workers *)

\* Hermes dispatches the card to a new attempt.
LEMMA SpawnKeeps == ASSUME IInv, Spawn PROVE IInv'
<1> USE AttemptAssumption DEF IInv
<1>1. spawned \in Nat /\ spawned' \in 1..MaxAttempts /\ spawned' = spawned + 1
  BY DEF TypeOK, Spawn
<1>2. Event("claimed", spawned') \in EventRecords(spawned')
  BY <1>1 DEF Event, EventRecords, Kinds
<1>3. events' \in Seq(EventRecords(spawned'))
  BY <1>1, <1>2, AppendType DEF Spawn
<1>4. TypeOK'
  BY <1>1, <1>3 DEF Spawn, TypeOK, EventRecords, store, watchdog, abort
<1>5. current = 0 /\ alive \subseteq left
  BY DEF Spawn, CardIsOwned, OnlyOwnersLive, TypeOK
<1>6. CardIsOwned' /\ OnlyOwnersLive'
  BY <1>1, <1>5 DEF Spawn, CardIsOwned, OnlyOwnersLive, TypeOK
<1>7. EventsAreTrue' /\ PollHasEvent'
  <2>1. \A i \in 1..Len(events) : events[i].run \in 1..spawned
    <3>1. events \in Seq(EventRecords(spawned))
      BY DEF TypeOK, EventRecords
    <3>2. \A i \in 1..Len(events) : events[i] \in EventRecords(spawned)
      BY <3>1
    <3> QED
      BY <3>2 DEF EventRecords
  <2>2. \A i \in 1..Len(events) : EventIsTrue(events[i], alive', left')
    BY <1>1, <2>1 DEF Spawn, EventsAreTrue, EventIsTrue
  <2>3. EventIsTrue(Event("claimed", spawned'), alive', left')
    BY DEF Event, EventIsTrue
  <2> QED
    BY <2>2, <2>3, AppendTrue DEF Spawn
<1>8. TargetIsGone' /\ DoomedIsGone'
  BY <1>1 DEF Spawn, TargetIsGone, DoomedIsGone, Gone, ReclaimAllowed, TypeOK,
     watchdog, abort
<1>9. RowsAreTrue'
  BY <1>1 DEF Spawn, RowsAreTrue, Gone, TypeOK, Attempts, store
<1>10. MarksAreEarned'
  BY DEF Spawn, MarksAreEarned, Unmarked, store, watchdog
<1> QED
  BY <1>4, <1>6, <1>7, <1>8, <1>9, <1>10

\* A worker makes progress on its card.
LEMMA ProgressKeeps ==
  ASSUME IInv, NEW a \in Attempts, Progress(a)
  PROVE  IInv'
<1> USE AttemptAssumption DEF IInv
<1>1. a \in 1..spawned /\ spawned \in Nat
  BY DEF Progress, WorkerOwns, TypeOK
<1>2. events' = Append(events, Event("progress", a))
  BY DEF Progress
<1>3. Event("progress", a) \in EventRecords(spawned)
  BY <1>1 DEF Event, EventRecords, Kinds
<1>4. events' \in Seq(EventRecords(spawned))
  BY <1>1, <1>2, <1>3, AppendType
<1>5. TypeOK'
  BY <1>4 DEF Progress, TypeOK, EventRecords, process, store, watchdog, abort
<1>6. EventsAreTrue' /\ PollHasEvent'
  <2>1. EventIsTrue(Event("progress", a), alive', left')
    BY DEF Event, EventIsTrue
  <2>2. \A i \in 1..Len(events) : EventIsTrue(events[i], alive', left')
    BY DEF Progress, process, EventsAreTrue
  <2> QED
    BY <1>2, <2>1, <2>2, AppendTrue DEF Progress
<1>7. CardIsOwned' /\ OnlyOwnersLive' /\ RowsAreTrue'
  BY DEF Progress, CardIsOwned, OnlyOwnersLive, RowsAreTrue, Gone, process, store
<1>8. TargetIsGone' /\ DoomedIsGone'
  BY DEF Progress, TargetIsGone, DoomedIsGone, Gone, ReclaimAllowed, process,
     watchdog, abort
<1>9. MarksAreEarned'
  BY DEF Progress, MarksAreEarned, Unmarked, store, watchdog
<1> QED
  BY <1>5, <1>6, <1>7, <1>8, <1>9

\* Who finishes the card is alive, and therefore is not an attempt that
\* somebody has confirmed to be gone.
LEMMA FinishKeeps ==
  ASSUME IInv, NEW a \in Attempts, Finish(a)
  PROVE  IInv'
<1> USE AttemptAssumption DEF IInv
<1>1. a \in alive /\ task = "running" /\ current = a /\ a \in 1..spawned
      /\ spawned \in Nat
  BY DEF Finish, WorkerOwns, TypeOK
<1>2. PICK kind \in {"completed", "blocked"} :
        /\ task' = IF kind = "completed" THEN "done" ELSE "blocked"
        /\ events' = Append(events, Event(kind, a))
  BY DEF Finish
<1>3. Event(kind, a) \in EventRecords(spawned)
  BY <1>1, <1>2 DEF Event, EventRecords, Kinds
<1>4. events' \in Seq(EventRecords(spawned))
  BY <1>1, <1>2, <1>3, AppendType
<1>5. TypeOK'
  BY <1>1, <1>2, <1>4 DEF Finish, TypeOK, EventRecords, store, watchdog, abort
<1>6. left' = left \cup {a} /\ alive' = alive /\ current' = 0
  BY DEF Finish
<1>7. EventsAreTrue' /\ PollHasEvent'
  <2>1. EventIsTrue(Event(kind, a), alive', left')
    BY <1>2, <1>6 DEF Event, EventIsTrue
  <2>2. \A i \in 1..Len(events) : EventIsTrue(events[i], alive', left')
    BY <1>1, <1>6 DEF EventsAreTrue, EventIsTrue
  <2> QED
    BY <1>2, <2>1, <2>2, AppendTrue DEF Finish
<1>8. CardIsOwned' /\ OnlyOwnersLive'
  BY <1>1, <1>2, <1>6 DEF CardIsOwned, OnlyOwnersLive, TypeOK
<1>9. RowsAreTrue'
  BY <1>1, <1>6 DEF Finish, RowsAreTrue, Gone, store
<1>10. TargetIsGone' /\ DoomedIsGone'
  BY <1>1, <1>2, <1>6 DEF Finish, TargetIsGone, DoomedIsGone, Gone,
     ReclaimAllowed, watchdog, abort
<1>11. MarksAreEarned'
  BY <1>1, <1>2 DEF Finish, MarksAreEarned, Unmarked, store, watchdog
<1> QED
  BY <1>5, <1>7, <1>8, <1>9, <1>10, <1>11

\* The end of a worker process, by itself or by the Supervisor: what is known
\* of those that are gone stays true.
LEMMA DeathKeeps ==
  ASSUME IInv, NEW a \in 1..spawned, alive' = alive \ {a},
         UNCHANGED <<task, current, spawned, left, poll>>,
         \/ UNCHANGED events
         \/ \E b \in BOOLEAN : events' = Append(events,
              [kind |-> "worker_exited", run |-> a, tempfail |-> b])
  PROVE  /\ events' \in Seq(EventRecords(spawned))
         /\ alive' \subseteq 1..spawned
         /\ CardIsOwned' /\ OnlyOwnersLive' /\ EventsAreTrue' /\ PollHasEvent'
<1> USE AttemptAssumption DEF IInv
<1>1. CardIsOwned' /\ OnlyOwnersLive' /\ alive' \subseteq 1..spawned
  BY DEF CardIsOwned, OnlyOwnersLive, TypeOK
<1>2. \A i \in 1..Len(events) : EventIsTrue(events[i], alive', left')
  BY DEF EventsAreTrue, EventIsTrue
<1>3. CASE UNCHANGED events
  BY <1>1, <1>2, <1>3 DEF TypeOK, EventRecords, EventsAreTrue, PollHasEvent
<1>4. CASE ~UNCHANGED events
  <2>1. PICK b \in BOOLEAN : events' = Append(events,
              [kind |-> "worker_exited", run |-> a, tempfail |-> b])
    BY <1>4
  <2> DEFINE e == [kind |-> "worker_exited", run |-> a, tempfail |-> b]
  <2>2. e \in EventRecords(spawned) /\ spawned \in Nat
    BY DEF EventRecords, Kinds, TypeOK
  <2>3. events' \in Seq(EventRecords(spawned))
    BY <2>1, <2>2, AppendType
  <2>4. EventIsTrue(e, alive', left')
    BY DEF EventIsTrue
  <2>5. EventsAreTrue' /\ PollHasEvent'
    BY <1>2, <2>1, <2>4, AppendTrue
  <2> QED
    BY <1>1, <2>3, <2>5
<1> QED
  BY <1>3, <1>4

\* A worker ends, with or without a lifecycle event.
LEMMA ExitKeeps ==
  ASSUME IInv, NEW a \in Attempts, Exit(a)
  PROVE  IInv'
<1> USE AttemptAssumption DEF IInv
<1>1. a \in 1..spawned /\ alive' = alive \ {a}
  BY DEF Exit, TypeOK
<1>2. \/ UNCHANGED events
      \/ \E b \in BOOLEAN : events' = Append(events,
           [kind |-> "worker_exited", run |-> a, tempfail |-> b])
  <2>1. Event("worker_exited", a)
          = [kind |-> "worker_exited", run |-> a, tempfail |-> FALSE]
    BY DEF Event
  <2> QED
    BY <2>1 DEF Exit
<1>3. /\ events' \in Seq(EventRecords(spawned))
      /\ alive' \subseteq 1..spawned
      /\ CardIsOwned' /\ OnlyOwnersLive' /\ EventsAreTrue' /\ PollHasEvent'
  BY <1>1, <1>2, DeathKeeps DEF Exit
<1>4. TypeOK'
  BY <1>3 DEF Exit, TypeOK, EventRecords, store, watchdog, abort
<1>5. RowsAreTrue'
  BY <1>1 DEF Exit, RowsAreTrue, Gone, store
<1>6. TargetIsGone' /\ DoomedIsGone'
  BY <1>1 DEF Exit, TargetIsGone, DoomedIsGone, Gone, ReclaimAllowed, watchdog,
     abort
<1>7. MarksAreEarned'
  BY DEF Exit, MarksAreEarned, Unmarked, store, watchdog
<1> QED
  BY <1>3, <1>4, <1>5, <1>6, <1>7

-----------------------------------------------------------------------------
(* What the controller does to a card, and what it records *)

\* The card is taken from an attempt that is gone.
LEMMA ReclaimKeeps ==
  ASSUME IInv, NEW a \in 1..spawned, NEW status \in {"ready", "archived"},
         ReclaimAllowed(a), Gone(a), Reclaim(a, status),
         UNCHANGED process, poll' \in {poll, "idle"}
  PROVE  /\ events' \in Seq(EventRecords(spawned))
         /\ CardIsOwned' /\ OnlyOwnersLive' /\ EventsAreTrue' /\ PollHasEvent'
<1> USE AttemptAssumption DEF IInv
<1>1. spawned \in Nat /\ events' = Append(events, Event("reclaimed", a))
  BY DEF TypeOK, Reclaim
<1>2. Event("reclaimed", a) \in EventRecords(spawned)
  BY <1>1 DEF Event, EventRecords, Kinds
<1>3. events' \in Seq(EventRecords(spawned))
  BY <1>1, <1>2, AppendType
<1>4. EventIsTrue(Event("reclaimed", a), alive', left')
  BY DEF Event, EventIsTrue, Gone, process
<1>5. \A i \in 1..Len(events) : EventIsTrue(events[i], alive', left')
  BY DEF EventsAreTrue, process
<1>6. EventsAreTrue' /\ PollHasEvent'
  BY <1>1, <1>4, <1>5, AppendTrue
<1>7. CardIsOwned' /\ OnlyOwnersLive'
  BY DEF ReclaimAllowed, Reclaim, Gone, CardIsOwned, OnlyOwnersLive, TypeOK,
     process
<1> QED
  BY <1>3, <1>6, <1>7

\* The Supervisor: with its confirmation the worker is gone and its card is
\* still its own.
LEMMA ObserveKeeps ==
  ASSUME IInv, NEW a \in 1..spawned, NEW confirmed \in BOOLEAN,
         Observe(a, confirmed), UNCHANGED poll
  PROVE  /\ events' \in Seq(EventRecords(spawned))
         /\ alive' \subseteq alive
         /\ CardIsOwned' /\ OnlyOwnersLive' /\ EventsAreTrue' /\ PollHasEvent'
         /\ confirmed => Gone(a)' /\ ReclaimAllowed(a)'
<1> USE AttemptAssumption DEF IInv
<1>1. UNCHANGED <<task, current, spawned, left>>
  BY DEF Observe
<1>2. CASE alive' = alive \ {a}
  <2>1. \/ UNCHANGED events
        \/ \E b \in BOOLEAN : events' = Append(events,
             [kind |-> "worker_exited", run |-> a, tempfail |-> b])
    BY <1>2 DEF Observe, Event
  <2>2. /\ events' \in Seq(EventRecords(spawned))
        /\ CardIsOwned' /\ OnlyOwnersLive' /\ EventsAreTrue' /\ PollHasEvent'
    BY <1>1, <1>2, <2>1, DeathKeeps
  <2>3. confirmed => Gone(a)' /\ ReclaimAllowed(a)'
    BY <1>1, <1>2 DEF Observe, Gone, ReclaimAllowed, CardIsOwned, TypeOK
  <2> QED
    BY <1>2, <2>2, <2>3
<1>3. CASE ~confirmed /\ UNCHANGED <<alive, events>>
  BY <1>1, <1>3 DEF TypeOK, EventRecords, CardIsOwned, OnlyOwnersLive,
     EventsAreTrue, PollHasEvent
<1> QED
  BY <1>2, <1>3 DEF Observe

\* The part of TimelineIsFinal that speaks of one step.
Advances ==
  /\ runtime'.session >= runtime.session
  /\ runtime.finished /\ ~runtime'.finished
       => runtime'.session > runtime.session
  /\ \A a \in Attempts : row[a] = "reclaimed" => row'[a] = "reclaimed"

\* record_card_runtime_event: a true event leaves the rows true, never returns to
\* an older session and never reopens a finished one.
LEMMA RecordKeeps ==
  ASSUME IInv, NEW e \in EventRecords(spawned), RecordEvent(e),
         EventIsTrue(e, alive, left), UNCHANGED <<spawned, process>>
  PROVE  /\ row' \in [Attempts -> {"none", "running", "exited"} \cup Terminal]
         /\ runtime' \in [session : 0..spawned, finished : BOOLEAN, count : Nat]
         /\ moved' \in BOOLEAN
         /\ runtime'.count = runtime.count
         /\ recovery' = recovery
         /\ RowsAreTrue'
         /\ Advances
<1> USE AttemptAssumption DEF IInv
<1>1. e.run \in 1..spawned /\ e.kind \in Kinds /\ spawned \in 0..MaxAttempts
      /\ e.run \in Attempts
  BY DEF EventRecords, TypeOK, Attempts
<1>2. runtime \in [session : 0..spawned, finished : BOOLEAN, count : Nat]
      /\ row \in [Attempts -> {"none", "running", "exited"} \cup Terminal]
      /\ moved \in BOOLEAN
  BY DEF TypeOK
<1>3. AttemptStatus(e) \in {"none", "running", "exited"} \cup Terminal
  BY <1>1, <1>2 DEF AttemptStatus, Kinds, Terminal
<1>4. AttemptStatus(e) = "reclaimed" =>
        row[e.run] = "reclaimed" \/ e.kind = "reclaimed"
  BY <1>1, <1>2 DEF AttemptStatus, Terminal
<1>5. row[e.run] = "reclaimed" => AttemptStatus(e) = "reclaimed"
  <2> HAVE row[e.run] = "reclaimed"
  <2>1. e.run \notin left
    BY <1>1 DEF RowsAreTrue, Gone
  <2>2. e.kind \notin {"completed", "blocked"}
    BY <2>1 DEF EventIsTrue
  <2> QED
    BY <2>2 DEF AttemptStatus, Terminal
<1>6. row' = row \/ row' = [row EXCEPT ![e.run] = AttemptStatus(e)]
  BY DEF RecordEvent
<1>7. row' \in [Attempts -> {"none", "running", "exited"} \cup Terminal]
  BY <1>1, <1>2, <1>3, <1>6
<1>8. RowsAreTrue'
  BY <1>1, <1>2, <1>4, <1>6 DEF RowsAreTrue, Gone, EventIsTrue, process
<1>9. \A a \in Attempts : row[a] = "reclaimed" => row'[a] = "reclaimed"
  BY <1>1, <1>2, <1>5, <1>6
<1>10. recovery' = recovery
  BY DEF RecordEvent
<1>11. CASE PreservesFinished(e) \/ IsLate(e)
  <2>1. runtime' = runtime /\ moved' = moved
    BY <1>11 DEF RecordEvent
  <2> QED
    BY <1>2, <1>7, <1>8, <1>9, <1>10, <2>1 DEF Advances
<1>12. CASE ~(PreservesFinished(e) \/ IsLate(e))
  <2>1. /\ runtime' = [runtime EXCEPT !.session = e.run,
                                      !.finished = e.kind \in Terminal]
        /\ moved' = (moved \/ e.kind # "worker_exited")
    BY <1>12 DEF RecordEvent
  <2>2. moved' \in BOOLEAN
    BY <2>1
  <2>3. /\ runtime'.session = e.run
        /\ runtime'.finished = (e.kind \in Terminal)
        /\ runtime'.count = runtime.count
        /\ runtime' \in [session : 0..spawned, finished : BOOLEAN, count : Nat]
    <3> DEFINE b == e.kind \in Terminal
    <3>1. b \in BOOLEAN
      OBVIOUS
    <3>2. runtime' = [runtime EXCEPT !.session = e.run, !.finished = b]
      BY <2>1
    <3> HIDE DEF b
    <3>3. runtime' = [session |-> e.run, finished |-> b, count |-> runtime.count]
      BY <1>1, <1>2, <3>1, <3>2
    <3>4. /\ runtime'.session = e.run
          /\ runtime'.finished = b
          /\ runtime'.count = runtime.count
          /\ runtime' \in [session : 0..spawned, finished : BOOLEAN, count : Nat]
      BY <1>1, <1>2, <3>1, <3>3
    <3> QED
      BY <3>4 DEF b
  <2>4. runtime'.session >= runtime.session
    BY <1>1, <1>2, <1>12, <2>3 DEF IsLate
  <2>5. runtime.finished /\ ~runtime'.finished
          => runtime'.session > runtime.session
    BY <1>1, <1>2, <1>12, <2>3 DEF IsLate, PreservesFinished, NewSession
  <2> QED
    BY <1>7, <1>8, <1>9, <1>10, <2>2, <2>3, <2>4, <2>5 DEF Advances
<1> QED
  BY <1>11, <1>12

-----------------------------------------------------------------------------
(* The poll loop *)

\* A step that leaves the card and the workers alone.
LEMMA BoardFrame ==
  ASSUME IInv, UNCHANGED <<kanban, process>>
  PROVE  CardIsOwned' /\ OnlyOwnersLive' /\ EventsAreTrue'
BY DEF IInv, kanban, process, CardIsOwned, OnlyOwnersLive, EventsAreTrue

\* The process ends: nothing is under way any more.
LEMMA RestartKeeps ==
  ASSUME IInv, Restart, UNCHANGED <<recovery, runtime, reclaims>>
  PROVE  PollHasEvent' /\ TargetIsGone' /\ DoomedIsGone' /\ MarksAreEarned'
<1>1. Cardinality(recovery) \in Nat /\ reclaims \in Nat
  BY DEF IInv, TypeOK, MarksAreEarned
<1> QED
  BY <1>1 DEF IInv, Restart, PollHasEvent, TargetIsGone, DoomedIsGone,
     MarksAreEarned, Unmarked

\* The poll loop applies the next event.
LEMMA PollEventKeeps ==
  ASSUME IInv, PollEvent
  PROVE  IInv' /\ Advances
<1> USE AttemptAssumption DEF IInv
<1> DEFINE e == Head(events)
<1>1. e \in EventRecords(spawned) /\ EventIsTrue(e, alive, left)
  BY HeadIsTrue DEF PollEvent
<1>2. RecordEvent(e) /\ UNCHANGED <<spawned, process>>
      /\ UNCHANGED <<run, kanban, process, watchdog, abort, reclaims, faults>>
  BY DEF PollEvent, kanban
<1> HIDE DEF e
<1>3. /\ row' \in [Attempts -> {"none", "running", "exited"} \cup Terminal]
      /\ runtime' \in [session : 0..spawned, finished : BOOLEAN, count : Nat]
      /\ moved' \in BOOLEAN
      /\ runtime'.count = runtime.count
      /\ recovery' = recovery
      /\ RowsAreTrue'
      /\ Advances
  BY <1>1, <1>2, RecordKeeps
<1>4. poll' = (IF e.tempfail THEN "tempfail" ELSE "cursor") /\ events # <<>>
  BY DEF PollEvent, e
<1>5. TypeOK'
  BY <1>2, <1>3, <1>4 DEF TypeOK, kanban, process, watchdog, abort
<1>6. PollHasEvent'
  <2>1. e.tempfail \in BOOLEAN
    BY <1>1 DEF EventRecords
  <2> QED
    BY <1>2, <1>4, <2>1 DEF PollHasEvent, kanban, e
<1>7. CardIsOwned' /\ OnlyOwnersLive' /\ EventsAreTrue'
  BY <1>2, BoardFrame
<1>8. TargetIsGone' /\ DoomedIsGone'
  BY <1>2 DEF TargetIsGone, DoomedIsGone, Gone, ReclaimAllowed, kanban, process,
     watchdog, abort
<1>9. MarksAreEarned'
  BY <1>2, <1>3 DEF MarksAreEarned, Unmarked, kanban, watchdog
<1> QED
  BY <1>3, <1>5, <1>6, <1>7, <1>8, <1>9

\* The failure of a provider is recorded.
LEMMA RecordTempfailKeeps ==
  ASSUME IInv, RecordProviderTempfailExit
  PROVE  IInv'
<1> USE DEF IInv, RecordProviderTempfailExit
<1>1. TypeOK'
  BY DEF TypeOK, kanban, process, store, watchdog, abort
<1>2. CardIsOwned' /\ OnlyOwnersLive' /\ EventsAreTrue'
  BY BoardFrame
<1>3. PollHasEvent'
  BY DEF PollHasEvent, kanban
<1>4. TargetIsGone' /\ DoomedIsGone' /\ RowsAreTrue'
  BY DEF TargetIsGone, DoomedIsGone, RowsAreTrue, Gone, ReclaimAllowed, kanban,
     process, store, watchdog, abort
<1>5. MarksAreEarned'
  BY DEF MarksAreEarned, Unmarked, kanban, store, watchdog
<1> QED
  BY <1>1, <1>2, <1>3, <1>4, <1>5

\* The attempt that exited with EX_TEMPFAIL owns the card and does not live.
LEMMA QuarantineKeeps ==
  ASSUME IInv, QuarantineProviderTempfail
  PROVE  IInv'
<1> USE AttemptAssumption DEF IInv
<1> DEFINE e == Head(events)
<1>1. e \in EventRecords(spawned) /\ EventIsTrue(e, alive, left)
      /\ e.tempfail = TRUE
  BY HeadIsTrue DEF QuarantineProviderTempfail, PollHasEvent
<1>2. e.run \in 1..spawned /\ e.run \notin alive
  BY <1>1 DEF EventRecords, EventIsTrue
<1>3. Restart /\ UNCHANGED <<run, process, store, moved, reclaims, faults>>
      /\ IF ReclaimAllowed(e.run) THEN Reclaim(e.run, "ready")
                                  ELSE UNCHANGED kanban
  BY DEF QuarantineProviderTempfail
<1> HIDE DEF e
<1>4. CASE ReclaimAllowed(e.run)
  <2>1. Gone(e.run)
    BY <1>2, <1>4 DEF Gone, ReclaimAllowed, CardIsOwned
  <2>2. /\ events' \in Seq(EventRecords(spawned))
        /\ CardIsOwned' /\ OnlyOwnersLive' /\ EventsAreTrue'
    BY <1>2, <1>3, <1>4, <2>1, ReclaimKeeps DEF Restart
  <2>3. TypeOK'
    BY <1>3, <1>4, <2>2 DEF TypeOK, Reclaim, Restart, EventRecords, process,
       store
  <2>4. RowsAreTrue'
    BY <1>3, <1>4 DEF RowsAreTrue, Reclaim, Gone, process, store
  <2>5. PollHasEvent' /\ TargetIsGone' /\ DoomedIsGone' /\ MarksAreEarned'
    BY <1>3, RestartKeeps DEF store
  <2> QED
    BY <2>2, <2>3, <2>4, <2>5
<1>5. CASE ~ReclaimAllowed(e.run)
  <2>1. CardIsOwned' /\ OnlyOwnersLive' /\ EventsAreTrue'
    BY <1>3, <1>5, BoardFrame
  <2>2. TypeOK'
    BY <1>3, <1>5 DEF TypeOK, Restart, kanban, process, store
  <2>3. RowsAreTrue'
    BY <1>3, <1>5 DEF RowsAreTrue, Gone, kanban, process, store
  <2>4. PollHasEvent' /\ TargetIsGone' /\ DoomedIsGone' /\ MarksAreEarned'
    BY <1>3, RestartKeeps DEF store
  <2> QED
    BY <2>1, <2>2, <2>3, <2>4
<1> QED
  BY <1>4, <1>5

\* The cursor of the poll loop advances.
LEMMA SetCursorKeeps ==
  ASSUME IInv, SetCursor
  PROVE  IInv'
<1> USE DEF IInv, SetCursor
<1>1. events \in Seq(EventRecords(spawned)) /\ events # <<>>
  BY DEF TypeOK, EventRecords, PollHasEvent
<1>2. /\ events' \in Seq(EventRecords(spawned))
      /\ Len(events') = Len(events) - 1
      /\ \A i \in 1..Len(events') : events'[i] = events[i + 1]
  BY <1>1
<1>3. TypeOK'
  BY <1>2 DEF TypeOK, EventRecords, process, store, watchdog, abort
<1>4. EventsAreTrue'
  BY <1>1, <1>2 DEF EventsAreTrue, process
<1>5. CardIsOwned' /\ OnlyOwnersLive' /\ PollHasEvent'
  BY DEF CardIsOwned, OnlyOwnersLive, PollHasEvent, process
<1>6. TargetIsGone' /\ DoomedIsGone' /\ RowsAreTrue'
  BY DEF TargetIsGone, DoomedIsGone, RowsAreTrue, Gone, ReclaimAllowed,
     process, store, watchdog, abort
<1>7. MarksAreEarned'
  BY DEF MarksAreEarned, Unmarked, store, watchdog
<1> QED
  BY <1>3, <1>4, <1>5, <1>6, <1>7

\* The reconcile records the completion of the card (record_attempt_completion).
LEMMA CompletionKeeps ==
  ASSUME IInv, ReconcileCompletion
  PROVE  IInv'
<1> USE DEF IInv, ReconcileCompletion
<1>1. /\ runtime' \in [session : 0..spawned, finished : BOOLEAN, count : Nat]
      /\ runtime'.count = runtime.count
  BY DEF TypeOK
<1>2. TypeOK'
  BY <1>1 DEF TypeOK, kanban, process, watchdog, abort
<1>3. CardIsOwned' /\ OnlyOwnersLive' /\ EventsAreTrue'
  BY BoardFrame
<1>4. PollHasEvent' /\ TargetIsGone' /\ DoomedIsGone' /\ RowsAreTrue'
  BY DEF PollHasEvent, TargetIsGone, DoomedIsGone, RowsAreTrue, Gone,
     ReclaimAllowed, kanban, process, watchdog, abort
<1>5. MarksAreEarned'
  BY <1>1 DEF MarksAreEarned, Unmarked, kanban, watchdog
<1> QED
  BY <1>2, <1>3, <1>4, <1>5

\* A crash forgets what the watchdog, the abort and the poll loop had read.
LEMMA CrashKeeps ==
  ASSUME IInv, Crash
  PROVE  IInv'
<1> USE AttemptAssumption DEF IInv, Crash
<1>1. TypeOK'
  BY DEF TypeOK, Restart, kanban, process, store
<1>2. CardIsOwned' /\ OnlyOwnersLive' /\ EventsAreTrue'
  BY BoardFrame
<1>3. PollHasEvent' /\ TargetIsGone' /\ DoomedIsGone' /\ MarksAreEarned'
  BY RestartKeeps DEF store
<1>4. RowsAreTrue'
  BY DEF RowsAreTrue, Gone, kanban, process, store
<1> QED
  BY <1>1, <1>2, <1>3, <1>4

-----------------------------------------------------------------------------
(* The watchdog *)

\* Reads and checks, which change nothing but the place of the watchdog.
LEMMA WatchdogReadsKeep ==
  ASSUME IInv, WatchdogRead \/ WatchdogCheck \/ WatchdogRecheck
  PROVE  IInv'
<1> USE AttemptAssumption DEF IInv, WatchdogRead, WatchdogCheck, WatchdogRecheck
<1>1. UNCHANGED <<run, kanban, process, store, poll, abort, reclaims, faults>>
  OBVIOUS
<1>2. CardIsOwned' /\ OnlyOwnersLive' /\ EventsAreTrue'
  BY <1>1, BoardFrame
<1>3. PollHasEvent' /\ DoomedIsGone' /\ RowsAreTrue'
  BY <1>1 DEF PollHasEvent, DoomedIsGone, RowsAreTrue, Gone, kanban, process,
     store, abort
<1>4. runtime.session \in 0..spawned /\ runtime.count \in Nat
  BY DEF TypeOK
<1>5. TypeOK'
  <2>1. moved' \in BOOLEAN
    BY DEF TypeOK
  <2>2. target' \in 0..spawned /\ budget' \in Nat
    BY <1>4 DEF TypeOK
  <2>3. wd' \in {"idle", "check", "observe", "archive", "reclaim"}
    OBVIOUS
  <2> QED
    BY <1>1, <2>1, <2>2, <2>3 DEF TypeOK, kanban, process, store, abort
<1>6. TargetIsGone'
  BY DEF TargetIsGone, TargetIsCurrent, Gone, ReclaimAllowed, kanban, process
<1>7. Cardinality(recovery) \in Nat /\ reclaims \in Nat /\ budget \in Nat
  BY <1>4 DEF MarksAreEarned, TypeOK
<1>8. MarksAreEarned'
  BY <1>4, <1>7 DEF MarksAreEarned, Unmarked, kanban, store
<1> QED
  BY <1>2, <1>3, <1>5, <1>6, <1>8

\* The watchdog asks the Supervisor.
LEMMA WatchdogObserveKeeps ==
  ASSUME IInv, WatchdogObserve
  PROVE  IInv'
<1> USE AttemptAssumption DEF IInv
<1>1. PICK confirmed \in BOOLEAN :
        Observe(target, confirmed) /\ wd' = IF confirmed THEN "recheck" ELSE "idle"
  BY DEF WatchdogObserve
<1>2. target \in 1..spawned /\ wd = "observe"
      /\ UNCHANGED <<run, store, poll, target, budget, moved, abort, reclaims,
                     faults>>
  BY DEF WatchdogObserve, TargetIsGone, TypeOK
<1>3. /\ events' \in Seq(EventRecords(spawned))
      /\ alive' \subseteq alive
      /\ CardIsOwned' /\ OnlyOwnersLive' /\ EventsAreTrue' /\ PollHasEvent'
      /\ confirmed => Gone(target)' /\ ReclaimAllowed(target)'
  BY <1>1, <1>2, ObserveKeeps DEF Gone, ReclaimAllowed
<1>4. UNCHANGED <<task, current, spawned, left>>
  BY <1>1 DEF Observe
<1>5. TypeOK'
  BY <1>1, <1>2, <1>3, <1>4 DEF TypeOK, EventRecords, store, abort
<1>6. TargetIsGone'
  BY <1>1, <1>2, <1>3 DEF TargetIsGone
<1>7. DoomedIsGone' /\ RowsAreTrue'
  BY <1>2, <1>3, <1>4 DEF DoomedIsGone, RowsAreTrue, Gone, store, abort
<1>8. MarksAreEarned'
  BY <1>1, <1>2, <1>4 DEF MarksAreEarned, Unmarked, store
<1> QED
  BY <1>3, <1>5, <1>6, <1>7, <1>8

\* A refused reclaim changes the run only.
LEMMA RefusedKeeps ==
  ASSUME IInv, ReclaimRefused,
         UNCHANGED <<process, store, moved, reclaims, faults>>
  PROVE  IInv'
<1> USE DEF IInv, ReclaimRefused
<1>1. TypeOK'
  BY DEF TypeOK, kanban, process, store, abort
<1>2. CardIsOwned' /\ OnlyOwnersLive' /\ EventsAreTrue'
  BY BoardFrame
<1>3. PollHasEvent' /\ TargetIsGone' /\ DoomedIsGone' /\ RowsAreTrue'
  BY DEF PollHasEvent, TargetIsGone, DoomedIsGone, RowsAreTrue, Gone, kanban,
     process, store, abort
<1>4. Cardinality(recovery) \in Nat /\ reclaims \in Nat
  BY DEF MarksAreEarned, TypeOK
<1>5. MarksAreEarned'
  BY <1>4 DEF MarksAreEarned, Unmarked, store
<1> QED
  BY <1>1, <1>2, <1>3, <1>5

\* An error that ends the process and leaves the card alone.
LEMMA FatalKeeps ==
  ASSUME IInv, Restart, run' \in {run, "exception"},
         UNCHANGED <<kanban, process, store, moved, reclaims, faults>>
  PROVE  IInv'
<1> USE DEF IInv
<1>1. TypeOK'
  BY DEF TypeOK, Restart, kanban, process, store
<1>2. CardIsOwned' /\ OnlyOwnersLive' /\ EventsAreTrue'
  BY BoardFrame
<1>3. PollHasEvent' /\ TargetIsGone' /\ DoomedIsGone' /\ MarksAreEarned'
  BY RestartKeeps DEF store
<1>4. RowsAreTrue'
  BY DEF RowsAreTrue, Gone, kanban, process, store
<1> QED
  BY <1>1, <1>2, <1>3, <1>4

\* The redispatch is counted in the same step in which it is issued.  If the card
\* is not the target's any more it is archived, and nothing will be marked.
LEMMA WatchdogReclaimKeeps ==
  ASSUME IInv, WatchdogReclaim
  PROVE  IInv'
<1> USE AttemptAssumption DEF IInv
<1>1. /\ wd = "reclaim" /\ target \in 1..spawned /\ Gone(target)
      /\ ReclaimAllowed(target) \/ task = "archived"
      /\ UNCHANGED <<process, store, moved, faults>>
  BY DEF WatchdogReclaim, TargetIsGone, TypeOK
<1>2. Cardinality(recovery) \in Nat /\ reclaims \in Nat /\ budget \in Nat
  BY DEF MarksAreEarned, TypeOK
<1>3. ASSUME ReclaimAllowed(target), Reclaim(target, "ready"),
             reclaims' = reclaims + 1, wd' = "reread",
             UNCHANGED <<run, poll, target, budget, abort>>
      PROVE  IInv'
  <2>1. /\ events' \in Seq(EventRecords(spawned))
        /\ CardIsOwned' /\ OnlyOwnersLive' /\ EventsAreTrue' /\ PollHasEvent'
    BY <1>1, <1>3, ReclaimKeeps
  <2>2. TypeOK'
    BY <1>1, <1>3, <2>1 DEF TypeOK, Reclaim, EventRecords, process, store, abort
  <2>3. TargetIsGone' /\ DoomedIsGone' /\ RowsAreTrue'
    BY <1>1, <1>3 DEF Reclaim, TargetIsGone, DoomedIsGone, RowsAreTrue, Gone,
       process, store, abort
  <2>4. MarksAreEarned'
    BY <1>1, <1>2, <1>3 DEF MarksAreEarned, Unmarked, store
  <2> QED
    BY <2>1, <2>2, <2>3, <2>4
<1>4. ASSUME ~ReclaimAllowed(target), wd' = "reread",
             UNCHANGED <<run, kanban, reclaims, poll, target, budget, abort>>
      PROVE  IInv'
  <2>1. task = "archived"
    BY <1>1, <1>4
  <2>2. CardIsOwned' /\ OnlyOwnersLive' /\ EventsAreTrue'
    BY <1>1, <1>4, BoardFrame
  <2>3. TypeOK'
    BY <1>1, <1>4 DEF TypeOK, kanban, process, store, abort
  <2>4. PollHasEvent' /\ TargetIsGone' /\ DoomedIsGone' /\ RowsAreTrue'
    BY <1>1, <1>4 DEF PollHasEvent, TargetIsGone, DoomedIsGone, RowsAreTrue,
       Gone, kanban, process, store, abort
  <2>5. MarksAreEarned'
    BY <1>1, <1>2, <1>4, <2>1 DEF MarksAreEarned, Unmarked, kanban, store
  <2> QED
    BY <2>2, <2>3, <2>4, <2>5
<1> QED
  BY <1>1, <1>3, <1>4, RefusedKeeps, FatalKeeps DEF WatchdogReclaim

\* The watchdog reads the card again.
LEMMA WatchdogRereadKeeps ==
  ASSUME IInv, WatchdogReread
  PROVE  IInv'
<1> USE AttemptAssumption DEF IInv
<1>1. wd = "reread" /\ UNCHANGED <<run, current, spawned, events, process, store,
                                   moved, reclaims, faults>>
  BY DEF WatchdogReread
<1>2. CASE task \in {"ready", "blocked"}
  <2>1. task' = "ready" /\ wd' = "record"
        /\ UNCHANGED <<poll, target, budget, abort>>
    BY <1>2 DEF WatchdogReread
  <2>2. TypeOK'
    BY <1>1, <2>1 DEF TypeOK, process, store, abort
  <2>3. CardIsOwned' /\ OnlyOwnersLive' /\ EventsAreTrue' /\ PollHasEvent'
    BY <1>1, <1>2, <2>1 DEF CardIsOwned, OnlyOwnersLive, EventsAreTrue,
       PollHasEvent, process
  <2>4. TargetIsGone' /\ DoomedIsGone' /\ RowsAreTrue'
    BY <1>1, <2>1 DEF TargetIsGone, DoomedIsGone, RowsAreTrue, Gone, process,
       store, abort
  <2>5. MarksAreEarned'
    BY <1>1, <1>2, <2>1 DEF MarksAreEarned, Unmarked, store
  <2> QED
    BY <2>2, <2>3, <2>4, <2>5
<1>3. CASE task \notin {"ready", "blocked"}
  BY <1>1, <1>3, FatalKeeps DEF WatchdogReread, kanban
<1> QED
  BY <1>2, <1>3

\* The watchdog reclaims the card and records it.
LEMMA WatchdogRecordKeeps ==
  ASSUME IInv, WatchdogRecord
  PROVE  IInv' /\ Advances
<1> USE AttemptAssumption DEF IInv
<1>1. wd \in {"record", "close"} /\ target \in 1..spawned /\ Gone(target)
  BY DEF WatchdogRecord, TargetIsGone, TypeOK
<1>2. /\ RecordEvent(Event("reclaimed", target))
      /\ wd' = (IF wd = "record" THEN "mark" ELSE "exception")
      /\ UNCHANGED <<run, kanban, process, poll, target, budget, abort, reclaims,
                     faults>>
  BY DEF WatchdogRecord
<1>3. Event("reclaimed", target) \in EventRecords(spawned)
      /\ EventIsTrue(Event("reclaimed", target), alive, left)
  BY <1>1 DEF Event, EventRecords, EventIsTrue, Kinds, Gone
<1>4. /\ row' \in [Attempts -> {"none", "running", "exited"} \cup Terminal]
      /\ runtime' \in [session : 0..spawned, finished : BOOLEAN, count : Nat]
      /\ moved' \in BOOLEAN
      /\ runtime'.count = runtime.count
      /\ recovery' = recovery
      /\ RowsAreTrue'
      /\ Advances
  BY <1>2, <1>3, RecordKeeps DEF kanban
<1>5. TypeOK'
  BY <1>2, <1>4 DEF TypeOK, kanban, process, abort
<1>6. CardIsOwned' /\ OnlyOwnersLive' /\ EventsAreTrue'
  BY <1>2, BoardFrame
<1>7. PollHasEvent' /\ TargetIsGone' /\ DoomedIsGone'
  BY <1>1, <1>2 DEF PollHasEvent, TargetIsGone, DoomedIsGone, Gone, kanban,
     process, abort
<1>8. MarksAreEarned'
  BY <1>1, <1>2, <1>4 DEF MarksAreEarned, Unmarked
<1> QED
  BY <1>4, <1>5, <1>6, <1>7, <1>8

\* update_worker_watchdog adds at most one mark.
LEMMA OneMark ==
  ASSUME TypeOK, IncrementRedispatch
  PROVE  /\ recovery' \subseteq Attempts
         /\ Cardinality(recovery) \in Nat /\ Cardinality(recovery') \in Nat
         /\ Cardinality(recovery') <= Cardinality(recovery) + 1
<1> DEFINE known  == {a \in Attempts : row[a] # "none"}
           newest == {a \in known : \A b \in known : b <= a}
<1>1. recovery' = recovery \cup newest
  BY DEF IncrementRedispatch
<1>2. IsFiniteSet(Attempts) /\ Attempts \subseteq Int
  BY FS_Interval, AttemptAssumption DEF Attempts
<1>3. IsFiniteSet(recovery)
  BY <1>2, FS_Subset DEF TypeOK
<1>4. Cardinality(recovery) \in Nat
  BY <1>3, FS_CardinalityType
<1>5. CASE newest = {}
  <2>1. recovery' = recovery
    BY <1>1, <1>5
  <2> QED
    BY <1>4, <2>1 DEF TypeOK
<1>6. CASE newest # {}
  <2>1. PICK x : x \in newest
    BY <1>6
  <2>2. \A y \in newest : y = x
    BY <1>2, <2>1
  <2>3. recovery' = recovery \cup {x} /\ x \in Attempts
    BY <1>1, <2>1, <2>2
  <2>4. Cardinality(recovery \cup {x}) =
          IF x \in recovery THEN Cardinality(recovery)
                            ELSE Cardinality(recovery) + 1
    BY <1>3, FS_AddElement
  <2>5. recovery' \subseteq Attempts
    BY <2>3 DEF TypeOK
  <2> QED
    BY <1>4, <2>3, <2>4, <2>5
<1> QED
  BY <1>5, <1>6

\* The watchdog marks the attempt as redispatched.
LEMMA WatchdogMarkKeeps ==
  ASSUME IInv, WatchdogMark
  PROVE  IInv'
<1> USE AttemptAssumption DEF IInv
<1>1. /\ wd = "mark" /\ wd' = "idle" /\ IncrementRedispatch
      /\ UNCHANGED <<run, kanban, process, poll, target, budget, abort, reclaims,
                     faults>>
  BY DEF WatchdogMark
<1>2. /\ recovery' \subseteq Attempts
      /\ Cardinality(recovery) \in Nat /\ Cardinality(recovery') \in Nat
      /\ Cardinality(recovery') <= Cardinality(recovery) + 1
  BY <1>1, OneMark
<1>3. /\ runtime' = [runtime EXCEPT !.count = Cardinality(recovery')]
      /\ moved' = TRUE /\ row' = row
  BY <1>1 DEF IncrementRedispatch
<1>4. /\ runtime' \in [session : 0..spawned, finished : BOOLEAN, count : Nat]
      /\ runtime'.count = Cardinality(recovery')
  BY <1>2, <1>3 DEF TypeOK
<1>5. TypeOK'
  BY <1>1, <1>2, <1>3, <1>4 DEF TypeOK, kanban, process, abort
<1>6. CardIsOwned' /\ OnlyOwnersLive' /\ EventsAreTrue'
  BY <1>1, BoardFrame
<1>7. PollHasEvent' /\ TargetIsGone' /\ DoomedIsGone' /\ RowsAreTrue'
  BY <1>1, <1>3 DEF PollHasEvent, TargetIsGone, DoomedIsGone, RowsAreTrue, Gone,
     kanban, process, abort
<1>8. MarksAreEarned'
  BY <1>1, <1>2, <1>4 DEF MarksAreEarned, Unmarked, TypeOK
<1> QED
  BY <1>5, <1>6, <1>7, <1>8

\* The watchdog gives the card up.
LEMMA WatchdogArchiveKeeps ==
  ASSUME IInv, WatchdogArchive
  PROVE  IInv'
<1> USE AttemptAssumption DEF IInv
<1>1. /\ wd = "archive" /\ target \in 1..spawned /\ Gone(target)
      /\ UNCHANGED <<process, store, moved, reclaims, faults>>
  BY DEF WatchdogArchive, TargetIsGone, TypeOK
<1>2. ASSUME task' = "archived", wd' = "close", CardIsOwned', OnlyOwnersLive',
             EventsAreTrue', PollHasEvent', current' \in {0, current},
             events' \in Seq(EventRecords(spawned)),
             UNCHANGED <<run, spawned, poll, target, budget, abort>>
      PROVE  IInv'
  <2>1. TypeOK'
    BY <1>1, <1>2 DEF TypeOK, EventRecords, process, store, abort
  <2>2. TargetIsGone' /\ DoomedIsGone' /\ RowsAreTrue'
    BY <1>1, <1>2 DEF TargetIsGone, DoomedIsGone, RowsAreTrue, Gone, process,
       store, abort
  <2>3. MarksAreEarned'
    BY <1>1, <1>2 DEF MarksAreEarned, Unmarked, store
  <2> QED
    BY <1>2, <2>1, <2>2, <2>3
<1>3. ASSUME ReclaimAllowed(target), Reclaim(target, "archived"), wd' = "close",
             UNCHANGED <<run, poll, target, budget, abort>>
      PROVE  IInv'
  <2>1. /\ events' \in Seq(EventRecords(spawned))
        /\ CardIsOwned' /\ OnlyOwnersLive' /\ EventsAreTrue' /\ PollHasEvent'
    BY <1>1, <1>3, ReclaimKeeps
  <2> QED
    BY <1>2, <1>3, <2>1 DEF Reclaim
<1>4. ASSUME task # "running", task' = "archived", wd' = "close",
             UNCHANGED <<run, current, spawned, events, poll, target, budget,
                         abort>>
      PROVE  IInv'
  <2>1. events \in Seq(EventRecords(spawned))
    BY DEF TypeOK, EventRecords
  <2>2. CardIsOwned' /\ OnlyOwnersLive' /\ EventsAreTrue' /\ PollHasEvent'
    BY <1>1, <1>4 DEF CardIsOwned, OnlyOwnersLive, EventsAreTrue, PollHasEvent,
       process
  <2> QED
    BY <1>2, <1>4, <2>1, <2>2
<1> QED
  BY <1>1, <1>3, <1>4, RefusedKeeps, FatalKeeps DEF WatchdogArchive

\* The run becomes an exception when the budget is spent.
LEMMA WatchdogExceptionKeeps ==
  ASSUME IInv, WatchdogException
  PROVE  IInv'
<1> USE DEF IInv
<1>1. wd = "exception"
      /\ UNCHANGED <<kanban, process, store, moved, reclaims, faults>>
  BY DEF WatchdogException
<1>2. CASE run = "active"
  <2>1. run' = "exception" /\ wd' = "idle"
        /\ UNCHANGED <<poll, target, budget, abort>>
    BY <1>2 DEF WatchdogException
  <2>2. TypeOK'
    BY <1>1, <2>1 DEF TypeOK, kanban, process, store, abort
  <2>3. CardIsOwned' /\ OnlyOwnersLive' /\ EventsAreTrue'
    BY <1>1, BoardFrame
  <2>4. PollHasEvent' /\ TargetIsGone' /\ DoomedIsGone' /\ RowsAreTrue'
    BY <1>1, <2>1 DEF PollHasEvent, TargetIsGone, DoomedIsGone, RowsAreTrue,
       Gone, kanban, process, store, abort
  <2>5. MarksAreEarned'
    BY <1>1, <2>1 DEF MarksAreEarned, Unmarked, store
  <2> QED
    BY <2>2, <2>3, <2>4, <2>5
<1>3. CASE run # "active"
  BY <1>1, <1>3, FatalKeeps DEF WatchdogException
<1> QED
  BY <1>2, <1>3

-----------------------------------------------------------------------------
(* An abort *)

\* The abort is confirmed, and reads the card again before it takes it.
LEMMA AbortReadsKeep ==
  ASSUME IInv, ConfirmAbort \/ AbortRecheck
  PROVE  IInv'
<1> USE DEF IInv, ConfirmAbort, AbortRecheck
<1>1. UNCHANGED <<kanban, process, store, poll, watchdog, moved, doomed, reclaims,
                  faults>>
  BY DEF abort
<1>2. TypeOK'
  BY <1>1 DEF TypeOK, kanban, process, store, watchdog, abort
<1>3. CardIsOwned' /\ OnlyOwnersLive' /\ EventsAreTrue'
  BY <1>1, BoardFrame
<1>4. PollHasEvent' /\ TargetIsGone' /\ RowsAreTrue'
  BY <1>1 DEF PollHasEvent, TargetIsGone, RowsAreTrue, Gone, ReclaimAllowed,
     kanban, process, store, watchdog
<1>5. DoomedIsGone'
  BY <1>1 DEF DoomedIsGone, Gone, process, abort
<1>6. MarksAreEarned'
  BY <1>1 DEF MarksAreEarned, Unmarked, kanban, store, watchdog
<1> QED
  BY <1>2, <1>3, <1>4, <1>5, <1>6

\* An unclaimed card is archived; the watchdog finds it so.
LEMMA ArchiveKeeps ==
  ASSUME IInv, task # "running", task' = "archived", ab' \in {ab, "record"},
         ab' = "record" => Gone(doomed) /\ doomed # 0,
         UNCHANGED <<run, current, spawned, events, process, store, poll,
                     watchdog, moved, doomed, reclaims, faults>>
  PROVE  IInv'
<1> USE DEF IInv
<1>1. TypeOK'
  BY DEF TypeOK, process, store, watchdog
<1>2. CardIsOwned' /\ OnlyOwnersLive' /\ EventsAreTrue' /\ PollHasEvent'
  BY DEF CardIsOwned, OnlyOwnersLive, EventsAreTrue, PollHasEvent, process
<1>3. TargetIsGone' /\ DoomedIsGone' /\ RowsAreTrue'
  BY DEF TargetIsGone, DoomedIsGone, RowsAreTrue, Gone, process, store, watchdog
<1>4. Cardinality(recovery) \in Nat /\ reclaims \in Nat
  BY DEF MarksAreEarned, TypeOK
<1>5. MarksAreEarned'
  BY <1>4 DEF MarksAreEarned, Unmarked, store, watchdog
<1> QED
  BY <1>1, <1>2, <1>3, <1>5

\* The abort of a claimed card begins.
LEMMA AbortManagedKeeps ==
  ASSUME IInv, AbortManagedTask
  PROVE  IInv'
<1> USE DEF IInv
<1>1. ab = "idle"
      /\ UNCHANGED <<current, spawned, events, process, store, poll, watchdog,
                     moved, reclaims, faults>>
  BY DEF AbortManagedTask
<1>2. CASE task \notin {"archived", "running"} /\ task' = "archived"
           /\ UNCHANGED <<run, abort>>
  BY <1>1, <1>2, ArchiveKeeps DEF abort
<1>3. ASSUME task' = task, run' \in {run, "aborted"},
             \/ UNCHANGED abort
             \/ ab' = "observe" /\ doomed' = current /\ current # 0
      PROVE  IInv'
  <2>1. UNCHANGED <<kanban, process>>
    BY <1>1, <1>3 DEF kanban
  <2>2. CardIsOwned' /\ OnlyOwnersLive' /\ EventsAreTrue'
    BY <2>1, BoardFrame
  <2>3. TypeOK'
    BY <1>1, <1>3 DEF TypeOK, process, store, watchdog, abort
  <2>4. PollHasEvent' /\ TargetIsGone' /\ RowsAreTrue'
    BY <1>1, <1>3 DEF PollHasEvent, TargetIsGone, RowsAreTrue, Gone,
       ReclaimAllowed, process, store, watchdog
  <2>5. DoomedIsGone'
    BY <1>1, <1>3 DEF DoomedIsGone, Gone, process, abort
  <2>6. MarksAreEarned'
    BY <1>1, <1>3 DEF MarksAreEarned, Unmarked, store, watchdog
  <2> QED
    BY <2>2, <2>3, <2>4, <2>5, <2>6
<1>4. WorkerIdentity => current # 0
  BY DEF WorkerIdentity, CardIsOwned
<1> QED
  BY <1>2, <1>3, <1>4 DEF AbortManagedTask

\* The abort asks the Supervisor.
LEMMA AbortObserveKeeps ==
  ASSUME IInv, AbortObserve
  PROVE  IInv'
<1> USE AttemptAssumption DEF IInv
<1>1. PICK confirmed \in BOOLEAN :
        Observe(doomed, confirmed) /\ ab' = IF confirmed THEN "recheck" ELSE "idle"
  BY DEF AbortObserve
<1>2. doomed \in 1..spawned /\ ab = "observe"
      /\ UNCHANGED <<run, store, poll, watchdog, moved, doomed, reclaims, faults>>
  BY DEF AbortObserve, DoomedIsGone, TypeOK
<1>3. /\ events' \in Seq(EventRecords(spawned))
      /\ alive' \subseteq alive
      /\ CardIsOwned' /\ OnlyOwnersLive' /\ EventsAreTrue' /\ PollHasEvent'
      /\ confirmed => Gone(doomed)'
  BY <1>1, <1>2, ObserveKeeps DEF Gone
<1>4. UNCHANGED <<task, current, spawned, left>>
  BY <1>1 DEF Observe
<1>5. TypeOK'
  BY <1>1, <1>2, <1>3, <1>4 DEF TypeOK, EventRecords, store, watchdog
<1>6. DoomedIsGone'
  BY <1>1, <1>2, <1>3 DEF DoomedIsGone
<1>7. TargetIsGone' /\ RowsAreTrue'
  BY <1>2, <1>3, <1>4 DEF TargetIsGone, RowsAreTrue, Gone, ReclaimAllowed, store,
     watchdog
<1>8. MarksAreEarned'
  BY <1>2, <1>4 DEF MarksAreEarned, Unmarked, store, watchdog
<1> QED
  BY <1>3, <1>5, <1>6, <1>7, <1>8

\* The abort takes the card from a worker that is gone.
LEMMA AbortReclaimKeeps ==
  ASSUME IInv, AbortReclaim
  PROVE  IInv'
<1> USE AttemptAssumption DEF IInv
<1>1. /\ ab = "reclaim" /\ doomed \in 1..spawned /\ Gone(doomed)
      /\ UNCHANGED <<run, process, store, moved, reclaims, faults>>
  BY DEF AbortReclaim, DoomedIsGone, TypeOK
<1>2. ASSUME ReclaimAllowed(doomed), Reclaim(doomed, "archived"), ab' = "record",
             UNCHANGED <<poll, watchdog, doomed>>
      PROVE  IInv'
  <2>1. /\ events' \in Seq(EventRecords(spawned))
        /\ CardIsOwned' /\ OnlyOwnersLive' /\ EventsAreTrue' /\ PollHasEvent'
    BY <1>1, <1>2, ReclaimKeeps
  <2>2. TypeOK'
    BY <1>1, <1>2, <2>1 DEF TypeOK, Reclaim, EventRecords, process, store,
       watchdog
  <2>3. TargetIsGone' /\ DoomedIsGone' /\ RowsAreTrue'
    BY <1>1, <1>2 DEF Reclaim, TargetIsGone, DoomedIsGone, RowsAreTrue, Gone,
       process, store, watchdog
  <2>4. Cardinality(recovery) \in Nat /\ reclaims \in Nat
    BY DEF MarksAreEarned, TypeOK
  <2>5. MarksAreEarned'
    BY <1>1, <1>2, <2>4 DEF Reclaim, MarksAreEarned, Unmarked, store, watchdog
  <2> QED
    BY <2>1, <2>2, <2>3, <2>5
<1>3. ASSUME task # "running", task' = "archived", ab' = "record",
             UNCHANGED <<current, spawned, events, poll, watchdog, doomed>>
      PROVE  IInv'
  BY <1>1, <1>3, ArchiveKeeps
<1>4. ASSUME ab' = "idle", UNCHANGED <<kanban, poll, watchdog, doomed>>
      PROVE  IInv'
  <2>1. CardIsOwned' /\ OnlyOwnersLive' /\ EventsAreTrue'
    BY <1>1, <1>4, BoardFrame
  <2>2. TypeOK'
    BY <1>1, <1>4 DEF TypeOK, kanban, process, store, watchdog
  <2>3. PollHasEvent' /\ TargetIsGone' /\ DoomedIsGone' /\ RowsAreTrue'
    BY <1>1, <1>4 DEF PollHasEvent, TargetIsGone, DoomedIsGone, RowsAreTrue,
       Gone, ReclaimAllowed, kanban, process, store, watchdog
  <2>4. MarksAreEarned'
    BY <1>1, <1>4 DEF MarksAreEarned, Unmarked, kanban, store, watchdog
  <2> QED
    BY <2>1, <2>2, <2>3, <2>4
<1> QED
  BY <1>1, <1>2, <1>3, <1>4, FatalKeeps DEF AbortReclaim

\* The abort records the end of the attempt.
LEMMA AbortRecordKeeps ==
  ASSUME IInv, AbortRecord
  PROVE  IInv' /\ Advances
<1> USE AttemptAssumption DEF IInv
<1>1. ab = "record" /\ doomed \in 1..spawned /\ Gone(doomed)
  BY DEF AbortRecord, DoomedIsGone, TypeOK
<1>2. /\ RecordEvent(Event("reclaimed", doomed))
      /\ ab' = "idle"
      /\ UNCHANGED <<run, kanban, process, poll, watchdog, doomed, reclaims,
                     faults>>
  BY DEF AbortRecord
<1>3. Event("reclaimed", doomed) \in EventRecords(spawned)
      /\ EventIsTrue(Event("reclaimed", doomed), alive, left)
  BY <1>1 DEF Event, EventRecords, EventIsTrue, Kinds, Gone
<1>4. /\ row' \in [Attempts -> {"none", "running", "exited"} \cup Terminal]
      /\ runtime' \in [session : 0..spawned, finished : BOOLEAN, count : Nat]
      /\ moved' \in BOOLEAN
      /\ runtime'.count = runtime.count
      /\ recovery' = recovery
      /\ RowsAreTrue'
      /\ Advances
  BY <1>2, <1>3, RecordKeeps DEF kanban
<1>5. TypeOK'
  BY <1>2, <1>4 DEF TypeOK, kanban, process, watchdog
<1>6. CardIsOwned' /\ OnlyOwnersLive' /\ EventsAreTrue'
  BY <1>2, BoardFrame
<1>7. PollHasEvent' /\ TargetIsGone' /\ DoomedIsGone'
  BY <1>1, <1>2 DEF PollHasEvent, TargetIsGone, DoomedIsGone, Gone,
     ReclaimAllowed, kanban, process, watchdog
<1>8. MarksAreEarned'
  BY <1>2, <1>4 DEF MarksAreEarned, Unmarked, kanban, watchdog
<1> QED
  BY <1>4, <1>5, <1>6, <1>7, <1>8

-----------------------------------------------------------------------------
(* Theorems *)

\* Nothing has been dispatched.
LEMMA InitIInv == Init => IInv
<1> SUFFICES ASSUME Init PROVE IInv
  OBVIOUS
<1> USE AttemptAssumption DEF Init
<1>1. TypeOK
  <2>1. events \in Seq([kind : Kinds, run : 1..spawned, tempfail : BOOLEAN])
    OBVIOUS
  <2>2. runtime \in [session : 0..spawned, finished : BOOLEAN, count : Nat]
    OBVIOUS
  <2>3. row \in [Attempts -> {"none", "running", "exited"} \cup Terminal]
    OBVIOUS
  <2>4. moved \in BOOLEAN
    OBVIOUS
  <2> QED
    BY <2>1, <2>2, <2>3, <2>4 DEF TypeOK
<1>2. CardIsOwned /\ OnlyOwnersLive /\ EventsAreTrue /\ PollHasEvent
  BY DEF CardIsOwned, OnlyOwnersLive, EventsAreTrue, PollHasEvent
<1>3. TargetIsGone /\ DoomedIsGone /\ RowsAreTrue
  BY DEF TargetIsGone, DoomedIsGone, RowsAreTrue
<1>4. MarksAreEarned
  BY FS_EmptySet DEF MarksAreEarned, Unmarked
<1> QED
  BY <1>1, <1>2, <1>3, <1>4 DEF IInv

\* Every step keeps the invariant.
LEMMA NextIInv == IInv /\ [Next]_vars => IInv'
<1> SUFFICES ASSUME IInv, [Next]_vars PROVE IInv'
  OBVIOUS
<1>1. CASE Hermes
  BY <1>1, SpawnKeeps, ProgressKeeps, FinishKeeps, ExitKeeps DEF Hermes
<1>2. CASE Poll \/ ReconcileCompletion
  BY <1>2, PollEventKeeps, RecordTempfailKeeps, QuarantineKeeps, SetCursorKeeps,
     CompletionKeeps DEF Poll
<1>3. CASE Watchdog
  BY <1>3, WatchdogReadsKeep, WatchdogObserveKeeps, WatchdogReclaimKeeps,
     WatchdogRereadKeeps, WatchdogRecordKeeps, WatchdogMarkKeeps,
     WatchdogArchiveKeeps, WatchdogExceptionKeeps DEF Watchdog
<1>4. CASE Abort
  BY <1>4, AbortReadsKeep, AbortManagedKeeps, AbortObserveKeeps,
     AbortReclaimKeeps, AbortRecordKeeps DEF Abort
<1>5. CASE Crash
  BY <1>5, CrashKeeps
<1>6. CASE UNCHANGED vars
  <2>1. UNCHANGED <<kanban, process, store, watchdog, abort, run, poll, moved,
                    reclaims, faults>>
    BY <1>6 DEF vars, kanban, process, store, watchdog, abort
  <2>2. TypeOK'
    BY <1>6 DEF vars, IInv, TypeOK
  <2>3. CardIsOwned' /\ OnlyOwnersLive' /\ EventsAreTrue'
    BY <2>1, BoardFrame
  <2>4. PollHasEvent' /\ TargetIsGone' /\ DoomedIsGone' /\ RowsAreTrue'
    BY <1>6 DEF vars, IInv, PollHasEvent, TargetIsGone, DoomedIsGone,
       RowsAreTrue, Gone, ReclaimAllowed
  <2>5. MarksAreEarned'
    BY <1>6 DEF vars, IInv, MarksAreEarned, Unmarked
  <2> QED
    BY <2>2, <2>3, <2>4, <2>5 DEF IInv
<1> QED
  BY <1>1, <1>2, <1>3, <1>4, <1>5, <1>6 DEF Next

\* The invariant holds in every reachable state.
LEMMA Invariance == Spec => []IInv
BY InitIInv, NextIInv, PTL DEF Spec

\* Every reachable state is well formed.
THEOREM TypeCorrect == Spec => []TypeOK
<1>1. IInv => TypeOK
  BY DEF IInv
<1> QED
  BY <1>1, Invariance, PTL

\* No card is taken from a living worker, whatever the order in which Hermes,
\* the watchdog, an abort, the poll loop and crashes act.
THEOREM CardsAreNotTakenFromTheLiving == Spec => []OnlyOwnersLive
<1>1. IInv => OnlyOwnersLive
  BY DEF IInv
<1> QED
  BY <1>1, Invariance, PTL

\* The Supervisor's confirmation is still true when the watchdog or the abort
\* acts on it.
THEOREM ConfirmationsStayTrue == Spec => []ExitIsConfirmed
<1>1. IInv => ExitIsConfirmed
  BY DEF IInv, TargetIsGone, DoomedIsGone, Gone, ExitIsConfirmed
<1> QED
  BY <1>1, Invariance, PTL

\* The redispatch budget of a card is used up by redispatches alone, for any
\* limit.
THEOREM BudgetsAreEarned == Spec => []BudgetIsEarned
<1>1. IInv => BudgetIsEarned
  <2> SUFFICES ASSUME IInv PROVE BudgetIsEarned
    OBVIOUS
  <2>1. /\ Cardinality(recovery) \in Nat /\ reclaims \in Nat
        /\ WorkerRedispatchLimit \in Nat
    BY AttemptAssumption DEF IInv, MarksAreEarned, TypeOK
  <2> QED
    BY <2>1 DEF IInv, MarksAreEarned, BudgetIsEarned
<1> QED
  BY <1>1, Invariance, PTL

\* A step that records no event leaves the timeline alone.
LEMMA TimelineFrame ==
  ASSUME TypeOK, row' = row, runtime'.session = runtime.session,
         runtime'.finished = runtime.finished \/ runtime'.finished = TRUE
  PROVE  Advances
<1>1. runtime.session \in Nat
  BY AttemptAssumption DEF TypeOK
<1> QED
  BY <1>1 DEF Advances

\* No step reopens a finished session, returns to an older one or takes a
\* reclaimed attempt back.
LEMMA StepsAdvance == IInv /\ [Next]_vars => Advances \/ UNCHANGED vars
<1> SUFFICES ASSUME IInv, Next PROVE Advances
  OBVIOUS
<1> USE DEF IInv
<1>1. CASE PollEvent \/ WatchdogRecord \/ AbortRecord
  BY <1>1, PollEventKeeps, WatchdogRecordKeeps, AbortRecordKeeps
<1>2. CASE WatchdogMark
  <2>1. /\ row' = row
        /\ runtime' = [runtime EXCEPT !.count = Cardinality(recovery')]
    BY <1>2 DEF WatchdogMark, IncrementRedispatch
  <2>2. runtime'.session = runtime.session /\ runtime'.finished = runtime.finished
    BY <2>1 DEF TypeOK
  <2> QED
    BY <2>1, <2>2, TimelineFrame
<1>3. CASE ReconcileCompletion
  <2>1. row' = row /\ runtime' = [runtime EXCEPT !.finished = TRUE]
    BY <1>3 DEF ReconcileCompletion
  <2>2. runtime'.session = runtime.session /\ runtime'.finished = TRUE
    BY <2>1 DEF TypeOK
  <2> QED
    BY <2>1, <2>2, TimelineFrame
<1>4. CASE UNCHANGED <<row, runtime>>
  BY <1>4, TimelineFrame
<1>5. CASE Hermes
  BY <1>4, <1>5 DEF Hermes, Spawn, Progress, Finish, Exit, store
<1>6. CASE RecordProviderTempfailExit \/ QuarantineProviderTempfail \/ SetCursor
           \/ Crash
  BY <1>4, <1>6 DEF RecordProviderTempfailExit, QuarantineProviderTempfail,
     SetCursor, Crash, store
<1>7. CASE WatchdogRead \/ WatchdogCheck \/ WatchdogObserve \/ WatchdogRecheck
           \/ WatchdogReclaim \/ WatchdogReread \/ WatchdogArchive
           \/ WatchdogException
  BY <1>4, <1>7 DEF WatchdogRead, WatchdogCheck, WatchdogObserve,
     WatchdogRecheck, WatchdogReclaim, WatchdogReread, WatchdogArchive,
     WatchdogException, store
<1>8. CASE ConfirmAbort \/ AbortManagedTask \/ AbortObserve \/ AbortRecheck
           \/ AbortReclaim
  BY <1>4, <1>8 DEF ConfirmAbort, AbortManagedTask, AbortObserve, AbortRecheck,
     AbortReclaim, store
<1> QED
  BY <1>1, <1>2, <1>3, <1>5, <1>6, <1>7, <1>8 DEF Next, Poll, Watchdog, Abort

\* Late, repeated and reordered events are harmless (record_card_runtime_event).
THEOREM TimelinesAreFinal == Spec => TimelineIsFinal
<1>1. IInv /\ [Next]_vars => [Advances]_vars
  BY StepsAdvance
<1>2. [][Advances]_vars <=> TimelineIsFinal
  BY DEF Advances, TimelineIsFinal
<1> QED
  BY <1>1, <1>2, Invariance, PTL DEF Spec
=============================================================================
