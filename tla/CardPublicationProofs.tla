------------------------ MODULE CardPublicationProofs ------------------------
(***************************************************************************)
(* Proofs about CardPublication, for any number of cards and outages.  The *)
(* invariant has three parts, one for each property: AbortSafe bounds what *)
(* an abort in progress has still to stop, LedgerSafe says what a release  *)
(* in progress knows of its card, and SerialSafe that a card is registered *)
(* when the managed ones have finished and released when it is registered. *)
(***************************************************************************)
EXTENDS CardPublication, FiniteSetTheorems, TLAPS

\* Hermes may dispatch the card, or has.
Dispatchable(c) == board[c] \in {"todo", "running"}

\* The release of a card on hold is under way.
Releasing(c) == rc = "release" /\ c = card /\ board[c] = "blocked"

\* _continue_abort_once reads the cards after the run has left the mutable
\* states, so no release begins after the read: what it did not see is neither
\* dispatched nor about to be.
AbortSafe ==
  /\ ab = "stopping" => state = "aborting"
  /\ ab = "stopping" =>
       \A c \in Cards : Dispatchable(c) \/ Releasing(c) => c \in targets
  /\ state = "aborted" =>
       \A c \in Cards : ~Dispatchable(c) /\ ~Releasing(c)

\* The states of _create_work and _ensure_work_published after the card was
\* registered in the store.
Registered == {"check", "publish", "operate", "release", "record", "verify",
               "cancel"}

\* A card exists before it is registered, is registered before it is released,
\* and is released before the ledger says so.
LedgerSafe ==
  /\ \A c \in managed : board[c] # "none"
  /\ \A c \in Cards : Dispatchable(c) => c \in managed
  /\ rc = "register" => board[card] # "none"
  /\ rc \in Registered => card \in managed
  /\ rc = "record" => board[card] \notin {"none", "blocked"}
  /\ targets \subseteq managed
  /\ LedgerIsTrue

\* The last managed card is one of them.
LatestIsManaged == managed # {} => latest \in managed

\* The types, with what the key of a new card needs.
Typed == TypeOK /\ IsFiniteSet(managed) /\ LatestIsManaged

\* A card is created and registered while the managed ones have finished; until
\* then it is on hold.  That it has a key of its own is not needed.
SerialSafe ==
  /\ rc \in {"create", "register"} => NoActiveWork
  /\ SerialWork

IInv == Typed /\ AbortSafe /\ LedgerSafe /\ SerialSafe

-----------------------------------------------------------------------------
(* Type correctness *)

\* The value of created outside _create_work.
LEMMA FalseIsBoolean == \A b : b = FALSE => b \in BOOLEAN
BY Zenon

\* The key of a new card is within the bound on the cards.
LEMMA KeyIsCard ==
  ASSUME TypeOK, IsFiniteSet(managed), Cardinality(managed) < MaxCards,
         NEW r, r.stage \in {"write", "review"},
         r.mode \in {"normal", "finalization"}
  PROVE  Key(r) \in Cards
<1> DEFINE S == {c \in managed : c.stage = r.stage}
<1>1. IsFiniteSet(S) /\ Cardinality(S) <= Cardinality(managed)
  BY FS_Subset
<1>2. Cardinality(S) \in Nat /\ Cardinality(managed) \in Nat
  BY <1>1, FS_CardinalityType
<1>3. Cardinality(S) + 1 \in 1..MaxCards
  BY <1>1, <1>2, CardAssumption
<1> HIDE DEF S
<1>4. [stage |-> r.stage, mode |-> r.mode, iteration |-> Cardinality(S) + 1] \in Cards
  BY <1>3 DEF Cards
<1> QED
  BY <1>4 DEF S, Key

\* PrepareWork picks a card and goes on to create it.
LEMMA PrepareTyped ==
  ASSUME TypeOK, IsFiniteSet(managed), NEW r, r.stage \in {"write", "review"},
         r.mode \in {"normal", "finalization"}, NEW now \in Nat,
         PrepareWork(r, now)
  PROVE  card' \in Cards /\ rc' = "create" /\ seen' \in Nat
<1>1. Key(r) \in Cards
  BY KeyIsCard DEF PrepareWork
<1> QED
  BY <1>1 DEF PrepareWork

\* The first state is typed.
LEMMA InitTyped ==
  ASSUME Init
  PROVE  Typed
<1>1. IsFiniteSet(managed) /\ LatestIsManaged
  BY FS_EmptySet DEF Init, LatestIsManaged
<1>2. TypeOK
  BY CardAssumption, FalseIsBoolean
  DEF Init, TypeOK, Routes, MutableStates, AbortStates, ACTIVE_STATUSES
<1> QED
  BY <1>1, <1>2 DEF Typed

\* The reconcile that ends, or goes on, is well typed.
LEMMA LeaveTyped ==
  ASSUME Leave
  PROVE  /\ rc' = "idle" /\ card' \in Cards \cup {NoCard} /\ seen' \in Nat
         /\ created' \in BOOLEAN /\ expect' \in Nat
BY FalseIsBoolean DEF Leave

\* recover leaves the reconciler idle, or creating a card.
LEMMA RecoverTyped ==
  ASSUME Typed, Recover
  PROVE  /\ (rc' = "create" /\ card' \in Cards) \/ UNCHANGED <<rc, card>>
         /\ seen' \in Nat
<1> USE DEF Typed
<1>1. CASE UNCHANGED <<context, card, rc, seen>>
  BY <1>1 DEF TypeOK
<1>2. ASSUME managed # {}, NEW s \in {latest.stage, "write"},
             PrepareWork([stage |-> s, mode |-> latest.mode], context + 1)
      PROVE  rc' = "create" /\ card' \in Cards /\ seen' \in Nat
  <2>1. latest \in Cards
    BY <1>2 DEF LatestIsManaged, TypeOK
  <2>2. s \in {"write", "review"} /\ latest.mode \in {"normal", "finalization"}
    BY <1>2, <2>1 DEF Cards
  <2>3. context + 1 \in Nat
    BY DEF TypeOK
  <2> QED
    BY <1>2, <2>2, <2>3, PrepareTyped
<1> QED
  BY <1>1, <1>2 DEF Recover

\* Every step keeps the types.
LEMMA NextTyped ==
  ASSUME Typed, [Next]_vars
  PROVE  Typed'
<1> USE CardAssumption
        DEF Typed, LatestIsManaged, TypeOK, MutableStates, AbortStates, ACTIVE_STATUSES, run, work,
            store, kanban, reconciler, abort
<1>1. CASE ReconcileRun
  <2>1. route.stage \in {"write", "review"} /\ route.mode \in {"normal", "finalization"}
    BY DEF Routes
  <2>2. card' \in Cards /\ rc' \in {"publish", "create"} /\ seen' \in Nat
    BY <1>1, <2>1, PrepareTyped DEF ReconcileRun
  <2> QED
    BY <1>1, <2>2, FalseIsBoolean DEF ReconcileRun
<1>2. CASE CreateWork
  BY <1>2, LeaveTyped DEF CreateWork, RecordRunException, Goto
<1>3. CASE AddManagedCard
  <2>1. IsFiniteSet(managed')
    BY <1>3, FS_AddElement DEF AddManagedCard
  <2> QED
    BY <1>3, <2>1 DEF AddManagedCard
<1>4. CASE CheckAfterRegister
  BY <1>4 DEF CheckAfterRegister, Goto
<1>5. CASE EnsureWorkPublished
  BY <1>5, LeaveTyped DEF EnsureWorkPublished, Superseded, Goto
<1>6. CASE BeginOperation
  BY <1>6, LeaveTyped DEF BeginOperation, Superseded, Goto
<1>7. CASE Release
  BY <1>7, LeaveTyped DEF Release, Goto
<1>8. CASE FinishOperation
  BY <1>8 DEF FinishOperation, Goto
<1>9. CASE VerifyOperation
  BY <1>9, LeaveTyped DEF VerifyOperation, Superseded, Goto
<1>10. CASE CancelWork
  BY <1>10, LeaveTyped DEF CancelWork
<1>11. CASE ConfirmAbort
  BY <1>11 DEF ConfirmAbort
<1>12. CASE BeginAbort
  <2>1. targets' \subseteq Cards
    BY <1>12 DEF BeginAbort, AbortTargets
  <2> QED
    BY <1>12, <2>1 DEF BeginAbort
<1>13. CASE AbortWaits
  BY <1>13 DEF AbortWaits
<1>14. CASE FinishAbort
  BY <1>14 DEF FinishAbort
<1>15. CASE \E c \in Cards : AbortManagedTask(c)
  BY <1>15 DEF AbortManagedTask
<1>16. CASE DependencyStep \/ RunFails \/ Push
  BY <1>16 DEF DependencyStep, RunFails, Push
<1>17. CASE \E c \in Cards : Dispatch(c) \/ WorkerCompletes(c)
  BY <1>17 DEF Dispatch, WorkerCompletes
<1>18. CASE Crash
  BY <1>18, LeaveTyped DEF Crash
<1>19. CASE UNCHANGED vars
  BY <1>19 DEF vars
<1>20. CASE Recover
  <2>1. context' \in Nat
    BY <1>20 DEF Recover
  <2>2. created' \in BOOLEAN /\ state' \in MutableStates /\ version' \in Nat
    BY <1>20, FalseIsBoolean DEF Recover
  <2>3. UNCHANGED <<route, kanban, expect, abort>>
    BY <1>20 DEF Recover
  <2> QED
    BY <1>20, <2>1, <2>2, <2>3, RecoverTyped
<1> QED
  BY <1>1, <1>2, <1>3, <1>4, <1>5, <1>6, <1>7, <1>8, <1>9, <1>10, <1>11,
     <1>12, <1>13, <1>14, <1>15, <1>16, <1>17, <1>18, <1>19, <1>20
  DEF Next, ReconcilerStep, AbortStep

\* The variables of the run, of Kanban, of the reconciler and of the abort keep
\* the types of store.py and kanban.py.
THEOREM TypeCorrect == Spec => []TypeOK
<1>1. Typed => TypeOK
  BY DEF Typed
<1> QED
  BY <1>1, InitTyped, NextTyped, PTL DEF Spec

-----------------------------------------------------------------------------
(* The invariant *)

\* A release begins only while the run is mutable, and an abort has read the
\* cards only when it no longer is.
LEMMA NextAbortSafe ==
  ASSUME IInv, [Next]_vars
  PROVE  AbortSafe'
<1> USE DEF IInv, Typed, TypeOK, AbortSafe, Dispatchable, Releasing, LedgerSafe,
            MutableStates, AbortStates, ACTIVE_STATUSES, AssertReconcileMutable,
            VersionUnchanged, run, work, store, kanban, reconciler, abort,
            Goto, Leave, Superseded
<1>1. CASE ReconcileRun
  BY <1>1 DEF ReconcileRun, PrepareWork
<1>2. CASE CreateWork
  BY <1>2 DEF CreateWork, RecordRunException
<1>3. CASE AddManagedCard
  BY <1>3 DEF AddManagedCard
<1>4. CASE CheckAfterRegister
  BY <1>4 DEF CheckAfterRegister
<1>5. CASE EnsureWorkPublished
  BY <1>5 DEF EnsureWorkPublished
<1>6. CASE BeginOperation
  BY <1>6 DEF BeginOperation
<1>7. CASE Release
  BY <1>7 DEF Release
<1>8. CASE FinishOperation
  BY <1>8 DEF FinishOperation
<1>9. CASE VerifyOperation
  BY <1>9 DEF VerifyOperation
<1>10. CASE CancelWork
  BY <1>10 DEF CancelWork
<1>11. CASE ConfirmAbort
  BY <1>11 DEF ConfirmAbort
<1>12. CASE BeginAbort
  BY <1>12 DEF BeginAbort, AbortTargets, Registered
<1>13. CASE AbortWaits
  BY <1>13 DEF AbortWaits
<1>14. CASE FinishAbort
  BY <1>14 DEF FinishAbort
<1>15. CASE \E c \in Cards : AbortManagedTask(c)
  BY <1>15 DEF AbortManagedTask
<1>16. CASE DependencyStep \/ RunFails \/ Push
  BY <1>16 DEF DependencyStep, RunFails, Push
<1>17. CASE \E c \in Cards : Dispatch(c) \/ WorkerCompletes(c)
  BY <1>17 DEF Dispatch, WorkerCompletes
<1>18. CASE Crash
  BY <1>18 DEF Crash
<1>19. CASE UNCHANGED vars
  BY <1>19 DEF vars
<1>20. CASE Recover
  BY <1>20 DEF Recover, PrepareWork
<1> QED
  BY <1>1, <1>2, <1>3, <1>4, <1>5, <1>6, <1>7, <1>8, <1>9, <1>10, <1>11,
     <1>12, <1>13, <1>14, <1>15, <1>16, <1>17, <1>18, <1>19, <1>20
  DEF Next, ReconcilerStep, AbortStep

\* Nothing puts a card back on hold.
LEMMA NextLedgerSafe ==
  ASSUME IInv, [Next]_vars
  PROVE  LedgerSafe'
<1> USE DEF IInv, Typed, TypeOK, LedgerSafe, LedgerIsTrue, Dispatchable,
            Registered, ACTIVE_STATUSES, run, work, store, kanban, reconciler,
            abort, Goto, Leave, Superseded
<1>1. CASE ReconcileRun
  BY <1>1 DEF ReconcileRun, PrepareWork
<1>2. CASE CreateWork
  BY <1>2 DEF CreateWork, RecordRunException
<1>3. CASE AddManagedCard
  BY <1>3 DEF AddManagedCard
<1>4. CASE CheckAfterRegister
  BY <1>4 DEF CheckAfterRegister
<1>5. CASE EnsureWorkPublished
  BY <1>5 DEF EnsureWorkPublished
<1>6. CASE BeginOperation
  BY <1>6 DEF BeginOperation
<1>7. CASE Release
  BY <1>7 DEF Release
<1>8. CASE FinishOperation
  BY <1>8 DEF FinishOperation
<1>9. CASE VerifyOperation
  BY <1>9 DEF VerifyOperation
<1>10. CASE CancelWork
  BY <1>10 DEF CancelWork
<1>11. CASE ConfirmAbort
  BY <1>11 DEF ConfirmAbort
<1>12. CASE BeginAbort
  BY <1>12 DEF BeginAbort, AbortTargets
<1>13. CASE AbortWaits
  BY <1>13 DEF AbortWaits
<1>14. CASE FinishAbort
  BY <1>14 DEF FinishAbort
<1>15. CASE \E c \in Cards : AbortManagedTask(c)
  BY <1>15 DEF AbortManagedTask
<1>16. CASE DependencyStep \/ RunFails \/ Push
  BY <1>16 DEF DependencyStep, RunFails, Push
<1>17. CASE \E c \in Cards : Dispatch(c) \/ WorkerCompletes(c)
  BY <1>17 DEF Dispatch, WorkerCompletes
<1>18. CASE Crash
  BY <1>18 DEF Crash
<1>19. CASE UNCHANGED vars
  BY <1>19 DEF vars
<1>20. CASE Recover
  BY <1>20 DEF Recover, PrepareWork
<1> QED
  BY <1>1, <1>2, <1>3, <1>4, <1>5, <1>6, <1>7, <1>8, <1>9, <1>10, <1>11,
     <1>12, <1>13, <1>14, <1>15, <1>16, <1>17, <1>18, <1>19, <1>20
  DEF Next, ReconcilerStep, AbortStep

\* A managed card becomes active only by being registered.
LEMMA NextSerialSafe ==
  ASSUME IInv, [Next]_vars
  PROVE  SerialSafe'
<1> USE DEF IInv, Typed, TypeOK, LedgerSafe, Dispatchable, Registered, SerialSafe,
            SerialWork, NoActiveWork, ACTIVE_STATUSES, run, work, store, kanban,
            reconciler, abort, Goto, Leave, Superseded
<1>1. CASE ReconcileRun
  BY <1>1 DEF ReconcileRun, PrepareWork
<1>2. CASE CreateWork
  BY <1>2 DEF CreateWork, RecordRunException
<1>3. CASE AddManagedCard
  BY <1>3 DEF AddManagedCard
<1>4. CASE CheckAfterRegister
  BY <1>4 DEF CheckAfterRegister
<1>5. CASE EnsureWorkPublished
  BY <1>5 DEF EnsureWorkPublished
<1>6. CASE BeginOperation
  BY <1>6 DEF BeginOperation
<1>7. CASE Release
  BY <1>7 DEF Release
<1>8. CASE FinishOperation
  BY <1>8 DEF FinishOperation
<1>9. CASE VerifyOperation
  BY <1>9 DEF VerifyOperation
<1>10. CASE CancelWork
  BY <1>10 DEF CancelWork
<1>11. CASE ConfirmAbort
  BY <1>11 DEF ConfirmAbort
<1>12. CASE BeginAbort
  BY <1>12 DEF BeginAbort, AbortTargets
<1>13. CASE AbortWaits
  BY <1>13 DEF AbortWaits
<1>14. CASE FinishAbort
  BY <1>14 DEF FinishAbort
<1>15. CASE \E c \in Cards : AbortManagedTask(c)
  <2>1. /\ UNCHANGED <<managed, rc, card>>
        /\ \A c \in Cards : board'[c] \in {board[c], "archived"}
    BY <1>15 DEF AbortManagedTask
  <2>2. \A c \in Cards \ managed : board'[c] = board[c]
    BY <1>15 DEF AbortManagedTask
  <2> QED
    BY <2>1, <2>2
<1>16. CASE DependencyStep \/ RunFails \/ Push
  BY <1>16 DEF DependencyStep, RunFails, Push
<1>17. CASE \E c \in Cards : Dispatch(c) \/ WorkerCompletes(c)
  BY <1>17 DEF Dispatch, WorkerCompletes
<1>18. CASE Crash
  BY <1>18 DEF Crash
<1>19. CASE UNCHANGED vars
  BY <1>19 DEF vars
<1>20. CASE Recover
  BY <1>20 DEF Recover, PrepareWork
<1> QED
  BY <1>1, <1>2, <1>3, <1>4, <1>5, <1>6, <1>7, <1>8, <1>9, <1>10, <1>11,
     <1>12, <1>13, <1>14, <1>15, <1>16, <1>17, <1>18, <1>19, <1>20
  DEF Next, ReconcilerStep, AbortStep

\* Only reachable rows matter: the invariant holds at first.
LEMMA InitSafe ==
  ASSUME Init
  PROVE  IInv
<1>1. AbortSafe
  BY DEF Init, AbortSafe, Dispatchable, Releasing
<1>2. LedgerSafe
  BY DEF Init, LedgerSafe, LedgerIsTrue, Dispatchable, Registered
<1>3. SerialSafe
  BY DEF Init, SerialSafe, SerialWork
<1> QED
  BY <1>1, <1>2, <1>3, InitTyped DEF IInv

\* What the invariant says holds for ever.
THEOREM Invariance == Spec => []IInv
<1>1. ASSUME IInv, [Next]_vars PROVE IInv'
  BY <1>1, NextTyped, NextAbortSafe, NextLedgerSafe, NextSerialSafe DEF IInv
<1> QED
  BY <1>1, InitSafe, PTL DEF Spec

\* An aborted run has no card left that Hermes could dispatch, whatever the
\* reconcile that began before the abort still does (_continue_abort_once).
THEOREM AbortsAreQuiet == Spec => []AbortedIsQuiet
<1>1. IInv => AbortedIsQuiet
  BY DEF IInv, AbortSafe, AbortedIsQuiet, Dispatchable
<1> QED
  BY <1>1, Invariance, PTL

\* Of the managed cards one is live at a time, and a card that was created and
\* not registered stays on hold, whatever crash interrupted _create_work and
\* whatever was pushed since.
THEOREM WorkIsSerial == Spec => []SerialWork
<1>1. IInv => SerialWork
  BY DEF IInv, SerialSafe
<1> QED
  BY <1>1, Invariance, PTL

\* The operations ledger calls done only what was done (_operation,
\* finish_operation).
THEOREM LedgerTellsTheTruth == Spec => []LedgerIsTrue
<1>1. IInv => LedgerIsTrue
  BY DEF IInv, LedgerSafe
<1> QED
  BY <1>1, Invariance, PTL
=============================================================================
