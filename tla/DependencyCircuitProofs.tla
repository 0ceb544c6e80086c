------------------------ MODULE DependencyCircuitProofs ------------------------
(***************************************************************************)
(* Proofs about DependencyCircuit, for any set of runs, any threshold and  *)
(* any number of failed calls and crashes.                                 *)
(***************************************************************************)
EXTENDS DependencyCircuit, FiniteSetTheorems, TLAPS

\* The threads that will open an outage, and those that may open the global one
\* after their own.
Opening == {t \in Threads : job[t].pc \in {"select", "upsert"}}

Scoped == {t \in Threads : /\ job[t].pc \in {"select", "upsert", "associate",
                                             "corroborate"}
                           /\ job[t].scope # Global}

\* Each failed call opens two outages at most: the ids do not run out.
IdsAreBudgeted ==
  /\ IsFiniteSet(Opening) /\ IsFiniteSet(Scoped)
  /\ ids + Cardinality(Opening) + Cardinality(Scoped) <= 2 * failures

\* The outages of the runs have no members but the runs that had an error.
MembersAreStruck ==
  /\ IsFiniteSet(struck)
  /\ \A r \in Runs, i \in Ids : members[r][i] \subseteq struck
  /\ \A t \in Threads :
       job[t].pc \in {"select", "upsert", "associate"} /\ job[t].scope # Global
         => job[t].todo \subseteq struck

\* A worker opens the global circuit for a timeout only when enough runs had one.
OpeningIsEarned ==
  \A t \in Runs :
    (/\ job[t].pc \in {"select", "upsert"}
     /\ job[t].scope = Global
     /\ job[t].kind = "transient") => Cardinality(struck) >= Threshold

\* The sweep finds the circuit it probes open, and it works on no other scope.
SweepIsGlobal ==
  /\ job[Sweep].scope = Global
  /\ job[Sweep].pc \in {"probe", "select", "upsert"} => outage[Global].open

\* Only the outage of a run is corroborated.
CorroborateIsScoped ==
  \A t \in Threads : job[t].pc = "corroborate" => job[t].scope # Global

\* What a thread knows, and a row of dependency_outages.
Jobs == [pc : Places, scope : Scopes, seen : Ids, kind : Classes,
         todo : SUBSET Runs, run : Scopes, up : BOOLEAN, fresh : BOOLEAN]

Rows == [open : BOOLEAN, id : Ids, due : BOOLEAN, half : BOOLEAN, class : Classes]

IInv ==
  /\ TypeOK /\ IdsAreBudgeted /\ MembersAreStruck /\ OpeningIsEarned
  /\ SweepIsGlobal /\ CorroborateIsScoped

-----------------------------------------------------------------------------
(* Counting the outages to come *)

\* The outages a thread with job j may still open.
Weight(j) ==
  (IF j.pc \in {"select", "upsert"} THEN 1 ELSE 0)
  + (IF /\ j.pc \in {"select", "upsert", "associate", "corroborate"}
        /\ j.scope # Global THEN 1 ELSE 0)

\* One element more or less in a finite set.
LEMMA OneMoreOrLess ==
  ASSUME NEW S, NEW T, NEW x, IsFiniteSet(S), T \ {x} = S \ {x}
  PROVE  /\ IsFiniteSet(T)
         /\ Cardinality(S) \in Nat /\ Cardinality(T) \in Nat
         /\ Cardinality(T) = Cardinality(S) + (IF x \in T THEN 1 ELSE 0)
                                            - (IF x \in S THEN 1 ELSE 0)
<1>1. IsFiniteSet(S \ {x}) /\ Cardinality(S \ {x}) \in Nat
      /\ Cardinality(S) \in Nat
      /\ Cardinality(S \ {x}) = IF x \in S THEN Cardinality(S) - 1
                                           ELSE Cardinality(S)
  BY FS_RemoveElement, FS_CardinalityType
<1>2. T = IF x \in T THEN (S \ {x}) \cup {x} ELSE S \ {x}
  OBVIOUS
<1>3. CASE x \in T
  <2>1. /\ IsFiniteSet((S \ {x}) \cup {x})
        /\ Cardinality((S \ {x}) \cup {x}) = Cardinality(S \ {x}) + 1
    BY <1>1, FS_AddElement
  <2>2. IsFiniteSet(T) /\ Cardinality(T) = Cardinality(S \ {x}) + 1
    BY <1>2, <1>3, <2>1
  <2> QED
    BY <1>1, <1>3, <2>2
<1>4. CASE x \notin T
  <2>1. T = S \ {x}
    BY <1>2, <1>4
  <2> QED
    BY <1>1, <1>4, <2>1
<1> QED
  BY <1>3, <1>4

\* A step of one thread that pays for the outages it may open.
LEMMA BudgetKept ==
  ASSUME IInv, NEW t \in Threads,
         \A u \in Threads : u # t => /\ job'[u].pc = job[u].pc
                                     /\ job'[u].scope = job[u].scope,
         ids' \in Nat, failures' \in 0..MaxFailures,
         ids' + Weight(job'[t]) + 2 * failures
           <= ids + Weight(job[t]) + 2 * failures'
  PROVE  IdsAreBudgeted' /\ ids' \in Ids
<1> USE CircuitAssumption DEF IInv
<1>1. Opening' \ {t} = Opening \ {t} /\ Scoped' \ {t} = Scoped \ {t}
  BY DEF Opening, Scoped
<1>2. IsFiniteSet(Opening) /\ IsFiniteSet(Scoped)
  BY DEF IdsAreBudgeted
<1>3. /\ IsFiniteSet(Opening')
      /\ Cardinality(Opening) \in Nat /\ Cardinality(Opening') \in Nat
      /\ Cardinality(Opening') = Cardinality(Opening)
           + (IF t \in Opening' THEN 1 ELSE 0) - (IF t \in Opening THEN 1 ELSE 0)
  BY <1>1, <1>2, OneMoreOrLess
<1>4. /\ IsFiniteSet(Scoped')
      /\ Cardinality(Scoped) \in Nat /\ Cardinality(Scoped') \in Nat
      /\ Cardinality(Scoped') = Cardinality(Scoped)
           + (IF t \in Scoped' THEN 1 ELSE 0) - (IF t \in Scoped THEN 1 ELSE 0)
  BY <1>1, <1>2, OneMoreOrLess
<1>5. /\ Weight(job[t]) = (IF t \in Opening THEN 1 ELSE 0)
                          + (IF t \in Scoped THEN 1 ELSE 0)
      /\ Weight(job'[t]) = (IF t \in Opening' THEN 1 ELSE 0)
                           + (IF t \in Scoped' THEN 1 ELSE 0)
  BY DEF Weight, Opening, Scoped
<1>6. ids \in Nat /\ failures \in Nat /\ failures' \in Nat /\ failures' <= MaxFailures
  BY DEF TypeOK, Ids
<1>7. ids + Cardinality(Opening) + Cardinality(Scoped) <= 2 * failures
  BY DEF IdsAreBudgeted
<1>8. ids' + Cardinality(Opening') + Cardinality(Scoped') <= 2 * failures'
  <2>1. Weight(job[t]) \in Nat /\ Weight(job'[t]) \in Nat
    BY DEF Weight
  <2>2. Cardinality(Opening') + Cardinality(Scoped') + Weight(job[t])
          = Cardinality(Opening) + Cardinality(Scoped) + Weight(job'[t])
    BY <1>3, <1>4, <1>5
  <2> HIDE DEF Weight, Opening, Scoped
  <2> QED
    BY <1>3, <1>4, <1>6, <1>7, <2>1, <2>2
<1>9. ids' \in Ids
  BY <1>3, <1>4, <1>6, <1>8 DEF Ids
<1> QED
  BY <1>3, <1>4, <1>8, <1>9 DEF IdsAreBudgeted

-----------------------------------------------------------------------------
(* Steps *)

\* The invariant holds at first.
LEMMA InitIInv == Init => IInv
<1> SUFFICES ASSUME Init PROVE IInv
  OBVIOUS
<1> USE CircuitAssumption DEF Init
<1>1. 0 \in Ids /\ ids = 0 /\ failures = 0 /\ faults = 0
  BY DEF Ids
<1>2. Idle \in Jobs /\ Closed \in Rows
  BY <1>1 DEF Idle, Closed, Jobs, Rows, Places, Classes, Scopes
<1>3. job \in [Threads -> Jobs] /\ outage \in [Scopes -> Rows]
  BY <1>2
<1>4. TypeOK
  BY <1>1, <1>3 DEF TypeOK, Jobs, Rows
<1>5. Opening = {} /\ Scoped = {}
  BY DEF Opening, Scoped, Idle
<1>6. IdsAreBudgeted
  BY <1>1, <1>5, FS_EmptySet DEF IdsAreBudgeted
<1>7. MembersAreStruck
  BY FS_EmptySet DEF MembersAreStruck, Idle, Scopes
<1>8. OpeningIsEarned /\ SweepIsGlobal /\ CorroborateIsScoped
  BY DEF OpeningIsEarned, SweepIsGlobal, CorroborateIsScoped, Idle, Threads
<1> QED
  BY <1>4, <1>6, <1>7, <1>8 DEF IInv

\* The parts of TypeOK, with the names used here.
LEMMA Typed ==
  IInv => /\ job \in [Threads -> Jobs] /\ outage \in [Scopes -> Rows]
          /\ members \in [Scopes -> [Ids -> SUBSET Runs]]
          /\ Idle \in Jobs /\ Closed \in Rows /\ 0 \in Ids
          /\ Sweep \in Threads /\ Global \in Scopes
<1> SUFFICES ASSUME IInv PROVE /\ job \in [Threads -> Jobs] /\ outage \in [Scopes -> Rows]
          /\ members \in [Scopes -> [Ids -> SUBSET Runs]]
          /\ Idle \in Jobs /\ Closed \in Rows /\ 0 \in Ids
          /\ Sweep \in Threads /\ Global \in Scopes
  OBVIOUS
<1>1. 0 \in Ids
  BY CircuitAssumption DEF Ids
<1>2. Idle \in Jobs /\ Closed \in Rows
  BY <1>1 DEF Idle, Closed, Jobs, Rows, Places, Classes, Scopes
<1>3. Sweep \in Threads /\ Global \in Scopes
  BY DEF Threads, Scopes
<1> QED
  BY <1>1, <1>2, <1>3 DEF IInv, TypeOK, Jobs, Rows

\* A step of one thread, the others keeping what they do.
LEMMA StepKeeps ==
  ASSUME IInv, NEW t \in Threads, job' \in [Threads -> Jobs],
         \A u \in Threads : u # t => /\ job'[u].pc = job[u].pc
                                     /\ job'[u].scope = job[u].scope
                                     /\ job'[u].kind = job[u].kind
                                     /\ job'[u].todo = job[u].todo,
         state' \in [Runs -> {"active", "dependency_degraded", "exception"}],
         outage' \in [Scopes -> Rows],
         members' \in [Scopes -> [Ids -> SUBSET Runs]],
         UNCHANGED faults,
         ids' \in Nat, failures' \in 0..MaxFailures,
         ids' + Weight(job'[t]) + 2 * failures
           <= ids + Weight(job[t]) + 2 * failures',
         struck' = struck \/ (t \in Runs /\ struck' = struck \cup {t}),
         \A r \in Runs, i \in Ids : members'[r][i] \subseteq struck',
         (job'[t].pc \in {"select", "upsert", "associate"}
            /\ job'[t].scope # Global) => job'[t].todo \subseteq struck',
         (job'[t].pc \in {"select", "upsert"} /\ job'[t].scope = Global
            /\ job'[t].kind = "transient" /\ t # Sweep)
           => Cardinality(struck) >= Threshold,
         t = Sweep => job'[t].scope = Global,
         job'[Sweep].pc \in {"probe", "select", "upsert"} => outage'[Global].open,
         job'[t].pc = "corroborate" => job'[t].scope # Global
  PROVE  IInv'
<1> USE CircuitAssumption DEF IInv
<1>1. IdsAreBudgeted' /\ ids' \in Ids
  BY BudgetKept
<1>2. TypeOK'
  <2>1. struck' \subseteq Runs /\ faults' \in 0..MaxFaults
    BY DEF TypeOK
  <2> QED
    BY <1>1, <2>1 DEF TypeOK, Jobs, Rows
<1>3. struck \subseteq struck' /\ IsFiniteSet(struck')
      /\ Cardinality(struck) \in Nat /\ Cardinality(struck') \in Nat
      /\ Cardinality(struck) <= Cardinality(struck')
  <2>1. IsFiniteSet(struck)
    BY DEF MembersAreStruck
  <2>2. IsFiniteSet(struck') /\ struck \subseteq struck'
    BY <2>1, FS_AddElement
  <2> QED
    BY <2>1, <2>2, FS_Subset, FS_CardinalityType
<1>4. MembersAreStruck'
  <2>1. ASSUME NEW u \in Threads, u # t,
               job'[u].pc \in {"select", "upsert", "associate"},
               job'[u].scope # Global
        PROVE  job'[u].todo \subseteq struck'
    BY <2>1, <1>3 DEF MembersAreStruck
  <2> QED
    BY <1>3, <2>1 DEF MembersAreStruck
<1>5. OpeningIsEarned'
  <2>1. ASSUME NEW u \in Runs, job'[u].pc \in {"select", "upsert"},
               job'[u].scope = Global, job'[u].kind = "transient"
        PROVE  Cardinality(struck') >= Threshold
    <3>1. u \in Threads /\ u # Sweep
      BY DEF Threads
    <3>2. Cardinality(struck) >= Threshold
      <4>1. CASE u = t
        BY <2>1, <3>1, <4>1
      <4>2. CASE u # t
        BY <2>1, <3>1, <4>2 DEF OpeningIsEarned
      <4> QED
        BY <4>1, <4>2
    <3> QED
      BY <1>3, <3>2
  <2> QED
    BY <2>1 DEF OpeningIsEarned
<1>6. SweepIsGlobal'
  BY DEF SweepIsGlobal, Threads
<1>7. CorroborateIsScoped'
  BY DEF CorroborateIsScoped
<1> QED
  BY <1>1, <1>2, <1>4, <1>5, <1>6, <1>7

\* The places of a thread that is about to open no outage.
Calm == {"idle", "degrade", "degrading", "recover", "finish", "finishing"}

\* A step to such a place.
LEMMA CalmStepKeeps ==
  ASSUME IInv, NEW t \in Threads, job' \in [Threads -> Jobs],
         \A u \in Threads : u # t => /\ job'[u].pc = job[u].pc
                                     /\ job'[u].scope = job[u].scope
                                     /\ job'[u].kind = job[u].kind
                                     /\ job'[u].todo = job[u].todo,
         job'[t].pc \in Calm, t = Sweep => job'[t].scope = Global,
         state' \in [Runs -> {"active", "dependency_degraded", "exception"}],
         outage' \in [Scopes -> Rows],
         t = Sweep \/ outage'[Global].open = outage[Global].open,
         failures' \in {failures, failures + 1}, failures' \in 0..MaxFailures,
         UNCHANGED <<members, ids, struck, faults>>
  PROVE  IInv'
<1> USE CircuitAssumption DEF IInv
<1>1. ids \in Nat /\ failures \in Nat
  BY DEF TypeOK, Ids
<1>2. Weight(job'[t]) = 0 /\ Weight(job[t]) \in Nat
  BY DEF Weight, Calm
<1>3. ids' + Weight(job'[t]) + 2 * failures <= ids + Weight(job[t]) + 2 * failures'
  <2> HIDE DEF Weight
  <2>1. ids' = ids
    OBVIOUS
  <2>2. failures' \in Nat /\ failures <= failures'
    BY <1>1
  <2> QED
    BY <1>1, <1>2, <2>1, <2>2
<1>4. job'[Sweep].pc \in {"probe", "select", "upsert"} => outage'[Global].open
  BY DEF SweepIsGlobal, Threads, Calm
<1>5. /\ job'[t].pc \notin {"select", "upsert", "associate"}
      /\ job'[t].pc # "corroborate"
  BY DEF Calm
<1>6. \A r \in Runs, i \in Ids : members'[r][i] \subseteq struck'
  BY DEF MembersAreStruck
<1>7. members' \in [Scopes -> [Ids -> SUBSET Runs]] /\ ids' \in Nat
  BY <1>1 DEF TypeOK
<1> QED
  BY <1>3, <1>4, <1>5, <1>6, <1>7, StepKeeps

\* A process that ends forgets what its threads were doing.
LEMMA ForgetKeeps ==
  ASSUME IInv, Forget, UNCHANGED <<state, outage, members, ids, struck, failures>>,
         faults' \in 0..MaxFaults
  PROVE  IInv'
<1> USE DEF IInv, Forget
<1>1. job' \in [Threads -> Jobs]
  BY Typed
<1>2. TypeOK'
  BY <1>1 DEF TypeOK, Jobs
<1>3. \A t \in Threads : job'[t].pc = "idle" /\ job'[t].scope = Global
  BY DEF Idle
<1>4. Opening' = {} /\ Scoped' = {}
  BY <1>3 DEF Opening, Scoped
<1>5. IdsAreBudgeted'
  <2>1. ids \in Nat /\ failures \in Nat
    BY CircuitAssumption DEF TypeOK, Ids
  <2>2. /\ Cardinality(Opening) \in Nat /\ Cardinality(Scoped) \in Nat
        /\ ids + Cardinality(Opening) + Cardinality(Scoped) <= 2 * failures
    BY FS_CardinalityType DEF IdsAreBudgeted
  <2>3. ids <= 2 * failures
    BY <2>1, <2>2
  <2>4. /\ IsFiniteSet(Opening') /\ Cardinality(Opening') = 0
        /\ IsFiniteSet(Scoped') /\ Cardinality(Scoped') = 0
    BY <1>4, FS_EmptySet
  <2> QED
    BY <2>1, <2>3, <2>4 DEF IdsAreBudgeted
<1>6. MembersAreStruck' /\ OpeningIsEarned' /\ SweepIsGlobal' /\ CorroborateIsScoped'
  BY <1>3 DEF MembersAreStruck, OpeningIsEarned, SweepIsGlobal, CorroborateIsScoped,
     Threads
<1> QED
  BY <1>2, <1>5, <1>6

\* Time passes.
LEMMA BecomesDueKeeps ==
  ASSUME IInv, NEW s \in Scopes, BecomesDue(s)
  PROVE  IInv' /\ outage'[Global].open = outage[Global].open
<1> USE DEF IInv, BecomesDue, past
<1>1. /\ outage[s] \in Rows
      /\ outage' = [outage EXCEPT ![s] = [outage[s] EXCEPT !.due = TRUE]]
  BY Typed
<1>2. [outage[s] EXCEPT !.due = TRUE] \in Rows
      /\ [outage[s] EXCEPT !.due = TRUE].open = outage[s].open
  BY <1>1 DEF Rows
<1>3. outage' \in [Scopes -> Rows]
  BY <1>1, <1>2, Typed
<1>4. outage'[Global].open = outage[Global].open
  BY <1>1, <1>2, Typed
<1>5. TypeOK'
  BY <1>3 DEF TypeOK, Rows
<1>6. IdsAreBudgeted' /\ MembersAreStruck' /\ OpeningIsEarned' /\ SweepIsGlobal'
      /\ CorroborateIsScoped'
  BY <1>4 DEF IdsAreBudgeted, Opening, Scoped, MembersAreStruck, OpeningIsEarned,
     SweepIsGlobal, CorroborateIsScoped
<1> QED
  BY <1>4, <1>5, <1>6

\* A thread takes a new job; the others keep theirs.
LEMMA NewJob ==
  ASSUME IInv, NEW t \in Threads, NEW j \in Jobs, job' = [job EXCEPT ![t] = j]
  PROVE  /\ job' \in [Threads -> Jobs] /\ job'[t] = j
         /\ \A u \in Threads : u # t => job'[u] = job[u]
BY Typed

\* Fewer rows are fresh after a write; nothing else changes.
LEMMA WrittenKeeps ==
  ASSUME IInv, NEW r, NEW now \in [Threads -> Jobs]
  PROVE  /\ Written(r, now) \in [Threads -> Jobs]
         /\ \A u \in Threads : /\ Written(r, now)[u].pc = now[u].pc
                               /\ Written(r, now)[u].scope = now[u].scope
                               /\ Written(r, now)[u].kind = now[u].kind
                               /\ Written(r, now)[u].todo = now[u].todo
<1>1. ASSUME NEW j \in Jobs
      PROVE  /\ [j EXCEPT !.fresh = FALSE] \in Jobs
             /\ [j EXCEPT !.fresh = FALSE].pc = j.pc
             /\ [j EXCEPT !.fresh = FALSE].scope = j.scope
             /\ [j EXCEPT !.fresh = FALSE].kind = j.kind
             /\ [j EXCEPT !.fresh = FALSE].todo = j.todo
  BY DEF Jobs
<1>2. ASSUME NEW u \in Threads
      PROVE  /\ Written(r, now)[u] \in Jobs
             /\ Written(r, now)[u].pc = now[u].pc
             /\ Written(r, now)[u].scope = now[u].scope
             /\ Written(r, now)[u].kind = now[u].kind
             /\ Written(r, now)[u].todo = now[u].todo
  <2>1. Written(r, now)[u] = IF now[u].run = r THEN [now[u] EXCEPT !.fresh = FALSE]
                                               ELSE now[u]
    BY DEF Written
  <2>2. now[u] \in Jobs
    OBVIOUS
  <2> QED
    BY <2>1, <2>2, <1>1
<1> QED
  BY <1>2 DEF Written

-----------------------------------------------------------------------------
(* A reconcile and what it reports *)

\* A reconcile that meets a failing dependency, or none.
LEMMA ReconcileKeeps ==
  ASSUME IInv, NEW r \in Runs, Reconcile(r)
  PROVE  IInv' /\ UNCHANGED outage
<1> USE CircuitAssumption DEF IInv
<1>0. /\ r \in Threads /\ r # Sweep /\ r \in Scopes
      /\ job[r].pc = "idle" /\ Weight(job[r]) = 0
      /\ job[r] \in Jobs /\ ids \in Nat /\ failures \in 0..MaxFailures
  <2>1. r \in Threads /\ r # Sweep /\ r \in Scopes
    BY DEF Threads, Scopes
  <2>2. job[r].pc = "idle"
    BY DEF Reconcile, ReconcileSucceeds, ReconcileFails, ReconcileRefused,
       MayReconcile, At
  <2>3. Weight(job[r]) = 0
    BY <2>2 DEF Weight
  <2>4. job[r] \in Jobs
    BY <2>1, Typed
  <2>5. ids \in Nat /\ failures \in 0..MaxFailures
    BY DEF TypeOK, Ids
  <2> QED
    BY <2>1, <2>2, <2>3, <2>4, <2>5
<1>1. CASE ReconcileSucceeds(r)
  <2> DEFINE j == [job[r] EXCEPT !.pc = "recover"]
  <2>1. j \in Jobs /\ j.pc = "recover"
    BY <1>0 DEF Jobs, Places
  <2>2. /\ job' = [job EXCEPT ![r] = j]
        /\ UNCHANGED <<state, outage, members, ids, struck, failures, faults>>
    BY <1>1 DEF ReconcileSucceeds, Goto, table, past
  <2> HIDE DEF j
  <2>3. /\ job' \in [Threads -> Jobs] /\ job'[r] = j
        /\ \A u \in Threads : u # r => job'[u] = job[u]
    BY <1>0, <2>1, <2>2, NewJob
  <2>4. state' \in [Runs -> {"active", "dependency_degraded", "exception"}]
        /\ outage' \in [Scopes -> Rows] /\ failures' \in 0..MaxFailures
    BY <1>0, <2>2, Typed DEF TypeOK
  <2>5. IInv'
    BY <1>0, <2>1, <2>2, <2>3, <2>4, CalmStepKeeps DEF Calm
  <2> QED
    BY <2>2, <2>5
<1>2. CASE ReconcileRefused(r)
  <2>1. /\ job' = Written(r, job)
        /\ state' = [state EXCEPT ![r] = "exception"]
        /\ failures' = failures + 1 /\ failures < MaxFailures
        /\ UNCHANGED <<outage, members, ids, struck, faults>>
    BY <1>2 DEF ReconcileRefused, Fails, table
  <2>2. /\ job' \in [Threads -> Jobs]
        /\ \A u \in Threads : /\ job'[u].pc = job[u].pc
                              /\ job'[u].scope = job[u].scope
                              /\ job'[u].kind = job[u].kind
                              /\ job'[u].todo = job[u].todo
    BY <2>1, Typed, WrittenKeeps
  <2>3. state' \in [Runs -> {"active", "dependency_degraded", "exception"}]
        /\ outage' \in [Scopes -> Rows] /\ failures' \in 0..MaxFailures
    BY <1>0, <2>1, Typed DEF TypeOK
  <2>4. IInv'
    BY <1>0, <2>1, <2>2, <2>3, CalmStepKeeps DEF Calm
  <2> QED
    BY <2>1, <2>4
<1>3. CASE ReconcileFails(r)
  <2>1. PICK class \in Classes :
          /\ job' = [job EXCEPT ![r] =
               [Idle EXCEPT !.pc = "select", !.kind = class, !.todo = {r},
                            !.scope = IF class = "auth" THEN Global ELSE r]]
          /\ struck' = IF class = "auth" THEN struck ELSE struck \cup {r}
    BY <1>3 DEF ReconcileFails
  <2>2. /\ failures' = failures + 1 /\ failures < MaxFailures
        /\ UNCHANGED <<state, outage, members, ids, faults>>
    BY <1>3 DEF ReconcileFails, Fails, table
  <2> DEFINE j == [Idle EXCEPT !.pc = "select", !.kind = class, !.todo = {r},
                               !.scope = IF class = "auth" THEN Global ELSE r]
  <2>3. /\ j \in Jobs /\ j.pc = "select" /\ j.kind = class /\ j.todo = {r}
        /\ j.scope = IF class = "auth" THEN Global ELSE r
    BY <1>0, Typed DEF Jobs, Places, Idle
  <2>4. job' = [job EXCEPT ![r] = j]
    BY <2>1
  <2> HIDE DEF j
  <2>5. /\ job' \in [Threads -> Jobs] /\ job'[r] = j
        /\ \A u \in Threads : u # r => job'[u] = job[u]
    BY <1>0, <2>3, <2>4, NewJob
  <2>6. state' \in [Runs -> {"active", "dependency_degraded", "exception"}]
        /\ outage' \in [Scopes -> Rows] /\ failures' \in 0..MaxFailures
        /\ members' \in [Scopes -> [Ids -> SUBSET Runs]] /\ ids' \in Nat
    BY <1>0, <2>2, Typed DEF TypeOK
  <2>7. ids' + Weight(job'[r]) + 2 * failures <= ids + Weight(job[r]) + 2 * failures'
    <3>1. Weight(job'[r]) \in 0..2
      BY DEF Weight
    <3> QED
      BY <1>0, <2>2, <3>1
  <2>8. \A q \in Runs, i \in Ids : members'[q][i] \subseteq struck'
    BY <2>1, <2>2 DEF MembersAreStruck
  <2>9. (job'[r].scope # Global => job'[r].todo \subseteq struck')
        /\ (job'[r].scope = Global => job'[r].kind = "auth")
    BY <1>0, <2>1, <2>3, <2>5
  <2>10. job'[Sweep].pc \in {"probe", "select", "upsert"} => outage'[Global].open
    BY <1>0, <2>2, <2>5 DEF SweepIsGlobal, Threads
  <2>11. struck' = struck \/ struck' = struck \cup {r}
    BY <2>1
  <2>12. job'[r].pc = "select"
    BY <2>3, <2>5
  <2>13. IInv'
    BY <1>0, <2>2, <2>5, <2>6, <2>7, <2>8, <2>9, <2>10, <2>11, <2>12, StepKeeps
  <2> QED
    BY <2>2, <2>13
<1> QED
  BY <1>1, <1>2, <1>3 DEF Reconcile

\* A thread that goes from the SELECT to the UPSERT.
LEMMA MoveKeeps ==
  ASSUME IInv, NEW t \in Threads, job' \in [Threads -> Jobs],
         \A u \in Threads : u # t => job'[u] = job[u],
         job[t].pc = "select", job'[t].pc = "upsert",
         job'[t].scope = job[t].scope, job'[t].kind = job[t].kind,
         job'[t].todo = job[t].todo,
         UNCHANGED <<state, outage, members, ids, struck, failures, faults>>
  PROVE  IInv'
<1> USE CircuitAssumption DEF IInv
<1>1. ids \in Nat /\ failures \in 0..MaxFailures
  BY DEF TypeOK, Ids
<1>2. Weight(job'[t]) = Weight(job[t]) /\ Weight(job[t]) \in Nat
  BY DEF Weight
<1>3. ids' + Weight(job'[t]) + 2 * failures <= ids + Weight(job[t]) + 2 * failures'
  <2> HIDE DEF Weight
  <2> QED
    BY <1>1, <1>2
<1>4. \A r \in Runs, i \in Ids : members'[r][i] \subseteq struck'
  BY DEF MembersAreStruck
<1>5. job'[t].scope # Global => job'[t].todo \subseteq struck'
  BY DEF MembersAreStruck
<1>6. job'[t].scope = Global /\ job'[t].kind = "transient" /\ t # Sweep
        => Cardinality(struck) >= Threshold
  BY DEF OpeningIsEarned, Threads
<1>7. t = Sweep => job'[t].scope = Global
  BY DEF SweepIsGlobal
<1>8. job'[Sweep].pc \in {"probe", "select", "upsert"} => outage'[Global].open
  BY DEF SweepIsGlobal, Threads
<1>9. state' \in [Runs -> {"active", "dependency_degraded", "exception"}]
      /\ outage' \in [Scopes -> Rows] /\ failures' \in 0..MaxFailures
      /\ members' \in [Scopes -> [Ids -> SUBSET Runs]] /\ ids' \in Nat
  BY <1>1, Typed DEF TypeOK
<1> QED
  BY <1>3, <1>4, <1>5, <1>6, <1>7, <1>8, <1>9, StepKeeps

\* The SELECT of record_dependency_failure; what it read may be stale at once.
LEMMA RecordSelectKeeps ==
  ASSUME IInv, NEW t \in Threads, RecordSelect(t)
  PROVE  IInv' /\ UNCHANGED outage
<1> USE CircuitAssumption DEF IInv
<1> DEFINE row == outage[job[t].scope]
           j == [job[t] EXCEPT !.pc = "upsert", !.seen = IF row.open THEN row.id ELSE 0]
<1>1. /\ job[t].pc = "select"
      /\ UNCHANGED <<state, outage, members, ids, struck, failures, faults>>
  BY DEF RecordSelect, At, table, past
<1>2. job' = [job EXCEPT ![t] = j]
  BY Typed DEF RecordSelect
<1>3. job[t] \in Jobs /\ (IF row.open THEN row.id ELSE 0) \in Ids
  <2>1. job[t] \in Jobs
    BY Typed
  <2>2. row \in Rows
    BY <2>1, Typed DEF Jobs
  <2> QED
    BY <2>1, <2>2, Typed DEF Rows
<1>4. /\ j \in Jobs /\ j.pc = "upsert" /\ j.scope = job[t].scope
      /\ j.kind = job[t].kind /\ j.todo = job[t].todo
  BY <1>3 DEF Jobs, Places
<1> HIDE DEF j
<1>5. /\ job' \in [Threads -> Jobs] /\ job'[t] = j
      /\ \A u \in Threads : u # t => job'[u] = job[u]
  BY <1>2, <1>4, NewJob
<1>6. IInv'
  BY <1>1, <1>4, <1>5, MoveKeeps
<1> QED
  BY <1>1, <1>6

\* The UPSERT: the id was paid for.  If it opens the global circuit for a
\* timeout, it was a worker's, and enough runs had one.
LEMMA RecordUpsertKeeps ==
  ASSUME IInv, NEW t \in Threads, RecordUpsert(t)
  PROVE  /\ IInv'
         /\ (~outage[Global].open /\ outage'[Global].open
               /\ outage'[Global].class = "transient")
              => Cardinality(struck) >= Threshold
<1> USE CircuitAssumption DEF IInv
<1> DEFINE id  == IF job[t].seen = 0 THEN ids + 1 ELSE job[t].seen
           row == [open |-> TRUE, id |-> id, due |-> FALSE, half |-> FALSE,
                   class |-> job[t].kind]
           j   == [job[t] EXCEPT !.pc = "associate", !.seen = id]
<1>1. /\ job[t].pc = "upsert"
      /\ ids' = IF job[t].seen = 0 THEN id ELSE ids
      /\ outage' = [outage EXCEPT ![job[t].scope] = row]
      /\ UNCHANGED <<state, members, struck, failures, faults>>
  BY DEF RecordUpsert, At, past
<1>2. job' = [job EXCEPT ![t] = j]
  BY Typed DEF RecordUpsert
<1>3. /\ job[t] \in Jobs /\ job[t].seen \in Ids /\ job[t].seen \in Nat
      /\ job[t].scope \in Scopes /\ job[t].kind \in Classes
      /\ ids \in Nat /\ failures \in 0..MaxFailures
  <2>1. job[t] \in Jobs
    BY Typed
  <2> QED
    BY <2>1 DEF Jobs, TypeOK, Ids
<1>4. j.pc = "associate" /\ j.scope = job[t].scope /\ j.todo = job[t].todo
  BY <1>3 DEF Jobs
<1>5. /\ job'[t] = j
      /\ \A u \in Threads : u # t => job'[u] = job[u]
  BY <1>2, Typed
<1>6. Weight(job[t]) = Weight(job'[t]) + 1 /\ Weight(job'[t]) \in Nat
  BY <1>1, <1>4, <1>5 DEF Weight
<1>7. ids' \in {ids, ids + 1} /\ ids' \in Nat
  BY <1>1, <1>3
<1>8. ids' + Weight(job'[t]) + 2 * failures <= ids + Weight(job[t]) + 2 * failures'
  <2> HIDE DEF Weight
  <2>1. failures' = failures
    BY <1>1
  <2> QED
    BY <1>3, <1>6, <1>7, <2>1
<1>9. ids' \in Ids
  BY <1>1, <1>3, <1>5, <1>7, <1>8, BudgetKept
<1>10. id \in Ids
  BY <1>1, <1>3, <1>9
<1> HIDE DEF id
<1>11. row \in Rows /\ j \in Jobs
  BY <1>3, <1>10 DEF Rows, Jobs, Places
<1>12. row.open /\ row.class = job[t].kind
  OBVIOUS
<1> HIDE DEF row, j
<1>13. job' \in [Threads -> Jobs] /\ outage' \in [Scopes -> Rows]
  BY <1>1, <1>2, <1>11, Typed
<1>14. \A r \in Runs, i \in Ids : members'[r][i] \subseteq struck'
  BY <1>1 DEF MembersAreStruck
<1>15. job'[t].scope # Global => job'[t].todo \subseteq struck'
  BY <1>1, <1>4, <1>5 DEF MembersAreStruck
<1>16. t = Sweep => job'[t].scope = Global
  BY <1>4, <1>5 DEF SweepIsGlobal
<1>17. job'[Sweep].pc \in {"probe", "select", "upsert"} => outage'[Global].open
  <2>1. outage[Global].open => outage'[Global].open
    BY <1>1, <1>12, Typed
  <2> QED
    BY <1>4, <1>5, <2>1 DEF SweepIsGlobal, Threads
<1>18. state' \in [Runs -> {"active", "dependency_degraded", "exception"}]
       /\ members' \in [Scopes -> [Ids -> SUBSET Runs]] /\ failures' \in 0..MaxFailures
  BY <1>1, <1>3 DEF TypeOK
<1>19. IInv'
  BY <1>1, <1>4, <1>5, <1>7, <1>8, <1>13, <1>14, <1>15, <1>16, <1>17, <1>18, StepKeeps
<1>20. ASSUME ~outage[Global].open, outage'[Global].open,
              outage'[Global].class = "transient"
       PROVE  Cardinality(struck) >= Threshold
  <2>1. job[t].scope = Global
    BY <1>1, <1>20, Typed
  <2>2. t # Sweep /\ t \in Runs
    BY <1>1, <1>20 DEF SweepIsGlobal, Threads
  <2>3. job[t].kind = "transient"
    BY <1>1, <1>12, <1>20, <2>1, Typed
  <2> QED
    BY <1>1, <2>1, <2>2, <2>3 DEF OpeningIsEarned
<1> QED
  BY <1>19, <1>20

\* The runs of an outage are those that were struck.
LEMMA AssociateKeeps ==
  ASSUME IInv, NEW t \in Threads, Associate(t)
  PROVE  IInv' /\ UNCHANGED outage
<1> USE CircuitAssumption DEF IInv
<1>0. /\ job[t].pc = "associate"
      /\ UNCHANGED <<state, outage, ids, struck, failures, faults>>
  BY DEF Associate, At, past
<1>1. PICK now \in IF job[t].todo = {} THEN {{}} ELSE {{r} : r \in job[t].todo} :
       /\ members' = [members EXCEPT ![job[t].scope][job[t].seen] = @ \cup now]
       /\ job' = [job EXCEPT ![t] =
            IF now # job[t].todo THEN [@ EXCEPT !.todo = job[t].todo \ now]
            ELSE [@ EXCEPT
              !.pc = IF job[t].scope = Global THEN "degrade" ELSE "corroborate",
              !.todo = IF t = Sweep THEN members[Global][job[t].seen] ELSE {t}]]
  BY DEF Associate
<1>2. /\ job[t] \in Jobs /\ job[t].scope \in Scopes /\ job[t].seen \in Ids
      /\ job[t].todo \subseteq Runs /\ now \subseteq job[t].todo
      /\ ids \in Nat /\ failures \in 0..MaxFailures
  <2>1. job[t] \in Jobs
    BY Typed
  <2>2. ids \in Nat /\ failures \in 0..MaxFailures
    BY DEF TypeOK, Ids
  <2>3. now \subseteq job[t].todo
    BY <1>1
  <2> QED
    BY <2>1, <2>2, <2>3 DEF Jobs
<1>3. /\ members' \in [Scopes -> [Ids -> SUBSET Runs]]
      /\ \A r \in Runs, i \in Ids : members'[r][i] \subseteq struck'
  <2>1. /\ members[job[t].scope] \in [Ids -> SUBSET Runs]
        /\ members' = [members EXCEPT ![job[t].scope] =
             [members[job[t].scope] EXCEPT ![job[t].seen] =
                members[job[t].scope][job[t].seen] \cup now]]
    BY <1>1, <1>2, Typed
  <2>2. [members[job[t].scope] EXCEPT ![job[t].seen] =
           members[job[t].scope][job[t].seen] \cup now] \in [Ids -> SUBSET Runs]
    BY <1>2, <2>1
  <2>3. ASSUME NEW r \in Runs, NEW i \in Ids PROVE members'[r][i] \subseteq struck
    <3>1. r \in Scopes /\ r # Global /\ members[r][i] \subseteq struck
      BY DEF Scopes, MembersAreStruck
    <3>2. CASE r = job[t].scope /\ i = job[t].seen
      <4>1. now \subseteq struck
        BY <1>0, <1>2, <3>1, <3>2 DEF MembersAreStruck
      <4>2. members'[r][i] = members[r][i] \cup now
        BY <1>2, <2>1, <3>2, Typed
      <4> QED
        BY <3>1, <4>1, <4>2
    <3>3. CASE ~(r = job[t].scope /\ i = job[t].seen)
      <4>1. members'[r][i] = members[r][i]
        BY <1>2, <2>1, <3>1, <3>3, Typed
      <4> QED
        BY <3>1, <4>1
    <3> QED
      BY <3>2, <3>3
  <2> QED
    BY <1>0, <2>1, <2>2, <2>3, Typed
<1>4. PICK j \in Jobs :
        /\ job' = [job EXCEPT ![t] = j]
        /\ j.scope = job[t].scope
        /\ \/ j.pc = "associate" /\ j.todo \subseteq job[t].todo
           \/ j.pc = "degrade"
           \/ j.pc = "corroborate" /\ j.scope # Global
  <2>1. CASE now # job[t].todo
    <3> DEFINE k == [job[t] EXCEPT !.todo = job[t].todo \ now]
    <3>1. job' = [job EXCEPT ![t] = k]
      BY <1>1, <2>1, Typed
    <3>2. k \in Jobs /\ k.scope = job[t].scope /\ k.pc = "associate"
          /\ k.todo = job[t].todo \ now
      BY <1>0, <1>2 DEF Jobs
    <3> HIDE DEF k
    <3> QED
      BY <3>1, <3>2
  <2>2. CASE now = job[t].todo
    <3> DEFINE place == IF job[t].scope = Global THEN "degrade" ELSE "corroborate"
               todo == IF t = Sweep THEN members[Global][job[t].seen] ELSE {t}
               k == [job[t] EXCEPT !.pc = place, !.todo = todo]
    <3>1. job' = [job EXCEPT ![t] = k]
      BY <1>1, <2>2, Typed
    <3>2. place \in Places /\ todo \subseteq Runs
      BY <1>2, Typed DEF Places, Threads
    <3>3. /\ k \in Jobs /\ k.scope = job[t].scope /\ k.pc = place
      BY <1>2, <3>2 DEF Jobs
    <3>4. place = "degrade" \/ (place = "corroborate" /\ job[t].scope # Global)
      OBVIOUS
    <3> HIDE DEF k, place, todo
    <3> QED
      BY <3>1, <3>3, <3>4
  <2> QED
    BY <2>1, <2>2
<1>5. /\ job' \in [Threads -> Jobs] /\ job'[t] = j
      /\ \A u \in Threads : u # t => job'[u] = job[u]
  BY <1>4, NewJob
<1>6. Weight(j) <= Weight(job[t]) /\ Weight(j) \in Nat /\ Weight(job[t]) \in Nat
  BY <1>0, <1>4 DEF Weight
<1>7. ids' + Weight(job'[t]) + 2 * failures <= ids + Weight(job[t]) + 2 * failures'
  <2>1. ids' = ids /\ failures' = failures /\ failures \in Nat /\ job'[t] = j
    BY <1>0, <1>2, <1>5
  <2> HIDE DEF Weight
  <2> QED
    BY <1>2, <1>6, <2>1
<1>8. j.pc = "associate" /\ j.scope # Global => j.todo \subseteq struck'
  BY <1>0, <1>4 DEF MembersAreStruck
<1>9. t = Sweep => j.scope = Global
  BY <1>4 DEF SweepIsGlobal
<1>10. job'[Sweep].pc \in {"probe", "select", "upsert"} => outage'[Global].open
  BY <1>0, <1>4, <1>5 DEF SweepIsGlobal, Threads
<1>11. state' \in [Runs -> {"active", "dependency_degraded", "exception"}]
       /\ outage' \in [Scopes -> Rows] /\ failures' \in 0..MaxFailures /\ ids' \in Nat
  BY <1>0, <1>2, Typed DEF TypeOK
<1>12. j.pc \notin {"select", "upsert"}
  BY <1>4
<1>13. IInv'
  BY <1>0, <1>3, <1>4, <1>5, <1>7, <1>8, <1>9, <1>10, <1>11, <1>12, StepKeeps
<1> QED
  BY <1>0, <1>13

\* A thread takes up a calm job and nothing else happens.
LEMMA QuietKeeps ==
  ASSUME IInv, NEW t \in Threads, NEW j \in Jobs, job' = [job EXCEPT ![t] = j],
         j.pc \in Calm, t = Sweep => j.scope = Global,
         UNCHANGED <<state, outage, members, ids, struck, failures, faults>>
  PROVE  IInv'
<1>1. /\ job' \in [Threads -> Jobs] /\ job'[t] = j
      /\ \A u \in Threads : u # t => job'[u] = job[u]
  BY NewJob
<1>2. state' \in [Runs -> {"active", "dependency_degraded", "exception"}]
      /\ outage' \in [Scopes -> Rows] /\ failures' \in 0..MaxFailures
  BY Typed DEF IInv, TypeOK
<1> QED
  BY <1>1, <1>2, CalmStepKeeps

\* The next round of a loop, or its end.
LEMMA LoopIsJob ==
  ASSUME IInv, NEW j \in Jobs, NEW todo \in SUBSET Runs, NEW place \in Calm
  PROVE  /\ Loop(todo, j, place) \in Jobs
         /\ Loop(todo, j, place).pc \in Calm
         /\ Loop(todo, j, place).scope \in {j.scope, Global}
<1>1. CASE todo = {}
  BY <1>1, Typed DEF Loop, Idle, Calm
<1>2. CASE todo # {}
  <2> DEFINE k == [j EXCEPT !.pc = place, !.todo = todo, !.run = Global,
                            !.up = FALSE, !.fresh = FALSE]
  <2>1. Loop(todo, j, place) = k
    BY <1>2 DEF Loop
  <2>2. place \in Places /\ Global \in Scopes
    BY DEF Calm, Places, Scopes
  <2>3. k \in Jobs /\ k.pc = place /\ k.scope = j.scope
    BY <2>2 DEF Jobs
  <2> HIDE DEF k
  <2> QED
    BY <2>1, <2>3
<1> QED
  BY <1>1, <1>2

\* Enough runs corroborate each other: they were all struck.
LEMMA CorroborateKeeps ==
  ASSUME IInv, NEW t \in Threads, Corroborate(t)
  PROVE  IInv' /\ UNCHANGED outage
<1> USE CircuitAssumption DEF IInv
<1>0. /\ job[t].pc = "corroborate" /\ job[t] \in Jobs /\ job[t].scope # Global
      /\ t # Sweep
      /\ ids \in Nat /\ failures \in 0..MaxFailures
      /\ UNCHANGED <<state, outage, members, ids, struck, failures, faults>>
  <2>1. job[t].pc = "corroborate"
        /\ UNCHANGED <<state, outage, members, ids, struck, failures, faults>>
    BY DEF Corroborate, At, table, past
  <2>2. job[t] \in Jobs /\ job[t].scope # Global /\ t # Sweep
    BY <2>1, Typed DEF CorroborateIsScoped, SweepIsGlobal
  <2>3. ids \in Nat /\ failures \in 0..MaxFailures
    BY DEF TypeOK, Ids
  <2> QED
    BY <2>1, <2>2, <2>3
<1>1. Corroborating \subseteq struck /\ Corroborating \subseteq Runs
  <2>1. ASSUME NEW r \in Runs PROVE members[r][outage[r].id] \subseteq struck
    <3>1. outage[r] \in Rows
      BY Typed DEF Scopes
    <3>2. outage[r].id \in Ids
      BY <3>1 DEF Rows
    <3> QED
      BY <3>2 DEF MembersAreStruck
  <2>2. Corroborating \subseteq struck
    BY <2>1 DEF Corroborating
  <2> QED
    BY <2>2 DEF TypeOK
<1>2. CASE Cardinality(Corroborating) >= Threshold
  <2> DEFINE j == [job[t] EXCEPT !.pc = "select", !.scope = Global,
                                 !.todo = Corroborating]
  <2>1. job' = [job EXCEPT ![t] = j]
    BY <1>2, Typed DEF Corroborate
  <2>2. j \in Jobs /\ j.pc = "select" /\ j.scope = Global
    BY <1>0, <1>1, Typed DEF Jobs, Places
  <2> HIDE DEF j
  <2>3. /\ job' \in [Threads -> Jobs] /\ job'[t] = j
        /\ \A u \in Threads : u # t => job'[u] = job[u]
    BY <2>1, <2>2, NewJob
  <2>4. Weight(j) = 1 /\ Weight(job[t]) = 1
    BY <1>0, <2>2 DEF Weight
  <2>5. ids' + Weight(job'[t]) + 2 * failures <= ids + Weight(job[t]) + 2 * failures'
    <3>1. ids' = ids /\ failures' = failures /\ failures \in Nat /\ job'[t] = j
      BY <1>0, <2>3
    <3> HIDE DEF Weight
    <3> QED
      BY <1>0, <2>4, <3>1
  <2>6. Cardinality(struck) >= Threshold
    <3>1. IsFiniteSet(struck)
      BY DEF MembersAreStruck
    <3>2. /\ Cardinality(struck) \in Nat /\ Cardinality(Corroborating) \in Nat
          /\ Cardinality(Corroborating) <= Cardinality(struck)
      BY <1>1, <3>1, FS_Subset, FS_CardinalityType
    <3> HIDE DEF Corroborating
    <3> QED
      BY <1>2, <3>2
  <2>7. \A r \in Runs, i \in Ids : members'[r][i] \subseteq struck'
    BY <1>0 DEF MembersAreStruck
  <2>8. job'[Sweep].pc \in {"probe", "select", "upsert"} => outage'[Global].open
    BY <1>0, <2>3 DEF SweepIsGlobal, Threads
  <2>9. state' \in [Runs -> {"active", "dependency_degraded", "exception"}]
        /\ members' \in [Scopes -> [Ids -> SUBSET Runs]]
        /\ outage' \in [Scopes -> Rows] /\ failures' \in 0..MaxFailures /\ ids' \in Nat
    BY <1>0, Typed DEF TypeOK
  <2>10. IInv'
    BY <1>0, <2>2, <2>3, <2>5, <2>6, <2>7, <2>8, <2>9, StepKeeps
  <2> QED
    BY <1>0, <2>10
<1>3. CASE ~(Cardinality(Corroborating) >= Threshold)
  <2> DEFINE j == [job[t] EXCEPT !.pc = "degrade"]
  <2>1. job' = [job EXCEPT ![t] = j]
    BY <1>3, Typed DEF Corroborate, Goto
  <2>2. j \in Jobs /\ j.pc = "degrade"
    BY <1>0 DEF Jobs, Places
  <2> HIDE DEF j
  <2>3. IInv'
    BY <1>0, <2>1, <2>2, QuietKeeps DEF Calm
  <2> QED
    BY <1>0, <2>3
<1> QED
  BY <1>2, <1>3

-----------------------------------------------------------------------------
(* Runs that must wait and runs that may go on *)

\* The reads of DegradeRead and FinishRead.
LEMMA ReadKeeps ==
  ASSUME IInv, NEW t \in Threads, NEW place \in Calm, job[t].pc \in Calm,
         \/ Stop(t)
         \/ \E r \in job[t].todo : \/ \E up \in BOOLEAN : Read(t, r, up, place)
                                   \/ Skip(t, r),
         UNCHANGED <<state, outage, members, ids, struck, failures, faults>>
  PROVE  IInv'
<1> USE DEF IInv
<1>0. job[t] \in Jobs /\ (t = Sweep => job[t].scope = Global)
  BY Typed DEF SweepIsGlobal
<1>1. CASE Stop(t)
  BY <1>1, Typed, QuietKeeps DEF Stop, Idle, Calm
<1>2. ASSUME NEW r \in job[t].todo, NEW up \in BOOLEAN, Read(t, r, up, place)
      PROVE  IInv'
  <2> DEFINE j == [job[t] EXCEPT !.pc = place, !.todo = job[t].todo \ {r}, !.run = r,
                                 !.up = up, !.fresh = TRUE]
  <2>1. job' = [job EXCEPT ![t] = j]
    BY <1>2, Typed DEF Read
  <2>2. r \in Scopes /\ place \in Places
    BY <1>0 DEF Jobs, Scopes, Calm, Places
  <2>3. j \in Jobs /\ j.pc = place /\ j.scope = job[t].scope
    BY <1>0, <2>2 DEF Jobs
  <2> HIDE DEF j
  <2> QED
    BY <1>0, <2>1, <2>3, QuietKeeps
<1>3. ASSUME NEW r \in job[t].todo, Skip(t, r)
      PROVE  IInv'
  <2>1. PICK j : j = Loop(job[t].todo \ {r}, job[t], job[t].pc)
    OBVIOUS
  <2>2. job' = [job EXCEPT ![t] = j]
    BY <1>3, <2>1, Typed DEF Skip
  <2>3. j \in Jobs /\ j.pc \in Calm /\ (t = Sweep => j.scope = Global)
    <3>1. job[t].todo \ {r} \subseteq Runs
      BY <1>0 DEF Jobs
    <3> QED
      BY <1>0, <2>1, <3>1, LoopIsJob
  <2> QED
    BY <2>2, <2>3, QuietKeeps
<1> QED
  BY <1>1, <1>2, <1>3

\* A run is written if its row is still the one that was read.
LEMMA TransitionKeeps ==
  ASSUME IInv, NEW t \in Threads, NEW place \in Calm, job[t].pc \in Calm,
         TransitionRun(t, place),
         UNCHANGED <<outage, members, ids, struck, failures, faults>>
  PROVE  IInv'
<1> USE DEF IInv
<1>1. PICK r : r = job[t].run
  OBVIOUS
<1>2. PICK now : now = Written(r, job)
  OBVIOUS
<1>3. /\ state' = [state EXCEPT ![r] = IF job[t].up THEN "active"
                                                    ELSE "dependency_degraded"]
      /\ job' = [now EXCEPT ![t] = Loop(now[t].todo, now[t], place)]
  <2>1. now \in [Threads -> Jobs]
    BY <1>2, Typed, WrittenKeeps
  <2> QED
    BY <1>1, <1>2, <2>1 DEF TransitionRun
<1>4. /\ now \in [Threads -> Jobs]
      /\ \A u \in Threads : /\ now[u].pc = job[u].pc
                            /\ now[u].scope = job[u].scope
                            /\ now[u].kind = job[u].kind
                            /\ now[u].todo = job[u].todo
  BY <1>2, Typed, WrittenKeeps
<1>5. PICK j : j = Loop(now[t].todo, now[t], place)
  OBVIOUS
<1>6. j \in Jobs /\ j.pc \in Calm /\ (t = Sweep => j.scope = Global)
  <2>1. now[t] \in Jobs
    BY <1>4
  <2>2. now[t].todo \subseteq Runs
    BY <2>1 DEF Jobs
  <2> QED
    BY <1>4, <1>5, <2>1, <2>2, LoopIsJob DEF SweepIsGlobal
<1>7. /\ job' \in [Threads -> Jobs] /\ job'[t] = j
      /\ \A u \in Threads : u # t => job'[u] = now[u]
  BY <1>3, <1>4, <1>5, <1>6
<1>8. state' \in [Runs -> {"active", "dependency_degraded", "exception"}]
      /\ outage' \in [Scopes -> Rows] /\ failures' \in 0..MaxFailures
  BY <1>3, Typed DEF TypeOK
<1> QED
  BY <1>4, <1>6, <1>7, <1>8, CalmStepKeeps

\* The run is degraded: the read of its version and the write.
LEMMA DegradeKeeps ==
  ASSUME IInv, NEW t \in Threads, DegradeRead(t) \/ DegradeWrite(t)
  PROVE  IInv' /\ UNCHANGED outage
<1>1. CASE DegradeRead(t)
  <2>1. job[t].pc \in Calm /\ "degrading" \in Calm /\ FALSE \in BOOLEAN
        /\ UNCHANGED <<state, outage, members, ids, struck, failures, faults>>
    BY <1>1 DEF DegradeRead, At, Calm, table, past
  <2>2. \/ Stop(t)
        \/ \E r \in job[t].todo : Read(t, r, FALSE, "degrading") \/ Skip(t, r)
    BY <1>1 DEF DegradeRead
  <2>3. IInv'
    BY <2>1, <2>2, ReadKeeps
  <2> QED
    BY <2>1, <2>3
<1>2. CASE DegradeWrite(t)
  <2>1. job[t].pc \in Calm /\ "degrade" \in Calm
        /\ UNCHANGED <<outage, members, ids, struck, failures, faults>>
    BY <1>2 DEF DegradeWrite, At, Calm, table, past
  <2>2. \/ TransitionRun(t, "degrade")
        \/ (Forget \/ Stop(t)) /\ UNCHANGED state
    BY <1>2 DEF DegradeWrite
  <2>3. faults' \in 0..MaxFaults
    BY <2>1 DEF IInv, TypeOK
  <2>4. IInv'
    BY <2>1, <2>2, <2>3, TransitionKeeps, ForgetKeeps, ReadKeeps
  <2> QED
    BY <2>1, <2>4
<1> QED
  BY <1>1, <1>2

\* The runs of a closed outage are moved back: the read and the write.
LEMMA FinishKeeps ==
  ASSUME IInv, NEW t \in Threads, FinishRead(t) \/ FinishWrite(t)
  PROVE  IInv' /\ UNCHANGED outage
<1>1. CASE FinishRead(t)
  <2>1. job[t].pc \in Calm /\ "finishing" \in Calm
        /\ UNCHANGED <<state, outage, members, ids, struck, failures, faults>>
    BY <1>1 DEF FinishRead, At, Calm, table, past
  <2>2. \/ Stop(t)
        \/ \E r \in job[t].todo : Read(t, r, ~HeldUp(r), "finishing") \/ Skip(t, r)
    BY <1>1 DEF FinishRead
  <2>3. \/ Stop(t)
        \/ \E r \in job[t].todo : \/ \E up \in BOOLEAN : Read(t, r, up, "finishing")
                                  \/ Skip(t, r)
    <3>1. ASSUME NEW r \in job[t].todo, Read(t, r, ~HeldUp(r), "finishing")
          PROVE  \E up \in BOOLEAN : Read(t, r, up, "finishing")
      <4>1. (~HeldUp(r)) \in BOOLEAN
        OBVIOUS
      <4> QED
        BY <3>1, <4>1
    <3> QED
      BY <2>2, <3>1
  <2>4. IInv'
    BY <2>1, <2>3, ReadKeeps
  <2> QED
    BY <2>1, <2>4
<1>2. CASE FinishWrite(t)
  <2>1. job[t].pc \in Calm /\ "finish" \in Calm
        /\ UNCHANGED <<outage, members, ids, struck, failures, faults>>
    BY <1>2 DEF FinishWrite, At, Calm, table, past
  <2>2. CASE TransitionRun(t, "finish")
    BY <2>1, <2>2, TransitionKeeps
  <2>3. CASE Forget /\ UNCHANGED state
    <3>1. faults' \in 0..MaxFaults
      BY <2>1 DEF IInv, TypeOK
    <3> QED
      BY <2>1, <2>3, <3>1, ForgetKeeps
  <2>4. CASE /\ t # Sweep /\ state' = [state EXCEPT ![t] = "exception"]
             /\ job' = [Written(t, job) EXCEPT ![t] = Idle]
    <3>1. PICK now : now = Written(t, job)
      OBVIOUS
    <3>2. /\ now \in [Threads -> Jobs]
          /\ \A u \in Threads : /\ now[u].pc = job[u].pc
                                /\ now[u].scope = job[u].scope
                                /\ now[u].kind = job[u].kind
                                /\ now[u].todo = job[u].todo
      BY <3>1, Typed, WrittenKeeps
    <3>3. /\ job' \in [Threads -> Jobs] /\ job'[t] = Idle
          /\ \A u \in Threads : u # t => job'[u] = now[u]
      BY <2>4, <3>1, <3>2, Typed
    <3>4. Idle.pc \in Calm
      BY DEF Idle, Calm
    <3>5. state' \in [Runs -> {"active", "dependency_degraded", "exception"}]
          /\ outage' \in [Scopes -> Rows] /\ failures' \in 0..MaxFailures
      BY <2>1, <2>4, Typed DEF IInv, TypeOK
    <3> QED
      BY <2>1, <2>4, <3>2, <3>3, <3>4, <3>5, CalmStepKeeps
  <2>5. IInv'
    BY <1>2, <2>2, <2>3, <2>4 DEF FinishWrite
  <2> QED
    BY <2>1, <2>5
<1> QED
  BY <1>1, <1>2

-----------------------------------------------------------------------------
(* Recovery and the probe *)

\* An outage is closed by the thread that may close it: a worker closes no other
\* scope than its own, so that the global circuit is the sweep's.
LEMMA CloseKeeps ==
  ASSUME IInv, NEW t \in Threads, NEW s \in Scopes, Close(t, s),
         (t = Sweep) <=> (s = Global),
         UNCHANGED <<state, members, ids, struck, failures, faults>>
  PROVE  IInv'
<1> USE DEF IInv
<1> DEFINE j == [job[t] EXCEPT !.pc = "finish", !.scope = s,
                               !.todo = members[s][outage[s].id]]
<1>1. outage' = [outage EXCEPT ![s] = Closed] /\ job' = [job EXCEPT ![t] = j]
  BY Typed DEF Close
<1>2. job[t] \in Jobs /\ members[s][outage[s].id] \subseteq Runs
  <2>1. job[t] \in Jobs /\ outage[s] \in Rows
    BY Typed
  <2>2. outage[s].id \in Ids
    BY <2>1 DEF Rows
  <2> QED
    BY <2>1, <2>2, Typed
<1>3. j \in Jobs /\ j.pc \in Calm /\ j.scope = s
  BY <1>2 DEF Jobs, Places, Calm
<1> HIDE DEF j
<1>4. /\ job' \in [Threads -> Jobs] /\ job'[t] = j
      /\ \A u \in Threads : u # t => job'[u] = job[u]
  BY <1>1, <1>3, NewJob
<1>5. state' \in [Runs -> {"active", "dependency_degraded", "exception"}]
      /\ outage' \in [Scopes -> Rows] /\ failures' \in 0..MaxFailures
  BY <1>1, Typed DEF TypeOK
<1>6. t = Sweep \/ outage'[Global].open = outage[Global].open
  BY <1>1, Typed
<1> QED
  BY <1>3, <1>4, <1>5, <1>6, CalmStepKeeps

\* A run that was reconciled closes its own outage.
LEMMA RecoverKeeps ==
  ASSUME IInv, NEW r \in Runs, RecoverRunDependency(r)
  PROVE  IInv' /\ outage'[Global].open = outage[Global].open
<1> USE CircuitAssumption
<1>0. /\ r \in Threads /\ r \in Scopes /\ r # Sweep /\ r # Global
      /\ UNCHANGED <<state, members, ids, struck, failures, faults>>
  BY DEF RecoverRunDependency, Threads, Scopes, past
<1>1. CASE Close(r, r)
  <2>1. IInv'
    BY <1>0, <1>1, CloseKeeps
  <2>2. outage'[Global].open = outage[Global].open
    BY <1>0, <1>1, Typed DEF Close
  <2> QED
    BY <2>1, <2>2
<1>2. CASE Stop(r) /\ UNCHANGED outage
  <2>1. Idle \in Jobs /\ Idle.pc \in Calm /\ job' = [job EXCEPT ![r] = Idle]
    BY <1>2, Typed DEF Stop, Idle, Calm
  <2>2. IInv'
    BY <1>0, <1>2, <2>1, QuietKeeps
  <2> QED
    BY <1>2, <2>2
<1> QED
  BY <1>1, <1>2 DEF RecoverRunDependency

\* The probe of the sweep, half open or not.
LEMMA ProbeKeeps ==
  ASSUME IInv, Probe
  PROVE  IInv' /\ (outage'[Global].open => outage[Global].open)
<1> USE CircuitAssumption DEF IInv
<1>0. /\ Sweep \in Threads /\ Global \in Scopes /\ job[Sweep] \in Jobs
      /\ job[Sweep].scope = Global /\ outage[Global] \in Rows
      /\ ids \in Nat /\ failures \in 0..MaxFailures
  <2>1. Sweep \in Threads /\ Global \in Scopes /\ job[Sweep] \in Jobs
        /\ outage[Global] \in Rows
    BY Typed
  <2>2. job[Sweep].scope = Global
    BY DEF SweepIsGlobal
  <2>3. ids \in Nat /\ failures \in 0..MaxFailures
    BY DEF TypeOK, Ids
  <2> QED
    BY <2>1, <2>2, <2>3
<1>1. CASE ProbeSucceeds
  <2>1. UNCHANGED <<state, members, ids, struck, failures, faults>>
        /\ Close(Sweep, Global) /\ job[Sweep].pc = "probe"
    BY <1>1 DEF ProbeSucceeds, past, At
  <2>2. IInv'
    BY <1>0, <2>1, CloseKeeps
  <2>3. outage[Global].open
    BY <2>1 DEF SweepIsGlobal
  <2> QED
    BY <2>2, <2>3
<1>2. CASE ProbeBegin
  <2> DEFINE j == [job[Sweep] EXCEPT !.pc = "probe"]
             row == [outage[Global] EXCEPT !.half = TRUE]
  <2>1. /\ job[Sweep].pc = "idle" /\ outage[Global].open
        /\ UNCHANGED <<state, members, ids, struck, failures, faults>>
    BY <1>2 DEF ProbeBegin, ProbeDue, At, past
  <2>2. job' = [job EXCEPT ![Sweep] = j] /\ outage' = [outage EXCEPT ![Global] = row]
    BY <1>2, Typed DEF ProbeBegin, Goto
  <2>3. j \in Jobs /\ j.pc = "probe" /\ j.scope = Global
    BY <1>0 DEF Jobs, Places
  <2>4. row \in Rows /\ row.open = outage[Global].open
    BY <1>0 DEF Rows
  <2> HIDE DEF j, row
  <2>5. /\ job' \in [Threads -> Jobs] /\ job'[Sweep] = j
        /\ \A u \in Threads : u # Sweep => job'[u] = job[u]
    BY <1>0, <2>2, <2>3, NewJob
  <2>6. outage' \in [Scopes -> Rows] /\ outage'[Global].open
    BY <1>0, <2>1, <2>2, <2>4, Typed
  <2>7. Weight(job'[Sweep]) = 0 /\ Weight(job[Sweep]) = 0
    BY <2>1, <2>3, <2>5 DEF Weight
  <2>8. ids' + Weight(job'[Sweep]) + 2 * failures
          <= ids + Weight(job[Sweep]) + 2 * failures'
    <3>1. ids' = ids /\ failures' = failures /\ failures \in Nat
      BY <1>0, <2>1
    <3> HIDE DEF Weight
    <3> QED
      BY <1>0, <2>7, <3>1
  <2>9. \A r \in Runs, i \in Ids : members'[r][i] \subseteq struck'
    BY <2>1 DEF MembersAreStruck
  <2>10. state' \in [Runs -> {"active", "dependency_degraded", "exception"}]
         /\ members' \in [Scopes -> [Ids -> SUBSET Runs]]
         /\ failures' \in 0..MaxFailures /\ ids' \in Nat
    BY <1>0, <2>1, Typed DEF TypeOK
  <2>11. IInv'
    BY <1>0, <2>1, <2>3, <2>5, <2>6, <2>8, <2>9, <2>10, StepKeeps
  <2> QED
    BY <2>1, <2>11
<1>3. CASE ProbeFails
  <2>1. /\ job[Sweep].pc = "probe" /\ outage[Global].open
        /\ failures' = failures + 1 /\ failures < MaxFailures
        /\ UNCHANGED <<state, outage, members, ids, struck, faults>>
    BY <1>3 DEF ProbeFails, At, Fails, table, SweepIsGlobal
  <2>2. PICK class \in Classes :
          job' = [job EXCEPT ![Sweep] = [Idle EXCEPT !.pc = "select", !.kind = class]]
    BY <1>3 DEF ProbeFails
  <2> DEFINE j == [Idle EXCEPT !.pc = "select", !.kind = class]
  <2>3. j \in Jobs /\ j.pc = "select" /\ j.scope = Global
    BY Typed DEF Jobs, Places, Idle
  <2>4. job' = [job EXCEPT ![Sweep] = j]
    BY <2>2
  <2> HIDE DEF j
  <2>5. /\ job' \in [Threads -> Jobs] /\ job'[Sweep] = j
        /\ \A u \in Threads : u # Sweep => job'[u] = job[u]
    BY <1>0, <2>3, <2>4, NewJob
  <2>6. Weight(job'[Sweep]) = 1 /\ Weight(job[Sweep]) = 0
    BY <2>1, <2>3, <2>5 DEF Weight
  <2>7. ids' + Weight(job'[Sweep]) + 2 * failures
          <= ids + Weight(job[Sweep]) + 2 * failures'
    <3>1. ids' = ids
      BY <2>1
    <3> HIDE DEF Weight
    <3> QED
      BY <1>0, <2>1, <2>6, <3>1
  <2>8. \A r \in Runs, i \in Ids : members'[r][i] \subseteq struck'
    BY <2>1 DEF MembersAreStruck
  <2>9. state' \in [Runs -> {"active", "dependency_degraded", "exception"}]
        /\ members' \in [Scopes -> [Ids -> SUBSET Runs]]
        /\ outage' \in [Scopes -> Rows] /\ outage'[Global].open
        /\ failures' \in 0..MaxFailures /\ ids' \in Nat
    BY <1>0, <2>1, Typed DEF TypeOK
  <2>10. IInv'
    BY <1>0, <2>1, <2>3, <2>5, <2>7, <2>8, <2>9, StepKeeps
  <2> QED
    BY <2>1, <2>10
<1> QED
  BY <1>1, <1>2, <1>3 DEF Probe

-----------------------------------------------------------------------------
(* Theorems *)

\* Every step keeps the invariant, and none but an earned UPSERT opens the
\* global circuit for a timeout.
LEMMA StepsKeep ==
  ASSUME IInv, Next
  PROVE  /\ IInv'
         /\ (~outage[Global].open /\ outage'[Global].open
               /\ outage'[Global].class = "transient")
              => Cardinality(struck) >= Threshold
<1>1. CASE \E s \in Scopes : BecomesDue(s)
  BY <1>1, BecomesDueKeeps
<1>2. CASE \E r \in Runs : Reconcile(r) \/ RecoverRunDependency(r)
  BY <1>2, ReconcileKeeps, RecoverKeeps
<1>3. CASE \E t \in Threads : Continue(t)
  BY <1>3, RecordSelectKeeps, RecordUpsertKeeps, AssociateKeeps, CorroborateKeeps,
     DegradeKeeps, FinishKeeps DEF Continue
<1>4. CASE Probe
  BY <1>4, ProbeKeeps
<1>5. CASE Crash
  <2>1. /\ Forget /\ UNCHANGED <<state, outage, members, ids, struck, failures>>
        /\ faults' \in 0..MaxFaults
    <3>1. faults' \in 0..MaxFaults
      BY <1>5, CircuitAssumption DEF Crash, IInv, TypeOK
    <3> QED
      BY <1>5, <3>1 DEF Crash, table
  <2> QED
    BY <2>1, ForgetKeeps
<1> QED
  BY <1>1, <1>2, <1>3, <1>4, <1>5 DEF Next

\* Every step keeps the invariant.
LEMMA NextIInv == IInv /\ [Next]_vars => IInv'
<1>1. ASSUME IInv, UNCHANGED vars PROVE IInv'
  BY <1>1 DEF vars, IInv, TypeOK, IdsAreBudgeted, Opening, Scoped, MembersAreStruck,
     OpeningIsEarned, SweepIsGlobal, CorroborateIsScoped
<1> QED
  BY <1>1, StepsKeep

\* The inductive invariant holds in every state.
LEMMA Invariance == Spec => []IInv
<1>1. Init => IInv
  BY InitIInv
<1>2. IInv /\ [Next]_vars => IInv'
  BY NextIInv
<1> QED
  BY <1>1, <1>2, PTL DEF Spec

\* The outage tables stay well formed: a failed call opens two outages at most,
\* its own and the global one, whatever the interleaving of SELECT and UPSERT
\* (record_dependency_failure).
THEOREM TypeCorrect == Spec => []TypeOK
<1>1. IInv => TypeOK
  BY DEF IInv
<1> QED
  BY <1>1, Invariance, PTL

\* Timeouts of fewer runs than the threshold do not open the global circuit,
\* however often they fail and whoever reads or writes an outage in between
\* (_handle_dependency_error).
THEOREM FewRunsAreIsolated == Spec => FewRunsStayIsolated
<1>1. IInv /\ [Next]_vars =>
        [~outage[Global].open /\ outage'[Global].open
           /\ outage'[Global].class = "transient"
         => Cardinality(struck) >= Threshold]_vars
  BY StepsKeep
<1> QED
  BY <1>1, Invariance, PTL DEF Spec, FewRunsStayIsolated
=============================================================================
