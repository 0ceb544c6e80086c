-------------------------- MODULE StartRequestsProofs --------------------------
(***************************************************************************)
(* Proofs about StartRequests, for any number of faults: crashes, failed   *)
(* calls, duplicates of the message and recoveries.                        *)
(***************************************************************************)
EXTENDS StartRequests, TLAPS

\* The places at which a thread has claimed its run.
Claimed == {"begin", "act", "finish", "root", "register", "work", "answer"}

\* One thread executes the request, and the request is running meanwhile.
OneStarter ==
  \A t \in Starters : pc[t] # "idle" =>
    req = "running" /\ \A u \in Starters : u # t => pc[u] = "idle"

\* Who works on a run works on one that is saved.
RunIsSaved ==
  /\ \A t \in Threads : pc[t] \notin {"idle", "facts"} => of[t] \in 1..saved
  /\ worker # "idle" => target \in 1..saved
  /\ \A r \in Runs : control[r] # "none" => r <= saved

\* A starter works on the run of the request, or on the one it will bind; a
\* recovery works on a run a human has recovered.
RunIsBound ==
  /\ \A t \in Starters : pc[t] \notin {"idle", "facts"} =>
       of[t] = bound \/ (bound = 0 /\ pc[t] \in {"control", "bind"})
  /\ pc["recover"] # "idle" => pc["recover"] \in Claimed /\ of["recover"] \in resumed

\* A run is made only after the fault that lost the one before it.
RunsAreFaults ==
  /\ saved <= faults + 1
  /\ bound = 0 /\ (\A t \in Starters : pc[t] \notin {"control", "bind"})
       => saved <= faults

\* _reconciling_runs: who initializes or reconciles a run has claimed it.
ClaimIsHeld ==
  /\ \A t \in Threads : pc[t] \in Claimed => claim[of[t]] = t
  /\ worker \in {"read", "work"} => claim[target] = "worker"

\* The cards of a run: the root is the first one, there is one work card, and
\* no run has cards but that of the request and the recovered ones.
CardsAreOrdered ==
  \A r \in Runs :
    /\ works[r] = IF "work" \in cards[r] THEN 1 ELSE 0
    /\ cards[r] # {} => "root" \in cards[r]
    /\ cards[r] # {} => r = bound \/ r \in resumed

\* What a thread has done so far for a run r.
Progressed(place, s, r) ==
  /\ place \in {"begin", "act", "finish", "root", "register"} =>
       \A i \in Steps : i < s => Operations[i] \in world[r]
  /\ place = "finish" => Operations[s] \in world[r]
  /\ place \in {"root", "register"} => s = 4
  /\ place = "register" => "root" \in world[r]

\* ... and which cards it has.
Registered(place, s, r) ==
  /\ place \in Claimed \ {"answer"} => "work" \notin cards[r]
  /\ place \in {"begin", "act", "finish"} /\ s = 4 => "root" \in cards[r]
  /\ place \in {"work", "answer"} => "root" \in cards[r]

PlaceIsTrue ==
  /\ \A t \in Threads : pc[t] \in Claimed =>
       Progressed(pc[t], step[t], of[t]) /\ Registered(pc[t], step[t], of[t])
  /\ worker = "work" => cards[target] = {"root"}

\* An operation that is done was performed.
LedgerIsTrue ==
  \A r \in Runs, s \in Steps :
    ledger[r][s] = "done" => Operations[s] \in world[r]

\* The request is answered with a run that has its root card.
AnswerIsTrue == req = "done" => bound # 0 /\ "root" \in cards[bound]

IInv ==
  /\ TypeOK /\ OneStarter /\ RunIsSaved /\ RunIsBound /\ RunsAreFaults
  /\ ClaimIsHeld /\ CardsAreOrdered /\ PlaceIsTrue /\ LedgerIsTrue
  /\ WorkIsPrepared /\ AnswerIsTrue

-----------------------------------------------------------------------------
(* Facts about the steps *)

\* The operations by their number, each with its effect.
LEMMA OperationsInOrder ==
  /\ Steps = 1..4
  /\ Operations[1] = "remote-branch" /\ Operations[2] = "workspace"
  /\ Operations[3] = "board" /\ Operations[4] = "complete-root"
  /\ \A s \in 1..4 : Operations[s] \in Effects
<1>1. Steps = 1..4
  BY DEF Steps, Operations
<1>2. /\ Operations[1] = "remote-branch" /\ Operations[2] = "workspace"
      /\ Operations[3] = "board" /\ Operations[4] = "complete-root"
  BY DEF Operations
<1>3. ASSUME NEW s \in 1..4 PROVE Operations[s] \in Effects
  <2>1. s = 1 \/ s = 2 \/ s = 3 \/ s = 4
    OBVIOUS
  <2> HIDE DEF Operations
  <2> QED
    BY <2>1, <1>2 DEF Effects
<1> QED
  BY <1>1, <1>2, <1>3

\* The invariant holds at first.
LEMMA InitIInv == Init => IInv
<1> SUFFICES ASSUME Init PROVE IInv
  OBVIOUS
<1> USE FaultAssumption, OperationsInOrder DEF Init, Starters, Threads, Runs
<1>1. TypeOK
  BY DEF TypeOK
<1>2. OneStarter /\ RunIsSaved /\ RunIsBound /\ RunsAreFaults
  BY DEF OneStarter, RunIsSaved, RunIsBound, RunsAreFaults
<1>3. ClaimIsHeld /\ CardsAreOrdered
  BY DEF ClaimIsHeld, CardsAreOrdered, Claimed
<1>4. PlaceIsTrue /\ LedgerIsTrue /\ WorkIsPrepared /\ AnswerIsTrue
  BY DEF PlaceIsTrue, Claimed, LedgerIsTrue, WorkIsPrepared, AnswerIsTrue
<1> QED
  BY <1>1, <1>2, <1>3, <1>4 DEF IInv

\* More faults allow as many runs.
LEMMA MoreFaults ==
  ASSUME NEW a \in Nat, NEW b \in Nat, NEW c \in Nat, a <= b, c <= a + 1
  PROVE  c <= b + 1
OBVIOUS

\* Whoever is at work is at work on one of Runs.
LEMMA WorkIsOnRuns ==
  ASSUME IInv
  PROVE  /\ \A t \in Threads : pc[t] \notin {"idle", "facts"} => of[t] \in Runs
         /\ worker # "idle" => target \in Runs
<1> USE FaultAssumption DEF IInv
<1>1. saved \in Nat /\ saved <= MaxFaults + 1
  BY DEF TypeOK
<1>2. 1..saved \subseteq Runs
  BY <1>1 DEF Runs
<1> QED
  BY <1>2 DEF RunIsSaved

\* What a thread may do to the request and the runs when it gives up or has
\* finished, while the others are anywhere.
Ends(t) ==
  /\ Leave(t)
  /\ UNCHANGED <<bound, saved, cards, works, intent, resumed>>
  /\ faults' \in faults..MaxFaults
  /\ control' \in [Runs -> {"none", "active", "dependency_degraded", "exception"}]
  /\ \A r \in Runs : control'[r] # "none" => r <= saved
  /\ \/ req' = req
     \/ t \in Starters /\ req' = "failed"
     \/ t \in Starters /\ req' = "done" /\ bound # 0 /\ "root" \in cards[bound]
  /\ ledger' \in [Runs -> [Steps -> {"none", "executing", "uncertain", "failed",
                                     "done"}]]
  /\ world' \in [Runs -> SUBSET Effects]
  /\ \A r \in Runs : world[r] \subseteq world'[r]
  /\ LedgerIsTrue'

\* The end of a thread's work keeps the invariant.
LEMMA EndsKeeps ==
  ASSUME IInv, NEW t \in Threads, pc[t] \notin {"idle", "control", "bind"},
         Ends(t)
  PROVE  IInv'
<1> USE FaultAssumption, OperationsInOrder DEF Starters, Threads, Runs
<1> USE DEF IInv, Ends, Leave, Goto, Release, intent
<1>1. TypeOK'
  BY DEF TypeOK
<1>2. OneStarter'
  BY DEF TypeOK, OneStarter
<1>3. RunIsSaved' /\ RunIsBound'
  BY DEF TypeOK, RunIsSaved, RunIsBound
<1>9. \A u \in Threads \ {t} : pc'[u] = pc[u] /\ of'[u] = of[u] /\ step'[u] = step[u]
  BY DEF TypeOK
<1>10. pc'[t] = "idle"
  BY DEF TypeOK
<1>11. \A r \in Runs : claim[r] # t => claim'[r] = claim[r]
  OBVIOUS
<1>4. RunsAreFaults'
  <2>0. /\ faults \in Nat /\ faults' \in Nat /\ faults <= faults'
        /\ saved \in Nat /\ saved' = saved
    BY DEF TypeOK
  <2>1. saved' <= faults' + 1
    BY <2>0 DEF RunsAreFaults
  <2>2. \A u \in Starters : pc'[u] \notin {"control", "bind"}
                              => pc[u] \notin {"control", "bind"}
    BY <1>9
  <2>3. ASSUME bound = 0, \A u \in Starters : pc'[u] \notin {"control", "bind"}
        PROVE  saved' <= faults'
    <3>1. saved <= faults
      BY <2>2, <2>3 DEF RunsAreFaults
    <3> QED
      BY <2>0, <3>1
  <2> QED
    BY <2>1, <2>3 DEF RunsAreFaults
<1>5. ClaimIsHeld'
  <2>1. ASSUME NEW u \in Threads, pc'[u] \in Claimed PROVE claim'[of'[u]] = u
    <3>1. u # t /\ pc[u] \in Claimed
      BY <2>1, <1>9, <1>10 DEF Claimed
    <3>2. claim[of[u]] = u /\ of[u] \in Runs
      BY <3>1, WorkIsOnRuns DEF ClaimIsHeld, Claimed
    <3> QED
      BY <3>1, <3>2, <1>9, <1>11
  <2>2. worker' \in {"read", "work"} => claim'[target'] = "worker"
    BY WorkIsOnRuns, <1>11 DEF ClaimIsHeld
  <2> QED
    BY <2>1, <2>2 DEF ClaimIsHeld
<1>6. CardsAreOrdered' /\ AnswerIsTrue'
  BY DEF TypeOK, CardsAreOrdered, AnswerIsTrue
<1>7. PlaceIsTrue'
  <2>1. ASSUME NEW u \in Threads, pc'[u] \in Claimed
        PROVE  /\ Progressed(pc[u], step[u], of[u])'
               /\ Registered(pc[u], step[u], of[u])'
    <3>1. u # t /\ pc[u] \in Claimed /\ pc'[u] = pc[u] /\ of'[u] = of[u]
          /\ step'[u] = step[u]
      BY <2>1, <1>9, <1>10 DEF Claimed
    <3>2. Progressed(pc[u], step[u], of[u]) /\ Registered(pc[u], step[u], of[u])
      BY <3>1 DEF PlaceIsTrue
    <3>3. world[of[u]] \subseteq world'[of[u]]
      BY <3>1, WorkIsOnRuns DEF Claimed
    <3> QED
      BY <3>1, <3>2, <3>3 DEF Progressed, Registered
  <2> QED
    BY <2>1 DEF PlaceIsTrue
<1>8. WorkIsPrepared'
  BY DEF TypeOK, WorkIsPrepared
<1> QED
  BY <1>1, <1>2, <1>3, <1>4, <1>5, <1>6, <1>7, <1>8 DEF IInv

\* Recording a status of an operation changes that status only.
LEMMA RecordKeeps ==
  ASSUME IInv, NEW t \in Threads, of[t] \in Runs,
         NEW status \in {"none", "executing", "uncertain", "failed", "done"},
         Record(t, status), world' \in [Runs -> SUBSET Effects],
         \A r \in Runs : world[r] \subseteq world'[r],
         status = "done" => Operations[step[t]] \in world'[of[t]]
  PROVE  /\ ledger' \in [Runs -> [Steps -> {"none", "executing", "uncertain",
                                            "failed", "done"}]]
         /\ LedgerIsTrue'
<1> USE DEF IInv, TypeOK
<1>1. step[t] \in Steps
  OBVIOUS
<1>2. ledger' = [ledger EXCEPT ![of[t]] = [ledger[of[t]] EXCEPT ![step[t]] = status]]
  BY DEF Record
<1>3. ledger[of[t]] \in [Steps -> {"none", "executing", "uncertain", "failed",
                                   "done"}]
  OBVIOUS
<1>4. [ledger[of[t]] EXCEPT ![step[t]] = status]
        \in [Steps -> {"none", "executing", "uncertain", "failed", "done"}]
  BY <1>3
<1>5. ASSUME NEW r \in Runs, NEW s \in Steps, ledger'[r][s] = "done"
      PROVE  Operations[s] \in world'[r]
  <2>1. CASE r = of[t] /\ s = step[t]
    BY <2>1, <1>1, <1>2, <1>3, <1>5
  <2>2. CASE ~(r = of[t] /\ s = step[t])
    <3>1. ledger'[r][s] = ledger[r][s]
      BY <2>2, <1>1, <1>2, <1>3
    <3> QED
      BY <3>1, <1>5 DEF LedgerIsTrue
  <2> QED
    BY <2>1, <2>2
<1> QED
  BY <1>2, <1>4, <1>5 DEF LedgerIsTrue

\* So does the ledger when only effects are added.
LEMMA LedgerStays ==
  ASSUME IInv, UNCHANGED ledger, \A r \in Runs : world[r] \subseteq world'[r]
  PROVE  LedgerIsTrue'
BY DEF IInv, LedgerIsTrue

\* An effect is added to those of a run.
LEMMA PerformAdds ==
  ASSUME IInv, NEW r \in Runs, NEW effect \in Effects, Perform(r, effect)
  PROVE  /\ world' \in [Runs -> SUBSET Effects]
         /\ \A q \in Runs : world[q] \subseteq world'[q]
         /\ effect \in world'[r]
BY DEF IInv, TypeOK, Perform

\* What Refuse and Outage do to the request and the state of a run.
LEMMA GivesUp ==
  ASSUME IInv, NEW t \in Threads, pc[t] # "idle", Refuse(t) \/ Outage(t)
  PROVE  /\ Leave(t) /\ UNCHANGED bound
         /\ control' \in [Runs -> {"none", "active", "dependency_degraded",
                                   "exception"}]
         /\ \A r \in Runs : control'[r] # "none" => r <= saved
         /\ req' = req \/ (t \in Starters /\ req' = "failed")
<1> USE FaultAssumption DEF IInv, TypeOK
<1>1. CASE Refuse(t)
  BY <1>1 DEF Refuse, SetRunException, Mutable, RunIsSaved, Starters
<1>2. CASE Outage(t)
  <2>1. CASE of[t] = 0 \/ pc[t] = "facts"
    BY <1>2, <2>1 DEF Outage, request, RunIsSaved
  <2>2. CASE of[t] # 0 /\ pc[t] # "facts"
    <3>1. of[t] \in Runs /\ of[t] <= saved
      BY <2>2, WorkIsOnRuns DEF RunIsSaved
    <3> QED
      BY <1>2, <2>2, <3>1 DEF Outage, request, RunIsSaved
  <2> QED
    BY <2>1, <2>2
<1> QED
  BY <1>1, <1>2

-----------------------------------------------------------------------------
(* The steps before the run is claimed *)

\* A thread takes up the request.
LEMMA StartKeeps ==
  ASSUME IInv, NEW t \in Starters, Start(t)
  PROVE  IInv'
<1> USE FaultAssumption, OperationsInOrder DEF Starters, Threads, IInv
<1>1. /\ pc[t] = "idle" /\ pc' = [pc EXCEPT ![t] = "facts"]
      /\ req \in {"none", "running"} /\ req' = "running"
      /\ \A u \in Starters : pc[u] = "idle"
      /\ faults' = faults \/ (faults < MaxFaults /\ faults' = faults + 1)
      /\ UNCHANGED <<bound, saved, control, ledger, world, cards, works, claim,
                     of, step, worker, target, resumed>>
  BY DEF Start, Goto, BeginRequestExecution, Fault, external, intent
<1>2. TypeOK'
  BY <1>1 DEF TypeOK
<1>3. OneStarter'
  BY <1>1 DEF OneStarter, TypeOK
<1>4. RunIsSaved' /\ RunIsBound'
  BY <1>1 DEF RunIsSaved, RunIsBound, TypeOK
<1>5. RunsAreFaults'
  <2>1. /\ faults \in Nat /\ faults' \in Nat /\ faults <= faults'
        /\ saved \in Nat
    BY <1>1 DEF TypeOK
  <2>2. \A u \in Starters : pc[u] \notin {"control", "bind"}
    BY <1>1
  <2>3. saved <= faults' + 1
    <3>1. saved <= faults + 1
      BY DEF RunsAreFaults
    <3> QED
      BY <2>1, <3>1, MoreFaults
  <2>4. ASSUME bound = 0 PROVE saved <= faults'
    <3>1. saved <= faults
      BY <2>2, <2>4 DEF RunsAreFaults
    <3> QED
      BY <2>1, <3>1
  <2> QED
    BY <1>1, <2>3, <2>4 DEF RunsAreFaults
<1>6. ClaimIsHeld' /\ PlaceIsTrue'
  BY <1>1 DEF ClaimIsHeld, PlaceIsTrue, Progressed, Registered, Claimed, TypeOK
<1>7. CardsAreOrdered' /\ LedgerIsTrue' /\ WorkIsPrepared' /\ AnswerIsTrue'
  BY <1>1 DEF CardsAreOrdered, LedgerIsTrue, WorkIsPrepared, AnswerIsTrue
<1> QED
  BY <1>2, <1>3, <1>4, <1>5, <1>6, <1>7

\* A starter takes the run of the request, or a new one if it has none.
LEMMA TakesRun ==
  ASSUME IInv, NEW t \in Threads, pc[t] = "facts", NEW run \in 1..saved',
         saved' = saved \/ (bound = 0 /\ saved' = saved + 1),
         run = bound \/ bound = 0,
         of' = [of EXCEPT ![t] = run], pc' = [pc EXCEPT ![t] = "control"],
         UNCHANGED <<req, bound, control, ledger, world, cards, works, claim, step,
                     worker, target, resumed, faults>>
  PROVE  IInv'
<1> USE FaultAssumption, OperationsInOrder DEF Starters, Threads, IInv
<1>1. t \in Starters /\ (\A u \in Starters : u # t => pc[u] = "idle")
  BY DEF RunIsBound, Claimed, OneStarter
<1>2. faults \in Nat /\ faults <= MaxFaults /\ saved \in Nat /\ bound \in 0..saved
  BY DEF TypeOK
<1>3. saved' <= faults + 1 /\ saved' <= MaxFaults + 1 /\ saved' \in Nat
      /\ saved <= saved'
  <2>1. bound = 0 => saved <= faults
    BY <1>1 DEF RunsAreFaults
  <2> QED
    BY <1>2, <2>1 DEF RunsAreFaults
<1>4. TypeOK'
  <2>1. of' \in [Threads -> 0..saved']
    BY <1>2, <1>3 DEF TypeOK
  <2>2. saved' \in 0..(MaxFaults + 1) /\ bound' \in 0..saved' /\ target' \in 0..saved'
    BY <1>2, <1>3 DEF TypeOK
  <2> QED
    BY <2>1, <2>2 DEF TypeOK
<1>5. OneStarter'
  BY <1>1 DEF OneStarter, TypeOK
<1>6. RunIsSaved'
  <2>1. 1..saved \subseteq 1..saved'
    BY <1>2, <1>3
  <2>2. \A u \in Threads : pc'[u] \notin {"idle", "facts"} => of'[u] \in 1..saved'
    BY <2>1 DEF RunIsSaved, TypeOK
  <2>3. worker' # "idle" => target' \in 1..saved'
    BY <2>1 DEF RunIsSaved
  <2>4. \A r \in Runs : control'[r] # "none" => r <= saved'
    BY <1>2, <1>3 DEF RunIsSaved, Runs
  <2> QED
    BY <2>2, <2>3, <2>4 DEF RunIsSaved
<1>7. RunIsBound'
  BY <1>1 DEF RunIsBound, TypeOK
<1>8. RunsAreFaults'
  BY <1>1, <1>2, <1>3 DEF RunsAreFaults, TypeOK
<1>9. ClaimIsHeld' /\ PlaceIsTrue'
  BY DEF ClaimIsHeld, PlaceIsTrue, Progressed, Registered, Claimed, TypeOK
<1>10. CardsAreOrdered' /\ LedgerIsTrue' /\ WorkIsPrepared' /\ AnswerIsTrue'
  BY DEF CardsAreOrdered, LedgerIsTrue, WorkIsPrepared, AnswerIsTrue
<1> QED
  BY <1>4, <1>5, <1>6, <1>7, <1>8, <1>9, <1>10

\* A start finds its saved run, or validates the start.
LEMMA FactsKeep ==
  ASSUME IInv, NEW t \in Threads, PersistedRun(t) \/ ValidateStart(t)
  PROVE  IInv'
<1> USE FaultAssumption
<1>0. saved \in Nat /\ bound \in 0..saved /\ faults \in 0..MaxFaults
  BY DEF IInv, TypeOK
<1>1. CASE PersistedRun(t)
  <2>1. bound \in 1..saved'
    BY <1>0, <1>1 DEF PersistedRun
  <2> QED
    BY <1>1, <2>1, TakesRun DEF PersistedRun, Goto, request, external, intent
<1>2. CASE ValidateStart(t) /\ saved' # saved
  <2>1. /\ pc[t] = "facts" /\ bound = 0 /\ saved' = saved + 1
        /\ of' = [of EXCEPT ![t] = saved'] /\ pc' = [pc EXCEPT ![t] = "control"]
        /\ UNCHANGED <<req, bound, control, ledger, world, cards, works, claim,
                       step, worker, target, resumed, faults>>
    BY <1>2 DEF ValidateStart, Goto, request, external, intent
  <2>2. saved' \in 1..saved'
    BY <1>0, <2>1
  <2> QED
    BY <2>1, <2>2, TakesRun
<1>3. CASE ValidateStart(t) /\ saved' = saved
  <2>1. /\ pc[t] = "facts" /\ Fault /\ (Refuse(t) \/ Outage(t))
        /\ UNCHANGED <<ledger, world, cards, works, worker, target, resumed>>
    BY <1>0, <1>3 DEF ValidateStart, external, intent
  <2>2. faults' \in faults..MaxFaults
    BY <1>0, <2>1 DEF Fault
  <2>3. LedgerIsTrue'
    BY <2>1, LedgerStays
  <2>4. Ends(t)
    BY <1>3, <2>1, <2>2, <2>3, GivesUp DEF Ends, IInv, TypeOK, intent
  <2> QED
    BY <2>1, <2>4, EndsKeeps
<1> QED
  BY <1>1, <1>2, <1>3

\* The request and the state of the run it has.
LEMMA ControlKeeps ==
  ASSUME IInv, NEW t \in Threads, EnsureRunControl(t)
  PROVE  IInv'
<1> USE FaultAssumption, OperationsInOrder DEF Starters, Threads, IInv
<1>1. /\ pc[t] = "control" /\ pc' = [pc EXCEPT ![t] = "bind"]
      /\ control' = [control EXCEPT ![of[t]] = IF @ = "none" THEN "active" ELSE @]
      /\ UNCHANGED <<req, bound, saved, ledger, world, cards, works, claim, of,
                     step, worker, target, resumed, faults>>
  BY DEF EnsureRunControl, Goto, request, external, intent
<1>2. TypeOK' /\ OneStarter'
  BY <1>1 DEF TypeOK, OneStarter
<1>3. RunIsSaved' /\ RunIsBound'
  BY <1>1 DEF RunIsSaved, RunIsBound, TypeOK, Claimed
<1>4. RunsAreFaults'
  BY <1>1 DEF RunsAreFaults, TypeOK, RunIsBound, Claimed
<1>5. ClaimIsHeld' /\ PlaceIsTrue'
  BY <1>1 DEF ClaimIsHeld, PlaceIsTrue, Progressed, Registered, Claimed, TypeOK
<1>6. CardsAreOrdered' /\ LedgerIsTrue' /\ WorkIsPrepared' /\ AnswerIsTrue'
  BY <1>1 DEF CardsAreOrdered, LedgerIsTrue, WorkIsPrepared, AnswerIsTrue
<1> QED
  BY <1>2, <1>3, <1>4, <1>5, <1>6

\* The binding is never refused: one starter executes the request.
LEMMA BindKeeps ==
  ASSUME IInv, NEW t \in Threads, BindRequestRun(t)
  PROVE  IInv' /\ (bound # 0 => bound' = bound) /\ req' = req
<1> USE FaultAssumption, OperationsInOrder DEF Starters, Threads, IInv
<1>1. pc[t] = "bind" /\ t \in Starters
  BY DEF BindRequestRun, RunIsBound, Claimed
<1>2. req = "running" /\ bound \in {0, of[t]}
  BY <1>1 DEF OneStarter, RunIsBound
<1>3. /\ pc' = [pc EXCEPT ![t] = "claim"] /\ bound' = of[t]
      /\ UNCHANGED <<req, saved, control, ledger, world, cards, works, claim, of,
                     step, worker, target, resumed, faults>>
  BY <1>2 DEF BindRequestRun, Goto, external, intent
<1>4. of[t] \in 1..saved /\ of[t] # 0
  BY <1>1 DEF RunIsSaved
<1>5. TypeOK' /\ OneStarter'
  BY <1>1, <1>3, <1>4 DEF TypeOK, OneStarter
<1>6. RunIsSaved' /\ RunIsBound'
  BY <1>1, <1>2, <1>3, <1>4 DEF RunIsSaved, RunIsBound, OneStarter, TypeOK
<1>7. RunsAreFaults'
  BY <1>1, <1>3, <1>4 DEF RunsAreFaults
<1>8. ClaimIsHeld' /\ PlaceIsTrue'
  BY <1>1, <1>3 DEF ClaimIsHeld, PlaceIsTrue, Progressed, Registered, Claimed,
     TypeOK
<1>9. CardsAreOrdered' /\ LedgerIsTrue' /\ WorkIsPrepared' /\ AnswerIsTrue'
  <2>1. \A r \in Runs : r # 0
    BY DEF Runs
  <2> QED
    BY <1>2, <1>3, <1>4, <2>1
       DEF CardsAreOrdered, LedgerIsTrue, WorkIsPrepared, AnswerIsTrue
<1> QED
  BY <1>2, <1>3, <1>5, <1>6, <1>7, <1>8, <1>9

-----------------------------------------------------------------------------
(* The steps of a thread that has claimed the run *)

\* A claim, and the claim of a run that has cards: nobody else has the run.
LEMMA ClaimKeeps ==
  ASSUME IInv, NEW t \in Threads, BeginReconcile(t)
  PROVE  IInv'
<1> USE FaultAssumption, OperationsInOrder DEF Starters, Threads, IInv
<1>0. pc[t] = "claim" /\ of[t] \in Runs
  BY WorkIsOnRuns DEF BeginReconcile
<1>1. CASE claim[of[t]] = "none"
  <2> DEFINE place == IF cards[of[t]] # {} THEN "answer" ELSE "begin"
  <2>0. /\ claim' = [claim EXCEPT ![of[t]] = t]
        /\ pc' = [pc EXCEPT ![t] = place]
        /\ step' = [step EXCEPT ![t] = 1]
        /\ UNCHANGED <<req, bound, saved, control, ledger, world, cards, works, of,
                       worker, target, resumed, faults>>
    BY <1>1 DEF BeginReconcile, Claimable, Goto, request, external, intent
  <2>1. /\ place \in {"answer", "begin"}
        /\ place = "answer" => "root" \in cards[of[t]]
        /\ place = "begin" => cards[of[t]] = {}
    BY <1>0 DEF CardsAreOrdered
  <2> HIDE DEF place
  <2>2. TypeOK' /\ OneStarter'
    BY <1>0, <2>0, <2>1 DEF TypeOK, OneStarter
  <2>3. RunIsSaved' /\ RunIsBound' /\ RunsAreFaults'
    BY <1>0, <2>0, <2>1 DEF RunIsSaved, RunIsBound, RunsAreFaults, TypeOK, Claimed
  <2>4. ClaimIsHeld'
    BY <1>0, <1>1, <2>0, <2>1, WorkIsOnRuns DEF ClaimIsHeld, Claimed, TypeOK
  <2>5. PlaceIsTrue'
    <3>1. Progressed(place, 1, of[t]) /\ Registered(place, 1, of[t])
      BY <2>1 DEF Progressed, Registered
    <3>2. ASSUME NEW u \in Threads, pc'[u] \in Claimed
          PROVE  /\ Progressed(pc[u], step[u], of[u])'
                 /\ Registered(pc[u], step[u], of[u])'
      <4>1. CASE u = t
        <5>1. pc'[u] = place /\ step'[u] = 1 /\ of'[u] = of[t]
          BY <4>1, <2>0 DEF TypeOK
        <5> QED
          BY <5>1, <3>1, <2>0 DEF Progressed, Registered
      <4>2. CASE u # t
        <5>1. pc'[u] = pc[u] /\ step'[u] = step[u] /\ of'[u] = of[u]
          BY <4>2, <2>0 DEF TypeOK
        <5>2. Progressed(pc[u], step[u], of[u]) /\ Registered(pc[u], step[u], of[u])
          BY <5>1, <3>2 DEF PlaceIsTrue
        <5> QED
          BY <5>1, <5>2, <2>0 DEF Progressed, Registered
      <4> QED
        BY <4>1, <4>2
    <3> QED
      BY <3>2, <2>0 DEF PlaceIsTrue
  <2>6. CardsAreOrdered' /\ LedgerIsTrue' /\ WorkIsPrepared' /\ AnswerIsTrue'
    BY <2>0 DEF CardsAreOrdered, LedgerIsTrue, WorkIsPrepared, AnswerIsTrue
  <2> QED
    BY <2>2, <2>3, <2>4, <2>5, <2>6
<1>2. CASE claim[of[t]] # "none"
  <2>1. Leave(t) /\ UNCHANGED <<req, bound, saved, control, ledger, world, cards,
                                works, worker, target, resumed, faults>>
    BY <1>2 DEF BeginReconcile, Claimable, request, external, intent
  <2>2. LedgerIsTrue'
    BY <2>1, LedgerStays
  <2>3. Ends(t)
    BY <2>1, <2>2 DEF Ends, TypeOK, RunIsSaved, intent
  <2> QED
    BY <1>0, <2>3, EndsKeeps
<1> QED
  BY <1>1, <1>2

\* A thread that goes on with its run, to a place it has earned.
LEMMA ProceedsKeeps ==
  ASSUME IInv, NEW t \in Threads, pc[t] \in Claimed,
         NEW place \in Claimed, NEW s \in Steps,
         pc' = [pc EXCEPT ![t] = place], step' = [step EXCEPT ![t] = s],
         UNCHANGED <<req, bound, saved, control, cards, works, claim, of, worker,
                     target, resumed, faults>>,
         ledger' \in [Runs -> [Steps -> {"none", "executing", "uncertain",
                                         "failed", "done"}]],
         world' \in [Runs -> SUBSET Effects],
         \A r \in Runs : world[r] \subseteq world'[r],
         LedgerIsTrue',
         Progressed(place, s, of[t])', Registered(place, s, of[t])
  PROVE  IInv'
<1> USE FaultAssumption, OperationsInOrder DEF Starters, Threads, IInv
<1>0. pc'[t] = place /\ step'[t] = s
      /\ \A u \in Threads : u # t => pc'[u] = pc[u] /\ step'[u] = step[u]
  BY DEF TypeOK
<1>1. TypeOK'
  <2>1. pc' \in [Threads -> {"idle", "facts", "control", "bind", "claim", "begin",
                         "act", "finish", "root", "register", "work", "answer"}]
    BY DEF TypeOK, Claimed
  <2> QED
    BY <2>1 DEF TypeOK
<1>2. OneStarter' /\ RunIsSaved' /\ RunIsBound'
  BY <1>0 DEF OneStarter, RunIsSaved, RunIsBound, Claimed
<1>3. RunsAreFaults'
  <2>1. \A u \in Starters : pc'[u] \notin {"control", "bind"}
                              => pc[u] \notin {"control", "bind"}
    BY <1>0 DEF Claimed
  <2> QED
    BY <2>1 DEF RunsAreFaults
<1>4. ClaimIsHeld'
  BY <1>0 DEF ClaimIsHeld
<1>5. PlaceIsTrue'
  <2>1. ASSUME NEW u \in Threads, pc'[u] \in Claimed
        PROVE  /\ Progressed(pc[u], step[u], of[u])'
               /\ Registered(pc[u], step[u], of[u])'
    <3>1. CASE u = t
      BY <3>1, <1>0 DEF Progressed, Registered
    <3>2. CASE u # t
      <4>1. pc'[u] = pc[u] /\ step'[u] = step[u] /\ of'[u] = of[u]
        BY <3>2, <1>0
      <4>2. Progressed(pc[u], step[u], of[u]) /\ Registered(pc[u], step[u], of[u])
        BY <4>1, <2>1 DEF PlaceIsTrue
      <4>3. world[of[u]] \subseteq world'[of[u]]
        BY <4>1, <2>1, WorkIsOnRuns DEF Claimed
      <4> QED
        BY <4>1, <4>2, <4>3 DEF Progressed, Registered
    <3> QED
      BY <3>1, <3>2
  <2> QED
    BY <2>1 DEF PlaceIsTrue
<1>6. CardsAreOrdered' /\ WorkIsPrepared' /\ AnswerIsTrue'
  BY DEF CardsAreOrdered, WorkIsPrepared, AnswerIsTrue
<1> QED
  BY <1>1, <1>2, <1>3, <1>4, <1>5, <1>6

\* An operation that was performed is left for the next one.
LEMMA NextStepKeeps ==
  ASSUME IInv, NEW t \in Threads, pc[t] \in {"begin", "finish"},
         Operations[step[t]] \in world[of[t]], NextStep(t),
         UNCHANGED <<req, bound, saved, control, world, cards, works, claim,
                     worker, target, resumed, faults>>,
         ledger' \in [Runs -> [Steps -> {"none", "executing", "uncertain",
                                         "failed", "done"}]],
         LedgerIsTrue'
  PROVE  IInv'
<1> USE DEF IInv
<1>1. step[t] \in 1..4 /\ pc[t] \in Claimed
  BY OperationsInOrder DEF TypeOK, Claimed
<1>2. PICK place \in Claimed, s \in Steps :
        /\ place = CASE step[t] = 3 -> "root"
                     [] step[t] = 4 -> "work"
                     [] OTHER -> "begin"
        /\ s = IF step[t] = 4 THEN 4 ELSE step[t] + 1
  <2>1. (IF step[t] = 4 THEN 4 ELSE step[t] + 1) \in Steps
    BY <1>1, OperationsInOrder
  <2>2. (CASE step[t] = 3 -> "root"
           [] step[t] = 4 -> "work"
           [] OTHER -> "begin") \in Claimed
    BY DEF Claimed
  <2> QED
    BY <2>1, <2>2
<1>3. /\ pc' = [pc EXCEPT ![t] = place] /\ step' = [step EXCEPT ![t] = s]
      /\ UNCHANGED of
  BY <1>2 DEF NextStep, Goto, TypeOK
<1>4. Progressed(pc[t], step[t], of[t]) /\ Registered(pc[t], step[t], of[t])
  BY <1>1 DEF PlaceIsTrue
<1>5. \A i \in 1..4 : i <= step[t] => Operations[i] \in world[of[t]]
  <2> SUFFICES ASSUME NEW i \in 1..4, i <= step[t]
               PROVE  Operations[i] \in world[of[t]]
    OBVIOUS
  <2>1. i = step[t] \/ i < step[t]
    BY <1>1
  <2> QED
    BY <2>1, <1>4, OperationsInOrder DEF Progressed
<1>6. Progressed(place, s, of[t])'
  <2>1. /\ place \in {"begin", "root", "work"}
        /\ place # "work" => s = step[t] + 1
        /\ place = "root" => s = 4
    BY <1>1, <1>2
  <2>2. ASSUME place # "work", NEW i \in Steps, i < s
        PROVE  Operations[i] \in world'[of'[t]]
    <3>1. i \in 1..4 /\ i <= step[t]
      BY <1>1, <2>1, <2>2, OperationsInOrder
    <3> QED
      BY <3>1, <1>3, <1>5
  <2> QED
    BY <2>1, <2>2 DEF Progressed
<1>7. Registered(place, s, of[t])
  BY <1>1, <1>2, <1>4 DEF Registered, Claimed
<1>8. \A r \in Runs : world[r] \subseteq world'[r]
  OBVIOUS
<1>9. world' \in [Runs -> SUBSET Effects]
  BY DEF TypeOK
<1> QED
  BY <1>1, <1>3, <1>6, <1>7, <1>8, <1>9, ProceedsKeeps

\* operation_result, and the operation that is entered in the ledger.
LEMMA BeginOperationKeeps ==
  ASSUME IInv, NEW t \in Threads, BeginOperation(t)
  PROVE  IInv'
<1> USE DEF IInv
<1>0. /\ pc[t] = "begin" /\ of[t] \in Runs /\ step[t] \in 1..4
      /\ Progressed("begin", step[t], of[t]) /\ Registered("begin", step[t], of[t])
      /\ UNCHANGED <<req, bound, saved, control, world, cards, works, claim, of,
                     worker, target, resumed, faults>>
  BY WorkIsOnRuns, OperationsInOrder DEF BeginOperation, NextStep, PlaceIsTrue,
     Claimed, TypeOK, request, external, intent
<1>1. CASE ledger[of[t]][step[t]] = "done"
  <2>1. Operations[step[t]] \in world[of[t]]
    BY <1>0, <1>1, OperationsInOrder DEF LedgerIsTrue
  <2>2. NextStep(t) /\ UNCHANGED ledger
    BY <1>1 DEF BeginOperation
  <2>3. LedgerIsTrue' /\ ledger' \in [Runs -> [Steps ->
          {"none", "executing", "uncertain", "failed", "done"}]]
    BY <1>0, <2>2, LedgerStays DEF TypeOK
  <2> QED
    BY <1>0, <2>1, <2>2, <2>3, NextStepKeeps
<1>2. CASE ledger[of[t]][step[t]] # "done"
  <2>1. Record(t, "executing") /\ pc' = [pc EXCEPT ![t] = "act"]
        /\ step' = [step EXCEPT ![t] = step[t]]
    BY <1>2 DEF BeginOperation, Goto, TypeOK
  <2>2. /\ ledger' \in [Runs -> [Steps -> {"none", "executing", "uncertain",
                                           "failed", "done"}]]
        /\ LedgerIsTrue'
    BY <1>0, <2>1, RecordKeeps DEF TypeOK
  <2>3. Progressed("act", step[t], of[t])' /\ Registered("act", step[t], of[t])
    BY <1>0, <2>1 DEF Progressed, Registered, Claimed, TypeOK
  <2> QED
    BY <1>0, <2>1, <2>2, <2>3, ProceedsKeeps DEF Claimed, TypeOK
<1> QED
  BY <1>1, <1>2

\* _operation records what was performed.
LEMMA FinishOperationKeeps ==
  ASSUME IInv, NEW t \in Threads, FinishOperation(t)
  PROVE  IInv'
<1> USE DEF IInv
<1>0. /\ pc[t] = "finish" /\ of[t] \in Runs /\ step[t] \in 1..4
      /\ Operations[step[t]] \in world[of[t]]
      /\ UNCHANGED <<req, bound, saved, control, world, cards, works, claim, of,
                     worker, target, resumed, faults>>
  BY WorkIsOnRuns, OperationsInOrder DEF FinishOperation, NextStep, PlaceIsTrue,
     Progressed, Claimed, TypeOK, request, external, intent
<1>1. /\ ledger' \in [Runs -> [Steps -> {"none", "executing", "uncertain",
                                         "failed", "done"}]]
      /\ LedgerIsTrue'
  BY <1>0, RecordKeeps DEF FinishOperation, TypeOK
<1> QED
  BY <1>0, <1>1, NextStepKeeps DEF FinishOperation, TypeOK

\* The call: an operation is performed, refused, or fails at an unknown point.
LEMMA ActKeeps ==
  ASSUME IInv, NEW t \in Threads, Act(t)
  PROVE  IInv'
<1> USE FaultAssumption DEF IInv
<1>0. /\ pc[t] = "act" /\ of[t] \in Runs /\ step[t] \in Steps
      /\ Operations[step[t]] \in Effects /\ faults \in 0..MaxFaults
      /\ Progressed("act", step[t], of[t]) /\ Registered("act", step[t], of[t])
      /\ UNCHANGED <<saved, cards, works, worker, target, resumed>>
  BY WorkIsOnRuns, OperationsInOrder DEF Act, PlaceIsTrue, Claimed, TypeOK, intent
<1>1. CASE /\ Perform(of[t], Operations[step[t]])
           /\ Goto(t, "finish")
           /\ UNCHANGED <<request, control, ledger, claim, of, step, faults>>
  <2>1. /\ world' \in [Runs -> SUBSET Effects]
        /\ \A q \in Runs : world[q] \subseteq world'[q]
        /\ Operations[step[t]] \in world'[of[t]]
    BY <1>0, <1>1, PerformAdds
  <2>2. LedgerIsTrue' /\ ledger' \in [Runs -> [Steps ->
          {"none", "executing", "uncertain", "failed", "done"}]]
    BY <1>1, <2>1, LedgerStays DEF TypeOK
  <2>3. PICK s \in Steps : s = step[t]
    BY <1>0
  <2>4. /\ Progressed("finish", s, of[t])' /\ Registered("finish", s, of[t])
    <3>1. world[of[t]] \subseteq world'[of[t]]
      BY <1>0, <2>1
    <3> QED
      BY <1>0, <1>1, <2>1, <2>3, <3>1 DEF Progressed, Registered, Claimed
  <2>5. pc' = [pc EXCEPT ![t] = "finish"] /\ step' = [step EXCEPT ![t] = s]
        /\ UNCHANGED <<req, bound, control, claim, of, faults>>
    BY <1>1, <2>3 DEF Goto, TypeOK, request
  <2>6. "finish" \in Claimed /\ pc[t] \in Claimed
    BY <1>0 DEF Claimed
  <2> QED
    BY <1>0, <2>1, <2>2, <2>4, <2>5, <2>6, ProceedsKeeps
<1>2. CASE /\ \E status \in {"failed", "uncertain"} : Record(t, status)
           /\ Refuse(t) \/ Outage(t)
           /\ UNCHANGED world \/ Perform(of[t], Operations[step[t]])
           /\ UNCHANGED faults \/ Fault
  <2>1. /\ world' \in [Runs -> SUBSET Effects]
        /\ \A q \in Runs : world[q] \subseteq world'[q]
    BY <1>0, <1>2, PerformAdds DEF TypeOK
  <2>2. LedgerIsTrue' /\ ledger' \in [Runs -> [Steps ->
          {"none", "executing", "uncertain", "failed", "done"}]]
    BY <1>0, <1>2, <2>1, RecordKeeps
  <2>3. faults' \in faults..MaxFaults
    BY <1>0, <1>2 DEF Fault
  <2>4. Ends(t)
    BY <1>0, <1>2, <2>1, <2>2, <2>3, GivesUp DEF Ends, intent
  <2> QED
    BY <1>0, <2>4, EndsKeeps
<1> QED
  BY <1>1, <1>2 DEF Act

\* create_root, once or again.
LEMMA CreateRootKeeps ==
  ASSUME IInv, NEW t \in Threads, CreateRoot(t)
  PROVE  IInv'
<1> USE FaultAssumption DEF IInv
<1>0. /\ pc[t] = "root" /\ of[t] \in Runs /\ step[t] \in Steps
      /\ "root" \in Effects /\ faults \in 0..MaxFaults
      /\ Progressed("root", step[t], of[t]) /\ Registered("root", step[t], of[t])
      /\ UNCHANGED <<saved, ledger, cards, works, worker, target, resumed>>
  BY WorkIsOnRuns DEF CreateRoot, PlaceIsTrue, Claimed, TypeOK, intent, Effects
<1>1. CASE /\ Perform(of[t], "root")
           /\ Goto(t, "register")
           /\ UNCHANGED <<request, control, claim, of, step, faults>>
  <2>1. /\ world' \in [Runs -> SUBSET Effects]
        /\ \A q \in Runs : world[q] \subseteq world'[q]
        /\ "root" \in world'[of[t]]
    BY <1>0, <1>1, PerformAdds
  <2>2. LedgerIsTrue' /\ ledger' \in [Runs -> [Steps ->
          {"none", "executing", "uncertain", "failed", "done"}]]
    BY <1>0, <2>1, LedgerStays DEF TypeOK
  <2>3. PICK s \in Steps : s = step[t]
    BY <1>0
  <2>4. /\ Progressed("register", s, of[t])' /\ Registered("register", s, of[t])
    <3>1. world[of[t]] \subseteq world'[of[t]]
      BY <1>0, <2>1
    <3> QED
      BY <1>0, <1>1, <2>1, <2>3, <3>1 DEF Progressed, Registered, Claimed
  <2>5. pc' = [pc EXCEPT ![t] = "register"] /\ step' = [step EXCEPT ![t] = s]
        /\ UNCHANGED <<req, bound, control, claim, of, faults>>
    BY <1>1, <2>3 DEF Goto, TypeOK, request
  <2>6. "register" \in Claimed /\ pc[t] \in Claimed
    BY <1>0 DEF Claimed
  <2> QED
    BY <1>0, <2>1, <2>2, <2>4, <2>5, <2>6, ProceedsKeeps
<1>2. CASE Fault /\ Outage(t) /\ (UNCHANGED world \/ Perform(of[t], "root"))
  <2>1. /\ world' \in [Runs -> SUBSET Effects]
        /\ \A q \in Runs : world[q] \subseteq world'[q]
    BY <1>0, <1>2, PerformAdds DEF TypeOK
  <2>2. LedgerIsTrue' /\ ledger' \in [Runs -> [Steps ->
          {"none", "executing", "uncertain", "failed", "done"}]]
    BY <1>0, <2>1, LedgerStays DEF TypeOK
  <2>3. faults' \in faults..MaxFaults
    BY <1>0, <1>2 DEF Fault
  <2>4. Ends(t)
    BY <1>0, <1>2, <2>1, <2>2, <2>3, GivesUp DEF Ends, intent
  <2> QED
    BY <1>0, <2>4, EndsKeeps
<1> QED
  BY <1>1, <1>2 DEF CreateRoot

\* The root card enters the registry when everything before it is prepared.
LEMMA RegisterRootKeeps ==
  ASSUME IInv, NEW t \in Threads, RegisterRoot(t)
  PROVE  IInv'
<1> USE OperationsInOrder DEF Starters, Threads, IInv
<1>0. /\ pc[t] = "register" /\ pc[t] \in Claimed /\ of[t] \in Runs
      /\ claim[of[t]] = t /\ step[t] = 4
      /\ Progressed("register", step[t], of[t])
      /\ Registered("register", step[t], of[t])
      /\ cards' = [cards EXCEPT ![of[t]] = @ \cup {"root"}]
      /\ pc' = [pc EXCEPT ![t] = "begin"]
      /\ UNCHANGED <<req, bound, saved, control, ledger, world, works, claim, of,
                     step, worker, target, resumed, faults>>
  BY WorkIsOnRuns DEF RegisterRoot, Goto, PlaceIsTrue, Progressed, ClaimIsHeld,
     Claimed, request, intent
<1>1. /\ pc'[t] = "begin"
      /\ \A u \in Threads : u # t => pc'[u] = pc[u]
      /\ cards'[of[t]] = cards[of[t]] \cup {"root"}
      /\ \A r \in Runs : r # of[t] => cards'[r] = cards[r]
  BY <1>0 DEF TypeOK
<1>2. TypeOK'
  BY <1>0 DEF TypeOK
<1>3. OneStarter' /\ RunIsSaved' /\ RunIsBound'
  BY <1>0, <1>1 DEF OneStarter, RunIsSaved, RunIsBound, Claimed
<1>4. RunsAreFaults'
  <2>1. \A u \in Starters : pc'[u] \notin {"control", "bind"}
                              => pc[u] \notin {"control", "bind"}
    BY <1>0, <1>1
  <2> QED
    BY <1>0, <2>1 DEF RunsAreFaults
<1>5. ClaimIsHeld'
  BY <1>0, <1>1 DEF ClaimIsHeld
<1>6. CardsAreOrdered' /\ AnswerIsTrue'
  <2>1. of[t] = bound \/ of[t] \in resumed
    BY <1>0 DEF RunIsBound
  <2>2. "work" \notin cards[of[t]]
    BY <1>0 DEF Registered, Claimed
  <2>3. CardsAreOrdered'
    BY <1>0, <1>1, <2>1, <2>2 DEF CardsAreOrdered
  <2>4. req = "done" => "root" \in cards'[bound] /\ bound # 0
    <3>1. bound # 0 => bound \in Runs
      BY FaultAssumption DEF TypeOK, Runs
    <3> QED
      BY <1>1, <3>1 DEF AnswerIsTrue
  <2> QED
    BY <1>0, <2>3, <2>4 DEF AnswerIsTrue
<1>7. PlaceIsTrue'
  <2>1. ASSUME NEW u \in Threads, pc'[u] \in Claimed
        PROVE  /\ Progressed(pc[u], step[u], of[u])'
               /\ Registered(pc[u], step[u], of[u])'
    <3>1. CASE u = t
      BY <3>1, <1>0, <1>1 DEF Progressed, Registered, Claimed
    <3>2. CASE u # t
      <4>1. pc'[u] = pc[u] /\ pc[u] \in Claimed
        BY <3>2, <1>1, <2>1
      <4>2. of[u] # of[t] /\ of[u] \in Runs
        BY <3>2, <4>1, <1>0, WorkIsOnRuns DEF ClaimIsHeld, Claimed
      <4>3. cards'[of[u]] = cards[of[u]]
        BY <4>2, <1>1
      <4>4. Progressed(pc[u], step[u], of[u]) /\ Registered(pc[u], step[u], of[u])
        BY <4>1 DEF PlaceIsTrue
      <4> QED
        BY <4>1, <4>3, <4>4, <1>0 DEF Progressed, Registered
    <3> QED
      BY <3>1, <3>2
  <2>2. worker = "work" => cards'[target] = {"root"}
    BY <1>0, <1>1, WorkIsOnRuns DEF PlaceIsTrue, ClaimIsHeld
  <2> QED
    BY <1>0, <2>1, <2>2 DEF PlaceIsTrue
<1>8. LedgerIsTrue' /\ WorkIsPrepared'
  <2>1. {"remote-branch", "workspace", "board", "root"} \subseteq world[of[t]]
    <3>1. \A i \in 1..3 : Operations[i] \in world[of[t]]
      BY <1>0 DEF Progressed
    <3> QED
      BY <1>0, <3>1 DEF Progressed
  <2> QED
    BY <1>0, <1>1, <2>1 DEF LedgerIsTrue, WorkIsPrepared
<1> QED
  BY <1>2, <1>3, <1>4, <1>5, <1>6, <1>7, <1>8

\* What the first work card adds to a run that has its root card.
LEMMA AddWorkAdds ==
  ASSUME IInv, NEW r \in Runs, "root" \in cards[r], "work" \notin cards[r],
         AddWork(r), UNCHANGED <<req, bound, ledger, resumed>>
  PROVE  /\ cards' \in [Runs -> SUBSET {"root", "work"}] /\ works' \in [Runs -> Nat]
         /\ \A q \in Runs : q # r => cards'[q] = cards[q]
         /\ "root" \in cards'[r] /\ UNCHANGED world
         /\ CardsAreOrdered' /\ WorkIsPrepared' /\ AnswerIsTrue' /\ LedgerIsTrue'
<1> USE DEF IInv, AddWork
<1>1. /\ cards' \in [Runs -> SUBSET {"root", "work"}] /\ works' \in [Runs -> Nat]
      /\ \A q \in Runs : q # r => cards'[q] = cards[q] /\ works'[q] = works[q]
      /\ cards'[r] = cards[r] \cup {"work"} /\ works'[r] = 1
  BY DEF TypeOK
<1>2. CardsAreOrdered' /\ WorkIsPrepared' /\ LedgerIsTrue'
  BY <1>1 DEF CardsAreOrdered, WorkIsPrepared, LedgerIsTrue
<1>3. bound # 0 => bound \in Runs
  BY FaultAssumption DEF TypeOK, Runs
<1>4. AnswerIsTrue'
  BY <1>1, <1>3 DEF AnswerIsTrue
<1> QED
  BY <1>1, <1>2, <1>4

\* The first work card is created, or found.
LEMMA CreateWorkKeeps ==
  ASSUME IInv, NEW t \in Threads, CreateWork(t)
  PROVE  IInv'
<1> USE FaultAssumption, OperationsInOrder DEF Starters, Threads, IInv
<1>0. /\ pc[t] = "work" /\ pc[t] \in Claimed /\ of[t] \in Runs
      /\ claim[of[t]] = t /\ Registered("work", step[t], of[t])
      /\ faults \in 0..MaxFaults
      /\ UNCHANGED <<saved, ledger, worker, target, resumed>>
  BY WorkIsOnRuns DEF CreateWork, PlaceIsTrue, ClaimIsHeld, Claimed, intent, TypeOK
<1>1. CASE /\ AddWork(of[t])
           /\ Goto(t, "answer")
           /\ UNCHANGED <<request, control, claim, of, step, faults>>
  <2>1. /\ pc'[t] = "answer"
        /\ \A u \in Threads : u # t => pc'[u] = pc[u]
        /\ UNCHANGED <<req, bound, control, claim, of, step, faults>>
    BY <1>1 DEF Goto, TypeOK, request
  <2>2. /\ cards' \in [Runs -> SUBSET {"root", "work"}] /\ works' \in [Runs -> Nat]
        /\ \A q \in Runs : q # of[t] => cards'[q] = cards[q]
        /\ "root" \in cards'[of[t]] /\ UNCHANGED world
        /\ CardsAreOrdered' /\ WorkIsPrepared' /\ AnswerIsTrue' /\ LedgerIsTrue'
    <3>1. "root" \in cards[of[t]] /\ "work" \notin cards[of[t]]
      BY <1>0 DEF Registered, Claimed
    <3> QED
      BY <1>0, <1>1, <2>1, <3>1, AddWorkAdds
  <2>3. TypeOK'
    BY <1>0, <1>1, <2>1, <2>2 DEF TypeOK, Goto
  <2>4. OneStarter' /\ RunIsSaved' /\ RunIsBound'
    BY <1>0, <2>1 DEF OneStarter, RunIsSaved, RunIsBound, Claimed
  <2>5. RunsAreFaults'
    <3>1. \A u \in Starters : pc'[u] \notin {"control", "bind"}
                                => pc[u] \notin {"control", "bind"}
      BY <1>0, <2>1
    <3> QED
      BY <1>0, <2>1, <3>1 DEF RunsAreFaults
  <2>6. ClaimIsHeld'
    BY <1>0, <2>1 DEF ClaimIsHeld
  <2>7. PlaceIsTrue'
    <3>1. ASSUME NEW u \in Threads, pc'[u] \in Claimed
          PROVE  /\ Progressed(pc[u], step[u], of[u])'
                 /\ Registered(pc[u], step[u], of[u])'
      <4>1. CASE u = t
        BY <4>1, <2>1, <2>2 DEF Progressed, Registered, Claimed
      <4>2. CASE u # t
        <5>1. pc'[u] = pc[u] /\ pc[u] \in Claimed
          BY <4>2, <2>1, <3>1
        <5>2. of[u] # of[t] /\ of[u] \in Runs
          BY <4>2, <5>1, <1>0, WorkIsOnRuns DEF ClaimIsHeld, Claimed
        <5>3. cards'[of[u]] = cards[of[u]]
          BY <5>2, <2>2
        <5>4. Progressed(pc[u], step[u], of[u])
              /\ Registered(pc[u], step[u], of[u])
          BY <5>1 DEF PlaceIsTrue
        <5> QED
          BY <5>1, <5>3, <5>4, <2>1, <2>2 DEF Progressed, Registered
      <4> QED
        BY <4>1, <4>2
    <3>2. worker = "work" => cards'[target] = {"root"}
      BY <1>0, <2>2, WorkIsOnRuns DEF PlaceIsTrue, ClaimIsHeld
    <3> QED
      BY <1>0, <3>1, <3>2 DEF PlaceIsTrue
  <2> QED
    BY <2>2, <2>3, <2>4, <2>5, <2>6, <2>7
<1>2. CASE (Refuse(t) \/ Outage(t)) /\ UNCHANGED external
           /\ (UNCHANGED faults \/ Fault)
  <2>1. UNCHANGED <<world, cards, works>>
    BY <1>2 DEF external
  <2>2. LedgerIsTrue'
    BY <1>0, <2>1, LedgerStays
  <2>3. faults' \in faults..MaxFaults
    BY <1>0, <1>2 DEF Fault
  <2>4. Ends(t)
    BY <1>0, <1>2, <2>1, <2>2, <2>3, GivesUp DEF Ends, intent, TypeOK
  <2> QED
    BY <1>0, <2>4, EndsKeeps
<1> QED
  BY <1>1, <1>2 DEF CreateWork

\* finish_request: the run of the request has its root card.
LEMMA AnswerKeeps ==
  ASSUME IInv, NEW t \in Threads, Answer(t)
  PROVE  IInv'
<1> USE FaultAssumption, OperationsInOrder DEF Starters, Threads, IInv
<1>0. /\ pc[t] = "answer" /\ of[t] \in Runs /\ "root" \in cards[of[t]]
      /\ Leave(t)
      /\ UNCHANGED <<bound, saved, ledger, world, cards, works, worker, target,
                     resumed, faults>>
  BY WorkIsOnRuns DEF Answer, PlaceIsTrue, Registered, Claimed, external, intent
<1>1. control' \in [Runs -> {"none", "active", "dependency_degraded", "exception"}]
      /\ \A r \in Runs : control'[r] # "none" => r <= saved
  BY <1>0 DEF Answer, TypeOK, RunIsSaved
<1>2. req' = req \/ (t \in Starters /\ req' = "done" /\ bound # 0
                     /\ "root" \in cards[bound])
  <2>1. t \in Starters => of[t] = bound /\ of[t] # 0
    BY <1>0 DEF RunIsBound, Runs
  <2> QED
    BY <1>0, <2>1 DEF Answer
<1>3. LedgerIsTrue'
  BY <1>0, LedgerStays
<1>4. Ends(t)
  BY <1>0, <1>1, <1>2, <1>3 DEF Ends, intent, TypeOK
<1> QED
  BY <1>0, <1>4, EndsKeeps

\* A human recovers a run nobody works on.
LEMMA RecoverKeeps ==
  ASSUME IInv, NEW r \in Runs, Recover(r)
  PROVE  IInv'
<1> USE FaultAssumption, OperationsInOrder DEF Starters, Threads, IInv
<1>0. /\ pc["recover"] = "idle" /\ control[r] = "exception" /\ claim[r] = "none"
      /\ faults < MaxFaults /\ faults' = faults + 1
      /\ control' = [control EXCEPT ![r] = "active"]
      /\ resumed' = resumed \cup {r}
      /\ of' = [of EXCEPT !["recover"] = r]
      /\ step' = [step EXCEPT !["recover"] = 1]
      /\ UNCHANGED <<req, bound, saved, ledger, world, cards, works, worker, target>>
  BY DEF Recover, Claimable, Fault, request, external, intent
<1>1. \/ /\ cards[r] = {}
         /\ claim' = [claim EXCEPT ![r] = "recover"]
         /\ pc' = [pc EXCEPT !["recover"] = "begin"]
      \/ UNCHANGED <<claim, pc>>
  BY DEF Recover, Goto
<1>2. r \in 1..saved
  BY <1>0 DEF RunIsSaved, TypeOK, Runs
<1>3. /\ \A u \in Starters : pc'[u] = pc[u] /\ of'[u] = of[u] /\ step'[u] = step[u]
      /\ of'["recover"] = r /\ step'["recover"] = 1
      /\ \/ pc'["recover"] = "idle"
         \/ pc'["recover"] = "begin" /\ cards[r] = {} /\ claim'[r] = "recover"
      /\ \A q \in Runs : claim[q] # "none" => claim'[q] = claim[q]
  <2>1. /\ \A u \in Starters : of'[u] = of[u] /\ step'[u] = step[u]
        /\ of'["recover"] = r /\ step'["recover"] = 1
    BY <1>0 DEF TypeOK
  <2>2. \A u \in Starters : pc'[u] = pc[u]
    BY <1>1 DEF TypeOK
  <2>3. \/ pc'["recover"] = "idle"
        \/ pc'["recover"] = "begin" /\ cards[r] = {} /\ claim'[r] = "recover"
    BY <1>0, <1>1 DEF TypeOK
  <2>4. \A q \in Runs : claim[q] # "none" => claim'[q] = claim[q]
    BY <1>0, <1>1 DEF TypeOK
  <2> QED
    BY <2>1, <2>2, <2>3, <2>4
<1>4. TypeOK'
  <2>1. of' \in [Threads -> 0..saved] /\ faults' \in 0..MaxFaults
    BY <1>0, <1>2 DEF TypeOK
  <2>2. pc' \in [Threads -> {"idle", "facts", "control", "bind", "claim", "begin",
                         "act", "finish", "root", "register", "work", "answer"}]
        /\ claim' \in [Runs -> Threads \cup {"worker", "none"}]
    BY <1>1 DEF TypeOK
  <2>3. control' \in [Runs -> {"none", "active", "dependency_degraded", "exception"}]
        /\ resumed' \subseteq Runs /\ step' \in [Threads -> Steps]
    BY <1>0 DEF TypeOK
  <2> QED
    BY <1>0, <2>1, <2>2, <2>3 DEF TypeOK
<1>5. OneStarter'
  BY <1>0, <1>3 DEF OneStarter
<1>6. RunIsSaved'
  BY <1>0, <1>2, <1>3 DEF RunIsSaved, TypeOK, Runs
<1>7. RunIsBound'
  BY <1>0, <1>3 DEF RunIsBound, Claimed
<1>8. RunsAreFaults'
  BY <1>0, <1>3 DEF RunsAreFaults, TypeOK
<1>9. ClaimIsHeld'
  BY <1>0, <1>3, WorkIsOnRuns DEF ClaimIsHeld, Claimed
<1>10. PlaceIsTrue'
  <2>1. ASSUME NEW u \in Threads, pc'[u] \in Claimed
        PROVE  /\ Progressed(pc[u], step[u], of[u])'
               /\ Registered(pc[u], step[u], of[u])'
    <3>1. CASE u = "recover"
      BY <3>1, <1>0, <1>3, <2>1 DEF Progressed, Registered, Claimed
    <3>2. CASE u # "recover"
      <4>1. pc'[u] = pc[u] /\ of'[u] = of[u] /\ step'[u] = step[u]
        BY <3>2, <1>3
      <4>2. Progressed(pc[u], step[u], of[u]) /\ Registered(pc[u], step[u], of[u])
        BY <4>1, <2>1 DEF PlaceIsTrue
      <4> QED
        BY <4>1, <4>2, <1>0 DEF Progressed, Registered
    <3> QED
      BY <3>1, <3>2
  <2> QED
    BY <1>0, <2>1 DEF PlaceIsTrue
<1>11. CardsAreOrdered' /\ LedgerIsTrue' /\ WorkIsPrepared' /\ AnswerIsTrue'
  BY <1>0 DEF CardsAreOrdered, LedgerIsTrue, WorkIsPrepared, AnswerIsTrue
<1> QED
  BY <1>4, <1>5, <1>6, <1>7, <1>8, <1>9, <1>10, <1>11

-----------------------------------------------------------------------------
(* The intent worker and the crash *)

\* What the worker may do to the run it holds while no thread has it.
LEMMA WorkerKeeps ==
  ASSUME IInv, NEW r \in Runs, r <= saved,
         claim[r] = "worker" \/ claim[r] = "none",
         worker' \in {"idle", "read", "work", "exception"},
         NEW place \in {"worker", "none"}, claim' = [claim EXCEPT ![r] = place],
         target' = r, worker \in {"read", "work"} => target = r,
         worker' \in {"read", "work"} => place = "worker",
         worker' = "work" => cards'[r] = {"root"},
         control' \in [Runs -> {"none", "active", "dependency_degraded",
                                "exception"}],
         \A q \in Runs : control'[q] # "none" => q <= saved,
         faults' = faults \/ Fault,
         world' \in [Runs -> SUBSET Effects],
         \A q \in Runs : world[q] \subseteq world'[q],
         cards' \in [Runs -> SUBSET {"root", "work"}], works' \in [Runs -> Nat],
         \A q \in Runs : q # r => cards'[q] = cards[q],
         CardsAreOrdered', WorkIsPrepared', AnswerIsTrue', LedgerIsTrue',
         UNCHANGED <<req, bound, saved, ledger, pc, of, step, resumed>>
  PROVE  IInv'
<1> USE FaultAssumption, OperationsInOrder DEF Starters, Threads, IInv
<1>1. /\ faults \in Nat /\ faults' \in 0..MaxFaults /\ faults <= faults'
      /\ faults' \in Nat /\ saved \in Nat /\ r \in 1..saved
  <2>1. faults \in 0..MaxFaults /\ saved \in Nat
    BY DEF TypeOK
  <2>2. r \in 1..saved
    BY <2>1 DEF Runs
  <2>3. CASE faults' = faults
    BY <2>1, <2>2, <2>3
  <2>4. CASE Fault
    BY <2>1, <2>2, <2>4 DEF Fault
  <2> QED
    BY <2>3, <2>4
<1>2. TypeOK'
  <2>1. claim' \in [Runs -> Threads \cup {"worker", "none"}]
    BY DEF TypeOK
  <2>2. target' \in 0..saved
    BY <1>1
  <2> QED
    BY <1>1, <2>1, <2>2 DEF TypeOK
<1>3. OneStarter' /\ RunIsSaved' /\ RunIsBound'
  BY <1>1 DEF OneStarter, RunIsSaved, RunIsBound
<1>4. RunsAreFaults'
  <2>1. saved <= faults' + 1
    <3>1. saved <= faults + 1
      BY DEF RunsAreFaults
    <3> QED
      BY <1>1, <3>1, MoreFaults
  <2>2. ASSUME bound = 0, \A u \in Starters : pc[u] \notin {"control", "bind"}
        PROVE  saved <= faults'
    <3>1. saved <= faults
      BY <2>2 DEF RunsAreFaults
    <3> QED
      BY <1>1, <3>1
  <2> QED
    BY <2>1, <2>2 DEF RunsAreFaults
<1>5. ClaimIsHeld'
  <2>1. ASSUME NEW u \in Threads, pc[u] \in Claimed
        PROVE  claim'[of[u]] = u
    <3>1. claim[of[u]] = u /\ of[u] \in Runs
      BY <2>1, WorkIsOnRuns DEF ClaimIsHeld, Claimed
    <3> QED
      BY <3>1 DEF TypeOK
  <2>2. worker' \in {"read", "work"} => claim'[r] = "worker"
    BY DEF TypeOK
  <2> QED
    BY <2>1, <2>2 DEF ClaimIsHeld
<1>6. PlaceIsTrue'
  <2>1. ASSUME NEW u \in Threads, pc[u] \in Claimed
        PROVE  /\ Progressed(pc[u], step[u], of[u])'
               /\ Registered(pc[u], step[u], of[u])'
    <3>1. claim[of[u]] = u /\ of[u] \in Runs
      BY <2>1, WorkIsOnRuns DEF ClaimIsHeld, Claimed
    <3>2. cards'[of[u]] = cards[of[u]] /\ world[of[u]] \subseteq world'[of[u]]
      BY <3>1
    <3>3. Progressed(pc[u], step[u], of[u]) /\ Registered(pc[u], step[u], of[u])
      BY <2>1 DEF PlaceIsTrue
    <3> QED
      BY <3>2, <3>3 DEF Progressed, Registered
  <2> QED
    BY <2>1 DEF PlaceIsTrue
<1> QED
  BY <1>2, <1>3, <1>4, <1>5, <1>6

\* The reconcile takes the claim of the run.
LEMMA ReconcileBeginKeeps ==
  ASSUME IInv, NEW r \in Runs, ReconcileBegin(r)
  PROVE  IInv'
<1> USE DEF IInv, ReconcileBegin, Claimable, request, external, thread
<1>1. r <= saved
  BY DEF RunIsSaved, Mutable
<1>2. LedgerIsTrue' /\ CardsAreOrdered' /\ WorkIsPrepared' /\ AnswerIsTrue'
  BY DEF LedgerIsTrue, CardsAreOrdered, WorkIsPrepared, AnswerIsTrue
<1>3. /\ control' \in [Runs -> {"none", "active", "dependency_degraded",
                                "exception"}]
      /\ \A q \in Runs : control'[q] # "none" => q <= saved
      /\ world' \in [Runs -> SUBSET Effects]
      /\ \A q \in Runs : world[q] \subseteq world'[q]
      /\ cards' \in [Runs -> SUBSET {"root", "work"}] /\ works' \in [Runs -> Nat]
      /\ \A q \in Runs : q # r => cards'[q] = cards[q]
  BY DEF TypeOK, RunIsSaved
<1>4. /\ claim[r] = "none" /\ worker = "idle" /\ worker' = "read" /\ target' = r
      /\ claim' = [claim EXCEPT ![r] = "worker"]
      /\ UNCHANGED <<req, bound, saved, ledger, pc, of, step, resumed, faults>>
  OBVIOUS
<1> QED
  BY ONLY IInv, <1>1, <1>2, <1>3, <1>4, WorkerKeeps

\* The reconcile looks at what the start has left.
LEMMA ReconcileRunKeeps ==
  ASSUME IInv, ReconcileRun
  PROVE  IInv'
<1> USE DEF IInv
<1>0. /\ worker = "read" /\ target \in Runs /\ target <= saved
      /\ claim[target] = "worker"
      /\ UNCHANGED <<req, bound, saved, ledger, cards, works, pc, of, step, resumed>>
  BY WorkIsOnRuns DEF ReconcileRun, ClaimIsHeld, RunIsSaved, TypeOK, request, thread
<1>1. PICK r \in Runs : r = target
  BY <1>0
<1>2. /\ faults' = faults \/ Fault
      /\ control' = control \/ \E q \in {"active", "dependency_degraded"} :
                                  control' = [control EXCEPT ![r] = q]
      /\ UNCHANGED world \/ Perform(r, "complete-root")
      /\ \/ worker' \in {"exception", "idle"} /\ claim' = [claim EXCEPT ![r] = "none"]
         \/ cards[r] = {"root"} /\ worker' = "work" /\ UNCHANGED claim
      /\ target' = r
  BY <1>0, <1>1 DEF ReconcileRun, WorkerLeaves
<1>3. PICK place \in {"worker", "none"} :
        /\ claim' = [claim EXCEPT ![r] = place]
        /\ worker' = "work" => place = "worker" /\ cards'[r] = {"root"}
  <2>1. claim = [claim EXCEPT ![r] = "worker"]
    BY <1>0, <1>1 DEF TypeOK
  <2> QED
    BY <1>0, <1>2, <2>1
<1>4. /\ world' \in [Runs -> SUBSET Effects]
      /\ \A q \in Runs : world[q] \subseteq world'[q]
  BY <1>2, PerformAdds DEF TypeOK, Effects
<1>5. LedgerIsTrue' /\ CardsAreOrdered' /\ WorkIsPrepared' /\ AnswerIsTrue'
  BY <1>0, <1>4 DEF LedgerIsTrue, CardsAreOrdered, WorkIsPrepared, AnswerIsTrue
<1>6. /\ control' \in [Runs -> {"none", "active", "dependency_degraded",
                                "exception"}]
      /\ \A q \in Runs : control'[q] # "none" => q <= saved
  BY <1>0, <1>1, <1>2 DEF TypeOK, RunIsSaved
<1>7. cards' \in [Runs -> SUBSET {"root", "work"}] /\ works' \in [Runs -> Nat]
      /\ \A q \in Runs : q # r => cards'[q] = cards[q]
  BY <1>0 DEF TypeOK
<1>8. worker' \in {"idle", "work", "exception"}
  BY <1>2
<1> QED
  BY ONLY IInv, <1>0, <1>1, <1>2, <1>3, <1>4, <1>5, <1>6, <1>7, <1>8, WorkerKeeps

\* The reconcile creates the first work card in its place.
LEMMA ReconcileWorkKeeps ==
  ASSUME IInv, ReconcileWork
  PROVE  IInv'
<1> USE DEF IInv
<1>0. /\ worker = "work" /\ target \in Runs /\ target <= saved
      /\ claim[target] = "worker" /\ cards[target] = {"root"}
      /\ UNCHANGED <<req, bound, saved, ledger, pc, of, step, resumed>>
  BY WorkIsOnRuns DEF ReconcileWork, ClaimIsHeld, RunIsSaved, PlaceIsTrue, TypeOK,
     request, thread
<1>1. PICK r \in Runs : r = target
  BY <1>0
<1>2. /\ faults' = faults \/ Fault
      /\ control' = control \/ \E q \in {"active", "dependency_degraded"} :
                                  control' = [control EXCEPT ![r] = q]
      /\ AddWork(r) \/ UNCHANGED <<world, cards, works>>
      /\ worker' \in {"exception", "idle"}
      /\ claim' = [claim EXCEPT ![r] = "none"]
      /\ target' = r
  BY <1>0, <1>1 DEF ReconcileWork, WorkerLeaves, external
<1>3. /\ cards' \in [Runs -> SUBSET {"root", "work"}] /\ works' \in [Runs -> Nat]
      /\ \A q \in Runs : q # r => cards'[q] = cards[q]
      /\ UNCHANGED world
      /\ CardsAreOrdered' /\ WorkIsPrepared' /\ AnswerIsTrue' /\ LedgerIsTrue'
  <2>1. CASE AddWork(r)
    BY <1>0, <1>1, <2>1, AddWorkAdds
  <2>2. CASE UNCHANGED <<world, cards, works>>
    BY <1>0, <2>2 DEF TypeOK, LedgerIsTrue, CardsAreOrdered, WorkIsPrepared,
       AnswerIsTrue
  <2> QED
    BY <1>2, <2>1, <2>2
<1>4. /\ control' \in [Runs -> {"none", "active", "dependency_degraded",
                                "exception"}]
      /\ \A q \in Runs : control'[q] # "none" => q <= saved
  BY <1>0, <1>1, <1>2 DEF TypeOK, RunIsSaved
<1>5. world' \in [Runs -> SUBSET Effects] /\ \A q \in Runs : world[q] \subseteq world'[q]
  BY <1>3 DEF TypeOK
<1> QED
  BY ONLY IInv, <1>0, <1>1, <1>2, <1>3, <1>4, <1>5, WorkerKeeps

\* The exception is recorded after the claim was given back: it may find the
\* run in other hands, and changes only the state of the run.
LEMMA RecordRunExceptionKeeps ==
  ASSUME IInv, RecordRunException
  PROVE  IInv'
<1> USE FaultAssumption DEF IInv
<1>1. /\ worker = "exception" /\ worker' = "idle" /\ target \in Runs
      /\ control' = [control EXCEPT ![target] = IF @ \in Mutable THEN "exception"
                                                ELSE @]
      /\ UNCHANGED <<req, bound, saved, ledger, world, cards, works, claim, pc, of,
                     step, target, resumed, faults>>
  BY WorkIsOnRuns DEF RecordRunException, SetRunException, request, external, thread
<1>2. TypeOK'
  <2>1. control' \in [Runs -> {"none", "active", "dependency_degraded", "exception"}]
    BY <1>1 DEF TypeOK
  <2> QED
    BY <1>1, <2>1 DEF TypeOK
<1>3. RunIsSaved'
  BY <1>1 DEF RunIsSaved, Mutable, TypeOK
<1>4. OneStarter' /\ RunIsBound' /\ RunsAreFaults' /\ ClaimIsHeld'
  BY <1>1 DEF OneStarter, RunIsBound, RunsAreFaults, ClaimIsHeld
<1>5. PlaceIsTrue'
  BY <1>1 DEF PlaceIsTrue, Progressed, Registered
<1>6. CardsAreOrdered' /\ LedgerIsTrue' /\ WorkIsPrepared' /\ AnswerIsTrue'
  BY <1>1 DEF CardsAreOrdered, LedgerIsTrue, WorkIsPrepared, AnswerIsTrue
<1> QED
  BY <1>2, <1>3, <1>4, <1>5, <1>6

\* A crash forgets the claims and the places; the runs it loses are faults.
LEMMA CrashKeeps ==
  ASSUME IInv, Crash
  PROVE  IInv'
<1> USE FaultAssumption DEF IInv, Starters, Threads
<1>1. /\ faults < MaxFaults /\ faults' = faults + 1
      /\ pc' = [t \in Threads |-> "idle"] /\ claim' = [r \in Runs |-> "none"]
      /\ worker' = "idle"
      /\ UNCHANGED <<req, bound, saved, control, ledger, world, cards, works, of,
                     step, target, resumed>>
  BY DEF Crash, Fault, request, external
<1>2. TypeOK'
  BY <1>1 DEF TypeOK
<1>3. OneStarter' /\ RunIsSaved' /\ RunIsBound' /\ ClaimIsHeld' /\ PlaceIsTrue'
  BY <1>1 DEF OneStarter, RunIsSaved, RunIsBound, ClaimIsHeld, PlaceIsTrue, Claimed
<1>4. RunsAreFaults'
  BY <1>1 DEF RunsAreFaults, TypeOK
<1>5. CardsAreOrdered' /\ LedgerIsTrue' /\ WorkIsPrepared' /\ AnswerIsTrue'
  BY <1>1 DEF CardsAreOrdered, LedgerIsTrue, WorkIsPrepared, AnswerIsTrue
<1> QED
  BY <1>2, <1>3, <1>4, <1>5

-----------------------------------------------------------------------------
(* Theorems *)

\* A thread goes on with its next operation.
LEMMA ContinueKeeps ==
  ASSUME IInv, NEW t \in Threads, Continue(t)
  PROVE  IInv'
BY FactsKeep, ControlKeeps, BindKeeps, ClaimKeeps, BeginOperationKeeps, ActKeeps,
   FinishOperationKeeps, CreateRootKeeps, RegisterRootKeeps, CreateWorkKeeps,
   AnswerKeeps DEF Continue

\* Every step keeps the invariant.
LEMMA NextIInv == IInv /\ [Next]_vars => IInv'
<1> SUFFICES ASSUME IInv, [Next]_vars PROVE IInv'
  OBVIOUS
<1>1. CASE \E t \in Starters : Start(t)
  BY <1>1, StartKeeps
<1>2. CASE \E t \in Threads : Continue(t)
  BY <1>2, ContinueKeeps
<1>3. CASE \E r \in Runs : Recover(r) \/ ReconcileBegin(r)
  BY <1>3, RecoverKeeps, ReconcileBeginKeeps
<1>4. CASE WorkerStep
  BY <1>4, ReconcileRunKeeps, ReconcileWorkKeeps, RecordRunExceptionKeeps
     DEF WorkerStep
<1>5. CASE Crash
  BY <1>5, CrashKeeps
<1>6. CASE UNCHANGED vars
  BY <1>6 DEF vars, IInv, TypeOK, OneStarter, RunIsSaved, RunIsBound,
     RunsAreFaults, ClaimIsHeld, CardsAreOrdered, PlaceIsTrue, Progressed,
     Registered, LedgerIsTrue, WorkIsPrepared, AnswerIsTrue
<1> QED
  BY <1>1, <1>2, <1>3, <1>4, <1>5, <1>6 DEF Next

\* The inductive invariant holds in every state.
LEMMA Invariance == Spec => []IInv
<1>1. Init => IInv
  BY InitIInv
<1>2. IInv /\ [Next]_vars => IInv'
  BY NextIInv
<1> QED
  BY <1>1, <1>2, PTL DEF Spec

\* The request, the ledger and the threads stay well formed: no number of
\* faults makes more runs than one for each of them and one to finish.
THEOREM TypeCorrect == Spec => []TypeOK
<1>1. IInv => TypeOK
  BY DEF IInv
<1> QED
  BY <1>1, Invariance, PTL

\* One message delivers one run: no other run made for it has cards, unless a
\* human recovered it, and the run it was answered with has its root card
\* (start, bind_request_run, finish_request).
THEOREM MessagesDeliverOneRun == Spec => []OneRunPerMessage
<1>1. IInv => OneRunPerMessage
  BY DEF IInv, OneRunPerMessage, CardsAreOrdered, AnswerIsTrue
<1> QED
  BY <1>1, Invariance, PTL

\* The first work card of a run is created once, by the start, its retry, a
\* recovery or the reconcile (_initialize_run, _reconcile_run).
THEOREM FirstWorkIsNotDoubled == Spec => []FirstWorkIsSingle
<1>1. IInv => FirstWorkIsSingle
  BY DEF IInv, FirstWorkIsSingle, CardsAreOrdered
<1> QED
  BY <1>1, Invariance, PTL

\* A run has its root card only after each operation before it was performed
\* (_operation).
THEOREM WorkBeginsPrepared == Spec => []WorkIsPrepared
<1>1. IInv => WorkIsPrepared
  BY DEF IInv
<1> QED
  BY <1>1, Invariance, PTL

\* A step that leaves the request to a thread that executes it.
LEMMA GivesUpKeepsAnswer ==
  ASSUME IInv, NEW t \in Threads, pc[t] # "idle",
         req' = req \/ t \in Starters, bound' = bound \/ bound = 0
  PROVE  /\ req \in {"done", "failed"} => req' = req
         /\ bound # 0 => bound' = bound
BY DEF IInv, OneStarter

\* No step takes an answer back.
LEMMA StepsKeepAnswers ==
  ASSUME IInv, Next
  PROVE  /\ req \in {"done", "failed"} => req' = req
         /\ bound # 0 => bound' = bound
<1>1. CASE \E t \in Starters : Start(t)
  BY <1>1 DEF Start
<1>2. ASSUME NEW t \in Threads, Continue(t)
      PROVE  /\ req \in {"done", "failed"} => req' = req
             /\ bound # 0 => bound' = bound
  <2>1. CASE Refuse(t) \/ Outage(t)
    <3>1. pc[t] # "idle"
      BY <1>2 DEF Continue, PersistedRun, ValidateStart, EnsureRunControl,
         BindRequestRun, BeginReconcile, BeginOperation, Act, FinishOperation,
         CreateRoot, RegisterRoot, CreateWork, Answer
    <3> QED
      BY <2>1, <3>1, GivesUp, GivesUpKeepsAnswer
  <2>2. CASE BindRequestRun(t)
    BY <2>2, BindKeeps
  <2>3. CASE Answer(t)
    <3>1. pc[t] # "idle" /\ bound' = bound /\ (req' = req \/ t \in Starters)
      BY <2>3 DEF Answer
    <3> QED
      BY <3>1, GivesUpKeepsAnswer
  <2>4. CASE UNCHANGED request
    BY <2>4 DEF request
  <2> QED
    BY <1>2, <2>1, <2>2, <2>3, <2>4 DEF Continue, PersistedRun, ValidateStart,
       EnsureRunControl, BeginReconcile, BeginOperation, Act, FinishOperation,
       CreateRoot, RegisterRoot, CreateWork
<1>3. CASE \E r \in Runs : Recover(r) \/ ReconcileBegin(r)
  BY <1>3 DEF Recover, ReconcileBegin, request
<1>4. CASE WorkerStep
  BY <1>4 DEF WorkerStep, ReconcileRun, ReconcileWork, RecordRunException, request
<1>5. CASE Crash
  BY <1>5 DEF Crash, request
<1> QED
  BY <1>1, <1>2, <1>3, <1>4, <1>5 DEF Next

\* A request that was answered or refused is not executed again and keeps its
\* run (begin_request, bind_request_run).
THEOREM AnswersAreFinal == Spec => AnswerIsFinal
<1>1. IInv /\ [Next]_vars =>
        [/\ req \in {"done", "failed"} => req' = req
         /\ bound # 0 => bound' = bound]_vars
  BY StepsKeepAnswers
<1> QED
  BY <1>1, Invariance, PTL DEF Spec, AnswerIsFinal
=============================================================================
