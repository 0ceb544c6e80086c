--------------------------- MODULE DeliveryWorkflow ---------------------------
(***************************************************************************)
(* The delivery workflow: how _reconcile_run (service.py) judges the       *)
(* completion of the latest card, what route_completion (workflow.py)      *)
(* makes of it, and which card or terminal state follows.                  *)
(*                                                                         *)
(* Nothing but the history of cards is remembered: reviews, protocol       *)
(* errors, code modifications, frozen baselines and the paired test are    *)
(* recomputed from it every time.  GitLab is read several times during one *)
(* reconcile and may change in between; a crash starts the reconcile over. *)
(* The creation of a card is one step here (CardPublication), and the      *)
(* states of the run that other threads write are left out (RunControl).   *)
(***************************************************************************)
EXTENDS SequencesExt

CONSTANTS Documents,          \* the document phases in order
          ReviewLimit,        \* config.document_review_limit
          ModificationLimit,  \* config.code_modification_limit
          RetryLimit,         \* config.protocol_retry_limit
          MaxFaults,          \* bound: pushes, bad completions, crashes, recoveries
          MaxHeads            \* bound: no author pushes above this head

ASSUME WorkflowAssumption ==
  /\ Documents \in Seq(STRING)
  /\ \A i, j \in DOMAIN Documents : Documents[i] = Documents[j] => i = j
  /\ {"prd", "code"} \cap Range(Documents) = {}
  /\ ReviewLimit \in Nat \ {0} /\ ModificationLimit \in Nat \ {0}
  /\ RetryLimit \in Nat /\ MaxFaults \in Nat /\ MaxHeads \in Nat

VARIABLES
  state,     \* run_control.state
  history,   \* the work cards of the run, oldest first
  commits,   \* the delivery branch: the artifacts at each head
  draft,     \* the merge request is a draft
  checked,   \* checked_head of the run, 0 before the end
  pc,        \* where the reconcile is
  faults     \* faults so far

vars == <<state, history, commits, draft, checked, pc, faults>>

-----------------------------------------------------------------------------
(* Stages *)

\* A stage is a phase and a role; code/write is implement.
IMPLEMENT   == <<"code", "write">>
TEST        == <<"code", "test">>
CODE_REVIEW == <<"code", "review">>

CodeGates == {TEST, CODE_REVIEW}
DocumentReviews == {<<p, "review">> : p \in Range(Documents)}
DocumentWriters == {<<p, "write">> : p \in Range(Documents)}
Stages == DocumentReviews \cup DocumentWriters \cup CodeGates \cup {IMPLEMENT}

SEQUENCE ==
  [i \in 1..(2 * Len(Documents)) |->
     <<Documents[(i + 1) \div 2], IF i % 2 = 1 THEN "write" ELSE "review">>]
  \o <<IMPLEMENT, TEST, CODE_REVIEW>>

Position(stage) == CHOOSE i \in DOMAIN SEQUENCE : SEQUENCE[i] = stage

NextStage(stage) == SEQUENCE[Position(stage) + 1]

\* PRODUCER_FOR_REVIEW and PRODUCER_FOR_PHASE of PHASE_FOR_STAGE.
Producer(stage) == <<stage[1], "write">>

Artifacts == {"prd"} \cup Range(Documents)

-----------------------------------------------------------------------------
(* The history of cards *)

\* repair_context; trigger is the place in history of trigger_card_id.
Contexts ==
  [kind : {"none", "review_failure", "code_gate_failure", "frozen_artifact"},
   attempt : Nat, trigger : Nat]

NoContext     == [kind |-> "none", attempt |-> 0, trigger |-> 0]
FrozenContext == [kind |-> "frozen_artifact", attempt |-> 0, trigger |-> 0]

\* metadata: "valid" passes every check that does not depend on the head,
\* "unproven" parses but its gate note or evidence is refused, "malformed" does
\* not parse.  The completion template reports the current head.  artifact is
\* the version of the phase's document that was reviewed or finalized, 0 for a
\* digest or a path set that no head has.  verdict is attempt_status, marked the
\* comment [controller-protocol-error:v4].
CardRecords ==
  [stage : Stages, mode : {"normal", "finalization"}, context : Contexts,
   outcome : {"none", "pass", "fail", "cancelled"},
   metadata : {"none", "valid", "unproven", "malformed"},
   head : Nat, artifact : Nat,
   verdict : {"none", "accepted", "rejected"}, marked : BOOLEAN]

NewCard(stage, mode, context) ==
  [stage |-> stage, mode |-> mode, context |-> context, outcome |-> "none",
   metadata |-> "none", head |-> 0, artifact |-> 0, verdict |-> "none",
   marked |-> FALSE]

Latest == Last(history)
CurrentHead  == Len(commits)

Parses(c) == c.metadata \in {"valid", "unproven"}
Judged(c) == Parses(c) /\ c.outcome \in {"pass", "fail"}

Count(h, Test(_)) == Cardinality({i \in DOMAIN h : Test(h[i])})

\* _review_attempts_by_stage.
ReviewAttempts(h, stage) ==
  LET Counts(c) == c.stage = stage /\ Judged(c) /\ ~c.marked
  IN  Count(h, Counts)

\* _protocol_failures_by_stage.
ProtocolFailures(h, stage) ==
  LET Counts(c) == c.stage = stage /\ c.marked
  IN  Count(h, Counts)

\* _code_modification_count: implementations accepted after the first one.
CodeModifications(h) ==
  LET Counts(c) == /\ c.stage = IMPLEMENT
                   /\ c.verdict = "accepted"
                   /\ c.outcome = "pass"
      n == Count(h, Counts)
  IN  IF n = 0 THEN 0 ELSE n - 1

\* _latest_valid_completion of a test: its place after the latest implement
\* card, or 0.
PairedTest(h) ==
  LET IsImplement(c) == c.stage = IMPLEMENT
      IsTest(c) == c.stage = TEST /\ Judged(c)
      t == SelectLastInSeq(h, IsTest)
  IN  IF t > SelectLastInSeq(h, IsImplement) THEN t ELSE 0

\* _frozen_baselines: the last pass of a review or a finalization of the phase.
\* Whether the controller accepted it is not asked.
FreezesPhase(c, p) ==
  /\ c.stage[1] = p
  /\ Parses(c) /\ c.outcome = "pass"
  /\ c.stage \in DocumentReviews \/ c.mode = "finalization"

BaselineCard(h, p) ==
  LET Freezes(c) == FreezesPhase(c, p) IN SelectLastInSeq(h, Freezes)

\* The phases up to the first one without a baseline.
FrozenPhases(h) ==
  {Documents[i] : i \in {j \in DOMAIN Documents :
                           \A k \in 1..j : BaselineCard(h, Documents[k]) # 0}}

\* The frozen version of each artifact; the PRD is frozen from the start.
Baseline(h) ==
  [a \in {"prd"} \cup FrozenPhases(h) |->
     IF a = "prd" THEN 1 ELSE h[BaselineCard(h, a)].artifact]

\* Mutant of FrozenViolation: only the PRD is compared.
FrozenViolationPrd(h, ref) == commits[ref]["prd"] # Baseline(h)["prd"]

\* _frozen_violation at a commit.
FrozenViolation(h, ref) ==
  \E a \in DOMAIN Baseline(h) : commits[ref][a] # Baseline(h)[a]

-----------------------------------------------------------------------------
(* State *)

TerminalStates ==
  {"completed_ready", "completed_with_findings", "completed_test_failed"}

\* The cards, the GitLab head and the recorded evidence are well formed.
TypeOK ==
  /\ state \in {"active", "exception"} \cup TerminalStates
  /\ history \in Seq(CardRecords) /\ history # <<>>
  /\ commits \in Seq([Artifacts -> Nat]) /\ commits # <<>>
  /\ draft \in BOOLEAN
  /\ checked \in 0..CurrentHead
  /\ pc \in {"idle", "gate", "frozen", "route", "finish", "ready", "commit"}
  /\ faults \in 0..MaxFaults

\* The root card is completed and the first card created.  No artifact exists.
Init ==
  /\ state = "active"
  /\ history = <<NewCard(SEQUENCE[1], "normal", NoContext)>>
  /\ commits = <<[a \in Artifacts |-> 1]>>
  /\ draft = TRUE
  /\ checked = 0
  /\ pc = "idle"
  /\ faults = 0

-----------------------------------------------------------------------------
(* Workers and the rest of the world *)

Complete(outcome, metadata, head, artifact) ==
  history' = [history EXCEPT ![Len(history)].outcome = outcome,
                             ![Len(history)].metadata = metadata,
                             ![Len(history)].head = head,
                             ![Len(history)].artifact = artifact]

Working == state = "active" /\ Latest.metadata = "none"

Fault == faults < MaxFaults /\ faults' = faults + 1

\* The version of the worker's own document in a commit.
Own(commit) ==
  LET p == Latest.stage[1] IN IF p \in Artifacts THEN commit[p] ELSE 0

\* An author restores what is frozen, if a head had it, and changes its document,
\* unless all it has to do is restore.
AuthoredCommit ==
  LET p == Latest.stage[1]
  IN  [a \in Artifacts |->
         IF a = p /\ Latest.context.kind # "frozen_artifact" THEN CurrentHead + 1
         ELSE IF a \in DOMAIN Baseline(history) /\ Baseline(history)[a] # 0
           THEN Baseline(history)[a]
         ELSE commits[CurrentHead][a]]

\* A writer or implementer pushes and completes its card.
AuthorCompletes ==
  /\ Working
  /\ Latest.stage[2] = "write"
  /\ CurrentHead < MaxHeads
  /\ commits' = Append(commits, AuthoredCommit)
  /\ Complete("pass", "valid", CurrentHead + 1, Own(AuthoredCommit))
  /\ UNCHANGED <<state, draft, checked, pc, faults>>

\* A reviewer or tester completes its card.
GateCompletes ==
  /\ Working
  /\ Latest.stage[2] # "write"
  /\ \E outcome \in {"pass", "fail"} :
       Complete(outcome, "valid", CurrentHead, Own(commits[CurrentHead]))
  /\ UNCHANGED <<state, commits, draft, checked, pc, faults>>

\* A worker gives up, with or without a head_sha, or delivers metadata the
\* controller has to refuse.
BadCompletion ==
  /\ Working
  /\ Fault
  /\ \/ \E head \in {0, CurrentHead} : Complete("cancelled", "valid", head, 0)
     \/ Complete("none", "malformed", 0, 0)
     \/ \E outcome \in IF Latest.stage[2] = "write" THEN {"pass"}
                                                   ELSE {"pass", "fail"} :
          \E artifact \in {0, Own(commits[CurrentHead])} :
            Complete(outcome, "unproven", CurrentHead, artifact)
  /\ UNCHANGED <<state, commits, draft, checked, pc>>

\* Somebody pushes to the delivery branch, and perhaps changes a document.  What
\* is pushed while an author works is part of its commit.
Push ==
  /\ state = "active"
  /\ Latest.stage[2] = "write" => Latest.metadata # "none"
  /\ Fault
  /\ \E changed \in SUBSET Artifacts :
       /\ Cardinality(changed) <= 1
       /\ commits' = Append(commits, [a \in Artifacts |->
                       IF a \in changed THEN CurrentHead + 1 ELSE commits[CurrentHead][a]])
  /\ UNCHANGED <<state, history, draft, checked, pc>>

\* The daemon dies in the middle of a reconcile.
Crash ==
  /\ pc # "idle"
  /\ Fault
  /\ pc' = "idle"
  /\ UNCHANGED <<state, history, commits, draft, checked>>

\* The recover command: the completion is judged again.
Recover ==
  /\ state = "exception"
  /\ Fault
  /\ state' = "active"
  /\ UNCHANGED <<history, commits, draft, checked, pc>>

-----------------------------------------------------------------------------
(* Outcomes of a reconcile *)

Judge(verdict) == [history EXCEPT ![Len(history)].verdict = verdict]

\* _create_work: if the head violates a baseline the card becomes a repair.
CreateWork(h, stage, mode, context) ==
  LET repair == context.kind # "frozen_artifact" /\ FrozenViolation(h, CurrentHead)
      card   == IF ~repair
                  THEN NewCard(stage, mode, context)
                ELSE IF mode = "finalization"
                  THEN NewCard(Producer(stage), mode, context)
                  ELSE NewCard(Producer(stage), "normal", FrozenContext)
  IN  /\ history' = Append(h, card)
      /\ pc' = "idle"
      /\ UNCHANGED <<state, draft, checked>>

\* _exception, or a ValueError that reaches _record_run_exception.
RunException(h) ==
  /\ history' = h
  /\ state' = "exception"
  /\ pc' = "idle"
  /\ UNCHANGED <<draft, checked>>

Continue(h, step) ==
  /\ history' = h
  /\ pc' = step
  /\ UNCHANGED <<state, draft, checked>>

ProtocolRetryAllowed(n) == n <= RetryLimit

\* _protocol_failure: mark the card and issue it again while retries are left.
ProtocolFailure ==
  LET h == [Judge("rejected") EXCEPT ![Len(history)].marked = TRUE]
  IN  IF ProtocolRetryAllowed(ProtocolFailures(h, Latest.stage))
        THEN CreateWork(h, Latest.stage, Latest.mode, Latest.context)
        ELSE RunException(h)

\* _create_frozen_repair: a finalization stays one.
CreateFrozenRepair(h) ==
  CreateWork(h, Producer(Latest.stage), Latest.mode,
             IF Latest.mode = "finalization" THEN Latest.context
                                             ELSE FrozenContext)

-----------------------------------------------------------------------------
(* The reconcile of a completed card *)

Reconciling(step) ==
  /\ state = "active"
  /\ pc = step
  /\ Latest.metadata # "none"

\* metadata.head_sha is the head of the merge request, or a cancelled card has
\* none.
HeadIsCurrent(c) == \/ c.head = CurrentHead
                    \/ c.outcome = "cancelled" /\ c.head = 0

\* _validate_finalization_context: the finalization follows from the review
\* that reached the limit.
FinalizationContext(c) ==
  LET t == c.context.trigger
  IN  /\ c.context.kind = "review_failure"
      /\ c.context.attempt = ReviewLimit
      /\ history[t].stage = NextStage(c.stage)
      /\ history[t].outcome = "fail"
      /\ ReviewAttempts(SubSeq(history, 1, t), history[t].stage) = ReviewLimit

\* The first checks, with the head of the bound merge request.
ValidateCompletion ==
  /\ Reconciling("idle")
  /\ IF /\ Parses(Latest)
        /\ HeadIsCurrent(Latest)
        /\ Latest.mode = "finalization" =>
             FinalizationContext(Latest) /\ Latest.outcome # "cancelled"
       THEN Continue(history, "gate")
       ELSE ProtocolFailure
  /\ UNCHANGED <<commits, faults>>

\* The head has moved since the first checks; document reviews and cancelled
\* cards are not compared with it again.
Stale(c) ==
  /\ c.stage \notin DocumentReviews
  /\ c.outcome # "cancelled"
  /\ ~HeadIsCurrent(c)

\* validate_author_completion and validate_gate read the head again.  A push
\* sends a code gate back to the test.
ValidateGate ==
  /\ Reconciling("gate")
  /\ \/ /\ ~Stale(Latest) /\ Latest.metadata = "valid"
        /\ Continue(history, "frozen")
     \/ /\ Stale(Latest) /\ Latest.stage \in CodeGates
        /\ CreateWork(Judge("rejected"), TEST, "normal", NoContext)
     \/ /\ IF Stale(Latest) THEN Latest.stage \notin CodeGates
                            ELSE Latest.metadata = "unproven"
        /\ ProtocolFailure
  /\ UNCHANGED <<commits, faults>>

\* Mutant of CheckFrozen: a violation is noted and nobody is asked to repair it.
CheckFrozenWaits ==
  /\ Reconciling("frozen")
  /\ IF FrozenViolation(history, CurrentHead)
       THEN Continue(Judge("rejected"), "idle")
       ELSE Continue(Judge("accepted"), "route")
  /\ UNCHANGED <<commits, faults>>

\* The baselines at the current head.  The artifact a review or finalization
\* approved is itself among them, so that validate_artifact_gate_at_ref finds
\* nothing new.
CheckFrozen ==
  /\ Reconciling("frozen")
  /\ IF FrozenViolation(history, CurrentHead)
       THEN CreateFrozenRepair(Judge("rejected"))
       ELSE Continue(Judge("accepted"), "route")
  /\ UNCHANGED <<commits, faults>>

\* Mutant of TestIsPaired: the latest test will do, whatever head it tested.
TestIsPairedAnyHead(h, c) == PairedTest(h) # 0

\* The test a code review is judged with: same head, and still proved.
TestIsPaired(h, c) ==
  LET t == PairedTest(h)
  IN  /\ t # 0
      /\ h[t].head = c.head
      /\ h[t].metadata = "valid"
      /\ h[t].head = CurrentHead

\* A code review does not pass without its test.
CodeGateFails(c) ==
  \/ c.outcome = "fail"
  \/ c.stage = CODE_REVIEW /\ history[PairedTest(history)].outcome = "fail"

NextWork(stage, mode) == [stage |-> stage, mode |-> mode, terminal |-> "none"]
Terminal(s) == [stage |-> TEST, mode |-> "normal", terminal |-> s]

\* Mutant of BudgetSpent: one modification more.
BudgetSpentLate == CodeModifications(history) > ModificationLimit

BudgetSpent == CodeModifications(history) >= ModificationLimit

\* A failed code gate.
RouteFailure(c) ==
  IF BudgetSpent
    THEN Terminal(IF c.stage = TEST THEN "completed_test_failed"
                                    ELSE "completed_with_findings")
    ELSE NextWork(IMPLEMENT, "normal")

\* Mutant of RouteDocument: a finalization is reviewed like any other version.
RouteDocumentReviewed(c) ==
  IF c.outcome = "fail"
    THEN NextWork(Producer(c.stage),
                  IF ReviewAttempts(history, c.stage) >= ReviewLimit
                    THEN "finalization" ELSE "normal")
    ELSE NextWork(NextStage(c.stage), "normal")

\* Mutant of RouteDocument: the last failed review ends the phase, with no
\* finalization.
RouteDocumentForced(c) ==
  IF c.outcome = "fail" /\ ReviewAttempts(history, c.stage) < ReviewLimit
    THEN NextWork(Producer(c.stage), "normal")
    ELSE NextWork(NextStage(c.stage), "normal")

\* A document, its review, or the implementation.
RouteDocument(c) ==
  IF c.outcome = "fail"
    THEN NextWork(Producer(c.stage),
                  IF ReviewAttempts(history, c.stage) >= ReviewLimit
                    THEN "finalization" ELSE "normal")
    ELSE NextWork(IF c.mode = "finalization"
                    THEN NextStage(NextStage(c.stage)) ELSE NextStage(c.stage),
                  "normal")

\* route_completion, for a completion that was not cancelled.
RouteCompletion(c) ==
  IF c.stage \notin CodeGates THEN RouteDocument(c)
  ELSE IF CodeGateFails(c) THEN RouteFailure(c)
  ELSE IF c.stage = TEST THEN NextWork(CODE_REVIEW, "normal")
  ELSE Terminal("completed_ready")

\* The repair_context of the next card.
RepairContext(c) ==
  IF c.stage \in CodeGates /\ CodeGateFails(c)
    THEN [kind |-> "code_gate_failure", attempt |-> 0, trigger |-> Len(history)]
  ELSE IF c.stage \in DocumentReviews /\ c.outcome = "fail"
    THEN [kind |-> "review_failure",
          attempt |-> ReviewAttempts(history, c.stage),
          trigger |-> Len(history)]
  ELSE NoContext

RouteCancelled ==
  /\ Reconciling("route")
  /\ Latest.outcome = "cancelled"
  /\ IF Latest.stage \in CodeGates
       THEN CreateWork(history, TEST, "normal", NoContext)
       ELSE RunException(history)
  /\ UNCHANGED <<commits, faults>>

\* A code review without a test of the same head goes back to the test.
RouteUnpaired ==
  /\ Reconciling("route")
  /\ Latest.outcome # "cancelled"
  /\ Latest.stage = CODE_REVIEW
  /\ ~TestIsPaired(history, Latest)
  /\ CreateWork(history, TEST, "normal", NoContext)
  /\ UNCHANGED <<commits, faults>>

\* RepairContext refuses a review attempt beyond the limit.
Route ==
  /\ Reconciling("route")
  /\ Latest.outcome # "cancelled"
  /\ Latest.stage = CODE_REVIEW => TestIsPaired(history, Latest)
  /\ LET route   == RouteCompletion(Latest)
         context == RepairContext(Latest)
     IN  IF route.terminal # "none"     THEN Continue(history, "finish")
         ELSE IF context.attempt > ReviewLimit THEN RunException(history)
         ELSE CreateWork(history, route.stage, route.mode, context)
  /\ UNCHANGED <<commits, faults>>

\* _finalize_code_flow up to _mark_delivery_ready_at_head.
FinalizeCodeFlow ==
  /\ Reconciling("finish")
  /\ LET terminal == RouteCompletion(Latest).terminal
     IN  IF Latest.head # CurrentHead
           THEN CreateWork(history, TEST, "normal", NoContext)
         ELSE IF \/ FrozenViolation(history, Latest.head)
                 \/ /\ Latest.stage = CODE_REVIEW
                    /\ history[PairedTest(history)].outcome = "fail"
           THEN RunException(history)
         ELSE IF terminal # "completed_test_failed"
           THEN Continue(history, "ready")
         ELSE /\ state' = terminal
              /\ checked' = Latest.head
              /\ pc' = "idle"
              /\ UNCHANGED <<history, draft>>
  /\ UNCHANGED <<commits, faults>>

\* mark_and_verify: CheckedHeadConflict is a ValueError nobody catches.
MarkReady ==
  /\ Reconciling("ready")
  /\ IF Latest.head = CurrentHead
       THEN draft' = FALSE /\ pc' = "commit"
            /\ UNCHANGED <<state, history, checked>>
       ELSE RunException(history)
  /\ UNCHANGED <<commits, faults>>

\* The head is read once more, then mark_flow_completed.
MarkFlowCompleted ==
  /\ Reconciling("commit")
  /\ IF Latest.head = CurrentHead
       THEN /\ state' = RouteCompletion(Latest).terminal
            /\ checked' = Latest.head
            /\ pc' = "idle"
            /\ UNCHANGED <<history, draft>>
       ELSE RunException(history)
  /\ UNCHANGED <<commits, faults>>

ReconcileStep ==
  \/ ValidateCompletion \/ ValidateGate \/ CheckFrozen
  \/ RouteCancelled \/ RouteUnpaired \/ Route
  \/ FinalizeCodeFlow \/ MarkReady \/ MarkFlowCompleted

WorkerStep == AuthorCompletes \/ GateCompletes

Next ==
  \/ ReconcileStep
  \/ WorkerStep
  \/ BadCompletion \/ Push \/ Crash \/ Recover

Spec == Init /\ [][Next]_vars

\* Workers finish (worker watchdog), the run is reconciled (ReconcileQueue).
FairSpec == Spec /\ WF_vars(ReconcileStep \/ WorkerStep)

-----------------------------------------------------------------------------
(* Properties *)

\* A merge request is handed over as ready only if the test passed and the
\* review was made on the very head that is handed over, both were accepted,
\* and no implementation came after the test; and it is called free of findings
\* only if the review passed.  Pushes may come between any two reads.
ReadyIsProved ==
  state \in {"completed_ready", "completed_with_findings"} =>
    /\ ~draft
    /\ Latest.stage = CODE_REVIEW /\ Latest.verdict = "accepted"
    /\ Latest.head = checked
    /\ Latest.outcome = (IF state = "completed_ready" THEN "pass" ELSE "fail")
    /\ \E t \in DOMAIN history :
         /\ history[t].stage = TEST /\ history[t].verdict = "accepted"
         /\ history[t].outcome = "pass" /\ history[t].head = checked
         /\ \A i \in t..Len(history) : history[i].stage # IMPLEMENT

\* What is delivered, ready or not, agrees with the PRD and with every frozen
\* document.
DeliveryIsFrozen ==
  state \in TerminalStates =>
    \A a \in DOMAIN Baseline(history) :
      commits[checked][a] = Baseline(history)[a]

\* A phase begins only when each earlier document was accepted, by a review
\* that passed or by a finalization.
PhasesAreAccepted ==
  \A i \in DOMAIN Documents :
    Position(Latest.stage) > 2 * i =>
      \E c \in Range(history) :
        FreezesPhase(c, Documents[i]) /\ c.verdict = "accepted"

\* A finalization is never in vain: each one, the retries and repairs included,
\* is derived from the failed review that reached the limit, which is what
\* _validate_finalization_context will ask for; and its document is not
\* reviewed any more.
FinalizationIsLast ==
  \A i \in DOMAIN history :
    history[i].mode = "finalization" =>
      /\ FinalizationContext(history[i])
      /\ \A j \in i..Len(history) : history[j].stage # NextStage(history[i].stage)

\* The code is modified at most ModificationLimit times, not counting the
\* restoration of frozen documents.
BudgetIsKept ==
  LET Restores(c) == /\ c.stage = IMPLEMENT
                     /\ c.context.kind = "frozen_artifact"
  IN  CodeModifications(history) <= ModificationLimit + Count(history, Restores)

\* What is frozen is a version no head has: no author can restore it.
Unrestorable == \E a \in DOMAIN Baseline(history) : Baseline(history)[a] = 0

\* The delivery comes to an end: after finitely many faults it is handed over or
\* a human is asked.  One fault keeps it going for ever: a passing review that is
\* refused for its digest or path set freezes them all the same, and every
\* repair is followed by another.
DeliveryEnds == <>[](state # "active") \/ <>[]Unrestorable
=============================================================================
