------------------------ MODULE DeliveryWorkflowProofs ------------------------
(***************************************************************************)
(* Proofs about DeliveryWorkflow, for any number of document phases, any   *)
(* limits and any number of pushes, bad completions, crashes and           *)
(* recoveries.                                                             *)
(***************************************************************************)
EXTENDS DeliveryWorkflow, SequenceTheorems, WellFoundedInduction, FiniteSetTheorems, TLAPS

-----------------------------------------------------------------------------
(* The inductive invariant *)

\* What is written on a card agrees.
SoundCard(c) ==
  /\ c.mode = "finalization" => c.stage \in DocumentWriters
  /\ c.metadata = "none" => c.outcome = "none"
  /\ Parses(c) => c.outcome # "none"
  /\ c.stage[2] = "write" => c.outcome # "fail"
  /\ c.verdict = "accepted" => c.metadata = "valid"

CardsAreSound(h) == \A i \in DOMAIN h : SoundCard(h[i])

\* The card at place t is an accepted test that passed, and only reviews of the
\* code came after it.
Tested(h, t) ==
  /\ t \in 1..(Len(h) - 1)
  /\ h[t].stage = TEST /\ h[t].verdict = "accepted" /\ h[t].outcome = "pass"
  /\ \A i \in (t + 1)..Len(h) : h[i].stage = CODE_REVIEW

ReviewIsTested(h) ==
  Last(h).stage = CODE_REVIEW => \E t \in DOMAIN h : Tested(h, t)

\* The card froze its phase and was accepted.
Earns(c, p) == FreezesPhase(c, p) /\ c.verdict = "accepted"

\* Each phase before the one of the latest card was accepted, by a card that
\* will not be judged again.
PhasesAreEarned(h) ==
  \A i \in DOMAIN Documents :
    Position(Last(h).stage) > 2 * i =>
      \E k \in 1..(Len(h) - 1) : Earns(h[k], Documents[i])

\* What _validate_finalization_context finds in the history h.
Derived(h, c) ==
  /\ c.context.kind = "review_failure"
  /\ c.context.attempt = ReviewLimit
  /\ h[c.context.trigger].stage = NextStage(c.stage)
  /\ h[c.context.trigger].outcome = "fail"
  /\ ReviewAttempts(SubSeq(h, 1, c.context.trigger), h[c.context.trigger].stage)
       = ReviewLimit

\* The finalization at place i is derived from a review before it, no other
\* review follows, and until the phase is over all cards are finalizations of
\* the same document.
OpenFinalization(h, i) ==
  /\ h[i].context.trigger \in 1..(i - 1)
  /\ Derived(h, h[i])
  /\ \A j \in i..Len(h) : h[j].stage # NextStage(h[i].stage)
  /\ \/ Position(Last(h).stage) > Position(h[i].stage) + 1
     \/ Last(h).stage = h[i].stage /\ Last(h).mode = "finalization"

FinalizationsAreOpen(h) ==
  \A i \in DOMAIN h : h[i].mode = "finalization" => OpenFinalization(h, i)

\* While documents are written there is no code.
DocumentsComeFirst(h) ==
  Position(Last(h).stage) <= 2 * Len(Documents) =>
    \A i \in DOMAIN h : h[i].stage # IMPLEMENT

\* An implementation that counts, and one that only restores.
Spends(c)   == c.stage = IMPLEMENT /\ c.verdict = "accepted" /\ c.outcome = "pass"
Restores(c) == c.stage = IMPLEMENT /\ c.context.kind = "frozen_artifact"

\* How many of the first n cards did so.
Spent(h, n)    == Cardinality({i \in 1..n : Spends(h[i])})
Restored(h, n) == Cardinality({i \in 1..n : Restores(h[i])})

\* The implementations before the latest card, and that one if it may become
\* another one, are within the budget.
BudgetIsHeld(h) ==
  Spent(h, Len(h) - 1) + (IF Last(h).stage = IMPLEMENT THEN 1 ELSE 0)
    <= 1 + ModificationLimit + Restored(h, Len(h))

HistoryIsSound(h) ==
  /\ CardsAreSound(h) /\ ReviewIsTested(h) /\ PhasesAreEarned(h)
  /\ FinalizationsAreOpen(h) /\ DocumentsComeFirst(h) /\ BudgetIsHeld(h)

\* The completion ends the flow, and a review has its test.
Finishing ==
  /\ Latest.stage \in CodeGates /\ Latest.outcome # "cancelled"
  /\ RouteCompletion(Latest).terminal # "none"
  /\ Latest.stage = CODE_REVIEW =>
       \E t \in DOMAIN history : Tested(history, t) /\ history[t].head = Latest.head

\* The reviewed head agrees with what is frozen.
HandingOver ==
  /\ Latest.stage = CODE_REVIEW
  /\ Latest.head \in 1..CurrentHead
  /\ ~FrozenViolation(history, Latest.head)

\* What the reconcile has established at each of its reads.
PlaceIsTrue ==
  /\ state # "active" => pc = "idle"
  /\ pc # "idle" => Parses(Latest)
  /\ pc = "frozen" => Latest.metadata = "valid"
  /\ pc \in {"route", "finish", "ready", "commit"} => Latest.verdict = "accepted"
  /\ pc \in {"finish", "ready", "commit"} => Finishing
  /\ pc \in {"ready", "commit"} => HandingOver
  /\ pc = "commit" => ~draft

IInv ==
  /\ TypeOK /\ HistoryIsSound(history)
  /\ PlaceIsTrue /\ ReadyIsProved /\ DeliveryIsFrozen

-----------------------------------------------------------------------------
(* Sequences of cards *)

\* A set of numbers up to a bound has a maximum.
LEMMA MaxOfBounded ==
  ASSUME NEW n \in Nat, NEW S \in SUBSET (1..n), S # {}
  PROVE  Max(S) \in S /\ \A y \in S : y <= Max(S)
<1> DEFINE T == {n - x : x \in S}
           R == OpToRel(<, Nat)
<1>1. T \in SUBSET Nat /\ T # {}
  <2>1. \A x \in S : n - x \in Nat
    OBVIOUS
  <2> QED
    BY <2>1
<1>2. PICK m \in T : \A y \in T : ~(<<y, m>> \in R)
  <2>1. IsWellFoundedOn(R, Nat)
    BY NatLessThanWellFounded
  <2> HIDE DEF R, T
  <2> QED
    BY <1>1, <2>1, WFMin
<1>3. \A y \in T : ~(y < m)
  BY <1>1, <1>2 DEF OpToRel
<1>4. PICK x \in S : m = n - x
  BY <1>2
<1>5. \A y \in S : y <= x
  <2> SUFFICES ASSUME NEW y \in S PROVE y <= x
    OBVIOUS
  <2>1. n - y \in T
    OBVIOUS
  <2>2. ~(n - y < m)
    BY <1>3, <2>1
  <2> QED
    BY <1>4, <2>2
<1>6. \E z \in S : \A y \in S : z >= y
  BY <1>5
<1>7. Max(S) \in S /\ \A y \in S : Max(S) >= y
  BY <1>6 DEF Max
<1> QED
  BY <1>7

\* The place of the last card that passes a test, given as the set of the places
\* of all of them.
LEMMA LastPlace ==
  ASSUME NEW n \in Nat, NEW S \in SUBSET (1..n),
         NEW last, last = IF S # {} THEN Max(S) ELSE 0
  PROVE  /\ last \in 0..n
         /\ last # 0 => last \in S
         /\ \A i \in S : i <= last
<1>1. CASE S = {}
  BY <1>1
<1>2. CASE S # {}
  <2>1. Max(S) \in S /\ \A y \in S : y <= Max(S)
    BY <1>2, MaxOfBounded
  <2>2. last = Max(S)
    BY <1>2
  <2>3. last \in S /\ \A i \in S : i <= last
    BY <2>1, <2>2
  <2> QED
    BY <2>3
<1> QED
  BY <1>1, <1>2

\* The stages of the code have no name of a document.
LEMMA CodeStages ==
  /\ IMPLEMENT # TEST /\ IMPLEMENT # CODE_REVIEW /\ TEST # CODE_REVIEW
  /\ IMPLEMENT \notin CodeGates
BY DEF IMPLEMENT, TEST, CODE_REVIEW, CodeGates

\* The test before the reviews is the one they are judged with.
LEMMA PairedTestIs ==
  ASSUME NEW h \in Seq(CardRecords), NEW t, Tested(h, t), Judged(h[t])
  PROVE  PairedTest(h) = t
<1> DEFINE IsImplement(c) == c.stage = IMPLEMENT
           IsTest(c) == c.stage = TEST /\ Judged(c)
           A == {i \in 1..Len(h) : IsImplement(h[i])}
           B == {i \in 1..Len(h) : IsTest(h[i])}
           a == SelectLastInSeq(h, IsImplement)
           b == SelectLastInSeq(h, IsTest)
<1>1. a = (IF A # {} THEN Max(A) ELSE 0) /\ b = (IF B # {} THEN Max(B) ELSE 0)
  BY DEF SelectLastInSeq
<1>2. PairedTest(h) = IF b > a THEN b ELSE 0
  BY DEF PairedTest
<1>3. /\ Len(h) \in Nat /\ t \in 1..(Len(h) - 1)
      /\ \A i \in (t + 1)..Len(h) : h[i].stage = CODE_REVIEW
      /\ h[t].stage = TEST
  BY DEF Tested
<1>4. t \in B /\ t \notin A
  BY <1>3, CodeStages
<1>5. \A i \in 1..Len(h) : i > t => i \notin A /\ i \notin B
  <2> SUFFICES ASSUME NEW i \in 1..Len(h), i > t PROVE i \notin A /\ i \notin B
    OBVIOUS
  <2>1. i \in (t + 1)..Len(h)
    BY <1>3
  <2> QED
    BY <1>3, <2>1, CodeStages
<1>6. A \in SUBSET (1..Len(h)) /\ B \in SUBSET (1..Len(h))
  OBVIOUS
<1> HIDE DEF A, B, a, b
<1>7. a \in 0..Len(h) /\ (a # 0 => a \in A)
  BY <1>1, <1>3, <1>6, LastPlace
<1>8. b \in 0..Len(h) /\ (b # 0 => b \in B) /\ \A i \in B : i <= b
  BY <1>1, <1>3, <1>6, LastPlace
<1>9. b = t
  BY <1>3, <1>4, <1>5, <1>6, <1>8
<1>10. a < t
  BY <1>3, <1>4, <1>5, <1>6, <1>7
<1> QED
  BY <1>2, <1>3, <1>7, <1>9, <1>10

-----------------------------------------------------------------------------
(* Stages *)

\* Three elements after a sequence.
LEMMA ConcatThree ==
  ASSUME NEW E, NEW f \in Seq(E), NEW s \in Seq(E), Len(s) = 3
  PROVE  /\ DOMAIN (f \o s) = 1..(Len(f) + 3)
         /\ \A i \in 1..Len(f) : (f \o s)[i] = f[i]
         /\ (f \o s)[Len(f) + 1] = s[1]
         /\ (f \o s)[Len(f) + 2] = s[2]
         /\ (f \o s)[Len(f) + 3] = s[3]
<1>1. /\ f \o s \in Seq(E)
      /\ Len(f \o s) = Len(f) + Len(s)
      /\ \A i \in 1..(Len(f) + Len(s)) :
           (f \o s)[i] = IF i <= Len(f) THEN f[i] ELSE s[i - Len(f)]
  BY ConcatProperties, Zenon
<1>2. Len(f) \in Nat
  OBVIOUS
<1> QED
  BY <1>1, <1>2

\* The same, with the elements written out.
LEMMA ConcatElements ==
  ASSUME NEW E, NEW m \in Nat, NEW f \in [1..m -> E],
         NEW a \in E, NEW b \in E, NEW c \in E
  PROVE  /\ DOMAIN (f \o <<a, b, c>>) = 1..(m + 3)
         /\ \A i \in 1..m : (f \o <<a, b, c>>)[i] = f[i]
         /\ (f \o <<a, b, c>>)[m + 1] = a
         /\ (f \o <<a, b, c>>)[m + 2] = b
         /\ (f \o <<a, b, c>>)[m + 3] = c
<1> DEFINE s == <<a, b, c>>
<1>1. f \in Seq(E) /\ Len(f) = m
  OBVIOUS
<1>2. s \in Seq(E) /\ Len(s) = 3 /\ s[1] = a /\ s[2] = b /\ s[3] = c
  OBVIOUS
<1> HIDE DEF s
<1>3. /\ DOMAIN (f \o s) = 1..(m + 3)
      /\ \A i \in 1..m : (f \o s)[i] = f[i]
      /\ (f \o s)[m + 1] = s[1] /\ (f \o s)[m + 2] = s[2] /\ (f \o s)[m + 3] = s[3]
  BY <1>1, <1>2, ConcatThree, Zenon
<1> QED
  BY <1>2, <1>3 DEF s

\* SEQUENCE, element by element.
LEMMA SequenceElements ==
  /\ Len(Documents) \in Nat /\ DOMAIN Documents = 1..Len(Documents)
  /\ DOMAIN SEQUENCE = 1..(2 * Len(Documents) + 3)
  /\ \A i \in 1..Len(Documents) :
       /\ SEQUENCE[2 * i - 1] = <<Documents[i], "write">>
       /\ SEQUENCE[2 * i] = <<Documents[i], "review">>
  /\ SEQUENCE[2 * Len(Documents) + 1] = IMPLEMENT
  /\ SEQUENCE[2 * Len(Documents) + 2] = TEST
  /\ SEQUENCE[2 * Len(Documents) + 3] = CODE_REVIEW
<1> DEFINE n == Len(Documents)
           D == [i \in 1..(2 * n) |->
                  <<Documents[(i + 1) \div 2], IF i % 2 = 1 THEN "write" ELSE "review">>]
           E == {D[i] : i \in 1..(2 * n)} \cup {IMPLEMENT, TEST, CODE_REVIEW}
<1>1. n \in Nat /\ DOMAIN Documents = 1..n
  BY WorkflowAssumption
<1>2. SEQUENCE = D \o <<IMPLEMENT, TEST, CODE_REVIEW>>
  BY DEF SEQUENCE
<1>3. 2 * n \in Nat
  BY <1>1
<1>4. D \in [1..(2 * n) -> E]
  <2>1. D = [i \in 1..(2 * n) |-> D[i]]
    OBVIOUS
  <2>2. \A i \in 1..(2 * n) : D[i] \in E
    OBVIOUS
  <2> HIDE DEF D, E
  <2> QED
    BY <2>1, <2>2
<1>5. IMPLEMENT \in E /\ TEST \in E /\ CODE_REVIEW \in E
  OBVIOUS
<1>6. ASSUME NEW i \in 1..n
      PROVE  /\ D[2 * i - 1] = <<Documents[i], "write">>
             /\ D[2 * i] = <<Documents[i], "review">>
  <2>1. /\ 2 * i - 1 \in 1..(2 * n) /\ 2 * i \in 1..(2 * n)
        /\ (2 * i - 1 + 1) \div 2 = i /\ (2 * i + 1) \div 2 = i
        /\ (2 * i - 1) % 2 = 1 /\ (2 * i) % 2 = 0
    BY <1>1
  <2> QED
    BY <2>1
<1> HIDE DEF D, E
<1>7. /\ DOMAIN SEQUENCE = 1..(2 * n + 3)
      /\ \A i \in 1..(2 * n) : SEQUENCE[i] = D[i]
      /\ SEQUENCE[2 * n + 1] = IMPLEMENT
      /\ SEQUENCE[2 * n + 2] = TEST
      /\ SEQUENCE[2 * n + 3] = CODE_REVIEW
  BY <1>2, <1>3, <1>4, <1>5, ConcatElements
<1>8. \A i \in 1..n : 2 * i - 1 \in 1..(2 * n) /\ 2 * i \in 1..(2 * n)
  BY <1>1
<1>9. \A i \in 1..n : /\ SEQUENCE[2 * i - 1] = <<Documents[i], "write">>
                      /\ SEQUENCE[2 * i] = <<Documents[i], "review">>
  BY <1>6, <1>7, <1>8
<1> QED
  BY <1>1, <1>7, <1>9

\* The number of document phases.
Phases == Len(Documents)

\* No two places of SEQUENCE hold the same stage.
LEMMA StagesDiffer ==
  /\ \A k, l \in 1..Phases :
       /\ <<Documents[k], "write">> = <<Documents[l], "write">> => k = l
       /\ <<Documents[k], "review">> = <<Documents[l], "review">> => k = l
       /\ <<Documents[k], "write">> # <<Documents[l], "review">>
  /\ \A k \in 1..Phases :
       /\ <<Documents[k], "write">> \notin {IMPLEMENT, TEST, CODE_REVIEW}
       /\ <<Documents[k], "review">> \notin {IMPLEMENT, TEST, CODE_REVIEW}
<1>1. DOMAIN Documents = 1..Phases
  BY SequenceElements DEF Phases
<1>2. \A k, l \in 1..Phases : Documents[k] = Documents[l] => k = l
  BY <1>1, WorkflowAssumption
<1>3. \A k \in 1..Phases : Documents[k] # "code"
  BY <1>1, WorkflowAssumption DEF Range
<1>4. ASSUME NEW k \in 1..Phases, NEW l \in 1..Phases
      PROVE  /\ <<Documents[k], "write">> = <<Documents[l], "write">> => k = l
             /\ <<Documents[k], "review">> = <<Documents[l], "review">> => k = l
             /\ <<Documents[k], "write">> # <<Documents[l], "review">>
  BY <1>2
<1>5. ASSUME NEW k \in 1..Phases
      PROVE  /\ <<Documents[k], "write">> \notin {IMPLEMENT, TEST, CODE_REVIEW}
             /\ <<Documents[k], "review">> \notin {IMPLEMENT, TEST, CODE_REVIEW}
  BY <1>3 DEF IMPLEMENT, TEST, CODE_REVIEW
<1> QED
  BY <1>4, <1>5

\* A stage has one place in SEQUENCE.
LEMMA PlaceIsUnique ==
  ASSUME NEW i \in DOMAIN SEQUENCE, NEW j \in DOMAIN SEQUENCE,
         SEQUENCE[i] = SEQUENCE[j]
  PROVE  i = j
<1> DEFINE Writes(x, k)  == x = 2 * k - 1 /\ SEQUENCE[x] = <<Documents[k], "write">>
           Reviews(x, k) == x = 2 * k /\ SEQUENCE[x] = <<Documents[k], "review">>
           Codes(x) == \/ x = 2 * Phases + 1 /\ SEQUENCE[x] = IMPLEMENT
                       \/ x = 2 * Phases + 2 /\ SEQUENCE[x] = TEST
                       \/ x = 2 * Phases + 3 /\ SEQUENCE[x] = CODE_REVIEW
<1>1. Phases \in Nat
  BY SequenceElements DEF Phases
<1>2. ASSUME NEW x \in DOMAIN SEQUENCE
      PROVE  \/ \E k \in 1..Phases : Writes(x, k)
             \/ \E k \in 1..Phases : Reviews(x, k)
             \/ Codes(x)
  <2>1. x \in 1..(2 * Phases + 3)
    BY SequenceElements DEF Phases
  <2>2. CASE x > 2 * Phases
    <3>1. x = 2 * Phases + 1 \/ x = 2 * Phases + 2 \/ x = 2 * Phases + 3
      BY <1>1, <2>1, <2>2
    <3> QED
      BY <3>1, SequenceElements DEF Phases
  <2>3. CASE x <= 2 * Phases
    <3>1. PICK k \in 1..Phases : x = 2 * k - 1 \/ x = 2 * k
      <4>1. (x + 1) \div 2 \in 1..Phases /\
            (x = 2 * ((x + 1) \div 2) - 1 \/ x = 2 * ((x + 1) \div 2))
        BY <1>1, <2>1, <2>3
      <4> QED
        BY <4>1
    <3> QED
      BY <3>1, SequenceElements DEF Phases
  <2> QED
    BY <1>1, <2>1, <2>2, <2>3
<1>3. CASE \E k \in 1..Phases : Writes(i, k)
  <2> PICK k \in 1..Phases : Writes(i, k)
    BY <1>3
  <2>1. CASE \E l \in 1..Phases : Writes(j, l)
    BY <2>1, StagesDiffer
  <2>2. CASE \E l \in 1..Phases : Reviews(j, l)
    BY <2>2, StagesDiffer
  <2>3. CASE Codes(j)
    BY <2>3, StagesDiffer
  <2> QED
    BY <1>2, <2>1, <2>2, <2>3
<1>4. CASE \E k \in 1..Phases : Reviews(i, k)
  <2> PICK k \in 1..Phases : Reviews(i, k)
    BY <1>4
  <2>1. CASE \E l \in 1..Phases : Writes(j, l)
    BY <2>1, StagesDiffer
  <2>2. CASE \E l \in 1..Phases : Reviews(j, l)
    BY <2>2, StagesDiffer
  <2>3. CASE Codes(j)
    BY <2>3, StagesDiffer
  <2> QED
    BY <1>2, <2>1, <2>2, <2>3
<1>5. CASE Codes(i)
  <2>1. CASE \E l \in 1..Phases : Writes(j, l)
    BY <1>5, <2>1, StagesDiffer
  <2>2. CASE \E l \in 1..Phases : Reviews(j, l)
    BY <1>5, <2>2, StagesDiffer
  <2>3. CASE Codes(j)
    BY <1>5, <2>3, CodeStages
  <2> QED
    BY <1>2, <2>1, <2>2, <2>3
<1> QED
  BY <1>2, <1>3, <1>4, <1>5

\* The place of each stage.
LEMMA StagePositions ==
  /\ Phases \in Nat
  /\ \A i \in 1..Phases :
       /\ Position(<<Documents[i], "write">>) = 2 * i - 1
       /\ Position(<<Documents[i], "review">>) = 2 * i
  /\ Position(IMPLEMENT) = 2 * Phases + 1
  /\ Position(TEST) = 2 * Phases + 2
  /\ Position(CODE_REVIEW) = 2 * Phases + 3
<1>1. ASSUME NEW i \in DOMAIN SEQUENCE, NEW s, SEQUENCE[i] = s
      PROVE  Position(s) = i
  <2>1. \A j \in DOMAIN SEQUENCE : SEQUENCE[j] = s => j = i
    BY <1>1, PlaceIsUnique
  <2> QED
    BY <1>1, <2>1 DEF Position
<1>2. Phases \in Nat
  BY SequenceElements DEF Phases
<1>3. ASSUME NEW i \in 1..Phases
      PROVE  /\ Position(<<Documents[i], "write">>) = 2 * i - 1
             /\ Position(<<Documents[i], "review">>) = 2 * i
  <2>1. 2 * i - 1 \in DOMAIN SEQUENCE /\ 2 * i \in DOMAIN SEQUENCE
    BY <1>2, SequenceElements DEF Phases
  <2>2. SEQUENCE[2 * i - 1] = <<Documents[i], "write">>
        /\ SEQUENCE[2 * i] = <<Documents[i], "review">>
    BY SequenceElements DEF Phases
  <2> HIDE DEF Position
  <2> QED
    BY <1>1, <2>1, <2>2
<1>4. /\ 2 * Phases + 1 \in DOMAIN SEQUENCE
      /\ 2 * Phases + 2 \in DOMAIN SEQUENCE
      /\ 2 * Phases + 3 \in DOMAIN SEQUENCE
  BY <1>2, SequenceElements DEF Phases
<1>5. /\ SEQUENCE[2 * Phases + 1] = IMPLEMENT
      /\ SEQUENCE[2 * Phases + 2] = TEST
      /\ SEQUENCE[2 * Phases + 3] = CODE_REVIEW
  BY SequenceElements DEF Phases
<1> QED
  BY <1>1, <1>2, <1>3, <1>4, <1>5

\* The stages of the documents.
Write(k)  == <<Documents[k], "write">>
Review(k) == <<Documents[k], "review">>

\* A stage belongs to a document or to the code.
LEMMA StageCases ==
  ASSUME NEW s \in Stages
  PROVE  \/ \E k \in 1..Phases : s = Write(k)
         \/ \E k \in 1..Phases : s = Review(k)
         \/ s = IMPLEMENT \/ s = TEST \/ s = CODE_REVIEW
<1>1. DOMAIN Documents = 1..Phases
  BY SequenceElements DEF Phases
<1>2. Range(Documents) = {Documents[k] : k \in 1..Phases}
  BY <1>1 DEF Range
<1> QED
  BY <1>2 DEF Stages, DocumentReviews, DocumentWriters, CodeGates, Write, Review

\* The sets the stages of a document belong to.
LEMMA DocumentStages ==
  ASSUME NEW k \in 1..Phases
  PROVE  /\ Write(k) \in DocumentWriters /\ Write(k) \notin DocumentReviews
         /\ Write(k) \notin CodeGates /\ Write(k) # IMPLEMENT
         /\ Write(k)[1] = Documents[k] /\ Write(k)[2] = "write"
         /\ Review(k) \in DocumentReviews /\ Review(k) \notin DocumentWriters
         /\ Review(k) \notin CodeGates /\ Review(k) # IMPLEMENT
         /\ Review(k)[1] = Documents[k] /\ Review(k)[2] = "review"
         /\ Write(k) \in Stages /\ Review(k) \in Stages
         /\ Producer(Write(k)) = Write(k) /\ Producer(Review(k)) = Write(k)
<1>1. DOMAIN Documents = 1..Phases
  BY SequenceElements DEF Phases
<1>2. Range(Documents) = {Documents[l] : l \in 1..Phases}
  BY <1>1 DEF Range
<1>3. Documents[k] \in Range(Documents)
  BY <1>2
<1>4. Write(k) \in DocumentWriters /\ Review(k) \in DocumentReviews
  BY <1>3 DEF DocumentWriters, DocumentReviews, Write, Review
<1>5. Write(k) \notin DocumentReviews /\ Review(k) \notin DocumentWriters
  BY <1>2, StagesDiffer DEF DocumentWriters, DocumentReviews, Write, Review
<1>6. /\ Write(k) \notin CodeGates /\ Write(k) # IMPLEMENT
      /\ Review(k) \notin CodeGates /\ Review(k) # IMPLEMENT
  BY StagesDiffer DEF CodeGates, Write, Review
<1>7. /\ Write(k)[1] = Documents[k] /\ Write(k)[2] = "write"
      /\ Review(k)[1] = Documents[k] /\ Review(k)[2] = "review"
  BY DEF Write, Review
<1>8. Producer(Write(k)) = Write(k) /\ Producer(Review(k)) = Write(k)
  BY <1>7 DEF Producer, Write
<1>9. Write(k) \in Stages /\ Review(k) \in Stages
  BY <1>4 DEF Stages
<1> QED
  BY <1>4, <1>5, <1>6, <1>7, <1>8, <1>9

\* The sets the stages of the code belong to.
LEMMA GateStages ==
  /\ TEST \in CodeGates /\ CODE_REVIEW \in CodeGates /\ IMPLEMENT \notin CodeGates
  /\ \A s \in {IMPLEMENT, TEST, CODE_REVIEW} :
       s \in Stages /\ s \notin DocumentWriters /\ s \notin DocumentReviews
       /\ Producer(s) = IMPLEMENT
  /\ IMPLEMENT[2] = "write" /\ TEST[2] # "write" /\ CODE_REVIEW[2] # "write"
<1>1. DOMAIN Documents = 1..Phases
  BY SequenceElements DEF Phases
<1>2. Range(Documents) = {Documents[l] : l \in 1..Phases}
  BY <1>1 DEF Range
<1>3. \A s \in {IMPLEMENT, TEST, CODE_REVIEW} :
        s \notin DocumentWriters /\ s \notin DocumentReviews
  BY <1>2, StagesDiffer DEF DocumentWriters, DocumentReviews
<1>4. \A s \in {IMPLEMENT, TEST, CODE_REVIEW} : Producer(s) = IMPLEMENT
  BY DEF Producer, IMPLEMENT, TEST, CODE_REVIEW
<1>5. IMPLEMENT[2] = "write" /\ TEST[2] # "write" /\ CODE_REVIEW[2] # "write"
  BY DEF IMPLEMENT, TEST, CODE_REVIEW
<1>6. \A s \in {IMPLEMENT, TEST, CODE_REVIEW} : s \in Stages
  BY DEF Stages, CodeGates
<1> QED
  BY <1>3, <1>4, <1>5, <1>6, CodeStages DEF CodeGates

\* The place of each stage, by name.
LEMMA Positions ==
  /\ Phases \in Nat
  /\ \A k \in 1..Phases : Position(Write(k)) = 2 * k - 1
  /\ \A k \in 1..Phases : Position(Review(k)) = 2 * k
  /\ Position(IMPLEMENT) = 2 * Phases + 1
  /\ Position(TEST) = 2 * Phases + 2
  /\ Position(CODE_REVIEW) = 2 * Phases + 3
BY StagePositions, Zenon DEF Write, Review

\* What NextStage gives.
LEMMA NextStages ==
  /\ \A k \in 1..Phases : NextStage(Write(k)) = Review(k)
  /\ \A k \in 1..Phases :
       /\ k < Phases => k + 1 \in 1..Phases /\ NextStage(Review(k)) = Write(k + 1)
       /\ k = Phases => NextStage(Review(k)) = IMPLEMENT
  /\ NextStage(IMPLEMENT) = TEST
<1>1. Phases \in Nat
  BY Positions
<1>2. ASSUME NEW k \in 1..Phases
      PROVE  NextStage(Write(k)) = Review(k)
  <2>1. Position(Write(k)) + 1 = 2 * k
    BY <1>1, Positions
  <2> QED
    BY <2>1, SequenceElements DEF NextStage, Review, Phases
<1>3. ASSUME NEW k \in 1..Phases, k < Phases
      PROVE  k + 1 \in 1..Phases /\ NextStage(Review(k)) = Write(k + 1)
  <2>1. k + 1 \in 1..Phases
    BY <1>1, <1>3
  <2>2. Position(Review(k)) + 1 = 2 * (k + 1) - 1
    BY <1>1, Positions
  <2>3. SEQUENCE[2 * (k + 1) - 1] = Write(k + 1)
    BY <2>1, SequenceElements DEF Write, Phases
  <2> QED
    BY <2>1, <2>2, <2>3 DEF NextStage
<1>4. ASSUME NEW k \in 1..Phases, k = Phases
      PROVE  NextStage(Review(k)) = IMPLEMENT
  <2>1. Position(Review(k)) + 1 = 2 * Phases + 1
    BY <1>1, <1>4, Positions
  <2> QED
    BY <2>1, SequenceElements DEF NextStage, Phases
<1>5. NextStage(IMPLEMENT) = TEST
  <2>1. Position(IMPLEMENT) + 1 = 2 * Phases + 2
    BY <1>1, Positions
  <2> QED
    BY <2>1, SequenceElements DEF NextStage, Phases
<1> QED
  BY <1>2, <1>3, <1>4, <1>5

\* A writer writes one of the documents.
LEMMA WriterIs ==
  ASSUME NEW s \in DocumentWriters
  PROVE  \E k \in 1..Phases : s = Write(k)
<1>1. s \in Stages
  BY DEF Stages
<1> QED
  BY <1>1, StageCases, DocumentStages, GateStages

\* A document review reviews one of them.
LEMMA ReviewIs ==
  ASSUME NEW s \in DocumentReviews
  PROVE  \E k \in 1..Phases : s = Review(k)
<1>1. s \in Stages
  BY DEF Stages
<1> QED
  BY <1>1, StageCases, DocumentStages, GateStages

\* Sending a stage back to its producer stays in the same phase.
LEMMA ProducerFloor ==
  ASSUME NEW s \in Stages
  PROVE  /\ Producer(s) \in Stages /\ Producer(s) \notin CodeGates
         /\ Position(s) \in Nat
         /\ \A p \in 1..Phases : Position(Producer(s)) > 2 * p <=> Position(s) > 2 * p
<1>1. CASE \E k \in 1..Phases : s = Write(k)
  BY <1>1, DocumentStages, Positions
<1>2. CASE \E k \in 1..Phases : s = Review(k)
  <2> PICK k \in 1..Phases : s = Review(k)
    BY <1>2
  <2>1. Producer(s) = Write(k) /\ Position(s) = 2 * k /\ Position(Write(k)) = 2 * k - 1
    BY DocumentStages, Positions
  <2>2. \A p \in 1..Phases : 2 * k - 1 > 2 * p <=> 2 * k > 2 * p
    BY Positions
  <2> QED
    BY <2>1, <2>2, DocumentStages, Positions
<1>3. CASE s \in {IMPLEMENT, TEST, CODE_REVIEW}
  <2>1. Producer(s) = IMPLEMENT /\ Position(IMPLEMENT) = 2 * Phases + 1
        /\ Position(s) \in {2 * Phases + 1, 2 * Phases + 2, 2 * Phases + 3}
    BY <1>3, GateStages, Positions
  <2>2. \A p \in 1..Phases : 2 * Phases + 1 > 2 * p /\ Position(s) > 2 * p
    BY <2>1, Positions
  <2> QED
    BY <2>1, <2>2, GateStages, Positions
<1> QED
  BY <1>1, <1>2, <1>3, StageCases

-----------------------------------------------------------------------------
(* Counting cards *)

\* The last place apart.
LEMMA CountLast ==
  ASSUME NEW n \in Nat, n # 0, NEW S \in SUBSET (1..n)
  PROVE  /\ Cardinality(S) \in Nat /\ Cardinality(S \cap (1..(n - 1))) \in Nat
         /\ Cardinality(S) = Cardinality(S \cap (1..(n - 1))) + (IF n \in S THEN 1 ELSE 0)
<1> DEFINE T == S \cap (1..(n - 1))
<1>1. IsFiniteSet(S) /\ IsFiniteSet(T)
  <2>1. IsFiniteSet(1..n)
    BY FS_Interval
  <2> QED
    BY <2>1, FS_Subset
<1>2. n \notin T /\ \A x \in S : x \in T \/ x = n
  OBVIOUS
<1>3. T \subseteq S
  OBVIOUS
<1> HIDE DEF T
<1>4. Cardinality(S) \in Nat /\ Cardinality(T) \in Nat
  BY <1>1, FS_CardinalityType
<1>5. CASE n \in S
  <2>1. S = T \cup {n}
    BY <1>2, <1>3, <1>5
  <2>2. Cardinality(T \cup {n}) = Cardinality(T) + 1
    BY <1>1, <1>2, FS_AddElement
  <2> QED
    BY <1>4, <1>5, <2>1, <2>2 DEF T
<1>6. CASE n \notin S
  <2>1. S = T
    BY <1>2, <1>3, <1>6
  <2>2. Cardinality(S) = Cardinality(T) + 0
    BY <1>4, <2>1
  <2> QED
    BY <1>4, <1>6, <2>2 DEF T
<1> QED
  BY <1>5, <1>6

\* What the last of n cards adds to the counts of the budget.
LEMMA BudgetCounts ==
  ASSUME NEW h, NEW n \in Nat, n # 0
  PROVE  /\ Spent(h, n) \in Nat /\ Spent(h, n - 1) \in Nat
         /\ Restored(h, n) \in Nat /\ Restored(h, n - 1) \in Nat
         /\ Spent(h, n) = Spent(h, n - 1) + (IF Spends(h[n]) THEN 1 ELSE 0)
         /\ Restored(h, n) = Restored(h, n - 1) + (IF Restores(h[n]) THEN 1 ELSE 0)
<1> DEFINE S == {i \in 1..n : Spends(h[i])}
           R == {i \in 1..n : Restores(h[i])}
<1>1. S \in SUBSET (1..n) /\ R \in SUBSET (1..n)
  OBVIOUS
<1>2. /\ S \cap (1..(n - 1)) = {i \in 1..(n - 1) : Spends(h[i])}
      /\ R \cap (1..(n - 1)) = {i \in 1..(n - 1) : Restores(h[i])}
  OBVIOUS
<1>3. (n \in S <=> Spends(h[n])) /\ (n \in R <=> Restores(h[n]))
  OBVIOUS
<1>4. Spent(h, n) = Cardinality(S) /\ Restored(h, n) = Cardinality(R)
  BY DEF Spent, Restored
<1>5. /\ Spent(h, n - 1) = Cardinality(S \cap (1..(n - 1)))
      /\ Restored(h, n - 1) = Cardinality(R \cap (1..(n - 1)))
  BY <1>2 DEF Spent, Restored
<1> HIDE DEF S, R
<1>6. /\ Cardinality(S) \in Nat /\ Cardinality(S \cap (1..(n - 1))) \in Nat
      /\ Cardinality(S) = Cardinality(S \cap (1..(n - 1))) + (IF n \in S THEN 1 ELSE 0)
  BY <1>1, CountLast
<1>7. /\ Cardinality(R) \in Nat /\ Cardinality(R \cap (1..(n - 1))) \in Nat
      /\ Cardinality(R) = Cardinality(R \cap (1..(n - 1))) + (IF n \in R THEN 1 ELSE 0)
  BY <1>1, CountLast
<1> QED
  BY <1>3, <1>4, <1>5, <1>6, <1>7

\* The counts depend on the cards only.
LEMMA BudgetFrame ==
  ASSUME NEW g, NEW h, NEW n \in Nat,
         \A i \in 1..n : g[i] = h[i]
  PROVE  Spent(g, n) = Spent(h, n) /\ Restored(g, n) = Restored(h, n)
<1>1. {i \in 1..n : Spends(g[i])} = {i \in 1..n : Spends(h[i])}
  OBVIOUS
<1>2. {i \in 1..n : Restores(g[i])} = {i \in 1..n : Restores(h[i])}
  OBVIOUS
<1> QED
  BY <1>1, <1>2 DEF Spent, Restored

-----------------------------------------------------------------------------
(* How the history grows *)

\* A prefix depends on its own cards only.
LEMMA PrefixFrame ==
  ASSUME NEW g, NEW h, NEW t \in Nat,
         \A i \in 1..t : g[i] = h[i]
  PROVE  SubSeq(g, 1, t) = SubSeq(h, 1, t)
<1>1. SubSeq(g, 1, t) = [i \in 1..t |-> g[i]] /\ SubSeq(h, 1, t) = [i \in 1..t |-> h[i]]
  OBVIOUS
<1>2. [i \in 1..t |-> g[i]] = [i \in 1..t |-> h[i]]
  OBVIOUS
<1> QED
  BY <1>1, <1>2

\* The part of OpenFinalization that lies in the past.
LEMMA DerivedFrame ==
  ASSUME NEW g, NEW h, NEW c, NEW n \in Nat, c.context.trigger \in 1..n,
         \A i \in 1..n : g[i] = h[i],
         Derived(h, c)
  PROVE  Derived(g, c)
<1>1. SubSeq(g, 1, c.context.trigger) = SubSeq(h, 1, c.context.trigger)
  <2>1. \A i \in 1..c.context.trigger : i \in 1..n
    OBVIOUS
  <2>2. \A i \in 1..c.context.trigger : g[i] = h[i]
    BY <2>1
  <2>3. c.context.trigger \in Nat
    OBVIOUS
  <2> QED
    BY <2>2, <2>3, PrefixFrame
<1>2. g[c.context.trigger] = h[c.context.trigger]
  OBVIOUS
<1> QED
  BY <1>1, <1>2 DEF Derived

\* Judging, marking or completing the last card: its stage, mode and context
\* stay, and nothing earlier depends on the rest.
LEMMA LastCardChanges ==
  ASSUME NEW h, NEW g, NEW d, NEW n \in Nat, n # 0,
         Len(h) = n, DOMAIN h = 1..n, Len(g) = n, DOMAIN g = 1..n,
         g[n] = d, \A i \in 1..(n - 1) : g[i] = h[i],
         HistoryIsSound(h), SoundCard(d),
         d.stage = h[n].stage, d.mode = h[n].mode, d.context = h[n].context
  PROVE  HistoryIsSound(g)
<1>1. n - 1 \in Nat
  OBVIOUS
<1>2. Last(g) = d /\ Last(h) = h[n]
  BY DEF Last
<1>3. ASSUME NEW i \in 1..n
      PROVE  /\ g[i].stage = h[i].stage /\ g[i].mode = h[i].mode
             /\ g[i].context = h[i].context
  <2>1. CASE i = n
    BY <1>1, <1>2, <2>1
  <2>2. CASE i # n
    <3>1. i \in 1..(n - 1)
      BY <1>1, <2>2
    <3> QED
      BY <1>1, <3>1
  <2> QED
    BY <2>1, <2>2
<1>4. CardsAreSound(g)
  <2> SUFFICES ASSUME NEW i \in 1..n PROVE SoundCard(g[i])
    BY <1>1 DEF CardsAreSound
  <2>1. CASE i = n
    BY <1>1, <2>1
  <2>2. CASE i # n
    <3>1. i \in 1..(n - 1)
      BY <1>1, <2>2
    <3>2. g[i] = h[i] /\ SoundCard(h[i])
      BY <1>1, <3>1 DEF HistoryIsSound, CardsAreSound
    <3> QED
      BY <3>2
  <2> QED
    BY <2>1, <2>2
<1>5. ReviewIsTested(g)
  <2> SUFFICES ASSUME d.stage = CODE_REVIEW PROVE \E t \in DOMAIN g : Tested(g, t)
    BY <1>2 DEF ReviewIsTested
  <2>1. PICK t \in 1..n : Tested(h, t)
    BY <1>2 DEF HistoryIsSound, ReviewIsTested
  <2>2. g[t] = h[t] /\ \A i \in (t + 1)..n : g[i].stage = h[i].stage
    BY <1>1, <1>3, <2>1 DEF Tested
  <2>3. Tested(g, t)
    BY <1>1, <2>1, <2>2 DEF Tested
  <2> QED
    BY <1>1, <2>3
<1>6. PhasesAreEarned(g)
  <2> SUFFICES ASSUME NEW p \in DOMAIN Documents, Position(d.stage) > 2 * p
               PROVE  \E k \in 1..(n - 1) : Earns(g[k], Documents[p])
    BY <1>1, <1>2 DEF PhasesAreEarned
  <2>1. PICK k \in 1..(n - 1) : Earns(h[k], Documents[p])
    BY <1>2 DEF HistoryIsSound, PhasesAreEarned
  <2>2. g[k] = h[k]
    BY <1>1
  <2> QED
    BY <2>1, <2>2
<1>7. FinalizationsAreOpen(g)
  <2> SUFFICES ASSUME NEW i \in 1..n, g[i].mode = "finalization"
               PROVE  OpenFinalization(g, i)
    BY <1>1 DEF FinalizationsAreOpen
  <2>1. OpenFinalization(h, i)
    BY <1>1, <1>3 DEF HistoryIsSound, FinalizationsAreOpen
  <2>2. g[i].context.trigger \in 1..(i - 1)
    BY <1>3, <2>1 DEF OpenFinalization
  <2>3. Derived(g, h[i])
    <3>1. \A x \in 1..(i - 1) : x \in 1..(n - 1)
      BY <1>1
    <3>2. \A x \in 1..(i - 1) : g[x] = h[x]
      BY <1>1, <3>1
    <3>3. i - 1 \in Nat /\ Derived(h, h[i]) /\ h[i].context.trigger \in 1..(i - 1)
      BY <1>1, <2>1 DEF OpenFinalization
    <3> QED
      BY <3>2, <3>3, DerivedFrame
  <2>4. Derived(g, g[i])
    BY <1>3, <2>3 DEF Derived
  <2>5. \A j \in i..n : g[j].stage # NextStage(g[i].stage)
    <3>1. \A j \in i..n : j \in 1..n
      BY <1>1
    <3> QED
      BY <1>1, <1>3, <2>1, <3>1 DEF OpenFinalization
  <2>6. \/ Position(Last(g).stage) > Position(g[i].stage) + 1
        \/ Last(g).stage = g[i].stage /\ Last(g).mode = "finalization"
    BY <1>2, <1>3, <2>1 DEF OpenFinalization
  <2> QED
    BY <1>1, <2>2, <2>4, <2>5, <2>6 DEF OpenFinalization
<1>8. DocumentsComeFirst(g)
  BY <1>1, <1>2, <1>3 DEF HistoryIsSound, DocumentsComeFirst
<1>9. BudgetIsHeld(g)
  <2>1. Spent(g, n - 1) = Spent(h, n - 1) /\ Restored(g, n - 1) = Restored(h, n - 1)
    <3>1. n - 1 \in Nat
      BY <1>1
    <3> QED
      BY <1>1, <3>1, BudgetFrame
  <2>2. Restores(g[n]) <=> Restores(h[n])
    BY <1>1, <1>2, <1>3 DEF Restores
  <2>3. Restored(g, n) = Restored(h, n)
    <3>1. /\ Restored(g, n) = Restored(g, n - 1) + (IF Restores(g[n]) THEN 1 ELSE 0)
          /\ Restored(h, n) = Restored(h, n - 1) + (IF Restores(h[n]) THEN 1 ELSE 0)
      BY BudgetCounts
    <3> QED
      BY <2>1, <2>2, <3>1
  <2> QED
    BY <1>1, <1>2, <2>1, <2>3 DEF HistoryIsSound, BudgetIsHeld
<1> QED
  BY <1>4, <1>5, <1>6, <1>7, <1>8, <1>9 DEF HistoryIsSound

\* Judge, Complete and the mark of _protocol_failure are such changes.
LEMMA ReplaceLast ==
  ASSUME NEW h \in Seq(CardRecords), h # <<>>, HistoryIsSound(h),
         NEW d \in CardRecords, SoundCard(d),
         d.stage = Last(h).stage, d.mode = Last(h).mode, d.context = Last(h).context,
         NEW g, g = [h EXCEPT ![Len(h)] = d]
  PROVE  /\ g \in Seq(CardRecords) /\ g # <<>> /\ Len(g) = Len(h) /\ Last(g) = d
         /\ \A i \in 1..(Len(h) - 1) : g[i] = h[i]
         /\ HistoryIsSound(g)
<1>1. PICK n \in Nat : n = Len(h)
  OBVIOUS
<1>2. /\ n # 0 /\ Len(g) = n
      /\ DOMAIN g = 1..n /\ DOMAIN h = 1..n
      /\ g \in Seq(CardRecords) /\ g # <<>>
      /\ g[n] = d /\ \A i \in 1..(n - 1) : g[i] = h[i]
  BY <1>1
<1>3. Last(g) = d /\ Last(h) = h[n]
  BY <1>1, <1>2 DEF Last
<1>4. HistoryIsSound(g)
  BY <1>1, <1>2, <1>3, LastCardChanges, Zenon
<1> QED
  BY <1>1, <1>2, <1>3, <1>4, Zenon

\* What the controller makes sure of when it issues card d after the history h.
Issues(h, d) ==
  /\ d.outcome = "none" /\ d.metadata = "none" /\ d.verdict = "none"
  /\ d.mode = "finalization" => d.stage \in DocumentWriters
  \* No phase is entered again, and a phase is left when it is earned.
  /\ \A p \in 1..Phases : Position(Last(h).stage) > 2 * p => Position(d.stage) > 2 * p
  /\ \A p \in 1..Phases :
       Position(d.stage) > 2 * p =>
         Position(Last(h).stage) > 2 * p \/ Earns(Last(h), Documents[p])
  \* A review of the code follows a test that passed, or another review.
  /\ d.stage = CODE_REVIEW =>
       \/ Last(h).stage = CODE_REVIEW
       \/ /\ Last(h).stage = TEST
          /\ Last(h).verdict = "accepted" /\ Last(h).outcome = "pass"
  \* A finalization continues another one or follows from the last review.
  /\ d.mode = "finalization" =>
       \/ /\ Last(h).mode = "finalization"
          /\ Last(h).stage = d.stage /\ Last(h).context = d.context
       \/ d.context.trigger = Len(h) /\ Derived(h, d)
  /\ Last(h).mode = "finalization" =>
       \/ d.mode = "finalization" /\ d.stage = Last(h).stage
       \/ Position(d.stage) > Position(Last(h).stage) + 1
  \* An implementation restores, repeats one that does not count, or is paid for.
  /\ d.stage = IMPLEMENT =>
       \/ d.context.kind = "frozen_artifact"
       \/ Last(h).stage = IMPLEMENT /\ ~Spends(Last(h))
       \/ Spent(h, Len(h)) <= ModificationLimit

\* A card that is issued as above keeps the history sound: one step per part
\* of HistoryIsSound.
LEMMA CardIsIssued ==
  ASSUME NEW h, NEW g, NEW d, NEW n \in Nat, n # 0,
         Len(h) = n, DOMAIN h = 1..n, Len(g) = n + 1, DOMAIN g = 1..(n + 1),
         g[n + 1] = d, \A i \in 1..n : g[i] = h[i],
         HistoryIsSound(h), Issues(h, d), d.stage \in Stages, h[n].stage \in Stages
  PROVE  HistoryIsSound(g)
<1>1. n - 1 \in Nat /\ n + 1 \in Nat /\ n + 1 # 0 /\ n \in 1..n
      /\ \A i \in 1..(n + 1) : i \in 1..n \/ i = n + 1
  OBVIOUS
<1>2. Last(g) = d /\ Last(h) = h[n] /\ g[n] = h[n]
  BY <1>1 DEF Last
<1>3. Phases \in Nat /\ DOMAIN Documents = 1..Phases /\ Len(Documents) = Phases
  BY SequenceElements DEF Phases
<1>4. Position(d.stage) \in Nat /\ Position(h[n].stage) \in Nat
  BY ProducerFloor
<1>5. CardsAreSound(g)
  <2> SUFFICES ASSUME NEW i \in 1..(n + 1) PROVE SoundCard(g[i])
    BY <1>1 DEF CardsAreSound
  <2>1. CASE i = n + 1
    <3>1. SoundCard(d)
      BY DEF Issues, SoundCard, Parses
    <3> QED
      BY <2>1, <3>1
  <2>2. CASE i \in 1..n
    <3>1. SoundCard(h[i])
      BY <2>2 DEF HistoryIsSound, CardsAreSound
    <3> QED
      BY <2>2, <3>1
  <2> QED
    BY <1>1, <2>1, <2>2
<1>6. ReviewIsTested(g)
  <2> SUFFICES ASSUME d.stage = CODE_REVIEW PROVE \E t \in DOMAIN g : Tested(g, t)
    BY <1>2 DEF ReviewIsTested
  <2>1. CASE h[n].stage = CODE_REVIEW
    <3>1. PICK t \in 1..n : Tested(h, t)
      BY <1>2, <2>1 DEF HistoryIsSound, ReviewIsTested
    <3>2. t \in 1..(n - 1) /\ \A i \in (t + 1)..n : h[i].stage = CODE_REVIEW
      BY <3>1 DEF Tested
    <3>3. g[t] = h[t] /\ t \in 1..n
      BY <1>1, <3>2
    <3>4. \A i \in (t + 1)..(n + 1) : g[i].stage = CODE_REVIEW
      <4> SUFFICES ASSUME NEW i \in (t + 1)..(n + 1) PROVE g[i].stage = CODE_REVIEW
        OBVIOUS
      <4>1. CASE i = n + 1
        BY <4>1
      <4>2. CASE i # n + 1
        <5>1. i \in (t + 1)..n /\ i \in 1..n
          BY <3>3, <4>2
        <5> QED
          BY <3>2, <5>1
      <4> QED
        BY <4>1, <4>2
    <3>5. t \in 1..((n + 1) - 1) /\ t \in 1..(n + 1)
      BY <3>3
    <3>6. Tested(g, t)
      BY <3>1, <3>3, <3>4, <3>5 DEF Tested
    <3> QED
      BY <3>5, <3>6
  <2>2. CASE h[n].stage # CODE_REVIEW
    <3>1. h[n].stage = TEST /\ h[n].verdict = "accepted" /\ h[n].outcome = "pass"
      BY <1>2, <2>2 DEF Issues
    <3>2. n \in 1..((n + 1) - 1) /\ n \in 1..(n + 1)
          /\ \A i \in (n + 1)..(n + 1) : i = n + 1
      OBVIOUS
    <3>3. Tested(g, n)
      BY <1>2, <3>1, <3>2 DEF Tested
    <3> QED
      BY <3>2, <3>3
  <2> QED
    BY <2>1, <2>2
<1>7. PhasesAreEarned(g)
  <2> SUFFICES ASSUME NEW p \in DOMAIN Documents, Position(d.stage) > 2 * p
               PROVE  \E k \in 1..n : Earns(g[k], Documents[p])
    BY <1>1, <1>2 DEF PhasesAreEarned
  <2>1. CASE Position(h[n].stage) > 2 * p
    <3>1. PICK k \in 1..(n - 1) : Earns(h[k], Documents[p])
      BY <1>2, <2>1 DEF HistoryIsSound, PhasesAreEarned
    <3>2. k \in 1..n
      BY <1>1
    <3> QED
      BY <3>1, <3>2
  <2>2. CASE Earns(h[n], Documents[p])
    BY <1>1, <1>2, <2>2
  <2> QED
    BY <1>2, <1>3, <2>1, <2>2 DEF Issues
<1>8. DocumentsComeFirst(g)
  <2> SUFFICES ASSUME Position(d.stage) <= 2 * Phases
               PROVE  \A i \in 1..(n + 1) : g[i].stage # IMPLEMENT
    BY <1>2, <1>3 DEF DocumentsComeFirst
  <2>1. d.stage # IMPLEMENT
    BY <1>3, Positions
  <2>2. Position(h[n].stage) <= 2 * Phases
    <3>1. CASE Phases = 0
      <4>1. ~\E k \in 1..Phases : TRUE
        BY <3>1
      <4>2. d.stage = IMPLEMENT \/ d.stage = TEST \/ d.stage = CODE_REVIEW
        BY <4>1, StageCases
      <4>3. Position(d.stage) > 0
        BY <1>3, <4>2, Positions
      <4> QED
        BY <1>3, <1>4, <3>1, <4>3
    <3>2. CASE Phases # 0
      <4>1. Phases \in 1..Phases
        BY <1>3, <3>2
      <4>2. ~(Position(d.stage) > 2 * Phases)
        BY <1>3, <1>4
      <4>3. ~(Position(h[n].stage) > 2 * Phases)
        BY <1>2, <4>1, <4>2 DEF Issues
      <4> QED
        BY <1>3, <1>4, <4>3
    <3> QED
      BY <3>1, <3>2
  <2>3. \A i \in 1..n : h[i].stage # IMPLEMENT
    BY <1>2, <1>3, <2>2 DEF HistoryIsSound, DocumentsComeFirst
  <2> QED
    BY <1>1, <2>1, <2>3
<1>9. FinalizationsAreOpen(g)
  <2> SUFFICES ASSUME NEW i \in 1..(n + 1), g[i].mode = "finalization"
               PROVE  OpenFinalization(g, i)
    BY <1>1 DEF FinalizationsAreOpen
  <2>1. CASE i \in 1..n
    <3>1. g[i] = h[i] /\ OpenFinalization(h, i)
      BY <2>1 DEF HistoryIsSound, FinalizationsAreOpen
    <3>2. PICK k \in 1..Phases : h[i].stage = Write(k)
      <4>1. SoundCard(h[i])
        BY <2>1 DEF HistoryIsSound, CardsAreSound
      <4> QED
        BY <3>1, <4>1, WriterIs DEF SoundCard
    <3>3. /\ Position(h[i].stage) = 2 * k - 1 /\ NextStage(h[i].stage) = Review(k)
          /\ Position(Review(k)) = 2 * k /\ Write(k) # Review(k)
      BY <3>2, Positions, NextStages, DocumentStages
    <3>4. h[i].context.trigger \in 1..(i - 1) /\ Derived(h, h[i])
          /\ \A j \in i..n : h[j].stage # Review(k)
      BY <3>1, <3>3 DEF OpenFinalization
    <3>5. Derived(g, h[i])
      <4>1. i - 1 \in Nat /\ \A x \in 1..(i - 1) : x \in 1..n
        BY <2>1
      <4>2. \A x \in 1..(i - 1) : g[x] = h[x]
        BY <4>1
      <4> QED
        BY <3>4, <4>1, <4>2, DerivedFrame
    <3>6. \/ Position(d.stage) > 2 * k
          \/ d.stage = h[i].stage /\ d.mode = "finalization"
      <4>1. CASE Position(h[n].stage) > Position(h[i].stage) + 1
        <5>1. Position(h[n].stage) > 2 * k
          BY <1>3, <1>4, <3>3, <4>1
        <5> QED
          BY <1>2, <5>1 DEF Issues
      <4>2. CASE h[n].stage = h[i].stage /\ h[n].mode = "finalization"
        <5>1. CASE d.mode = "finalization" /\ d.stage = h[n].stage
          BY <4>2, <5>1
        <5>2. CASE Position(d.stage) > Position(h[n].stage) + 1
          BY <1>3, <1>4, <3>3, <4>2, <5>2
        <5> QED
          BY <1>2, <4>2, <5>1, <5>2 DEF Issues
      <4> QED
        BY <1>2, <3>1, <4>1, <4>2 DEF OpenFinalization
    <3>7. d.stage # Review(k)
      BY <1>3, <1>4, <3>2, <3>3, <3>6
    <3>8. \A j \in i..(n + 1) : g[j].stage # Review(k)
      <4> SUFFICES ASSUME NEW j \in i..(n + 1) PROVE g[j].stage # Review(k)
        OBVIOUS
      <4>1. CASE j = n + 1
        BY <3>7, <4>1
      <4>2. CASE j # n + 1
        <5>1. j \in i..n /\ j \in 1..n
          BY <2>1, <4>2
        <5> QED
          BY <3>4, <5>1
      <4> QED
        BY <4>1, <4>2
    <3>9. \/ Position(d.stage) > Position(h[i].stage) + 1
          \/ d.stage = h[i].stage /\ d.mode = "finalization"
      BY <1>3, <1>4, <3>3, <3>6
    <3> QED
      BY <1>2, <3>1, <3>3, <3>4, <3>5, <3>8, <3>9 DEF OpenFinalization
  <2>2. CASE i = n + 1
    <3>1. d.mode = "finalization" /\ g[i] = d
      BY <2>2
    <3>2. PICK k \in 1..Phases : d.stage = Write(k)
      BY <3>1, WriterIs DEF Issues
    <3>3. NextStage(d.stage) = Review(k) /\ Write(k) # Review(k)
      BY <3>2, NextStages, DocumentStages
    <3>4. d.context.trigger \in 1..n /\ Derived(h, d)
      <4>1. CASE /\ h[n].mode = "finalization"
                 /\ h[n].stage = d.stage /\ h[n].context = d.context
        <5>1. h[n].context.trigger \in 1..(n - 1) /\ Derived(h, h[n])
          BY <1>1, <4>1 DEF HistoryIsSound, FinalizationsAreOpen, OpenFinalization
        <5>2. d.context.trigger \in 1..n
          BY <4>1, <5>1
        <5> QED
          BY <4>1, <5>1, <5>2 DEF Derived
      <4>2. CASE d.context.trigger = n /\ Derived(h, d)
        BY <1>1, <4>2
      <4> QED
        BY <1>2, <3>1, <4>1, <4>2 DEF Issues
    <3>5. Derived(g, d)
      BY <3>4, DerivedFrame
    <3>6. d.context.trigger \in 1..((n + 1) - 1)
      BY <3>4
    <3>7. \A j \in (n + 1)..(n + 1) : j = n + 1
      OBVIOUS
    <3> QED
      BY <1>2, <2>2, <3>1, <3>2, <3>3, <3>5, <3>6, <3>7 DEF OpenFinalization
  <2> QED
    BY <1>1, <2>1, <2>2
<1>10. BudgetIsHeld(g)
  <2>1. Spent(g, n) = Spent(h, n) /\ Restored(g, n) = Restored(h, n)
    BY BudgetFrame
  <2>2. /\ Spent(h, n) \in Nat /\ Spent(h, n - 1) \in Nat /\ Restored(h, n) \in Nat
        /\ Spent(h, n) = Spent(h, n - 1) + (IF Spends(h[n]) THEN 1 ELSE 0)
    BY BudgetCounts
  <2>3. Restored(g, n + 1) = Restored(g, n) + (IF Restores(d) THEN 1 ELSE 0)
    <3>1. Restored(g, n + 1) = Restored(g, (n + 1) - 1) + (IF Restores(g[n + 1]) THEN 1 ELSE 0)
      BY <1>1, BudgetCounts
    <3>2. (n + 1) - 1 = n
      OBVIOUS
    <3> QED
      BY <3>1, <3>2
  <2>4. Spent(h, n - 1) + (IF h[n].stage = IMPLEMENT THEN 1 ELSE 0)
          <= 1 + ModificationLimit + Restored(h, n)
    BY <1>2 DEF HistoryIsSound, BudgetIsHeld
  <2>5. ModificationLimit \in Nat
    BY WorkflowAssumption
  <2>6. Spends(h[n]) => h[n].stage = IMPLEMENT
    BY DEF Spends
  <2>7. Spent(h, n) + (IF d.stage = IMPLEMENT THEN 1 ELSE 0)
          <= 1 + ModificationLimit + Restored(g, n + 1)
    <3>1. Spent(h, n) <= 1 + ModificationLimit + Restored(h, n)
      BY <2>2, <2>4, <2>5, <2>6
    <3>2. Restored(g, n + 1) >= Restored(h, n) /\ Restored(g, n + 1) \in Nat
      BY <2>1, <2>2, <2>3
    <3>3. CASE d.stage # IMPLEMENT
      BY <2>2, <2>5, <3>1, <3>2, <3>3
    <3>4. CASE d.stage = IMPLEMENT /\ d.context.kind = "frozen_artifact"
      <4>1. Restored(g, n + 1) = Restored(h, n) + 1
        BY <2>1, <2>3, <3>4 DEF Restores
      <4> QED
        BY <2>2, <2>5, <3>1, <3>4, <4>1
    <3>5. CASE d.stage = IMPLEMENT /\ h[n].stage = IMPLEMENT /\ ~Spends(h[n])
      BY <2>2, <2>4, <2>5, <3>2, <3>5
    <3>6. CASE d.stage = IMPLEMENT /\ Spent(h, n) <= ModificationLimit
      BY <2>2, <2>5, <3>2, <3>6
    <3> QED
      BY <1>2, <3>3, <3>4, <3>5, <3>6 DEF Issues
  <2>8. (n + 1) - 1 = n
    OBVIOUS
  <2> QED
    BY <1>2, <2>1, <2>7, <2>8 DEF BudgetIsHeld
<1> QED
  BY <1>5, <1>6, <1>7, <1>8, <1>9, <1>10 DEF HistoryIsSound

\* The same for the card that CreateWork appends.
LEMMA Issue ==
  ASSUME NEW h \in Seq(CardRecords), h # <<>>, HistoryIsSound(h),
         NEW d \in CardRecords, Issues(h, d),
         NEW g, g = Append(h, d)
  PROVE  /\ g \in Seq(CardRecords) /\ g # <<>> /\ Last(g) = d
         /\ HistoryIsSound(g)
<1>1. PICK n \in Nat : n = Len(h)
  OBVIOUS
<1>2. /\ n # 0 /\ Len(g) = n + 1
      /\ DOMAIN g = 1..(n + 1) /\ DOMAIN h = 1..n
      /\ g \in Seq(CardRecords) /\ g # <<>>
      /\ g[n + 1] = d /\ \A i \in 1..n : g[i] = h[i]
  BY <1>1
<1>3. Last(g) = d
  BY <1>1, <1>2 DEF Last
<1>4. d.stage \in Stages /\ h[n].stage \in Stages
  <2>1. h[n] \in CardRecords
    BY <1>1, <1>2
  <2> QED
    BY <2>1 DEF CardRecords
<1>5. HistoryIsSound(g)
  BY <1>1, <1>2, <1>4, CardIsIssued, Zenon
<1> QED
  BY <1>2, <1>3, <1>5

\* What is on a new card.
LEMMA NewCards ==
  ASSUME NEW s \in Stages, NEW m \in {"normal", "finalization"}, NEW x \in Contexts
  PROVE  /\ NewCard(s, m, x) \in CardRecords
         /\ NewCard(s, m, x).stage = s /\ NewCard(s, m, x).mode = m
         /\ NewCard(s, m, x).context = x
         /\ NewCard(s, m, x).outcome = "none" /\ NewCard(s, m, x).metadata = "none"
         /\ NewCard(s, m, x).verdict = "none"
BY DEF NewCard, CardRecords

\* _create_work issues what it is asked for, or the repair in its place.
LEMMA CreateWorkIssues ==
  ASSUME NEW h \in Seq(CardRecords), h # <<>>, HistoryIsSound(h),
         NEW s \in Stages, NEW m \in {"normal", "finalization"}, NEW x \in Contexts,
         Issues(h, NewCard(s, m, x)),
         CreateWork(h, s, m, x)
  PROVE  /\ history' \in Seq(CardRecords) /\ history' # <<>>
         /\ HistoryIsSound(history')
         /\ pc' = "idle" /\ UNCHANGED <<state, draft, checked>>
<1>1. PICK d : /\ history' = Append(h, d) /\ pc' = "idle"
               /\ UNCHANGED <<state, draft, checked>>
               /\ \/ d = NewCard(s, m, x)
                  \/ m = "finalization" /\ d = NewCard(Producer(s), m, x)
                  \/ m = "normal" /\ d = NewCard(Producer(s), "normal", FrozenContext)
  BY DEF CreateWork
<1>2. FrozenContext \in Contexts /\ FrozenContext.kind = "frozen_artifact"
  BY DEF FrozenContext, Contexts
<1>3. Producer(s) \in Stages /\ Producer(s) \notin CodeGates
      /\ \A p \in 1..Phases : Position(Producer(s)) > 2 * p <=> Position(s) > 2 * p
  BY ProducerFloor
<1>4. d \in CardRecords /\ Issues(h, d)
  <2>1. CASE d = NewCard(s, m, x)
    BY <2>1, NewCards
  <2>2. CASE m = "finalization" /\ d = NewCard(Producer(s), m, x)
    <3>1. s \in DocumentWriters
      BY <2>2, NewCards DEF Issues
    <3>2. Producer(s) = s
      BY <3>1, WriterIs, DocumentStages
    <3> QED
      BY <2>2, <3>2, NewCards
  <2>3. CASE m = "normal" /\ d = NewCard(Producer(s), "normal", FrozenContext)
    <3>1. PICK e : e = NewCard(s, m, x)
      OBVIOUS
    <3>2. e.stage = s /\ e.mode = "normal" /\ Issues(h, e)
      BY <2>3, <3>1, NewCards
    <3>3. /\ d \in CardRecords /\ d.stage = Producer(s) /\ d.mode = "normal"
          /\ d.context = FrozenContext /\ d.outcome = "none"
          /\ d.metadata = "none" /\ d.verdict = "none"
      BY <1>2, <1>3, <2>3, NewCards
    <3>4. d.stage # CODE_REVIEW
      BY <1>3, <3>3, GateStages
    <3>5. ASSUME Last(h).mode = "finalization"
          PROVE  Position(d.stage) > Position(Last(h).stage) + 1
      <4>1. Position(s) > Position(Last(h).stage) + 1
        BY <3>2, <3>5 DEF Issues
      <4>2. Last(h).stage \in DocumentWriters
        <5>1. SoundCard(Last(h))
          BY DEF HistoryIsSound, CardsAreSound, Last
        <5> QED
          BY <3>5, <5>1 DEF SoundCard
      <4>3. PICK k \in 1..Phases : Last(h).stage = Write(k)
        BY <4>2, WriterIs
      <4>4. Position(Last(h).stage) + 1 = 2 * k
        BY <4>3, Positions
      <4>5. Position(Producer(s)) > 2 * k
        BY <1>3, <4>1, <4>4
      <4> QED
        BY <3>3, <4>4, <4>5
    <3>6. \A p \in 1..Phases : Position(Last(h).stage) > 2 * p => Position(d.stage) > 2 * p
      BY <1>3, <3>2, <3>3 DEF Issues
    <3>7. \A p \in 1..Phases :
            Position(d.stage) > 2 * p =>
              Position(Last(h).stage) > 2 * p \/ Earns(Last(h), Documents[p])
      BY <1>3, <3>2, <3>3 DEF Issues
    <3> QED
      BY <1>2, <3>3, <3>4, <3>5, <3>6, <3>7 DEF Issues
  <2> QED
    BY <1>1, <2>1, <2>2, <2>3
<1>5. Append(h, d) \in Seq(CardRecords) /\ Append(h, d) # <<>>
      /\ HistoryIsSound(Append(h, d))
  BY <1>4, Issue
<1> QED
  BY <1>1, <1>5

-----------------------------------------------------------------------------
(* The cards the reconcile issues *)

\* The history h with the same last card, judged v.
JudgedAs(h, v) ==
  /\ h \in Seq(CardRecords) /\ h # <<>> /\ HistoryIsSound(h)
  /\ Last(h).stage = Latest.stage /\ Last(h).mode = Latest.mode
  /\ Last(h).context = Latest.context /\ Last(h).outcome = Latest.outcome
  /\ Last(h).metadata = Latest.metadata /\ Last(h).verdict = v

\* The last card is a card like the others.
LEMMA LastCard ==
  ASSUME NEW h \in Seq(CardRecords), h # <<>>, HistoryIsSound(h)
  PROVE  Last(h) \in CardRecords /\ SoundCard(Last(h)) /\ Last(h) = h[Len(h)]
         /\ Len(h) \in DOMAIN h
<1>1. Len(h) \in DOMAIN h /\ h[Len(h)] \in CardRecords
  OBVIOUS
<1> QED
  BY <1>1 DEF Last, HistoryIsSound, CardsAreSound

\* The verdict of the controller; only a valid completion is accepted.
LEMMA JudgeKeeps ==
  ASSUME history \in Seq(CardRecords), history # <<>>, HistoryIsSound(history),
         NEW v \in {"accepted", "rejected"},
         v = "accepted" => Latest.metadata = "valid"
  PROVE  JudgedAs(Judge(v), v)
<1>1. PICK c : c = Latest
  OBVIOUS
<1>2. c \in CardRecords /\ SoundCard(c) /\ c = history[Len(history)]
      /\ Len(history) \in DOMAIN history
  BY <1>1, LastCard DEF Latest
<1>3. PICK d : d = [c EXCEPT !.verdict = v]
  OBVIOUS
<1>4. /\ d \in CardRecords /\ d.verdict = v
      /\ d.stage = c.stage /\ d.mode = c.mode /\ d.context = c.context
      /\ d.outcome = c.outcome /\ d.metadata = c.metadata
  BY <1>2, <1>3 DEF CardRecords
<1>5. SoundCard(d)
  BY <1>1, <1>2, <1>4 DEF SoundCard, Parses
<1>6. Judge(v) = [history EXCEPT ![Len(history)] = d]
  BY <1>2, <1>3 DEF Judge
<1>7. /\ Judge(v) \in Seq(CardRecords) /\ Judge(v) # <<>> /\ Last(Judge(v)) = d
      /\ HistoryIsSound(Judge(v))
  BY <1>1, <1>4, <1>5, <1>6, ReplaceLast DEF Latest
<1> QED
  BY <1>1, <1>4, <1>7 DEF JudgedAs

\* The comment [controller-protocol-error:v4] on a rejected card.
LEMMA MarkKeeps ==
  ASSUME NEW h, JudgedAs(h, "rejected"), Len(h) = Len(history),
         NEW g, g = [h EXCEPT ![Len(history)].marked = TRUE]
  PROVE  JudgedAs(g, "rejected")
<1>0. h \in Seq(CardRecords) /\ h # <<>> /\ HistoryIsSound(h)
  BY DEF JudgedAs
<1>1. PICK c : c = Last(h)
  OBVIOUS
<1>2. c \in CardRecords /\ SoundCard(c) /\ c = h[Len(h)] /\ Len(h) \in DOMAIN h
  BY <1>0, <1>1, LastCard
<1>3. PICK d : d = [c EXCEPT !.marked = TRUE]
  OBVIOUS
<1>4. /\ d \in CardRecords /\ d.verdict = c.verdict
      /\ d.stage = c.stage /\ d.mode = c.mode /\ d.context = c.context
      /\ d.outcome = c.outcome /\ d.metadata = c.metadata
  BY <1>2, <1>3 DEF CardRecords
<1>5. SoundCard(d)
  BY <1>2, <1>4 DEF SoundCard, Parses
<1>6. g = [h EXCEPT ![Len(h)] = d]
  BY <1>0, <1>2, <1>3
<1>7. g \in Seq(CardRecords) /\ g # <<>> /\ Last(g) = d /\ HistoryIsSound(g)
  BY <1>0, <1>1, <1>4, <1>5, <1>6, ReplaceLast
<1> QED
  BY <1>1, <1>4, <1>7 DEF JudgedAs

\* A rejected card is issued again.
LEMMA RetryIssues ==
  ASSUME NEW h \in Seq(CardRecords), h # <<>>, HistoryIsSound(h),
         Last(h).verdict = "rejected"
  PROVE  Issues(h, NewCard(Last(h).stage, Last(h).mode, Last(h).context))
<1>1. PICK c : c = Last(h)
  OBVIOUS
<1>2. /\ c.stage \in Stages /\ c.mode \in {"normal", "finalization"}
      /\ c.context \in Contexts /\ SoundCard(c)
  BY <1>1, LastCard DEF CardRecords
<1>3. PICK d : d = NewCard(c.stage, c.mode, c.context)
  OBVIOUS
<1>4. /\ d.stage = c.stage /\ d.mode = c.mode /\ d.context = c.context
      /\ d.outcome = "none" /\ d.metadata = "none" /\ d.verdict = "none"
  BY <1>2, <1>3, NewCards
<1>5. ~Spends(c)
  BY <1>1 DEF Spends
<1>6. d.mode = "finalization" => d.stage \in DocumentWriters
  BY <1>2, <1>4 DEF SoundCard
<1> QED
  BY <1>1, <1>3, <1>4, <1>5, <1>6 DEF Issues

\* _create_frozen_repair goes back to the producer.
LEMMA RepairIssues ==
  ASSUME NEW h \in Seq(CardRecords), h # <<>>, HistoryIsSound(h),
         NEW x, x = IF Last(h).mode = "finalization" THEN Last(h).context
                                                     ELSE FrozenContext
  PROVE  /\ x \in Contexts
         /\ Issues(h, NewCard(Producer(Last(h).stage), Last(h).mode, x))
<1>1. PICK c : c = Last(h)
  OBVIOUS
<1>2. /\ c.stage \in Stages /\ c.mode \in {"normal", "finalization"}
      /\ c.context \in Contexts /\ SoundCard(c)
  BY <1>1, LastCard DEF CardRecords
<1>3. FrozenContext \in Contexts /\ FrozenContext.kind = "frozen_artifact"
  BY DEF FrozenContext, Contexts
<1>4. x \in Contexts
  BY <1>1, <1>2, <1>3
<1>5. Producer(c.stage) \in Stages /\ Producer(c.stage) \notin CodeGates
      /\ \A p \in 1..Phases :
           Position(Producer(c.stage)) > 2 * p <=> Position(c.stage) > 2 * p
  BY <1>2, ProducerFloor
<1>6. PICK d : d = NewCard(Producer(c.stage), c.mode, x)
  OBVIOUS
<1>7. /\ d.stage = Producer(c.stage) /\ d.mode = c.mode /\ d.context = x
      /\ d.outcome = "none" /\ d.metadata = "none" /\ d.verdict = "none"
  BY <1>2, <1>4, <1>5, <1>6, NewCards
<1>8. c.mode = "finalization" => c.stage \in DocumentWriters /\ Producer(c.stage) = c.stage
                                 /\ c.stage # IMPLEMENT
  BY <1>2, WriterIs, DocumentStages DEF SoundCard
<1>9. d.stage # CODE_REVIEW
  BY <1>5, <1>7, GateStages
<1>10. d.stage = IMPLEMENT => d.context.kind = "frozen_artifact"
  BY <1>1, <1>3, <1>7, <1>8
<1>11. Issues(h, d)
  BY <1>1, <1>5, <1>7, <1>8, <1>9, <1>10 DEF Issues
<1> QED
  BY <1>1, <1>4, <1>6, <1>11

\* A code gate goes back to the test.
LEMMA TestIssues ==
  ASSUME NEW h \in Seq(CardRecords), h # <<>>, HistoryIsSound(h),
         Last(h).stage \in CodeGates
  PROVE  NoContext \in Contexts /\ Issues(h, NewCard(TEST, "normal", NoContext))
<1>1. PICK c : c = Last(h)
  OBVIOUS
<1>2. c.mode # "finalization"
  BY <1>1, LastCard, GateStages DEF SoundCard, CodeGates
<1>3. NoContext \in Contexts
  BY DEF NoContext, Contexts
<1>4. PICK d : d = NewCard(TEST, "normal", NoContext)
  OBVIOUS
<1>5. /\ d.stage = TEST /\ d.mode = "normal"
      /\ d.outcome = "none" /\ d.metadata = "none" /\ d.verdict = "none"
  BY <1>3, <1>4, NewCards, GateStages
<1>6. Position(TEST) = 2 * Phases + 2 /\ Position(CODE_REVIEW) = 2 * Phases + 3
      /\ Phases \in Nat
  BY Positions
<1>7. \A p \in 1..Phases : Position(TEST) > 2 * p /\ Position(CODE_REVIEW) > 2 * p
  BY <1>6
<1>8. c.stage = TEST \/ c.stage = CODE_REVIEW
  BY <1>1 DEF CodeGates
<1>9. \A p \in 1..Phases : Position(d.stage) > 2 * p /\ Position(c.stage) > 2 * p
  BY <1>5, <1>7, <1>8
<1>10. Issues(h, d)
  BY <1>1, <1>2, <1>5, <1>9, CodeStages DEF Issues
<1> QED
  BY <1>3, <1>4, <1>10

\* Attempts are counted, and a whole history is a prefix of itself.
LEMMA AttemptsAreCounted ==
  ASSUME NEW h \in Seq(CardRecords), NEW s
  PROVE  ReviewAttempts(h, s) \in Nat /\ SubSeq(h, 1, Len(h)) = h
<1>1. \A S \in SUBSET (1..Len(h)) : Cardinality(S) \in Nat
  <2>1. IsFiniteSet(1..Len(h))
    BY FS_Interval
  <2> QED
    BY <2>1, FS_Subset, FS_CardinalityType
<1>2. ReviewAttempts(h, s) \in Nat
  <2> DEFINE S == {i \in DOMAIN h : h[i].stage = s /\ Judged(h[i]) /\ ~h[i].marked}
  <2>1. S \in SUBSET (1..Len(h))
    OBVIOUS
  <2>2. ReviewAttempts(h, s) = Cardinality(S)
    BY DEF ReviewAttempts, Count
  <2> QED
    BY <1>1, <2>1, <2>2
<1>3. SubSeq(h, 1, Len(h)) = h
  OBVIOUS
<1> QED
  BY <1>2, <1>3

\* The accepted implementations are within the budget while it is not spent.
LEMMA BudgetLeft ==
  ASSUME history \in Seq(CardRecords), ~BudgetSpent
  PROVE  Spent(history, Len(history)) <= ModificationLimit
<1>1. DOMAIN history = 1..Len(history) /\ Len(history) \in Nat
  OBVIOUS
<1>2. PICK n : n = Spent(history, Len(history))
  OBVIOUS
<1>3. n \in Nat
  <2>1. IsFiniteSet(1..Len(history))
    BY FS_Interval
  <2>2. IsFiniteSet({i \in 1..Len(history) : Spends(history[i])})
    BY <2>1, FS_Subset
  <2> QED
    BY <1>2, <2>2, FS_CardinalityType DEF Spent
<1>4. CodeModifications(history) = IF n = 0 THEN 0 ELSE n - 1
  BY <1>1, <1>2 DEF CodeModifications, Count, Spent, Spends
<1>5. ModificationLimit \in Nat
  BY WorkflowAssumption
<1>6. ~(CodeModifications(history) >= ModificationLimit)
  BY DEF BudgetSpent
<1> QED
  BY <1>2, <1>3, <1>4, <1>5, <1>6

\* Before the code begins nothing is spent.
LEMMA NothingSpent ==
  ASSUME NEW h \in Seq(CardRecords), h # <<>>, HistoryIsSound(h),
         Position(Last(h).stage) <= 2 * Phases
  PROVE  Spent(h, Len(h)) <= ModificationLimit
<1>1. \A i \in 1..Len(h) : ~Spends(h[i])
  BY DEF HistoryIsSound, DocumentsComeFirst, Spends, Phases
<1>2. {i \in 1..Len(h) : Spends(h[i])} = {}
  BY <1>1
<1>3. Spent(h, Len(h)) = 0
  BY <1>2, FS_EmptySet DEF Spent
<1> QED
  BY <1>3, WorkflowAssumption

\* What route_completion and RepairContext say of the accepted card c.
LEMMA RouteCases ==
  ASSUME history \in Seq(CardRecords), history # <<>>, HistoryIsSound(history),
         Latest.verdict = "accepted", Latest.outcome # "cancelled",
         NEW c, c = Latest, NEW r, r = RouteCompletion(c), NEW x, x = RepairContext(c),
         r.terminal = "none"
  PROVE  /\ c.stage \in Stages /\ c.mode \in {"normal", "finalization"}
         /\ c.metadata = "valid" /\ c.outcome \in {"pass", "fail"}
         /\ c.mode = "finalization" => c.stage \in DocumentWriters
         /\ \/ /\ c.stage \in DocumentReviews /\ c.outcome = "fail"
               /\ r.stage = Producer(c.stage)
               /\ r.mode = IF ReviewAttempts(history, c.stage) >= ReviewLimit
                             THEN "finalization" ELSE "normal"
               /\ x = [kind |-> "review_failure",
                       attempt |-> ReviewAttempts(history, c.stage),
                       trigger |-> Len(history)]
            \/ /\ c.stage \notin CodeGates /\ c.outcome = "pass"
               /\ r.stage = IF c.mode = "finalization"
                              THEN NextStage(NextStage(c.stage)) ELSE NextStage(c.stage)
               /\ r.mode = "normal" /\ x = NoContext
            \/ /\ c.stage \in CodeGates /\ ~BudgetSpent
               /\ r.stage = IMPLEMENT /\ r.mode = "normal"
               /\ x = [kind |-> "code_gate_failure", attempt |-> 0,
                       trigger |-> Len(history)]
            \/ /\ c.stage = TEST /\ c.outcome = "pass"
               /\ r.stage = CODE_REVIEW /\ r.mode = "normal" /\ x = NoContext
<1>1. c \in CardRecords /\ SoundCard(c)
  BY LastCard DEF Latest
<1>2. /\ c.stage \in Stages /\ c.mode \in {"normal", "finalization"}
      /\ c.metadata = "valid" /\ c.outcome \in {"pass", "fail"}
      /\ c.mode = "finalization" => c.stage \in DocumentWriters
      /\ c.outcome = "fail" => c.stage[2] # "write"
  BY <1>1 DEF CardRecords, SoundCard, Parses
<1>3. ASSUME c.stage \notin CodeGates, c.outcome = "fail"
      PROVE  c.stage \in DocumentReviews
  BY <1>2, <1>3, StageCases, DocumentStages, GateStages
<1>4. CASE c.stage \notin CodeGates /\ c.outcome = "fail"
  <2>1. c.stage \in DocumentReviews
    BY <1>3, <1>4
  <2>2. r = NextWork(Producer(c.stage),
                     IF ReviewAttempts(history, c.stage) >= ReviewLimit
                       THEN "finalization" ELSE "normal")
    BY <1>4 DEF RouteCompletion, RouteDocument
  <2>3. x = [kind |-> "review_failure",
             attempt |-> ReviewAttempts(history, c.stage),
             trigger |-> Len(history)]
    BY <1>4, <2>1 DEF RepairContext
  <2> QED
    BY <1>2, <1>4, <2>1, <2>2, <2>3 DEF NextWork
<1>5. CASE c.stage \notin CodeGates /\ c.outcome # "fail"
  <2>1. c.outcome = "pass"
    BY <1>2, <1>5
  <2>2. r = NextWork(IF c.mode = "finalization"
                       THEN NextStage(NextStage(c.stage)) ELSE NextStage(c.stage),
                     "normal")
    BY <1>5 DEF RouteCompletion, RouteDocument
  <2>3. x = NoContext
    BY <1>5 DEF RepairContext
  <2> QED
    BY <1>2, <1>5, <2>1, <2>2, <2>3 DEF NextWork
<1>6. CASE c.stage \in CodeGates /\ CodeGateFails(c)
  <2>1. r = RouteFailure(c)
    BY <1>6 DEF RouteCompletion
  <2>2. ~BudgetSpent
    BY <2>1 DEF RouteFailure, Terminal
  <2>3. r = NextWork(IMPLEMENT, "normal")
    BY <2>1, <2>2 DEF RouteFailure
  <2>4. x = [kind |-> "code_gate_failure", attempt |-> 0, trigger |-> Len(history)]
    BY <1>6 DEF RepairContext
  <2> QED
    BY <1>2, <1>6, <2>2, <2>3, <2>4 DEF NextWork
<1>7. CASE c.stage \in CodeGates /\ ~CodeGateFails(c)
  <2>1. c.stage = TEST
    BY <1>7 DEF RouteCompletion, Terminal, CodeGates
  <2>2. r = NextWork(CODE_REVIEW, "normal")
    BY <1>7, <2>1 DEF RouteCompletion
  <2>3. c.outcome = "pass"
    BY <1>2, <1>7 DEF CodeGateFails
  <2>4. x = NoContext
    BY <1>7, <2>1, GateStages DEF RepairContext
  <2> QED
    BY <1>2, <2>1, <2>2, <2>3, <2>4 DEF NextWork
<1> QED
  BY <1>4, <1>5, <1>6, <1>7

\* The stage after an accepted document, finalization or implementation.
LEMMA NextIsEarned ==
  ASSUME NEW c, c.stage \in Stages, c.stage \notin CodeGates, c.outcome = "pass",
         c.metadata = "valid", c.verdict = "accepted",
         c.mode = "finalization" => c.stage \in DocumentWriters,
         NEW s, s = IF c.mode = "finalization"
                      THEN NextStage(NextStage(c.stage)) ELSE NextStage(c.stage)
  PROVE  /\ s \in Stages /\ s # CODE_REVIEW
         /\ s = IMPLEMENT => Position(c.stage) <= 2 * Phases
         /\ \A p \in 1..Phases : Position(c.stage) > 2 * p => Position(s) > 2 * p
         /\ \A p \in 1..Phases :
              Position(s) > 2 * p => Position(c.stage) > 2 * p \/ Earns(c, Documents[p])
         /\ c.mode = "finalization" => Position(s) > Position(c.stage) + 1
<1>1. Phases \in Nat
  BY Positions
<1>2. ASSUME NEW k \in 1..Phases
      PROVE  /\ NextStage(Review(k)) \in Stages /\ NextStage(Review(k)) # CODE_REVIEW
             /\ Position(NextStage(Review(k))) = 2 * k + 1
  <2>1. CASE k < Phases
    <3>1. k + 1 \in 1..Phases /\ NextStage(Review(k)) = Write(k + 1)
      BY <2>1, NextStages
    <3>2. Position(Write(k + 1)) = 2 * (k + 1) - 1
      BY <3>1, Positions
    <3>3. Write(k + 1) \in Stages /\ Write(k + 1) # CODE_REVIEW
      BY <3>1, DocumentStages, GateStages
    <3> QED
      BY <3>1, <3>2, <3>3
  <2>2. CASE k = Phases
    BY <2>2, NextStages, Positions, GateStages, CodeStages
  <2> QED
    BY <1>1, <2>1, <2>2
<1>3. ASSUME NEW k \in 1..Phases, c.stage = Review(k) \/ c.mode = "finalization",
             c.stage \in {Write(k), Review(k)}
      PROVE  Earns(c, Documents[k])
  <2>1. c.stage[1] = Documents[k] /\ Parses(c)
    BY <1>3, DocumentStages DEF Parses
  <2>2. c.stage \in DocumentReviews \/ c.mode = "finalization"
    BY <1>3, DocumentStages
  <2> QED
    BY <2>1, <2>2 DEF Earns, FreezesPhase
<1>4. CASE \E k \in 1..Phases : c.stage = Write(k)
  <2> PICK k \in 1..Phases : c.stage = Write(k)
    BY <1>4
  <2>1. Position(c.stage) = 2 * k - 1 /\ NextStage(c.stage) = Review(k)
        /\ Position(Review(k)) = 2 * k
    BY Positions, NextStages
  <2>2. CASE c.mode = "finalization"
    <3>1. s = NextStage(Review(k))
      BY <2>1, <2>2
    <3>2. s \in Stages /\ s # CODE_REVIEW /\ Position(s) = 2 * k + 1
      BY <1>2, <3>1
    <3>3. \A p \in 1..Phases :
            /\ 2 * k - 1 > 2 * p => 2 * k + 1 > 2 * p
            /\ 2 * k + 1 > 2 * p => 2 * k - 1 > 2 * p \/ p = k
      BY <1>1
    <3>4. 2 * k - 1 <= 2 * Phases /\ 2 * k + 1 > 2 * k - 1 + 1
      BY <1>1
    <3>5. Earns(c, Documents[k])
      BY <1>3, <2>2
    <3> QED
      BY <2>1, <3>2, <3>3, <3>4, <3>5
  <2>3. CASE c.mode # "finalization"
    <3>1. s = Review(k)
      BY <2>1, <2>3
    <3>2. s \in Stages /\ s # CODE_REVIEW /\ s # IMPLEMENT
      BY <3>1, DocumentStages, GateStages
    <3>3. \A p \in 1..Phases : 2 * k - 1 > 2 * p <=> 2 * k > 2 * p
      BY <1>1
    <3> QED
      BY <2>1, <2>3, <3>1, <3>2, <3>3
  <2> QED
    BY <2>2, <2>3
<1>5. CASE \E k \in 1..Phases : c.stage = Review(k)
  <2> PICK k \in 1..Phases : c.stage = Review(k)
    BY <1>5
  <2>1. c.mode # "finalization"
    BY DocumentStages
  <2>2. s = NextStage(Review(k)) /\ Position(c.stage) = 2 * k
    BY <2>1, Positions
  <2>3. s \in Stages /\ s # CODE_REVIEW /\ Position(s) = 2 * k + 1
    BY <1>2, <2>2
  <2>4. \A p \in 1..Phases :
          /\ 2 * k > 2 * p => 2 * k + 1 > 2 * p
          /\ 2 * k + 1 > 2 * p => 2 * k > 2 * p \/ p = k
    BY <1>1
  <2>5. 2 * k <= 2 * Phases
    BY <1>1
  <2>6. Earns(c, Documents[k])
    BY <1>3
  <2> QED
    BY <2>1, <2>2, <2>3, <2>4, <2>5, <2>6
<1>6. CASE c.stage = IMPLEMENT
  <2>1. c.mode # "finalization"
    BY <1>6, GateStages
  <2>2. s = TEST /\ s \in Stages /\ s # CODE_REVIEW /\ s # IMPLEMENT
    BY <1>6, <2>1, NextStages, GateStages, CodeStages
  <2>3. Position(s) = 2 * Phases + 2 /\ Position(c.stage) = 2 * Phases + 1
    BY <1>6, <2>2, Positions
  <2>4. \A p \in 1..Phases : 2 * Phases + 2 > 2 * p /\ 2 * Phases + 1 > 2 * p
    BY <1>1
  <2> QED
    BY <2>1, <2>2, <2>3, <2>4
<1> QED
  BY <1>4, <1>5, <1>6, StageCases DEF CodeGates

\* The card that follows from route_completion.
LEMMA RouteIssues ==
  ASSUME history \in Seq(CardRecords), history # <<>>, HistoryIsSound(history),
         Latest.verdict = "accepted", Latest.outcome # "cancelled",
         NEW r, r = RouteCompletion(Latest), NEW x, x = RepairContext(Latest),
         r.terminal = "none", ~(x.attempt > ReviewLimit)
  PROVE  /\ r.stage \in Stages /\ r.mode \in {"normal", "finalization"}
         /\ x \in Contexts /\ Issues(history, NewCard(r.stage, r.mode, x))
<1>1. PICK c : c = Latest
  OBVIOUS
<1>2. /\ c.stage \in Stages /\ c.mode \in {"normal", "finalization"}
      /\ c.metadata = "valid" /\ c.outcome \in {"pass", "fail"}
      /\ c.verdict = "accepted"
      /\ c.mode = "finalization" => c.stage \in DocumentWriters
      /\ c = Last(history) /\ c = history[Len(history)]
  BY <1>1, RouteCases DEF Latest, Last
<1>3. Len(history) \in Nat /\ ReviewAttempts(history, c.stage) \in Nat
      /\ ReviewLimit \in Nat /\ SubSeq(history, 1, Len(history)) = history
  BY AttemptsAreCounted, WorkflowAssumption
<1>4. Phases \in Nat
  BY Positions
<1>5. NoContext \in Contexts
  BY DEF NoContext, Contexts
<1> DEFINE d == NewCard(r.stage, r.mode, x)
<1>6. ASSUME r.stage \in Stages, r.mode \in {"normal", "finalization"}, x \in Contexts
      PROVE  /\ d.stage = r.stage /\ d.mode = r.mode /\ d.context = x
             /\ d.outcome = "none" /\ d.metadata = "none" /\ d.verdict = "none"
  BY <1>6, NewCards
<1> HIDE DEF d
<1>7. CASE /\ c.stage \in DocumentReviews /\ c.outcome = "fail"
           /\ r.stage = Producer(c.stage)
           /\ r.mode = IF ReviewAttempts(history, c.stage) >= ReviewLimit
                         THEN "finalization" ELSE "normal"
           /\ x = [kind |-> "review_failure",
                   attempt |-> ReviewAttempts(history, c.stage),
                   trigger |-> Len(history)]
  <2>1. PICK k \in 1..Phases : c.stage = Review(k)
    BY <1>7, ReviewIs
  <2>2. /\ r.stage = Write(k) /\ Write(k) \in Stages /\ Write(k) \in DocumentWriters
        /\ Write(k) # IMPLEMENT /\ Write(k) # CODE_REVIEW
        /\ NextStage(r.stage) = c.stage /\ c.mode # "finalization"
    BY <1>2, <1>7, <2>1, DocumentStages, GateStages, NextStages
  <2>3. r.mode \in {"normal", "finalization"} /\ x \in Contexts
    <3>1. r.mode \in {"normal", "finalization"}
      BY <1>7
    <3>2. x \in Contexts
      BY <1>3, <1>7 DEF Contexts
    <3> QED
      BY <3>1, <3>2
  <2>4. /\ d.stage = r.stage /\ d.mode = r.mode /\ d.context = x
        /\ d.outcome = "none" /\ d.metadata = "none" /\ d.verdict = "none"
    BY <1>6, <2>2, <2>3
  <2>5. \A p \in 1..Phases : Position(d.stage) > 2 * p <=> Position(c.stage) > 2 * p
    BY <1>2, <1>7, <2>4, ProducerFloor
  <2>6. ASSUME d.mode = "finalization"
        PROVE  d.context.trigger = Len(history) /\ Derived(history, d)
    <3>1. x.kind = "review_failure" /\ x.attempt = ReviewAttempts(history, c.stage)
          /\ x.trigger = Len(history)
      BY <1>7
    <3>2. ReviewAttempts(history, c.stage) >= ReviewLimit
      BY <1>7, <2>4, <2>6
    <3>3. ReviewAttempts(history, c.stage) = ReviewLimit
      BY <1>3, <3>1, <3>2
    <3> QED
      BY <1>2, <1>3, <1>7, <2>2, <2>4, <3>1, <3>3 DEF Derived
  <2>7. Issues(history, d)
    BY <1>2, <2>2, <2>4, <2>5, <2>6 DEF Issues
  <2> QED
    BY <2>2, <2>3, <2>7 DEF d
<1>8. CASE /\ c.stage \notin CodeGates /\ c.outcome = "pass"
           /\ r.stage = IF c.mode = "finalization"
                          THEN NextStage(NextStage(c.stage)) ELSE NextStage(c.stage)
           /\ r.mode = "normal" /\ x = NoContext
  <2>1. PICK s : s = r.stage
    OBVIOUS
  <2>2. /\ s \in Stages /\ s # CODE_REVIEW
        /\ s = IMPLEMENT => Position(c.stage) <= 2 * Phases
        /\ \A p \in 1..Phases : Position(c.stage) > 2 * p => Position(s) > 2 * p
        /\ \A p \in 1..Phases :
             Position(s) > 2 * p => Position(c.stage) > 2 * p \/ Earns(c, Documents[p])
        /\ c.mode = "finalization" => Position(s) > Position(c.stage) + 1
    <3>1. s = IF c.mode = "finalization"
                THEN NextStage(NextStage(c.stage)) ELSE NextStage(c.stage)
      BY <1>8, <2>1
    <3> QED
      BY <1>2, <1>8, <3>1, NextIsEarned
  <2>3. /\ d.stage = s /\ d.mode = "normal"
        /\ d.outcome = "none" /\ d.metadata = "none" /\ d.verdict = "none"
    BY <1>5, <1>6, <1>8, <2>1, <2>2
  <2>4. s = IMPLEMENT => Spent(history, Len(history)) <= ModificationLimit
    BY <1>2, <2>2, NothingSpent
  <2>5. Issues(history, d)
    BY <1>2, <2>2, <2>3, <2>4 DEF Issues
  <2> QED
    BY <1>5, <1>8, <2>1, <2>2, <2>5 DEF d
<1>9. ASSUME c.stage \in CodeGates
      PROVE  c.mode # "finalization" /\ \A p \in 1..Phases : Position(c.stage) > 2 * p
  <2>1. c.stage = TEST \/ c.stage = CODE_REVIEW
    BY <1>9 DEF CodeGates
  <2>2. Position(c.stage) \in {2 * Phases + 2, 2 * Phases + 3}
    BY <2>1, Positions
  <2>3. c.mode # "finalization"
    BY <1>2, <2>1, GateStages
  <2> QED
    BY <1>4, <2>2, <2>3
<1>10. CASE /\ c.stage \in CodeGates /\ ~BudgetSpent
            /\ r.stage = IMPLEMENT /\ r.mode = "normal"
            /\ x = [kind |-> "code_gate_failure", attempt |-> 0, trigger |-> Len(history)]
  <2>1. x \in Contexts
    BY <1>3, <1>10 DEF Contexts
  <2>2. /\ d.stage = IMPLEMENT /\ d.mode = "normal"
        /\ d.outcome = "none" /\ d.metadata = "none" /\ d.verdict = "none"
    BY <1>6, <1>10, <2>1, GateStages
  <2>3. \A p \in 1..Phases : Position(d.stage) > 2 * p /\ Position(c.stage) > 2 * p
    <3>1. Position(d.stage) = 2 * Phases + 1
      BY <2>2, Positions
    <3> QED
      BY <1>4, <1>9, <1>10, <3>1
  <2>4. Spent(history, Len(history)) <= ModificationLimit
    BY <1>10, BudgetLeft
  <2>5. Issues(history, d)
    BY <1>2, <1>9, <1>10, <2>2, <2>3, <2>4, CodeStages DEF Issues
  <2> QED
    BY <1>10, <2>1, <2>5, GateStages DEF d
<1>11. CASE /\ c.stage = TEST /\ c.outcome = "pass"
            /\ r.stage = CODE_REVIEW /\ r.mode = "normal" /\ x = NoContext
  <2>1. /\ d.stage = CODE_REVIEW /\ d.mode = "normal"
        /\ d.outcome = "none" /\ d.metadata = "none" /\ d.verdict = "none"
    BY <1>5, <1>6, <1>11, GateStages
  <2>2. \A p \in 1..Phases : Position(d.stage) > 2 * p /\ Position(c.stage) > 2 * p
    <3>1. Position(d.stage) = 2 * Phases + 3
      BY <2>1, Positions
    <3> QED
      BY <1>4, <1>9, <1>11, <3>1, GateStages
  <2>3. Issues(history, d)
    BY <1>2, <1>9, <1>11, <2>1, <2>2, CodeStages, GateStages DEF Issues
  <2> QED
    BY <1>5, <1>11, <2>3, GateStages DEF d
<1> QED
  BY <1>1, <1>7, <1>8, <1>10, <1>11, RouteCases

-----------------------------------------------------------------------------
(* The steps *)

\* A run that is not being reconciled and not delivered has only its history to
\* answer for.
LEMMA IdleIsEnough ==
  ASSUME TypeOK', HistoryIsSound(history'), pc' = "idle", state' \notin TerminalStates
  PROVE  IInv'
<1>1. PlaceIsTrue'
  BY DEF PlaceIsTrue
<1>2. ReadyIsProved' /\ DeliveryIsFrozen'
  BY DEF ReadyIsProved, DeliveryIsFrozen, TerminalStates
<1> QED
  BY <1>1, <1>2 DEF IInv

\* A reconcile that creates a card, raises an exception or goes on.
LEMMA CardKeeps ==
  ASSUME IInv, state = "active",
         NEW h \in Seq(CardRecords), h # <<>>, HistoryIsSound(h),
         NEW s \in Stages, NEW m \in {"normal", "finalization"}, NEW x \in Contexts,
         Issues(h, NewCard(s, m, x)),
         CreateWork(h, s, m, x), UNCHANGED <<commits, faults>>
  PROVE  IInv'
<1>1. /\ history' \in Seq(CardRecords) /\ history' # <<>>
      /\ HistoryIsSound(history')
      /\ pc' = "idle" /\ UNCHANGED <<state, draft, checked>>
  BY CreateWorkIssues
<1>2. TypeOK'
  BY <1>1 DEF IInv, TypeOK, CurrentHead
<1> QED
  BY <1>1, <1>2, IdleIsEnough DEF TerminalStates

\* _exception, or a ValueError that is not caught.
LEMMA ExceptionKeeps ==
  ASSUME IInv, NEW h \in Seq(CardRecords), h # <<>>, HistoryIsSound(h),
         RunException(h), UNCHANGED <<commits, faults>>
  PROVE  IInv'
<1>1. /\ history' \in Seq(CardRecords) /\ history' # <<>>
      /\ HistoryIsSound(history')
      /\ pc' = "idle" /\ state' = "exception" /\ UNCHANGED <<draft, checked>>
  BY DEF RunException
<1>2. TypeOK'
  BY <1>1 DEF IInv, TypeOK, CurrentHead
<1> QED
  BY <1>1, <1>2, IdleIsEnough DEF TerminalStates

\* The reconcile goes on to its next read of GitLab.
LEMMA ContinueKeeps ==
  ASSUME IInv, state = "active", NEW h \in Seq(CardRecords), h # <<>>, HistoryIsSound(h),
         NEW step \in {"gate", "frozen", "route", "finish", "ready"},
         Continue(h, step), UNCHANGED <<commits, faults>>, PlaceIsTrue'
  PROVE  IInv'
<1>1. /\ history' \in Seq(CardRecords) /\ history' # <<>>
      /\ HistoryIsSound(history')
      /\ pc' = step /\ UNCHANGED <<state, draft, checked>>
  BY DEF Continue
<1>2. TypeOK'
  BY <1>1 DEF IInv, TypeOK, CurrentHead
<1>3. ReadyIsProved' /\ DeliveryIsFrozen'
  BY <1>1 DEF ReadyIsProved, DeliveryIsFrozen, TerminalStates
<1> QED
  BY <1>1, <1>2, <1>3 DEF IInv

\* The route of a completion depends on the history only.
LEMMA SameFinish ==
  ASSUME history' = history
  PROVE  Latest' = Latest /\ RouteCompletion(Latest)' = RouteCompletion(Latest)
         /\ Finishing' = Finishing
<1>1. Latest' = Latest
  BY DEF Latest
<1>2. RouteCompletion(Latest)' = RouteCompletion(Latest)
  BY <1>1 DEF RouteCompletion, RouteDocument, CodeGateFails, RouteFailure, BudgetSpent
<1>3. Finishing' = Finishing
  BY <1>1, <1>2 DEF Finishing
<1> QED
  BY <1>1, <1>2, <1>3

\* A push does not change what was delivered before.
LEMMA SameHandOver ==
  ASSUME history' = history, HandingOver,
         commits \in Seq([Artifacts -> Nat]), commits' \in Seq([Artifacts -> Nat]),
         Len(commits') >= Len(commits),
         \A i \in 1..Len(commits) : commits'[i] = commits[i]
  PROVE  HandingOver'
<1>1. Latest' = Latest
  BY SameFinish
<1>2. Latest.head \in 1..Len(commits) /\ commits'[Latest.head] = commits[Latest.head]
  BY DEF HandingOver, CurrentHead
<1>3. Latest.head \in 1..Len(commits')
  BY <1>2
<1>4. ~FrozenViolation(history, Latest.head)'
  BY <1>1, <1>2 DEF HandingOver, FrozenViolation
<1> QED
  BY <1>1, <1>3, <1>4 DEF HandingOver, CurrentHead

\* The facts of a reconcile step.
LEMMA ReconcilingFacts ==
  ASSUME IInv, NEW step, Reconciling(step)
  PROVE  /\ state = "active" /\ pc = step /\ Latest.metadata # "none"
         /\ history \in Seq(CardRecords) /\ history # <<>> /\ HistoryIsSound(history)
         /\ Latest = Last(history) /\ Latest \in CardRecords /\ SoundCard(Latest)
         /\ Latest.stage \in Stages /\ Latest.mode \in {"normal", "finalization"}
         /\ Latest.context \in Contexts
<1>1. history \in Seq(CardRecords) /\ history # <<>> /\ HistoryIsSound(history)
  BY DEF IInv, TypeOK
<1>2. Latest = Last(history) /\ Latest \in CardRecords /\ SoundCard(Latest)
  BY <1>1, LastCard DEF Latest
<1> QED
  BY <1>1, <1>2 DEF Reconciling, CardRecords

\* _protocol_failure: the card is issued again, or the run is an exception.
LEMMA ProtocolFailureKeeps ==
  ASSUME IInv, NEW step, Reconciling(step), ProtocolFailure, UNCHANGED <<commits, faults>>
  PROVE  IInv'
<1>1. /\ state = "active"
      /\ history \in Seq(CardRecords) /\ history # <<>> /\ HistoryIsSound(history)
      /\ Latest.stage \in Stages /\ Latest.mode \in {"normal", "finalization"}
      /\ Latest.context \in Contexts
  BY ReconcilingFacts
<1>2. PICK h : h = [Judge("rejected") EXCEPT ![Len(history)].marked = TRUE]
  OBVIOUS
<1>3. JudgedAs(h, "rejected")
  <2>1. JudgedAs(Judge("rejected"), "rejected")
    BY <1>1, JudgeKeeps
  <2>2. Len(Judge("rejected")) = Len(history)
    BY <1>1 DEF Judge
  <2> QED
    BY <1>2, <2>1, <2>2, MarkKeeps
<1>4. /\ h \in Seq(CardRecords) /\ h # <<>> /\ HistoryIsSound(h)
      /\ Last(h).stage = Latest.stage /\ Last(h).mode = Latest.mode
      /\ Last(h).context = Latest.context /\ Last(h).verdict = "rejected"
  BY <1>3 DEF JudgedAs
<1>5. CASE CreateWork(h, Latest.stage, Latest.mode, Latest.context)
  <2>1. PICK s, m, x : s = Latest.stage /\ m = Latest.mode /\ x = Latest.context
    OBVIOUS
  <2>2. Issues(h, NewCard(s, m, x))
    BY <1>4, <2>1, RetryIssues
  <2>3. CreateWork(h, s, m, x)
    BY <1>5, <2>1
  <2> QED
    BY <1>1, <1>4, <2>1, <2>2, <2>3, CardKeeps
<1>6. CASE RunException(h)
  BY <1>4, <1>6, ExceptionKeeps
<1> QED
  BY <1>2, <1>5, <1>6 DEF ProtocolFailure

\* The first checks establish that the completion parses.
LEMMA ValidateCompletionKeeps ==
  ASSUME IInv, ValidateCompletion
  PROVE  IInv'
<1>1. Reconciling("idle") /\ UNCHANGED <<commits, faults>>
  BY DEF ValidateCompletion
<1>2. state = "active" /\ history \in Seq(CardRecords) /\ history # <<>>
      /\ HistoryIsSound(history)
  BY <1>1, ReconcilingFacts
<1>3. CASE Parses(Latest) /\ Continue(history, "gate")
  <2>1. Latest' = Latest /\ pc' = "gate" /\ state' = "active"
    BY <1>2, <1>3, SameFinish DEF Continue
  <2>2. PlaceIsTrue'
    BY <1>3, <2>1 DEF PlaceIsTrue, Parses
  <2> QED
    BY <1>1, <1>2, <1>3, <2>2, ContinueKeeps
<1>4. CASE ProtocolFailure
  BY <1>1, <1>4, ProtocolFailureKeeps
<1> QED
  BY <1>3, <1>4 DEF ValidateCompletion

\* A rejected code gate, or one whose test is missing, goes back to the test.
LEMMA BackToTestKeeps ==
  ASSUME IInv, state = "active", UNCHANGED <<commits, faults>>,
         NEW h \in Seq(CardRecords), h # <<>>, HistoryIsSound(h),
         Last(h).stage \in CodeGates,
         CreateWork(h, TEST, "normal", NoContext)
  PROVE  IInv'
BY TestIssues, CardKeeps, GateStages

\* The gate establishes that the completion is valid, or sends it back.
LEMMA ValidateGateKeeps ==
  ASSUME IInv, ValidateGate
  PROVE  IInv'
<1>1. Reconciling("gate") /\ UNCHANGED <<commits, faults>>
  BY DEF ValidateGate
<1>2. state = "active" /\ history \in Seq(CardRecords) /\ history # <<>>
      /\ HistoryIsSound(history)
  BY <1>1, ReconcilingFacts
<1>3. CASE Latest.metadata = "valid" /\ Continue(history, "frozen")
  <2>1. Latest' = Latest /\ pc' = "frozen" /\ state' = "active"
    BY <1>2, <1>3, SameFinish DEF Continue
  <2>2. PlaceIsTrue'
    BY <1>3, <2>1 DEF PlaceIsTrue, Parses
  <2> QED
    BY <1>1, <1>2, <1>3, <2>2, ContinueKeeps
<1>4. CASE Latest.stage \in CodeGates
           /\ CreateWork(Judge("rejected"), TEST, "normal", NoContext)
  <2>1. PICK h : h = Judge("rejected")
    OBVIOUS
  <2>2. JudgedAs(h, "rejected")
    BY <1>2, <2>1, JudgeKeeps
  <2>3. CreateWork(h, TEST, "normal", NoContext)
    BY <1>4, <2>1
  <2> QED
    BY <1>1, <1>2, <1>4, <2>2, <2>3, BackToTestKeeps DEF JudgedAs
<1>5. CASE ProtocolFailure
  BY <1>1, <1>5, ProtocolFailureKeeps
<1> QED
  BY <1>3, <1>4, <1>5 DEF ValidateGate

\* The card is accepted, or its producer repairs what is frozen.
LEMMA CheckFrozenKeeps ==
  ASSUME IInv, CheckFrozen
  PROVE  IInv'
<1>1. Reconciling("frozen") /\ UNCHANGED <<commits, faults>>
  BY DEF CheckFrozen
<1>2. /\ state = "active" /\ history \in Seq(CardRecords) /\ history # <<>>
      /\ HistoryIsSound(history) /\ pc = "frozen"
      /\ Latest.stage \in Stages /\ Latest.mode \in {"normal", "finalization"}
  BY <1>1, ReconcilingFacts
<1>3. CASE CreateFrozenRepair(Judge("rejected"))
  <2>1. PICK h : h = Judge("rejected")
    OBVIOUS
  <2>2. JudgedAs(h, "rejected")
    BY <1>2, <2>1, JudgeKeeps
  <2>3. PICK s, m, x : /\ s = Producer(Latest.stage) /\ m = Latest.mode
                       /\ x = IF Latest.mode = "finalization" THEN Latest.context
                                                              ELSE FrozenContext
    OBVIOUS
  <2>4. CreateWork(h, s, m, x)
    BY <1>3, <2>1, <2>3 DEF CreateFrozenRepair
  <2>5. /\ h \in Seq(CardRecords) /\ h # <<>> /\ HistoryIsSound(h)
        /\ Last(h).stage = Latest.stage /\ Last(h).mode = Latest.mode
        /\ Last(h).context = Latest.context
    BY <2>2 DEF JudgedAs
  <2>6. x \in Contexts /\ Issues(h, NewCard(s, m, x))
    BY <2>3, <2>5, RepairIssues
  <2>7. s \in Stages
    BY <1>2, <2>3, ProducerFloor
  <2> QED
    BY <1>1, <1>2, <2>3, <2>4, <2>5, <2>6, <2>7, CardKeeps
<1>4. CASE Continue(Judge("accepted"), "route")
  <2>1. Latest.metadata = "valid"
    BY <1>2 DEF IInv, PlaceIsTrue
  <2>2. PICK h : h = Judge("accepted")
    OBVIOUS
  <2>3. JudgedAs(h, "accepted")
    BY <1>2, <2>1, <2>2, JudgeKeeps
  <2>4. Continue(h, "route")
    BY <1>4, <2>2
  <2>5. Latest' = Last(h) /\ pc' = "route" /\ state' = "active"
    BY <1>2, <2>4 DEF Continue, Latest
  <2>6. Last(h).metadata = "valid" /\ Last(h).verdict = "accepted"
    BY <2>1, <2>3 DEF JudgedAs
  <2>7. PlaceIsTrue'
    BY <2>5, <2>6 DEF PlaceIsTrue, Parses
  <2> QED
    BY <1>1, <1>2, <2>3, <2>4, <2>7, ContinueKeeps DEF JudgedAs
<1> QED
  BY <1>3, <1>4 DEF CheckFrozen

\* A cancelled completion leads to a test or to a human.
LEMMA RouteCancelledKeeps ==
  ASSUME IInv, RouteCancelled
  PROVE  IInv'
<1>1. Reconciling("route") /\ UNCHANGED <<commits, faults>>
  BY DEF RouteCancelled
<1>2. state = "active" /\ history \in Seq(CardRecords) /\ history # <<>>
      /\ HistoryIsSound(history) /\ Latest = Last(history)
  BY <1>1, ReconcilingFacts
<1>3. CASE Latest.stage \in CodeGates /\ CreateWork(history, TEST, "normal", NoContext)
  BY <1>1, <1>2, <1>3, BackToTestKeeps
<1>4. CASE RunException(history)
  BY <1>1, <1>2, <1>4, ExceptionKeeps
<1> QED
  BY <1>3, <1>4 DEF RouteCancelled

\* A review without a test of its head leads to a test.
LEMMA RouteUnpairedKeeps ==
  ASSUME IInv, RouteUnpaired
  PROVE  IInv'
<1>1. /\ Reconciling("route") /\ UNCHANGED <<commits, faults>>
      /\ Latest.stage = CODE_REVIEW /\ CreateWork(history, TEST, "normal", NoContext)
  BY DEF RouteUnpaired
<1>2. state = "active" /\ history \in Seq(CardRecords) /\ history # <<>>
      /\ HistoryIsSound(history) /\ Latest = Last(history)
  BY <1>1, ReconcilingFacts
<1> QED
  BY <1>1, <1>2, GateStages, BackToTestKeeps

\* The test a review is judged with is the one that let it begin.
LEMMA TestOfReview ==
  ASSUME history \in Seq(CardRecords), HistoryIsSound(history),
         NEW t \in DOMAIN history, Tested(history, t)
  PROVE  PairedTest(history) = t
<1>1. SoundCard(history[t]) /\ history[t].verdict = "accepted"
      /\ history[t].outcome = "pass"
  BY DEF HistoryIsSound, CardsAreSound, Tested
<1>2. Judged(history[t])
  BY <1>1 DEF SoundCard, Judged, Parses
<1> QED
  BY <1>2, PairedTestIs

\* The route establishes Finishing, or issues the next card.
LEMMA RouteKeeps ==
  ASSUME IInv, Route
  PROVE  IInv'
<1>1. /\ Reconciling("route") /\ UNCHANGED <<commits, faults>>
      /\ Latest.outcome # "cancelled"
      /\ Latest.stage = CODE_REVIEW => TestIsPaired(history, Latest)
  BY DEF Route
<1>2. /\ state = "active" /\ history \in Seq(CardRecords) /\ history # <<>>
      /\ HistoryIsSound(history) /\ Latest = Last(history) /\ pc = "route"
  BY <1>1, ReconcilingFacts
<1>3. Latest.verdict = "accepted" /\ Parses(Latest)
  BY <1>2 DEF IInv, PlaceIsTrue
<1>4. CASE RouteCompletion(Latest).terminal # "none" /\ Continue(history, "finish")
  <2>1. Latest.stage \in CodeGates
    BY <1>4 DEF RouteCompletion, RouteDocument, NextWork
  <2>2. ASSUME Latest.stage = CODE_REVIEW
        PROVE  \E t \in DOMAIN history : Tested(history, t) /\ history[t].head = Latest.head
    <3>1. PICK t \in DOMAIN history : Tested(history, t)
      BY <1>2, <2>2 DEF HistoryIsSound, ReviewIsTested
    <3>2. PairedTest(history) = t
      BY <1>2, <3>1, TestOfReview
    <3>3. history[t].head = Latest.head
      BY <1>1, <2>2, <3>2 DEF TestIsPaired
    <3> QED
      BY <3>1, <3>3
  <2>3. Finishing
    BY <1>1, <1>4, <2>1, <2>2 DEF Finishing
  <2>4. Latest' = Latest /\ Finishing' /\ pc' = "finish" /\ state' = "active"
    BY <1>2, <1>4, <2>3, SameFinish DEF Continue
  <2>5. PlaceIsTrue'
    BY <1>3, <2>4 DEF PlaceIsTrue, Parses
  <2> QED
    BY <1>1, <1>2, <1>4, <2>5, ContinueKeeps
<1>5. CASE RunException(history)
  BY <1>1, <1>2, <1>5, ExceptionKeeps
<1>6. CASE /\ RouteCompletion(Latest).terminal = "none"
           /\ ~(RepairContext(Latest).attempt > ReviewLimit)
           /\ CreateWork(history, RouteCompletion(Latest).stage,
                         RouteCompletion(Latest).mode, RepairContext(Latest))
  <2>1. PICK r, x : r = RouteCompletion(Latest) /\ x = RepairContext(Latest)
    OBVIOUS
  <2>2. /\ r.stage \in Stages /\ r.mode \in {"normal", "finalization"}
        /\ x \in Contexts /\ Issues(history, NewCard(r.stage, r.mode, x))
    BY <1>1, <1>2, <1>3, <1>6, <2>1, RouteIssues
  <2>3. CreateWork(history, r.stage, r.mode, x)
    BY <1>6, <2>1
  <2> QED
    BY <1>1, <1>2, <2>2, <2>3, CardKeeps
<1> QED
  BY <1>4, <1>5, <1>6 DEF Route

\* The terminal states a completion leads to.
LEMMA Terminals ==
  ASSUME history \in Seq(CardRecords), HistoryIsSound(history), Finishing,
         Parses(Latest), SoundCard(Latest), Latest \in CardRecords,
         NEW terminal, terminal = RouteCompletion(Latest).terminal
  PROVE  /\ Latest.stage = TEST => terminal = "completed_test_failed"
         /\ Latest.stage = CODE_REVIEW =>
              \/ terminal = "completed_ready" /\ Latest.outcome = "pass"
              \/ terminal = "completed_with_findings" /\ Latest.outcome = "fail"
<1>1. Latest.outcome \in {"pass", "fail"}
  BY DEF Finishing, SoundCard, CardRecords
<1>2. ASSUME Latest.stage = TEST
      PROVE  terminal = "completed_test_failed"
  BY <1>2 DEF Finishing, RouteCompletion, RouteFailure, NextWork, Terminal, CodeGates
<1>3. ASSUME Latest.stage = CODE_REVIEW
      PROVE  \/ terminal = "completed_ready" /\ Latest.outcome = "pass"
             \/ terminal = "completed_with_findings" /\ Latest.outcome = "fail"
  <2>1. PICK t \in DOMAIN history : Tested(history, t)
    BY <1>3 DEF Finishing
  <2>2. history[PairedTest(history)].outcome # "fail"
    BY <2>1, TestOfReview DEF Tested
  <2>3. CodeGateFails(Latest) <=> Latest.outcome = "fail"
    BY <2>2 DEF CodeGateFails
  <2>4. Latest.stage \in CodeGates /\ Latest.stage # TEST
    BY <1>3, GateStages, CodeStages
  <2>5. CASE Latest.outcome = "pass"
    <3>1. RouteCompletion(Latest) = Terminal("completed_ready")
      BY <2>3, <2>4, <2>5 DEF RouteCompletion
    <3> QED
      BY <2>5, <3>1 DEF Terminal
  <2>6. CASE Latest.outcome = "fail"
    <3>1. RouteCompletion(Latest) = RouteFailure(Latest)
      BY <2>3, <2>4, <2>6 DEF RouteCompletion
    <3>2. RouteFailure(Latest) = Terminal("completed_with_findings")
      BY <2>4, <3>1 DEF Finishing, RouteFailure, NextWork
    <3> QED
      BY <2>6, <3>1, <3>2 DEF Terminal
  <2> QED
    BY <1>1, <2>5, <2>6
<1> QED
  BY <1>2, <1>3

\* The end of the code flow establishes HandingOver, or delivers a failed test.
LEMMA FinalizeCodeFlowKeeps ==
  ASSUME IInv, FinalizeCodeFlow
  PROVE  IInv'
<1>1. Reconciling("finish") /\ UNCHANGED <<commits, faults>>
  BY DEF FinalizeCodeFlow
<1>2. /\ state = "active" /\ history \in Seq(CardRecords) /\ history # <<>>
      /\ HistoryIsSound(history) /\ Latest = Last(history) /\ pc = "finish"
      /\ Latest \in CardRecords /\ SoundCard(Latest)
  BY <1>1, ReconcilingFacts
<1>3. Finishing /\ Parses(Latest) /\ Latest.verdict = "accepted"
      /\ Latest.stage \in CodeGates
  BY <1>2 DEF IInv, PlaceIsTrue, Finishing
<1>4. PICK terminal : terminal = RouteCompletion(Latest).terminal
  OBVIOUS
<1>5. CASE CreateWork(history, TEST, "normal", NoContext)
  BY <1>1, <1>2, <1>3, <1>5, BackToTestKeeps
<1>6. CASE RunException(history)
  BY <1>1, <1>2, <1>6, ExceptionKeeps
<1>7. ASSUME Latest.head = CurrentHead, ~FrozenViolation(history, Latest.head)
      PROVE  Latest.head \in 1..CurrentHead
  BY <1>7 DEF IInv, TypeOK, CurrentHead
<1>8. CASE /\ Latest.head = CurrentHead /\ ~FrozenViolation(history, Latest.head)
           /\ terminal # "completed_test_failed" /\ Continue(history, "ready")
  <2>1. Latest.stage = CODE_REVIEW
    BY <1>2, <1>3, <1>4, <1>8, Terminals DEF CodeGates
  <2>2. HandingOver
    BY <1>7, <1>8, <2>1 DEF HandingOver
  <2>3. Latest' = Latest /\ Finishing' /\ pc' = "ready" /\ state' = "active"
    BY <1>2, <1>3, <1>8, SameFinish DEF Continue
  <2>4. HandingOver'
    <3>1. history' = history /\ commits' = commits
      BY <1>1, <1>8 DEF Continue
    <3>2. commits \in Seq([Artifacts -> Nat]) /\ Len(commits) \in Nat
      BY DEF IInv, TypeOK
    <3> QED
      BY <2>2, <3>1, <3>2, SameHandOver
  <2>5. PlaceIsTrue'
    BY <1>3, <2>3, <2>4 DEF PlaceIsTrue, Parses
  <2> QED
    BY <1>1, <1>2, <1>8, <2>5, ContinueKeeps
<1>9. CASE /\ Latest.head = CurrentHead /\ ~FrozenViolation(history, Latest.head)
           /\ terminal = "completed_test_failed"
           /\ state' = terminal /\ checked' = Latest.head /\ pc' = "idle"
           /\ UNCHANGED <<history, draft>>
  <2>1. TypeOK'
    BY <1>1, <1>7, <1>9 DEF IInv, TypeOK, CurrentHead, TerminalStates
  <2>2. HistoryIsSound(history')
    BY <1>2, <1>9
  <2>3. PlaceIsTrue'
    BY <1>9 DEF PlaceIsTrue
  <2>4. ReadyIsProved'
    BY <1>9 DEF ReadyIsProved
  <2>5. DeliveryIsFrozen'
    <3>1. \A a \in DOMAIN Baseline(history) :
            commits[Latest.head][a] = Baseline(history)[a]
      BY <1>9 DEF FrozenViolation
    <3> QED
      BY <1>1, <1>9, <3>1 DEF DeliveryIsFrozen
  <2> QED
    BY <2>1, <2>2, <2>3, <2>4, <2>5 DEF IInv
<1> QED
  BY <1>4, <1>5, <1>6, <1>8, <1>9 DEF FinalizeCodeFlow

\* The merge request leaves draft; a head that moved is an exception.
LEMMA MarkReadyKeeps ==
  ASSUME IInv, MarkReady
  PROVE  IInv'
<1>1. Reconciling("ready") /\ UNCHANGED <<commits, faults>>
  BY DEF MarkReady
<1>2. /\ state = "active" /\ history \in Seq(CardRecords) /\ history # <<>>
      /\ HistoryIsSound(history) /\ pc = "ready"
  BY <1>1, ReconcilingFacts
<1>3. Finishing /\ Parses(Latest) /\ Latest.verdict = "accepted" /\ HandingOver
  BY <1>2 DEF IInv, PlaceIsTrue
<1>4. CASE draft' = FALSE /\ pc' = "commit" /\ UNCHANGED <<state, history, checked>>
  <2>1. TypeOK'
    BY <1>1, <1>4 DEF IInv, TypeOK, CurrentHead
  <2>2. HistoryIsSound(history')
    BY <1>2, <1>4
  <2>3. Latest' = Latest /\ Finishing'
    BY <1>3, <1>4, SameFinish
  <2>4. HandingOver'
    <3>1. commits \in Seq([Artifacts -> Nat]) /\ Len(commits) \in Nat
      BY DEF IInv, TypeOK
    <3> QED
      BY <1>1, <1>3, <1>4, <3>1, SameHandOver
  <2>5. PlaceIsTrue'
    BY <1>2, <1>3, <1>4, <2>3, <2>4 DEF PlaceIsTrue, Parses
  <2>6. ReadyIsProved' /\ DeliveryIsFrozen'
    BY <1>2, <1>4 DEF ReadyIsProved, DeliveryIsFrozen, TerminalStates
  <2> QED
    BY <2>1, <2>2, <2>5, <2>6 DEF IInv
<1>5. CASE RunException(history)
  BY <1>1, <1>2, <1>5, ExceptionKeeps
<1> QED
  BY <1>4, <1>5 DEF MarkReady

\* The delivery: what was established at each read is put together.
LEMMA MarkFlowCompletedKeeps ==
  ASSUME IInv, MarkFlowCompleted
  PROVE  IInv'
<1>1. Reconciling("commit") /\ UNCHANGED <<commits, faults>>
  BY DEF MarkFlowCompleted
<1>2. /\ state = "active" /\ history \in Seq(CardRecords) /\ history # <<>>
      /\ HistoryIsSound(history) /\ pc = "commit" /\ Latest = Last(history)
      /\ Latest \in CardRecords /\ SoundCard(Latest)
  BY <1>1, ReconcilingFacts
<1>3. Finishing /\ Parses(Latest) /\ Latest.verdict = "accepted" /\ HandingOver /\ ~draft
  BY <1>2 DEF IInv, PlaceIsTrue
<1>4. CASE /\ state' = RouteCompletion(Latest).terminal
           /\ checked' = Latest.head /\ pc' = "idle" /\ UNCHANGED <<history, draft>>
  <2>1. /\ Latest.stage = CODE_REVIEW /\ Latest.head \in 1..CurrentHead
        /\ ~FrozenViolation(history, Latest.head)
    BY <1>3 DEF HandingOver
  <2>2. \/ state' = "completed_ready" /\ Latest.outcome = "pass"
        \/ state' = "completed_with_findings" /\ Latest.outcome = "fail"
    BY <1>2, <1>3, <1>4, <2>1, Terminals
  <2>3. TypeOK'
    BY <1>1, <1>4, <2>1, <2>2 DEF IInv, TypeOK, CurrentHead, TerminalStates
  <2>4. HistoryIsSound(history')
    BY <1>2, <1>4
  <2>5. PlaceIsTrue'
    BY <1>4 DEF PlaceIsTrue
  <2>6. ReadyIsProved'
    <3>1. Latest' = Latest
      BY <1>4, SameFinish
    <3>2. PICK t \in DOMAIN history : Tested(history, t) /\ history[t].head = Latest.head
      BY <1>3, <2>1 DEF Finishing
    <3>3. /\ history[t].stage = TEST /\ history[t].verdict = "accepted"
          /\ history[t].outcome = "pass"
      BY <3>2 DEF Tested
    <3>4. \A i \in t..Len(history) : history[i].stage # IMPLEMENT
      <4> SUFFICES ASSUME NEW i \in t..Len(history) PROVE history[i].stage # IMPLEMENT
        OBVIOUS
      <4>1. i = t \/ i \in (t + 1)..Len(history)
        BY <1>2, <3>2
      <4> QED
        BY <3>2, <3>3, <4>1, CodeStages DEF Tested
    <3>5. \E y \in DOMAIN history :
            /\ history[y].stage = TEST /\ history[y].verdict = "accepted"
            /\ history[y].outcome = "pass" /\ history[y].head = Latest.head
            /\ \A i \in y..Len(history) : history[i].stage # IMPLEMENT
      BY <3>2, <3>3, <3>4
    <3> QED
      BY <1>3, <1>4, <2>1, <2>2, <3>1, <3>5 DEF ReadyIsProved
  <2>7. DeliveryIsFrozen'
    <3>1. \A a \in DOMAIN Baseline(history) :
            commits[Latest.head][a] = Baseline(history)[a]
      BY <2>1 DEF FrozenViolation
    <3> QED
      BY <1>1, <1>4, <3>1 DEF DeliveryIsFrozen
  <2> QED
    BY <2>3, <2>4, <2>5, <2>6, <2>7 DEF IInv
<1>5. CASE RunException(history)
  BY <1>1, <1>2, <1>5, ExceptionKeeps
<1> QED
  BY <1>4, <1>5 DEF MarkFlowCompleted

\* A frozen artifact has a version.
LEMMA BaselineIsVersion ==
  ASSUME NEW h \in Seq(CardRecords), NEW a \in DOMAIN Baseline(h)
  PROVE  Baseline(h)[a] \in Nat
<1>1. CASE a = "prd"
  BY <1>1 DEF Baseline
<1>2. CASE a # "prd"
  <2>1. a \in FrozenPhases(h)
    BY <1>2 DEF Baseline
  <2>2. PICK j \in DOMAIN Documents :
          a = Documents[j] /\ \A k \in 1..j : BaselineCard(h, Documents[k]) # 0
    BY <2>1 DEF FrozenPhases
  <2>3. j \in 1..j
    BY <2>2, SequenceElements
  <2>4. BaselineCard(h, a) # 0
    BY <2>2, <2>3
  <2> DEFINE Freezes(c) == FreezesPhase(c, a)
             S == {i \in 1..Len(h) : Freezes(h[i])}
  <2>5. BaselineCard(h, a) = IF S # {} THEN Max(S) ELSE 0
    BY DEF BaselineCard, SelectLastInSeq
  <2>6. S \in SUBSET (1..Len(h)) /\ Len(h) \in Nat
    OBVIOUS
  <2> HIDE DEF S
  <2>7. BaselineCard(h, a) \in S
    BY <2>4, <2>5, <2>6, LastPlace
  <2>8. h[BaselineCard(h, a)].artifact \in Nat
    <3>1. PICK b : b = BaselineCard(h, a)
      OBVIOUS
    <3>2. b \in 1..Len(h)
      BY <2>6, <2>7, <3>1
    <3>3. h[b] \in CardRecords
      BY <3>2
    <3> QED
      BY <3>1, <3>3 DEF CardRecords
  <2> QED
    BY <1>2, <2>8 DEF Baseline
<1> QED
  BY <1>1, <1>2

\* A worker completes its card.
LEMMA CompleteKeeps ==
  ASSUME IInv, Working,
         NEW outcome \in {"none", "pass", "fail", "cancelled"},
         NEW metadata \in {"valid", "unproven", "malformed"},
         NEW head \in Nat, NEW artifact \in Nat,
         metadata # "malformed" => outcome # "none",
         Latest.stage[2] = "write" => outcome # "fail",
         Complete(outcome, metadata, head, artifact),
         UNCHANGED <<state, draft, checked, pc>>,
         faults' \in 0..MaxFaults,
         commits' \in Seq([Artifacts -> Nat]), Len(commits') >= Len(commits)
  PROVE  IInv'
<1>1. /\ state = "active" /\ Latest.metadata = "none"
      /\ history \in Seq(CardRecords) /\ history # <<>> /\ HistoryIsSound(history)
      /\ commits \in Seq([Artifacts -> Nat]) /\ commits # <<>>
      /\ checked \in 0..Len(commits)
  BY DEF IInv, TypeOK, Working, CurrentHead
<1>2. pc = "idle"
  BY <1>1 DEF IInv, PlaceIsTrue, Parses
<1>3. PICK c : c = Latest
  OBVIOUS
<1>4. /\ c \in CardRecords /\ SoundCard(c) /\ c = history[Len(history)]
      /\ Len(history) \in DOMAIN history /\ c = Last(history)
  BY <1>1, <1>3, LastCard DEF Latest
<1>5. PICK d : d = [c EXCEPT !.outcome = outcome, !.metadata = metadata,
                             !.head = head, !.artifact = artifact]
  OBVIOUS
<1>6. /\ d \in CardRecords /\ d.verdict = c.verdict
      /\ d.stage = c.stage /\ d.mode = c.mode /\ d.context = c.context
      /\ d.outcome = outcome /\ d.metadata = metadata
  BY <1>4, <1>5 DEF CardRecords
<1>7. SoundCard(d)
  <2>1. c.verdict # "accepted"
    BY <1>1, <1>3, <1>4 DEF SoundCard
  <2> QED
    BY <1>3, <1>4, <1>6, <2>1 DEF SoundCard, Parses
<1>8. history' = [history EXCEPT ![Len(history)] = d]
  BY <1>1, <1>4, <1>5 DEF Complete
<1>9. history' \in Seq(CardRecords) /\ history' # <<>> /\ HistoryIsSound(history')
  BY <1>1, <1>4, <1>6, <1>7, <1>8, ReplaceLast
<1>10. checked' \in 0..Len(commits') /\ commits' # <<>>
  <2>1. Len(commits) \in Nat /\ Len(commits) # 0 /\ Len(commits') \in Nat
    BY <1>1
  <2>2. checked' = checked
    OBVIOUS
  <2>3. PICK a, b : a = Len(commits) /\ b = Len(commits')
    OBVIOUS
  <2>4. b >= a /\ a \in Nat /\ b \in Nat /\ a # 0 /\ checked \in 0..a
    BY <1>1, <2>1, <2>3
  <2>5. checked \in 0..b /\ b # 0
    BY <2>4
  <2> QED
    BY <2>2, <2>3, <2>5
<1>11. TypeOK'
  BY <1>1, <1>9, <1>10 DEF IInv, TypeOK, CurrentHead
<1> QED
  BY <1>1, <1>2, <1>9, <1>11, IdleIsEnough DEF TerminalStates

\* The version of a document in a commit.
LEMMA OwnIsVersion ==
  ASSUME NEW commit \in [Artifacts -> Nat]
  PROVE  Own(commit) \in Nat
BY DEF Own

\* The delivery branch has a head.
LEMMA HeadIsCommit ==
  ASSUME IInv
  PROVE  /\ commits \in Seq([Artifacts -> Nat]) /\ CurrentHead \in Nat
         /\ CurrentHead + 1 \in Nat /\ Len(commits) = CurrentHead
         /\ commits[CurrentHead] \in [Artifacts -> Nat]
BY DEF IInv, TypeOK, CurrentHead

\* A commit is added to the branch.
LEMMA HeadMoves ==
  ASSUME IInv, NEW commit \in [Artifacts -> Nat], commits' = Append(commits, commit)
  PROVE  /\ commits' \in Seq([Artifacts -> Nat]) /\ Len(commits') >= Len(commits)
         /\ commits' # <<>>
         /\ \A i \in 1..Len(commits) : commits'[i] = commits[i]
BY HeadIsCommit

\* An author pushes and completes its card.
LEMMA AuthorCompletesKeeps ==
  ASSUME IInv, AuthorCompletes
  PROVE  IInv'
<1>1. PICK commit : commit = AuthoredCommit
  OBVIOUS
<1>2. commit \in [Artifacts -> Nat]
  <2>1. history \in Seq(CardRecords)
    BY DEF IInv, TypeOK
  <2>2. CurrentHead + 1 \in Nat /\ commits[CurrentHead] \in [Artifacts -> Nat]
    BY HeadIsCommit
  <2>3. \A a \in DOMAIN Baseline(history) : Baseline(history)[a] \in Nat
    BY <2>1, BaselineIsVersion
  <2> QED
    BY <1>1, <2>2, <2>3 DEF AuthoredCommit
<1>3. Working /\ commits' = Append(commits, commit)
      /\ UNCHANGED <<state, draft, checked, pc, faults>>
      /\ Complete("pass", "valid", CurrentHead + 1, Own(commit))
  BY <1>1 DEF AuthorCompletes
<1>4. commits' \in Seq([Artifacts -> Nat]) /\ Len(commits') >= Len(commits)
  BY <1>2, <1>3, HeadMoves
<1>5. CurrentHead + 1 \in Nat /\ Own(commit) \in Nat
  BY <1>2, HeadIsCommit, OwnIsVersion
<1>6. faults' \in 0..MaxFaults
  BY <1>3 DEF IInv, TypeOK
<1> QED
  BY <1>3, <1>4, <1>5, <1>6, CompleteKeeps

\* A reviewer or tester completes its card.
LEMMA GateCompletesKeeps ==
  ASSUME IInv, GateCompletes
  PROVE  IInv'
<1>1. PICK outcome \in {"pass", "fail"} :
        Complete(outcome, "valid", CurrentHead, Own(commits[CurrentHead]))
  BY DEF GateCompletes
<1>2. Working /\ UNCHANGED <<state, commits, draft, checked, pc, faults>>
      /\ Latest.stage[2] # "write"
  BY DEF GateCompletes
<1>3. CurrentHead \in Nat /\ Own(commits[CurrentHead]) \in Nat
  BY HeadIsCommit, OwnIsVersion
<1>4. commits' \in Seq([Artifacts -> Nat]) /\ Len(commits') >= Len(commits)
  BY <1>2, HeadIsCommit
<1>5. faults' \in 0..MaxFaults
  BY <1>2 DEF IInv, TypeOK
<1> QED
  BY <1>1, <1>2, <1>3, <1>4, <1>5, CompleteKeeps

\* Faults are bounded.
LEMMA FaultType ==
  ASSUME IInv, Fault
  PROVE  faults' \in 0..MaxFaults
BY WorkflowAssumption DEF IInv, TypeOK, Fault

\* A worker gives up or delivers what has to be refused.
LEMMA BadCompletionKeeps ==
  ASSUME IInv, BadCompletion
  PROVE  IInv'
<1>1. Working /\ UNCHANGED <<state, commits, draft, checked, pc>> /\ Fault
  BY DEF BadCompletion
<1>2. CurrentHead \in Nat /\ Own(commits[CurrentHead]) \in Nat /\ 0 \in Nat
  BY HeadIsCommit, OwnIsVersion
<1>3. commits' \in Seq([Artifacts -> Nat]) /\ Len(commits') >= Len(commits)
  BY <1>1, HeadIsCommit
<1>4. faults' \in 0..MaxFaults
  BY <1>1, FaultType
<1>5. CASE \E head \in {0, CurrentHead} : Complete("cancelled", "valid", head, 0)
  BY <1>1, <1>2, <1>3, <1>4, <1>5, CompleteKeeps
<1>6. CASE Complete("none", "malformed", 0, 0)
  BY <1>1, <1>2, <1>3, <1>4, <1>6, CompleteKeeps
<1>7. CASE \E outcome \in IF Latest.stage[2] = "write" THEN {"pass"} ELSE {"pass", "fail"} :
             \E artifact \in {0, Own(commits[CurrentHead])} :
               Complete(outcome, "unproven", CurrentHead, artifact)
  <2>1. PICK outcome \in {"pass", "fail"}, artifact \in {0, Own(commits[CurrentHead])} :
          /\ Latest.stage[2] = "write" => outcome # "fail"
          /\ Complete(outcome, "unproven", CurrentHead, artifact)
    BY <1>7
  <2> QED
    BY <1>1, <1>2, <1>3, <1>4, <2>1, CompleteKeeps
<1> QED
  BY <1>5, <1>6, <1>7 DEF BadCompletion

\* A push between two reads: nothing established is about the new head.
LEMMA PushKeeps ==
  ASSUME IInv, Push
  PROVE  IInv'
<1>1. state = "active" /\ UNCHANGED <<state, history, draft, checked, pc>> /\ Fault
  BY DEF Push
<1>2. PICK changed \in SUBSET Artifacts :
        commits' = Append(commits, [a \in Artifacts |->
                     IF a \in changed THEN CurrentHead + 1 ELSE commits[CurrentHead][a]])
  BY DEF Push
<1>3. PICK commit : commit = [a \in Artifacts |->
                      IF a \in changed THEN CurrentHead + 1 ELSE commits[CurrentHead][a]]
  OBVIOUS
<1>4. commit \in [Artifacts -> Nat]
  BY <1>3, HeadIsCommit
<1>5. /\ commits' \in Seq([Artifacts -> Nat]) /\ Len(commits') >= Len(commits)
      /\ commits' # <<>> /\ \A i \in 1..Len(commits) : commits'[i] = commits[i]
  BY <1>2, <1>3, <1>4, HeadMoves
<1>6. TypeOK'
  <2>1. PICK a, b : a = Len(commits) /\ b = Len(commits')
    OBVIOUS
  <2>2. b >= a /\ a \in Nat /\ b \in Nat /\ checked \in 0..a
    BY <1>5, <2>1, HeadIsCommit DEF IInv, TypeOK, CurrentHead
  <2>3. checked' \in 0..b
    BY <1>1, <2>2
  <2>4. faults' \in 0..MaxFaults
    BY <1>1, FaultType
  <2> QED
    BY <1>1, <1>5, <2>1, <2>3, <2>4 DEF IInv, TypeOK, CurrentHead
<1>7. HistoryIsSound(history')
  BY <1>1 DEF IInv
<1>8. PlaceIsTrue'
  <2>1. Latest' = Latest /\ Finishing' = Finishing
    BY <1>1, SameFinish
  <2>2. HandingOver => HandingOver'
    BY <1>1, <1>5, HeadIsCommit, SameHandOver
  <2>3. PlaceIsTrue
    BY DEF IInv
  <2> QED
    BY <1>1, <2>1, <2>2, <2>3 DEF PlaceIsTrue, Parses
<1>9. ReadyIsProved' /\ DeliveryIsFrozen'
  BY <1>1 DEF ReadyIsProved, DeliveryIsFrozen, TerminalStates
<1> QED
  BY <1>6, <1>7, <1>8, <1>9 DEF IInv

\* A crash forgets where the reconcile was; the history has what it needs.
LEMMA CrashKeeps ==
  ASSUME IInv, Crash
  PROVE  IInv'
<1>1. pc # "idle" /\ pc' = "idle" /\ UNCHANGED <<state, history, commits, draft, checked>>
      /\ Fault
  BY DEF Crash
<1>2. state = "active"
  BY <1>1 DEF IInv, PlaceIsTrue
<1>3. faults' \in 0..MaxFaults
  BY <1>1, FaultType
<1>4. TypeOK'
  BY <1>1, <1>3 DEF IInv, TypeOK, CurrentHead
<1>5. HistoryIsSound(history')
  BY <1>1 DEF IInv
<1> QED
  BY <1>1, <1>2, <1>4, <1>5, IdleIsEnough DEF TerminalStates

\* A recovery starts the reconcile over.
LEMMA RecoverKeeps ==
  ASSUME IInv, Recover
  PROVE  IInv'
<1>1. state = "exception" /\ state' = "active" /\ Fault
      /\ UNCHANGED <<history, commits, draft, checked, pc>>
  BY DEF Recover
<1>2. pc' = "idle"
  BY <1>1 DEF IInv, PlaceIsTrue
<1>3. faults' \in 0..MaxFaults
  BY <1>1, FaultType
<1>4. TypeOK'
  BY <1>1, <1>3 DEF IInv, TypeOK, CurrentHead
<1>5. HistoryIsSound(history')
  BY <1>1 DEF IInv
<1> QED
  BY <1>1, <1>2, <1>4, <1>5, IdleIsEnough DEF TerminalStates

\* The first card.
LEMMA InitIInv == Init => IInv
<1> SUFFICES ASSUME Init PROVE IInv
  OBVIOUS
<1>1. PICK d : d = NewCard(SEQUENCE[1], "normal", NoContext)
  OBVIOUS
<1>2. Phases \in Nat /\ DOMAIN Documents = 1..Phases /\ Len(Documents) = Phases
  BY SequenceElements DEF Phases
<1>3. SEQUENCE[1] \in Stages /\ Position(SEQUENCE[1]) = 1 /\ SEQUENCE[1] # CODE_REVIEW
      /\ (SEQUENCE[1] = IMPLEMENT => Phases = 0)
  <2>1. CASE Phases = 0
    <3>1. SEQUENCE[1] = IMPLEMENT
      <4>1. 2 * Phases + 1 = 1
        BY <2>1
      <4> QED
        BY <1>2, <4>1, SequenceElements
    <3> QED
      BY <2>1, <3>1, GateStages, CodeStages, Positions
  <2>2. CASE Phases # 0
    <3>1. 1 \in 1..Phases /\ 2 * 1 - 1 = 1
      BY <1>2, <2>2
    <3>2. SEQUENCE[1] = Write(1)
      BY <1>2, <3>1, SequenceElements DEF Write
    <3>3. Position(Write(1)) = 1
      BY <3>1, Positions
    <3>4. Write(1) \in Stages /\ Write(1) # CODE_REVIEW /\ Write(1) # IMPLEMENT
      BY <3>1, DocumentStages, GateStages
    <3> QED
      BY <3>2, <3>3, <3>4
  <2> QED
    BY <2>1, <2>2
<1>4. NoContext \in Contexts
  BY DEF NoContext, Contexts
<1>5. /\ d \in CardRecords /\ d.stage = SEQUENCE[1] /\ d.mode = "normal"
      /\ d.outcome = "none" /\ d.metadata = "none" /\ d.verdict = "none"
  BY <1>1, <1>3, <1>4, NewCards
<1>6. /\ history = <<d>> /\ history \in Seq(CardRecords) /\ history # <<>>
      /\ Len(history) = 1 /\ DOMAIN history = 1..1 /\ history[1] = d
  BY <1>1, <1>5 DEF Init
<1>7. Last(history) = d /\ \A i \in 1..1 : i = 1
  BY <1>6 DEF Last
<1>8. TypeOK
  <2>1. commits \in Seq([Artifacts -> Nat]) /\ commits # <<>> /\ Len(commits) = 1
    BY DEF Init
  <2>2. checked \in 0..CurrentHead
    BY <2>1 DEF Init, CurrentHead
  <2> QED
    BY <1>6, <2>1, <2>2, WorkflowAssumption DEF Init, TypeOK
<1>9. HistoryIsSound(history)
  <2>1. CardsAreSound(history)
    <3>1. SoundCard(d)
      BY <1>5 DEF SoundCard, Parses
    <3> QED
      BY <1>6, <1>7, <3>1 DEF CardsAreSound
  <2>2. ReviewIsTested(history)
    BY <1>3, <1>5, <1>7 DEF ReviewIsTested
  <2>3. PhasesAreEarned(history)
    <3>1. \A i \in 1..Phases : ~(1 > 2 * i)
      BY <1>2
    <3> QED
      BY <1>2, <1>3, <1>5, <1>7, <3>1 DEF PhasesAreEarned
  <2>4. FinalizationsAreOpen(history)
    BY <1>5, <1>6, <1>7 DEF FinalizationsAreOpen
  <2>5. DocumentsComeFirst(history)
    <3>1. 1 <= 2 * Phases => Phases # 0
      BY <1>2
    <3> QED
      BY <1>2, <1>3, <1>5, <1>6, <1>7, <3>1 DEF DocumentsComeFirst
  <2>6. BudgetIsHeld(history)
    <3>1. {i \in 1..(1 - 1) : Spends(history[i])} = {}
      OBVIOUS
    <3>2. Spent(history, 1 - 1) = 0
      BY <3>1, FS_EmptySet DEF Spent
    <3>3. Restored(history, 1) \in Nat
      BY BudgetCounts
    <3>4. ModificationLimit \in Nat
      BY WorkflowAssumption
    <3> QED
      BY <1>6, <1>7, <3>2, <3>3, <3>4 DEF BudgetIsHeld
  <2> QED
    BY <2>1, <2>2, <2>3, <2>4, <2>5, <2>6 DEF HistoryIsSound
<1>10. PlaceIsTrue
  BY DEF Init, PlaceIsTrue
<1>11. ReadyIsProved /\ DeliveryIsFrozen
  BY DEF Init, ReadyIsProved, DeliveryIsFrozen, TerminalStates
<1> QED
  BY <1>8, <1>9, <1>10, <1>11 DEF IInv

\* A step that changes nothing.
LEMMA StutterKeeps ==
  ASSUME IInv, UNCHANGED vars
  PROVE  IInv'
<1>1. UNCHANGED <<state, history, commits, draft, checked, pc, faults>>
  BY DEF vars
<1>2. TypeOK' /\ HistoryIsSound(history')
  BY <1>1 DEF IInv, TypeOK, CurrentHead
<1>3. Latest' = Latest /\ Finishing' = Finishing
  BY <1>1, SameFinish
<1>4. HandingOver => HandingOver'
  BY <1>1, <1>3 DEF HandingOver, CurrentHead, FrozenViolation
<1>5. PlaceIsTrue'
  BY <1>1, <1>3, <1>4 DEF IInv, PlaceIsTrue, Parses
<1>6. ReadyIsProved'
  BY <1>1, <1>3 DEF IInv, ReadyIsProved
<1>7. DeliveryIsFrozen'
  BY <1>1 DEF IInv, DeliveryIsFrozen
<1> QED
  BY <1>2, <1>5, <1>6, <1>7 DEF IInv

\* Every step keeps the invariant.
LEMMA NextIInv == IInv /\ [Next]_vars => IInv'
<1> SUFFICES ASSUME IInv, [Next]_vars PROVE IInv'
  OBVIOUS
<1>1. CASE ReconcileStep
  BY <1>1, ValidateCompletionKeeps, ValidateGateKeeps, CheckFrozenKeeps,
     RouteCancelledKeeps, RouteUnpairedKeeps, RouteKeeps, FinalizeCodeFlowKeeps,
     MarkReadyKeeps, MarkFlowCompletedKeeps DEF ReconcileStep
<1>2. CASE WorkerStep
  BY <1>2, AuthorCompletesKeeps, GateCompletesKeeps DEF WorkerStep
<1>3. CASE BadCompletion \/ Push \/ Crash \/ Recover
  BY <1>3, BadCompletionKeeps, PushKeeps, CrashKeeps, RecoverKeeps
<1>4. CASE UNCHANGED vars
  BY <1>4, StutterKeeps
<1> QED
  BY <1>1, <1>2, <1>3, <1>4 DEF Next

\* The invariant holds in every reachable state.
LEMMA Invariance == Spec => []IInv
<1>1. Init => IInv
  BY InitIInv
<1>2. IInv /\ [Next]_vars => IInv'
  BY NextIInv
<1> QED
  BY <1>1, <1>2, PTL DEF Spec

-----------------------------------------------------------------------------
(* Theorems *)

\* The cards, the head of the merge request and the recorded evidence are well
\* formed, whatever workers deliver and whatever is pushed.
THEOREM TypeCorrect == Spec => []TypeOK
<1>1. IInv => TypeOK
  BY DEF IInv
<1> QED
  BY <1>1, Invariance, PTL

\* mark_flow_completed hands over as ready only the head an accepted review and
\* an accepted, passed test were made on, with no implementation in between;
\* for any number of document phases and any pushes between the reads of GitLab.
THEOREM ReadyDeliveriesAreProved == Spec => []ReadyIsProved
<1>1. IInv => ReadyIsProved
  BY DEF IInv
<1> QED
  BY <1>1, Invariance, PTL

\* What is delivered agrees with the PRD and with every frozen document, though
\* _frozen_violation was evaluated some reads of GitLab before.
THEOREM DeliveriesAreFrozen == Spec => []DeliveryIsFrozen
<1>1. IInv => DeliveryIsFrozen
  BY DEF IInv
<1> QED
  BY <1>1, Invariance, PTL

\* No phase begins before each earlier document was accepted by a review that
\* passed or by a finalization.
THEOREM PhasesComeInOrder == Spec => []PhasesAreAccepted
<1>1. IInv => PhasesAreAccepted
  <2> SUFFICES ASSUME IInv, NEW p \in DOMAIN Documents, Position(Latest.stage) > 2 * p
               PROVE  \E c \in Range(history) :
                        FreezesPhase(c, Documents[p]) /\ c.verdict = "accepted"
    BY DEF PhasesAreAccepted
  <2>1. history \in Seq(CardRecords) /\ Len(history) \in Nat
    BY DEF IInv, TypeOK
  <2>2. PICK k \in 1..(Len(history) - 1) : Earns(history[k], Documents[p])
    BY DEF IInv, HistoryIsSound, PhasesAreEarned, Latest
  <2>3. k \in DOMAIN history
    BY <2>1
  <2>4. history[k] \in Range(history)
    BY <2>3 DEF Range
  <2> QED
    BY <2>2, <2>4 DEF Earns
<1> QED
  BY <1>1, Invariance, PTL

\* Each finalization, its retries and repairs included, is derived from the
\* failed review that reached the limit, and its document is not reviewed again.
THEOREM FinalizationsAreLast == Spec => []FinalizationIsLast
<1>1. IInv => FinalizationIsLast
  <2> SUFFICES ASSUME IInv, NEW i \in DOMAIN history, history[i].mode = "finalization"
               PROVE  /\ FinalizationContext(history[i])
                      /\ \A j \in i..Len(history) :
                           history[j].stage # NextStage(history[i].stage)
    BY DEF FinalizationIsLast
  <2>1. OpenFinalization(history, i)
    BY DEF IInv, HistoryIsSound, FinalizationsAreOpen
  <2>2. FinalizationContext(history[i])
    BY <2>1 DEF OpenFinalization, Derived, FinalizationContext
  <2> QED
    BY <2>1, <2>2 DEF OpenFinalization
<1> QED
  BY <1>1, Invariance, PTL

\* The code is modified at most ModificationLimit times, not counting the
\* restoration of frozen documents, though the count is recomputed from the
\* cards and rejected implementations are issued again.
THEOREM BudgetsAreKept == Spec => []BudgetIsKept
<1>1. IInv => BudgetIsKept
  <2> SUFFICES ASSUME IInv PROVE BudgetIsKept
    OBVIOUS
  <2>1. PICK n : n = Len(history)
    OBVIOUS
  <2>2. n \in Nat /\ n # 0 /\ DOMAIN history = 1..n
    BY <2>1 DEF IInv, TypeOK
  <2>3. PICK a, b, r : a = Spent(history, n) /\ b = Spent(history, n - 1)
                       /\ r = Restored(history, n)
    OBVIOUS
  <2>4. a \in Nat /\ b \in Nat /\ r \in Nat
        /\ a = b + (IF Spends(history[n]) THEN 1 ELSE 0)
    BY <2>2, <2>3, BudgetCounts
  <2>5. b + (IF history[n].stage = IMPLEMENT THEN 1 ELSE 0) <= 1 + ModificationLimit + r
    BY <2>1, <2>3 DEF IInv, HistoryIsSound, BudgetIsHeld, Last
  <2>6. Spends(history[n]) => history[n].stage = IMPLEMENT
    BY DEF Spends
  <2>7. ModificationLimit \in Nat
    BY WorkflowAssumption
  <2>8. a <= 1 + ModificationLimit + r
    BY <2>4, <2>5, <2>6, <2>7
  <2>9. CodeModifications(history) = IF a = 0 THEN 0 ELSE a - 1
    BY <2>2, <2>3 DEF CodeModifications, Count, Spent, Spends
  <2>10. CodeModifications(history) <= ModificationLimit + r
    BY <2>4, <2>7, <2>8, <2>9
  <2>11. r = Cardinality({i \in DOMAIN history : /\ history[i].stage = IMPLEMENT
                            /\ history[i].context.kind = "frozen_artifact"})
    BY <2>2, <2>3 DEF Restored, Restores
  <2> QED
    BY <2>10, <2>11 DEF BudgetIsKept, Count
<1> QED
  BY <1>1, Invariance, PTL
=============================================================================
