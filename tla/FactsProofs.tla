----------------------------- MODULE FactsProofs -----------------------------
(***************************************************************************)
(* Theorems about Facts, for every number of cores, plans, orders,         *)
(* requests, events and results.                                           *)
(*                                                                         *)
(* The properties of each component follow from an inductive invariant of  *)
(* that component alone, ExecutionInv, OrderInv and so on; a step of one   *)
(* component leaves the variables of the others as they are.               *)
(***************************************************************************)
EXTENDS Facts, SumTheorems, SequenceTheorems

-----------------------------------------------------------------------------
(* Execution facts *)

Evaluating(c) == executionTx[c] # None /\ executionTx[c].op = "evaluate"

\* The row lock: no two open evaluations are of one plan.
OneEvaluation ==
    \A c, d \in Cores :
        Evaluating(c) /\ Evaluating(d) /\ executionTx[c].plan = executionTx[d].plan => c = d

\* A plan with a row has limits it was initialised with; without a row there is
\* nothing to say of it.
RowsHaveLimits ==
    \A p \in Plans : IF p \in planned THEN limits[p] \in Limits
                     ELSE limits[p] = None /\ executionFact[p] = Execution!NewFact

\* w is what an evaluation on a row f with limits l decides to write.
Decided(w, l, f) ==
    \E e \in Evaluations :
        /\ Execution!Acceptable(f, e)
        /\ w.row = Execution!NextFact(l, f, e)
        /\ w.event = [plan |-> w.plan, version |-> f.version + 1, leg_a |-> e.leg_a,
                      leg_b |-> e.leg_b, decision |-> Execution!Decide(l, f, e),
                      cost |-> Execution!Mismatch(e) * e.cost_per_unit]

\* What an open evaluation will write is what the row it has locked gives now.
EvaluationHeld ==
    \A c \in Cores : Evaluating(c) =>
        LET p == executionTx[c].plan
        IN  /\ p \in planned
            /\ executionFact[p].version < ExecutionVersions
            /\ Decided(executionTx[c], limits[p], executionFact[p])

ExecutionInv ==
    /\ Execution!TypeOK
    /\ OneEvaluation
    /\ RowsHaveLimits
    /\ EvaluationHeld
    /\ IsFiniteSet(events)
    /\ Execution!LimitsAgreed
    /\ Execution!PlannedWithinLimits
    /\ Execution!SpentIsSumOfDecisions
    /\ Execution!CompletedIsMatched
    /\ Execution!EventsExplainFact

LEMMA ProductIsNatural == ASSUME NEW m \in Nat, NEW n \in Nat PROVE m * n \in Nat
OBVIOUS

\* The sums of the component are the sums the theorems are about.
LEMMA ExecutionSum ==
    ASSUME NEW f, NEW S PROVE Execution!SumOver(f, S) = SumOver(f, S)
BY DEF Execution!SumOver, SumOver, Execution!MapThenFoldSet, MapThenFoldSet

\* Initially no plan has a row.
LEMMA ExecutionInit == Execution!Init => ExecutionInv
<1> SUFFICES ASSUME Execution!Init PROVE ExecutionInv
  OBVIOUS
<1> USE DEF Execution!Init
<1>1. \A p \in Plans : executionFact[p] = Execution!NewFact /\ Execution!EventsOf(p) = {}
  BY DEF Execution!EventsOf
<1>2. Execution!NewFact \in Execution!FactType
  BY FactsAssumption DEF Execution!ExecutionAssumption, Execution!NewFact,
     Execution!FactType, Execution!ExecutionState
<1>3. Execution!TypeOK
  BY <1>2 DEF Execution!TypeOK
<1>4. OneEvaluation /\ RowsHaveLimits /\ EvaluationHeld
  BY DEF OneEvaluation, RowsHaveLimits, EvaluationHeld, Evaluating
<1>5. IsFiniteSet(events)
  BY FS_EmptySet
<1>6. Execution!LimitsAgreed /\ Execution!PlannedWithinLimits /\ Execution!CompletedIsMatched
  BY DEF Execution!LimitsAgreed, Execution!PlannedWithinLimits, Execution!CompletedIsMatched
<1>7. Execution!SpentIsSumOfDecisions
  BY <1>1, SumEmpty, ExecutionSum DEF Execution!SpentIsSumOfDecisions, Execution!NewFact
<1>8. Execution!EventsExplainFact
  BY <1>1 DEF Execution!EventsExplainFact, Execution!NewFact
<1> QED BY <1>3, <1>4, <1>5, <1>6, <1>7, <1>8 DEF ExecutionInv

\* A step that leaves the rows and the events alone keeps what is said of them.
LEMMA ExecutionRowsKept ==
    ASSUME ExecutionInv, UNCHANGED <<planned, limits, executionFact, events>>
    PROVE  /\ RowsHaveLimits' /\ IsFiniteSet(events)'
           /\ Execution!PlannedWithinLimits' /\ Execution!SpentIsSumOfDecisions'
           /\ Execution!CompletedIsMatched' /\ Execution!EventsExplainFact'
BY DEF ExecutionInv, RowsHaveLimits, Execution!PlannedWithinLimits,
   Execution!SpentIsSumOfDecisions, Execution!CompletedIsMatched,
   Execution!EventsExplainFact, Execution!EventsOf

LEMMA InitializePlanInv ==
    ASSUME ExecutionInv, NEW c \in Cores, NEW p \in Plans, NEW l \in Limits,
           Execution!InitializePlan(c, p, l)
    PROVE  ExecutionInv'
<1> USE DEF Execution!InitializePlan, Execution!InsertFact, ExecutionInv
<1>1. Execution!TypeOK'
  BY DEF Execution!TypeOK
<1>2. OneEvaluation'
  BY DEF OneEvaluation, Evaluating, Execution!TypeOK
<1>3. RowsHaveLimits'
  BY DEF RowsHaveLimits, Execution!TypeOK
<1>4. EvaluationHeld'
  <2> SUFFICES ASSUME NEW d \in Cores, Evaluating(d)'
               PROVE  /\ Evaluating(d) /\ executionTx'[d] = executionTx[d]
                      /\ executionTx[d].plan \in planned
                      /\ limits'[executionTx[d].plan] = limits[executionTx[d].plan]
    BY DEF EvaluationHeld
  <2>1. Evaluating(d) /\ executionTx'[d] = executionTx[d]
    BY DEF Evaluating, Execution!TypeOK
  <2> QED BY <2>1 DEF EvaluationHeld, Execution!TypeOK
<1>5. Execution!LimitsAgreed'
  BY DEF Execution!LimitsAgreed, Execution!TypeOK
<1>6. Execution!PlannedWithinLimits' /\ Execution!CompletedIsMatched'
  <2>1. p \notin planned => executionFact[p] = Execution!NewFact /\ l.budget \in Nat
                            /\ limits'[p] = l
    BY FactsAssumption DEF RowsHaveLimits, Execution!TypeOK, Execution!ExecutionAssumption,
       Execution!LimitsType
  <2>2. \A q \in planned : limits'[q] = limits[q]
    BY DEF Execution!TypeOK
  <2> QED BY <2>1, <2>2 DEF Execution!PlannedWithinLimits, Execution!CompletedIsMatched,
             Execution!NewFact
<1>7. Execution!SpentIsSumOfDecisions' /\ Execution!EventsExplainFact' /\ IsFiniteSet(events)'
  BY DEF Execution!SpentIsSumOfDecisions, Execution!EventsExplainFact, Execution!EventsOf
<1> QED BY <1>1, <1>2, <1>3, <1>4, <1>5, <1>6, <1>7

\* The end of a call that writes nothing but what was agreed.
LEMMA ExecutionCallEnds ==
    ASSUME ExecutionInv, NEW c \in Cores, executionTx' = [executionTx EXCEPT ![c] = None],
           UNCHANGED <<planned, limits, executionFact, events>>,
           \/ UNCHANGED agreed
           \/ Execution!CompareLimits(c)
    PROVE  ExecutionInv'
<1> USE DEF ExecutionInv
<1>1. Execution!TypeOK'
  BY DEF Execution!TypeOK, Execution!CompareLimits
<1>2. \A d \in Cores : Evaluating(d)' => Evaluating(d) /\ executionTx'[d] = executionTx[d]
  BY DEF Evaluating, Execution!TypeOK
<1>3. OneEvaluation'
  BY <1>2 DEF OneEvaluation
<1>4. EvaluationHeld'
  BY <1>2 DEF EvaluationHeld
<1>5. Execution!LimitsAgreed'
  <2>1. CASE UNCHANGED agreed
    BY <2>1 DEF Execution!LimitsAgreed
  <2>2. CASE Execution!CompareLimits(c)
    <3>1. executionTx[c].plan \in Plans /\ executionTx[c].limits \in Limits
      BY <2>2 DEF Execution!TypeOK, Execution!CompareLimits
    <3>2. limits[executionTx[c].plan] = executionTx[c].limits => executionTx[c].plan \in planned
      BY <3>1, FactsAssumption DEF RowsHaveLimits, Execution!ExecutionAssumption
    <3> QED BY <2>2, <3>1, <3>2 DEF Execution!LimitsAgreed, Execution!CompareLimits
  <2> QED BY <2>1, <2>2
<1> QED BY <1>1, <1>3, <1>4, <1>5, ExecutionRowsKept

\* Evaluations are given naturals, and what they decide is of its type.
LEMMA DecidedType ==
    ASSUME NEW e \in Evaluations, NEW p \in Plans, NEW l, NEW f \in Execution!FactType,
           f.version < ExecutionVersions
    PROVE  /\ e.leg_a \in Nat /\ e.leg_b \in Nat
           /\ Execution!Mismatch(e) \in Nat
           /\ Execution!Mismatch(e) * e.exposure_per_unit \in Nat
           /\ Execution!Mismatch(e) * e.cost_per_unit \in Nat
           /\ Execution!Decide(l, f, e) \in Execution!CompensationDecision
           /\ Execution!NextFact(l, f, e) \in Execution!FactType
           /\ [plan |-> p, version |-> f.version + 1, leg_a |-> e.leg_a, leg_b |-> e.leg_b,
               decision |-> Execution!Decide(l, f, e),
               cost |-> Execution!Mismatch(e) * e.cost_per_unit] \in Execution!EventType
<1>1. /\ e.leg_a \in Nat /\ e.leg_b \in Nat
      /\ e.exposure_per_unit \in Nat /\ e.cost_per_unit \in Nat
  BY FactsAssumption DEF Execution!ExecutionAssumption, Execution!EvaluationType
<1>2. Execution!Mismatch(e) \in Nat
  BY <1>1 DEF Execution!Mismatch
<1>3. /\ Execution!Mismatch(e) * e.exposure_per_unit \in Nat
      /\ Execution!Mismatch(e) * e.cost_per_unit \in Nat
  BY <1>1, <1>2, ProductIsNatural
<1>4. Execution!Decide(l, f, e) \in Execution!CompensationDecision
  BY DEF Execution!Decide, Execution!CompensationDecision
<1>5. f.version + 1 \in 1 .. ExecutionVersions
  BY FactsAssumption DEF Execution!FactType, Execution!ExecutionAssumption
<1> DEFINE cost == Execution!Mismatch(e) * e.cost_per_unit
           exposure == Execution!Mismatch(e) * e.exposure_per_unit
<1>6. f.spent + cost \in Nat
  BY <1>3 DEF Execution!FactType
<1>7. Execution!StateAfter[Execution!Decide(l, f, e)] \in Execution!ExecutionState
  BY <1>4 DEF Execution!StateAfter, Execution!CompensationDecision, Execution!ExecutionState
<1> HIDE DEF cost, exposure
<1>8. Execution!NextFact(l, f, e) \in Execution!FactType
  BY <1>1, <1>2, <1>3, <1>5, <1>6, <1>7
     DEF Execution!NextFact, Execution!FactType, cost, exposure
<1>9. [plan |-> p, version |-> f.version + 1, leg_a |-> e.leg_a, leg_b |-> e.leg_b,
       decision |-> Execution!Decide(l, f, e), cost |-> cost] \in Execution!EventType
  BY <1>1, <1>3, <1>4, <1>5 DEF Execution!EventType, cost
<1> QED BY <1>1, <1>2, <1>3, <1>4, <1>8, <1>9 DEF cost

LEMMA EvaluateInv ==
    ASSUME ExecutionInv, NEW c \in Cores, NEW p \in Plans, NEW e \in Evaluations,
           Execution!Evaluate(c, p, e)
    PROVE  ExecutionInv'
<1> USE DEF ExecutionInv
<1> DEFINE w == [op |-> "evaluate", plan |-> p,
                 row |-> Execution!NextFact(limits[p], executionFact[p], e),
                 event |-> Execution!NextEvent(p, e)]
<1>1. /\ executionTx' = [executionTx EXCEPT ![c] = w]
      /\ UNCHANGED <<planned, limits, executionFact, events, agreed>>
      /\ p \in planned /\ Execution!RowLockFree(p)
      /\ executionFact[p].version < ExecutionVersions
      /\ Execution!Acceptable(executionFact[p], e)
  BY DEF Execution!Evaluate
<1>2. executionFact[p] \in Execution!FactType
  BY DEF Execution!TypeOK
<1>3. w \in [op : {"evaluate"}, plan : Plans, row : Execution!FactType,
              event : Execution!EventType]
  BY <1>1, <1>2, DecidedType DEF Execution!NextEvent
<1>4. w.op = "evaluate" /\ w.plan = p /\ Decided(w, limits[p], executionFact[p])
  BY <1>1 DEF Decided, Execution!NextEvent
<1> HIDE DEF w
<1>5. \A d \in Cores : executionTx'[d] = IF d = c THEN w ELSE executionTx[d]
  BY <1>1 DEF Execution!TypeOK
<1>6. Execution!TypeOK'
  BY <1>1, <1>3 DEF Execution!TypeOK
<1>7. OneEvaluation'
  BY <1>1, <1>4, <1>5 DEF OneEvaluation, Evaluating, Execution!RowLockFree
<1>8. EvaluationHeld'
  BY <1>1, <1>4, <1>5 DEF EvaluationHeld, Evaluating
<1>9. Execution!LimitsAgreed'
  BY <1>1 DEF Execution!LimitsAgreed
<1> QED BY <1>1, <1>6, <1>7, <1>8, <1>9, ExecutionRowsKept

\* The last event of a plan is as far as its fills have come.
LEMMA LastEvent ==
    ASSUME ExecutionInv, NEW p \in Plans, NEW e \in Execution!EventsOf(p)
    PROVE  /\ e.version \in 1 .. executionFact[p].version
           /\ e.leg_a <= executionFact[p].leg_a
           /\ e.leg_b <= executionFact[p].leg_b
           /\ executionFact[p].state \notin Execution!Terminal =>
                 e.decision = "COMPENSATION_PLANNED"
<1> DEFINE v == executionFact[p].version
<1> USE DEF ExecutionInv
<1>1. e \in Execution!EventType
  BY DEF Execution!TypeOK, Execution!EventsOf
<1>2. e.version \in 1 .. v
  BY DEF Execution!EventsExplainFact
<1>3. v \in Nat /\ v \in 1 .. v
  BY <1>2, FactsAssumption DEF Execution!TypeOK, Execution!FactType, Execution!ExecutionAssumption
<1>4. PICK l \in Execution!EventsOf(p) : l.version = v
  BY <1>3 DEF Execution!EventsExplainFact
<1>5. /\ executionFact[p].state = Execution!StateAfter[l.decision]
      /\ executionFact[p].leg_a = l.leg_a /\ executionFact[p].leg_b = l.leg_b
  BY <1>4 DEF Execution!EventsExplainFact
<1>6. l \in Execution!EventType
  BY DEF Execution!TypeOK, Execution!EventsOf
<1>7. CASE e.version = v
  <2>1. /\ executionFact[p].state = Execution!StateAfter[e.decision]
        /\ executionFact[p].leg_a = e.leg_a /\ executionFact[p].leg_b = e.leg_b
    BY <1>7 DEF Execution!EventsExplainFact
  <2> QED BY <1>1, <1>2, <2>1 DEF Execution!EventType, Execution!StateAfter, Execution!Terminal,
             Execution!CompensationDecision
<1>8. CASE e.version # v
  <2>1. e.version < l.version
    BY <1>2, <1>3, <1>4, <1>8
  <2> QED BY <1>2, <1>4, <1>5, <2>1 DEF Execution!EventsExplainFact
<1> QED BY <1>7, <1>8

\* Sums of one more element.
LEMMA SumGrows ==
    ASSUME NEW f, NEW S, NEW x, IsFiniteSet(S), x \notin S,
           \A y \in S \cup {x} : f[y] \in Int,
           NEW g, \A y \in S : g[y] = f[y]
    PROVE  SumOver(f, S \cup {x}) = SumOver(g, S) + f[x]
BY SumAdd, SumSame

LEMMA ExecutionCommitInv ==
    ASSUME ExecutionInv, NEW c \in Cores, Execution!Commit(c)
    PROVE  ExecutionInv'
<1> DEFINE w == executionTx[c]
           p == w.plan
           f == executionFact[p]
           l == limits[p]
<1>1. /\ Evaluating(c)
      /\ \A e \in Execution!EventsOf(p) : e.version # w.event.version
      /\ executionFact' = [executionFact EXCEPT ![p] = w.row]
      /\ events' = events \cup {w.event}
      /\ executionTx' = [executionTx EXCEPT ![c] = None]
      /\ UNCHANGED <<planned, limits, agreed>>
  BY DEF Execution!Commit, Evaluating
<1> USE DEF ExecutionInv
<1>2. /\ p \in Plans /\ p \in planned /\ f.version < ExecutionVersions
      /\ Decided(w, l, f) /\ l \in Limits /\ f \in Execution!FactType
      /\ w.row \in Execution!FactType /\ w.event \in Execution!EventType
  BY <1>1 DEF EvaluationHeld, RowsHaveLimits, Evaluating, Execution!TypeOK
<1>3. PICK e \in Evaluations :
        /\ Execution!Acceptable(f, e)
        /\ w.row = Execution!NextFact(l, f, e)
        /\ w.event = [plan |-> p, version |-> f.version + 1, leg_a |-> e.leg_a,
                      leg_b |-> e.leg_b, decision |-> Execution!Decide(l, f, e),
                      cost |-> Execution!Mismatch(e) * e.cost_per_unit]
  BY <1>2 DEF Decided
<1> DEFINE m == Execution!Mismatch(e)
           cost == m * e.cost_per_unit
           exposure == m * e.exposure_per_unit
           d == Execution!Decide(l, f, e)
<1>4. /\ e.leg_a \in Nat /\ e.leg_b \in Nat /\ m \in Nat /\ cost \in Nat /\ exposure \in Nat
      /\ e.cost_per_unit \in Nat
      /\ l.budget \in Nat /\ l.max_exposure \in Nat /\ l.target \in Nat
      /\ f.version \in Nat /\ f.spent \in Nat
  <2>1. /\ e.leg_a \in Nat /\ e.leg_b \in Nat /\ m \in Nat /\ cost \in Nat /\ exposure \in Nat
    BY <1>2, DecidedType
  <2>2. l.budget \in Nat /\ l.max_exposure \in Nat /\ l.target \in Nat
    BY <1>2, FactsAssumption DEF Execution!ExecutionAssumption, Execution!LimitsType
  <2>3. e.cost_per_unit \in Nat
    BY FactsAssumption DEF Execution!ExecutionAssumption, Execution!EvaluationType
  <2>4. f.version \in Nat /\ f.spent \in Nat
    BY <1>2, FactsAssumption DEF Execution!ExecutionAssumption, Execution!FactType
  <2> QED BY <2>1, <2>2, <2>3, <2>4
<1>5. /\ d \in Execution!CompensationDecision
      /\ d # "MANUAL_REQUIRED" => /\ e.leg_a <= l.target /\ e.leg_b <= l.target
                                  /\ m = 0 \/ (exposure <= l.max_exposure
                                               /\ f.spent + cost <= l.budget)
      /\ d = "NO_ACTION" <=> m = 0 /\ d # "MANUAL_REQUIRED"
  BY <1>2, <1>4, DecidedType
     DEF Execution!Decide, Execution!Overfilled, Execution!OverLimits,
         Execution!CompensationDecision
<1>6. m = 0 => cost = 0 /\ e.leg_a = e.leg_b
  BY <1>4 DEF Execution!Mismatch
<1>7. /\ w.row.state = Execution!StateAfter[d] /\ w.row.leg_a = e.leg_a
      /\ w.row.leg_b = e.leg_b /\ w.row.unmatched = m /\ w.row.exposure = exposure
      /\ w.row.spent = f.spent + cost /\ w.row.version = f.version + 1
  BY <1>3 DEF Execution!NextFact
<1>8. /\ w.event.plan = p /\ w.event.version = f.version + 1 /\ w.event.leg_a = e.leg_a
      /\ w.event.leg_b = e.leg_b /\ w.event.decision = d /\ w.event.cost = cost
  BY <1>3
<1>9. f.state \notin Execution!Terminal /\ e.leg_a >= f.leg_a /\ e.leg_b >= f.leg_b
  BY <1>3 DEF Execution!Acceptable
<1> HIDE DEF m, cost, exposure, d
<1>10. \A q \in Plans : executionFact'[q] = IF q = p THEN w.row ELSE executionFact[q]
  BY <1>1, <1>2 DEF Execution!TypeOK
<1>11. \A q \in Plans : Execution!EventsOf(q)' = IF q = p
                        THEN Execution!EventsOf(q) \cup {w.event} ELSE Execution!EventsOf(q)
  BY <1>1, <1>8 DEF Execution!EventsOf
<1>12. \A k \in Cores : /\ executionTx'[k] = IF k = c THEN None ELSE executionTx[k]
                        /\ Evaluating(k)' => k # c /\ Evaluating(k) /\ executionTx[k].plan # p
  BY <1>1, <1>2 DEF Evaluating, OneEvaluation, Execution!TypeOK
<1>13. Execution!TypeOK'
  BY <1>1, <1>2 DEF Execution!TypeOK
<1>14. OneEvaluation'
  BY <1>12 DEF OneEvaluation
<1>15. RowsHaveLimits'
  BY <1>1, <1>2, <1>10 DEF RowsHaveLimits
<1>16. EvaluationHeld'
  <2> SUFFICES ASSUME NEW k \in Cores, Evaluating(k)'
               PROVE  LET q == executionTx[k].plan
                      IN  q \in Plans /\ executionTx'[k] = executionTx[k]
                          /\ Evaluating(k) /\ executionFact'[q] = executionFact[q]
    BY <1>1 DEF EvaluationHeld
  <2> QED BY <1>10, <1>12 DEF Evaluating, Execution!TypeOK
<1>17. IsFiniteSet(events)' /\ Execution!LimitsAgreed'
  BY <1>1, FS_AddElement DEF Execution!LimitsAgreed
<1>18. Execution!PlannedWithinLimits'
  <2>1. f.state # "MANUAL_REQUIRED"
    BY <1>9 DEF Execution!Terminal
  <2>2. f.spent <= l.budget
    BY <1>2, <2>1 DEF Execution!PlannedWithinLimits
  <2>3. w.row.state # "MANUAL_REQUIRED" => d # "MANUAL_REQUIRED"
    BY <1>7 DEF Execution!StateAfter
  <2>4. w.row.state # "MANUAL_REQUIRED" => w.row.spent <= l.budget
    BY <1>4, <1>5, <1>6, <1>7, <2>2, <2>3
  <2>5. w.row.state = "COMPENSATION_PLANNED" => d = "COMPENSATION_PLANNED"
    BY <1>5, <1>7 DEF Execution!StateAfter, Execution!CompensationDecision
  <2>6. w.row.state = "COMPENSATION_PLANNED" =>
           w.row.exposure <= l.max_exposure /\ w.row.unmatched > 0
    BY <1>4, <1>5, <1>7, <2>5
  <2> QED BY <1>1, <1>10, <2>4, <2>6 DEF Execution!PlannedWithinLimits, Execution!TypeOK
<1>19. Execution!CompletedIsMatched'
  <2>1. w.row.state = "COMPLETED" => d = "NO_ACTION"
    BY <1>5, <1>7 DEF Execution!StateAfter, Execution!CompensationDecision
  <2>2. w.row.state = "COMPLETED" => w.row.leg_a = w.row.leg_b /\ w.row.leg_a <= l.target
                                     /\ w.row.unmatched = 0
    BY <1>5, <1>6, <1>7, <2>1
  <2> QED BY <1>1, <1>10, <2>2 DEF Execution!CompletedIsMatched, Execution!TypeOK
<1>20. Execution!SpentIsSumOfDecisions'
  <2> DEFINE S == Execution!EventsOf(p)
             g == [x \in S \cup {w.event} |-> x.cost]
             h == [x \in S |-> x.cost]
  <2>1. w.event \notin S /\ IsFiniteSet(S)
    BY <1>1, FS_Subset DEF Execution!EventsOf
  <2>2. \A x \in S \cup {w.event} : g[x] \in Int
    BY <1>2 DEF Execution!TypeOK, Execution!EventsOf, Execution!EventType
  <2>3. SumOver(g, S \cup {w.event}) = SumOver(h, S) + g[w.event]
    <3>1. \A x \in S : h[x] = g[x]
      OBVIOUS
    <3> HIDE DEF S, g, h
    <3> QED BY <2>1, <2>2, <3>1, SumGrows
  <2>4. f.spent = SumOver(h, S)
    BY <1>2, ExecutionSum DEF Execution!SpentIsSumOfDecisions
  <2>5. w.row.spent = SumOver(g, S \cup {w.event})
    BY <1>7, <1>8, <2>3, <2>4
  <2> HIDE DEF S
  <2>6. SUFFICES ASSUME NEW q \in Plans
                 PROVE  (executionFact[q].spent
                           = Execution!SumOver([x \in Execution!EventsOf(q) |-> x.cost],
                                               Execution!EventsOf(q)))'
    BY DEF Execution!SpentIsSumOfDecisions
  <2>7. CASE q = p
    BY <1>10, <1>11, <2>5, <2>7, ExecutionSum DEF S
  <2>8. CASE q # p
    BY <1>10, <1>11, <2>8, ExecutionSum DEF Execution!SpentIsSumOfDecisions
  <2> QED BY <2>7, <2>8
<1>21. Execution!EventsExplainFact'
  <2> SUFFICES ASSUME NEW q \in Plans
               PROVE  /\ {x.version : x \in Execution!EventsOf(q)'} = 1 .. executionFact'[q].version
                      /\ \A x, y \in Execution!EventsOf(q)' : x.version < y.version =>
                            /\ x.leg_a <= y.leg_a
                            /\ x.leg_b <= y.leg_b
                            /\ x.decision = "COMPENSATION_PLANNED"
                      /\ \A x \in Execution!EventsOf(q)' :
                            x.version = executionFact'[q].version =>
                              /\ executionFact'[q].state = Execution!StateAfter[x.decision]
                              /\ executionFact'[q].leg_a = x.leg_a
                              /\ executionFact'[q].leg_b = x.leg_b
    BY DEF Execution!EventsExplainFact, Execution!EventsOf
  <2>1. CASE q # p
    BY <1>10, <1>11, <2>1 DEF Execution!EventsExplainFact
  <2>2. CASE q = p
    <3>1. \A x \in Execution!EventsOf(p) :
             /\ x.version \in 1 .. f.version /\ x.leg_a <= f.leg_a /\ x.leg_b <= f.leg_b
             /\ x.decision = "COMPENSATION_PLANNED"
             /\ x.leg_a \in Nat /\ x.leg_b \in Nat
      BY <1>2, <1>9, LastEvent DEF Execution!TypeOK, Execution!EventsOf, Execution!EventType
    <3>2. /\ Execution!EventsOf(q)' = Execution!EventsOf(p) \cup {w.event}
          /\ executionFact'[q] = w.row
      BY <1>10, <1>11, <2>2
    <3>3. {x.version : x \in Execution!EventsOf(p)} = 1 .. f.version
      BY <1>2 DEF Execution!EventsExplainFact
    <3>4. {x.version : x \in Execution!EventsOf(q)'} = 1 .. w.row.version
      <4>1. 1 .. w.row.version = 1 .. f.version \cup {f.version + 1}
        BY <1>4, <1>7
      <4> QED BY <1>8, <3>2, <3>3, <4>1
    <3>5. \A x, y \in Execution!EventsOf(q)' : x.version < y.version =>
             x.leg_a <= y.leg_a /\ x.leg_b <= y.leg_b /\ x.decision = "COMPENSATION_PLANNED"
      <4> SUFFICES ASSUME NEW x \in Execution!EventsOf(q)', NEW y \in Execution!EventsOf(q)',
                          x.version < y.version
                   PROVE  x.leg_a <= y.leg_a /\ x.leg_b <= y.leg_b
                          /\ x.decision = "COMPENSATION_PLANNED"
        OBVIOUS
      <4>1. x \in Execution!EventsOf(p)
        BY <1>4, <1>8, <3>1, <3>2
      <4>2. CASE y = w.event
        BY <1>2, <1>4, <1>8, <1>9, <3>1, <4>1, <4>2 DEF Execution!FactType
      <4>3. CASE y \in Execution!EventsOf(p)
        BY <1>2, <4>1, <4>3 DEF Execution!EventsExplainFact
      <4> QED BY <3>2, <4>2, <4>3
    <3>6. \A x \in Execution!EventsOf(q)' : x.version = w.row.version => x = w.event
      BY <1>4, <1>7, <3>1, <3>2
    <3> QED BY <1>7, <1>8, <3>2, <3>4, <3>5, <3>6
  <2> QED BY <2>1, <2>2
<1> QED BY <1>13, <1>14, <1>15, <1>16, <1>17, <1>18, <1>19, <1>20, <1>21

\* Every step of evaluations, and every step of another part, keeps the invariant.
LEMMA ExecutionStep == ExecutionInv /\ [Execution!Next]_executionVars => ExecutionInv'
<1>1. ASSUME ExecutionInv, Execution!Next PROVE ExecutionInv'
  <2>1. PICK c \in Cores :
           \/ \E p \in Plans, l \in Limits : Execution!InitializePlan(c, p, l)
           \/ Execution!CompareLimits(c)
           \/ \E p \in Plans, e \in Evaluations : Execution!Evaluate(c, p, e)
           \/ Execution!Commit(c)
           \/ Execution!Abort(c)
    BY <1>1 DEF Execution!Next
  <2>2. CASE \E p \in Plans, l \in Limits : Execution!InitializePlan(c, p, l)
    BY <1>1, <2>2, InitializePlanInv
  <2>3. CASE Execution!CompareLimits(c)
    BY <1>1, <2>3, ExecutionCallEnds DEF Execution!CompareLimits
  <2>4. CASE \E p \in Plans, e \in Evaluations : Execution!Evaluate(c, p, e)
    BY <1>1, <2>4, EvaluateInv
  <2>5. CASE Execution!Commit(c)
    BY <1>1, <2>5, ExecutionCommitInv
  <2>6. CASE Execution!Abort(c)
    BY <1>1, <2>6, ExecutionCallEnds DEF Execution!Abort
  <2> QED BY <2>1, <2>2, <2>3, <2>4, <2>5, <2>6
<1>2. ASSUME ExecutionInv, UNCHANGED executionVars PROVE ExecutionInv'
  <2>1. OneEvaluation' /\ EvaluationHeld'
    BY <1>2 DEF executionVars, ExecutionInv, OneEvaluation, EvaluationHeld, Evaluating
  <2>2. Execution!TypeOK' /\ Execution!LimitsAgreed'
    BY <1>2 DEF executionVars, ExecutionInv, Execution!TypeOK, Execution!LimitsAgreed
  <2> QED BY <1>2, <2>1, <2>2, ExecutionRowsKept DEF executionVars, ExecutionInv
<1> QED BY <1>1, <1>2

\* Whatever evaluations commit in between, an open one still writes what fits the row.
LEMMA ExecutionSnapshot == ExecutionInv => Execution!SnapshotHeld
<1> SUFFICES ASSUME ExecutionInv, NEW c \in Cores, Evaluating(c)
             PROVE  LET now == executionFact[executionTx[c].plan]
                        next == executionTx[c].row
                    IN  /\ next.version = now.version + 1
                        /\ next.leg_a >= now.leg_a
                        /\ next.leg_b >= now.leg_b
                        /\ next.spent >= now.spent
                        /\ now.state \notin Execution!Terminal
  BY DEF Execution!SnapshotHeld, Evaluating
<1> DEFINE p == executionTx[c].plan
           f == executionFact[p]
<1>1. PICK e \in Evaluations : /\ Execution!Acceptable(f, e)
                               /\ executionTx[c].row = Execution!NextFact(limits[p], f, e)
  BY DEF ExecutionInv, EvaluationHeld, Decided
<1>2. f \in Execution!FactType /\ f.version < ExecutionVersions
  BY DEF ExecutionInv, Execution!TypeOK, EvaluationHeld, Evaluating
<1>3. Execution!Mismatch(e) * e.cost_per_unit \in Nat /\ f.spent \in Nat
  <2>1. p \in Plans
    BY DEF ExecutionInv, Execution!TypeOK, Evaluating
  <2> QED BY <1>2, <2>1, DecidedType DEF Execution!FactType
<1> DEFINE cost == Execution!Mismatch(e) * e.cost_per_unit
<1>4. executionTx[c].row.spent = f.spent + cost
  BY <1>1 DEF Execution!NextFact
<1>5. executionTx[c].row.spent >= f.spent
  <2> HIDE DEF cost
  <2> QED BY <1>3, <1>4 DEF cost
<1> QED BY <1>1, <1>5 DEF Execution!NextFact, Execution!Acceptable

LEMMA ExecutionAlways == Spec => []ExecutionInv
<1>1. Init => ExecutionInv
  BY ExecutionInit DEF Init
<1>2. [Next]_vars => [Execution!Next]_executionVars
  BY DEF Next, vars
<1>3. ExecutionInv /\ [Next]_vars => ExecutionInv'
  BY <1>2, ExecutionStep
<1> QED BY <1>1, <1>3, PTL DEF Spec

\* Two cores that evaluate one plan plan no more than the limits its first
\* initialize_plan agreed on: nobody is told other limits than the row's, and whatever
\* order evaluations commit in, the costs charged stay within its budget and its
\* exposure within its maximum until the plan is in manual work.
THEOREM PlansWithinLimits == Spec => []SpendingIsPlanned
<1>1. ExecutionInv => SpendingIsPlanned
  BY DEF ExecutionInv, SpendingIsPlanned
<1> QED BY <1>1, ExecutionAlways, PTL

\* What evaluate charged and decided is in its immutable events: the sum of their costs
\* is what the plan has spent, the last one is where it stands, and a completed plan
\* has its legs filled alike and not beyond the target.
THEOREM EventsExplainPlans == Spec => []DecisionsExplainPlan
<1>1. ExecutionInv => DecisionsExplainPlan
  BY ExecutionSnapshot DEF ExecutionInv, DecisionsExplainPlan
<1> QED BY <1>1, ExecutionAlways, PTL

-----------------------------------------------------------------------------
(* Order facts *)

\* The row lock: no two open transactions are of one order.
OneTransaction ==
    \A c, d \in Cores :
        orderTx[c] # None /\ orderTx[d] # None /\ orderTx[c].intent = orderTx[d].intent => c = d

\* Without a row an order is as it will be inserted.
UnknownIsNew == \A i \in Intents \ ordered : orderFact[i] = Orders!NewFact

\* A cancellation is only asked for of an accepted order.
CancelledIsAccepted ==
    \A i \in Intents : orderFact[i].cancel # "NONE" => orderFact[i].submission = "ACCEPTED"

SubmissionBefore ==
    [SUBMIT_STARTED |-> "NOT_SENT", SUBMIT_ACCEPTED |-> "IN_FLIGHT",
     SUBMIT_REJECTED |-> "IN_FLIGHT", SUBMIT_UNKNOWN |-> "IN_FLIGHT",
     QUERY_NOT_FOUND |-> "UNKNOWN", QUERY_FOUND |-> "UNKNOWN"]

\* w is what a transaction on a row f may write: the answer to a submission or a query,
SubmissionDecided(w, f) ==
    /\ w.action \in DOMAIN Orders!SubmissionAfter
    /\ f.submission = SubmissionBefore[w.action]
    /\ w.row = [f EXCEPT !.submission = Orders!SubmissionAfter[w.action],
                         !.order = w.row.order, !.version = f.version + 1]
    /\ IF w.row.submission = "ACCEPTED" THEN w.row.order \in OrderIds
       ELSE w.row.order = f.order
    /\ w.trade = None

\* the next state of a cancellation,
CancelDecided(w, f) ==
    /\ w.action \in DOMAIN Orders!CancelAfter
    /\ f.submission = "ACCEPTED"
    /\ f.cancel \in IF w.action = "CANCEL_REQUESTED" THEN {"NONE", "UNKNOWN"}
                    ELSE {"REQUESTED", "UNKNOWN"}
    /\ w.row = [f EXCEPT !.cancel = Orders!CancelAfter[w.action], !.version = f.version + 1]
    /\ w.trade = None

\* a fill under a new trade key,
FillDecided(w, f) ==
    /\ w.action = "TRADE_RECORDED"
    /\ w.trade \in Trades
    /\ f.order = w.trade.order /\ VenueOf[w.intent] = w.trade.venue
    /\ LET filled == f.filled + w.trade.quantity
       IN  w.row = [f EXCEPT !.filled = filled, !.version = f.version + 1,
                       !.reconciliation = IF filled <= Ordered[w.intent] THEN "MATCHED"
                                          ELSE "CONFLICT"]

\* or that a trade key was reported again.
RepeatDecided(w, f) ==
    /\ w.action \in {"TRADE_DUPLICATE", "TRADE_CONFLICT"}
    /\ f.order \in OrderIds
    /\ w.row = [f EXCEPT !.version = f.version + 1,
                   !.reconciliation = IF w.action = "TRADE_CONFLICT" THEN "CONFLICT" ELSE @]
    /\ w.trade = None

Decision(w, f) ==
    SubmissionDecided(w, f) \/ CancelDecided(w, f) \/ FillDecided(w, f) \/ RepeatDecided(w, f)

\* What an open transaction will write is what fits the row it has locked now.
TransactionHeld ==
    \A c \in Cores : orderTx[c] # None =>
        LET w == orderTx[c]
            f == orderFact[w.intent]
        IN  /\ w.intent \in ordered
            /\ f.version < OrderVersions
            /\ Decision(w, f)

OrderInv ==
    /\ Orders!TypeOK
    /\ OneTransaction
    /\ UnknownIsNew
    /\ CancelledIsAccepted
    /\ TransactionHeld
    /\ IsFiniteSet(actions) /\ IsFiniteSet(trades)
    /\ Orders!FilledIsSumOfTrades
    /\ Orders!TradesBelong
    /\ Orders!SubmittedOnce
    /\ Orders!ActionsExplainRow

LEMMA OrderSum == ASSUME NEW f, NEW S PROVE Orders!SumOver(f, S) = SumOver(f, S)
BY DEF Orders!SumOver, SumOver, Orders!MapThenFoldSet, MapThenFoldSet

LEMMA OrderCardinality == ASSUME NEW S PROVE Orders!Cardinality(S) = Cardinality(S)
BY DEF Orders!Cardinality, Cardinality

\* Initially no order has a row.
LEMMA OrderInit == Orders!Init => OrderInv
<1> SUFFICES ASSUME Orders!Init PROVE OrderInv
  OBVIOUS
<1> USE DEF Orders!Init
<1>1. \A i \in Intents : orderFact[i] = Orders!NewFact /\ Orders!ActionsOf(i) = {}
  BY DEF Orders!ActionsOf
<1>2. Orders!NewFact \in Orders!OrderFactSnapshot
  BY FactsAssumption DEF Orders!OrderAssumption, Orders!NewFact, Orders!OrderFactSnapshot,
     Orders!SubmissionStatus, Orders!CancelStatus, Orders!ReconciliationStatus
<1>3. Orders!TypeOK
  BY <1>2 DEF Orders!TypeOK
<1>4. OneTransaction /\ UnknownIsNew /\ TransactionHeld /\ CancelledIsAccepted
  BY <1>1 DEF OneTransaction, UnknownIsNew, TransactionHeld, CancelledIsAccepted, Orders!NewFact
<1>5. IsFiniteSet(actions) /\ IsFiniteSet(trades)
  BY FS_EmptySet
<1>6. Orders!FilledIsSumOfTrades
  <2>1. \A i \in Intents : {r \in trades : r.intent = i} = {}
    OBVIOUS
  <2>2. \A i \in Intents : orderFact[i].filled = 0 /\ ~(orderFact[i].filled > Ordered[i])
    BY <1>1, FactsAssumption DEF Orders!NewFact, Orders!OrderAssumption
  <2> QED BY <2>1, <2>2, SumEmpty, OrderSum DEF Orders!FilledIsSumOfTrades
<1>7. Orders!TradesBelong /\ Orders!SubmittedOnce
  BY <1>1 DEF Orders!TradesBelong, Orders!SubmittedOnce, Orders!NewFact
<1>8. Orders!ActionsExplainRow
  <2> SUFFICES ASSUME NEW i \in Intents
               PROVE  /\ {a.version : a \in Orders!ActionsOf(i)} = 1 .. orderFact[i].version
                      /\ Cardinality(Orders!ActionsOf(i)) = orderFact[i].version
                      /\ Orders!LatestExplains(i, Orders!SubmissionAfter, "NOT_SENT",
                                               orderFact[i].submission)
                      /\ Orders!LatestExplains(i, Orders!CancelAfter, "NONE", orderFact[i].cancel)
    BY OrderCardinality DEF Orders!ActionsExplainRow
  <2>1. {a.version : a \in Orders!ActionsOf(i)} = 1 .. 0 /\ Cardinality(Orders!ActionsOf(i)) = 0
    BY <1>1, FS_EmptySet
  <2> QED BY <1>1, <2>1 DEF Orders!LatestExplains, Orders!NewFact
<1> QED BY <1>3, <1>4, <1>5, <1>6, <1>7, <1>8 DEF OrderInv

\* A step that leaves the tables alone keeps what is said of them.
LEMMA OrderRowsKept ==
    ASSUME OrderInv, UNCHANGED <<ordered, orderFact, actions, investigations, trades>>
    PROVE  /\ UnknownIsNew' /\ CancelledIsAccepted'
           /\ IsFiniteSet(actions)' /\ IsFiniteSet(trades)'
           /\ Orders!FilledIsSumOfTrades' /\ Orders!TradesBelong'
           /\ Orders!SubmittedOnce' /\ Orders!ActionsExplainRow'
<1> USE DEF OrderInv
<1>1. UnknownIsNew' /\ CancelledIsAccepted' /\ IsFiniteSet(actions)' /\ IsFiniteSet(trades)'
  BY DEF UnknownIsNew, CancelledIsAccepted
<1>2. Orders!FilledIsSumOfTrades'
  BY DEF Orders!FilledIsSumOfTrades
<1>3. Orders!TradesBelong' /\ Orders!SubmittedOnce'
  BY DEF Orders!TradesBelong, Orders!SubmittedOnce, Orders!MatchesIdentity,
     Orders!RecoverNonterminal, Orders!Readable
<1>4. Orders!ActionsExplainRow'
  BY DEF Orders!ActionsExplainRow, Orders!LatestExplains, Orders!ActionsOf
<1> QED BY <1>1, <1>2, <1>3, <1>4

LEMMA EnsureIntentInv ==
    ASSUME OrderInv, NEW i \in Intents, Orders!EnsureIntent(i)
    PROVE  OrderInv'
<1> USE DEF OrderInv, Orders!EnsureIntent
<1>1. Orders!TypeOK' /\ OneTransaction' /\ TransactionHeld'
  BY DEF Orders!TypeOK, OneTransaction, TransactionHeld
<1>2. UnknownIsNew' /\ CancelledIsAccepted' /\ IsFiniteSet(actions)' /\ IsFiniteSet(trades)'
  BY DEF UnknownIsNew, CancelledIsAccepted
<1>3. Orders!FilledIsSumOfTrades'
  BY DEF Orders!FilledIsSumOfTrades
<1>4. Orders!TradesBelong' /\ Orders!SubmittedOnce'
  BY DEF Orders!TradesBelong, Orders!SubmittedOnce, Orders!MatchesIdentity,
     Orders!RecoverNonterminal, Orders!Readable
<1>5. Orders!ActionsExplainRow'
  BY DEF Orders!ActionsExplainRow, Orders!LatestExplains, Orders!ActionsOf
<1> QED BY <1>1, <1>2, <1>3, <1>4, <1>5

TransactionType ==
    [intent : Intents, action : Orders!ActionNames, query : QueryIds \cup {None},
     trade : Trades \cup {None}, row : Orders!OrderFactSnapshot]

\* A transaction that locks a row and decides what fits it.
LEMMA PrepareInv ==
    ASSUME OrderInv, NEW c \in Cores, NEW i \in Intents, NEW w \in TransactionType,
           Orders!LockFact(c, i), UNCHANGED Orders!tables,
           orderTx' = [orderTx EXCEPT ![c] = w], w.intent = i, Decision(w, orderFact[i])
    PROVE  OrderInv'
<1> USE DEF OrderInv, Orders!tables
<1>1. i \in ordered /\ Orders!RowLockFree(i) /\ orderFact[i].version < OrderVersions
  BY DEF Orders!LockFact
<1>2. \A d \in Cores : orderTx'[d] = IF d = c THEN w ELSE orderTx[d]
  BY DEF Orders!TypeOK
<1>3. Orders!TypeOK'
  BY DEF Orders!TypeOK, TransactionType
<1>4. OneTransaction'
  BY <1>1, <1>2 DEF OneTransaction, Orders!RowLockFree
<1>5. TransactionHeld'
  <2> SUFFICES ASSUME NEW d \in Cores, orderTx'[d] # None
               PROVE  LET v == orderTx'[d]
                          f == orderFact[v.intent]
                      IN  v.intent \in ordered /\ f.version < OrderVersions /\ Decision(v, f)
    BY DEF TransactionHeld
  <2> QED BY <1>1, <1>2 DEF TransactionHeld
<1> QED BY <1>3, <1>4, <1>5, OrderRowsKept

\* Every handler that locks a row decides one of the four.
LEMMA HandlersDecide ==
    ASSUME OrderInv, NEW c \in Cores, NEW i \in Intents,
           \/ Orders!SubmitStarted(c, i)
           \/ \E o \in OrderIds : Orders!SubmitAccepted(c, i, o)
           \/ Orders!SubmitRejected(c, i)
           \/ Orders!SubmitUnknown(c, i)
           \/ \E q \in QueryIds : Orders!QueryNotFound(c, i, q)
           \/ \E q \in QueryIds, o \in OrderIds : Orders!QueryFound(c, i, q, o)
           \/ Orders!CancelRequested(c, i)
           \/ \E s \in {"UNKNOWN", "CONFIRMED"} : Orders!CancelResult(c, i, s)
           \/ \E t \in Trades : \/ Orders!RecordTrade(c, i, t) \/ Orders!DuplicateTrade(c, i, t)
                                \/ Orders!ConflictingTrade(c, i, t)
    PROVE  OrderInv'
<1> DEFINE f == orderFact[i]
           W(new, action, query, trade) ==
              [intent |-> i, action |-> action, query |-> query, trade |-> trade,
               row |-> [new EXCEPT !.version = f.version + 1]]
<1>1. Orders!LockFact(c, i)
  BY DEF Orders!SubmitStarted, Orders!SubmitAccepted, Orders!SubmitRejected,
     Orders!SubmitUnknown, Orders!QueryNotFound, Orders!QueryFound, Orders!CancelRequested,
     Orders!CancelResult, Orders!RecordTrade, Orders!DuplicateTrade,
     Orders!ConflictingTrade, Orders!TradeArrives
<1>2. f \in Orders!OrderFactSnapshot /\ f.version + 1 \in 0 .. OrderVersions
  BY <1>1, FactsAssumption DEF OrderInv, Orders!TypeOK, Orders!LockFact,
     Orders!OrderFactSnapshot, Orders!OrderAssumption
<1>3. ASSUME NEW new \in Orders!OrderFactSnapshot, NEW action \in Orders!ActionNames,
             NEW query \in QueryIds \cup {None}, NEW trade \in Trades \cup {None},
             Decision(W(new, action, query, trade), f),
             Orders!Prepare(c, i, new, action, query, trade)
      PROVE  OrderInv'
  <2>1. W(new, action, query, trade) \in TransactionType
    BY <1>2 DEF TransactionType, Orders!OrderFactSnapshot
  <2> QED BY <1>1, <1>3, <2>1, PrepareInv DEF Orders!Prepare
<1> HIDE DEF f
<1>4. CASE Orders!SubmitStarted(c, i)
  <2> DEFINE new == [f EXCEPT !.submission = "IN_FLIGHT"]
  <2>1. new \in Orders!OrderFactSnapshot
    BY <1>2 DEF Orders!OrderFactSnapshot, Orders!SubmissionStatus
  <2>2. SubmissionDecided(W(new, "SUBMIT_STARTED", None, None), f)
    BY <1>2, <1>4 DEF Orders!SubmitStarted, SubmissionDecided, SubmissionBefore,
       Orders!SubmissionAfter, Orders!OrderFactSnapshot, f
  <2> QED BY <1>3, <1>4, <2>1, <2>2
          DEF Orders!SubmitStarted, Decision, Orders!ActionNames, f

<1>5. CASE \E o \in OrderIds : Orders!SubmitAccepted(c, i, o)
  <2> PICK o \in OrderIds : Orders!SubmitAccepted(c, i, o)
    BY <1>5
  <2> DEFINE new == [f EXCEPT !.submission = "ACCEPTED", !.order = o]
  <2>1. new \in Orders!OrderFactSnapshot
    BY <1>2 DEF Orders!OrderFactSnapshot, Orders!SubmissionStatus
  <2>2. SubmissionDecided(W(new, "SUBMIT_ACCEPTED", None, None), f)
    BY <1>2 DEF Orders!SubmitAccepted, SubmissionDecided, SubmissionBefore,
       Orders!SubmissionAfter, Orders!OrderFactSnapshot, f
  <2> QED BY <1>3, <2>1, <2>2 DEF Orders!SubmitAccepted, Decision, Orders!ActionNames, f
<1>6. CASE Orders!SubmitRejected(c, i)
  <2> DEFINE new == [f EXCEPT !.submission = "DEFINITELY_REJECTED"]
  <2>1. new \in Orders!OrderFactSnapshot
    BY <1>2 DEF Orders!OrderFactSnapshot, Orders!SubmissionStatus
  <2>2. SubmissionDecided(W(new, "SUBMIT_REJECTED", None, None), f)
    BY <1>2, <1>6 DEF Orders!SubmitRejected, SubmissionDecided, SubmissionBefore,
       Orders!SubmissionAfter, Orders!OrderFactSnapshot, f
  <2> QED BY <1>3, <1>6, <2>1, <2>2 DEF Orders!SubmitRejected, Decision, Orders!ActionNames, f
<1>7. CASE Orders!SubmitUnknown(c, i)
  <2> DEFINE new == [f EXCEPT !.submission = "UNKNOWN"]
  <2>1. new \in Orders!OrderFactSnapshot
    BY <1>2 DEF Orders!OrderFactSnapshot, Orders!SubmissionStatus
  <2>2. SubmissionDecided(W(new, "SUBMIT_UNKNOWN", None, None), f)
    BY <1>2, <1>7 DEF Orders!SubmitUnknown, SubmissionDecided, SubmissionBefore,
       Orders!SubmissionAfter, Orders!OrderFactSnapshot, f
  <2> QED BY <1>3, <1>7, <2>1, <2>2 DEF Orders!SubmitUnknown, Decision, Orders!ActionNames, f
<1>8. CASE \E q \in QueryIds : Orders!QueryNotFound(c, i, q)
  <2> PICK q \in QueryIds : Orders!QueryNotFound(c, i, q)
    BY <1>8
  <2>1. SubmissionDecided(W(f, "QUERY_NOT_FOUND", q, None), f)
    BY <1>2 DEF Orders!QueryNotFound, SubmissionDecided, SubmissionBefore,
       Orders!SubmissionAfter, Orders!OrderFactSnapshot, f
  <2> QED BY <1>2, <1>3, <2>1 DEF Orders!QueryNotFound, Decision, Orders!ActionNames, f
<1>9. CASE \E q \in QueryIds, o \in OrderIds : Orders!QueryFound(c, i, q, o)
  <2> PICK q \in QueryIds, o \in OrderIds : Orders!QueryFound(c, i, q, o)
    BY <1>9
  <2> DEFINE new == [f EXCEPT !.submission = "ACCEPTED", !.order = o]
  <2>1. new \in Orders!OrderFactSnapshot
    BY <1>2 DEF Orders!OrderFactSnapshot, Orders!SubmissionStatus
  <2>2. SubmissionDecided(W(new, "QUERY_FOUND", q, None), f)
    BY <1>2 DEF Orders!QueryFound, SubmissionDecided, SubmissionBefore,
       Orders!SubmissionAfter, Orders!OrderFactSnapshot, f
  <2> QED BY <1>3, <2>1, <2>2 DEF Orders!QueryFound, Decision, Orders!ActionNames, f
<1>10. CASE Orders!CancelRequested(c, i)
  <2> DEFINE new == [f EXCEPT !.cancel = "REQUESTED"]
  <2>1. new \in Orders!OrderFactSnapshot
    BY <1>2 DEF Orders!OrderFactSnapshot, Orders!CancelStatus
  <2>2. CancelDecided(W(new, "CANCEL_REQUESTED", None, None), f)
    BY <1>2, <1>10 DEF Orders!CancelRequested, CancelDecided, Orders!CancelAfter,
       Orders!OrderFactSnapshot, f
  <2> QED BY <1>3, <1>10, <2>1, <2>2 DEF Orders!CancelRequested, Decision, Orders!ActionNames, f
<1>11. CASE \E s \in {"UNKNOWN", "CONFIRMED"} : Orders!CancelResult(c, i, s)
  <2> PICK s \in {"UNKNOWN", "CONFIRMED"} : Orders!CancelResult(c, i, s)
    BY <1>11
  <2> DEFINE new == [f EXCEPT !.cancel = s]
             action == IF s = "UNKNOWN" THEN "CANCEL_UNKNOWN" ELSE "CANCEL_CONFIRMED"
  <2>1. new \in Orders!OrderFactSnapshot
    BY <1>2 DEF Orders!OrderFactSnapshot, Orders!CancelStatus
  <2>2. CancelDecided(W(new, action, None, None), f)
    BY <1>2 DEF Orders!CancelResult, CancelDecided, Orders!CancelAfter,
       Orders!OrderFactSnapshot, f
  <2> QED BY <1>3, <2>1, <2>2 DEF Orders!CancelResult, Decision, Orders!ActionNames, f
<1>12. CASE \E t \in Trades : \/ Orders!RecordTrade(c, i, t) \/ Orders!DuplicateTrade(c, i, t)
                              \/ Orders!ConflictingTrade(c, i, t)
  <2> PICK t \in Trades : \/ Orders!RecordTrade(c, i, t) \/ Orders!DuplicateTrade(c, i, t)
                          \/ Orders!ConflictingTrade(c, i, t)
    BY <1>12
  <2>1. /\ f.order = t.order /\ t.order \in OrderIds /\ VenueOf[i] = t.venue
        /\ t.quantity \in Nat
    BY FactsAssumption DEF Orders!RecordTrade, Orders!DuplicateTrade,
       Orders!ConflictingTrade, Orders!TradeArrives, Orders!MatchesIdentity,
       Orders!OrderAssumption, Orders!TradeType, f
  <2>2. CASE Orders!RecordTrade(c, i, t)
    <3> DEFINE filled == f.filled + t.quantity
               status == IF filled <= Ordered[i] THEN "MATCHED" ELSE "CONFLICT"
               new == [f EXCEPT !.filled = filled, !.reconciliation = status]
    <3>1. new \in Orders!OrderFactSnapshot
      <4>1. filled \in Nat
        BY <1>2, <2>1 DEF Orders!OrderFactSnapshot
      <4>2. status \in {"MATCHED", "CONFLICT"}
        OBVIOUS
      <4> HIDE DEF filled, status
      <4> QED BY <1>2, <4>1, <4>2 DEF Orders!OrderFactSnapshot, Orders!ReconciliationStatus
    <3>2. FillDecided(W(new, "TRADE_RECORDED", None, t), f)
      BY <1>2, <2>1 DEF FillDecided, Orders!OrderFactSnapshot
    <3> QED BY <1>3, <2>2, <3>1, <3>2 DEF Orders!RecordTrade, Decision, Orders!ActionNames, f
  <2>3. CASE Orders!DuplicateTrade(c, i, t)
    <3>1. RepeatDecided(W(f, "TRADE_DUPLICATE", None, None), f)
      BY <1>2, <2>1 DEF RepeatDecided, Orders!OrderFactSnapshot
    <3> QED BY <1>2, <1>3, <2>3, <3>1 DEF Orders!DuplicateTrade, Decision, Orders!ActionNames, f
  <2>4. CASE Orders!ConflictingTrade(c, i, t)
    <3> DEFINE new == [f EXCEPT !.reconciliation = "CONFLICT"]
    <3>1. new \in Orders!OrderFactSnapshot
      BY <1>2 DEF Orders!OrderFactSnapshot, Orders!ReconciliationStatus
    <3>2. RepeatDecided(W(new, "TRADE_CONFLICT", None, None), f)
      BY <1>2, <2>1 DEF RepeatDecided, Orders!OrderFactSnapshot
    <3> QED BY <1>3, <2>4, <3>1, <3>2 DEF Orders!ConflictingTrade, Decision, Orders!ActionNames, f
  <2> QED BY <2>2, <2>3, <2>4
<1> QED BY <1>4, <1>5, <1>6, <1>7, <1>8, <1>9, <1>10, <1>11, <1>12

\* What a decision does to the row it was made on: the next version, the fill of the trade
\* it books, a binding for good, and the states its action names.
LEMMA DecisionRow ==
    ASSUME NEW w \in TransactionType, NEW f \in Orders!OrderFactSnapshot, Decision(w, f),
           f.order # None <=> f.submission = "ACCEPTED",
           f.cancel # "NONE" => f.submission = "ACCEPTED",
           f.filled > Ordered[w.intent] => f.reconciliation = "CONFLICT"
    PROVE  /\ w.row.version = f.version + 1
           /\ w.trade = None => w.row.filled = f.filled
           /\ w.trade # None => /\ w.trade \in Trades /\ w.trade.quantity \in Nat
                                /\ w.row.filled = f.filled + w.trade.quantity
                                /\ w.row.order = w.trade.order
                                /\ VenueOf[w.intent] = w.trade.venue
           /\ w.row.filled > Ordered[w.intent] => w.row.reconciliation = "CONFLICT"
           /\ f.order # None => w.row.order = f.order
           /\ w.row.order # None <=> w.row.submission = "ACCEPTED"
           /\ w.row.cancel # "NONE" => w.row.submission = "ACCEPTED"
           /\ f.submission = "ACCEPTED" => w.row.submission = "ACCEPTED"
           /\ w.row.submission = IF w.action \in DOMAIN Orders!SubmissionAfter
                                 THEN Orders!SubmissionAfter[w.action] ELSE f.submission
           /\ w.row.cancel = IF w.action \in DOMAIN Orders!CancelAfter
                             THEN Orders!CancelAfter[w.action] ELSE f.cancel
           /\ w.action = "SUBMIT_STARTED" => f.submission = "NOT_SENT"
<1> USE FactsAssumption
    DEF Orders!OrderAssumption, Orders!SubmissionAfter, Orders!CancelAfter, SubmissionBefore
<1>1. CASE SubmissionDecided(w, f)
  <2>1. /\ w.row.version = f.version + 1 /\ w.row.cancel = f.cancel
        /\ w.row.reconciliation = f.reconciliation /\ w.row.filled = f.filled
        /\ w.row.submission = Orders!SubmissionAfter[w.action]
    BY <1>1 DEF SubmissionDecided, Orders!OrderFactSnapshot
  <2>2. /\ w.trade = None /\ f.submission # "ACCEPTED" /\ f.order = None /\ f.cancel = "NONE"
        /\ w.action \in DOMAIN Orders!SubmissionAfter /\ w.action \notin DOMAIN Orders!CancelAfter
        /\ w.action = "SUBMIT_STARTED" => f.submission = "NOT_SENT"
    BY <1>1 DEF SubmissionDecided
  <2>3. w.row.order # None <=> w.row.submission = "ACCEPTED"
    BY <1>1, <2>2 DEF SubmissionDecided
  <2> QED BY <2>1, <2>2, <2>3
<1>2. CASE CancelDecided(w, f)
  BY <1>2 DEF CancelDecided, Orders!OrderFactSnapshot
<1>3. CASE FillDecided(w, f)
  <2> DEFINE filled == f.filled + w.trade.quantity
  <2>1. /\ w.trade \in Trades /\ w.trade # None /\ f.order = w.trade.order
        /\ VenueOf[w.intent] = w.trade.venue /\ w.action = "TRADE_RECORDED"
        /\ w.trade.quantity \in Nat /\ w.trade.order \in OrderIds
    BY <1>3 DEF FillDecided, Orders!TradeType
  <2>2. /\ w.row.version = f.version + 1 /\ w.row.cancel = f.cancel
        /\ w.row.submission = f.submission /\ w.row.order = f.order
        /\ w.row.filled = filled
        /\ w.row.reconciliation = IF filled <= Ordered[w.intent] THEN "MATCHED" ELSE "CONFLICT"
    BY <1>3 DEF FillDecided, Orders!OrderFactSnapshot
  <2>3. filled > Ordered[w.intent] => w.row.reconciliation = "CONFLICT"
    BY <2>1, <2>2 DEF Orders!OrderFactSnapshot, TransactionType
  <2> HIDE DEF filled
  <2> QED BY <2>1, <2>2, <2>3 DEF filled
<1>4. CASE RepeatDecided(w, f)
  BY <1>4 DEF RepeatDecided, Orders!OrderFactSnapshot
<1> QED BY <1>1, <1>2, <1>3, <1>4 DEF Decision

\* LatestExplains over a set of actions.
Explains(S, after, initial, status) ==
    LET facts == {a \in S : a.action \in DOMAIN after}
    IN  IF facts = {} THEN status = initial
        ELSE \E a \in facts : (\A b \in facts : b.version <= a.version) /\ status = after[a.action]

LEMMA ExplainsMore ==
    ASSUME NEW S, NEW a, NEW after, NEW initial, NEW s, NEW t, Explains(S, after, initial, s),
           a.version \in Int, \A b \in S : b.version \in Int /\ b.version < a.version,
           t = IF a.action \in DOMAIN after THEN after[a.action] ELSE s
    PROVE  Explains(S \cup {a}, after, initial, t)
<1>1. CASE a.action \in DOMAIN after
  BY <1>1 DEF Explains
<1>2. CASE a.action \notin DOMAIN after
  <2>1. {b \in S \cup {a} : b.action \in DOMAIN after} = {b \in S : b.action \in DOMAIN after}
    BY <1>2
  <2> QED BY <1>2, <2>1 DEF Explains
<1> QED BY <1>1, <1>2

\* What OrderInv says of an open transaction and its row.
LEMMA TransactionRow ==
    ASSUME OrderInv, NEW c \in Cores, orderTx[c] # None
    PROVE  LET w == orderTx[c]
               f == orderFact[w.intent]
           IN  /\ w \in TransactionType /\ f \in Orders!OrderFactSnapshot
               /\ w.intent \in Intents /\ w.intent \in ordered
               /\ f.version \in Nat /\ f.version + 1 \in 1 .. OrderVersions
               /\ Decision(w, f)
               /\ f.order # None <=> f.submission = "ACCEPTED"
               /\ f.cancel # "NONE" => f.submission = "ACCEPTED"
               /\ f.filled > Ordered[w.intent] => f.reconciliation = "CONFLICT"
<1> USE DEF OrderInv
<1>1. orderTx[c] \in TransactionType
  BY DEF Orders!TypeOK, TransactionType
<1>2. orderTx[c].intent \in Intents
  BY <1>1 DEF TransactionType
<1>3. orderFact[orderTx[c].intent] \in Orders!OrderFactSnapshot
  BY <1>2 DEF Orders!TypeOK
<1>4. /\ orderFact[orderTx[c].intent].version \in Nat
      /\ orderFact[orderTx[c].intent].version + 1 \in 1 .. OrderVersions
  BY <1>3, FactsAssumption DEF TransactionHeld, Orders!OrderFactSnapshot, Orders!OrderAssumption
<1> QED BY <1>1, <1>2, <1>3, <1>4
        DEF TransactionHeld, CancelledIsAccepted, Orders!TradesBelong, Orders!FilledIsSumOfTrades

LEMMA OrderCommitInv ==
    ASSUME OrderInv, NEW c \in Cores, Orders!Commit(c)
    PROVE  OrderInv'
<1> DEFINE w == orderTx[c]
           i == w.intent
           f == orderFact[i]
           a == [intent |-> i, version |-> w.row.version, action |-> w.action]
           r == [intent |-> i, trade |-> w.trade]
<1>1. /\ w # None /\ Orders!NoUniqueViolation(w)
      /\ orderFact' = [orderFact EXCEPT ![i] = w.row]
      /\ actions' = actions \cup {a}
      /\ investigations' = IF w.query = None THEN investigations
                           ELSE investigations \cup {[query |-> w.query, intent |-> i]}
      /\ trades' = IF w.trade = None THEN trades ELSE trades \cup {r}
      /\ orderTx' = [orderTx EXCEPT ![c] = None]
      /\ ordered' = ordered
  BY DEF Orders!Commit
<1>2. /\ w \in TransactionType /\ f \in Orders!OrderFactSnapshot /\ i \in Intents /\ i \in ordered
      /\ f.version \in Nat /\ f.version + 1 \in 1 .. OrderVersions
      /\ Decision(w, f)
      /\ f.order # None <=> f.submission = "ACCEPTED"
      /\ f.cancel # "NONE" => f.submission = "ACCEPTED"
      /\ f.filled > Ordered[i] => f.reconciliation = "CONFLICT"
  BY <1>1, TransactionRow
<1>3. /\ w.row.version = f.version + 1
      /\ w.trade = None => w.row.filled = f.filled
      /\ w.trade # None => /\ w.trade \in Trades /\ w.trade.quantity \in Nat
                           /\ w.row.filled = f.filled + w.trade.quantity
                           /\ w.row.order = w.trade.order
                           /\ VenueOf[i] = w.trade.venue
      /\ w.row.filled > Ordered[i] => w.row.reconciliation = "CONFLICT"
      /\ f.order # None => w.row.order = f.order
      /\ w.row.order # None <=> w.row.submission = "ACCEPTED"
      /\ w.row.cancel # "NONE" => w.row.submission = "ACCEPTED"
      /\ f.submission = "ACCEPTED" => w.row.submission = "ACCEPTED"
      /\ w.row.submission = IF w.action \in DOMAIN Orders!SubmissionAfter
                            THEN Orders!SubmissionAfter[w.action] ELSE f.submission
      /\ w.row.cancel = IF w.action \in DOMAIN Orders!CancelAfter
                        THEN Orders!CancelAfter[w.action] ELSE f.cancel
      /\ w.action = "SUBMIT_STARTED" => f.submission = "NOT_SENT"
  BY <1>2, DecisionRow
<1>4. /\ w.row \in Orders!OrderFactSnapshot /\ w.action \in Orders!ActionNames
      /\ w.query \in QueryIds \cup {None}
  BY <1>2 DEF TransactionType
<1> USE DEF OrderInv
<1>5. \A j \in Intents : orderFact'[j] = IF j = i THEN w.row ELSE orderFact[j]
  BY <1>1, <1>2 DEF Orders!TypeOK
<1>6. \A d \in Cores : /\ orderTx'[d] = IF d = c THEN None ELSE orderTx[d]
                       /\ orderTx'[d] # None => orderTx[d].intent # i
  BY <1>1 DEF Orders!TypeOK, OneTransaction
<1> HIDE DEF a, r
<1>7. /\ a.intent = i /\ a.version = f.version + 1 /\ a.action = w.action
      /\ a \in [intent : Intents, version : 1 .. OrderVersions, action : Orders!ActionNames]
  BY <1>2, <1>3, <1>4 DEF a
<1>8. r.intent = i /\ r.trade = w.trade /\ (w.trade # None => r \in [intent : Intents, trade : Trades])
  BY <1>2, <1>3 DEF r
<1>9. Orders!TypeOK'
  <2>1. orderFact' \in [Intents -> Orders!OrderFactSnapshot]
    BY <1>1, <1>4 DEF Orders!TypeOK
  <2>2. actions' \subseteq [intent : Intents, version : 1 .. OrderVersions, action : Orders!ActionNames]
    BY <1>1, <1>7 DEF Orders!TypeOK
  <2>3. investigations' \subseteq [query : QueryIds, intent : Intents]
    BY <1>1, <1>2, <1>4 DEF Orders!TypeOK
  <2>4. trades' \subseteq [intent : Intents, trade : Trades]
    BY <1>1, <1>8 DEF Orders!TypeOK
  <2> QED BY <1>1, <2>1, <2>2, <2>3, <2>4 DEF Orders!TypeOK
<1>10. OneTransaction'
  BY <1>6 DEF OneTransaction
<1>11. UnknownIsNew' /\ CancelledIsAccepted'
  BY <1>1, <1>2, <1>3, <1>5 DEF UnknownIsNew, CancelledIsAccepted
<1>12. TransactionHeld'
  <2> SUFFICES ASSUME NEW d \in Cores, orderTx'[d] # None
               PROVE  LET v == orderTx'[d]
                          g == orderFact'[v.intent]
                      IN  v.intent \in ordered /\ g.version < OrderVersions /\ Decision(v, g)
    BY <1>1 DEF TransactionHeld
  <2>1. orderTx[d].intent \in Intents
    BY <1>6, TransactionRow
  <2> QED BY <1>5, <1>6, <2>1 DEF TransactionHeld
<1>13. IsFiniteSet(actions)' /\ IsFiniteSet(trades)'
  BY <1>1, FS_AddElement
<1>14. Orders!SubmittedOnce'
  <2>1. w.action = "SUBMIT_STARTED" => \A b \in actions : b.intent = i => b.action # "SUBMIT_STARTED"
    <3> SUFFICES ASSUME w.action = "SUBMIT_STARTED", NEW b \in actions, b.intent = i,
                        b.action = "SUBMIT_STARTED"
                 PROVE  FALSE
      OBVIOUS
    <3>1. Orders!LatestExplains(i, Orders!SubmissionAfter, "NOT_SENT", "NOT_SENT")
      BY <1>2, <1>3 DEF Orders!ActionsExplainRow
    <3> QED BY <3>1 DEF Orders!LatestExplains, Orders!ActionsOf, Orders!SubmissionAfter
  <2> QED BY <1>1, <1>7, <2>1 DEF Orders!SubmittedOnce
<1>15. Orders!ActionsExplainRow'
  <2> DEFINE S == Orders!ActionsOf(i)
  <2>1. \A j \in Intents : Orders!ActionsOf(j)' = IF j = i THEN Orders!ActionsOf(j) \cup {a}
                                                  ELSE Orders!ActionsOf(j)
    BY <1>1, <1>7 DEF Orders!ActionsOf
  <2>2. {b.version : b \in S} = 1 .. f.version /\ Cardinality(S) = f.version
    BY <1>2, OrderCardinality DEF Orders!ActionsExplainRow
  <2>3. /\ Explains(S, Orders!SubmissionAfter, "NOT_SENT", f.submission)
        /\ Explains(S, Orders!CancelAfter, "NONE", f.cancel)
    BY <1>2 DEF Orders!ActionsExplainRow, Orders!LatestExplains, Explains
  <2>4. \A b \in S : b.version \in Int /\ b.version < a.version
    BY <1>2, <1>7, <2>2
  <2>5. a \notin S /\ IsFiniteSet(S)
    <3>1. S \subseteq actions
      BY DEF Orders!ActionsOf
    <3> QED BY <1>2, <1>7, <2>4, <3>1, FS_Subset
  <2> HIDE DEF S
  <2>6. {b.version : b \in S \cup {a}} = 1 .. w.row.version
    <3>1. 1 .. w.row.version = 1 .. f.version \cup {f.version + 1}
      BY <1>2, <1>3
    <3> QED BY <1>7, <2>2, <3>1
  <2>7. Cardinality(S \cup {a}) = w.row.version
    <3>1. Cardinality(S \cup {a}) = Cardinality(S) + 1
      BY <2>5, FS_AddElement
    <3>2. w.row.version = f.version + 1
      BY <1>3
    <3> QED BY <2>2, <3>1, <3>2
  <2>8. /\ Explains(S \cup {a}, Orders!SubmissionAfter, "NOT_SENT", w.row.submission)
        /\ Explains(S \cup {a}, Orders!CancelAfter, "NONE", w.row.cancel)
    <3>1. a.version \in Int
      BY <1>2, <1>7
    <3>2. Explains(S \cup {a}, Orders!SubmissionAfter, "NOT_SENT", w.row.submission)
      BY <1>3, <1>7, <2>3, <2>4, <3>1, ExplainsMore
    <3>3. Explains(S \cup {a}, Orders!CancelAfter, "NONE", w.row.cancel)
      BY <1>3, <1>7, <2>3, <2>4, <3>1, ExplainsMore
    <3> QED BY <3>2, <3>3
  <2> SUFFICES ASSUME NEW j \in Intents
               PROVE  LET T == Orders!ActionsOf(j)'
                          g == orderFact'[j]
                      IN  /\ {b.version : b \in T} = 1 .. g.version
                          /\ Cardinality(T) = g.version
                          /\ Explains(T, Orders!SubmissionAfter, "NOT_SENT", g.submission)
                          /\ Explains(T, Orders!CancelAfter, "NONE", g.cancel)
    BY OrderCardinality
       DEF Orders!ActionsExplainRow, Orders!LatestExplains, Explains, Orders!ActionsOf
  <2>9. CASE j = i
    BY <1>5, <2>1, <2>6, <2>7, <2>8, <2>9 DEF S
  <2>10. CASE j # i
    <3> DEFINE T == Orders!ActionsOf(j)
    <3>1. /\ {b.version : b \in T} = 1 .. orderFact[j].version
          /\ Cardinality(T) = orderFact[j].version
          /\ Explains(T, Orders!SubmissionAfter, "NOT_SENT", orderFact[j].submission)
          /\ Explains(T, Orders!CancelAfter, "NONE", orderFact[j].cancel)
      BY OrderCardinality DEF Orders!ActionsExplainRow, Orders!LatestExplains, Explains
    <3>2. Orders!ActionsOf(j)' = T /\ orderFact'[j] = orderFact[j]
      BY <1>5, <2>1, <2>10
    <3> HIDE DEF T
    <3> QED BY <3>1, <3>2
  <2> QED BY <2>9, <2>10

<1>16. Orders!FilledIsSumOfTrades'
  <2> DEFINE Own(j) == {t \in trades : t.intent = j}
             S == Own(i)
             g == [t \in S \cup {r} |-> t.trade.quantity]
             h == [t \in S |-> t.trade.quantity]
  <2>1. f.filled = SumOver(h, S)
    BY <1>2, OrderSum DEF Orders!FilledIsSumOfTrades
  <2>2. CASE w.trade = None
    <3>1. trades' = trades
      BY <1>1, <2>2
    <3>2. \A j \in Intents :
             /\ orderFact'[j].filled = orderFact[j].filled
             /\ orderFact'[j].filled > Ordered[j] => orderFact'[j].reconciliation = "CONFLICT"
      <4>1. w.row.filled = f.filled
            /\ (w.row.filled > Ordered[i] => w.row.reconciliation = "CONFLICT")
        BY <1>3, <2>2
      <4>2. \A j \in Intents :
               orderFact[j].filled > Ordered[j] => orderFact[j].reconciliation = "CONFLICT"
        BY DEF Orders!FilledIsSumOfTrades
      <4> HIDE DEF f
      <4> QED BY <1>5, <4>1, <4>2 DEF f
    <3> QED BY <3>1, <3>2, OrderSum DEF Orders!FilledIsSumOfTrades
  <2>3. CASE w.trade # None
    <3>1. r \notin S /\ IsFiniteSet(S)
      BY <1>1, <1>8, <2>3, FS_Subset DEF Orders!NoUniqueViolation, Orders!Booked
    <3>2. \A t \in S \cup {r} : g[t] \in Int
      BY <1>3, <1>8, <2>3, FactsAssumption
         DEF Orders!TypeOK, Orders!OrderAssumption, Orders!TradeType
    <3>3. \A t \in S : h[t] = g[t]
      OBVIOUS
    <3>4. g[r] = w.trade.quantity
      BY <1>8
    <3> DEFINE T(j) == {t \in trades' : t.intent = j}
    <3>5. \A j \in Intents : T(j) = IF j = i THEN S \cup {r} ELSE Own(j)
      BY <1>1, <1>8, <2>3
    <3> SUFFICES ASSUME NEW j \in Intents
                 PROVE  /\ orderFact'[j].filled = SumOver([t \in T(j) |-> t.trade.quantity], T(j))
                        /\ orderFact'[j].filled > Ordered[j] =>
                              orderFact'[j].reconciliation = "CONFLICT"
      BY OrderSum DEF Orders!FilledIsSumOfTrades
    <3>6. CASE j = i
      <4>1. SumOver(g, S \cup {r}) = SumOver(h, S) + g[r]
        <5> HIDE DEF S, g, h
        <5> QED BY <3>1, <3>2, <3>3, SumGrows
      <4>2. w.row.filled = SumOver(g, S \cup {r})
        BY <1>3, <2>1, <2>3, <3>4, <4>1
      <4>3. T(j) = S \cup {r}
        BY <3>5, <3>6
      <4> QED BY <1>3, <1>5, <3>6, <4>2, <4>3
    <3>7. CASE j # i
      BY <1>5, <3>5, <3>7, OrderSum DEF Orders!FilledIsSumOfTrades
    <3> QED BY <3>6, <3>7
  <2> QED BY <2>2, <2>3
<1>17. \A t \in trades' : t \in trades \/ (w.trade # None /\ t = r)
  BY <1>1
<1>18. \A t \in trades : t.intent = i => f.order = t.trade.order /\ f.order # None
  BY FactsAssumption DEF Orders!TypeOK, Orders!OrderAssumption, Orders!TradeType,
     Orders!TradesBelong, Orders!MatchesIdentity
<1>19. Orders!TradesBelong'
  <2>1. \A s, t \in trades' : Orders!TradeKey(s.trade) = Orders!TradeKey(t.trade) => s = t
    BY <1>1, <1>8, <1>17 DEF Orders!TradesBelong, Orders!NoUniqueViolation, Orders!Booked
  <2>2. \A t \in trades' : /\ orderFact'[t.intent].order = t.trade.order
                           /\ VenueOf[t.intent] = t.trade.venue
    <3> SUFFICES ASSUME NEW t \in trades'
                 PROVE  /\ orderFact'[t.intent].order = t.trade.order
                        /\ VenueOf[t.intent] = t.trade.venue
      OBVIOUS
    <3>1. CASE t \in trades
      <4>1. /\ t.intent \in Intents /\ orderFact[t.intent].order = t.trade.order
            /\ VenueOf[t.intent] = t.trade.venue
        BY <3>1 DEF Orders!TypeOK, Orders!TradesBelong, Orders!MatchesIdentity
      <4> QED BY <1>2, <1>3, <1>5, <1>18, <3>1, <4>1
    <3>2. CASE w.trade # None /\ t = r
      BY <1>2, <1>3, <1>5, <1>8, <3>2
    <3> QED BY <1>17, <3>1, <3>2
  <2>3. \A j \in Intents \ {i} : VenueOf[j] = VenueOf[i] /\ w.row.order # None =>
           orderFact[j].order # w.row.order
    BY <1>1 DEF Orders!NoUniqueViolation, UnknownIsNew, Orders!NewFact
  <2>4. \A j, k \in Intents :
           VenueOf[j] = VenueOf[k] /\ orderFact'[j].order = orderFact'[k].order =>
              orderFact'[j].order = None \/ j = k
    BY <1>5, <2>3 DEF Orders!TradesBelong
  <2>5. \A j \in Intents : orderFact'[j].order # None <=> orderFact'[j].submission = "ACCEPTED"
    BY <1>3, <1>5 DEF Orders!TradesBelong
  <2>6. ASSUME NEW j \in Intents, j \in ordered, orderFact'[j].submission = "ACCEPTED"
        PROVE  j \in Orders!RecoverNonterminal'
    <3>1. orderFact'[j] \in Orders!OrderFactSnapshot
      BY <1>4, <1>5 DEF Orders!TypeOK
    <3> QED BY <1>1, <2>6, <3>1 DEF Orders!RecoverNonterminal, Orders!Readable, Orders!OrderFactSnapshot
  <2>7. \A t \in trades' : t.intent \in Orders!RecoverNonterminal'
    <3> SUFFICES ASSUME NEW t \in trades' PROVE t.intent \in Orders!RecoverNonterminal'
      OBVIOUS
    <3>1. t.intent \in Intents /\ t.intent \in ordered
      BY <1>2, <1>8, <1>17 DEF Orders!TypeOK, Orders!TradesBelong, Orders!RecoverNonterminal
    <3>2. t.trade.order # None
      BY <1>9, FactsAssumption DEF Orders!TypeOK, Orders!OrderAssumption, Orders!TradeType
    <3> QED BY <2>2, <2>5, <2>6, <3>1, <3>2
  <2>8. \A j \in Intents : orderFact'[j].cancel # "NONE" => j \in Orders!RecoverNonterminal'
    <3> SUFFICES ASSUME NEW j \in Intents, orderFact'[j].cancel # "NONE"
                 PROVE  j \in Orders!RecoverNonterminal'
      OBVIOUS
    <3>1. j \in ordered /\ orderFact'[j].submission = "ACCEPTED"
      BY <1>2, <1>3, <1>5 DEF CancelledIsAccepted, Orders!TradesBelong, Orders!RecoverNonterminal
    <3> QED BY <2>6, <3>1
  <2> QED BY <2>1, <2>2, <2>4, <2>5, <2>7, <2>8
          DEF Orders!TradesBelong, Orders!MatchesIdentity
<1> QED BY <1>9, <1>10, <1>11, <1>12, <1>13, <1>14, <1>15, <1>16, <1>19

\* Every step of orders, and every step of another part, keeps the invariant.
LEMMA OrderStep == OrderInv /\ [Orders!Next]_orderVars => OrderInv'
<1>1. ASSUME OrderInv, NEW c \in Cores, Orders!Abort(c) PROVE OrderInv'
  <2> USE <1>1 DEF Orders!Abort, Orders!tables, OrderInv
  <2>1. \A d \in Cores : orderTx'[d] # None => orderTx'[d] = orderTx[d]
    BY DEF Orders!TypeOK
  <2>2. Orders!TypeOK'
    BY DEF Orders!TypeOK
  <2>3. OneTransaction' /\ TransactionHeld'
    BY <2>1 DEF OneTransaction, TransactionHeld
  <2> QED BY <2>2, <2>3, OrderRowsKept
<1>2. ASSUME OrderInv, Orders!Next PROVE OrderInv'
  <2>1. CASE \E i \in Intents : Orders!EnsureIntent(i)
    BY <1>2, <2>1, EnsureIntentInv
  <2>2. CASE \E c \in Cores : Orders!Commit(c) \/ Orders!Abort(c)
    BY <1>1, <1>2, <2>2, OrderCommitInv
  <2>3. CASE \E c \in Cores, i \in Intents :
                \/ Orders!SubmitStarted(c, i)
                \/ \E o \in OrderIds : Orders!SubmitAccepted(c, i, o)
                \/ Orders!SubmitRejected(c, i)
                \/ Orders!SubmitUnknown(c, i)
                \/ \E q \in QueryIds : Orders!QueryNotFound(c, i, q)
                \/ \E q \in QueryIds, o \in OrderIds : Orders!QueryFound(c, i, q, o)
                \/ Orders!CancelRequested(c, i)
                \/ \E s \in {"UNKNOWN", "CONFIRMED"} : Orders!CancelResult(c, i, s)
                \/ \E t \in Trades : \/ Orders!RecordTrade(c, i, t)
                                     \/ Orders!DuplicateTrade(c, i, t)
                                     \/ Orders!ConflictingTrade(c, i, t)
    <3> PICK c \in Cores, i \in Intents :
                \/ Orders!SubmitStarted(c, i)
                \/ \E o \in OrderIds : Orders!SubmitAccepted(c, i, o)
                \/ Orders!SubmitRejected(c, i)
                \/ Orders!SubmitUnknown(c, i)
                \/ \E q \in QueryIds : Orders!QueryNotFound(c, i, q)
                \/ \E q \in QueryIds, o \in OrderIds : Orders!QueryFound(c, i, q, o)
                \/ Orders!CancelRequested(c, i)
                \/ \E s \in {"UNKNOWN", "CONFIRMED"} : Orders!CancelResult(c, i, s)
                \/ \E t \in Trades : \/ Orders!RecordTrade(c, i, t)
                                     \/ Orders!DuplicateTrade(c, i, t)
                                     \/ Orders!ConflictingTrade(c, i, t)
      BY <2>3
    <3> QED BY <1>2, HandlersDecide
  <2> QED BY <1>2, <2>1, <2>2, <2>3 DEF Orders!Next
<1>3. ASSUME OrderInv, UNCHANGED orderVars PROVE OrderInv'
  <2>1. OneTransaction' /\ TransactionHeld' /\ Orders!TypeOK'
    BY <1>3 DEF orderVars, OrderInv, OneTransaction, TransactionHeld, Orders!TypeOK
  <2> QED BY <1>3, <2>1, OrderRowsKept DEF orderVars, OrderInv
<1> QED BY <1>2, <1>3

\* Whatever other transactions commit in between, an open one still fits its row.
LEMMA OrderSnapshot == OrderInv => Orders!SnapshotHeld
<1> SUFFICES ASSUME OrderInv, NEW c \in Cores, orderTx[c] # None
             PROVE  LET now == orderFact[orderTx[c].intent]
                        next == orderTx[c].row
                    IN  /\ next.version = now.version + 1
                        /\ next.filled >= now.filled
                        /\ now.order # None => next.order = now.order
  BY DEF Orders!SnapshotHeld
<1> DEFINE w == orderTx[c]
           f == orderFact[w.intent]
<1>1. /\ w.row.version = f.version + 1
      /\ w.trade = None => w.row.filled = f.filled
      /\ w.trade # None => w.trade.quantity \in Nat /\ w.row.filled = f.filled + w.trade.quantity
      /\ f.order # None => w.row.order = f.order
  BY TransactionRow, DecisionRow
<1>2. f.filled \in Nat
  BY TransactionRow DEF Orders!OrderFactSnapshot
<1> QED BY <1>1, <1>2

LEMMA OrderAlways == Spec => []OrderInv
<1>1. Init => OrderInv
  BY OrderInit DEF Init
<1>2. [Next]_vars => [Orders!Next]_orderVars
  BY DEF Next, vars
<1>3. OrderInv /\ [Next]_vars => OrderInv'
  BY <1>2, OrderStep
<1> QED BY <1>1, <1>3, PTL DEF Spec

\* Whatever order the answers, queries, cancellations and trade reports of orders arrive
\* in, on however many cores, an order's row follows from the immutable facts stored with
\* it: its fill is the sum of its trades, its states are those its latest actions name,
\* its trades are its own, it was submitted once, and no open transaction will undo that.
THEOREM RowsFollowFromFacts == Spec => []OrderRowsExplained
<1>1. OrderInv => OrderRowsExplained
  BY OrderSnapshot DEF OrderInv, OrderRowsExplained
<1> QED BY <1>1, OrderAlways, PTL

\* Each commit is a step of the protocol of one order, or changes nothing it speaks of.
LEMMA CommitIsProtocolStep ==
    ASSUME OrderInv, NEW c \in Cores, Orders!Commit(c)
    PROVE  [Orders!Protocol!Next]_(Orders!Protocol!protocolVars)
<1> PICK w \in TransactionType : w = orderTx[c]
  BY TransactionRow DEF Orders!Commit
<1> DEFINE i == w.intent
           f == orderFact[i]
<1>1. /\ w # None /\ Orders!NoUniqueViolation(w)
      /\ orderFact' = [orderFact EXCEPT ![i] = w.row]
      /\ trades' = IF w.trade = None THEN trades
                   ELSE trades \cup {[intent |-> i, trade |-> w.trade]}
  BY DEF Orders!Commit
<1>2. /\ i \in Intents /\ f \in Orders!OrderFactSnapshot /\ Decision(w, f)
      /\ f.order # None <=> f.submission = "ACCEPTED"
  BY <1>1, TransactionRow
<1>3. orderFact \in [Intents -> Orders!OrderFactSnapshot]
  BY DEF OrderInv, Orders!TypeOK
<1> DEFINE submission == [j \in Intents |-> orderFact[j].submission]
           cancel == [j \in Intents |-> orderFact[j].cancel]
           order == [j \in Intents |-> orderFact[j].order]
<1>4. /\ submission' = [submission EXCEPT ![i] = w.row.submission]
      /\ cancel' = [cancel EXCEPT ![i] = w.row.cancel]
      /\ order' = [order EXCEPT ![i] = w.row.order]
  BY <1>1, <1>2, <1>3
<1>5. /\ submission[i] = f.submission /\ cancel[i] = f.cancel /\ order[i] = f.order
      /\ w.row.cancel = f.cancel => UNCHANGED cancel
      /\ w.row.submission = f.submission => UNCHANGED submission
      /\ w.row.order = f.order => UNCHANGED order
  BY <1>1, <1>2, <1>3
<1>6. CASE SubmissionDecided(w, f)
  <2>1. /\ UNCHANGED trades /\ w.row.cancel = f.cancel
        /\ w.row.submission = Orders!SubmissionAfter[w.action]
        /\ f.submission = SubmissionBefore[w.action]
        /\ w.action \in DOMAIN Orders!SubmissionAfter
        /\ w.row.submission # "ACCEPTED" => w.row.order = f.order
        /\ w.row.submission = "ACCEPTED" => w.row.order \in OrderIds
    BY <1>1, <1>2, <1>6 DEF SubmissionDecided, Orders!OrderFactSnapshot
  <2> USE DEF Orders!SubmissionAfter, SubmissionBefore
  <2>2. CASE w.action = "SUBMIT_STARTED"
    <3>1. Orders!Protocol!Submit(i)
      BY <1>4, <1>5, <2>1, <2>2 DEF Orders!Protocol!Submit
    <3> QED BY <1>2, <3>1 DEF Orders!Protocol!Next
  <2>3. CASE w.action = "SUBMIT_REJECTED"
    <3>1. Orders!Protocol!Reject(i)
      BY <1>4, <1>5, <2>1, <2>3 DEF Orders!Protocol!Reject
    <3> QED BY <1>2, <3>1 DEF Orders!Protocol!Next
  <2>4. CASE w.action = "SUBMIT_UNKNOWN"
    <3>1. Orders!Protocol!LoseAnswer(i)
      BY <1>4, <1>5, <2>1, <2>4 DEF Orders!Protocol!LoseAnswer
    <3> QED BY <1>2, <3>1 DEF Orders!Protocol!Next
  <2>5. CASE w.action \in {"SUBMIT_ACCEPTED", "QUERY_FOUND"}
    <3>1. f.order = None /\ w.row.order \in OrderIds /\ w.row.order # None
      BY <1>2, <2>1, <2>5, FactsAssumption DEF Orders!OrderAssumption
    <3>2. \A j \in Intents : VenueOf[j] = VenueOf[i] => order[j] # w.row.order
      <4>1. \A j \in Intents \ ordered : order[j] = None
        BY DEF OrderInv, UnknownIsNew, Orders!NewFact
      <4>2. \A j \in ordered \ {i} : VenueOf[j] = VenueOf[i] => orderFact[j].order # w.row.order
        BY <1>1, <3>1 DEF Orders!NoUniqueViolation
      <4> QED BY <1>5, <3>1, <4>1, <4>2
    <3>3. /\ submission[i] \in {"IN_FLIGHT", "UNKNOWN"} /\ w.row.submission = "ACCEPTED"
          /\ UNCHANGED cancel /\ UNCHANGED trades
      BY <1>5, <2>1, <2>5
    <3> HIDE DEF Orders!SubmissionAfter, SubmissionBefore
    <3>4. Orders!Protocol!Bind(i, w.row.order)
      BY <1>4, <3>2, <3>3 DEF Orders!Protocol!Bind
    <3> QED BY <1>2, <3>1, <3>4 DEF Orders!Protocol!Next
  <2>6. CASE w.action = "QUERY_NOT_FOUND"
    BY <1>5, <2>1, <2>6 DEF Orders!Protocol!protocolVars
  <2> QED BY <2>1, <2>2, <2>3, <2>4, <2>5, <2>6
<1>7. CASE CancelDecided(w, f)
  <2>1. /\ UNCHANGED trades /\ f.submission = "ACCEPTED"
        /\ w.row.submission = f.submission /\ w.row.order = f.order
        /\ w.row.cancel = Orders!CancelAfter[w.action]
        /\ w.action \in DOMAIN Orders!CancelAfter
        /\ f.cancel \in IF w.action = "CANCEL_REQUESTED" THEN {"NONE", "UNKNOWN"}
                        ELSE {"REQUESTED", "UNKNOWN"}
    BY <1>1, <1>2, <1>7 DEF CancelDecided, Orders!OrderFactSnapshot
  <2>2. CASE w.action = "CANCEL_REQUESTED"
    <3>1. Orders!Protocol!RequestCancel(i)
      BY <1>4, <1>5, <2>1, <2>2 DEF Orders!Protocol!RequestCancel, Orders!CancelAfter
    <3> QED BY <1>2, <3>1 DEF Orders!Protocol!Next
  <2>3. CASE w.action # "CANCEL_REQUESTED"
    <3>1. w.row.cancel \in {"UNKNOWN", "CONFIRMED"}
      BY <2>1, <2>3 DEF Orders!CancelAfter
    <3>2. Orders!Protocol!AnswerCancel(i, w.row.cancel)
      BY <1>4, <1>5, <2>1, <2>3 DEF Orders!Protocol!AnswerCancel
    <3> QED BY <1>2, <3>1, <3>2 DEF Orders!Protocol!Next
  <2> QED BY <2>2, <2>3
<1>8. CASE FillDecided(w, f)
  <2>1. /\ w.row.submission = f.submission /\ w.row.cancel = f.cancel /\ w.row.order = f.order
        /\ w.trade \in Trades /\ w.trade # None
        /\ f.order = w.trade.order /\ VenueOf[i] = w.trade.venue
    BY <1>2, <1>8, FactsAssumption DEF FillDecided, Orders!OrderFactSnapshot, Orders!OrderAssumption
  <2>2. \A r \in trades :
           ~(r.trade.venue = w.trade.venue /\ r.trade.order = w.trade.order /\ r.trade.id = w.trade.id)
    BY <1>1, <2>1 DEF Orders!NoUniqueViolation, Orders!Booked, Orders!TradeKey
  <2>3. Orders!Protocol!Book(i, w.trade)
    BY <1>1, <1>5, <2>1, <2>2 DEF Orders!Protocol!Book
  <2> QED BY <1>2, <2>1, <2>3 DEF Orders!Protocol!Next
<1>9. CASE RepeatDecided(w, f)
  <2>1. /\ UNCHANGED trades
        /\ w.row.submission = f.submission /\ w.row.cancel = f.cancel /\ w.row.order = f.order
    BY <1>1, <1>2, <1>9 DEF RepeatDecided, Orders!OrderFactSnapshot
  <2> QED BY <1>5, <2>1 DEF Orders!Protocol!protocolVars
<1> QED BY <1>2, <1>6, <1>7, <1>8, <1>9 DEF Decision

\* Order rows, locks, versions and retries together implement the protocol of a single
\* order: submitted once, an unknown outcome only resolved by finding the order, an
\* exchange order id of one order for ever, each trade key booked once.
THEOREM OrdersFollowProtocol == Spec => ImplementsProtocol
<1>1. Init => Orders!Protocol!Init
  BY DEF Init, Orders!Init, Orders!Protocol!Init, Orders!NewFact
<1>2. OrderInv /\ [Next]_vars => [Orders!Protocol!Next]_(Orders!Protocol!protocolVars)
  <2> SUFFICES ASSUME OrderInv, [Orders!Next]_orderVars
               PROVE  [Orders!Protocol!Next]_(Orders!Protocol!protocolVars)
    BY DEF Next, vars
  <2>1. CASE \E c \in Cores : Orders!Commit(c)
    BY <2>1, CommitIsProtocolStep
  <2>2. CASE UNCHANGED <<orderFact, trades>>
    BY <2>2 DEF Orders!Protocol!protocolVars
  <2>3. ASSUME NEW c \in Cores, NEW i \in Intents,
               \/ Orders!SubmitStarted(c, i)
               \/ \E o \in OrderIds : Orders!SubmitAccepted(c, i, o)
               \/ Orders!SubmitRejected(c, i)
               \/ Orders!SubmitUnknown(c, i)
               \/ \E q \in QueryIds : Orders!QueryNotFound(c, i, q)
               \/ \E q \in QueryIds, o \in OrderIds : Orders!QueryFound(c, i, q, o)
               \/ Orders!CancelRequested(c, i)
               \/ \E s \in {"UNKNOWN", "CONFIRMED"} : Orders!CancelResult(c, i, s)
               \/ \E t \in Trades : \/ Orders!RecordTrade(c, i, t)
                                    \/ Orders!DuplicateTrade(c, i, t)
                                    \/ Orders!ConflictingTrade(c, i, t)
        PROVE  UNCHANGED <<orderFact, trades>>
    <3>1. UNCHANGED Orders!tables
      BY <2>3 DEF Orders!SubmitStarted, Orders!SubmitAccepted, Orders!SubmitRejected,
         Orders!SubmitUnknown, Orders!QueryNotFound, Orders!QueryFound,
         Orders!CancelRequested, Orders!CancelResult, Orders!RecordTrade,
         Orders!DuplicateTrade, Orders!ConflictingTrade, Orders!Prepare
    <3> QED BY <3>1 DEF Orders!tables
  <2>4. (\E i \in Intents : Orders!EnsureIntent(i)) \/ (\E c \in Cores : Orders!Abort(c))
        \/ UNCHANGED orderVars => UNCHANGED <<orderFact, trades>>
    BY DEF Orders!EnsureIntent, Orders!Abort, Orders!tables, orderVars
  <2> QED BY <2>1, <2>2, <2>3, <2>4 DEF Orders!Next
<1> QED BY <1>1, <1>2, OrderAlways, PTL
        DEF Spec, ImplementsProtocol, Orders!ImplementsProtocol, Orders!Protocol!Spec

-----------------------------------------------------------------------------
(* Operator commands *)

\* A core inserts a command, or completes one.
Inserted(c) == commandTx[c] # None /\ commandTx[c].step = "inserted"
Completing(c) == commandTx[c] # None /\ commandTx[c].step = "complete"

CommandTransaction == [step : {"insert", "inserted", "complete"},
                       command : Control!CommandIds, row : Control!Row]

\* Every transaction is of a core, and a submission starts with no completion.
CallsOfCores ==
    /\ commandTx \in [Cores -> {None} \cup CommandTransaction]
    /\ \A c \in Cores : commandTx[c] # None /\ commandTx[c].step \in {"insert", "inserted"} =>
          commandTx[c].row.status \in {"RECEIVED", "EXPIRED"}

\* The unique keys: an inserted row clashes with no stored and no other inserted one.
InsertedAlone ==
    \A c \in Cores : Inserted(c) =>
        /\ commandTx[c].command \notin Control!Stored
        /\ Control!Bound(commandTx[c].row.request) = {}
        /\ \A d \in Cores : Inserted(d) /\ c # d =>
              /\ commandTx[c].command # commandTx[d].command
              /\ commandTx[c].row.request # commandTx[d].row.request

\* The row lock of complete: the row a completion has read is still the row, and is not
\* taken out of its expiry.
CompletionHeld ==
    \A c \in Cores : Completing(c) =>
        LET row == commands[commandTx[c].command]
            new == commandTx[c].row
        IN  /\ commandTx[c].command \in Control!Stored
            /\ new.request = row.request
            /\ row.status = "EXPIRED" => new.status = "EXPIRED"
            /\ new.status # "EXPIRED" => new.result \in Results
            /\ \A d \in Cores : Completing(d) /\ c # d =>
                  commandTx[c].command # commandTx[d].command

CommandInv ==
    /\ Control!TypeOK
    /\ CallsOfCores
    /\ InsertedAlone
    /\ CompletionHeld
    /\ Control!RequestsBound
    /\ Control!ResultsTraced

LEMMA CommandInit == Control!Init => CommandInv
<1> SUFFICES ASSUME Control!Init PROVE CommandInv
  OBVIOUS
<1> USE DEF Control!Init
<1>1. Control!Stored = {} /\ \A q : Control!Bound(q) = {}
  BY DEF Control!Stored, Control!Bound
<1>2. Control!TypeOK
  BY DEF Control!TypeOK
<1>3. CallsOfCores /\ InsertedAlone /\ CompletionHeld
  BY DEF CallsOfCores, InsertedAlone, CompletionHeld, Inserted, Completing
<1> QED BY <1>1, <1>2, <1>3
        DEF CommandInv, Control!RequestsBound, Control!ResultsTraced

\* A step that stores nothing keeps what is said of the rows.
LEMMA CommandRowsKept ==
    ASSUME CommandInv, UNCHANGED <<commands, audits>>
    PROVE  /\ \A q : Control!Bound(q)' = Control!Bound(q)
           /\ Control!Stored' = Control!Stored
           /\ Control!ResultsTraced'
           /\ acked' = acked => Control!RequestsBound'
<1>1. /\ \A q : Control!Bound(q)' = Control!Bound(q)
      /\ Control!Stored' = Control!Stored
  BY DEF Control!Bound, Control!Stored
<1> QED BY <1>1 DEF CommandInv, Control!ResultsTraced, Control!RequestsBound

\* A step of one core's transaction alone: what it holds now must be right, the other
\* transactions are as they were.
LEMMA CommandCallStep ==
    ASSUME CommandInv, NEW c \in Cores, NEW w, commandTx' = [commandTx EXCEPT ![c] = w],
           UNCHANGED <<commands, audits, acked>>,
           w # None => /\ w \in CommandTransaction
                       /\ w.step # "complete" => w.row.status \in {"RECEIVED", "EXPIRED"}
                       /\ w.step = "inserted" =>
                             /\ w.command \notin Control!Stored
                             /\ Control!Bound(w.row.request) = {}
                             /\ \A d \in Cores \ {c} : Inserted(d) =>
                                   /\ w.command # commandTx[d].command
                                   /\ w.row.request # commandTx[d].row.request
                       /\ w.step = "complete" =>
                             /\ w.command \in Control!Stored
                             /\ w.row.request = commands[w.command].request
                             /\ commands[w.command].status = "EXPIRED" => w.row.status = "EXPIRED"
                             /\ w.row.status # "EXPIRED" => w.row.result \in Results
                             /\ \A d \in Cores \ {c} : Completing(d) =>
                                   w.command # commandTx[d].command
    PROVE  CommandInv'
<1> USE DEF CommandInv
<1>1. /\ commandTx' \in [Cores -> {None} \cup CommandTransaction]
      /\ \A d \in Cores : commandTx'[d] = IF d = c THEN w ELSE commandTx[d]
  BY DEF CallsOfCores
<1>2. Control!TypeOK'
  BY <1>1 DEF Control!TypeOK, CommandTransaction
<1>3. CallsOfCores'
  BY <1>1 DEF CallsOfCores
<1>4. InsertedAlone'
  BY <1>1, CommandRowsKept DEF InsertedAlone, Inserted
<1>5. CompletionHeld'
  BY <1>1, CommandRowsKept DEF CompletionHeld, Completing
<1> QED BY <1>2, <1>3, <1>4, <1>5, CommandRowsKept

LEMMA SubmitInv ==
    ASSUME CommandInv, NEW c \in Cores, NEW r \in Requests,
           \/ Control!SubmitReplay(c, r)
           \/ \E now \in Control!Moments : Control!SubmitNew(c, r, now)
    PROVE  CommandInv'
<1>1. CASE Control!SubmitReplay(c, r)
  <2> USE <1>1 DEF Control!SubmitReplay, CommandInv
  <2>1. Control!Bound(r.request) = {r.command}
    BY DEF Control!RequestsBound, Control!Bound, Control!Stored
  <2>2. Control!RequestsBound'
    BY <2>1, CommandRowsKept DEF Control!RequestsBound
  <2>3. Control!TypeOK'
    BY DEF Control!TypeOK
  <2>4. CallsOfCores' /\ InsertedAlone' /\ CompletionHeld'
    BY CommandRowsKept DEF CallsOfCores, InsertedAlone, CompletionHeld, Inserted, Completing
  <2> QED BY <2>2, <2>3, <2>4, CommandRowsKept
<1>2. CASE \E now \in Control!Moments : Control!SubmitNew(c, r, now)
  <2> PICK now \in Control!Moments : Control!SubmitNew(c, r, now)
    BY <1>2
  <2> DEFINE row == [request |-> r.request, expires |-> r.expires, result |-> None,
                     status |-> IF r.expires <= now THEN "EXPIRED" ELSE "RECEIVED"]
             w == [step |-> "insert", command |-> r.command, row |-> row]
  <2>1. row.status \in {"RECEIVED", "EXPIRED"} /\ row \in Control!Row
    BY FactsAssumption DEF Control!ControlAssumption,
       Control!Row, Control!ControlStatus
  <2>2. w \in CommandTransaction
    BY <2>1 DEF CommandTransaction, Control!CommandIds
  <2> QED BY <2>1, <2>2, CommandCallStep DEF Control!SubmitNew
<1> QED BY <1>1, <1>2

LEMMA InsertCommandInv ==
    ASSUME CommandInv, NEW c \in Cores, Control!InsertCommand(c)
    PROVE  CommandInv'
<1> DEFINE w == [commandTx[c] EXCEPT !.step = "inserted"]
<1> USE DEF Control!InsertCommand
<1>1. /\ commandTx[c] \in CommandTransaction
      /\ commandTx[c].row.status \in {"RECEIVED", "EXPIRED"}
  BY DEF CommandInv, CallsOfCores
<1>2. /\ w \in CommandTransaction /\ w.step = "inserted" /\ w.command = commandTx[c].command
      /\ w.row = commandTx[c].row
  BY <1>1 DEF CommandTransaction
<1>3. commandTx' = [commandTx EXCEPT ![c] = w]
  BY DEF CommandInv, CallsOfCores
<1> HIDE DEF w
<1>4. \A d \in Cores \ {c} : Inserted(d) => /\ w.command # commandTx[d].command
                                            /\ w.row.request # commandTx[d].row.request
  BY <1>2 DEF Control!KeysFree, Inserted
<1>5. /\ w.command \notin Control!Stored
      /\ Control!Bound(w.row.request) = {}
  BY <1>2 DEF Control!KeysFree
<1> QED BY <1>1, <1>2, <1>3, <1>4, <1>5, CommandCallStep

LEMMA CompleteInv ==
    ASSUME CommandInv, NEW c \in Cores, NEW k \in Control!CommandIds,
           NEW status \in Control!ControlStatus, NEW result \in Results,
           NEW now \in Control!Moments,
           Control!Complete(c, k, status, result, now)
    PROVE  CommandInv'
<1> DEFINE row == Control!Settled(commands[k], status, result, now)
           w == [step |-> "complete", command |-> k, row |-> row]
<1> USE DEF Control!Complete
<1>1. commands[k] \in Control!Row
  BY DEF CommandInv, Control!TypeOK, Control!Stored
<1>2. /\ row \in Control!Row /\ row.request = commands[k].request
      /\ commands[k].status = "EXPIRED" => row.status = "EXPIRED"
      /\ row.status # "EXPIRED" => row.result \in Results
  BY <1>1 DEF Control!Settled, Control!Row, Control!ControlStatus
<1> HIDE DEF row
<1>3. w \in CommandTransaction
  BY <1>2 DEF CommandTransaction
<1> QED BY <1>2, <1>3, CommandCallStep DEF Control!RowFree, Completing, row

LEMMA CommandAbortInv ==
    ASSUME CommandInv, NEW c \in Cores, Control!Abort(c)
    PROVE  CommandInv'
BY CommandCallStep DEF Control!Abort

LEMMA CommitSubmitInv ==
    ASSUME CommandInv, NEW c \in Cores, Control!CommitSubmit(c)
    PROVE  CommandInv'
<1> DEFINE k == commandTx[c].command
           row == commandTx[c].row
<1> USE DEF CommandInv
<1>1. /\ Inserted(c)
      /\ commands' = [commands EXCEPT ![k] = row]
      /\ audits' = [audits EXCEPT ![k] = <<row.status>>]
      /\ acked' = acked \cup {r \in Requests : /\ r.command = k /\ r.request = row.request
                                               /\ r.expires = row.expires}
      /\ commandTx' = [commandTx EXCEPT ![c] = None]
  BY DEF Control!CommitSubmit, Inserted
<1>2. /\ k \in Control!CommandIds /\ row \in Control!Row /\ row # None
      /\ row.status \in {"RECEIVED", "EXPIRED"}
      /\ k \notin Control!Stored /\ Control!Bound(row.request) = {}
  <2>1. commandTx[c] \in CommandTransaction
    BY <1>1 DEF CallsOfCores, Inserted
  <2>2. row # None
    BY <2>1, FactsAssumption DEF CommandTransaction,
       Control!ControlAssumption
  <2> QED BY <1>1, <2>1, <2>2 DEF CommandTransaction, CallsOfCores, InsertedAlone, Inserted
<1> HIDE DEF k, row
<1>3. \A j \in Control!CommandIds :
         /\ commands'[j] = IF j = k THEN row ELSE commands[j]
         /\ audits'[j] = IF j = k THEN <<row.status>> ELSE audits[j]
  BY <1>1, <1>2 DEF Control!TypeOK
<1>4. /\ Control!Stored' = Control!Stored \cup {k}
      /\ \A q : Control!Bound(q)' = IF q = row.request THEN {k}
                                             ELSE Control!Bound(q)
  BY <1>2, <1>3 DEF Control!Stored, Control!Bound
<1>5. \A d \in Cores : /\ commandTx'[d] # None => d # c /\ commandTx'[d] = commandTx[d]
                       /\ Inserted(d)' => d # c /\ Inserted(d)
                       /\ Completing(d)' => d # c /\ Completing(d)
  BY <1>1 DEF CallsOfCores, Inserted, Completing
<1>6. Control!TypeOK'
  <2>1. commands' \in [Control!CommandIds -> Control!Row \cup {None}]
    BY <1>1, <1>2 DEF Control!TypeOK
  <2>2. audits' \in [Control!CommandIds -> Seq(Control!ControlStatus \cup Results)]
    BY <1>1, <1>2 DEF Control!TypeOK, Control!ControlStatus
  <2>3. acked' \subseteq Requests
    BY <1>1 DEF Control!TypeOK
  <2> QED BY <1>5, <2>1, <2>2, <2>3 DEF Control!TypeOK
<1>7. CallsOfCores'
  BY <1>1, <1>5 DEF CallsOfCores
<1>8. InsertedAlone'
  BY <1>1, <1>4, <1>5 DEF InsertedAlone, Inserted, k, row
<1>9. CompletionHeld'
  BY <1>2, <1>3, <1>4, <1>5 DEF CompletionHeld, Completing, Control!Stored
<1>10. Control!RequestsBound'
  <2>1. \A r \in acked' : Control!Bound(r.request)' = {r.command}
    BY <1>1, <1>2, <1>4 DEF Control!RequestsBound
  <2>2. \A j \in Control!Stored : commands[j].request # row.request
    BY <1>2 DEF Control!Bound
  <2>3. \A i, j \in Control!Stored' : commands'[i].request = commands'[j].request => i = j
    BY <1>2, <1>3, <1>4, <2>2 DEF Control!RequestsBound, Control!Stored
  <2> QED BY <2>1, <2>3 DEF Control!RequestsBound
<1>11. Control!ResultsTraced'
  BY <1>2, <1>3, <1>4 DEF Control!ResultsTraced, Control!Stored, Control!Completions
<1> QED BY <1>6, <1>7, <1>8, <1>9, <1>10, <1>11

LEMMA CommitCompleteInv ==
    ASSUME CommandInv, NEW c \in Cores, Control!CommitComplete(c)
    PROVE  CommandInv'
<1> DEFINE k == commandTx[c].command
           row == commandTx[c].row
<1> USE DEF CommandInv
<1>1. /\ Completing(c)
      /\ commands' = [commands EXCEPT ![k] = row]
      /\ IF row.status = "EXPIRED" THEN UNCHANGED audits
         ELSE audits' = [audits EXCEPT ![k] = Append(@, row.result)]
      /\ commandTx' = [commandTx EXCEPT ![c] = None]
      /\ acked' = acked
  BY DEF Control!CommitComplete, Completing
<1>2. /\ k \in Control!CommandIds /\ row \in Control!Row /\ row # None
      /\ k \in Control!Stored /\ row.request = commands[k].request
  <2>1. commandTx[c] \in CommandTransaction
    BY <1>1 DEF CallsOfCores, Completing
  <2>2. row # None
    BY <2>1, FactsAssumption DEF CommandTransaction,
       Control!ControlAssumption
  <2> QED BY <1>1, <2>1, <2>2 DEF CommandTransaction, CompletionHeld, Completing
<1> HIDE DEF k, row
<1>3. \A j \in Control!CommandIds : commands'[j] = IF j = k THEN row ELSE commands[j]
  BY <1>1, <1>2 DEF Control!TypeOK
<1>4. /\ Control!Stored' = Control!Stored
      /\ \A q : Control!Bound(q)' = Control!Bound(q)
  BY <1>2, <1>3 DEF Control!Stored, Control!Bound
<1>5. \A d \in Cores : /\ commandTx'[d] # None => d # c /\ commandTx'[d] = commandTx[d]
                       /\ Inserted(d)' => d # c /\ Inserted(d)
                       /\ Completing(d)' => d # c /\ Completing(d) /\ commandTx[d].command # k
  BY <1>1 DEF CallsOfCores, Inserted, Completing, CompletionHeld, k
<1>6. /\ audits[k] \in Seq(Control!ControlStatus \cup Results) /\ audits[k] # <<>>
      /\ row.status # "EXPIRED" => row.result \in Results
  BY <1>1, <1>2 DEF Control!TypeOK, Control!ResultsTraced, CompletionHeld, k, row
<1>7. \A j \in Control!CommandIds :
         audits'[j] = IF j = k /\ row.status # "EXPIRED" THEN Append(audits[j], row.result)
                      ELSE audits[j]
  BY <1>1, <1>2 DEF Control!TypeOK
<1>8. Control!TypeOK'
  <2>1. commands' \in [Control!CommandIds -> Control!Row \cup {None}]
    BY <1>1, <1>2 DEF Control!TypeOK
  <2>2. audits' \in [Control!CommandIds -> Seq(Control!ControlStatus \cup Results)]
    <3>1. row.status # "EXPIRED" =>
             Append(audits[k], row.result) \in Seq(Control!ControlStatus \cup Results)
      BY <1>6
    <3> QED BY <1>1, <1>2, <3>1 DEF Control!TypeOK
  <2> QED BY <1>1, <1>5, <2>1, <2>2 DEF Control!TypeOK
<1>9. CallsOfCores'
  BY <1>1, <1>5 DEF CallsOfCores
<1>10. InsertedAlone'
  BY <1>4, <1>5 DEF InsertedAlone, Inserted
<1>11. CompletionHeld'
  BY <1>2, <1>3, <1>4, <1>5 DEF CompletionHeld, Completing, Control!Stored
<1>12. Control!RequestsBound'
  <2>1. \A j \in Control!Stored : commands'[j].request = commands[j].request
    BY <1>2, <1>3 DEF Control!Stored
  <2> QED BY <1>1, <1>4, <2>1 DEF Control!RequestsBound
<1>13. Control!ResultsTraced'
  <2> SUFFICES ASSUME NEW j \in Control!Stored
               PROVE  /\ audits'[j] # <<>>
                      /\ commands'[j].status \in Control!Completions =>
                            /\ audits'[j][Len(audits'[j])] = commands'[j].result
                            /\ Len(audits'[j]) > 1
    BY <1>4 DEF Control!ResultsTraced
  <2>1. j \in Control!CommandIds
    BY DEF Control!Stored
  <2>2. CASE j = k /\ row.status # "EXPIRED"
    <3>1. audits'[j] = Append(audits[k], row.result) /\ commands'[j] = row
      BY <1>3, <1>7, <2>1, <2>2
    <3>2. Len(audits[k]) \in Nat \ {0}
      BY <1>6, EmptySeq
    <3>3. /\ Len(Append(audits[k], row.result)) = Len(audits[k]) + 1
          /\ Append(audits[k], row.result)[Len(audits[k]) + 1] = row.result
      BY <1>6, <2>2, AppendProperties
    <3>4. audits'[j] # <<>>
      BY <1>6, <2>2, <3>1, AppendProperties
    <3> QED BY <3>1, <3>2, <3>3, <3>4
  <2>3. CASE j = k /\ row.status = "EXPIRED"
    BY <1>3, <1>6, <1>7, <2>1, <2>3 DEF Control!Completions
  <2>4. CASE j # k
    BY <1>3, <1>7, <2>1, <2>4 DEF Control!ResultsTraced
  <2> QED BY <2>2, <2>3, <2>4
<1> QED BY <1>8, <1>9, <1>10, <1>11, <1>12, <1>13

\* Every step of commands, and every step of another part, keeps the invariant.
LEMMA CommandStep == CommandInv /\ [Control!Next]_commandVars => CommandInv'
<1>1. ASSUME CommandInv, Control!Next PROVE CommandInv'
  <2>1. PICK c \in Cores :
           \/ \E r \in Requests :
                 \/ Control!SubmitReplay(c, r)
                 \/ \E now \in Control!Moments : Control!SubmitNew(c, r, now)
           \/ Control!InsertCommand(c)
           \/ Control!CommitSubmit(c)
           \/ Control!CommitComplete(c)
           \/ Control!Abort(c)
           \/ \E k \in Control!CommandIds, status \in Control!ControlStatus,
                 result \in Results, now \in Control!Moments :
                 Control!Complete(c, k, status, result, now)
    BY <1>1 DEF Control!Next
  <2> QED BY <1>1, <2>1, SubmitInv, InsertCommandInv, CommitSubmitInv, CommitCompleteInv,
             CommandAbortInv, CompleteInv
<1>2. ASSUME CommandInv, UNCHANGED commandVars PROVE CommandInv'
  <2> USE <1>2 DEF commandVars, CommandInv
  <2>1. Control!TypeOK' /\ CallsOfCores' /\ InsertedAlone' /\ CompletionHeld'
    BY CommandRowsKept DEF Control!TypeOK, CallsOfCores, InsertedAlone, CompletionHeld,
       Inserted, Completing
  <2> QED BY <2>1, CommandRowsKept
<1> QED BY <1>1, <1>2

\* A step of Facts is a step of commands or leaves them alone.
LEMMA CommandsInFacts == [Next]_vars => [Control!Next]_commandVars
BY DEF Next, vars, controlVars, commandVars, Dispatch

LEMMA CommandAlways == Spec => []CommandInv
<1>1. Init => CommandInv
  BY CommandInit DEF Init
<1>2. CommandInv /\ [Next]_vars => CommandInv'
  BY CommandStep, CommandsInFacts
<1> QED BY <1>1, <1>2, PTL DEF Spec

\* The result a command shows is the last one its audit log has, whichever cores complete
\* it and whenever it expires.
THEOREM ResultsAreAudited == Spec => []ResultsTraced
<1>1. CommandInv => ResultsTraced
  BY DEF CommandInv, ResultsTraced
<1> QED BY <1>1, CommandAlways, PTL

\* A command that is EXPIRED stays so: a completion decided before is kept out by the row
\* lock of complete, and one decided later leaves the expiry.
THEOREM ExpiryIsFinal == Spec => ExpiredIsFinal
<1> DEFINE Final == \A k \in Control!CommandIds :
                       commands[k] # None /\ commands[k].status = "EXPIRED"
                         => commands'[k] # None /\ commands'[k].status = "EXPIRED"
<1>1. CommandInv /\ [Control!Next]_commandVars => [Final]_(Control!vars)
  <2> SUFFICES ASSUME CommandInv, Control!Next,
                      NEW k \in Control!CommandIds,
                      commands[k] # None, commands[k].status = "EXPIRED"
               PROVE  commands'[k] # None /\ commands'[k].status = "EXPIRED"
    BY DEF commandVars, Control!vars
  <2>1. CASE UNCHANGED commands
    BY <2>1
  <2>2. ASSUME NEW c \in Cores, Control!CommitSubmit(c) PROVE UNCHANGED <<commands[k]>>
    <3>1. /\ commandTx[c].command \notin Control!Stored
          /\ commands' = [commands EXCEPT ![commandTx[c].command] = commandTx[c].row]
      BY <2>2 DEF CommandInv, InsertedAlone, Inserted, Control!CommitSubmit
    <3> QED BY <3>1 DEF Control!Stored, CommandInv, Control!TypeOK
  <2>3. ASSUME NEW c \in Cores, Control!CommitComplete(c)
        PROVE  commands'[k] # None /\ commands'[k].status = "EXPIRED"
    <3>1. /\ Completing(c) /\ commandTx[c] \in CommandTransaction
          /\ commands' = [commands EXCEPT ![commandTx[c].command] = commandTx[c].row]
      BY <2>3 DEF CommandInv, CallsOfCores, Completing, Control!CommitComplete
    <3>2. commandTx[c].row # None
      BY <3>1, FactsAssumption DEF CommandTransaction,
         Control!ControlAssumption
    <3>3. commands[commandTx[c].command].status = "EXPIRED" => commandTx[c].row.status = "EXPIRED"
      BY <3>1 DEF CommandInv, CompletionHeld
    <3> QED BY <3>1, <3>2, <3>3 DEF CommandInv, Control!TypeOK
  <2>4. \/ UNCHANGED commands
        \/ \E c \in Cores : Control!CommitSubmit(c) \/ Control!CommitComplete(c)
    BY DEF Control!Next, Control!SubmitReplay, Control!SubmitNew,
       Control!InsertCommand, Control!Complete, Control!Abort
  <2> QED BY <2>1, <2>2, <2>3, <2>4
<1>2. CommandInv /\ [Next]_vars => [Final]_(Control!vars)
  BY <1>1, CommandsInFacts
<1> QED BY <1>2, CommandAlways, PTL
        DEF Spec, ExpiredIsFinal, Control!ExpiredIsFinal

-----------------------------------------------------------------------------
(* Ledger *)

\* A core has inserted its event, and perhaps some of its lines.
Posting(c) == ledgerTx[c] # None /\ ledgerTx[c].lines >= 0

\* What a core records is an event that was validated.
CallsOfEvents ==
    /\ ledgerTx \in [Cores -> {None} \cup [event : Events, lines : Int]]
    /\ \A c \in Cores : ledgerTx[c] # None => Ledger!Valid(ledgerTx[c].event)

\* Every row is a validated event, whole.
RowsAreEvents ==
    /\ DOMAIN posted = Ledger!EventIds
    /\ IsFiniteSet(Ledger!Recorded)
    /\ \A k \in Ledger!Recorded : \E e \in Events :
          /\ e.id = k /\ Ledger!Valid(e)
          /\ posted[k] = [key |-> e.key, lines |-> e.lines]

\* The unique keys: an inserted event clashes with no row and no other inserted one.
PostingAlone ==
    \A c \in Cores : Posting(c) =>
        LET e == ledgerTx[c].event
        IN  /\ e.id \notin Ledger!Recorded
            /\ Ledger!Under(e.key) = {}
            /\ \A d \in Cores : Posting(d) /\ c # d =>
                  ledgerTx[d].event.id # e.id /\ ledgerTx[d].event.key # e.key

LedgerInv == CallsOfEvents /\ RowsAreEvents /\ PostingAlone /\ Ledger!RecordedOnce

\* The sums of the ledger's instance are those of Sums.
LEMMA LedgerSum ==
    ASSUME NEW f, NEW S PROVE Ledger!SumOver(f, S) = SumOver(f, S)
BY DEF Ledger!SumOver, SumOver, Ledger!MapThenFoldSet, MapThenFoldSet

LEMMA LedgerInit == Ledger!Init => LedgerInv
<1> SUFFICES ASSUME Ledger!Init PROVE LedgerInv
  OBVIOUS
<1> USE DEF Ledger!Init
<1>1. Ledger!Recorded = {} /\ \A key : Ledger!Under(key) = {}
  BY DEF Ledger!Recorded, Ledger!Under
<1>2. CallsOfEvents /\ PostingAlone
  BY DEF CallsOfEvents, PostingAlone, Posting
<1>3. RowsAreEvents
  BY <1>1, FS_EmptySet DEF RowsAreEvents
<1> QED BY <1>1, <1>2, <1>3 DEF LedgerInv, Ledger!RecordedOnce

\* A step that posts nothing keeps what is said of the rows.
LEMMA LedgerRowsKept ==
    ASSUME LedgerInv, UNCHANGED posted
    PROVE  /\ \A key : Ledger!Under(key)' = Ledger!Under(key)
           /\ Ledger!Recorded' = Ledger!Recorded
           /\ RowsAreEvents'
           /\ told' = told => Ledger!RecordedOnce'
<1>1. /\ \A key : Ledger!Under(key)' = Ledger!Under(key)
      /\ Ledger!Recorded' = Ledger!Recorded
  BY DEF Ledger!Under, Ledger!Recorded
<1>2. RowsAreEvents'
  BY <1>1 DEF LedgerInv, RowsAreEvents
<1>3. ASSUME told' = told PROVE Ledger!RecordedOnce'
  BY <1>1, <1>3 DEF LedgerInv, Ledger!RecordedOnce
<1> QED BY <1>1, <1>2, <1>3

\* A step of one core's transaction alone.
LEMMA LedgerCallStep ==
    ASSUME LedgerInv, NEW c \in Cores, NEW w \in {None} \cup [event : Events, lines : Int],
           ledgerTx' = [ledgerTx EXCEPT ![c] = w], UNCHANGED <<posted, told>>,
           w # None =>
              /\ Ledger!Valid(w.event)
              /\ w.lines >= 0 =>
                    /\ w.event.id \notin Ledger!Recorded
                    /\ Ledger!Under(w.event.key) = {}
                    /\ \A d \in Cores \ {c} : Posting(d) =>
                          /\ ledgerTx[d].event.id # w.event.id
                          /\ ledgerTx[d].event.key # w.event.key
    PROVE  LedgerInv'
<1>1. \A d \in Cores : ledgerTx'[d] = IF d = c THEN w ELSE ledgerTx[d]
  BY DEF LedgerInv, CallsOfEvents
<1>2. CallsOfEvents'
  BY <1>1 DEF LedgerInv, CallsOfEvents
<1>3. PostingAlone'
  <2>1. \A d \in Cores : Posting(d)' <=> IF d = c THEN w # None /\ w.lines >= 0 ELSE Posting(d)
    BY <1>1 DEF Posting
  <2> SUFFICES ASSUME NEW x \in Cores, Posting(x)'
               PROVE  LET e == ledgerTx'[x].event
                      IN  /\ e.id \notin Ledger!Recorded
                          /\ Ledger!Under(e.key) = {}
                          /\ \A d \in Cores : Posting(d)' /\ x # d =>
                                ledgerTx'[d].event.id # e.id /\ ledgerTx'[d].event.key # e.key
    BY LedgerRowsKept DEF PostingAlone
  <2>2. CASE x = c
    BY <1>1, <2>1, <2>2
  <2>3. CASE x # c
    BY <1>1, <2>1, <2>3 DEF LedgerInv, PostingAlone
  <2> QED BY <2>2, <2>3
<1> QED BY <1>2, <1>3, LedgerRowsKept DEF LedgerInv

LEMMA ReplayInv ==
    ASSUME LedgerInv, NEW c \in Cores, NEW e \in Events, Ledger!Replay(c, e)
    PROVE  LedgerInv'
<1> USE DEF Ledger!Replay
<1>1. /\ \A key : Ledger!Under(key)' = Ledger!Under(key)
      /\ Ledger!Recorded' = Ledger!Recorded
      /\ RowsAreEvents'
  BY LedgerRowsKept
<1>2. CallsOfEvents'
  BY DEF LedgerInv, CallsOfEvents
<1>3. PostingAlone'
  BY <1>1 DEF LedgerInv, PostingAlone, Posting
<1>4. Ledger!Under(e.key) = {e.id}
  BY DEF LedgerInv, Ledger!RecordedOnce, Ledger!Under
<1>5. Ledger!RecordedOnce'
  <2>1. \A t \in told' : Ledger!Under(t[2]) = {t[1]}
    BY <1>4 DEF LedgerInv, Ledger!RecordedOnce
  <2>2. posted' = posted
    OBVIOUS
  <2> QED BY <1>1, <2>1, <2>2 DEF LedgerInv, Ledger!RecordedOnce
<1> QED BY <1>1, <1>2, <1>3, <1>5 DEF LedgerInv

LEMMA RecordingInv ==
    ASSUME LedgerInv, NEW c \in Cores,
           \/ \E e \in Events : Ledger!Begin(c, e)
           \/ Ledger!AppendEvent(c)
           \/ Ledger!AppendLine(c)
           \/ Ledger!Abort(c)
    PROVE  LedgerInv'
<1> USE DEF LedgerInv, CallsOfEvents
<1>1. ASSUME NEW e \in Events, Ledger!Begin(c, e) PROVE LedgerInv'
  <2> DEFINE w == [event |-> e, lines |-> -1]
  <2>1. /\ w \in [event : Events, lines : Int] /\ ~(w.lines >= 0)
        /\ w.event = e
    OBVIOUS
  <2>2. /\ ledgerTx' = [ledgerTx EXCEPT ![c] = w] /\ UNCHANGED <<posted, told>>
        /\ Ledger!Valid(e)
    BY <1>1 DEF Ledger!Begin
  <2> HIDE DEF w
  <2> QED BY <2>1, <2>2, LedgerCallStep
<1>2. ASSUME Ledger!AppendEvent(c) PROVE LedgerInv'
  <2> DEFINE w == [ledgerTx[c] EXCEPT !.lines = 0]
  <2>1. /\ w \in [event : Events, lines : Int] /\ w.event = ledgerTx[c].event
        /\ ledgerTx' = [ledgerTx EXCEPT ![c] = w] /\ UNCHANGED <<posted, told>>
        /\ ledgerTx[c] # None
    BY <1>2 DEF Ledger!AppendEvent
  <2>2. /\ w.event.id \notin Ledger!Recorded
        /\ Ledger!Under(w.event.key) = {}
        /\ \A d \in Cores \ {c} : Posting(d) =>
              /\ ledgerTx[d].event.id # w.event.id
              /\ ledgerTx[d].event.key # w.event.key
    BY <1>2 DEF Ledger!AppendEvent, Ledger!KeysFree, Posting
  <2> HIDE DEF w
  <2> QED BY <2>1, <2>2, LedgerCallStep
<1>3. ASSUME Ledger!AppendLine(c) PROVE LedgerInv'
  <2> DEFINE w == [ledgerTx[c] EXCEPT !.lines = @ + 1]
  <2>1. /\ w \in [event : Events, lines : Int] /\ w.event = ledgerTx[c].event
        /\ ledgerTx' = [ledgerTx EXCEPT ![c] = w] /\ UNCHANGED <<posted, told>>
        /\ Posting(c)
    BY <1>3 DEF Ledger!AppendLine, Posting
  <2>2. /\ w.event.id \notin Ledger!Recorded
        /\ Ledger!Under(w.event.key) = {}
        /\ \A d \in Cores \ {c} : Posting(d) =>
              /\ ledgerTx[d].event.id # w.event.id
              /\ ledgerTx[d].event.key # w.event.key
    BY <2>1 DEF PostingAlone
  <2> HIDE DEF w
  <2> QED BY <2>1, <2>2, LedgerCallStep DEF Posting
<1>4. ASSUME Ledger!Abort(c) PROVE LedgerInv'
  BY <1>4, LedgerCallStep DEF Ledger!Abort
<1> QED BY <1>1, <1>2, <1>3, <1>4

LEMMA LedgerCommitInv ==
    ASSUME LedgerInv, NEW c \in Cores, Ledger!Commit(c)
    PROVE  LedgerInv'
<1> DEFINE e == ledgerTx[c].event
           row == [key |-> e.key, lines |-> e.lines]
<1>1. /\ e \in Events /\ Ledger!Valid(e) /\ row # None
      /\ e.id \in Ledger!EventIds
      /\ posted' = [posted EXCEPT ![e.id] = row]
      /\ told' = told \cup {<<e.id, e.key>>}
      /\ ledgerTx' = [ledgerTx EXCEPT ![c] = None]
      /\ row.key = e.key
  BY FactsAssumption DEF LedgerInv, CallsOfEvents, Ledger!Commit,
     Ledger!LedgerAssumption, Ledger!EventIds
<1>2. Posting(c)
  <2>1. Len(e.lines) \in Nat
    BY <1>1, FactsAssumption DEF Ledger!LedgerAssumption
  <2> QED BY <2>1 DEF Ledger!Commit, Posting
<1>3. /\ e.id \notin Ledger!Recorded
      /\ Ledger!Under(e.key) = {}
      /\ \A d \in Cores : Posting(d) /\ c # d =>
            ledgerTx[d].event.id # e.id /\ ledgerTx[d].event.key # e.key
  BY <1>2 DEF LedgerInv, PostingAlone
<1>4. \E x \in Events : /\ x.id = e.id /\ Ledger!Valid(x)
                        /\ row = [key |-> x.key, lines |-> x.lines]
  BY <1>1
<1> HIDE DEF e, row
<1>5. \A k \in Ledger!EventIds : posted'[k] = IF k = e.id THEN row ELSE posted[k]
  BY <1>1 DEF LedgerInv, RowsAreEvents
<1>6. /\ Ledger!Recorded' = Ledger!Recorded \cup {e.id}
      /\ \A key : Ledger!Under(key)' = IF key = e.key THEN {e.id} ELSE Ledger!Under(key)
  <2>1. Ledger!Recorded' = Ledger!Recorded \cup {e.id}
    BY <1>1, <1>5 DEF Ledger!Recorded
  <2>2. \A k \in Ledger!Recorded : posted'[k] = posted[k]
    BY <1>3, <1>5 DEF Ledger!Recorded
  <2>3. posted'[e.id].key = e.key
    BY <1>1, <1>5
  <2> QED BY <1>3, <2>1, <2>2, <2>3 DEF Ledger!Under
<1>7. \A d \in Cores : ledgerTx'[d] = IF d = c THEN None ELSE ledgerTx[d]
  BY <1>1 DEF LedgerInv, CallsOfEvents
<1>8. CallsOfEvents'
  BY <1>1, <1>7 DEF LedgerInv, CallsOfEvents
<1>9. RowsAreEvents'
  <2>1. DOMAIN posted' = Ledger!EventIds
    BY <1>1 DEF LedgerInv, RowsAreEvents
  <2>2. IsFiniteSet(Ledger!Recorded')
    BY <1>6, FS_AddElement DEF LedgerInv, RowsAreEvents
  <2>3. ASSUME NEW k \in Ledger!Recorded'
        PROVE  \E x \in Events : /\ x.id = k /\ Ledger!Valid(x)
                                 /\ posted'[k] = [key |-> x.key, lines |-> x.lines]
    <3>1. CASE k = e.id
      BY <1>1, <1>4, <1>5, <3>1
    <3>2. CASE k # e.id
      <4>1. k \in Ledger!Recorded /\ posted'[k] = posted[k]
        BY <1>5, <1>6, <3>2 DEF Ledger!Recorded
      <4> QED BY <4>1 DEF LedgerInv, RowsAreEvents
    <3> QED BY <3>1, <3>2
  <2> QED BY <2>1, <2>2, <2>3 DEF RowsAreEvents
<1>10. PostingAlone'
  <2>1. \A d \in Cores : Posting(d)' => d # c /\ Posting(d) /\ ledgerTx'[d] = ledgerTx[d]
    BY <1>7 DEF Posting
  <2> QED BY <1>3, <1>6, <2>1 DEF LedgerInv, PostingAlone
<1>11. Ledger!RecordedOnce'
  <2>1. ASSUME NEW t \in told' PROVE Ledger!Under(t[2])' = {t[1]}
    BY <1>1, <1>3, <1>6 DEF LedgerInv, Ledger!RecordedOnce
  <2>2. ASSUME NEW j \in Ledger!Recorded', NEW k \in Ledger!Recorded',
               posted'[j].key = posted'[k].key
        PROVE  j = k
    <3>1. PICK key : key = posted'[k].key
      OBVIOUS
    <3>2. j \in Ledger!Under(key)' /\ k \in Ledger!Under(key)'
      BY <2>2, <3>1 DEF Ledger!Under
    <3>3. CASE key = e.key
      BY <1>6, <3>2, <3>3
    <3>4. CASE key # e.key
      BY <1>6, <3>2, <3>4 DEF LedgerInv, Ledger!RecordedOnce, Ledger!Under
    <3> QED BY <3>3, <3>4
  <2> QED BY <2>1, <2>2 DEF Ledger!RecordedOnce
<1> QED BY <1>8, <1>9, <1>10, <1>11 DEF LedgerInv

LEMMA LedgerStep == LedgerInv /\ [Ledger!Next]_ledgerVars => LedgerInv'
<1>1. ASSUME LedgerInv, Ledger!Next PROVE LedgerInv'
  BY <1>1, ReplayInv, RecordingInv, LedgerCommitInv DEF Ledger!Next
<1>2. ASSUME LedgerInv, UNCHANGED ledgerVars PROVE LedgerInv'
  <2> USE <1>2 DEF ledgerVars, LedgerInv
  <2>1. CallsOfEvents' /\ PostingAlone'
    BY LedgerRowsKept DEF CallsOfEvents, PostingAlone, Posting
  <2> QED BY <2>1, LedgerRowsKept
<1> QED BY <1>1, <1>2

\* A validated event adds nothing to any account: its own account it leaves even, the
\* lines of any other account it has none of.
LEMMA EventIsEven ==
    ASSUME NEW e \in Events, Ledger!Valid(e),
           NEW account, NEW asset \in Ledger!LineAssets
    PROVE  Ledger!Net(e.lines, account, asset) = 0
<1>1. CASE account = e.account
  BY <1>1 DEF Ledger!Valid
<1>2. CASE account # e.account
  <2>1. ASSUME NEW d PROVE Ledger!Side(e.lines, account, asset, d) = 0
    <3>1. {i \in DOMAIN e.lines : /\ e.lines[i].account = account
                                  /\ e.lines[i].asset = asset
                                  /\ e.lines[i].direction = d} = {}
      BY <1>2 DEF Ledger!Valid
    <3> QED BY <3>1, LedgerSum, SumEmpty DEF Ledger!Side, Ledger!SumOf
  <2> QED BY <2>1 DEF Ledger!Net
<1> QED BY <1>1, <1>2

\* The books balance in every account and asset, and each key is posted once, whatever
\* events are recorded, retried and given up, by however many cores.
THEOREM BooksAlwaysBalance == Spec => []LedgerHolds
<1>1. LedgerInv => LedgerHolds
  <2> SUFFICES ASSUME LedgerInv, NEW account \in Ledger!Accounts,
                      NEW asset \in Ledger!LineAssets
               PROVE  Ledger!SumOver(
                         [k \in Ledger!Recorded |->
                             Ledger!Net(posted[k].lines, account, asset)],
                         Ledger!Recorded) = 0
    BY DEF LedgerHolds, Ledger!BooksBalance,
       LedgerInv
  <2> DEFINE f == [k \in Ledger!Recorded |->
                      Ledger!Net(posted[k].lines, account, asset)]
  <2>1. ASSUME NEW k \in Ledger!Recorded PROVE f[k] = 0
    <3>1. PICK e \in Events : /\ Ledger!Valid(e)
                              /\ posted[k] = [key |-> e.key, lines |-> e.lines]
      BY DEF LedgerInv, RowsAreEvents
    <3>2. Ledger!Net(e.lines, account, asset) = 0
      BY <3>1, EventIsEven
    <3>3. posted[k].lines = e.lines
      BY <3>1
    <3> QED BY <3>2, <3>3
  <2>2. IsFiniteSet(Ledger!Recorded)
    BY DEF LedgerInv, RowsAreEvents
  <2> HIDE DEF f
  <2>3. SumOver(f, Ledger!Recorded) = 0
    BY <2>1, <2>2, SumZero
  <2> QED BY <2>3, LedgerSum DEF f
<1>2. Init => LedgerInv
  BY LedgerInit DEF Init
<1>3. LedgerInv /\ [Next]_vars => LedgerInv'
  BY LedgerStep DEF Next, vars, controlVars, ledgerVars, Dispatch
<1> QED BY <1>1, <1>2, <1>3, PTL DEF Spec

-----------------------------------------------------------------------------
(* Reconciliation *)

\* The row of a run that compared two sides.
Compared(at, local, external) ==
    LET differing == Reconciler!Differing(local, external)
    IN  [at |-> at, local |-> local, external |-> external,
         differences |-> {<<a, Reconciler!Category(local, external, a)>> : a \in differing},
         status |-> IF differing = {} THEN "MATCHED" ELSE "ATTENTION_REQUIRED"]

\* What a core compares is two sides of a run no other core has begun or stored.
RunsBegun ==
    /\ runTx \in [Cores -> {None} \cup [run : Runs, local : Holdings, external : Holdings]]
    /\ \A c \in Cores : runTx[c] # None =>
          LET run == runTx[c].run
          IN  /\ \A k \in Reconciler!RunIds :
                    runs[k] # None => k # run.id /\ runs[k].at # run.at
              /\ \A d \in Cores : runTx[d] # None /\ c # d =>
                    runTx[d].run.id # run.id /\ runTx[d].run.at # run.at

RunsCompared ==
    /\ DOMAIN runs = Reconciler!RunIds
    /\ \A k \in Reconciler!RunIds : runs[k] # None =>
          \E local, external \in Holdings : runs[k] = Compared(runs[k].at, local, external)
    /\ \A j, k \in Reconciler!RunIds :
          runs[j] # None /\ runs[k] # None /\ runs[j].at = runs[k].at => j = k

ReconcilerInv == RunsBegun /\ RunsCompared

LEMMA ReconcilerInit == Reconciler!Init => ReconcilerInv
BY DEF Reconciler!Init, ReconcilerInv, RunsBegun, RunsCompared

LEMMA BeginRunInv ==
    ASSUME ReconcilerInv, NEW c \in Cores, NEW r \in Runs,
           NEW local \in Holdings, NEW external \in Holdings,
           Reconciler!Begin(c, r, local, external)
    PROVE  ReconcilerInv'
<1> DEFINE w == [run |-> r, local |-> local, external |-> external]
<1>1. /\ w \in [run : Runs, local : Holdings, external : Holdings] /\ w.run = r
      /\ runTx' = [runTx EXCEPT ![c] = w] /\ runs' = runs
      /\ \A k \in Reconciler!RunIds : runs[k] # None => k # r.id /\ runs[k].at # r.at
      /\ \A d \in Cores \ {c} : runTx[d] # None =>
            runTx[d].run.id # r.id /\ runTx[d].run.at # r.at
  BY DEF Reconciler!Begin
<1> HIDE DEF w
<1>2. \A d \in Cores : runTx'[d] = IF d = c THEN w ELSE runTx[d]
  BY <1>1 DEF ReconcilerInv, RunsBegun
<1>3. runTx' \in [Cores -> {None} \cup [run : Runs, local : Holdings, external : Holdings]]
  BY <1>1 DEF ReconcilerInv, RunsBegun
<1>4. ASSUME NEW x \in Cores, runTx'[x] # None
      PROVE  /\ \A k \in Reconciler!RunIds :
                   runs[k] # None => k # runTx'[x].run.id /\ runs[k].at # runTx'[x].run.at
             /\ \A d \in Cores : runTx'[d] # None /\ x # d =>
                   /\ runTx'[d].run.id # runTx'[x].run.id
                   /\ runTx'[d].run.at # runTx'[x].run.at
  <2>1. CASE x = c
    BY <1>1, <1>2, <2>1
  <2>2. CASE x # c
    BY <1>1, <1>2, <1>4, <2>2 DEF ReconcilerInv, RunsBegun
  <2> QED BY <2>1, <2>2
<1>5. RunsBegun'
  BY <1>1, <1>3, <1>4 DEF RunsBegun
<1> QED BY <1>1, <1>5 DEF ReconcilerInv, RunsCompared

LEMMA EndRunInv ==
    ASSUME ReconcilerInv, NEW c \in Cores,
           Reconciler!Finish(c) \/ Reconciler!Abort(c)
    PROVE  ReconcilerInv'
<1>1. /\ runTx[c] # None
      /\ runTx[c] \in [run : Runs, local : Holdings, external : Holdings]
      /\ runTx' = [runTx EXCEPT ![c] = None]
  BY DEF ReconcilerInv, RunsBegun, Reconciler!Finish, Reconciler!Abort
<1>2. \A d \in Cores : runTx'[d] = IF d = c THEN None ELSE runTx[d]
  BY <1>1 DEF ReconcilerInv, RunsBegun
<1>3. runTx' \in [Cores -> {None} \cup [run : Runs, local : Holdings, external : Holdings]]
  BY <1>1 DEF ReconcilerInv, RunsBegun
<1>4. CASE UNCHANGED runs
  BY <1>2, <1>3, <1>4 DEF ReconcilerInv, RunsBegun, RunsCompared
<1>5. CASE Reconciler!Finish(c)
  <2> DEFINE run == runTx[c].run
             row == Compared(run.at, runTx[c].local, runTx[c].external)
  <2>1. /\ runs' = [runs EXCEPT ![run.id] = row]
        /\ row.at = run.at
        /\ run.id \in Reconciler!RunIds
    BY <1>1, <1>5 DEF Reconciler!Finish, Compared, Reconciler!RunIds
  <2>2. \E local, external \in Holdings : row = Compared(row.at, local, external)
    BY <1>1, <2>1
  <2>3. /\ \A k \in Reconciler!RunIds :
              runs[k] # None => k # run.id /\ runs[k].at # run.at
        /\ \A d \in Cores : runTx[d] # None /\ c # d =>
              runTx[d].run.id # run.id /\ runTx[d].run.at # run.at
    BY <1>1 DEF ReconcilerInv, RunsBegun
  <2> HIDE DEF run, row
  <2>4. \A k \in Reconciler!RunIds : runs'[k] = IF k = run.id THEN row ELSE runs[k]
    BY <2>1 DEF ReconcilerInv, RunsCompared
  <2>5. RunsCompared'
    <3>1. DOMAIN runs' = Reconciler!RunIds
      BY <2>1 DEF ReconcilerInv, RunsCompared
    <3>2. ASSUME NEW k \in Reconciler!RunIds, runs'[k] # None
          PROVE  \E local, external \in Holdings : runs'[k] = Compared(runs'[k].at, local, external)
      BY <2>2, <2>4, <3>2 DEF ReconcilerInv, RunsCompared
    <3>3. ASSUME NEW j \in Reconciler!RunIds, NEW k \in Reconciler!RunIds,
                 runs'[j] # None, runs'[k] # None, runs'[j].at = runs'[k].at
          PROVE  j = k
      BY <2>1, <2>3, <2>4, <3>3 DEF ReconcilerInv, RunsCompared
    <3> QED BY <3>1, <3>2, <3>3 DEF RunsCompared
  <2>6. RunsBegun'
    <3> SUFFICES ASSUME NEW x \in Cores, runTx'[x] # None
                 PROVE  /\ \A k \in Reconciler!RunIds : runs'[k] # None =>
                              k # runTx'[x].run.id /\ runs'[k].at # runTx'[x].run.at
                        /\ \A d \in Cores : runTx'[d] # None /\ x # d =>
                              /\ runTx'[d].run.id # runTx'[x].run.id
                              /\ runTx'[d].run.at # runTx'[x].run.at
      BY <1>3 DEF RunsBegun
    <3>1. x # c /\ runTx'[x] = runTx[x] /\ runTx[x] # None
      BY <1>2
    <3>2. runTx[x].run.id # run.id /\ runTx[x].run.at # run.at
      BY <2>3, <3>1
    <3> QED BY <1>2, <2>1, <2>4, <3>1, <3>2 DEF ReconcilerInv, RunsBegun
  <2> QED BY <2>5, <2>6 DEF ReconcilerInv
<1> QED BY <1>4, <1>5 DEF Reconciler!Abort

LEMMA ReconcilerStep == ReconcilerInv /\ [Reconciler!Next]_reconcilerVars => ReconcilerInv'
<1>1. ASSUME ReconcilerInv, NEW c \in Cores, NEW s \in Snapshots,
             Reconciler!RecordSnapshot(c, s)
      PROVE  ReconcilerInv'
  BY <1>1 DEF Reconciler!RecordSnapshot, ReconcilerInv, RunsBegun, RunsCompared
<1>2. ASSUME ReconcilerInv, Reconciler!Next PROVE ReconcilerInv'
  BY <1>1, <1>2, BeginRunInv, EndRunInv DEF Reconciler!Next
<1>3. ASSUME ReconcilerInv, UNCHANGED reconcilerVars PROVE ReconcilerInv'
  BY <1>3 DEF reconcilerVars, ReconcilerInv, RunsBegun, RunsCompared
<1> QED BY <1>2, <1>3

\* Exchanging the sides does not change the verdict on an asset.
LEMMA CategoryIsSymmetric ==
    ASSUME NEW local \in Holdings, NEW external \in Holdings, NEW a
    PROVE  Reconciler!Category(local, external, a)
             = Reconciler!Category(external, local, a)
<1>1. CASE a \notin DOMAIN local \/ a \notin DOMAIN external
  BY <1>1 DEF Reconciler!Category
<1>2. CASE a \in DOMAIN local /\ a \in DOMAIN external
  <2>1. local[a] \in Int /\ external[a] \in Int /\ Tolerance \in Int
    BY <1>2, FactsAssumption
       DEF Reconciler!ReconciliationAssumption
  <2>2. /\ Reconciler!Abs(local[a]) \in Int
        /\ Reconciler!Abs(external[a]) \in Int
    BY <2>1 DEF Reconciler!Abs
  <2> QED BY <1>2, <2>1, <2>2 DEF Reconciler!Category
<1> QED BY <1>1, <1>2

\* A compared run is settled.
LEMMA ComparedIsSettled ==
    ASSUME NEW local \in Holdings, NEW external \in Holdings, NEW at, NEW run,
           run = Compared(at, local, external)
    PROVE  LET same == \A a \in Assets : Reconciler!Amount(run.local, a)
                                           = Reconciler!Amount(run.external, a)
           IN  /\ run.status = IF same THEN "MATCHED" ELSE "ATTENTION_REQUIRED"
               /\ \A a \in Assets :
                     Reconciler!Amount(run.local, a)
                       # Reconciler!Amount(run.external, a)
                     <=> \E d \in run.differences : d[1] = a
               /\ \A d, e \in run.differences : d[1] = e[1] => d = e
               /\ \A d \in run.differences :
                     d[2] = Reconciler!Category(run.external, run.local, d[1])
<1> DEFINE differing == Reconciler!Differing(local, external)
<1>1. /\ run.local = local /\ run.external = external
      /\ run.status = IF differing = {} THEN "MATCHED" ELSE "ATTENTION_REQUIRED"
      /\ run.differences =
            {<<a, Reconciler!Category(local, external, a)>> : a \in differing}
  BY DEF Compared
<1>2. \A a \in Assets : Reconciler!Amount(local, a) # Reconciler!Amount(external, a)
                          <=> a \in differing
  BY DEF Reconciler!Differing, Reconciler!Amount
<1>3. differing \subseteq Assets
  BY FactsAssumption DEF Reconciler!ReconciliationAssumption,
     Reconciler!Differing
<1> HIDE DEF differing
<1>4. differing = {} <=> \A a \in Assets : Reconciler!Amount(local, a)
                                             = Reconciler!Amount(external, a)
  BY <1>2, <1>3
<1>5. \A d \in run.differences : /\ d[1] \in differing
                                 /\ d = <<d[1], Reconciler!Category(local, external, d[1])>>
  BY <1>1
<1>6. \A a \in differing : <<a, Reconciler!Category(local, external, a)>> \in run.differences
  BY <1>1
<1>7. \A a \in Assets : a \in differing <=> \E d \in run.differences : d[1] = a
  BY <1>5, <1>6
<1>8. \A d, e \in run.differences : d[1] = e[1] => d = e
  BY <1>5
<1>9. \A d \in run.differences : d[2] = Reconciler!Category(external, local, d[1])
  BY <1>5, CategoryIsSymmetric
<1> QED BY <1>1, <1>2, <1>4, <1>7, <1>8, <1>9

\* The verdict of a stored run follows from its two sides and would be the same had they
\* been exchanged, and it is the only run of its millisecond, for all holdings.
THEOREM StoredRunsAreSettled == Spec => []RunsSettled
<1>1. ReconcilerInv => RunsSettled
  <2> SUFFICES ASSUME ReconcilerInv, NEW k \in Reconciler!RunIds, runs[k] # None
               PROVE  LET run == runs[k]
                          same == \A a \in Assets : Reconciler!Amount(run.local, a)
                                                      = Reconciler!Amount(run.external, a)
                      IN  /\ run.status = IF same THEN "MATCHED" ELSE "ATTENTION_REQUIRED"
                          /\ \A a \in Assets :
                                Reconciler!Amount(run.local, a)
                                  # Reconciler!Amount(run.external, a)
                                <=> \E d \in run.differences : d[1] = a
                          /\ \A d, e \in run.differences : d[1] = e[1] => d = e
                          /\ \A d \in run.differences :
                                d[2] = Reconciler!Category(run.external, run.local, d[1])
                          /\ \A j \in Reconciler!RunIds :
                                runs[j] # None /\ runs[j].at = run.at => j = k
    BY DEF RunsSettled, Reconciler!RunsSettled
  <2>1. PICK local \in Holdings, external \in Holdings :
           runs[k] = Compared(runs[k].at, local, external)
    BY DEF ReconcilerInv, RunsCompared
  <2>2. \A j \in Reconciler!RunIds : runs[j] # None /\ runs[j].at = runs[k].at => j = k
    BY DEF ReconcilerInv, RunsCompared
  <2> QED BY <2>1, <2>2, ComparedIsSettled
<1>2. Init => ReconcilerInv
  BY ReconcilerInit DEF Init
<1>3. ReconcilerInv /\ [Next]_vars => ReconcilerInv'
  BY ReconcilerStep DEF Next, vars, controlVars, reconcilerVars, Dispatch
<1> QED BY <1>1, <1>2, <1>3, PTL DEF Spec

-----------------------------------------------------------------------------
(* Records of operators *)

Entry(r) == [id |-> r.id, ms |-> r.ms, serial |-> r.serial]

\* No serial number is given twice, and what is kept was given and is not newer than the
\* last.
SerialsOnce ==
    /\ \A q, r \in records : q.serial = r.serial => q = r
    /\ \A r \in records : Entry(r) \in given
    /\ \A g, h \in given : g.serial = h.serial => g = h
    /\ \A g \in given : g.serial <= created

\* The id begins with the clock it was made at.
IdsOfClocks ==
    /\ counted \in [Cores -> {None} \cup [id : Records!Ids, ms : Times]]
    /\ \A c \in Cores : counted[c] # None => counted[c].id[1] = counted[c].ms
    /\ \A g \in given : g.id[1] = g.ms

\* What was given is kept, unless another with its id was given.
Reachable ==
    \A g \in given :
        Records!Twin(g) \/ \E r \in records : r.id = g.id /\ r.serial = g.serial

\* Nothing shortens the listed alerts: their number is the count of all.
ListedInOrder ==
    recordKind = "listed" =>
        /\ Cardinality(records) = created
        /\ \A g \in given : g.id[2] = g.serial - 1

RecordsInv ==
    /\ Records!TypeOK
    /\ IsFiniteSet(records)
    /\ SerialsOnce
    /\ IdsOfClocks
    /\ Reachable
    /\ ListedInOrder

LEMMA RecordsCardinality == ASSUME NEW S PROVE Records!Cardinality(S) = Cardinality(S)
BY DEF Records!Cardinality, Cardinality

LEMMA RecordsInit == Records!Init => RecordsInv
<1> SUFFICES ASSUME Records!Init PROVE RecordsInv
  OBVIOUS
<1> USE DEF Records!Init
<1>1. Records!TypeOK
  BY FactsAssumption DEF Records!TypeOK, Records!RecordsAssumption
<1>2. IsFiniteSet(records) /\ Cardinality(records) = 0
  BY FS_EmptySet
<1> QED BY <1>1, <1>2 DEF RecordsInv, SerialsOnce, IdsOfClocks, Reachable, ListedInOrder

\* A record is created among those that keep their id (all of a list).
LEMMA CreateInv ==
    ASSUME RecordsInv, NEW id \in Records!Ids, NEW ms \in Times, id[1] = ms,
           NEW kept \in {records, {q \in records : q.id # id}},
           created < MaxRecords,
           records' = kept \cup {Records!New(id, ms)}, Records!Give(Records!New(id, ms)),
           recordKind = "listed" => kept = records /\ id = Records!NewId(ms),
           counted' \in [Cores -> {None} \cup [id : Records!Ids, ms : Times]],
           \A c \in Cores : counted'[c] # None => counted'[c] = counted[c],
           UNCHANGED <<recordKind, retention>>
    PROVE  RecordsInv'
<1> DEFINE r == Records!New(id, ms)
<1>1. /\ created \in Nat /\ MaxRecords \in Nat /\ created + 1 \in 1 .. MaxRecords
      /\ records \subseteq [id : Records!Ids, ms : Times, serial : Nat,
                            status : Records!Statuses[recordKind]]
      /\ given \subseteq [id : Records!Ids, ms : Times, serial : 1 .. MaxRecords]
  BY FactsAssumption DEF RecordsInv, Records!TypeOK, Records!RecordType, Records!RecordsAssumption
<1>2. /\ r.id = id /\ r.ms = ms /\ r.serial = created + 1
      /\ r = [id |-> id, ms |-> ms, serial |-> created + 1, status |-> "PENDING"]
      /\ Entry(r) = [id |-> id, ms |-> ms, serial |-> created + 1]
  BY DEF Records!New, Entry
<1>3. /\ created' = created + 1
      /\ given' = given \cup {Entry(r)}
      /\ records' = kept \cup {r}
  BY <1>2 DEF Records!Give, Entry
<1>4. "PENDING" \in Records!Statuses[recordKind]
  BY DEF RecordsInv, Records!TypeOK, Records!Statuses, Records!AlertStatus,
     Records!ListedStatus, Records!OperationStatus, Records!TaskStatus
<1>5. \A q \in records : q.serial <= created
  <2> SUFFICES ASSUME NEW q \in records PROVE q.serial <= created
    OBVIOUS
  <2>1. Entry(q) \in given /\ Entry(q).serial = q.serial
    BY DEF RecordsInv, SerialsOnce, Entry
  <2> QED BY <2>1 DEF RecordsInv, SerialsOnce
<1>6. /\ Entry(r).serial = created + 1 /\ Entry(r).id = id /\ Entry(r).ms = ms
      /\ Entry(r) \in [id : Records!Ids, ms : Times, serial : 1 .. MaxRecords]
      /\ r \in [id : Records!Ids, ms : Times, serial : Nat, status : Records!Statuses[recordKind]]
  BY <1>1, <1>2, <1>4
<1> HIDE DEF r
<1>7. kept \subseteq records
  OBVIOUS
<1>8. Records!TypeOK'
  <2>1. /\ records' \subseteq [id : Records!Ids, ms : Times, serial : Nat,
                               status : Records!Statuses[recordKind]]
        /\ given' \subseteq [id : Records!Ids, ms : Times, serial : 1 .. MaxRecords]
        /\ created' \in 0 .. MaxRecords
    BY <1>1, <1>3, <1>6, <1>7
  <2> QED BY <2>1 DEF RecordsInv, Records!TypeOK, Records!RecordType
<1>9. SerialsOnce'
  <2>1. \A q, s \in records' : q.serial = s.serial => q = s
    BY <1>1, <1>2, <1>3, <1>5, <1>7 DEF RecordsInv, SerialsOnce
  <2>2. \A q \in records' : Entry(q) \in given'
    BY <1>3, <1>7 DEF RecordsInv, SerialsOnce
  <2>3. \A g, h \in given' : g.serial = h.serial => g = h
    BY <1>1, <1>3, <1>6 DEF RecordsInv, SerialsOnce
  <2>4. \A g \in given' : g.serial <= created'
    BY <1>1, <1>3, <1>6 DEF RecordsInv, SerialsOnce
  <2> QED BY <2>1, <2>2, <2>3, <2>4 DEF SerialsOnce, Entry
<1>10. IdsOfClocks'
  BY <1>3, <1>6 DEF RecordsInv, IdsOfClocks
<1>11. Reachable'
  <2> SUFFICES ASSUME NEW g \in given'
               PROVE  \/ \E h \in given' : h # g /\ h.id = g.id
                      \/ \E q \in records' : q.id = g.id /\ q.serial = g.serial
    BY DEF Reachable, Records!Twin
  <2>1. CASE g = Entry(r)
    BY <1>2, <1>3, <1>6, <2>1
  <2>2. CASE g \in given /\ g.id = id
    <3>1. Entry(r) # g
      BY <1>1, <1>6, <2>2 DEF RecordsInv, SerialsOnce
    <3> QED BY <1>3, <1>6, <2>2, <3>1
  <2>3. CASE g \in given /\ g.id # id
    BY <1>3, <2>3 DEF RecordsInv, Reachable, Records!Twin
  <2> QED BY <1>3, <2>1, <2>2, <2>3
<1>12. /\ IsFiniteSet(records')
       /\ recordKind = "listed" => Cardinality(records') = Cardinality(records) + 1
  <2>1. r \notin records
    BY <1>1, <1>2, <1>5
  <2>2. IsFiniteSet(kept)
    BY <1>7, FS_Subset DEF RecordsInv
  <2> QED BY <1>3, <2>1, <2>2, FS_AddElement DEF RecordsInv
<1>13. ListedInOrder'
  <2> SUFFICES ASSUME recordKind = "listed"
               PROVE  Cardinality(records') = created' /\ \A g \in given' : g.id[2] = g.serial - 1
    BY DEF ListedInOrder
  <2>1. id[2] = created
    BY RecordsCardinality DEF RecordsInv, ListedInOrder, Records!NewId
  <2> QED BY <1>1, <1>3, <1>6, <1>12, <2>1 DEF RecordsInv, ListedInOrder
<1> QED BY <1>8, <1>9, <1>10, <1>11, <1>12, <1>13 DEF RecordsInv

\* Of maps and of tasks some are removed, and what was given of them.
LEMMA RemoveInv ==
    ASSUME RecordsInv, recordKind # "listed",
           records' \subseteq records,
           given' = {g \in given : \E r \in records' : r.serial = g.serial},
           UNCHANGED <<recordKind, counted, retention, created>>
    PROVE  RecordsInv'
<1> USE DEF RecordsInv
<1>1. Records!TypeOK' /\ IsFiniteSet(records')
  BY FS_Subset DEF Records!TypeOK, Records!RecordType
<1>2. \A r \in records' : r \in records /\ Entry(r) \in given /\ Entry(r).serial = r.serial
  BY DEF SerialsOnce, Entry
<1>3. SerialsOnce'
  BY <1>2 DEF SerialsOnce, Entry
<1>4. IdsOfClocks' /\ ListedInOrder'
  BY DEF IdsOfClocks, ListedInOrder
<1>5. Reachable'
  <2> SUFFICES ASSUME NEW g \in given'
               PROVE  \E r \in records' : r.id = g.id /\ r.serial = g.serial
    BY DEF Reachable
  <2>1. PICK r \in records' : r.serial = g.serial
    OBVIOUS
  <2>2. Entry(r) = g /\ Entry(r).id = r.id
    BY <1>2, <2>1 DEF SerialsOnce, Entry
  <2> QED BY <2>1, <2>2
<1> QED BY <1>1, <1>3, <1>4, <1>5

\* A record changes its status.
LEMMA MarkInv ==
    ASSUME RecordsInv, NEW id, NEW status, Records!Mark(recordKind, id, status)
    PROVE  RecordsInv'
<1> USE DEF RecordsInv
<1>1. PICK r \in records : records' = (records \ {r}) \cup {[r EXCEPT !.status = status]}
  BY DEF Records!Mark, Records!Found
<1> DEFINE s == [r EXCEPT !.status = status]
<1>2. /\ status \in Records!Statuses[recordKind]
      /\ UNCHANGED <<recordKind, counted, retention, created, given>>
  BY DEF Records!Mark
<1>3. r \in [id : Records!Ids, ms : Times, serial : Nat, status : Records!Statuses[recordKind]]
  BY DEF Records!TypeOK, Records!RecordType
<1>4. /\ s \in [id : Records!Ids, ms : Times, serial : Nat, status : Records!Statuses[recordKind]]
      /\ s.id = r.id /\ s.ms = r.ms /\ s.serial = r.serial /\ Entry(s) = Entry(r)
  BY <1>2, <1>3 DEF Entry
<1>5. records' = (records \ {r}) \cup {s}
  BY <1>1
<1> HIDE DEF s
<1>6. s \notin records \ {r}
  BY <1>4 DEF SerialsOnce
<1>7. IsFiniteSet(records') /\ Cardinality(records') = Cardinality(records)
  <2>1. /\ IsFiniteSet(records \ {r}) /\ Cardinality(records \ {r}) = Cardinality(records) - 1
        /\ Cardinality(records) \in Nat
    BY FS_RemoveElement, FS_CardinalityType
  <2> QED BY <1>5, <1>6, <2>1, FS_AddElement
<1>8. Records!TypeOK'
  BY <1>2, <1>4, <1>5 DEF Records!TypeOK, Records!RecordType
<1>9. SerialsOnce'
  <2>1. \A q, t \in records' : q.serial = t.serial => q = t
    BY <1>4, <1>5 DEF SerialsOnce
  <2>2. \A q \in records' : Entry(q) \in given
    BY <1>4, <1>5 DEF SerialsOnce
  <2> QED BY <1>2, <2>1, <2>2 DEF SerialsOnce, Entry
<1>10. IdsOfClocks' /\ ListedInOrder'
  BY <1>2, <1>7 DEF IdsOfClocks, ListedInOrder
<1>11. Reachable'
  BY <1>2, <1>4, <1>5 DEF Reachable, Records!Twin
<1> QED BY <1>7, <1>8, <1>9, <1>10, <1>11

recordsVars == <<recordKind, records, counted, retention, created, given>>

LEMMA RecordsStep == RecordsInv /\ [Records!Next]_recordsVars => RecordsInv'
<1> SUFFICES ASSUME RecordsInv, [Records!Next]_recordsVars PROVE RecordsInv'
  OBVIOUS
<1>1. \A ms \in Times : Records!NewId(ms) \in Records!Ids /\ Records!NewId(ms)[1] = ms
  BY RecordsCardinality, FS_CardinalityType DEF RecordsInv, Records!NewId, Records!Ids
<1>2. ASSUME NEW c \in Cores, NEW ms \in Times, NEW k, Records!Count(k, c, ms) PROVE RecordsInv'
  <2> DEFINE w == [id |-> Records!NewId(ms), ms |-> ms]
  <2>1. /\ w \in [id : Records!Ids, ms : Times] /\ w.id[1] = w.ms
        /\ counted' = [counted EXCEPT ![c] = w]
        /\ UNCHANGED <<recordKind, records, retention, created, given>>
    BY <1>1, <1>2 DEF Records!Count
  <2> HIDE DEF w
  <2>2. IdsOfClocks'
    BY <2>1 DEF RecordsInv, IdsOfClocks
  <2>3. Records!TypeOK'
    BY <2>1, <2>2 DEF RecordsInv, Records!TypeOK, Records!RecordType, IdsOfClocks
  <2> QED BY <2>1, <2>2, <2>3 DEF RecordsInv, SerialsOnce, Entry, Reachable, Records!Twin,
             ListedInOrder
<1>3. ASSUME NEW c \in Cores, NEW k \in {"alert", "operation"}, Records!Insert(k, c)
      PROVE  RecordsInv'
  <2> DEFINE id == counted[c].id
             ms == counted[c].ms
             kept == {q \in records : q.id # id}
  <2>1. id \in Records!Ids /\ ms \in Times /\ id[1] = ms
    BY <1>3 DEF RecordsInv, IdsOfClocks, Records!Insert
  <2>2. /\ recordKind # "listed" /\ created < MaxRecords
        /\ records' = kept \cup {Records!New(id, ms)} /\ Records!Give(Records!New(id, ms))
        /\ counted' = [counted EXCEPT ![c] = None]
        /\ UNCHANGED <<recordKind, retention>>
    <3>1. Records!New(id, ms).id = id
      BY DEF Records!New
    <3> QED BY <1>3, <3>1 DEF Records!Insert
  <2>3. /\ counted' \in [Cores -> {None} \cup [id : Records!Ids, ms : Times]]
        /\ \A d \in Cores : counted'[d] # None => counted'[d] = counted[d]
    BY <2>2 DEF RecordsInv, IdsOfClocks
  <2>4. kept \in {records, {q \in records : q.id # id}}
    OBVIOUS
  <2>5. PICK x, t, z : x = id /\ t = ms /\ z = kept
    OBVIOUS
  <2> HIDE DEF id, ms, kept
  <2> QED BY <2>1, <2>2, <2>3, <2>4, <2>5, CreateInv
<1>4. ASSUME NEW ms \in Times, Records!Push(ms) PROVE RecordsInv'
  <2>1. /\ created < MaxRecords
        /\ records' = records \cup {Records!New(Records!NewId(ms), ms)}
        /\ Records!Give(Records!New(Records!NewId(ms), ms))
        /\ UNCHANGED <<recordKind, counted, retention>>
    BY <1>4 DEF Records!Push
  <2>2. PICK x : x = Records!NewId(ms)
    OBVIOUS
  <2>3. counted \in [Cores -> {None} \cup [id : Records!Ids, ms : Times]]
    BY DEF RecordsInv, IdsOfClocks
  <2> QED BY <1>1, <2>1, <2>2, <2>3, CreateInv
<1>5. ASSUME NEW k \in {"alert", "operation"}, Records!Clear(k) PROVE RecordsInv'
  BY <1>5, RemoveInv DEF Records!Clear
<1>6. ASSUME NEW ms \in Times, Records!CleanupExpired(ms) PROVE RecordsInv'
  BY <1>6, RemoveInv DEF Records!CleanupExpired
<1>7. ASSUME NEW r \in Retentions, Records!AddConfig(r) PROVE RecordsInv'
  BY <1>7 DEF Records!AddConfig, RecordsInv, Records!TypeOK, Records!RecordType, SerialsOnce,
     Entry, IdsOfClocks, Reachable, Records!Twin, ListedInOrder
<1>8. ASSUME NEW k, NEW id, NEW status, Records!Mark(k, id, status) PROVE RecordsInv'
  <2>1. k = recordKind
    BY <1>8 DEF Records!Mark
  <2> QED BY <1>8, <2>1, MarkInv
<1>9. CASE UNCHANGED recordsVars
  BY <1>9 DEF recordsVars, RecordsInv, Records!TypeOK, Records!RecordType, SerialsOnce,
     Entry, IdsOfClocks, Reachable, Records!Twin, ListedInOrder
<1>10. CASE Records!Next
  <2>1. CASE \E c \in Cores, ms \in Times : Records!CountAlert(c, ms) \/ Records!CountOperation(c, ms)
    BY <1>2, <2>1 DEF Records!CountAlert, Records!CountOperation
  <2>2. CASE \E c \in Cores : Records!InsertAlert(c) \/ Records!InsertOperation(c)
    BY <1>3, <2>2 DEF Records!InsertAlert, Records!InsertOperation
  <2>3. CASE Records!ClearAlerts \/ Records!ClearOperations
    BY <1>5, <2>3 DEF Records!ClearAlerts, Records!ClearOperations
  <2>4. CASE \E ms \in Times : Records!CreateListed(ms) \/ Records!CreateTask(ms)
    BY <1>4, <2>4 DEF Records!CreateListed, Records!CreateTask
  <2>5. CASE \E id \in {g.id : g \in given},
                status \in UNION {Records!Statuses[k] : k \in DOMAIN Records!Statuses} :
                \/ Records!JudgeAlert(id, status) \/ Records!StepOperation(id, status)
                \/ Records!JudgeListed(id, status) \/ Records!StepTask(id, status)
    BY <1>8, <2>5 DEF Records!JudgeAlert, Records!StepOperation, Records!JudgeListed, Records!StepTask
  <2> QED BY <1>6, <1>7, <1>10, <2>1, <2>2, <2>3, <2>4, <2>5 DEF Records!Next
<1> QED BY <1>9, <1>10

\* Who has a record's id reaches that record, unless another was given under the id.
LEMMA OwnIsReached == RecordsInv => Records!OwnUnlessTwin
<1> SUFFICES ASSUME RecordsInv, NEW g \in given
             PROVE  /\ Records!Twin(g) \/ ( /\ Records!Found(g.id) # {}
                                            /\ \A r \in Records!Found(g.id) : r.serial = g.serial)
                    /\ \A h \in given : h.id = g.id => h.ms = g.ms
                    /\ recordKind = "listed" => ~Records!Twin(g)
  BY DEF Records!OwnUnlessTwin
<1> USE DEF RecordsInv
<1>1. \A h \in given : h.id = g.id => h.ms = g.ms
  BY DEF IdsOfClocks
<1>2. recordKind = "listed" => ~Records!Twin(g)
  <2> SUFFICES ASSUME recordKind = "listed", NEW h \in given, h.id = g.id PROVE h = g
    BY DEF Records!Twin
  <2>1. h.serial - 1 = g.serial - 1 /\ h.serial \in Int /\ g.serial \in Int
    BY DEF ListedInOrder, Records!TypeOK
  <2> QED BY <2>1 DEF SerialsOnce
<1>3. ASSUME ~Records!Twin(g)
      PROVE  Records!Found(g.id) # {} /\ \A r \in Records!Found(g.id) : r.serial = g.serial
  <2>1. PICK r \in records : r.id = g.id /\ r.serial = g.serial
    BY <1>3 DEF Reachable
  <2>2. ASSUME NEW q \in records, q.id = g.id PROVE q.serial = g.serial /\ q = r
    <3>1. Entry(q) \in given /\ Entry(q).id = q.id /\ Entry(q).serial = q.serial
      BY DEF SerialsOnce, Entry
    <3>2. Entry(q) = g
      BY <1>3, <2>2, <3>1 DEF Records!Twin
    <3> QED BY <2>1, <3>1, <3>2 DEF SerialsOnce
  <2>3. r \in Records!Found(g.id)
    <3>1. r.serial <= r.serial
      BY DEF Records!TypeOK, Records!RecordType
    <3> QED BY <2>1, <2>2, <3>1 DEF Records!Found
  <2> QED BY <2>2, <2>3 DEF Records!Found
<1> QED BY <1>1, <1>2, <1>3

\* One request id is one command, whichever cores submit it; and the id of an operator's
\* record reaches that record, unless another was created in the same millisecond.
THEOREM RequestsStayBound == Spec => []RequestsBound
<1>1. CommandInv /\ RecordsInv => RequestsBound
  BY OwnIsReached DEF RequestsBound, CommandInv
<1>2. Init => RecordsInv
  BY RecordsInit DEF Init
<1>3. RecordsInv /\ [Next]_vars => RecordsInv'
  BY RecordsStep DEF Next, vars, recordVars, recordsVars
<1> QED BY <1>1, <1>2, <1>3, CommandAlways, PTL DEF Spec
=============================================================================
