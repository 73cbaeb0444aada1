------------------------------- MODULE CostPlans -------------------------------
(***************************************************************************)
(* The plan versions and the audited savings of the cost dashboard.  A     *)
(* plan is drafted, approved, activated for its year and archived; one     *)
(* plan a year is the official forecast.  A savings measurement counts     *)
(* once finance has reviewed it, and no day of a scope may count twice.    *)
(* The rules are kept partly by the statements (a guard in the WHERE, a    *)
(* row lock), partly by the schema (a CHECK, a partial unique index),      *)
(* partly by the reader; requests of several administrators interleave at  *)
(* every statement, at READ COMMITTED.                                     *)
(***************************************************************************)
EXTENDS Naturals, FiniteSets

CONSTANTS
  Plans, Years,
  Measurements, SavingsDays,  \* savings measurements of one scope, days they may cover
  Editors,                \* requests of administrators
  MaxPlanEdits            \* bound: requests in a behaviour

ASSUME CostAssumption ==
  IsFiniteSet(Measurements) /\ SavingsDays \subseteq Nat /\ MaxPlanEdits \in Nat

VARIABLES
  plan,          \* cost_plan_versions: year, scenario, status, is_active, coverage_complete
  measurement,   \* savings_measurements: first and last day, reviewed
  editor,        \* per request: where it is and what it has read or claimed
  edited,        \* plans changed by an edit that read them as drafts when they were no longer
  planEdits

costVars == <<plan, measurement, editor, edited, planEdits>>

NoPlan == [year |-> 0, baseline |-> FALSE, status |-> "none", active |-> FALSE, covered |-> FALSE]
NoMeasurement == [first |-> 0, last |-> 0, reviewed |-> FALSE, status |-> "none"]
Uncommitted == [pc |-> "idle", on |-> "nothing", rest |-> {}, value |-> NoMeasurement]

CostInit ==
  /\ plan = [p \in Plans |-> NoPlan] /\ measurement = [s \in Measurements |-> NoMeasurement]
  /\ editor = [e \in Editors |-> Uncommitted] /\ edited = {} /\ planEdits = 0

Request == planEdits < MaxPlanEdits /\ planEdits' = planEdits + 1
Free(e) == editor[e].pc = "idle"

\* A row that a transaction has updated or selected FOR UPDATE makes other writers wait.
Locked(x) ==
  \E e \in Editors :
    \/ editor[e].pc \in {"clearing", "setting", "changing"} /\ editor[e].on = x
    \/ x \in editor[e].rest

\* Mutant: the index is not there.
AllowedTwice(rows) ==
  \A p \in Plans : rows[p].active => rows[p].status = "approved" /\ rows[p].baseline

\* The CHECK and the partial unique index, when the rows are written.
Allowed(rows) ==
  /\ \A p \in Plans : rows[p].active => rows[p].status = "approved" /\ rows[p].baseline
  /\ \A p, q \in Plans : rows[p].active /\ rows[q].active /\ rows[p].year = rows[q].year => p = q

-----------------------------------------------------------------------------
(* Plan versions *)

CreatePlan(p) ==
  /\ Request /\ plan[p].status = "none"
  /\ \E y \in Years, baseline, covered \in BOOLEAN :
       plan' = [plan EXCEPT ![p] = [year |-> y, baseline |-> baseline, status |-> "draft",
                                    active |-> FALSE, covered |-> covered]]
  /\ UNCHANGED <<measurement, editor, edited>>

\* update_cost_plan_version: reads the status without a lock...
ReadDraft(e, p) ==
  /\ Request /\ Free(e) /\ plan[p].status = "draft"
  /\ editor' = [editor EXCEPT ![e] = [Uncommitted EXCEPT !.pc = "editing", !.on = p]]
  /\ UNCHANGED <<plan, measurement, edited>>

\* ... and updates the row whatever it has become; the schema may refuse.
EditPlan(e) ==
  LET p == editor[e].on IN
  /\ editor[e].pc = "editing" /\ ~Locked(p)
  /\ editor' = [editor EXCEPT ![e] = Uncommitted]
  /\ \/ /\ \E y \in Years, baseline, covered \in BOOLEAN :
             LET rows == [plan EXCEPT ![p] = [@ EXCEPT !.year = y, !.baseline = baseline,
                                                       !.covered = covered]]
             IN Allowed(rows) /\ plan' = rows
        /\ edited' = IF plan[p].status = "draft" THEN edited ELSE edited \union {p}
     \/ UNCHANGED <<plan, edited>>
  /\ UNCHANGED <<measurement, planEdits>>

ApprovePlan(p) ==
  /\ Request /\ plan[p].status = "draft" /\ ~Locked(p)
  /\ plan' = [plan EXCEPT ![p].status = "approved", ![p].active = FALSE]
  /\ UNCHANGED <<measurement, editor, edited>>

\* Mutant: a plan with gaps is activated.
BeginActivationUncovered(e, p) ==
  /\ Request /\ Free(e) /\ ~Locked(p)
  /\ plan[p].status = "approved" /\ plan[p].baseline
  /\ editor' = [editor EXCEPT ![e] = [Uncommitted EXCEPT !.pc = "clearing", !.on = p]]
  /\ UNCHANGED <<plan, measurement, edited>>

\* activate_cost_plan_version, one transaction: the row is locked and judged,
BeginActivation(e, p) ==
  /\ Request /\ Free(e) /\ ~Locked(p)
  /\ plan[p].status = "approved" /\ plan[p].baseline /\ plan[p].covered
  /\ editor' = [editor EXCEPT ![e] = [Uncommitted EXCEPT !.pc = "clearing", !.on = p]]
  /\ UNCHANGED <<plan, measurement, edited>>

\* the plans of the year that are active, as far as committed, are updated,
ClearYear(e) ==
  LET p == editor[e].on
      others == {q \in Plans \ {p} : plan[q].active /\ plan[q].year = plan[p].year}
  IN /\ editor[e].pc = "clearing" /\ \A q \in others : ~Locked(q)
     /\ editor' = [editor EXCEPT ![e] = [@ EXCEPT !.pc = "setting", !.rest = others]]
     /\ UNCHANGED <<plan, measurement, edited, planEdits>>

\* and the plan itself; the index refuses the transaction that comes second.
CommitActivation(e) ==
  LET rows == [p \in Plans |-> IF p = editor[e].on THEN [plan[p] EXCEPT !.active = TRUE]
                               ELSE IF p \in editor[e].rest THEN [plan[p] EXCEPT !.active = FALSE]
                               ELSE plan[p]]
  IN /\ editor[e].pc = "setting"
     /\ plan' = IF Allowed(rows) THEN rows ELSE plan
     /\ editor' = [editor EXCEPT ![e] = Uncommitted]
     /\ UNCHANGED <<measurement, edited, planEdits>>

ArchivePlan(p) ==
  /\ Request /\ plan[p].status \in {"draft", "approved"} /\ ~Locked(p)
  /\ plan' = [plan EXCEPT ![p].status = "archived", ![p].active = FALSE]
  /\ UNCHANGED <<measurement, editor, edited>>

-----------------------------------------------------------------------------
(* Savings measurements *)

Stands(s) == measurement[s].status = "kept" /\ measurement[s].reviewed
Overlap(x, y) == x.first <= y.last /\ x.last >= y.first

\* _assert_savings_measurement_not_overlapping, against what is committed.
Clear(s, value) ==
  value.reviewed => \A o \in Measurements \ {s} : Stands(o) => ~Overlap(measurement[o], value)

Values ==
  {v \in [first : SavingsDays, last : SavingsDays, reviewed : BOOLEAN, status : {"kept"}] :
     v.first <= v.last}

\* A new row, or the row locked for the update; the values are checked.
CheckMeasurement(e, s) ==
  /\ Request /\ Free(e) /\ ~Locked(s)
  /\ \E value \in Values :
       /\ Clear(s, value)
       /\ editor' = [editor EXCEPT ![e] =
            [Uncommitted EXCEPT !.pc = "changing", !.on = s, !.value = value]]
  /\ UNCHANGED <<plan, measurement, edited>>

WriteMeasurement(e) ==
  /\ editor[e].pc = "changing"
  /\ measurement' = [measurement EXCEPT ![editor[e].on] = editor[e].value]
  /\ editor' = [editor EXCEPT ![e] = Uncommitted]
  /\ UNCHANGED <<plan, edited, planEdits>>

DeleteMeasurement(s) ==
  /\ Request /\ measurement[s].status = "kept" /\ ~Locked(s)
  /\ measurement' = [measurement EXCEPT ![s] = NoMeasurement]
  /\ UNCHANGED <<plan, editor, edited>>

\* Mutant: the reader takes every reviewed measurement.
AuditedAll(order, asOf) ==
  {s \in Measurements : Stands(s) /\ measurement[s].last <= asOf}

\* What has ended and overlaps nothing accepted before is accepted.
Accept(accepted, s, asOf) ==
  IF /\ Stands(s) /\ measurement[s].last <= asOf
     /\ \A o \in accepted : ~Overlap(measurement[o], measurement[s])
  THEN accepted \union {s} ELSE accepted

\* list_savings_measurements and reviewed_savings_measurements as of a day, in the order
\* of the first days.
Audited(order, asOf) ==
  LET accepted[k \in 0..Cardinality(Measurements)] ==
        IF k = 0 THEN {} ELSE Accept(accepted[k - 1], order[k], asOf)
  IN accepted[Cardinality(Measurements)]

AuditOrders(n) ==
  {order \in [1..n -> Measurements] :
     /\ \A i, j \in 1..n : order[i] = order[j] => i = j
     /\ \A i, j \in 1..n : i < j => measurement[order[i]].first <= measurement[order[j]].first}

PlanNext ==
  \/ \E p \in Plans : CreatePlan(p) \/ ApprovePlan(p) \/ ArchivePlan(p)
  \/ \E e \in Editors, p \in Plans : ReadDraft(e, p) \/ BeginActivation(e, p)
  \/ \E e \in Editors : EditPlan(e) \/ ClearYear(e) \/ CommitActivation(e)

SavingsNext ==
  \/ \E e \in Editors, s \in Measurements : CheckMeasurement(e, s)
  \/ \E e \in Editors : WriteMeasurement(e)
  \/ \E s \in Measurements : DeleteMeasurement(s)

CostNext == PlanNext \/ SavingsNext

CostSpec == CostInit /\ [][CostNext]_costVars

-----------------------------------------------------------------------------
\* Plans, measurements and requests keep their types.
CostTypeOK ==
  /\ plan \in [Plans -> [year : Years \union {0}, baseline : BOOLEAN,
       status : {"none", "draft", "approved", "archived"}, active : BOOLEAN, covered : BOOLEAN]]
  /\ measurement \in [Measurements -> [first : SavingsDays \union {0},
       last : SavingsDays \union {0}, reviewed : BOOLEAN, status : {"none", "kept"}]]
  /\ \A e \in Editors :
       editor[e].pc \in {"idle", "editing", "clearing", "setting", "changing"}
  /\ edited \subseteq Plans /\ planEdits \in 0..MaxPlanEdits

\* A year has one official forecast at most, and it is an approved baseline plan without
\* gaps, unless an edit that found it a draft came late.
OneOfficialPlan ==
  /\ \A p, q \in Plans : plan[p].active /\ plan[q].active /\ plan[p].year = plan[q].year => p = q
  /\ \A p \in Plans : plan[p].active =>
       plan[p].status = "approved" /\ plan[p].baseline /\ (plan[p].covered \/ p \in edited)

\* Whatever measurements were stored, no day of the scope is counted twice.
SavingsCountOnce ==
  \A asOf \in SavingsDays, order \in AuditOrders(Cardinality(Measurements)) :
    \A s, o \in Audited(order, asOf) : s # o => ~Overlap(measurement[s], measurement[o])

CostsAreSound == OneOfficialPlan /\ SavingsCountOnce
==============================================================================
