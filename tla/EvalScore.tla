------------------------------ MODULE EvalScore ------------------------------
(***************************************************************************)
(* The pure part of the evaluation harness (apps/evals): how the end of a  *)
(* workflow becomes a status, how a case is scored, what the regression    *)
(* gate asks for and how two runs are compared.                            *)
(*                                                                         *)
(* The dimensions of a score and its overall are integers from 0 to 100;   *)
(* the product score is a hundred times that, although its documentation   *)
(* says 0-100 too (score.ts).  The fractions scores are rounded from are   *)
(* kept as a numerator and a denominator.  Durations are in the unit of    *)
(* the budget of a case.                                                   *)
(***************************************************************************)
EXTENDS Integers, FiniteSets, FiniteSetsExt

Statuses == {"completed", "build_failed", "agent_error", "timeout", "crashed"}

\* Math.round of num / den, for num >= 0 and den > 0.
Rounded(num, den) == (2 * num + den) \div (2 * den)

\* How a workflow can end: the fields of its final state the runner reads.
Finals == [completed : BOOLEAN, error : BOOLEAN,
           build : {"success", "errors", "pending", "none"}]

\* mapStatus, for a workflow that returned in time.
StatusOfFinal(f) ==
    IF f.completed /\ ~f.error THEN "completed"
    ELSE IF f.build \in {"errors", "pending"} \/ ~f.error THEN "build_failed"
    ELSE "agent_error"

\* One evaluated case: its status, repairs and duration, the checks that passed
\* (of Features, and only of a completed case) and the grade of the judge (0 .. 100,
\* or no valid one).
NoChecks == -1
NoGrade == -1

-------------------------------------------------------------------------------
\* computeScore, dimension by dimension.
BuildRaw(status) ==
    [completed |-> 100, build_failed |-> 40, agent_error |-> 10, timeout |-> 0,
     crashed |-> 0][status]

\* The number of features that passed, out of `features'.
FeaturesHit(e) == IF e.checks = NoChecks THEN 0 ELSE e.checks

QualityRaw(e) == IF e.grade = NoGrade THEN 50 ELSE e.grade

\* max(0, 100 - round(attempts / budget * 60)), and 100 without a budget.
FixRaw(attempts, budget) ==
    IF attempts <= 0 \/ budget <= 0 THEN 100
    ELSE Max({0, 100 - Rounded(60 * attempts, budget)})

\* Below the budget the rest of the time counts; at the budget and beyond it, 100 less
\* the time that was too much.
DurationRaw(duration, budget) ==
    IF budget <= 0 THEN 100
    ELSE IF duration >= budget
         THEN Max({0, 100 - Rounded(100 * (duration - budget), budget)})
         ELSE Rounded(100 * (budget - duration), budget)

\* Build and features, and the judge when its answer was valid: weights 35, 25, 20.  The
\* points a case has and what it could have, to a hundred points for each unit of weight.
ProductPoints(e, features) ==
    Max({features, 1}) * (35 * BuildRaw(e.status) + IF e.grade # NoGrade THEN 20 * e.grade ELSE 0)
    + 25 * 100 * FeaturesHit(e)

ProductWeight(e, features) == (IF e.grade # NoGrade THEN 80 ELSE 60) * Max({features, 1})

\* Points by weight is a number from 0 to 100 already; it is multiplied by 100 all the same.
ProductScore(e, features) ==
    Rounded(100 * ProductPoints(e, features), ProductWeight(e, features))

\* The score its documentation describes: "Scaled 0-100".
ProductPercent(e, features) ==
    Rounded(ProductPoints(e, features), ProductWeight(e, features))

\* The weighted sum of all five, times the bonus of the tier (in percent).
OverallScore(e, features, repairs, budget, bonus) ==
    LET total == Max({features, 1})
        points == total * (35 * BuildRaw(e.status) + 20 * QualityRaw(e)
                           + 10 * FixRaw(e.attempts, repairs)
                           + 10 * DurationRaw(e.duration, budget))
                  + 25 * 100 * FeaturesHit(e)
    IN  Min({100, Rounded(points * bonus, 100 * 100 * total)})

-------------------------------------------------------------------------------
\* toGateCases: the gate compares the product score, whatever the tier, with floors from 0
\* to 100.
GateScore(e, features) == ProductScore(e, features)

Average(scores, cases) == Rounded(MapThenSumSet(LAMBDA c : scores[c], cases),
                                  Cardinality(cases))

\* evaluateGate: the cases of the function `scores' against a floor of the average,
\* floors of single cases, and the number of cases that were expected.
GateBreaches(scores, average, floors, expected) ==
    LET scored == DOMAIN scores
    IN  IF scored = {} THEN {"empty_run"}
        ELSE (IF Cardinality(scored) < expected THEN {"incomplete_run"} ELSE {})
             \cup (IF Average(scores, scored) < average THEN {"average"} ELSE {})
             \cup (IF \E c \in scored \cap DOMAIN floors : scores[c] < floors[c]
                   THEN {"case"} ELSE {})

-------------------------------------------------------------------------------
\* compareRuns: the status of a case in two runs, or Missing.
Missing == "missing"

Rank(status) ==
    [completed |-> 3, build_failed |-> 2, agent_error |-> 1, timeout |-> 1,
     crashed |-> 0, missing |-> -1][status]

\* mutant: the ranks are compared the wrong way round.
TransitionSwapped(before, after) ==
    CASE after = Missing -> "removed"
      [] after # Missing /\ before = Missing -> "new"
      [] after # Missing /\ before # Missing ->
            IF Rank(after) < Rank(before) THEN "improved" ELSE "regressed"

Transition(before, after) ==
    CASE after = Missing -> "removed"
      [] after # Missing /\ before = Missing -> "new"
      [] after # Missing /\ before # Missing ->
            IF Rank(after) > Rank(before) THEN "improved"
            ELSE IF Rank(after) < Rank(before) THEN "regressed"
            ELSE IF after = "completed" THEN "stable_pass" ELSE "stable_fail"

Verdict(before, after) ==
    IF after \in {Missing, "crashed", "timeout"} THEN "failed"
    ELSE IF Transition(before, after) \in {"improved", "regressed"}
         THEN Transition(before, after) ELSE "unchanged"
=============================================================================
