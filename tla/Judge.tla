-------------------------------- MODULE Judge --------------------------------
(***************************************************************************)
(* The deterministic judge (judge_tools.py) and what it is applied to: the *)
(* worst value of each criterion over the corners (pvt.py) and the seed of *)
(* the corner set (corner_selection.py).                                   *)
(*                                                                         *)
(* A criterion is a record [name, measurement, operator, threshold], with  *)
(* the four operators that spec.py admits; criteria are a sequence of them *)
(* or, where their order is not looked at, a function on any indices.  A   *)
(* row is what one corner measured: a function on the measurements that it *)
(* produced.                                                               *)
(***************************************************************************)
EXTENDS Missing, Sequences, FiniteSets, FiniteSetsExt

CONSTANTS
  Epsilon,   \* coverage.epsilon, in percent
  Tau        \* coverage.tau, in percent

(* spec.py:595-616.                                                        *)
ASSUME CoverageAssumption == Epsilon \in 0 .. 100 /\ Tau \in 0 .. 100

IsCriterion(c) == c.operator \in {">=", ">", "<=", "<"} /\ c.threshold \in Int
IsRow(row) == \A m \in DOMAIN row : row[m] \in Int

Magnitude(x) == IF x < 0 THEN -x ELSE x
LowerBound(c) == c.operator \in {">=", ">"}

(* evaluate_criteria: a measurement that is missing fails.                 *)
Measured(row, c) == IF c.measurement \in DOMAIN row THEN row[c.measurement] ELSE None
MeetsByValue(c, value) ==
  CASE c.operator = ">=" -> value >= c.threshold
    [] c.operator = ">"  -> value > c.threshold
    [] c.operator = "<=" -> value <= c.threshold
    [] c.operator = "<"  -> value < c.threshold
Passes(c, value) == value # None /\ MeetsByValue(c, value)

-----------------------------------------------------------------------------
(* worst_case_measurements.  A criterion that any corner did not measure   *)
(* has no worst value, and names the first such corner.                    *)
NoWorst == [corner |-> None, value |-> None]
WorstOf(values, c) == IF LowerBound(c) THEN Min(values) ELSE Max(values)
Worst(rows, c) ==
  LET seen == {i \in DOMAIN rows : Measured(rows[i], c) # None}
      worst == WorstOf({rows[i][c.measurement] : i \in seen}, c)
  IN  IF seen = {} THEN NoWorst
      ELSE IF seen # DOMAIN rows THEN [corner |-> Min(DOMAIN rows \ seen), value |-> None]
      ELSE [corner |-> Min({i \in seen : rows[i][c.measurement] = worst}), value |-> worst]

(* The one value per measurement that the loop judges: criteria that share *)
(* it have opposite worst cases, and one that is violated goes first.      *)
Candidates(rows, criteria, measurement) ==
  {k \in DOMAIN criteria :
     criteria[k].measurement = measurement /\ Worst(rows, criteria[k]).value # None}
Slot(rows, criteria, measurement) ==
  LET worst(k) == Worst(rows, criteria[k]).value
      all == Candidates(rows, criteria, measurement)
      violating == {k \in all : ~Passes(criteria[k], worst(k))}
  IN  IF all = {} THEN None
      ELSE worst(IF violating # {} THEN Min(violating) ELSE Max(all))

(* corner_severity: the smallest relative margin of a row, as a fraction;  *)
(* -inf when a criterion has no measurement.                               *)
Margin(c, value) ==
  LET above == value - c.threshold
      scale == IF c.threshold = 0 THEN 1 ELSE Magnitude(c.threshold)
  IN  <<IF LowerBound(c) THEN above ELSE -above, scale>>
AtMost(a, b) == a[1] * b[2] <= b[1] * a[2]
Severity(row, criteria) ==
  LET margins == {Margin(criteria[i], row[criteria[i].measurement]) : i \in DOMAIN criteria}
  IN  IF \E i \in DOMAIN criteria : Measured(row, criteria[i]) = None THEN None
      ELSE CHOOSE m \in margins : \A other \in margins : AtMost(m, other)

-----------------------------------------------------------------------------
(* coverage_seed.  A corner covers a criterion when its value is within    *)
(* epsilon of the worst one; when some corner did not measure it, only the *)
(* corners that did not.                                                   *)
CoveredThoughMissing(rows, criteria, i) ==   \* mutant: what nobody can rank, any corner shows
  {k \in DOMAIN criteria :
     LET c == criteria[k]
         worst == Worst(rows, c).value
     IN  IF worst = None THEN TRUE
         ELSE 100 * Magnitude(rows[i][c.measurement] - worst) <= Epsilon * Magnitude(worst)}
Covered(rows, criteria, i) ==
  {k \in DOMAIN criteria :
     LET c == criteria[k]
         worst == Worst(rows, c).value
     IN  IF worst = None THEN Measured(rows[i], c) = None
         ELSE 100 * Magnitude(rows[i][c.measurement] - worst) <= Epsilon * Magnitude(worst)}

Target(criteria) == (Tau * Cardinality(DOMAIN criteria) + 99) \div 100

(* What an argmax seed would have chosen.                                  *)
ArgmaxPoints(rows, criteria) ==
  {Worst(rows, criteria[k]).corner : k \in DOMAIN criteria} \ {None}

(* Greedily, the first corner of the largest gain, until the target.       *)
Pick(rows, criteria, covered) ==
  LET gain(i) == Cardinality(Covered(rows, criteria, i) \ covered)
  IN  Min({i \in DOMAIN rows : \A j \in DOMAIN rows : gain(j) <= gain(i)})
Enough(rows, criteria, covered) ==
  \/ Cardinality(covered) >= Target(criteria)
  \/ \A i \in DOMAIN rows : Covered(rows, criteria, i) \subseteq covered
Grown(rows, criteria, s) ==
  LET i == Pick(rows, criteria, s.covered)
  IN  IF Enough(rows, criteria, s.covered) THEN s
      ELSE [chosen |-> s.chosen \cup {i},
            covered |-> s.covered \cup Covered(rows, criteria, i)]
Chosen(rows, criteria) ==
  LET after[n \in 0 .. Len(rows)] ==
        IF n = 0 THEN [chosen |-> {}, covered |-> {}] ELSE Grown(rows, criteria, after[n - 1])
  IN  after[Len(rows)]
CoverageSeed(rows, criteria) ==
  LET end == Chosen(rows, criteria)
  IN  [chosen |-> end.chosen, covered |-> end.covered,
       dropped |-> ArgmaxPoints(rows, criteria) \ end.chosen,
       reached_target |-> Cardinality(end.covered) >= Target(criteria)]
=============================================================================
