----------------------------- MODULE CornerSweep -----------------------------
(***************************************************************************)
(* One full PVT sweep (pvt.py) by a pool of workers (simulators/parallel.  *)
(* py) over the caching simulator (simulators/cache.py, ngspice.py), and   *)
(* the corner seed taken from it.                                          *)
(*                                                                         *)
(* A point is a testbench at a corner.  Its key is the text it renders to, *)
(* its control block (one per testbench), the fingerprint of the files the *)
(* deck includes, here the number of times they changed, and the           *)
(* simulator, which is fixed.  What a deck measures under given files is   *)
(* chosen when it is first simulated and is the same ever after; a timeout *)
(* or a missing binary may befall any simulation, and any may raise.       *)
(*                                                                         *)
(* A worker holds the lock in one step, except where it writes a line of   *)
(* history.jsonl under it.  Files that an included file includes are not   *)
(* part of the key, and do not change here.                                *)
(***************************************************************************)
EXTENDS Judge, SequencesExt

CONSTANTS
  Testbenches, \* the testbenches of the specification
  CornerCount, \* the corners of spec.pvt_corners
  Criteria,    \* the criteria of each testbench, a sequence
  Rendering,   \* the text of each point
  Showing,     \* what each testbench may measure: a set of rows
  Worker,      \* the threads of the pool
  Plan         \* the sweeps explored: the testbenches in their order, and
               \* how often the included files change at the most

Plans == [order : Seq(Testbenches), touches : Nat]

ASSUME SweepAssumption ==
  /\ CornerCount \in Nat \ {0}   \* spec.py:361, 475
  /\ IsFiniteSet(Worker) /\ Worker # {} /\ None \notin Worker
  /\ DOMAIN Criteria = Testbenches
  /\ \A t \in Testbenches :
       /\ IsFiniteSet(DOMAIN Criteria[t]) /\ DOMAIN Criteria[t] \subseteq Nat
       /\ \A k \in DOMAIN Criteria[t] : IsCriterion(Criteria[t][k])
  /\ DOMAIN Rendering = Testbenches \X (1 .. CornerCount)
  /\ DOMAIN Showing = Testbenches
  /\ \A t \in Testbenches : \A row \in Showing[t] : IsRow(row)
  /\ \A p \in Plan : p \in Plans /\ p.order # <<>> /\ IsInjective(p.order)

VARIABLES
  plan,       \* the sweep that is run
  sweeping,   \* the sweep: "rendering", "mapping", "raised", "judged" or "seeded"
  enabled,    \* CachingSimulator.enabled
  pool,       \* the threads that take points: all, or the caller alone
  next,       \* the first point nobody took
  worker,     \* what each thread is doing
  files,      \* how often the included files have changed
  truth,      \* what the simulator shows of a deck under the files as they were
  entries,    \* _entries
  lock,       \* who holds _lock while it writes, or None
  counters,   \* hits and misses
  lines,      \* the sim_cache lines of history.jsonl, by kind
  answers,    \* the results of the points, by point
  report,     \* what run_full_pvt_sweep returned
  seed        \* what coverage_seed returned

cache == <<entries, lock, counters, lines>>
sweepVars == <<plan, sweeping, enabled, pool, next, worker, files, truth, cache, answers, report, seed>>

(* points of run_full_pvt_sweep: testbench by testbench.                   *)
Points == Range(plan.order) \X (1 .. CornerCount)
PointAt(n) ==
  <<plan.order[1 + ((n - 1) \div CornerCount)], 1 + ((n - 1) % CornerCount)>>
PointCount == Len(plan.order) * CornerCount

Keys == [text : Range(Rendering), control : Testbenches, files : 0 .. plan.touches]
KeyWithoutControl(point) ==   \* mutant: a determining factor is left out
  [text |-> Rendering[point], control |-> plan.order[1], files |-> files]
KeyOf(point) == [text |-> Rendering[point], control |-> point[1], files |-> files]

NothingMeasured == [m \in {} |-> 0]
Nothing == [p \in {} |-> 0]
Put(f, k, v) == [x \in DOMAIN f \cup {k} |-> IF x = k THEN v ELSE f[x]]
Results ==
  [row : UNION {Showing[t] : t \in Testbenches} \cup {NothingMeasured},
   failure_kind : {None, "no_measurements", "environment"}]
ResultOf(row) ==
  [row |-> row, failure_kind |-> IF row = NothingMeasured THEN "no_measurements" ELSE None]

(* ENVIRONMENT_FAILURES, a timeout or a missing binary, are not cached.     *)
Cacheable(result) == result.failure_kind # "environment"

Idle == [at |-> "idle"]

SweepInit ==
  /\ plan \in Plan
  /\ sweeping = "rendering"
  /\ enabled \in BOOLEAN
  /\ pool \in {Worker, {CHOOSE w \in Worker : TRUE}}
  /\ next = 1
  /\ worker = [w \in Worker |-> Idle]
  /\ files = 0
  /\ truth = Nothing
  /\ entries = Nothing
  /\ lock = None
  /\ counters = [hits |-> 0, misses |-> 0]
  /\ lines = [hit |-> 0, miss |-> 0, bypass |-> 0]
  /\ answers = Nothing
  /\ report = None
  /\ seed = None

-----------------------------------------------------------------------------
(* deck_for_corner: every point is rendered before any is simulated, and   *)
(* one that cannot be ends the sweep.                                      *)
Render ==
  /\ sweeping = "rendering"
  /\ sweeping' \in {"mapping", "raised"}
  /\ UNCHANGED <<plan, enabled, pool, next, worker, files, truth, cache, answers, report, seed>>

(* The pool is joined before an exception leaves it; the caller alone      *)
(* stops at the first one.                                                 *)
Raised == \E p \in DOMAIN answers : answers[p].how = "raised"
Joined == DOMAIN answers = Points /\ \A w \in pool : worker[w] = Idle
Stopped == Cardinality(pool) = 1 /\ Raised

Frame == UNCHANGED <<plan, sweeping, enabled, pool, files, report, seed>>
Becomes(w, state) == worker' = [worker EXCEPT ![w] = state]
At(w, place, how, result) ==
  [at |-> place, how |-> how, point |-> worker[w].point, key |-> worker[w].key, result |-> result]
GoTo(w, place) == Becomes(w, At(w, place, worker[w].how, worker[w].result))

(* A free thread takes the next point, writes its deck, reads it back and  *)
(* takes the fingerprint.  A cache that is disabled, or a deck it cannot   *)
(* read, is passed by.                                                     *)
TakePoint(w) ==
  /\ sweeping = "mapping"
  /\ w \in pool /\ worker[w] = Idle
  /\ next <= PointCount /\ ~Stopped
  /\ next' = next + 1
  /\ LET call(at, how) ==
           [at |-> at, how |-> how, point |-> PointAt(next), key |-> KeyOf(PointAt(next)),
            result |-> None]
     IN  \/ enabled /\ Becomes(w, call("lookup", "cache"))
         \/ Becomes(w, call("log", "bypass"))
  /\ Frame
  /\ UNCHANGED <<truth, cache, answers>>

(* The first critical section.                                             *)
Lookup(w) ==
  /\ worker[w].at = "lookup"
  /\ lock = None
  /\ LET key == worker[w].key
     IN  IF key \in DOMAIN entries
         THEN /\ counters' = [counters EXCEPT !.hits = @ + 1]
              /\ Becomes(w, At(w, "log", "hit", entries[key]))
         ELSE /\ counters' = [counters EXCEPT !.misses = @ + 1]
              /\ Becomes(w, At(w, "simulate", "miss", None))
  /\ Frame
  /\ UNCHANGED <<next, truth, entries, lock, lines, answers>>

(* NgspiceBackend.run, outside the lock, on the files as they are now.     *)
Simulated(w, result) ==
  LET place == IF worker[w].how = "bypass" THEN "return"
               ELSE IF Cacheable(result) THEN "store" ELSE "log"
  IN  Becomes(w, At(w, place, worker[w].how, result))
Simulate(w) ==
  /\ worker[w].at = "simulate"
  /\ LET key == [worker[w].key EXCEPT !.files = files]
     IN  \E row \in IF key \in DOMAIN truth THEN {truth[key]} ELSE Showing[key.control] :
           /\ truth' = Put(truth, key, row)
           /\ Simulated(w, ResultOf(row))
  /\ Frame
  /\ UNCHANGED <<next, cache, answers>>

EnvironmentFails(w) ==
  /\ worker[w].at = "simulate"
  /\ Simulated(w, [row |-> NothingMeasured, failure_kind |-> "environment"])
  /\ Frame
  /\ UNCHANGED <<next, truth, cache, answers>>

(* The future of the point gets the result, or an exception, which goes    *)
(* past the log.                                                           *)
Answer(w, how) == [how |-> how, key |-> worker[w].key, result |-> worker[w].result]
Raise(w) ==
  /\ worker[w].at = "simulate"
  /\ answers' = Put(answers, worker[w].point, Answer(w, "raised"))
  /\ Becomes(w, Idle)
  /\ Frame
  /\ UNCHANGED <<next, truth, cache>>

(* The second critical section.                                            *)
Store(w) ==
  /\ worker[w].at = "store"
  /\ lock = None
  /\ entries' = Put(entries, worker[w].key, worker[w].result)
  /\ GoTo(w, "log")
  /\ Frame
  /\ UNCHANGED <<next, truth, lock, counters, lines, answers>>

(* The third, or _emit's: log_event opens history.jsonl and appends.       *)
OpenUnlocked(w) ==   \* mutant: the line is written without the lock
  /\ worker[w].at = "log"
  /\ lock' = IF lock = None THEN w ELSE lock
  /\ GoTo(w, "write")
  /\ Frame
  /\ UNCHANGED <<next, truth, entries, counters, lines, answers>>
OpenLine(w) ==
  /\ worker[w].at = "log"
  /\ lock = None
  /\ lock' = w
  /\ GoTo(w, "write")
  /\ Frame
  /\ UNCHANGED <<next, truth, entries, counters, lines, answers>>

WriteKeepsLock(w) ==   \* mutant: the lock is not released
  /\ worker[w].at = "write"
  /\ lock' = lock
  /\ lines' = [lines EXCEPT ![worker[w].how] = @ + 1]
  /\ GoTo(w, IF worker[w].how = "bypass" THEN "simulate" ELSE "return")
  /\ Frame
  /\ UNCHANGED <<next, truth, entries, counters, answers>>
WriteLine(w) ==
  /\ worker[w].at = "write"
  /\ lock' = None
  /\ lines' = [lines EXCEPT ![worker[w].how] = @ + 1]
  /\ GoTo(w, IF worker[w].how = "bypass" THEN "simulate" ELSE "return")
  /\ Frame
  /\ UNCHANGED <<next, truth, entries, counters, answers>>

(* map_points: the result goes to the point's own key.                     *)
ReturnInOrder(w) ==   \* mutant: results are kept in the order they arrive
  /\ worker[w].at = "return"
  /\ answers' = Put(answers, PointAt(Cardinality(DOMAIN answers) + 1), Answer(w, worker[w].how))
  /\ Becomes(w, Idle)
  /\ Frame
  /\ UNCHANGED <<next, truth, cache>>
Return(w) ==
  /\ worker[w].at = "return"
  /\ answers' = Put(answers, worker[w].point, Answer(w, worker[w].how))
  /\ Becomes(w, Idle)
  /\ Frame
  /\ UNCHANGED <<next, truth, cache>>

(* An included file is replaced while the sweep runs.                      *)
TouchFiles ==
  /\ sweeping = "mapping"
  /\ files < plan.touches
  /\ files' = files + 1
  /\ UNCHANGED <<plan, sweeping, enabled, pool, next, worker, truth, cache, answers, report, seed>>

-----------------------------------------------------------------------------
MapRaises ==
  /\ sweeping = "mapping"
  /\ Raised
  /\ Joined \/ Stopped
  /\ sweeping' = "raised"
  /\ UNCHANGED <<plan, enabled, pool, next, worker, files, truth, cache, answers, report, seed>>

(* The rows of a testbench over the corners, and the merged rows, in which *)
(* the last testbench that measured something has it.                      *)
RowsOf(t) == [i \in 1 .. CornerCount |-> answers[<<t, i>>].result.row]
Merged(i) ==
  LET row(j) == answers[<<plan.order[j], i>>].result.row
      measuring(m) == {j \in DOMAIN plan.order : m \in DOMAIN row(j)}
  IN  [m \in UNION {DOMAIN row(j) : j \in DOMAIN plan.order} |-> row(Max(measuring(m)))[m]]
AllCriteria ==
  [p \in UNION {{t} \X DOMAIN Criteria[t] : t \in Range(plan.order)} |-> Criteria[p[1]][p[2]]]

(* Each criterion is judged by its own worst value, not by the slot.       *)
WorstSeen(t, c) ==   \* mutant: a corner that measured nothing is left out
  LET rows == SelectSeq(RowsOf(t), LAMBDA row : Measured(row, c) # None)
      worst == Worst(rows, c)
  IN  [name |-> c.name, actual |-> worst.value, pass |-> Passes(c, worst.value),
       corner |-> worst.corner]
Verdict(t, c) ==
  LET worst == Worst(RowsOf(t), c)
  IN  [name |-> c.name, actual |-> worst.value, pass |-> Passes(c, worst.value),
       corner |-> worst.corner]
Verdicts == [p \in DOMAIN AllCriteria |-> Verdict(p[1], AllCriteria[p])]

Report ==
  [overall_pass |-> \A p \in DOMAIN Verdicts : Verdicts[p].pass,
   criteria |-> Verdicts,
   per_corner |-> [i \in 1 .. CornerCount |->
                     [row |-> Merged(i), severity |-> Severity(Merged(i), AllCriteria)]]]
Judged ==
  /\ sweeping = "mapping"
  /\ Joined /\ ~Raised
  /\ report' = Report
  /\ sweeping' = "judged"
  /\ UNCHANGED <<plan, enabled, pool, next, worker, files, truth, cache, answers, seed>>

(* seed_from_sweep, for a specification that declares a coverage.          *)
SeedCorners ==
  /\ sweeping = "judged"
  /\ seed' = CoverageSeed([i \in 1 .. CornerCount |-> report.per_corner[i].row], AllCriteria)
  /\ sweeping' = "seeded"
  /\ UNCHANGED <<plan, enabled, pool, next, worker, files, truth, cache, answers, report>>

Work(w) ==
  \/ TakePoint(w) \/ Lookup(w) \/ Simulate(w) \/ EnvironmentFails(w) \/ Raise(w)
  \/ Store(w) \/ OpenLine(w) \/ WriteLine(w) \/ Return(w)
SweepNext ==
  \/ Render \/ TouchFiles \/ MapRaises \/ Judged \/ SeedCorners
  \/ \E w \in Worker : Work(w)

SweepSpec == SweepInit /\ [][SweepNext]_sweepVars

-----------------------------------------------------------------------------
SweepTypeOK ==
  /\ plan \in Plan
  /\ sweeping \in {"rendering", "mapping", "raised", "judged", "seeded"}
  /\ enabled \in BOOLEAN
  /\ pool \subseteq Worker /\ pool # {}
  /\ next \in Nat /\ files \in 0 .. plan.touches
  /\ DOMAIN truth \subseteq Keys /\ DOMAIN entries \subseteq Keys
  /\ \A k \in DOMAIN entries : entries[k] \in Results
  /\ lock \in Worker \cup {None}
  /\ counters \in [hits : Nat, misses : Nat]
  /\ lines \in [hit : Nat, miss : Nat, bypass : Nat]
  /\ DOMAIN answers \subseteq Points

(* The result a point gets is one its own deck gives: of its text, its     *)
(* control block and the files as they were at some moment of the call,    *)
(* whoever simulated it and whatever the others were doing; a failure of   *)
(* the environment is the point's own, never one that was kept             *)
(* (cache.py:1-60, parallel.py:21-26).                                     *)
AnswersAreTheirOwn ==
  \A p \in DOMAIN answers :
    LET a == answers[p]
        deck(v) == [text |-> Rendering[p], control |-> p[1], files |-> v]
    IN  \/ a.how = "raised"
        \/ a.how # "hit" /\ a.result.failure_kind = "environment"
        \/ \E v \in a.key.files .. files :
             deck(v) \in DOMAIN truth /\ a.result = ResultOf(truth[deck(v)])

(* A sweep passes exactly when every corner measured, and met, every       *)
(* criterion of its testbench; and the loop's judge, which sees one value  *)
(* per measurement whatever criteria share it, would say the same          *)
(* (pvt.py:307-396, 508-526).                                              *)
SweepPassesEveryCorner ==
  sweeping \in {"judged", "seeded"} =>
    /\ report.overall_pass <=>
         \A t \in Range(plan.order) : \A k \in DOMAIN Criteria[t] : \A i \in 1 .. CornerCount :
           Passes(Criteria[t][k], Measured(answers[<<t, i>>].result.row, Criteria[t][k]))
    /\ report.overall_pass <=>
         \A t \in Range(plan.order) : \A k \in DOMAIN Criteria[t] :
           Passes(Criteria[t][k], Slot(RowsOf(t), Criteria[t], Criteria[t][k].measurement))

(* The seed shows what the sweep showed: a criterion that it covers is     *)
(* shown by one of its corners, missing there or within epsilon of its     *)
(* worst value, and as many as tau asks for are covered                    *)
(* (corner_selection.py:170-191).                                          *)
SeedShowsTheWorst ==
  sweeping = "seeded" =>
    /\ seed.reached_target
    /\ \A k \in seed.covered : \E i \in seed.chosen :
         LET c == AllCriteria[k]
             row == report.per_corner[i].row
         IN  IF \E j \in 1 .. CornerCount : Measured(report.per_corner[j].row, c) = None
             THEN Measured(row, c) = None
             ELSE \A j \in 1 .. CornerCount :
                    LET worst == report.per_corner[j].row[c.measurement]
                        gap == IF LowerBound(c) THEN row[c.measurement] - worst
                                                ELSE worst - row[c.measurement]
                    IN  100 * gap <= Epsilon * Magnitude(worst)

(* Every call that returned has one line in the log, of its kind, and the  *)
(* counters add up to the calls, however the threads interleave; no line   *)
(* is begun inside another (cache.py:226-234, 268-317).                    *)
LogAccountsForCalls ==
  /\ \A v, w \in Worker : worker[v].at = "write" /\ worker[w].at = "write" => v = w
  /\ sweeping \in {"judged", "seeded"} =>
       /\ lines.hit = counters.hits /\ lines.miss = counters.misses
       /\ lines.hit + lines.miss + lines.bypass = PointCount
=============================================================================
