------------------------------ MODULE Optimizer ------------------------------
(***************************************************************************)
(* The two optimization phases of a run that passed (optimizer.py, mads.py *)
(* and cli.py:1001-1066): the area phase, then the objective phase, then   *)
(* the front over the points both measured.  A phase sweeps the deck it is *)
(* given over all corners, searches from it while simulating the selected  *)
(* corners only, sweeps the deck it arrives at and, if that fails, bisects *)
(* for a version that passes.                                              *)
(*                                                                         *)
(* What a simulation or a sweep shows of a deck, what the optimizer agent  *)
(* proposes and which calls raise is nondeterministic; a deck swept twice  *)
(* shows the same unless the sweep raises.                                 *)
(***************************************************************************)
EXTENDS KnobMoves, ParetoFront

CONSTANTS
  Start,        \* the deck the tuning loop passed
  Value,        \* what the objective can measure, a set of integers
  Run,          \* the runs explored, a subset of Runs
  Proposal,     \* the rankings the optimizer agent may propose, of Proposals
  Partners,     \* partners that compound_fallback tries
  MaxSteps,     \* MAX_OPTIMIZE_STEPS
  Composites,   \* the composite directions a poll can have, at most
  BudgetPercent \* optimize.area_budget, in percent of the starting area

(* What the specification and the caller fix.  cli runs coordinate descent *)
(* with both phases; the other strategies are run by scripts/search_ab.py, *)
(* one phase at a time.                                                    *)
Runs ==
  [corners : BOOLEAN, optimize : BOOLEAN, counted : BOOLEAN,
   strategy : {"coordinate_descent", "compound_fallback", "mads"}]

(* A ranking names knobs with a direction and with what their addressing   *)
(* runs into.  It may name a knob again.                                   *)
Blocks == {"none", "knob_gate", "knob_no_value"}
Proposals == Seq([knob : Knob, dir : Direction, block : Blocks])

ASSUME OptimizerAssumption ==
  /\ Start \in Decks
  /\ Value \subseteq Int
  /\ Run \subseteq Runs
  /\ Proposal \subseteq Proposals
  /\ {Partners, MaxSteps, Composites, BudgetPercent} \subseteq Nat

VARIABLES
  run,        \* what the specification and the caller fix for the run
  pc,
  phase,
  stack,      \* netlist_versions: the deck of every version, the oldest first
  anchor,     \* safe_index and anchor_index: the version the phase started from
  ranking,    \* run.knobs: knob, direction, and what its addressing runs into
  cursor,     \* the loops of a strategy: the lead, and the partner tried with it
  poll,       \* the state of mads
  before,     \* objective_before
  best,       \* best_objective
  steps,
  accepted,
  rejected_by,
  records,    \* what was measured of the anchor and of each accepted version
  interval,   \* lo and hi of the bisection
  sweep,      \* the version and deck of the sweep a result would carry
  passes,     \* the decks whose sweeps pass, as far as any was swept
  fails,      \* the decks whose sweeps fail, likewise
  results,
  front

search == <<ranking, cursor, poll, before, best, steps, accepted, rejected_by, records>>
checks == <<interval, sweep, passes, fails>>
vars == <<run, pc, phase, stack, anchor, search, checks, results, front>>

REJECTION_REASONS ==
  {"knob_gate", "knob_no_value", "exhausted", "area_growth", "area_budget",
   "simulation_failed", "not_accepted", "corner_walked_back"}
NoRejections == [r \in REJECTION_REASONS |-> 0]
NoSweep == [version |-> None, overall_pass |-> FALSE]
NoResult == [status |-> "none", points |-> <<>>]
NoPoll == [stopped |-> "none"]

Version == Len(stack) - 1
DeckAt(v) == stack[v + 1]
Top == DeckAt(Version)
PopTo(v) == SubSeq(stack, 1, v + 1)
AreaOf(d) == IF run.counted THEN Area(d) ELSE 0

(* SearchRun's state at the start of a phase.                              *)
FreshSearch ==
  /\ cursor' = [at |-> 1, partner |-> 0]
  /\ poll' = NoPoll
  /\ steps' = 0
  /\ accepted' = 0
  /\ rejected_by' = NoRejections

Init ==
  /\ run \in Run
  /\ pc = "area_setup"
  /\ phase = "area"
  /\ stack = <<Start>>
  /\ anchor = 0
  /\ ranking = <<>>
  /\ cursor = [at |-> 1, partner |-> 0]
  /\ poll = NoPoll
  /\ before = None
  /\ best = None
  /\ steps = 0
  /\ accepted = 0
  /\ rejected_by = NoRejections
  /\ records = [v \in {} |-> None]
  /\ interval = [lo |-> 0, hi |-> 0]
  /\ sweep = NoSweep
  /\ passes = {}
  /\ fails = {}
  /\ results = [p \in {"area", "objective"} |-> NoResult]
  /\ front = <<>>

-----------------------------------------------------------------------------
(* The end of a phase.                                                     *)
EndPhase(result) ==
  /\ results' = [results EXCEPT ![phase] = result]
  /\ IF phase = "area" THEN phase' = "objective" /\ pc' = "begin"
                       ELSE phase' = phase /\ pc' = "front"

(* _result without a search: the deck is the one the phase was given.      *)
Unsearched(status, objective, area, swept) ==
  [status |-> status, objective_before |-> objective, objective_after |-> objective,
   area_before |-> area, area_after |-> area, accepted |-> 0, rejected_by |-> NoRejections,
   pvt_sweep |-> swept, points |-> <<>>]

(* _final: what was measured of the version the phase landed on, and every *)
(* accepted version as a point.                                            *)
Final(status, landed, survived, walked_back, swept) ==
  [status |-> status,
   objective_before |-> before, objective_after |-> records[landed].objective,
   area_before |-> records[anchor].area, area_after |-> records[landed].area,
   accepted |-> survived,
   rejected_by |-> [rejected_by EXCEPT !["corner_walked_back"] = @ + walked_back],
   pvt_sweep |-> swept,
   points |-> [i \in 1 .. Cardinality(DOMAIN records) |->
                 [version |-> anchor + i - 1, landed |-> anchor + i - 1 = landed,
                  deck |-> records[anchor + i - 1].deck,
                  area |-> records[anchor + i - 1].area,
                  objective |-> records[anchor + i - 1].objective]]]

-----------------------------------------------------------------------------
(* run_area_optimization up to its call of run_optimization.               *)
AreaRefused ==
  /\ pc = "area_setup"
  /\ ~run.counted
  /\ EndPhase(Unsearched("REFUSED", None, 0, NoSweep))
  /\ UNCHANGED <<run, stack, anchor, search, checks, front>>

AreaSetupFails ==
  /\ pc = "area_setup"
  /\ \E area \in {0, AreaOf(Top)} : EndPhase(Unsearched("UNCHANGED", None, area, NoSweep))
  /\ UNCHANGED <<run, stack, anchor, search, checks, front>>

AreaRanks ==
  /\ pc = "area_setup"
  /\ run.counted
  /\ \E order \in AreaRankings(Top) :
       ranking' = [i \in DOMAIN order |-> [knob |-> order[i], dir |-> -1, block |-> "none"]]
  /\ pc' = "begin"
  /\ UNCHANGED <<run, phase, stack, anchor, cursor, poll, before, best, steps, accepted,
                 rejected_by, records, checks, results, front>>

(* cli hands each phase the deck on top of the stack.                      *)
GivenEntry == DeckAt(0)   \* mutant: the deck that the tuning loop left
Given == Top

ObjectiveSkipped ==
  /\ pc = "begin"
  /\ phase = "objective"
  /\ ~run.optimize
  /\ EndPhase(Unsearched("SKIPPED", None, AreaOf(Given), NoSweep))
  /\ UNCHANGED <<run, stack, anchor, search, checks, front>>

(* _optimize: the deck it was given is on top, and its version is safe.    *)
EnterPhase ==
  /\ pc = "begin"
  /\ phase = "objective" => run.optimize
  /\ stack' = IF Top = Given THEN stack ELSE Append(stack, Given)
  /\ anchor' = Len(stack') - 1
  /\ pc' = "baseline"
  /\ sweep' = NoSweep
  /\ FreshSearch
  /\ UNCHANGED <<run, phase, ranking, before, best, records, interval, passes, fails,
                 results, front>>

(* The baseline simulation.  The area needs none: a failed simulation only *)
(* ends the objective phase.                                               *)
Baseline ==
  /\ pc = "baseline"
  /\ \E value \in IF phase = "area" THEN {AreaOf(Top)} ELSE Value :
       /\ before' = value
       /\ best' = value
       /\ records' = [v \in {anchor} |->
                        [objective |-> value, area |-> AreaOf(Top), deck |-> Top]]
  /\ pc' = IF run.corners THEN "entry" ELSE "rank"
  /\ UNCHANGED <<run, phase, stack, anchor, ranking, cursor, poll, steps, accepted,
                 rejected_by, checks, results, front>>

BaselineUnmeasured ==
  /\ pc = "baseline"
  /\ phase = "objective"
  /\ EndPhase(Unsearched("UNCHANGED", None, AreaOf(Top), NoSweep))
  /\ UNCHANGED <<run, stack, anchor, search, checks, front>>

(* _run_sweep of version v: it passes, fails, or raises and shows nothing. *)
SweepOf(v, outcome) ==
  /\ outcome = "pass" => DeckAt(v) \notin fails
  /\ outcome = "fail" => DeckAt(v) \notin passes
  /\ passes' = passes \cup {d \in {DeckAt(v)} : outcome = "pass"}
  /\ fails' = fails \cup {d \in {DeckAt(v)} : outcome = "fail"}
Swept(v, outcome) ==
  IF outcome = "raised" THEN NoSweep
  ELSE [version |-> v, overall_pass |-> outcome = "pass"]

EntrySweep ==
  /\ pc = "entry"
  /\ \E outcome \in {"pass", "fail", "raised"} :
       /\ SweepOf(anchor, outcome)
       /\ sweep' = Swept(anchor, outcome)
       /\ IF outcome = "pass"
          THEN pc' = "rank" /\ UNCHANGED <<phase, results>>
          ELSE EndPhase(Unsearched("UNCHANGED", before, AreaOf(Top), sweep'))
  /\ UNCHANGED <<run, stack, anchor, search, interval, front>>

(* _knob_ranking.  The area phase brings its own.  Two coordinates of mads *)
(* for one parameter are not modelled.                                     *)
Rank ==
  /\ pc = "rank"
  /\ IF phase = "area" THEN ranking' = ranking ELSE ranking' \in Proposal
  /\ run.strategy = "mads" =>
       \A i, j \in DOMAIN ranking' : i # j => ranking'[i].knob # ranking'[j].knob
  /\ pc' = "search"
  /\ UNCHANGED <<run, phase, stack, anchor, cursor, poll, before, best, steps, accepted,
                 rejected_by, records, checks, results, front>>

-----------------------------------------------------------------------------
(* SearchRun.attempt and SearchOracle.evaluate.                            *)
Rejection(code) == rejected_by' = [rejected_by EXCEPT ![code] = @ + 1]

(* check_area_growth refuses, before anything is pushed, only what grew.   *)
MayRefuseGrowth(move) == \E k \in DOMAIN move : move[k] > DeckAt(anchor)[k]

PushMove(move) ==
  /\ stack' = Append(stack, Applied(Top, move))
  /\ pc' = "judge"

OverBudget ==
  /\ phase = "objective"
  /\ AreaOf(DeckAt(anchor)) > 0
  /\ 100 * AreaOf(Top) > BudgetPercent * AreaOf(DeckAt(anchor))

(* accept_step, on what the simulation of the pushed deck showed.          *)
Accept(objective) ==
  /\ objective < best
  /\ best' = objective
  /\ accepted' = accepted + 1
  /\ records' = [v \in DOMAIN records \cup {Version} |->
                   IF v = Version
                   THEN [objective |-> objective, area |-> AreaOf(Top), deck |-> Top]
                   ELSE records[v]]
  /\ UNCHANGED <<stack, rejected_by>>

(* A move too small for the deck's digits leaves the deck as it was, and   *)
(* its simulation shows what the best one showed.                          *)
Attained ==
  IF phase = "area" THEN {AreaOf(Top)}
  ELSE IF Top = DeckAt(Version - 1) THEN {best}
  ELSE Value

Discard(code) ==
  /\ Rejection(code)
  /\ stack' = PopTo(Version - 1)
  /\ UNCHANGED <<best, accepted, records>>

JudgeMove ==
  IF OverBudget THEN {"area_budget"} ELSE {"simulation_failed", "not_accepted"}

-----------------------------------------------------------------------------
(* coordinate_descent and compound_fallback: the same knob until a step is *)
(* not accepted, then, for the latter, with each of the next Partners      *)
(* knobs moved the other way.                                              *)
Descends == pc = "search" /\ run.strategy # "mads"
Lead == ranking[cursor.at]
Partner == ranking[cursor.at + cursor.partner]
PartnersLeft ==
  /\ run.strategy = "compound_fallback"
  /\ cursor.partner < Partners
  /\ cursor.at + cursor.partner < Len(ranking)
NextLead == cursor' = [at |-> cursor.at + 1, partner |-> 0]
NextTry ==
  IF PartnersLeft THEN cursor' = [cursor EXCEPT !.partner = @ + 1] ELSE NextLead

(* spend_step: the budget counts attempts that never reach a simulation.   *)
SpendStep == steps < MaxSteps /\ steps' = steps + 1
SearchFrame == UNCHANGED <<run, phase, anchor, ranking, before, checks, results, front>>

SearchOver ==
  /\ Descends
  /\ steps >= MaxSteps \/ cursor.at > Len(ranking)
  /\ pc' = "landing"
  /\ SearchFrame
  /\ UNCHANGED <<stack, cursor, poll, best, steps, accepted, rejected_by, records>>

LeadStops ==
  /\ Descends
  /\ cursor.at <= Len(ranking) /\ cursor.partner = 0
  /\ SpendStep
  /\ \/ Lead.block # "none" /\ Rejection(Lead.block)
     \/ /\ Lead.block = "none" /\ ~CanStep(Lead.knob, Top[Lead.knob], Lead.dir)
        /\ Rejection("exhausted")
  /\ NextLead
  /\ SearchFrame
  /\ UNCHANGED <<pc, stack, poll, best, accepted, records>>

PartnerStops ==
  /\ Descends
  /\ cursor.at <= Len(ranking) /\ cursor.partner > 0
  /\ SpendStep
  /\ \/ Partner.block # "none" /\ Rejection(Partner.block)
     \/ /\ Partner.block = "none"
        /\ ~CanStep(Partner.knob, Top[Partner.knob], -Lead.dir)
        /\ UNCHANGED rejected_by
  /\ NextTry
  /\ SearchFrame
  /\ UNCHANGED <<pc, stack, poll, best, accepted, records>>

DescentMove ==
  LET level == Stepped(Top[Lead.knob], Lead.dir)
  IN  IF cursor.partner = 0 THEN Single(Lead.knob, level)
      ELSE Pair(Lead.knob, level, Partner.knob, Stepped(Top[Partner.knob], -Lead.dir))
CanDescend ==
  /\ Descends
  /\ cursor.at <= Len(ranking)
  /\ Lead.block = "none" /\ CanStep(Lead.knob, Top[Lead.knob], Lead.dir)
  /\ cursor.partner > 0 =>
       Partner.block = "none" /\ CanStep(Partner.knob, Top[Partner.knob], -Lead.dir)

Descend ==
  /\ CanDescend
  /\ SpendStep
  /\ PushMove(DescentMove)
  /\ SearchFrame
  /\ UNCHANGED <<cursor, poll, best, accepted, rejected_by, records>>

DescentOutgrows ==
  /\ CanDescend
  /\ SpendStep
  /\ MayRefuseGrowth(DescentMove)
  /\ Rejection("area_growth")
  /\ NextTry
  /\ SearchFrame
  /\ UNCHANGED <<pc, stack, poll, best, accepted, records>>

JudgeDescent ==
  /\ pc = "judge"
  /\ run.strategy # "mads"
  /\ \/ /\ ~OverBudget
        /\ \E value \in Attained : Accept(value)
        /\ cursor' = [cursor EXCEPT !.partner = 0]
     \/ /\ \E code \in JudgeMove : Discard(code)
        /\ NextTry
  /\ pc' = "search"
  /\ SearchFrame
  /\ UNCHANGED <<poll, steps>>

-----------------------------------------------------------------------------
(* mads.  A poll has the knobs that are live, the points its directions    *)
(* lead to, and whether it spent a step; across polls go the mesh, the     *)
(* points refused, the last empty poll's points and the direction that     *)
(* succeeded last.                                                         *)
Polls == pc = "search" /\ run.strategy = "mads"
Dirs(live) ==
  [k \in live |-> ranking[CHOOSE i \in DOMAIN ranking : ranking[i].knob = k].dir]
Ranked(block) == {ranking[i].knob : i \in {j \in DOMAIN ranking : ranking[j].block = block}}
PollPoint(i) == PointOf(Top, Dirs(poll.live), poll.todo[i], poll.mesh)

(* Directions that move no knob are void, the axis of a knob that is not   *)
(* live among them.                                                        *)
Moving ==
  {i \in DOMAIN poll.todo : \E k \in poll.live :
     Moves(k, Top[k], Dirs(poll.live)[k], poll.todo[i][k], poll.mesh)}
PollPoints == {PollPoint(i) : i \in Moving}
Fresh == {i \in Moving : PollPoint(i) \notin poll.refused}

(* The first poll asks for every knob's state and drops the blocked ones.  *)
FirstPoll ==
  /\ Polls
  /\ poll = NoPoll
  /\ poll' = [stopped |-> IF Ranked("none") = {} THEN "no_live_knobs" ELSE "no",
              open |-> FALSE, live |-> Ranked("none"), mesh |-> InitialMesh, todo |-> <<>>,
              evaluated |-> FALSE, refused |-> {}, barren |-> {},
              trying |-> <<>>, preferred |-> <<>>]
  /\ rejected_by' = [rejected_by EXCEPT
                       !["knob_gate"] = @ + Cardinality(Ranked("knob_gate")),
                       !["knob_no_value"] = @ + Cardinality(Ranked("knob_no_value"))]
  /\ pc' = IF Ranked("none") = {} THEN "landing" ELSE "search"
  /\ SearchFrame
  /\ UNCHANGED <<stack, cursor, best, steps, accepted, records>>

OpenPoll ==
  /\ Polls
  /\ poll # NoPoll /\ ~poll.open
  /\ \E n \in 0 .. Composites : \E composites \in [1 .. n -> Vectors(poll.live)] :
       poll' = [poll EXCEPT
                  !.open = TRUE,
                  !.evaluated = FALSE,
                  !.todo = PollSet(poll.live, [i \in DOMAIN ranking |-> ranking[i].knob],
                                   poll.preferred, composites)]
  /\ SearchFrame
  /\ UNCHANGED <<pc, stack, cursor, best, steps, accepted, rejected_by, records>>

PollMove == PollPoint(Min(Fresh))
CanTry == Polls /\ poll # NoPoll /\ poll.open /\ Fresh # {}

TryPoint ==
  /\ CanTry
  /\ SpendStep
  /\ PushMove(PollMove)
  /\ poll' = [poll EXCEPT !.evaluated = TRUE, !.trying = <<Longest(poll.todo[Min(Fresh)])>>]
  /\ SearchFrame
  /\ UNCHANGED <<cursor, best, accepted, rejected_by, records>>

PollOutgrows ==
  /\ CanTry
  /\ SpendStep
  /\ MayRefuseGrowth(PollMove)
  /\ Rejection("area_growth")
  /\ poll' = [poll EXCEPT !.evaluated = TRUE, !.refused = @ \cup {PollMove}]
  /\ SearchFrame
  /\ UNCHANGED <<pc, stack, cursor, best, accepted, records>>

(* An incomplete poll leaves the mesh: unseen directions did not fail.     *)
PollOutOfSteps ==
  /\ CanTry
  /\ steps >= MaxSteps
  /\ poll' = [poll EXCEPT !.stopped = "budget"]
  /\ pc' = "landing"
  /\ SearchFrame
  /\ UNCHANGED <<stack, cursor, best, steps, accepted, rejected_by, records>>

(* Success ends the poll and expands the mesh; a refused point stays       *)
(* refused.                                                                *)
JudgePoint ==
  /\ pc = "judge"
  /\ run.strategy = "mads"
  /\ \/ /\ ~OverBudget
        /\ \E value \in Attained : Accept(value)
        /\ poll' = [poll EXCEPT !.open = FALSE, !.mesh = @ + 1, !.barren = {},
                                !.preferred = poll.trying]
     \/ /\ \E code \in JudgeMove : Discard(code)
        /\ poll' = [poll EXCEPT !.refused = @ \cup {Here(Top, poll.live)}]
  /\ pc' = "search"
  /\ SearchFrame
  /\ UNCHANGED <<cursor, steps>>

(* A poll that failed contracts the mesh; an empty one does too, unless    *)
(* the empty poll before it had the very same points.                      *)
ExhaustedAtOnce == ~poll.evaluated   \* mutant: the mesh is not contracted first
Exhausted == ~poll.evaluated /\ PollPoints \in poll.barren
ClosePoll ==
  /\ Polls
  /\ poll # NoPoll /\ poll.open /\ Fresh = {}
  /\ IF Exhausted
     THEN /\ poll' = [poll EXCEPT !.stopped = "all_knobs_exhausted"]
          /\ rejected_by' = [rejected_by EXCEPT !["exhausted"] = @ + Cardinality(poll.live)]
          /\ pc' = "landing"
     ELSE /\ poll' = [poll EXCEPT !.open = FALSE, !.mesh = @ - 1,
                                  !.barren = IF poll.evaluated THEN {} ELSE {PollPoints}]
          /\ UNCHANGED <<pc, rejected_by>>
  /\ SearchFrame
  /\ UNCHANGED <<stack, cursor, best, steps, accepted, records>>

-----------------------------------------------------------------------------
(* After the search: confirm, or bisect.                                   *)
Status(survived) == IF survived > 0 THEN "OPTIMIZED" ELSE "UNCHANGED"
LandingFrame == UNCHANGED <<run, anchor, search, front>>

LandUnswept ==
  /\ pc = "landing"
  /\ ~run.corners \/ accepted = 0
  /\ EndPhase(Final(Status(accepted), Version, accepted, 0, sweep))
  /\ LandingFrame
  /\ UNCHANGED <<stack, checks>>

Confirm ==
  /\ pc = "landing"
  /\ run.corners /\ accepted > 0
  /\ \E outcome \in {"pass", "fail", "raised"} :
       /\ SweepOf(Version, outcome)
       /\ IF outcome = "pass"
          THEN /\ EndPhase(Final("OPTIMIZED", Version, accepted, 0, Swept(Version, "pass")))
               /\ UNCHANGED interval
          ELSE /\ interval' = [lo |-> anchor, hi |-> Version]
               /\ pc' = "bisect"
               /\ UNCHANGED <<phase, results>>
  /\ LandingFrame
  /\ UNCHANGED <<stack, sweep>>

(* lo passed; hi failed or could not be swept.                             *)
Middle == (interval.lo + interval.hi) \div 2
Bisecting == interval.hi - interval.lo > 1

BisectProbe ==
  /\ pc = "bisect"
  /\ Bisecting
  /\ \E outcome \in {"pass", "fail", "raised"} :
       /\ SweepOf(Middle, outcome)
       /\ IF outcome = "pass"
          THEN /\ interval' = [interval EXCEPT !.lo = Middle]
               /\ sweep' = Swept(Middle, "pass")
          ELSE /\ interval' = [interval EXCEPT !.hi = Middle]
               /\ UNCHANGED sweep
  /\ LandingFrame
  /\ UNCHANGED <<pc, phase, stack, results>>

BisectLandsHigh ==   \* mutant: the version that failed
  /\ pc = "bisect"
  /\ ~Bisecting
  /\ stack' = PopTo(interval.hi)
  /\ LET survived == interval.hi - anchor
     IN  EndPhase(Final(Status(survived), interval.hi, survived, accepted - survived, sweep))
  /\ LandingFrame
  /\ UNCHANGED checks
BisectLands ==
  /\ pc = "bisect"
  /\ ~Bisecting
  /\ stack' = PopTo(interval.lo)
  /\ LET survived == interval.lo - anchor
     IN  EndPhase(Final(Status(survived), interval.lo, survived, accepted - survived, sweep))
  /\ LandingFrame
  /\ UNCHANGED checks

(* run_optimization: an agent's failure, an unusable change or a file that *)
(* cannot be read or written puts back the deck the phase was given.       *)
PhaseFails ==
  /\ pc \in {"begin", "baseline", "entry", "rank", "search", "judge", "landing", "bisect"}
  /\ stack' = IF pc = "begin" THEN stack ELSE PopTo(anchor)
  /\ \E area \in IF pc = "begin" THEN {0, AreaOf(Top)} ELSE {AreaOf(DeckAt(anchor))} :
       EndPhase(Unsearched("UNCHANGED", None, area, NoSweep))
  /\ UNCHANGED <<run, anchor, search, checks, front>>

-----------------------------------------------------------------------------
(* _build_pareto_front: a version seen before is left out.  The points of  *)
(* the area phase have no objective, and the entry is the deck it was      *)
(* given.                                                                  *)
Entry ==
  [deck |-> Start,
   area |-> results["area"].area_before, objective |-> results["objective"].objective_before]
Versions(points) == {points[i].version : i \in DOMAIN points}
FrontRow(point, objective) == [deck |-> point.deck, area |-> point.area, objective |-> objective]
FrontRows ==
  LET area == results["area"].points
      new == SelectSeq(results["objective"].points,
                       LAMBDA p : p.version \notin Versions(area))
  IN  <<Entry>> \o [i \in DOMAIN area |-> FrontRow(area[i], None)]
                \o [i \in DOMAIN new |-> FrontRow(new[i], new[i].objective)]

MakeFront ==
  /\ pc = "front"
  /\ front' = BuildFront(FrontRows)
  /\ pc' = "done"
  /\ UNCHANGED <<run, phase, stack, anchor, search, checks, results>>

Next ==
  \/ AreaRefused \/ AreaSetupFails \/ AreaRanks
  \/ ObjectiveSkipped \/ EnterPhase \/ Baseline \/ BaselineUnmeasured \/ EntrySweep \/ Rank
  \/ SearchOver \/ LeadStops \/ PartnerStops \/ Descend \/ DescentOutgrows \/ JudgeDescent
  \/ FirstPoll \/ OpenPoll \/ TryPoint \/ PollOutgrows \/ PollOutOfSteps \/ JudgePoint
  \/ ClosePoll
  \/ LandUnswept \/ Confirm \/ BisectProbe \/ BisectLands \/ PhaseFails \/ MakeFront

Spec == Init /\ [][Next]_vars

-----------------------------------------------------------------------------
Counters == {steps, accepted, interval.lo, interval.hi, anchor}
TypeOK ==
  /\ run \in Runs
  /\ phase \in {"area", "objective"}
  /\ stack \in Seq(Decks) /\ stack # <<>>
  /\ Counters \subseteq Nat
  /\ anchor <= Version
  /\ rejected_by \in [REJECTION_REASONS -> Nat]
  /\ sweep \in [version : Nat \cup {None}, overall_pass : BOOLEAN]
  /\ passes \subseteq Decks /\ fails \subseteq Decks

(* The phase whose search the run's deck comes from.                       *)
LastSearch == IF results["objective"].points # <<>> THEN "objective" ELSE "area"
Landed == results[LastSearch]
PhasesOver == pc \in {"front", "done"}

(* With corners, a search ends on a deck whose own sweep passed, and the   *)
(* sweep that the objective phase hands to the verdict is one of the deck  *)
(* on top (optimizer.py:556-558, cli.py:1072-1081).                        *)
LandsWhereASweepPassed ==
  PhasesOver =>
    /\ run.corners /\ Landed.points # <<>> =>
         /\ Landed.pvt_sweep = [version |-> Version, overall_pass |-> TRUE]
         /\ Top \in passes
    /\ LET shown == results["objective"].pvt_sweep
       IN  shown.version # None =>
             /\ shown.version = Version
             /\ Top \in IF shown.overall_pass THEN passes ELSE fails

(* What a run returns is the deck it started from, or the deck a search    *)
(* landed on with the figures measured of that deck, strictly better by as *)
(* many accepted steps as it lies above its anchor (optimizer.py:1463-1484 *)
(* "never a worse result than the start", 1975-1988).                      *)
ReturnsTheLanding ==
  PhasesOver =>
    IF Landed.points = <<>> THEN stack = <<Start>>
    ELSE /\ \E i \in DOMAIN Landed.points :
              /\ Landed.points[i] = [version |-> Version, landed |-> TRUE, deck |-> Top,
                                     area |-> Landed.area_after,
                                     objective |-> Landed.objective_after]
              /\ i = Landed.accepted + 1
         /\ Landed.status = Status(Landed.accepted)
         /\ Landed.accepted > 0 => Landed.objective_after < Landed.objective_before

(* MADS gives up on a knob only when no point next to the deck is left: a  *)
(* geometric knob's mesh is finer than the deck's digits, and the step by  *)
(* one device was refused.  While the mesh is coarser than at the start    *)
(* the latter does not hold (mads.py:520-543).                             *)
ExhaustionIsReal ==
  pc = "landing" /\ poll.stopped = "all_knobs_exhausted" =>
    \A k \in poll.live :
      IF k \in Count
      THEN poll.mesh <= InitialMesh /\ CanStep(k, Top[k], Dirs(poll.live)[k]) =>
             [Here(Top, poll.live) EXCEPT ![k] = Stepped(@, Dirs(poll.live)[k])]
               \in poll.refused
      ELSE Reach(2, poll.mesh) = 0

(* After a search that the corners confirmed, a row is marked              *)
(* corner_verified only when its deck did not fail a sweep (pareto.py:     *)
(* 116-118 "only the shipped point is checked at the corners").            *)
CornerVerifiedMeansSwept ==
  run.corners /\ Top \in passes =>
    \A i \in DOMAIN front : front[i].corner_verified => front[i].point.deck \notin fails
=============================================================================
