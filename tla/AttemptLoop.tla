----------------------------- MODULE AttemptLoop -----------------------------
(***************************************************************************)
(* The re-entry loop of cli._run and the corner box it shares with the     *)
(* tuning loop and the optimizer (corner_sim.py).  An attempt tunes a deck *)
(* until it passes at the selected corners, optimizes it, and sweeps it    *)
(* over all corners.  If the sweep fails at a corner the loop has not      *)
(* judged, the loop is entered again with that corner in the set.          *)
(*                                                                         *)
(* A deck is what its simulations show: the points where the loop's        *)
(* simulation fails and the corners where a sweep fails (the two differ    *)
(* when the simulator agent's control block does), and the attempts whose  *)
(* topology swap it contains.  What agents decide is nondeterministic.     *)
(* The run is one with corners, corner reduction and probes switched on.   *)
(***************************************************************************)
EXTENDS CornerSelection, Integers, Sequences

CONSTANTS
  Behaviour,           \* what a deck can show, a subset of Behaviours
  MaxOuterIterations,  \* orchestrator.MAX_OUTER_ITERATIONS
  RetryBudget,         \* corner_reduction.retry_budget
  MaxSearchSteps,      \* bound: simulations per optimization explored
  MaxResumes           \* bound: process deaths explored

Behaviours == [loop : SUBSET Point, sweep : SUBSET Corner, silent : BOOLEAN]

ASSUME BehaviourAssumption ==
  /\ Behaviour \subseteq Behaviours
  /\ \A b \in Behaviour : b.silent => b.sweep = Corner
ASSUME BoundAssumption ==
  /\ MaxOuterIterations \in Nat \ {0}
  /\ {RetryBudget, MaxSearchSteps, MaxResumes} \subseteq Nat

VARIABLES
  pc,
  deck,                 \* the deck on top of the stack
  under,                \* while a change is under review, the deck below it
  attempt,
  outer_iter,
  corner_state,         \* CornerState: corner_set, last_judged_corners, probe_frozen
  orch_status,          \* what run_orchestration returned
  swap_tried,           \* topology_swaps of this call is not empty
  all_topology_swaps,   \* the attempts whose swaps the result lists
  grown_labels,
  promotion_reentries,
  confirmed,            \* the optimization phase's sweep, if it reported one
  final_sweep,
  steps,                \* simulations of this optimization so far
  result,
  saved,
  resumes,
  turns,                \* history: probes of each corner since the rotation started
  passed                \* history: the points of the last PASS, {} once the deck is another

loop == <<under, outer_iter, swap_tried>>
ledger == <<attempt, all_topology_swaps, grown_labels, promotion_reentries>>
verdict == <<confirmed, final_sweep, steps, result>>
crash == <<saved, resumes>>
vars == <<pc, deck, loop, ledger, corner_state, orch_status, verdict, crash, turns, passed>>

None == {-1}   \* last_judged_corners before the first judgement: no set of points
NoDeck == [swaps |-> {}]
NoSweep == [overall_pass |-> FALSE]
NoResult == [status |-> "none"]
NoSave == [boundary |-> "none"]
NoTurns == [c \in Corner |-> 0]

Decks == [loop : SUBSET Point, sweep : SUBSET Corner, silent : BOOLEAN, swaps : SUBSET Nat]
DeckOf(behaviour, swaps) ==
  [loop |-> behaviour.loop, sweep |-> behaviour.sweep, silent |-> behaviour.silent,
   swaps |-> swaps]

(* run_full_pvt_sweep on deck d: each failing criterion names a corner it  *)
(* fails at, unless it was measured at none (d.silent).                    *)
Sweep(pass, worst) == [overall_pass |-> pass, worst |-> worst]
Sweeps(d) ==
  IF d.sweep = {} THEN {Sweep(TRUE, {})}
  ELSE {Sweep(FALSE, w) : w \in {w \in SUBSET d.sweep : w # {} \/ d.silent}}

Box(corner_set, judged, frozen) ==
  [corner_set |-> corner_set, last_judged_corners |-> judged, probe_frozen |-> frozen]
CornerSet == corner_state.corner_set

Init ==
  /\ pc = "enter"
  /\ \E b \in Behaviour : deck = DeckOf(b, {})
  /\ under = NoDeck
  /\ attempt = 0 /\ outer_iter = 0
  /\ \E chosen \in SUBSET Corner : corner_state = Box(Seed(chosen), None, FALSE)
  /\ orch_status = "none"
  /\ swap_tried = FALSE /\ all_topology_swaps = <<>>
  /\ grown_labels = <<>> /\ promotion_reentries = <<>>
  /\ confirmed = NoSweep /\ final_sweep = NoSweep /\ steps = 0
  /\ result = NoResult
  /\ saved = NoSave /\ resumes = 0
  /\ turns = NoTurns /\ passed = {}

-----------------------------------------------------------------------------
(* simulate_fn.  The probe is drawn before anything runs, and the rotation *)
(* is committed however the call ends.  The deck is judged at the selected *)
(* corners; only then is a probe that failed promoted.  A probe that       *)
(* raises decides nothing.                                                 *)
Probing == ~ corner_state.probe_frozen /\ CornerSet.probe_order # {}
Probes == IF Probing THEN {c \in Corner : IsNextProbe(CornerSet, c)} ELSE {Nominal}

AfterProbe(probe) == IF probe = Nominal THEN CornerSet ELSE Rotated(CornerSet)
Counted(probe) == IF probe = Nominal THEN turns ELSE [turns EXCEPT ![probe] = @ + 1]

SimulateRaises ==
  \E probe \in Probes :
    /\ corner_state' = [corner_state EXCEPT !.corner_set = AfterProbe(probe)]
    /\ turns' = Counted(probe)

Passes(d) == d.loop \cap CornerSet.corners = {}

SimulateSnapshotsLate(d) ==   \* mutant: the snapshot includes the promoted corner
  \E probe \in Probes, probe_raises \in BOOLEAN :
    LET promotes == ~ probe_raises /\ probe \in d.loop \ CornerSet.corners
        cs == IF promotes THEN Promoted(AfterProbe(probe), probe) ELSE AfterProbe(probe)
    IN  /\ corner_state' = Box(cs, IF corner_state.probe_frozen
                                     THEN corner_state.last_judged_corners ELSE cs.corners,
                               corner_state.probe_frozen)
        /\ turns' = IF promotes THEN NoTurns ELSE Counted(probe)
Simulate(d) ==
  \E probe \in Probes, probe_raises \in BOOLEAN :
    LET promotes == ~ probe_raises /\ probe \in d.loop \ CornerSet.corners
        cs == IF promotes THEN Promoted(AfterProbe(probe), probe) ELSE AfterProbe(probe)
    IN  /\ corner_state' = Box(cs, IF corner_state.probe_frozen
                                     THEN corner_state.last_judged_corners
                                     ELSE CornerSet.corners,
                               corner_state.probe_frozen)
        /\ turns' = IF promotes THEN NoTurns ELSE Counted(probe)

-----------------------------------------------------------------------------
(* _save: the box goes into the checkpoint with the attempt's records.     *)
Save(boundary) ==
  saved' = [boundary |-> boundary, deck |-> deck', attempt |-> attempt',
            outer_iter |-> outer_iter', corner_set |-> corner_state'.corner_set,
            last_judged_corners |-> corner_state'.last_judged_corners,
            orch_status |-> orch_status', swap_tried |-> swap_tried',
            all_topology_swaps |-> all_topology_swaps', grown_labels |-> grown_labels',
            promotion_reentries |-> promotion_reentries', turns |-> turns',
            passed |-> passed']

Enter ==
  /\ pc = "enter"
  /\ pc' = "head"
  /\ outer_iter' = 1
  /\ swap_tried' = FALSE
  /\ UNCHANGED <<deck, under, ledger, corner_state, orch_status, verdict, crash, turns, passed>>

LoopHead ==
  /\ pc = "head" /\ outer_iter <= MaxOuterIterations
  /\ pc' = "simulate"
  /\ UNCHANGED <<deck, loop, ledger, corner_state, orch_status, verdict, resumes, turns, passed>>
  /\ Save("outer_iteration")

Return(status) ==
  /\ pc' = "returned"
  /\ orch_status' = status
  /\ UNCHANGED <<outer_iter, swap_tried, ledger, verdict, crash>>

Exhausted ==
  /\ pc = "head" /\ outer_iter > MaxOuterIterations
  /\ Return("FAIL")
  /\ UNCHANGED <<deck, under, corner_state, turns, passed>>

NextIteration ==
  /\ pc' = "head"
  /\ outer_iter' = outer_iter + 1
  /\ under' = NoDeck
  /\ UNCHANGED <<swap_tried, ledger, orch_status, verdict, crash, passed>>

(* The simulation at the head of an iteration passes or fails the deck.    *)
JudgePasses ==
  /\ pc = "simulate" /\ Passes(deck)
  /\ Simulate(deck)
  /\ passed' = CornerSet.corners
  /\ Return("PASS")
  /\ UNCHANGED <<deck, under>>

JudgeFails ==
  /\ pc = "simulate" /\ ~ Passes(deck)
  /\ Simulate(deck)
  /\ pc' = "tune"
  /\ UNCHANGED <<deck, loop, ledger, orch_status, verdict, crash, passed>>

(* A tuning proposal or a topology swap is pushed; or none gets that far.  *)
Change(behaviour, swap) ==
  /\ pc = "tune"
  /\ pc' = "review"
  /\ under' = deck
  /\ deck' = DeckOf(behaviour, deck.swaps \cup (IF swap THEN {attempt} ELSE {}))
  /\ swap_tried' = (swap_tried \/ swap)
  /\ UNCHANGED <<outer_iter, ledger, corner_state, orch_status, verdict, crash, turns, passed>>

NoChange ==
  /\ pc = "tune"
  /\ NextIteration
  /\ UNCHANGED <<deck, corner_state, turns>>

(* The changed deck is simulated and reviewed: rolled back whatever it     *)
(* shows, kept, or returned because it passes.                             *)
ReviewRollsBack ==
  /\ pc = "review"
  /\ Simulate(deck)
  /\ deck' = under
  /\ NextIteration

ReviewKeeps ==
  /\ pc = "review" /\ ~ Passes(deck)
  /\ Simulate(deck)
  /\ NextIteration
  /\ UNCHANGED deck

ReviewPasses ==
  /\ pc = "review" /\ Passes(deck)
  /\ Simulate(deck)
  /\ passed' = CornerSet.corners
  /\ under' = NoDeck
  /\ Return("PASS")
  /\ UNCHANGED deck

(* An agent, a selected corner's simulation or a file operation raises,    *)
(* before, inside or after the simulation.                                 *)
Raises ==
  /\ \/ pc \in {"simulate", "review"} /\ (SimulateRaises \/ Simulate(deck))
     \/ pc \in {"simulate", "tune", "review"} /\ UNCHANGED <<corner_state, turns>>
  /\ Return("FAIL")
  /\ under' = NoDeck
  /\ UNCHANGED <<deck, passed>>

-----------------------------------------------------------------------------
(* The attempt's swaps join the run's, and the optimization boundary is    *)
(* saved.  A PASS is optimized, with the probe rotation frozen.            *)
AfterAttempt(status) == IF status = "PASS" THEN "optimize" ELSE "sweep"

EndAttemptUnfrozen ==   \* mutant: the probes go on while the search runs
  /\ pc = "returned"
  /\ all_topology_swaps' =
       IF swap_tried THEN Append(all_topology_swaps, attempt) ELSE all_topology_swaps
  /\ pc' = AfterAttempt(orch_status)
  /\ confirmed' = NoSweep /\ steps' = 0
  /\ UNCHANGED <<deck, loop, attempt, grown_labels, promotion_reentries, corner_state,
                 orch_status, final_sweep, result, resumes, turns, passed>>
  /\ Save("optimization")
EndAttempt ==
  /\ pc = "returned"
  /\ all_topology_swaps' =
       IF swap_tried THEN Append(all_topology_swaps, attempt) ELSE all_topology_swaps
  /\ pc' = AfterAttempt(orch_status)
  /\ corner_state' = [corner_state EXCEPT !.probe_frozen = (orch_status = "PASS")]
  /\ confirmed' = NoSweep /\ steps' = 0
  /\ UNCHANGED <<deck, loop, attempt, grown_labels, promotion_reentries, orch_status,
                 final_sweep, result, resumes, turns, passed>>
  /\ Save("optimization")

(* The search simulates its candidates in the same box; an exception is a  *)
(* rejected candidate.                                                     *)
SearchStep ==
  /\ pc = "optimize" /\ steps < MaxSearchSteps
  /\ SimulateRaises \/ \E b \in Behaviour : Simulate(DeckOf(b, deck.swaps))
  /\ steps' = steps + 1
  /\ UNCHANGED <<pc, deck, loop, ledger, orch_status, confirmed, final_sweep, result, crash,
                 passed>>

(* The two phases end on the deck they were given, or on one whose own     *)
(* sweep passed, which only a deck that passes its entry sweep leads to;   *)
(* the second phase hands back the landing deck's sweep, or none.          *)
Landings ==
  {deck} \cup (IF deck.sweep = {}
                 THEN {DeckOf(b, deck.swaps) : b \in {b \in Behaviour : b.sweep = {}}}
                 ELSE {})

OptimizeUnconfirmed ==   \* mutant: the last step is kept when its sweep fails
  /\ pc = "optimize"
  /\ deck' \in {DeckOf(b, deck.swaps) : b \in Behaviour}
  /\ confirmed' \in {NoSweep} \cup Sweeps(deck)
  /\ passed' = IF deck' = deck THEN passed ELSE {}
  /\ corner_state' = [corner_state EXCEPT !.probe_frozen = FALSE]
  /\ pc' = "sweep"
  /\ UNCHANGED <<loop, ledger, orch_status, final_sweep, steps, result, crash, turns>>
Optimize ==
  /\ pc = "optimize"
  /\ deck' \in Landings
  /\ confirmed' \in {NoSweep} \cup Sweeps(deck')
  /\ passed' = IF deck' = deck THEN passed ELSE {}
  /\ corner_state' = [corner_state EXCEPT !.probe_frozen = FALSE]
  /\ pc' = "sweep"
  /\ UNCHANGED <<loop, ledger, orch_status, final_sweep, steps, result, crash, turns>>

-----------------------------------------------------------------------------
(* The run ends.  The argmax drift compares the entry sweep with whatever  *)
(* final_sweep holds.                                                      *)
Finish(status, reason, pvt_sweep) ==
  /\ result' = [status |-> status, reason |-> reason, pvt_sweep |-> pvt_sweep,
                drift |-> final_sweep']
  /\ pc' = "done"
  /\ UNCHANGED <<deck, loop, ledger, corner_state, orch_status, confirmed, steps, crash, turns,
                 passed>>

(* The optimization's sweep is reused, or the deck is swept now.           *)
FinalSweep ==
  /\ pc = "sweep"
  /\ final_sweep' \in IF confirmed # NoSweep THEN {confirmed} ELSE Sweeps(deck)
  /\ pc' = "verdict"
  /\ UNCHANGED <<deck, loop, ledger, corner_state, orch_status, confirmed, steps, result, crash,
                 turns, passed>>

FinalSweepRaises ==
  /\ pc = "sweep" /\ confirmed = NoSweep
  /\ UNCHANGED final_sweep
  /\ Finish("FAIL", "sweep could not run", NoSweep)

Verdict(status, reason) == UNCHANGED final_sweep /\ Finish(status, reason, final_sweep)

SweepPasses ==
  /\ pc = "verdict" /\ final_sweep.overall_pass
  /\ Verdict(orch_status, "")

BudgetSpent ==
  /\ pc = "verdict" /\ ~ final_sweep.overall_pass
  /\ attempt >= RetryBudget
  /\ Verdict("FAIL", "sweep failed")

Reentering == pc = "verdict" /\ ~ final_sweep.overall_pass /\ attempt < RetryBudget

ReentrySkipped ==
  /\ Reentering /\ orch_status # "PASS"
  /\ Verdict("FAIL", "reentry skipped")

(* The failing corners join the set, and the loop is entered again from    *)
(* the deck as it is.                                                      *)
New == Added(CornerSet, final_sweep.worst)

NextAttempt(added, reentries) ==
  /\ attempt' = attempt + 1
  /\ grown_labels' = Append(grown_labels, added)
  /\ promotion_reentries' = promotion_reentries \o reentries
  /\ pc' = "enter"
  /\ UNCHANGED <<deck, loop, all_topology_swaps, orch_status, verdict, resumes, passed>>
  /\ Save("attempt")

Grow ==
  /\ Reentering /\ orch_status = "PASS"
  /\ New # {}
  /\ corner_state' = [corner_state EXCEPT !.corner_set = GrownWith(@, final_sweep.worst)]
  /\ turns' = NoTurns
  /\ NextAttempt(New, <<>>)

(* Every failing corner is in the set already.  One the judge never saw    *)
(* was promoted since: judge it.  Otherwise the two paths disagree, or no  *)
(* corner could be blamed.                                                 *)
Unjudged ==
  IF corner_state.last_judged_corners = None THEN {}
  ELSE final_sweep.worst \ corner_state.last_judged_corners

PromotionReentryAnyway ==   \* mutant: what was judged is not looked at
  /\ Reentering /\ orch_status = "PASS"
  /\ New = {} /\ final_sweep.worst # {}
  /\ UNCHANGED <<corner_state, turns>>
  /\ NextAttempt({}, <<[attempt |-> attempt + 1, corners |-> final_sweep.worst]>>)
PromotionReentryUnlisted ==   \* mutant: grown_labels does not get its empty entry
  /\ Reentering /\ orch_status = "PASS"
  /\ New = {} /\ Unjudged # {}
  /\ attempt' = attempt + 1
  /\ promotion_reentries' =
       Append(promotion_reentries, [attempt |-> attempt + 1, corners |-> Unjudged])
  /\ pc' = "enter"
  /\ UNCHANGED <<deck, loop, all_topology_swaps, grown_labels, corner_state, orch_status,
                 verdict, resumes, turns, passed>>
  /\ Save("attempt")
PromotionReentry ==
  /\ Reentering /\ orch_status = "PASS"
  /\ New = {} /\ Unjudged # {}
  /\ UNCHANGED <<corner_state, turns>>
  /\ NextAttempt({}, <<[attempt |-> attempt + 1, corners |-> Unjudged]>>)

PathDisagreement ==
  /\ Reentering /\ orch_status = "PASS"
  /\ New = {} /\ Unjudged = {} /\ final_sweep.worst # {}
  /\ Verdict("FAIL", "path disagreement")

UnattributedFailure ==
  /\ Reentering /\ orch_status = "PASS"
  /\ final_sweep.worst = {}
  /\ Verdict("FAIL", "unattributed")

-----------------------------------------------------------------------------
(* The process dies and is resumed from the last checkpoint.  The corner   *)
(* set is restored, not seeded again.                                      *)
ResumeAfterLoop ==   \* mutant: the attempt is counted again
  CASE saved.boundary = "outer_iteration" -> "head"
    [] saved.boundary = "attempt" -> "enter"
    [] saved.boundary = "optimization" -> "returned"
ResumePoint ==
  CASE saved.boundary = "outer_iteration" -> "head"
    [] saved.boundary = "attempt" -> "enter"
    [] saved.boundary = "optimization" -> AfterAttempt(saved.orch_status)

Resume ==
  /\ pc # "done" /\ saved # NoSave /\ resumes < MaxResumes
  /\ resumes' = resumes + 1
  /\ pc' = ResumePoint
  /\ deck' = saved.deck /\ under' = NoDeck
  /\ attempt' = saved.attempt /\ outer_iter' = saved.outer_iter
  /\ corner_state' = Box(saved.corner_set, saved.last_judged_corners, pc' = "optimize")
  /\ orch_status' = saved.orch_status
  /\ swap_tried' = saved.swap_tried /\ all_topology_swaps' = saved.all_topology_swaps
  /\ grown_labels' = saved.grown_labels
  /\ promotion_reentries' = saved.promotion_reentries
  /\ confirmed' = NoSweep /\ final_sweep' = NoSweep /\ steps' = 0
  /\ turns' = saved.turns /\ passed' = saved.passed
  /\ UNCHANGED <<result, saved>>

-----------------------------------------------------------------------------
Tuning ==
  \/ Enter \/ LoopHead \/ Exhausted
  \/ JudgePasses \/ JudgeFails
  \/ \E b \in Behaviour, swap \in BOOLEAN : Change(b, swap)
  \/ NoChange \/ ReviewRollsBack \/ ReviewKeeps \/ ReviewPasses \/ Raises

Ending ==
  \/ EndAttempt \/ SearchStep \/ Optimize \/ FinalSweep \/ FinalSweepRaises
  \/ SweepPasses \/ BudgetSpent \/ ReentrySkipped
  \/ PathDisagreement \/ UnattributedFailure

Next == Tuning \/ Ending \/ Grow \/ PromotionReentry \/ Resume

Spec == Init /\ [][Next]_vars

-----------------------------------------------------------------------------
(* Properties.                                                             *)

AllSweeps == [overall_pass : BOOLEAN, worst : SUBSET Corner] \cup {NoSweep}
Attempts == 0 .. RetryBudget
Saves ==
  [boundary : {"outer_iteration", "attempt", "optimization"}, deck : Decks,
   attempt : Attempts, outer_iter : 0 .. MaxOuterIterations + 1, corner_set : CornerSets,
   last_judged_corners : (SUBSET Point) \cup {None}, orch_status : {"none", "PASS", "FAIL"},
   swap_tried : BOOLEAN, all_topology_swaps : Seq(Attempts),
   grown_labels : Seq(SUBSET Corner),
   promotion_reentries : Seq([attempt : Attempts, corners : SUBSET Corner]),
   turns : [Corner -> Nat], passed : SUBSET Point]

Places == {"enter", "head", "simulate", "tune", "review", "returned", "optimize", "sweep",
           "verdict", "done"}
WorkTyped ==
  /\ pc \in Places
  /\ deck \in Decks /\ under \in Decks \cup {NoDeck}
  /\ attempt \in Attempts /\ outer_iter \in 0 .. MaxOuterIterations + 1
  /\ corner_state \in [corner_set : CornerSets, probe_frozen : BOOLEAN,
                       last_judged_corners : (SUBSET Point) \cup {None}]
  /\ orch_status \in {"none", "PASS", "FAIL"} /\ swap_tried \in BOOLEAN
  /\ all_topology_swaps \in Seq(Attempts)
  /\ grown_labels \in Seq(SUBSET Corner)
  /\ promotion_reentries \in Seq([attempt : Attempts, corners : SUBSET Corner])
  /\ confirmed \in AllSweeps /\ final_sweep \in AllSweeps /\ steps \in 0 .. MaxSearchSteps
  /\ resumes \in 0 .. MaxResumes
  /\ turns \in [Corner -> Nat] /\ passed \in SUBSET Point

(* The values the variables take; the rotation's index never points past   *)
(* the place behind the last corner that waits (corner_selection.py:401).  *)
TypeOK ==
  /\ WorkTyped
  /\ CornerSet.probe_index <= Cardinality(CornerSet.probe_order)
  /\ saved \in Saves \cup {NoSave}

(* Every corner is judged or waits for its probe, never both and never     *)
(* neither, in the box and in the checkpoint, after any mix of promotions, *)
(* growth and resumes: CornerSet can always be built (corner_selection.py: *)
(* 11-48) and no corner drops out of the run.                              *)
CornersPartition ==
  /\ Partition(CornerSet)
  /\ saved # NoSave => Partition(saved.corner_set)

(* While the set stays as it is, the waiting corners are probed in turn:   *)
(* none is ahead of another by more than one probe and the front one leads *)
(* (corner_sim.py:194-198: the box must not stay at one corner for good).  *)
RotationMissesNobody ==
  \A p, q \in CornerSet.probe_order :
    p < q => turns[q] <= turns[p] /\ turns[p] <= turns[q] + 1

(* A run that ends in a path disagreement had one: the loop passed this    *)
(* very deck at every corner the verdict sweep blames (cli.py:1257-1290).  *)
DisagreementsAreReal ==
  pc = "done" /\ result.reason = "path disagreement" =>
    /\ corner_state.last_judged_corners # None
    /\ final_sweep.worst \subseteq passed

(* A re-entry has news: the deck it starts from fails at a corner that the *)
(* loop now judges and has not judged yet (cli.py:1257-1260, "retrying     *)
(* would re-run identical information").                                   *)
ReentryBringsNews ==
  pc = "enter" /\ attempt > 0 =>
    \E c \in CornerSet.corners \ corner_state.last_judged_corners : c \in deck.sweep

(* The sweep the result reports is one of the deck the run hands over, and *)
(* a PASS has one that passed (cli.py:1064-1077).                          *)
VerdictDescribesTheDeck ==
  pc = "done" =>
    /\ result.pvt_sweep \in Sweeps(deck) \cup {NoSweep}
    /\ result.status = "PASS" => result.pvt_sweep.overall_pass

(* grown[i] is what attempt i + 1 added: an empty entry is a promotion     *)
(* re-entry and listed as one, and no corner is added twice                *)
(* (cli.py:1222-1229, len(grown) == attempts).                             *)
GrownExplainsAttempts ==
  /\ Len(grown_labels) = attempt
  /\ \A i \in 1 .. attempt :
       /\ grown_labels[i] = {} <=>
            \E j \in DOMAIN promotion_reentries : promotion_reentries[j].attempt = i
       /\ grown_labels[i] \subseteq CornerSet.corners
       /\ \A j \in 1 .. i - 1 : grown_labels[i] \cap grown_labels[j] = {}

(* Every swap the final deck contains is listed, once, whichever attempt   *)
(* made it and whenever the run was resumed (cli.py:852-867, 960-965).     *)
SwapsListedOnce ==
  pc = "done" =>
    \A a \in deck.swaps :
      Cardinality({i \in DOMAIN all_topology_swaps : all_topology_swaps[i] = a}) = 1

(* The result accounts for every attempt: what each added and what each    *)
(* swapped (cli.py:852-867, 960-965, 1222-1229).                           *)
ResultAccountsForAttempts == GrownExplainsAttempts /\ SwapsListedOnce

(* All simulations of an optimization search see one corner set, and leave *)
(* the judge's snapshot alone (corner_sim.py:41-60, 333-343).              *)
SearchSeesOneCornerSet ==
  [][pc = "optimize" /\ pc' \in {"optimize", "sweep"} =>
       /\ CornerSet' = CornerSet
       /\ corner_state'.last_judged_corners = corner_state.last_judged_corners]_vars

(* The argmax drift compares two sweeps of the entry deck and of the deck  *)
(* that was judged: without a verdict sweep there is none (cli.py:1344-    *)
(* 1345, tests/unit/test_cli.py:2955-2957).                                *)
DriftNeedsAVerdictSweep ==
  pc = "done" /\ result.pvt_sweep = NoSweep => result.drift = NoSweep
=============================================================================
