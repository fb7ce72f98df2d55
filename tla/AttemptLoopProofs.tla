-------------------------- MODULE AttemptLoopProofs --------------------------
(***************************************************************************)
(* What the re-entry loop guarantees for any number of corners, any decks, *)
(* and any number of attempts, iterations and resumes.                     *)
(*                                                                         *)
(* IInv: the corner set in the box and the one in the checkpoint are good  *)
(* (every operation on a corner set returns a good one), a search is       *)
(* frozen with the box that was saved before it, and a sweep at hand is of *)
(* the deck on top.  Relative to it, each with its counterpart for the     *)
(* checkpoint, which a resume turns into the state: RotationInv (the       *)
(* rotation is even), JudgeInv (what the judge's snapshot says of the      *)
(* deck), GrownInv and SwapsInv (the result's records explain the          *)
(* attempts).                                                              *)
(***************************************************************************)
EXTENDS AttemptLoop, FiniteSetTheorems, TLAPS

Good(cs) ==
  /\ cs \in CornerSets
  /\ Partition(cs)
  /\ cs.probe_index <= Cardinality(cs.probe_order)

BoxInv ==
  /\ Good(CornerSet)
  /\ saved # NoSave => Good(saved.corner_set)

PlaceInv ==
  /\ pc \in {"simulate", "tune", "review"} => outer_iter <= MaxOuterIterations
  /\ pc = "review" => under \in Decks
  /\ pc = "optimize" =>
       /\ corner_state.probe_frozen
       /\ saved.corner_set = CornerSet
       /\ saved.last_judged_corners = corner_state.last_judged_corners

SweepInv ==
  /\ pc = "sweep" => confirmed \in {NoSweep} \cup Sweeps(deck)
  /\ pc = "verdict" => final_sweep \in Sweeps(deck)
  /\ VerdictDescribesTheDeck

IInv == TypeOK /\ BoxInv /\ PlaceInv /\ SweepInv

-----------------------------------------------------------------------------
(* Corner sets.                                                            *)

LEMMA WaitingFinite ==
  ASSUME NEW cs \in CornerSets
  PROVE  /\ IsFiniteSet(cs.probe_order)
         /\ Cardinality(cs.probe_order) \in Nat
         /\ cs.probe_order # {} => Cardinality(cs.probe_order) > 0
<1>1. IsFiniteSet(Corner)
  BY CornersAssumption, FS_Interval DEF Corner
<1>2. cs.probe_order \subseteq Corner
  BY DEF CornerSets
<1>3. IsFiniteSet(cs.probe_order)
  BY <1>1, <1>2, FS_Subset
<1>4. Cardinality(cs.probe_order) \in Nat
  BY <1>3, FS_CardinalityType
<1>5. cs.probe_order # {} => Cardinality(cs.probe_order) # 0
  BY <1>3, FS_EmptySet
<1> QED
  BY <1>3, <1>4, <1>5

LEMMA PointsSplit == Point = {Nominal} \cup Corner /\ Nominal \notin Corner
BY CornersAssumption DEF Point, Nominal, Corner

LEMMA SeedGood ==
  ASSUME NEW chosen \in SUBSET Corner
  PROVE  Good(Seed(chosen))
<1>1. Seed(chosen) \in CornerSets
  BY PointsSplit DEF Seed, CornerSets
<1>2. Partition(Seed(chosen))
  BY PointsSplit DEF Seed, Partition
<1>3. Seed(chosen).probe_index = 0
  BY DEF Seed
<1> QED
  BY <1>1, <1>2, <1>3, WaitingFinite DEF Good

LEMMA RotatedGood ==
  ASSUME NEW cs, Good(cs), cs.probe_order # {}
  PROVE  Good(Rotated(cs))
<1> DEFINE n == Cardinality(cs.probe_order)
<1>1. cs \in CornerSets /\ n \in Nat /\ n > 0 /\ cs.probe_index \in Nat
  BY WaitingFinite DEF Good, CornerSets
<1>2. cs.probe_index % n \in 0 .. n - 1
  BY <1>1
<1>3. Turn(cs) \in Nat /\ Turn(cs) + 1 <= n
  BY <1>1, <1>2 DEF Turn
<1>4. /\ Rotated(cs).corners = cs.corners
      /\ Rotated(cs).probe_order = cs.probe_order
      /\ Rotated(cs).probe_index = Turn(cs) + 1
      /\ Rotated(cs) \in CornerSets
  BY <1>1, <1>3 DEF Rotated, CornerSets
<1> QED
  BY <1>3, <1>4 DEF Good, Partition

LEMMA TakenGood ==
  ASSUME NEW cs, Good(cs), NEW new \in SUBSET Corner
  PROVE  Good(Taken(cs, new))
<1>1. Taken(cs, new) \in CornerSets
  BY PointsSplit DEF Good, Taken, CornerSets
<1>2. Partition(Taken(cs, new))
  BY PointsSplit DEF Good, Taken, Partition, CornerSets
<1>3. Taken(cs, new).probe_index = 0
  BY DEF Taken
<1> QED
  BY <1>1, <1>2, <1>3, WaitingFinite DEF Good

LEMMA GrownGood ==
  ASSUME NEW cs, Good(cs), NEW failing \in SUBSET Corner
  PROVE  Good(GrownWith(cs, failing))
BY TakenGood DEF GrownWith, Added

(* simulate_fn leaves a good box, and a frozen one as it was.              *)
LEMMA ProbeGood ==
  ASSUME TypeOK, BoxInv, NEW probe \in Probes
  PROVE  /\ probe \in Point
         /\ Good(AfterProbe(probe))
         /\ Counted(probe) \in [Corner -> Nat]
         /\ corner_state.probe_frozen => probe = Nominal /\ AfterProbe(probe) = CornerSet
<1>1. CASE Probing
  <2>1. probe \in Corner /\ probe # Nominal /\ CornerSet.probe_order # {}
    BY <1>1, PointsSplit DEF Probes, Probing
  <2>2. Good(AfterProbe(probe))
    BY <2>1, RotatedGood DEF AfterProbe, BoxInv
  <2>3. Counted(probe) \in [Corner -> Nat]
    BY <2>1 DEF Counted, TypeOK, WorkTyped
  <2> QED
    BY <1>1, <2>1, <2>2, <2>3, PointsSplit DEF Probing
<1>2. CASE ~ Probing
  BY <1>2, PointsSplit DEF Probes, AfterProbe, Counted, BoxInv, TypeOK, WorkTyped
<1> QED
  BY <1>1, <1>2

Boxes == [corner_set : CornerSets, probe_frozen : BOOLEAN,
          last_judged_corners : (SUBSET Point) \cup {None}]
BoxStep ==
  /\ corner_state' \in Boxes /\ Good(CornerSet')
  /\ turns' \in [Corner -> Nat]
  /\ corner_state'.probe_frozen = corner_state.probe_frozen

LEMMA RaisesGood ==
  ASSUME TypeOK, BoxInv, SimulateRaises
  PROVE  /\ BoxStep
         /\ corner_state.probe_frozen => corner_state' = corner_state
<1>1. PICK probe \in Probes :
        /\ corner_state' = [corner_state EXCEPT !.corner_set = AfterProbe(probe)]
        /\ turns' = Counted(probe)
  BY DEF SimulateRaises
<1>2. corner_state \in Boxes
  BY DEF TypeOK, WorkTyped, Boxes
<1>3. AfterProbe(probe) \in CornerSets
  BY ProbeGood DEF Good
<1>4. /\ corner_state' \in Boxes /\ corner_state'.corner_set = AfterProbe(probe)
      /\ corner_state'.probe_frozen = corner_state.probe_frozen
      /\ AfterProbe(probe) = corner_state.corner_set => corner_state' = corner_state
  BY <1>1, <1>2, <1>3 DEF Boxes
<1> QED
  BY <1>1, <1>4, ProbeGood DEF BoxStep, CornerSet

LEMMA SimulateGood ==
  ASSUME TypeOK, BoxInv, NEW d, Simulate(d)
  PROVE  /\ BoxStep
         /\ corner_state.probe_frozen => corner_state' = corner_state
<1>1. PICK probe \in Probes, probe_raises \in BOOLEAN :
        LET promotes == ~ probe_raises /\ probe \in d.loop \ CornerSet.corners
            cs == IF promotes THEN Promoted(AfterProbe(probe), probe) ELSE AfterProbe(probe)
        IN  /\ corner_state' = Box(cs, IF corner_state.probe_frozen
                                         THEN corner_state.last_judged_corners
                                         ELSE CornerSet.corners,
                                   corner_state.probe_frozen)
            /\ turns' = IF promotes THEN NoTurns ELSE Counted(probe)
  BY DEF Simulate
<1> DEFINE promotes == ~ probe_raises /\ probe \in d.loop \ CornerSet.corners
           cs == IF promotes THEN Promoted(AfterProbe(probe), probe) ELSE AfterProbe(probe)
           judged == IF corner_state.probe_frozen THEN corner_state.last_judged_corners
                                                  ELSE CornerSet.corners
<1>2. /\ Good(AfterProbe(probe)) /\ probe \in Point
      /\ Counted(probe) \in [Corner -> Nat]
      /\ corner_state.probe_frozen => probe = Nominal /\ AfterProbe(probe) = CornerSet
  BY ProbeGood
<1>3. Good(CornerSet) /\ Nominal \in CornerSet.corners
  BY DEF BoxInv, Good, Partition
<1>4. promotes => probe \in Corner
  BY <1>2, <1>3, PointsSplit
<1>5. Good(cs)
  BY <1>2, <1>4, TakenGood DEF Promoted
<1>6. corner_state.probe_frozen => cs = CornerSet
  BY <1>2, <1>3
<1>7. corner_state \in Boxes
  BY DEF TypeOK, WorkTyped, Boxes
<1>8. judged \in (SUBSET Point) \cup {None}
  BY <1>3, <1>7 DEF Boxes, Good, CornerSets
<1>9. corner_state' = [corner_set |-> cs, last_judged_corners |-> judged,
                       probe_frozen |-> corner_state.probe_frozen]
  BY <1>1 DEF Box
<1>10. cs \in CornerSets
  BY <1>5 DEF Good
<1>11. /\ corner_state' \in Boxes /\ corner_state'.corner_set = cs
       /\ corner_state'.probe_frozen = corner_state.probe_frozen
       /\ corner_state'.last_judged_corners = judged
  BY <1>7, <1>8, <1>9, <1>10 DEF Boxes
<1>12. turns' \in [Corner -> Nat]
  BY <1>1, <1>2 DEF NoTurns
<1>13. corner_state.probe_frozen => corner_state' = corner_state
  <2> SUFFICES ASSUME corner_state.probe_frozen PROVE corner_state' = corner_state
    OBVIOUS
  <2>1. corner_state' = [corner_set |-> corner_state.corner_set,
                         last_judged_corners |-> corner_state.last_judged_corners,
                         probe_frozen |-> corner_state.probe_frozen]
    BY <1>6, <1>9 DEF CornerSet
  <2> QED
    BY <1>7, <2>1 DEF Boxes
<1> QED
  BY <1>5, <1>11, <1>12, <1>13 DEF BoxStep, CornerSet

-----------------------------------------------------------------------------
(* One step.                                                               *)

LEMMA InitInv == Init => IInv
<1> SUFFICES ASSUME Init PROVE IInv
  OBVIOUS
<1>1. PICK chosen \in SUBSET Corner : corner_state = Box(Seed(chosen), None, FALSE)
  BY DEF Init
<1>2. Good(CornerSet)
  BY <1>1, SeedGood DEF CornerSet, Box
<1>3. deck \in Decks
  BY BehaviourAssumption DEF Init, DeckOf, Decks, Behaviours
<1>4. WorkTyped
  <2>1. corner_state \in Boxes
    BY <1>1, <1>2 DEF Box, CornerSet, Good, Boxes
  <2>2. 0 \in Attempts /\ 0 \in 0 .. MaxOuterIterations + 1 /\ 0 \in 0 .. MaxSearchSteps
        /\ 0 \in 0 .. MaxResumes
    BY BoundAssumption DEF Attempts
  <2>3. NoTurns \in [Corner -> Nat]
    BY DEF NoTurns
  <2>4. NoSweep \in AllSweeps
    BY DEF AllSweeps
  <2>5. /\ pc \in Places /\ deck \in Decks /\ under = NoDeck
        /\ corner_state \in Boxes
        /\ orch_status \in {"none", "PASS", "FAIL"} /\ swap_tried \in BOOLEAN
        /\ turns \in [Corner -> Nat] /\ passed \in SUBSET Point
    BY <1>3, <2>1, <2>3 DEF Init, Places
  <2>6. /\ all_topology_swaps \in Seq(Attempts) /\ grown_labels \in Seq(SUBSET Corner)
        /\ promotion_reentries \in Seq([attempt : Attempts, corners : SUBSET Corner])
    BY DEF Init
  <2> QED
    BY <2>2, <2>4, <2>5, <2>6 DEF Init, WorkTyped, Boxes
<1>5. saved = NoSave /\ pc = "enter"
  BY DEF Init
<1> QED
  BY <1>2, <1>4, <1>5
     DEF IInv, TypeOK, BoxInv, PlaceInv, SweepInv, VerdictDescribesTheDeck, Good

Boundary == {"outer_iteration", "attempt", "optimization"}

LEMMA ConcludeSaved ==
  ASSUME NEW boundary \in Boundary, Save(boundary),
         WorkTyped', Good(CornerSet'), PlaceInv', SweepInv'
  PROVE  IInv'
<1>1. saved' \in Saves /\ saved'.corner_set = CornerSet'
  BY DEF Boundary, Save, Saves, WorkTyped, CornerSet
<1> QED
  BY <1>1 DEF IInv, TypeOK, BoxInv, Good

LEMMA ConcludeUnsaved ==
  ASSUME IInv, UNCHANGED saved, WorkTyped', Good(CornerSet'), PlaceInv', SweepInv'
  PROVE  IInv'
BY DEF IInv, TypeOK, BoxInv, Good


LEMMA TuningKeeps == IInv /\ Tuning => IInv'
<1> SUFFICES ASSUME IInv, Tuning PROVE IInv'
  OBVIOUS
<1>0. TypeOK /\ BoxInv /\ PlaceInv /\ SweepInv /\ WorkTyped /\ Good(CornerSet)
  BY DEF IInv, TypeOK, BoxInv
<1>1. CASE Enter
  <2>1. Good(CornerSet')
    BY <1>0, <1>1 DEF Enter, CornerSet, loop, ledger, verdict, crash
  <2>2. WorkTyped'
    <3>1. 1 \in 0 .. MaxOuterIterations + 1
      BY BoundAssumption
    <3> QED
      BY <1>0, <1>1, <3>1 DEF Enter, WorkTyped, Places, ledger, verdict, crash
  <2>3. PlaceInv' /\ SweepInv'
    BY <1>0, <1>1
       DEF Enter, PlaceInv, SweepInv, VerdictDescribesTheDeck, loop, ledger, verdict, crash
  <2>4. UNCHANGED saved
    BY <1>1 DEF Enter, crash
  <2> QED
    BY <2>1, <2>2, <2>3, <2>4, ConcludeUnsaved
<1>2. CASE LoopHead
  <2>1. Good(CornerSet')
    BY <1>0, <1>2 DEF LoopHead, CornerSet, loop, ledger, verdict, crash
  <2>2. WorkTyped'
    BY <1>0, <1>2 DEF LoopHead, WorkTyped, Places, loop, ledger, verdict, crash
  <2>3. PlaceInv' /\ SweepInv'
    BY <1>0, <1>2
       DEF LoopHead, PlaceInv, SweepInv, VerdictDescribesTheDeck, loop, ledger, verdict,
           crash
  <2>4. Save("outer_iteration")
    BY <1>2 DEF LoopHead
  <2> QED
    BY <2>1, <2>2, <2>3, <2>4, ConcludeSaved DEF Boundary
<1>3. CASE Exhausted
  <2>1. Good(CornerSet')
    BY <1>0, <1>3 DEF Exhausted, Return, CornerSet, loop, ledger, verdict, crash
  <2>2. WorkTyped'
    BY <1>0, <1>3 DEF Exhausted, Return, WorkTyped, Places, loop, ledger, verdict, crash
  <2>3. PlaceInv' /\ SweepInv'
    BY <1>0, <1>3
       DEF Exhausted, Return, PlaceInv, SweepInv, VerdictDescribesTheDeck, loop, ledger,
           verdict, crash
  <2>4. UNCHANGED saved
    BY <1>3 DEF Exhausted, Return, crash
  <2> QED
    BY <2>1, <2>2, <2>3, <2>4, ConcludeUnsaved
<1>4. CASE JudgePasses
  <2>0. BoxStep
    BY <1>0, <1>4, SimulateGood DEF JudgePasses
  <2>1. Good(CornerSet')
    BY <2>0 DEF BoxStep
  <2>2. WorkTyped'
    BY <1>0, <1>4, <2>0
       DEF JudgePasses, Return, WorkTyped, Places, loop, ledger, verdict, crash, BoxStep,
           Boxes, Good, CornerSets
  <2>3. PlaceInv' /\ SweepInv'
    BY <1>0, <1>4
       DEF JudgePasses, Return, PlaceInv, SweepInv, VerdictDescribesTheDeck, loop, ledger,
           verdict, crash
  <2>4. UNCHANGED saved
    BY <1>4 DEF JudgePasses, Return, crash
  <2> QED
    BY <2>1, <2>2, <2>3, <2>4, ConcludeUnsaved
<1>5. CASE JudgeFails
  <2>0. BoxStep
    BY <1>0, <1>5, SimulateGood DEF JudgeFails
  <2>1. Good(CornerSet')
    BY <2>0 DEF BoxStep
  <2>2. WorkTyped'
    BY <1>0, <1>5, <2>0
       DEF JudgeFails, WorkTyped, Places, loop, ledger, verdict, crash, BoxStep, Boxes
  <2>3. PlaceInv' /\ SweepInv'
    BY <1>0, <1>5
       DEF JudgeFails, PlaceInv, SweepInv, VerdictDescribesTheDeck, loop, ledger, verdict,
           crash
  <2>4. UNCHANGED saved
    BY <1>5 DEF JudgeFails, crash
  <2> QED
    BY <2>1, <2>2, <2>3, <2>4, ConcludeUnsaved
<1>6. ASSUME NEW b \in Behaviour, NEW swap \in BOOLEAN, Change(b, swap) PROVE IInv'
  <2>1. Good(CornerSet')
    BY <1>0, <1>6 DEF Change, CornerSet
  <2>2. deck' \in Decks
    <3>1. b \in Behaviours /\ deck \in Decks /\ attempt \in Nat
      BY <1>0, BehaviourAssumption, BoundAssumption DEF WorkTyped, Attempts
    <3>2. deck.swaps \cup (IF swap THEN {attempt} ELSE {}) \in SUBSET Nat
      BY <3>1 DEF Decks
    <3> QED
      BY <1>6, <3>1, <3>2 DEF Change, DeckOf, Decks, Behaviours
  <2>3. WorkTyped'
    BY <1>0, <1>6, <2>2 DEF Change, WorkTyped, Places, ledger, verdict, crash
  <2>4. PlaceInv' /\ SweepInv' /\ UNCHANGED saved
    BY <1>0, <1>6 DEF Change, PlaceInv, SweepInv, VerdictDescribesTheDeck, WorkTyped, crash
  <2> QED
    BY <2>1, <2>3, <2>4, ConcludeUnsaved
<1>7. CASE NoChange
  <2>1. Good(CornerSet')
    BY <1>0, <1>7 DEF NoChange, NextIteration, CornerSet, loop, ledger, verdict, crash
  <2>2. WorkTyped'
    BY <1>0, <1>7, BoundAssumption
       DEF NoChange, NextIteration, PlaceInv, WorkTyped, Places, loop, ledger, verdict,
           crash
  <2>3. PlaceInv' /\ SweepInv'
    BY <1>0, <1>7
       DEF NoChange, NextIteration, PlaceInv, SweepInv, VerdictDescribesTheDeck, loop,
           ledger, verdict, crash
  <2>4. UNCHANGED saved
    BY <1>7 DEF NoChange, NextIteration, crash
  <2> QED
    BY <2>1, <2>2, <2>3, <2>4, ConcludeUnsaved
<1>8. CASE ReviewRollsBack
  <2>0. BoxStep
    BY <1>0, <1>8, SimulateGood DEF ReviewRollsBack
  <2>1. Good(CornerSet')
    BY <2>0 DEF BoxStep
  <2>2. WorkTyped'
    BY <1>0, <1>8, <2>0, BoundAssumption
       DEF ReviewRollsBack, NextIteration, WorkTyped, Places, loop, ledger, verdict, crash,
           BoxStep, Boxes, PlaceInv
  <2>3. PlaceInv' /\ SweepInv'
    BY <1>0, <1>8
       DEF ReviewRollsBack, NextIteration, PlaceInv, SweepInv, VerdictDescribesTheDeck,
           loop, ledger, verdict, crash
  <2>4. UNCHANGED saved
    BY <1>8 DEF ReviewRollsBack, NextIteration, crash
  <2> QED
    BY <2>1, <2>2, <2>3, <2>4, ConcludeUnsaved
<1>9. CASE ReviewKeeps
  <2>0. BoxStep
    BY <1>0, <1>9, SimulateGood DEF ReviewKeeps
  <2>1. Good(CornerSet')
    BY <2>0 DEF BoxStep
  <2>2. WorkTyped'
    BY <1>0, <1>9, <2>0, BoundAssumption
       DEF ReviewKeeps, NextIteration, WorkTyped, Places, loop, ledger, verdict, crash,
           BoxStep, Boxes, PlaceInv
  <2>3. PlaceInv' /\ SweepInv'
    BY <1>0, <1>9
       DEF ReviewKeeps, NextIteration, PlaceInv, SweepInv, VerdictDescribesTheDeck, loop,
           ledger, verdict, crash
  <2>4. UNCHANGED saved
    BY <1>9 DEF ReviewKeeps, NextIteration, crash
  <2> QED
    BY <2>1, <2>2, <2>3, <2>4, ConcludeUnsaved
<1>10. CASE ReviewPasses
  <2>0. BoxStep
    BY <1>0, <1>10, SimulateGood DEF ReviewPasses
  <2>1. Good(CornerSet')
    BY <2>0 DEF BoxStep
  <2>2. WorkTyped'
    BY <1>0, <1>10, <2>0
       DEF ReviewPasses, Return, WorkTyped, Places, loop, ledger, verdict, crash, BoxStep,
           Boxes, Good, CornerSets
  <2>3. PlaceInv' /\ SweepInv'
    BY <1>0, <1>10
       DEF ReviewPasses, Return, PlaceInv, SweepInv, VerdictDescribesTheDeck, loop, ledger,
           verdict, crash
  <2>4. UNCHANGED saved
    BY <1>10 DEF ReviewPasses, Return, crash
  <2> QED
    BY <2>1, <2>2, <2>3, <2>4, ConcludeUnsaved
<1>11. CASE Raises
  <2>0. corner_state' \in Boxes /\ Good(CornerSet') /\ turns' \in [Corner -> Nat]
    BY <1>0, <1>11, SimulateGood, RaisesGood DEF Raises, BoxStep, WorkTyped, Boxes, CornerSet
  <2>1. Good(CornerSet')
    BY <2>0
  <2>2. WorkTyped'
    BY <1>0, <1>11, <2>0
       DEF Raises, Return, WorkTyped, Places, loop, ledger, verdict, crash, Boxes
  <2>3. PlaceInv' /\ SweepInv'
    BY <1>0, <1>11
       DEF Raises, Return, PlaceInv, SweepInv, VerdictDescribesTheDeck, loop, ledger,
           verdict, crash
  <2>4. UNCHANGED saved
    BY <1>11 DEF Raises, Return, crash
  <2> QED
    BY <2>1, <2>2, <2>3, <2>4, ConcludeUnsaved
<1> QED
  BY <1>1, <1>2, <1>3, <1>4, <1>5, <1>6, <1>7, <1>8, <1>9, <1>10, <1>11 DEF Tuning

LEMMA SweepsTyped ==
  ASSUME NEW d \in Decks, NEW s \in Sweeps(d)
  PROVE  s \in AllSweeps /\ s.worst \in SUBSET Corner
<1>1. CASE d.sweep = {}
  <2>1. s = [overall_pass |-> TRUE, worst |-> {}]
    BY <1>1 DEF Sweeps, Sweep
  <2> QED
    BY <2>1 DEF AllSweeps
<1>2. CASE d.sweep # {}
  <2>1. PICK w \in SUBSET d.sweep : s = [overall_pass |-> FALSE, worst |-> w]
    BY <1>2 DEF Sweeps, Sweep
  <2>2. w \in SUBSET Corner
    BY DEF Decks
  <2> QED
    BY <2>1, <2>2 DEF AllSweeps
<1> QED
  BY <1>1, <1>2

LEMMA LandingsTyped ==
  ASSUME NEW d \in Landings, deck \in Decks
  PROVE  d \in Decks
<1>1. \A b \in Behaviour : DeckOf(b, deck.swaps) \in Decks
  BY BehaviourAssumption DEF DeckOf, Decks, Behaviours
<1> QED
  BY <1>1 DEF Landings

(* A run that ends keeps everything but its result.                        *)
LEMMA FinishKeeps ==
  ASSUME IInv, NEW status, NEW reason, NEW pvt_sweep, Finish(status, reason, pvt_sweep),
         UNCHANGED final_sweep, pvt_sweep \in Sweeps(deck) \cup {NoSweep},
         status = "PASS" => pvt_sweep.overall_pass
  PROVE  IInv'
<1>1. TypeOK /\ BoxInv /\ WorkTyped /\ Good(CornerSet)
  BY DEF IInv, TypeOK, BoxInv
<1>2. Good(CornerSet') /\ UNCHANGED saved
  BY <1>1 DEF Finish, CornerSet, crash
<1>3. WorkTyped'
  BY <1>1 DEF Finish, WorkTyped, Places, loop, ledger, verdict, crash
<1>4. PlaceInv'
  BY DEF Finish, PlaceInv
<1>5. result'.status = status /\ result'.pvt_sweep = pvt_sweep /\ deck' = deck /\ pc' = "done"
  BY DEF Finish
<1>6. SweepInv'
  BY <1>5 DEF SweepInv, VerdictDescribesTheDeck
<1> QED
  BY <1>2, <1>3, <1>4, <1>6, ConcludeUnsaved

LEMMA EndingKeeps == IInv /\ Ending => IInv'
<1> SUFFICES ASSUME IInv, Ending PROVE IInv'
  OBVIOUS
<1>0. TypeOK /\ BoxInv /\ PlaceInv /\ SweepInv /\ WorkTyped /\ Good(CornerSet)
  BY DEF IInv, TypeOK, BoxInv
<1>1. CASE EndAttempt
  <2>1. corner_state' \in Boxes /\ CornerSet' = CornerSet
        /\ (orch_status = "PASS" => corner_state'.probe_frozen)
    BY <1>0, <1>1 DEF EndAttempt, Boxes, CornerSet, WorkTyped
  <2>2. Good(CornerSet')
    BY <1>0, <2>1
  <2>3. all_topology_swaps' \in Seq(Attempts)
    BY <1>0, <1>1 DEF EndAttempt, WorkTyped
  <2>4. NoSweep \in AllSweeps /\ 0 \in 0 .. MaxSearchSteps
    BY BoundAssumption DEF AllSweeps
  <2>5. WorkTyped'
    BY <1>0, <1>1, <2>1, <2>3, <2>4
       DEF EndAttempt, AfterAttempt, WorkTyped, Places, Boxes, loop
  <2>6. Save("optimization")
    BY <1>1 DEF EndAttempt
  <2>7. PlaceInv' /\ SweepInv'
    BY <1>1, <2>1, <2>6
      
          DEF EndAttempt, AfterAttempt, Save, CornerSet, PlaceInv, SweepInv,
              VerdictDescribesTheDeck
  <2> QED
    BY <2>2, <2>5, <2>6, <2>7, ConcludeSaved DEF Boundary
<1>2. CASE SearchStep
  <2>1. corner_state' \in Boxes /\ Good(CornerSet') /\ turns' \in [Corner -> Nat]
        /\ corner_state'.probe_frozen = corner_state.probe_frozen
        /\ corner_state' = corner_state
    BY <1>0, <1>2, SimulateGood, RaisesGood DEF SearchStep, BoxStep, PlaceInv
  <2>2. steps' \in 0 .. MaxSearchSteps
    BY <1>0, <1>2, BoundAssumption DEF SearchStep, WorkTyped
  <2>3. WorkTyped'
    BY <1>0, <1>2, <2>1, <2>2 DEF SearchStep, WorkTyped, Boxes, loop, ledger, crash
  <2>4. PlaceInv' /\ SweepInv' /\ UNCHANGED saved
    BY <1>0, <1>2, <2>1
       DEF SearchStep, PlaceInv, SweepInv, VerdictDescribesTheDeck, CornerSet, crash
  <2> QED
    BY <2>1, <2>3, <2>4, ConcludeUnsaved
<1>3. CASE Optimize
  <2>1. corner_state' \in Boxes /\ CornerSet' = CornerSet
    BY <1>0, <1>3 DEF Optimize, Boxes, CornerSet, WorkTyped
  <2>2. deck' \in Decks
    BY <1>0, <1>3, LandingsTyped DEF Optimize, WorkTyped
  <2>3. confirmed' \in AllSweeps
    BY <1>3, <2>2, SweepsTyped DEF Optimize, AllSweeps
  <2>4. passed' \in SUBSET Point
    BY <1>0, <1>3 DEF Optimize, WorkTyped
  <2>5. WorkTyped'
    BY <1>0, <1>3, <2>1, <2>2, <2>3, <2>4 DEF Optimize, WorkTyped, Places, Boxes, loop, ledger,
       crash
  <2>6. PlaceInv' /\ SweepInv' /\ UNCHANGED saved
    BY <1>3 DEF Optimize, PlaceInv, SweepInv, VerdictDescribesTheDeck, crash
  <2> QED
    BY <1>0, <2>1, <2>5, <2>6, ConcludeUnsaved
<1>4. CASE FinalSweep
  <2>1. Good(CornerSet')
    BY <1>0, <1>4 DEF FinalSweep, CornerSet
  <2>2. final_sweep' \in Sweeps(deck)
    BY <1>0, <1>4 DEF FinalSweep, SweepInv
  <2>3. final_sweep' \in AllSweeps
    BY <1>0, <2>2, SweepsTyped DEF WorkTyped
  <2>4. WorkTyped'
    BY <1>0, <1>4, <2>3 DEF FinalSweep, WorkTyped, Places, loop, ledger, crash
  <2>5. PlaceInv' /\ SweepInv' /\ UNCHANGED saved
    BY <1>4, <2>2 DEF FinalSweep, PlaceInv, SweepInv, VerdictDescribesTheDeck, crash
  <2> QED
    BY <2>1, <2>4, <2>5, ConcludeUnsaved
<1>5. CASE FinalSweepRaises
  BY <1>5, FinishKeeps DEF FinalSweepRaises
<1>6. CASE SweepPasses
  BY <1>0, <1>6, FinishKeeps DEF SweepPasses, Verdict, SweepInv
<1>7. CASE BudgetSpent
  BY <1>0, <1>7, FinishKeeps DEF BudgetSpent, Verdict, SweepInv
<1>8. CASE ReentrySkipped
  BY <1>0, <1>8, FinishKeeps DEF ReentrySkipped, Reentering, Verdict, SweepInv
<1>9. CASE PathDisagreement
  BY <1>0, <1>9, FinishKeeps DEF PathDisagreement, Reentering, Verdict, SweepInv
<1>10. CASE UnattributedFailure
  BY <1>0, <1>10, FinishKeeps DEF UnattributedFailure, Reentering, Verdict, SweepInv
<1> QED
  BY <1>1, <1>2, <1>3, <1>4, <1>5, <1>6, <1>7, <1>8, <1>9, <1>10 DEF Ending

(* A re-entry, with the corner set already known to be good.               *)
LEMMA NextAttemptKeeps ==
  ASSUME IInv, Reentering, NEW added \in SUBSET Corner,
         NEW reentries \in Seq([attempt : Attempts, corners : SUBSET Corner]),
         NextAttempt(added, reentries),
         corner_state' \in Boxes, Good(CornerSet'), turns' \in [Corner -> Nat]
  PROVE  IInv'
<1>1. WorkTyped
  BY DEF IInv, TypeOK
<1>2. attempt' \in Attempts
  BY <1>1, BoundAssumption DEF NextAttempt, Reentering, WorkTyped, Attempts
<1>3. /\ grown_labels' \in Seq(SUBSET Corner)
      /\ promotion_reentries' \in Seq([attempt : Attempts, corners : SUBSET Corner])
  BY <1>1 DEF NextAttempt, WorkTyped
<1>4. WorkTyped'
  BY <1>1, <1>2, <1>3 DEF NextAttempt, WorkTyped, Places, Boxes, loop, verdict
<1>5. PlaceInv' /\ SweepInv'
  BY DEF NextAttempt, PlaceInv, SweepInv, VerdictDescribesTheDeck
<1>6. Save("attempt")
  BY DEF NextAttempt
<1> QED
  BY <1>4, <1>5, <1>6, ConcludeSaved DEF Boundary

LEMMA ReentryKeeps == IInv /\ (Grow \/ PromotionReentry) => IInv'
<1> SUFFICES ASSUME IInv, Grow \/ PromotionReentry PROVE IInv'
  OBVIOUS
<1>0. TypeOK /\ BoxInv /\ PlaceInv /\ SweepInv /\ WorkTyped /\ Good(CornerSet)
  BY DEF IInv, TypeOK, BoxInv
<1>1. Reentering
  BY DEF Grow, PromotionReentry
<1>2. final_sweep.worst \in SUBSET Corner
  BY <1>0, <1>1, SweepsTyped DEF Reentering, SweepInv, WorkTyped
<1>3. CASE Grow
  <2>1. Good(GrownWith(CornerSet, final_sweep.worst))
    BY <1>0, <1>2, GrownGood
  <2>2. corner_state' \in Boxes /\ Good(CornerSet')
    BY <1>0, <1>3, <2>1 DEF Grow, Boxes, CornerSet, WorkTyped, Good
  <2>3. New \in SUBSET Corner /\ turns' \in [Corner -> Nat]
    BY <1>2, <1>3 DEF Grow, New, Added, NoTurns
  <2>4. << >> \in Seq([attempt : Attempts, corners : SUBSET Corner])
    OBVIOUS
  <2>5. NextAttempt(New, << >>)
    BY <1>3 DEF Grow
  <2> QED
    BY <1>1, <2>2, <2>3, <2>4, <2>5, NextAttemptKeeps
<1>4. CASE PromotionReentry
  <2>1. corner_state' \in Boxes /\ Good(CornerSet') /\ turns' \in [Corner -> Nat]
    BY <1>0, <1>4 DEF PromotionReentry, Boxes, CornerSet, WorkTyped
  <2>2. attempt + 1 \in Attempts
    BY <1>0, <1>1, BoundAssumption DEF Reentering, WorkTyped, Attempts
  <2>3. Unjudged \in SUBSET Corner
    BY <1>2 DEF Unjudged
  <2>4. <<[attempt |-> attempt + 1, corners |-> Unjudged]>>
          \in Seq([attempt : Attempts, corners : SUBSET Corner])
    BY <2>2, <2>3
  <2> QED
    BY <1>1, <1>4, <2>1, <2>4, NextAttemptKeeps DEF PromotionReentry
<1> QED
  BY <1>3, <1>4

LEMMA ResumeKeeps == IInv /\ Resume => IInv'
<1> SUFFICES ASSUME IInv, Resume PROVE IInv'
  OBVIOUS
<1>1. TypeOK /\ BoxInv /\ WorkTyped /\ saved \in Saves /\ Good(saved.corner_set)
  BY DEF IInv, TypeOK, BoxInv, Resume
<1>2. corner_state' \in Boxes /\ CornerSet' = saved.corner_set
      /\ corner_state'.last_judged_corners = saved.last_judged_corners
      /\ (pc' = "optimize" => corner_state'.probe_frozen)
  BY <1>1 DEF Resume, Box, Boxes, CornerSet, Saves
<1>3. pc' \in {"head", "enter", "optimize", "sweep"}
  BY <1>1 DEF Resume, ResumePoint, AfterAttempt, Saves
<1>4. resumes' \in 0 .. MaxResumes /\ 0 \in 0 .. MaxSearchSteps /\ NoSweep \in AllSweeps
  BY <1>1, BoundAssumption DEF Resume, WorkTyped, AllSweeps
<1>5. WorkTyped'
  <2>1. /\ deck' \in Decks /\ under' = NoDeck /\ attempt' \in Attempts
        /\ outer_iter' \in 0 .. MaxOuterIterations + 1
        /\ orch_status' \in {"none", "PASS", "FAIL"} /\ swap_tried' \in BOOLEAN
    BY <1>1 DEF Resume, Saves
  <2>2. /\ all_topology_swaps' \in Seq(Attempts) /\ grown_labels' \in Seq(SUBSET Corner)
        /\ promotion_reentries' \in Seq([attempt : Attempts, corners : SUBSET Corner])
        /\ turns' \in [Corner -> Nat] /\ passed' \in SUBSET Point
    BY <1>1 DEF Resume, Saves
  <2>3. confirmed' = NoSweep /\ final_sweep' = NoSweep /\ steps' = 0
    BY DEF Resume
  <2> QED
    BY <1>2, <1>3, <1>4, <2>1, <2>2, <2>3 DEF WorkTyped, Places, Boxes
<1>6. PlaceInv' /\ SweepInv' /\ UNCHANGED saved
  BY <1>2, <1>3 DEF Resume, PlaceInv, SweepInv, VerdictDescribesTheDeck
<1> QED
  BY <1>1, <1>2, <1>5, <1>6, ConcludeUnsaved

LEMMA NextInv == IInv /\ [Next]_vars => IInv'
<1> SUFFICES ASSUME IInv, [Next]_vars PROVE IInv'
  OBVIOUS
<1>1. CASE Tuning
  BY <1>1, TuningKeeps
<1>2. CASE Ending
  BY <1>2, EndingKeeps
<1>3. CASE Grow \/ PromotionReentry
  BY <1>3, ReentryKeeps
<1>4. CASE Resume
  BY <1>4, ResumeKeeps
<1>5. CASE UNCHANGED vars
  BY <1>5 DEF vars, loop, ledger, verdict, crash, IInv, TypeOK, WorkTyped, BoxInv, Good,
     CornerSet, PlaceInv, SweepInv, VerdictDescribesTheDeck
<1> QED
  BY <1>1, <1>2, <1>3, <1>4, <1>5 DEF Next

LEMMA Inductive == Spec => []IInv
BY InitInv, NextInv, PTL DEF Spec

-----------------------------------------------------------------------------
(* What a step does to the box and to the checkpoint.                      *)

LEMMA BoxSteps ==
  ASSUME IInv, [Next]_vars
  PROVE  \/ UNCHANGED <<CornerSet, corner_state.last_judged_corners, turns>>
         \/ SimulateRaises
         \/ pc \in {"simulate", "review", "optimize"} /\ \E d : Simulate(d)
         \/ Grow
         \/ Resume
<1>1. corner_state \in Boxes
  BY DEF IInv, TypeOK, WorkTyped, Boxes
<1>2. CASE EndAttempt
  BY <1>1, <1>2 DEF EndAttempt, Boxes, CornerSet
<1>3. CASE Optimize
  BY <1>1, <1>3 DEF Optimize, Boxes, CornerSet
<1>4. CASE UNCHANGED vars
  BY <1>4 DEF vars, CornerSet
<1>5. CASE Tuning
  BY <1>5
     DEF Tuning, Enter, LoopHead, Exhausted, JudgePasses, JudgeFails, Change, NoChange,
         ReviewRollsBack, ReviewKeeps, ReviewPasses, Raises, CornerSet
<1>6. CASE Ending /\ ~ EndAttempt /\ ~ Optimize
  BY <1>6
     DEF Ending, SearchStep, FinalSweep, FinalSweepRaises, SweepPasses, BudgetSpent,
         ReentrySkipped, PathDisagreement, UnattributedFailure, Verdict, Finish, CornerSet
<1>7. CASE PromotionReentry
  BY <1>7 DEF PromotionReentry, CornerSet
<1> QED
  BY <1>2, <1>3, <1>4, <1>5, <1>6, <1>7 DEF Next

LEMMA CheckpointSteps ==
  ASSUME [Next]_vars
  PROVE  UNCHANGED saved \/ \E boundary \in Boundary : Save(boundary)
BY DEF Next, Tuning, Ending, Enter, LoopHead, Exhausted, JudgePasses, JudgeFails, Change,
       NoChange, NextIteration, ReviewRollsBack, ReviewKeeps, ReviewPasses, Raises, Return,
       EndAttempt, SearchStep, Optimize, FinalSweep, FinalSweepRaises, SweepPasses,
       BudgetSpent, ReentrySkipped, PathDisagreement, UnattributedFailure, Verdict, Finish,
       Grow, PromotionReentry, NextAttempt, Resume, vars, crash, Boundary

(* A simulation only adds to the corners that are judged; the snapshot is  *)
(* what was judged, before the probe's promotion.                          *)
LEMMA SimulateJudges ==
  ASSUME TypeOK, BoxInv, NEW d, Simulate(d)
  PROVE  /\ CornerSet.corners \subseteq CornerSet'.corners
         /\ corner_state'.last_judged_corners =
              IF corner_state.probe_frozen THEN corner_state.last_judged_corners
                                           ELSE CornerSet.corners
<1>1. PICK probe \in Probes, probe_raises \in BOOLEAN :
        LET promotes == ~ probe_raises /\ probe \in d.loop \ CornerSet.corners
            cs == IF promotes THEN Promoted(AfterProbe(probe), probe) ELSE AfterProbe(probe)
        IN  corner_state' = Box(cs, IF corner_state.probe_frozen
                                         THEN corner_state.last_judged_corners
                                         ELSE CornerSet.corners,
                                   corner_state.probe_frozen)
  BY DEF Simulate
<1>2. AfterProbe(probe).corners = CornerSet.corners
  <2>1. CornerSet \in CornerSets
    BY DEF BoxInv, Good
  <2> QED
    BY <2>1 DEF AfterProbe, Rotated, CornerSets
<1>3. CornerSet.corners \subseteq Promoted(AfterProbe(probe), probe).corners
  BY <1>2 DEF Promoted, Taken
<1> QED
  BY <1>1, <1>2, <1>3 DEF Box, CornerSet

LEMMA RaisesJudges ==
  ASSUME TypeOK, BoxInv, SimulateRaises
  PROVE  /\ CornerSet'.corners = CornerSet.corners
         /\ corner_state'.last_judged_corners = corner_state.last_judged_corners
<1>1. PICK probe \in Probes :
        corner_state' = [corner_state EXCEPT !.corner_set = AfterProbe(probe)]
  BY DEF SimulateRaises
<1>2. corner_state \in Boxes /\ CornerSet \in CornerSets
  BY DEF TypeOK, WorkTyped, Boxes, BoxInv, Good
<1>3. AfterProbe(probe).corners = CornerSet.corners
  BY <1>2 DEF AfterProbe, Rotated, CornerSets
<1> QED
  BY <1>1, <1>2, <1>3 DEF CornerSet, Boxes

-----------------------------------------------------------------------------
(* The rotation.  The waiting corners ahead of the index were probed once  *)
(* more than the ones behind it, in the box and in the checkpoint.         *)

Ahead(cs, c) == {x \in cs.probe_order : x < c}
Even(cs, probes) ==
  \E round \in Nat : \A c \in cs.probe_order :
    probes[c] = IF Cardinality(Ahead(cs, c)) < cs.probe_index THEN round + 1 ELSE round

RotationInv ==
  /\ Even(CornerSet, turns)
  /\ saved # NoSave => Even(saved.corner_set, saved.turns)

LEMMA AheadOrdered ==
  ASSUME NEW cs \in CornerSets, NEW q \in cs.probe_order
  PROVE  /\ Cardinality(Ahead(cs, q)) \in Nat
         /\ Cardinality(Ahead(cs, q)) < Cardinality(cs.probe_order)
         /\ \A p \in cs.probe_order :
              p < q => Cardinality(Ahead(cs, p)) < Cardinality(Ahead(cs, q))
<1>1. IsFiniteSet(cs.probe_order) /\ \A c \in cs.probe_order : c \in Nat
  BY WaitingFinite DEF CornerSets, Corner
<1>2. \A c \in cs.probe_order :
        IsFiniteSet(Ahead(cs, c)) /\ Cardinality(Ahead(cs, c)) \in Nat
  BY <1>1, FS_Subset, FS_CardinalityType DEF Ahead
<1>3. Cardinality(Ahead(cs, q)) < Cardinality(cs.probe_order)
  <2>1. Ahead(cs, q) \in SUBSET cs.probe_order /\ Ahead(cs, q) # cs.probe_order
    BY <1>1 DEF Ahead
  <2>2. Cardinality(Ahead(cs, q)) <= Cardinality(cs.probe_order)
        /\ Cardinality(Ahead(cs, q)) # Cardinality(cs.probe_order)
    BY <1>1, <2>1, FS_Subset
  <2> QED
    BY <1>2, <2>2, WaitingFinite
<1>4. ASSUME NEW p \in cs.probe_order, p < q
      PROVE  Cardinality(Ahead(cs, p)) < Cardinality(Ahead(cs, q))
  <2>1. Ahead(cs, p) \in SUBSET Ahead(cs, q) /\ Ahead(cs, p) # Ahead(cs, q)
    BY <1>1, <1>4 DEF Ahead
  <2>2. Cardinality(Ahead(cs, p)) <= Cardinality(Ahead(cs, q))
        /\ Cardinality(Ahead(cs, p)) # Cardinality(Ahead(cs, q))
    BY <1>2, <2>1, FS_Subset
  <2> QED
    BY <1>2, <2>2
<1> QED
  BY <1>2, <1>3, <1>4

LEMMA RotatedEven ==
  ASSUME NEW cs, Good(cs), NEW probes \in [Corner -> Nat], Even(cs, probes),
         NEW probe, IsNextProbe(cs, probe)
  PROVE  Even(Rotated(cs), [probes EXCEPT ![probe] = @ + 1])
<1> DEFINE n == Cardinality(cs.probe_order)
           i == cs.probe_index
           counted == [probes EXCEPT ![probe] = @ + 1]
           place(c) == Cardinality(Ahead(cs, c))
<1>1. /\ cs \in CornerSets /\ probe \in cs.probe_order /\ place(probe) = Turn(cs)
      /\ cs.probe_order \subseteq Corner
  BY DEF Good, IsNextProbe, Ahead, CornerSets
<1>2. /\ n \in Nat /\ n > 0 /\ i \in Nat /\ i <= n
  BY <1>1, WaitingFinite DEF Good, CornerSets
<1>3. \A c \in cs.probe_order : place(c) \in Nat /\ place(c) < n
  BY <1>1, AheadOrdered
<1>4. \A c \in cs.probe_order : c # probe => place(c) # place(probe)
  <2> SUFFICES ASSUME NEW c \in cs.probe_order, c # probe PROVE place(c) # place(probe)
    OBVIOUS
  <2>1. c < probe \/ probe < c
    BY <1>1 DEF Corner
  <2>2. c < probe => place(c) < place(probe)
    BY <1>1, AheadOrdered
  <2>3. probe < c => place(probe) < place(c)
    BY <1>1, AheadOrdered
  <2> QED
    BY <1>1, <1>3, <2>1, <2>2, <2>3
<1>5. PICK round \in Nat : \A c \in cs.probe_order :
        probes[c] = IF place(c) < i THEN round + 1 ELSE round
  BY DEF Even
<1>6. /\ Rotated(cs).probe_order = cs.probe_order
      /\ Rotated(cs).probe_index = Turn(cs) + 1
      /\ \A c : Ahead(Rotated(cs), c) = Ahead(cs, c)
  BY <1>1 DEF Rotated, CornerSets, Ahead
<1>7. \A c \in cs.probe_order :
        counted[c] = IF c = probe THEN probes[c] + 1 ELSE probes[c]
  BY <1>1
<1>8. Turn(cs) = IF i = n THEN 0 ELSE i
  <2>1. i < n => i % n = i
    BY <1>2
  <2>2. n % n = 0
    BY <1>2
  <2> QED
    BY <1>2, <2>1, <2>2 DEF Turn
<1> HIDE DEF n, i, counted, place
<1>9. CASE i = n
  <2>1. \A c \in cs.probe_order :
          counted[c] = IF place(c) < 0 + 1 THEN (round + 1) + 1 ELSE round + 1
    BY <1>1, <1>2, <1>3, <1>4, <1>5, <1>7, <1>8, <1>9
  <2>2. round + 1 \in Nat
    OBVIOUS
  <2> QED
    BY <1>6, <1>8, <1>9, <2>1, <2>2 DEF Even, counted, place
<1>10. CASE i # n
  <2>1. \A c \in cs.probe_order :
          counted[c] = IF place(c) < i + 1 THEN round + 1 ELSE round
    BY <1>1, <1>2, <1>3, <1>4, <1>5, <1>7, <1>8, <1>10
  <2> QED
    BY <1>6, <1>8, <1>10, <2>1 DEF Even, counted, place
<1> QED
  BY <1>9, <1>10

(* A rotation that starts over is even.                                    *)
LEMMA StartsEven ==
  ASSUME NEW cs \in CornerSets, cs.probe_index = 0
  PROVE  Even(cs, NoTurns)
<1>1. \A c \in cs.probe_order : NoTurns[c] = 0 /\ ~ (Cardinality(Ahead(cs, c)) < 0)
  BY AheadOrdered DEF NoTurns, CornerSets
<1> QED
  BY <1>1 DEF Even

LEMMA ProbeEven ==
  ASSUME TypeOK, BoxInv, Even(CornerSet, turns), NEW probe \in Probes
  PROVE  Even(AfterProbe(probe), Counted(probe))
<1>1. CASE probe = Nominal
  BY <1>1 DEF AfterProbe, Counted
<1>2. CASE probe # Nominal
  <2>1. IsNextProbe(CornerSet, probe)
    BY <1>2 DEF Probes
  <2> QED
    BY <1>2, <2>1, RotatedEven DEF AfterProbe, Counted, BoxInv, TypeOK, WorkTyped
<1> QED
  BY <1>1, <1>2

LEMMA SimulateEven ==
  ASSUME TypeOK, BoxInv, Even(CornerSet, turns),
         SimulateRaises \/ \E d : Simulate(d)
  PROVE  Even(CornerSet', turns')
<1>1. CASE SimulateRaises
  <2>1. PICK probe \in Probes :
          /\ corner_state' = [corner_state EXCEPT !.corner_set = AfterProbe(probe)]
          /\ turns' = Counted(probe)
    BY <1>1 DEF SimulateRaises
  <2>2. CornerSet' = AfterProbe(probe)
    BY <2>1 DEF CornerSet, TypeOK, WorkTyped
  <2> QED
    BY <2>1, <2>2, ProbeEven
<1>2. ASSUME NEW d, Simulate(d) PROVE Even(CornerSet', turns')
  <2>1. PICK probe \in Probes, probe_raises \in BOOLEAN :
          LET promotes == ~ probe_raises /\ probe \in d.loop \ CornerSet.corners
              cs == IF promotes THEN Promoted(AfterProbe(probe), probe) ELSE AfterProbe(probe)
          IN  /\ corner_state'.corner_set = cs
              /\ turns' = IF promotes THEN NoTurns ELSE Counted(probe)
    BY <1>2 DEF Simulate, Box
  <2>2. CASE ~ probe_raises /\ probe \in d.loop \ CornerSet.corners
    <3>1. CornerSet' = Promoted(AfterProbe(probe), probe) /\ turns' = NoTurns
      BY <2>1, <2>2 DEF CornerSet
    <3>2. CornerSet \in CornerSets /\ Nominal \in CornerSet.corners
      BY DEF BoxInv, Good, Partition
    <3>3. AfterProbe(probe).corners = CornerSet.corners
      BY <3>2 DEF AfterProbe, Rotated, CornerSets
    <3>4. Promoted(AfterProbe(probe), probe) = Taken(AfterProbe(probe), {probe})
      BY <2>2, <3>3 DEF Promoted
    <3>5. probe \in Corner
      BY <2>2, <3>2, ProbeGood, PointsSplit
    <3>6. Good(Taken(AfterProbe(probe), {probe}))
      BY <3>5, ProbeGood, TakenGood
    <3>7. Taken(AfterProbe(probe), {probe}).probe_index = 0
      BY DEF Taken
    <3> QED
      BY <3>1, <3>4, <3>6, <3>7, StartsEven DEF Good
  <2>3. CASE ~ (~ probe_raises /\ probe \in d.loop \ CornerSet.corners)
    <3>1. CornerSet' = AfterProbe(probe) /\ turns' = Counted(probe)
      BY <2>1, <2>3 DEF CornerSet
    <3> QED
      BY <3>1, ProbeEven
  <2> QED
    BY <2>2, <2>3
<1> QED
  BY <1>1, <1>2

LEMMA RotationStart == Init => RotationInv
<1> SUFFICES ASSUME Init PROVE RotationInv
  OBVIOUS
<1>1. PICK chosen \in SUBSET Corner : corner_state = Box(Seed(chosen), None, FALSE)
  BY DEF Init
<1>2. CornerSet = Seed(chosen) /\ Seed(chosen) \in CornerSets
  BY <1>1, SeedGood DEF CornerSet, Box, Good
<1>3. Seed(chosen).probe_index = 0
  BY DEF Seed
<1> QED
  BY <1>2, <1>3, StartsEven DEF Init, RotationInv

LEMMA RotationStep == IInv /\ RotationInv /\ [Next]_vars => RotationInv'
<1> SUFFICES ASSUME IInv, RotationInv, [Next]_vars PROVE RotationInv'
  OBVIOUS
<1>0. TypeOK /\ BoxInv /\ Even(CornerSet, turns)
  BY DEF IInv, RotationInv
<1>1. Even(CornerSet', turns')
  <2>1. CASE UNCHANGED <<CornerSet, turns>>
    BY <1>0, <2>1
  <2>2. CASE SimulateRaises \/ \E d : Simulate(d)
    BY <1>0, <2>2, SimulateEven
  <2>3. CASE Grow
    <3>1. CornerSet' = GrownWith(CornerSet, final_sweep.worst) /\ New # {} /\ turns' = NoTurns
      BY <1>0, <2>3 DEF Grow, CornerSet, TypeOK, WorkTyped
    <3>2. CornerSet' = Taken(CornerSet, New)
      BY <3>1 DEF GrownWith, New
    <3>3. CornerSet'.probe_index = 0
      BY <3>2 DEF Taken
    <3>4. CornerSet' \in CornerSets
      BY NextInv DEF IInv, BoxInv, Good
    <3> QED
      BY <3>1, <3>3, <3>4, StartsEven
  <2>4. CASE Resume
    BY <2>4 DEF Resume, Box, CornerSet, RotationInv
  <2> QED
    BY <2>1, <2>2, <2>3, <2>4, BoxSteps
<1>2. CASE UNCHANGED saved
  BY <1>1, <1>2 DEF RotationInv
<1>3. ASSUME NEW boundary \in Boundary, Save(boundary) PROVE RotationInv'
  <2>1. saved'.corner_set = CornerSet' /\ saved'.turns = turns'
    BY <1>3 DEF Save, CornerSet
  <2> QED
    BY <1>1, <2>1 DEF RotationInv
<1> QED
  BY <1>2, <1>3, CheckpointSteps

-----------------------------------------------------------------------------
(* What the loop has judged.  The snapshot is of corners in the set, the   *)
(* verdict on a deck that passed is of the points it passed at unless its  *)
(* own sweep passes, and an attempt starts with a corner to judge.         *)

Snapshot(cs, judged) == judged = None \/ judged \subseteq cs.corners
Verified(d, judged, points) == judged # None /\ (judged = points \/ d.sweep = {})
News(d, cs, judged) == \E c \in cs.corners \ judged : c \in d.sweep

JudgeInv ==
  /\ corner_state.probe_frozen => pc = "optimize"
  /\ Snapshot(CornerSet, corner_state.last_judged_corners)
  /\ pc \in {"returned", "optimize", "sweep", "verdict"} /\ orch_status = "PASS" =>
       Verified(deck, corner_state.last_judged_corners, passed)
  /\ pc = "enter" /\ attempt > 0 =>
       News(deck, CornerSet, corner_state.last_judged_corners)
  /\ DisagreementsAreReal

SavedJudgeInv ==
  saved # NoSave =>
    /\ Snapshot(saved.corner_set, saved.last_judged_corners)
    /\ saved.boundary = "optimization" /\ saved.orch_status = "PASS" =>
         Verified(saved.deck, saved.last_judged_corners, saved.passed)
    /\ saved.boundary = "attempt" =>
         News(saved.deck, saved.corner_set, saved.last_judged_corners)

LEMMA SnapshotStep ==
  ASSUME IInv, JudgeInv, SavedJudgeInv, [Next]_vars
  PROVE  Snapshot(CornerSet', corner_state'.last_judged_corners)
<1>0. TypeOK /\ BoxInv /\ Snapshot(CornerSet, corner_state.last_judged_corners)
  BY DEF IInv, JudgeInv
<1>1. CASE UNCHANGED <<CornerSet, corner_state.last_judged_corners, turns>>
  BY <1>0, <1>1 DEF Snapshot
<1>2. CASE SimulateRaises
  BY <1>0, <1>2, RaisesJudges DEF Snapshot
<1>3. ASSUME NEW d, Simulate(d) PROVE Snapshot(CornerSet', corner_state'.last_judged_corners)
  <2>1. CornerSet.corners \subseteq CornerSet'.corners
        /\ corner_state'.last_judged_corners \in
             {corner_state.last_judged_corners, CornerSet.corners}
    BY <1>0, <1>3, SimulateJudges
  <2> QED
    BY <1>0, <2>1 DEF Snapshot
<1>4. CASE Grow
  <2>1. CornerSet' = GrownWith(CornerSet, final_sweep.worst)
        /\ corner_state'.last_judged_corners = corner_state.last_judged_corners
    BY <1>0, <1>4 DEF Grow, CornerSet, TypeOK, WorkTyped
  <2>2. CornerSet.corners \subseteq CornerSet'.corners
    BY <2>1 DEF GrownWith, Taken
  <2> QED
    BY <1>0, <2>1, <2>2 DEF Snapshot
<1>5. CASE Resume
  BY <1>5 DEF Resume, Box, CornerSet, SavedJudgeInv
<1> QED
  BY <1>1, <1>2, <1>3, <1>4, <1>5, BoxSteps

(* The snapshot a PASS leaves is of the points that passed.                *)
LEMMA PassVerifies ==
  ASSUME IInv, JudgeInv, pc # "optimize", Simulate(deck), passed' = CornerSet.corners
  PROVE  Verified(deck, corner_state'.last_judged_corners, passed')
<1>1. corner_state'.last_judged_corners = CornerSet.corners
  BY SimulateJudges DEF IInv, JudgeInv, TypeOK, WorkTyped
<1>2. CornerSet.corners \in SUBSET Point
  BY DEF IInv, BoxInv, Good, CornerSets
<1>3. CornerSet.corners # None
  BY <1>2, CornersAssumption DEF None, Point
<1> QED
  BY <1>1, <1>3 DEF Verified

LEMMA VerifiedTuning ==
  ASSUME IInv, JudgeInv, Tuning, pc' = "returned", orch_status' = "PASS"
  PROVE  Verified(deck', corner_state'.last_judged_corners, passed')
<1>1. CASE JudgePasses
  BY <1>1, PassVerifies DEF JudgePasses
<1>2. CASE ReviewPasses
  BY <1>2, PassVerifies DEF ReviewPasses
<1> QED
  BY <1>1, <1>2
     DEF Tuning, Enter, LoopHead, Exhausted, JudgeFails, Change, NoChange, NextIteration,
         ReviewRollsBack, ReviewKeeps, Raises, Return

LEMMA VerifiedEnding ==
  ASSUME IInv, JudgeInv, Ending, pc' \in {"optimize", "sweep", "verdict"},
         orch_status' = "PASS"
  PROVE  Verified(deck', corner_state'.last_judged_corners, passed')
<1>0. corner_state \in Boxes /\ orch_status = "PASS" /\ TypeOK /\ BoxInv
  BY DEF IInv, TypeOK, WorkTyped, Boxes, Ending, EndAttempt, SearchStep, Optimize, FinalSweep,
         FinalSweepRaises, SweepPasses, BudgetSpent, ReentrySkipped, PathDisagreement,
         UnattributedFailure, Verdict, Finish
<1>1. CASE EndAttempt
  <2>1. corner_state'.last_judged_corners = corner_state.last_judged_corners
    BY <1>0, <1>1 DEF EndAttempt, Boxes
  <2> QED
    BY <1>0, <1>1, <2>1 DEF EndAttempt, JudgeInv
<1>2. CASE SearchStep
  <2>1. corner_state' = corner_state
    BY <1>0, <1>2, SimulateGood, RaisesGood DEF SearchStep, IInv, PlaceInv
  <2> QED
    BY <1>0, <1>2, <2>1 DEF SearchStep, JudgeInv
<1>3. CASE Optimize
  <2>1. corner_state'.last_judged_corners = corner_state.last_judged_corners
    BY <1>0, <1>3 DEF Optimize, Boxes
  <2>2. Verified(deck, corner_state.last_judged_corners, passed)
    BY <1>0, <1>3 DEF Optimize, JudgeInv
  <2>3. CASE deck' = deck
    BY <1>3, <2>1, <2>2, <2>3 DEF Optimize
  <2>4. CASE deck' # deck
    <3>1. deck'.sweep = {}
      BY <1>3, <2>4 DEF Optimize, Landings, DeckOf
    <3> QED
      BY <2>1, <2>2, <3>1 DEF Verified
  <2> QED
    BY <2>3, <2>4
<1>4. CASE FinalSweep
  BY <1>0, <1>4 DEF FinalSweep, JudgeInv
<1> QED
  BY <1>1, <1>2, <1>3, <1>4
     DEF Ending, FinalSweepRaises, SweepPasses, BudgetSpent, ReentrySkipped,
         PathDisagreement, UnattributedFailure, Verdict, Finish

(* Where a sweep failed at corners, the deck fails at them.                *)
LEMMA SweepBlames ==
  ASSUME IInv, Reentering
  PROVE  /\ final_sweep.worst \subseteq deck.sweep
         /\ deck.sweep # {}
<1>1. final_sweep \in Sweeps(deck) /\ ~ final_sweep.overall_pass
  BY DEF IInv, SweepInv, Reentering
<1>2. deck.sweep # {}
  BY <1>1 DEF Sweeps, Sweep
<1> QED
  BY <1>1, <1>2 DEF Sweeps, Sweep

LEMMA ReentryHasNews ==
  ASSUME IInv, JudgeInv, Grow \/ PromotionReentry
  PROVE  /\ News(deck', CornerSet', corner_state'.last_judged_corners)
         /\ Save("attempt")
<1>0. /\ corner_state \in Boxes /\ Snapshot(CornerSet, corner_state.last_judged_corners)
      /\ Good(CornerSet)
  BY DEF IInv, TypeOK, WorkTyped, BoxInv, Boxes, JudgeInv
<1>1. final_sweep.worst \subseteq deck.sweep
  BY SweepBlames DEF Grow, PromotionReentry
<1>2. deck' = deck /\ Save("attempt")
  BY DEF Grow, PromotionReentry, NextAttempt
<1>3. CASE Grow
  <2>1. CornerSet' = GrownWith(CornerSet, final_sweep.worst) /\ New # {}
        /\ corner_state'.last_judged_corners = corner_state.last_judged_corners
    BY <1>0, <1>3 DEF Grow, CornerSet, Boxes
  <2>2. CornerSet'.corners = CornerSet.corners \cup New
    BY <2>1 DEF GrownWith, New, Taken
  <2>3. PICK c \in final_sweep.worst : c \notin CornerSet.corners
    BY <2>1 DEF New, Added
  <2>4. c \in CornerSet'.corners
    BY <2>2, <2>3 DEF New, Added
  <2>5. c \in deck.sweep
    BY <1>1, <2>3
  <2>6. c \in Corner
    BY <2>5 DEF IInv, TypeOK, WorkTyped, Decks
  <2>7. c \notin corner_state.last_judged_corners
    BY <1>0, <2>3, <2>6, CornersAssumption DEF Snapshot, None, Corner
  <2> QED
    BY <1>2, <2>1, <2>4, <2>5, <2>7 DEF News
<1>4. CASE PromotionReentry
  <2>1. corner_state' = corner_state /\ CornerSet' = CornerSet
    BY <1>4 DEF PromotionReentry, CornerSet
  <2>2. PICK c \in final_sweep.worst : c \notin corner_state.last_judged_corners
    BY <1>4 DEF PromotionReentry, Unjudged
  <2>3. c \in CornerSet.corners
    BY <1>4, <2>2 DEF PromotionReentry, New, Added
  <2> QED
    BY <1>1, <1>2, <2>1, <2>2, <2>3 DEF News
<1> QED
  BY <1>2, <1>3, <1>4

(* A disagreement is declared only on what the loop judged.                *)
LEMMA DisagreementStep ==
  ASSUME IInv, JudgeInv, [Next]_vars
  PROVE  DisagreementsAreReal'
<1>1. CASE PathDisagreement
  <2>1. Verified(deck, corner_state.last_judged_corners, passed)
    BY <1>1 DEF PathDisagreement, Reentering, JudgeInv
  <2>2. deck.sweep # {}
    BY <1>1, SweepBlames DEF PathDisagreement
  <2>3. corner_state.last_judged_corners # None
        /\ corner_state.last_judged_corners = passed
    BY <2>1, <2>2 DEF Verified
  <2>4. final_sweep.worst \subseteq corner_state.last_judged_corners
    BY <1>1, <2>3 DEF PathDisagreement, Unjudged
  <2>5. UNCHANGED <<corner_state, passed, final_sweep>>
    BY <1>1 DEF PathDisagreement, Verdict, Finish
  <2> QED
    BY <2>3, <2>4, <2>5 DEF DisagreementsAreReal
<1>2. CASE UNCHANGED vars
  BY <1>2 DEF vars, verdict, JudgeInv, DisagreementsAreReal
<1>3. CASE Tuning \/ Grow \/ PromotionReentry
  BY <1>3
     DEF Tuning, Enter, LoopHead, Exhausted, JudgePasses, JudgeFails, Change, NoChange,
         NextIteration, ReviewRollsBack, ReviewKeeps, ReviewPasses, Raises, Return, Grow,
         PromotionReentry, NextAttempt, DisagreementsAreReal
<1>4. CASE Ending /\ ~ PathDisagreement
  <2>1. ASSUME NEW status, NEW reason, NEW pvt_sweep, Finish(status, reason, pvt_sweep),
               reason # "path disagreement"
        PROVE  DisagreementsAreReal'
    BY <2>1 DEF Finish, DisagreementsAreReal
  <2>2. CASE \/ FinalSweepRaises \/ SweepPasses \/ BudgetSpent
             \/ ReentrySkipped \/ UnattributedFailure
    BY <2>1, <2>2, Zenon
       DEF FinalSweepRaises, SweepPasses, BudgetSpent, ReentrySkipped, UnattributedFailure,
           Verdict
  <2>3. CASE EndAttempt \/ SearchStep \/ Optimize \/ FinalSweep
    BY <2>3
       DEF EndAttempt, AfterAttempt, SearchStep, Optimize, FinalSweep, DisagreementsAreReal
  <2> QED
    BY <1>4, <2>2, <2>3 DEF Ending
<1>5. CASE Resume
  <2>1. pc' \in {"head", "enter", "optimize", "sweep"}
    BY <1>5 DEF Resume, ResumePoint, AfterAttempt, IInv, TypeOK, Saves
  <2> QED
    BY <2>1 DEF DisagreementsAreReal
<1> QED
  BY <1>1, <1>2, <1>3, <1>4, <1>5 DEF Next

(* A search, and nothing else, is frozen.                                  *)
LEMMA FrozenStep ==
  ASSUME IInv, JudgeInv, [Next]_vars
  PROVE  corner_state'.probe_frozen => pc' = "optimize"
<1>0. TypeOK /\ BoxInv /\ corner_state \in Boxes
  BY DEF IInv, TypeOK, WorkTyped, Boxes
<1>1. CASE Tuning
  <2>1. corner_state'.probe_frozen = corner_state.probe_frozen
    BY <1>0, <1>1, SimulateGood, RaisesGood
       DEF Tuning, Enter, LoopHead, Exhausted, JudgePasses, JudgeFails, Change, NoChange,
           ReviewRollsBack, ReviewKeeps, ReviewPasses, Raises, BoxStep
  <2>2. pc # "optimize"
    BY <1>1
       DEF Tuning, Enter, LoopHead, Exhausted, JudgePasses, JudgeFails, Change, NoChange,
           ReviewRollsBack, ReviewKeeps, ReviewPasses, Raises
  <2> QED
    BY <2>1, <2>2 DEF JudgeInv
<1>2. CASE Ending
  <2>1. CASE EndAttempt
    BY <1>0, <2>1 DEF EndAttempt, AfterAttempt, Boxes
  <2>2. CASE SearchStep
    BY <2>2 DEF SearchStep
  <2>3. CASE Optimize
    BY <1>0, <2>3 DEF Optimize, Boxes
  <2> QED
    BY <1>2, <2>1, <2>2, <2>3
       DEF Ending, FinalSweep, FinalSweepRaises, SweepPasses, BudgetSpent, ReentrySkipped,
           PathDisagreement, UnattributedFailure, Reentering, Verdict, Finish, JudgeInv
<1>3. CASE Grow \/ PromotionReentry
  BY <1>0, <1>3 DEF Grow, PromotionReentry, Reentering, JudgeInv, Boxes
<1>4. CASE Resume
  BY <1>4 DEF Resume, Box
<1>5. CASE UNCHANGED vars
  BY <1>5 DEF vars, JudgeInv
<1> QED
  BY <1>1, <1>2, <1>3, <1>4, <1>5 DEF Next

LEMMA JudgeStart == Init => JudgeInv /\ SavedJudgeInv
<1> SUFFICES ASSUME Init PROVE JudgeInv /\ SavedJudgeInv
  OBVIOUS
<1>1. PICK chosen \in SUBSET Corner : corner_state = Box(Seed(chosen), None, FALSE)
  BY DEF Init
<1> QED
  BY <1>1
     DEF Init, Box, CornerSet, JudgeInv, SavedJudgeInv, Snapshot, DisagreementsAreReal, NoSave

LEMMA JudgeStep == IInv /\ JudgeInv /\ SavedJudgeInv /\ [Next]_vars => JudgeInv'
<1> SUFFICES ASSUME IInv, JudgeInv, SavedJudgeInv, [Next]_vars PROVE JudgeInv'
  OBVIOUS
<1>1. ASSUME pc' \in {"returned", "optimize", "sweep", "verdict"}, orch_status' = "PASS"
      PROVE  Verified(deck', corner_state'.last_judged_corners, passed')
  <2>1. CASE Tuning
    <3>1. pc' = "returned"
      BY <1>1, <2>1
         DEF Tuning, Enter, LoopHead, Exhausted, JudgePasses, JudgeFails, Change, NoChange,
             NextIteration, ReviewRollsBack, ReviewKeeps, ReviewPasses, Raises, Return
    <3> QED
      BY <1>1, <2>1, <3>1, VerifiedTuning
  <2>2. CASE Ending
    <3>1. pc' # "returned"
      BY <2>2
         DEF Ending, EndAttempt, AfterAttempt, SearchStep, Optimize, FinalSweep,
             FinalSweepRaises, SweepPasses, BudgetSpent, ReentrySkipped, PathDisagreement,
             UnattributedFailure, Verdict, Finish
    <3> QED
      BY <1>1, <2>2, <3>1, VerifiedEnding
  <2>3. CASE Grow \/ PromotionReentry
    BY <1>1, <2>3 DEF Grow, PromotionReentry, NextAttempt
  <2>4. CASE Resume
    <3>1. saved \in Saves
      BY <2>4 DEF Resume, IInv, TypeOK
    <3>2. saved.boundary = "optimization" /\ saved.orch_status = "PASS"
      BY <1>1, <2>4, <3>1 DEF Resume, ResumePoint, AfterAttempt, Saves
    <3> QED
      BY <2>4, <3>2 DEF Resume, Box, SavedJudgeInv
  <2>5. CASE UNCHANGED vars
    BY <1>1, <2>5 DEF vars, JudgeInv
  <2> QED
    BY <2>1, <2>2, <2>3, <2>4, <2>5 DEF Next
<1>2. ASSUME pc' = "enter", attempt' > 0
      PROVE  News(deck', CornerSet', corner_state'.last_judged_corners)
  <2>1. CASE Tuning \/ Ending
    BY <1>2, <2>1
       DEF Tuning, Enter, LoopHead, Exhausted, JudgePasses, JudgeFails, Change, NoChange,
           NextIteration, ReviewRollsBack, ReviewKeeps, ReviewPasses, Raises, Return,
           Ending, EndAttempt, AfterAttempt, SearchStep, Optimize, FinalSweep,
           FinalSweepRaises, SweepPasses, BudgetSpent, ReentrySkipped, PathDisagreement,
           UnattributedFailure, Verdict, Finish
  <2>2. CASE Grow \/ PromotionReentry
    BY <2>2, ReentryHasNews
  <2>3. CASE Resume
    <3>1. saved \in Saves
      BY <2>3 DEF Resume, IInv, TypeOK
    <3>2. saved.boundary = "attempt"
      BY <1>2, <2>3, <3>1 DEF Resume, ResumePoint, AfterAttempt, Saves
    <3> QED
      BY <2>3, <3>2 DEF Resume, Box, CornerSet, SavedJudgeInv
  <2>4. CASE UNCHANGED vars
    BY <1>2, <2>4 DEF vars, ledger, CornerSet, JudgeInv
  <2> QED
    BY <2>1, <2>2, <2>3, <2>4 DEF Next
<1> QED
  BY <1>1, <1>2, SnapshotStep, DisagreementStep, FrozenStep DEF JudgeInv

LEMMA SavedJudgeStep == IInv /\ JudgeInv /\ SavedJudgeInv /\ [Next]_vars => SavedJudgeInv'
<1> SUFFICES ASSUME IInv, JudgeInv, SavedJudgeInv, [Next]_vars PROVE SavedJudgeInv'
  OBVIOUS
<1>1. CASE UNCHANGED saved
  BY <1>1 DEF SavedJudgeInv
<1>2. ASSUME NEW boundary \in Boundary, Save(boundary) PROVE SavedJudgeInv'
  <2>1. /\ saved'.boundary = boundary /\ saved'.corner_set = CornerSet'
        /\ saved'.last_judged_corners = corner_state'.last_judged_corners
        /\ saved'.deck = deck' /\ saved'.passed = passed' /\ saved'.orch_status = orch_status'
    BY <1>2 DEF Save, CornerSet
  <2>2. JudgeInv'
    BY JudgeStep
  <2>3. Snapshot(CornerSet', corner_state'.last_judged_corners)
    BY <2>2 DEF JudgeInv
  <2>4. CASE LoopHead
    <3>1. boundary = "outer_iteration"
      BY <1>2, <2>1, <2>4 DEF LoopHead, Save
    <3> QED
      BY <2>1, <2>3, <3>1 DEF SavedJudgeInv
  <2>5. CASE EndAttempt
    <3>1. boundary = "optimization" /\ (orch_status' = "PASS" => pc' = "optimize")
      BY <1>2, <2>1, <2>5 DEF EndAttempt, AfterAttempt, Save
    <3> QED
      BY <2>1, <2>2, <2>3, <3>1 DEF SavedJudgeInv, JudgeInv
  <2>6. CASE Grow \/ PromotionReentry
    <3>1. boundary = "attempt" /\ News(deck', CornerSet', corner_state'.last_judged_corners)
      BY <1>2, <2>1, <2>6, ReentryHasNews DEF Save
    <3> QED
      BY <2>1, <2>3, <3>1 DEF SavedJudgeInv
  <2>7. CASE UNCHANGED saved
    BY <1>1, <2>7
  <2> QED
    BY <2>4, <2>5, <2>6, <2>7
       DEF Next, Tuning, Ending, Enter, Exhausted, JudgePasses, JudgeFails, Change,
           NoChange, NextIteration, ReviewRollsBack, ReviewKeeps, ReviewPasses, Raises,
           Return, SearchStep, Optimize, FinalSweep, FinalSweepRaises, SweepPasses,
           BudgetSpent, ReentrySkipped, PathDisagreement, UnattributedFailure, Verdict,
           Finish, Resume, vars, crash
<1> QED
  BY <1>1, <1>2, CheckpointSteps

LEMMA JudgedRight == Spec => [](JudgeInv /\ SavedJudgeInv)
BY Inductive, JudgeStart, JudgeStep, SavedJudgeStep, PTL DEF Spec

-----------------------------------------------------------------------------
(* What the result lists.  The entries explain the attempts so far, of the *)
(* run and of the checkpoint, and a swap is listed or is of the attempt    *)
(* that is still tuning.                                                   *)

Explains(attempts, corners, grown, reentries) ==
  /\ Len(grown) = attempts
  /\ \A i \in 1 .. attempts :
       /\ grown[i] = {} <=> \E j \in DOMAIN reentries : reentries[j].attempt = i
       /\ grown[i] \subseteq corners
       /\ \A j \in 1 .. i - 1 : grown[i] \cap grown[j] = {}
  /\ \A j \in DOMAIN reentries : reentries[j].attempt <= attempts

GrownInv ==
  /\ Explains(attempt, CornerSet.corners, grown_labels, promotion_reentries)
  /\ saved # NoSave => Explains(saved.attempt, saved.corner_set.corners, saved.grown_labels,
                                saved.promotion_reentries)

LEMMA ExplainsMore ==
  ASSUME NEW attempts, NEW corners, NEW grown, NEW reentries,
         Explains(attempts, corners, grown, reentries),
         NEW more, corners \subseteq more
  PROVE  Explains(attempts, more, grown, reentries)
BY DEF Explains

LEMMA ElementTyped ==
  ASSUME NEW S, NEW list \in Seq(S), NEW i \in DOMAIN list
  PROVE  list[i] \in S
OBVIOUS

LEMMA ReentriesTyped ==
  ASSUME NEW reentries \in Seq([attempt : Attempts, corners : SUBSET Corner])
  PROVE  \A j \in DOMAIN reentries : reentries[j].attempt \in Int
<1> SUFFICES ASSUME NEW j \in DOMAIN reentries PROVE reentries[j].attempt \in Int
  OBVIOUS
<1>1. reentries[j] \in [attempt : Attempts, corners : SUBSET Corner]
  BY ElementTyped
<1>2. reentries[j].attempt \in Attempts
  BY <1>1
<1> QED
  BY <1>2, BoundAssumption DEF Attempts

(* An attempt that adds corners, and one that only judges promoted ones.   *)
LEMMA GrowExplains ==
  ASSUME NEW attempts \in Nat, NEW corners, NEW grown \in Seq(SUBSET Corner),
         NEW reentries \in Seq([attempt : Attempts, corners : SUBSET Corner]),
         Explains(attempts, corners, grown, reentries),
         NEW new \in SUBSET Corner, new # {}, new \cap corners = {}
  PROVE  Explains(attempts + 1, corners \cup new, Append(grown, new), reentries)
<1> DEFINE longer == Append(grown, new)
<1>1. /\ Len(longer) = attempts + 1 /\ longer[attempts + 1] = new
      /\ \A i \in 1 .. attempts : longer[i] = grown[i]
  BY DEF Explains
<1> HIDE DEF longer
<1>2. ASSUME NEW i \in 1 .. attempts + 1
      PROVE  /\ longer[i] = {} <=> \E j \in DOMAIN reentries : reentries[j].attempt = i
             /\ longer[i] \subseteq corners \cup new
             /\ \A j \in 1 .. i - 1 : longer[i] \cap longer[j] = {}
  <2>1. CASE i = attempts + 1
    <3>1. \A j \in DOMAIN reentries : reentries[j].attempt # i
      <4>1. \A j \in DOMAIN reentries : reentries[j].attempt <= attempts
        BY DEF Explains
      <4>2. ~ (attempts + 1 <= attempts)
        OBVIOUS
      <4> QED
        BY <2>1, <4>1, <4>2
    <3>2. \A j \in 1 .. i - 1 : longer[j] \subseteq corners
      BY <1>1, <2>1 DEF Explains
    <3> QED
      BY <1>1, <2>1, <3>1, <3>2
  <2>2. CASE i \in 1 .. attempts
    <3>1. \A j \in 1 .. i - 1 : j \in 1 .. attempts
      BY <2>2
    <3> QED
      BY <1>1, <2>2, <3>1 DEF Explains
  <2> QED
    BY <2>1, <2>2
<1>3. \A j \in DOMAIN reentries : reentries[j].attempt <= attempts + 1
  <2>1. \A j \in DOMAIN reentries : reentries[j].attempt \in Int
    BY ReentriesTyped
  <2> QED
    BY <2>1 DEF Explains
<1> QED
  BY <1>1, <1>2, <1>3 DEF Explains, longer

LEMMA PromotionExplains ==
  ASSUME NEW attempts \in Nat, NEW corners, NEW grown \in Seq(SUBSET Corner),
         NEW reentries \in Seq([attempt : Attempts, corners : SUBSET Corner]),
         Explains(attempts, corners, grown, reentries),
         NEW entry, entry.attempt = attempts + 1
  PROVE  Explains(attempts + 1, corners, Append(grown, {}), reentries \o <<entry>>)
<1> DEFINE longer == Append(grown, {})
           listed == reentries \o <<entry>>
           n == Len(reentries)
<1>1. /\ Len(longer) = attempts + 1 /\ longer[attempts + 1] = {}
      /\ \A i \in 1 .. attempts : longer[i] = grown[i]
  BY DEF Explains
<1>2. /\ n \in Nat /\ DOMAIN reentries = 1 .. n /\ DOMAIN listed = 1 .. n + 1
      /\ listed[n + 1] = entry
      /\ \A j \in 1 .. n : listed[j] = reentries[j]
  OBVIOUS
<1>3. \A j \in 1 .. n : reentries[j].attempt \in Int /\ reentries[j].attempt <= attempts
  <2>1. \A j \in DOMAIN reentries : reentries[j].attempt \in Int
    BY ReentriesTyped
  <2> QED
    BY <1>2, <2>1 DEF Explains
<1> HIDE DEF longer, listed, n
<1>4. ASSUME NEW i \in 1 .. attempts
      PROVE  (\E j \in DOMAIN listed : listed[j].attempt = i)
               <=> (\E j \in DOMAIN reentries : reentries[j].attempt = i)
  <2>1. entry.attempt # i
    OBVIOUS
  <2>2. ASSUME NEW j \in DOMAIN listed, listed[j].attempt = i
        PROVE  \E k \in DOMAIN reentries : reentries[k].attempt = i
    <3>1. j \in 1 .. n
      BY <1>2, <2>1, <2>2
    <3> QED
      BY <1>2, <2>2, <3>1
  <2>3. ASSUME NEW j \in DOMAIN reentries, reentries[j].attempt = i
        PROVE  \E k \in DOMAIN listed : listed[k].attempt = i
    <3>1. j \in 1 .. n + 1 /\ listed[j] = reentries[j]
      BY <1>2
    <3> QED
      BY <1>2, <2>3, <3>1
  <2> QED
    BY <2>2, <2>3
<1>5. ASSUME NEW i \in 1 .. attempts + 1
      PROVE  /\ longer[i] = {} <=> \E j \in DOMAIN listed : listed[j].attempt = i
             /\ longer[i] \subseteq corners
             /\ \A j \in 1 .. i - 1 : longer[i] \cap longer[j] = {}
  <2>1. CASE i = attempts + 1
    <3>1. n + 1 \in DOMAIN listed /\ listed[n + 1].attempt = i
      BY <1>2, <2>1
    <3> QED
      BY <1>1, <2>1, <3>1
  <2>2. CASE i \in 1 .. attempts
    <3>1. \A j \in 1 .. i - 1 : j \in 1 .. attempts
      BY <2>2
    <3>2. longer[i] = {} <=> \E j \in DOMAIN reentries : reentries[j].attempt = i
      BY <1>1, <2>2 DEF Explains
    <3> QED
      BY <1>1, <1>4, <2>2, <3>1, <3>2 DEF Explains
  <2> QED
    BY <2>1, <2>2
<1>6. \A j \in DOMAIN listed : listed[j].attempt <= attempts + 1
  <2> SUFFICES ASSUME NEW j \in 1 .. n + 1 PROVE listed[j].attempt <= attempts + 1
    BY <1>2
  <2>1. CASE j = n + 1
    BY <1>2, <2>1
  <2>2. CASE j \in 1 .. n
    BY <1>2, <1>3, <2>2
  <2> QED
    BY <1>2, <2>1, <2>2
<1> QED
  BY <1>1, <1>5, <1>6 DEF Explains, longer, listed

LEMMA GrownStart == Init => GrownInv
<1> SUFFICES ASSUME Init PROVE GrownInv
  OBVIOUS
<1>1. attempt = 0 /\ grown_labels = << >> /\ promotion_reentries = << >> /\ saved = NoSave
  BY DEF Init
<1> QED
  BY <1>1 DEF GrownInv, Explains

LEMMA LedgerSteps ==
  ASSUME [Next]_vars
  PROVE  \/ UNCHANGED <<attempt, grown_labels, promotion_reentries>>
         \/ Grow \/ PromotionReentry \/ Resume
BY DEF Next, Tuning, Ending, Enter, LoopHead, Exhausted, JudgePasses, JudgeFails, Change,
       NoChange, NextIteration, ReviewRollsBack, ReviewKeeps, ReviewPasses, Raises, Return,
       EndAttempt, SearchStep, Optimize, FinalSweep, FinalSweepRaises, SweepPasses,
       BudgetSpent, ReentrySkipped, PathDisagreement, UnattributedFailure, Verdict, Finish,
       vars, ledger

(* Corners only join the set, except where the checkpoint is restored.     *)
LEMMA CornersStay ==
  ASSUME IInv, [Next]_vars, ~ Resume
  PROVE  CornerSet.corners \subseteq CornerSet'.corners
<1>0. TypeOK /\ BoxInv /\ corner_state \in Boxes
  BY DEF IInv, TypeOK, WorkTyped, Boxes
<1>1. CASE Grow
  <2>1. CornerSet' = GrownWith(CornerSet, final_sweep.worst)
    BY <1>0, <1>1 DEF Grow, CornerSet, Boxes
  <2> QED
    BY <2>1 DEF GrownWith, Taken
<1> QED
  BY <1>0, <1>1, BoxSteps, SimulateJudges, RaisesJudges

LEMMA GrownStep == IInv /\ GrownInv /\ [Next]_vars => GrownInv'
<1> SUFFICES ASSUME IInv, GrownInv, [Next]_vars PROVE GrownInv'
  OBVIOUS
<1>0. /\ WorkTyped /\ attempt \in Nat /\ corner_state \in Boxes
      /\ Explains(attempt, CornerSet.corners, grown_labels, promotion_reentries)
  BY BoundAssumption DEF IInv, TypeOK, WorkTyped, GrownInv, Attempts, Boxes
<1>1. Explains(attempt', CornerSet'.corners, grown_labels', promotion_reentries')
  <2>1. CASE UNCHANGED <<attempt, grown_labels, promotion_reentries>> /\ ~ Resume
    BY <1>0, <2>1, CornersStay, ExplainsMore
  <2>2. CASE Grow
    <3>1. CornerSet' = GrownWith(CornerSet, final_sweep.worst) /\ New # {}
      BY <1>0, <2>2 DEF Grow, CornerSet, Boxes
    <3>2. CornerSet'.corners = CornerSet.corners \cup New
      BY <3>1 DEF GrownWith, New, Taken
    <3>3. /\ attempt' = attempt + 1 /\ grown_labels' = Append(grown_labels, New)
          /\ promotion_reentries' = promotion_reentries \o << >>
      BY <2>2 DEF Grow, NextAttempt
    <3>4. promotion_reentries \o << >> = promotion_reentries
      BY <1>0 DEF WorkTyped
    <3>5. New \in SUBSET Corner /\ New \cap CornerSet.corners = {}
      <4>1. final_sweep.worst \in SUBSET Corner
        BY <1>0, <2>2, SweepBlames DEF Grow, WorkTyped, Decks
      <4> QED
        BY <4>1 DEF New, Added
    <3>6. Explains(attempt + 1, CornerSet.corners \cup New, Append(grown_labels, New),
                   promotion_reentries)
      BY <1>0, <3>1, <3>5, GrowExplains DEF WorkTyped
    <3> QED
      BY <3>2, <3>3, <3>4, <3>6
  <2>3. CASE PromotionReentry
    <3> DEFINE entry == [attempt |-> attempt + 1, corners |-> Unjudged]
    <3>1. /\ attempt' = attempt + 1 /\ grown_labels' = Append(grown_labels, {})
          /\ promotion_reentries' = promotion_reentries \o <<entry>>
          /\ CornerSet' = CornerSet
      BY <2>3 DEF PromotionReentry, NextAttempt, CornerSet
    <3>2. entry.attempt = attempt + 1
      OBVIOUS
    <3> HIDE DEF entry
    <3> QED
      BY <1>0, <3>1, <3>2, PromotionExplains DEF WorkTyped
  <2>4. CASE Resume
    BY <2>4 DEF Resume, Box, CornerSet, GrownInv
  <2> QED
    BY <2>1, <2>2, <2>3, <2>4, LedgerSteps
<1>2. CASE UNCHANGED saved
  BY <1>1, <1>2 DEF GrownInv
<1>3. ASSUME NEW boundary \in Boundary, Save(boundary) PROVE GrownInv'
  <2>1. /\ saved'.attempt = attempt' /\ saved'.corner_set = CornerSet'
        /\ saved'.grown_labels = grown_labels'
        /\ saved'.promotion_reentries = promotion_reentries'
    BY <1>3 DEF Save, CornerSet
  <2> QED
    BY <1>1, <2>1 DEF GrownInv
<1> QED
  BY <1>2, <1>3, CheckpointSteps

Once(list) == \A i, j \in DOMAIN list : list[i] = list[j] => i = j
Listed(swaps, list) == \A a \in swaps : \E i \in DOMAIN list : list[i] = a
OfEarlier(list, a) == \A i \in DOMAIN list : list[i] < a
Pending(tried, a) == IF tried THEN {a} ELSE {}
Open == {"head", "simulate", "tune", "review", "returned"}

SwapsInv ==
  /\ Once(all_topology_swaps) /\ OfEarlier(all_topology_swaps, attempt + 1)
  /\ pc \in Open \cup {"enter"} => OfEarlier(all_topology_swaps, attempt)
  /\ pc \in Open => Listed(deck.swaps \ Pending(swap_tried, attempt), all_topology_swaps)
  /\ pc = "review" => Listed(under.swaps \ Pending(swap_tried, attempt), all_topology_swaps)
  /\ pc \notin Open => Listed(deck.swaps, all_topology_swaps)

SavedSwapsInv ==
  saved # NoSave =>
    /\ Once(saved.all_topology_swaps)
    /\ OfEarlier(saved.all_topology_swaps, saved.attempt + 1)
    /\ saved.boundary # "optimization" => OfEarlier(saved.all_topology_swaps, saved.attempt)
    /\ Listed(IF saved.boundary = "outer_iteration"
                THEN saved.deck.swaps \ Pending(saved.swap_tried, saved.attempt)
                ELSE saved.deck.swaps, saved.all_topology_swaps)

LEMMA EarlierStays ==
  ASSUME NEW list \in Seq(Attempts), NEW a \in Nat, OfEarlier(list, a)
  PROVE  OfEarlier(list, a + 1)
<1> SUFFICES ASSUME NEW i \in DOMAIN list PROVE list[i] < a + 1
  BY DEF OfEarlier
<1>1. list[i] \in Int
  BY ElementTyped, BoundAssumption DEF Attempts
<1>2. list[i] < a
  BY DEF OfEarlier
<1> QED
  BY <1>1, <1>2

(* The attempt that ends is listed last, and everything before it earlier. *)
LEMMA AttemptListed ==
  ASSUME NEW list \in Seq(Attempts), NEW a \in Attempts, Once(list), OfEarlier(list, a),
         NEW swaps, Listed(swaps \ {a}, list)
  PROVE  /\ Once(Append(list, a))
         /\ OfEarlier(Append(list, a), a + 1)
         /\ Listed(swaps, Append(list, a))
<1> DEFINE longer == Append(list, a)
           n == Len(list)
<1>0. a \in Int
  BY BoundAssumption DEF Attempts
<1>1. /\ n \in Nat /\ DOMAIN list = 1 .. n /\ DOMAIN longer = 1 .. n + 1
      /\ longer[n + 1] = a
      /\ \A i \in 1 .. n : longer[i] = list[i]
  OBVIOUS
<1>2. \A i \in 1 .. n : list[i] \in Int /\ list[i] < a
  <2> SUFFICES ASSUME NEW i \in DOMAIN list PROVE list[i] \in Int /\ list[i] < a
    BY <1>1
  <2>1. list[i] \in Int
    BY ElementTyped, BoundAssumption DEF Attempts
  <2> QED
    BY <2>1 DEF OfEarlier
<1> HIDE DEF longer, n
<1>3. OfEarlier(longer, a + 1)
  <2> SUFFICES ASSUME NEW i \in 1 .. n + 1 PROVE longer[i] < a + 1
    BY <1>1 DEF OfEarlier
  <2>1. CASE i = n + 1
    BY <1>0, <1>1, <2>1
  <2>2. CASE i \in 1 .. n
    BY <1>0, <1>1, <1>2, <2>2
  <2> QED
    BY <1>1, <2>1, <2>2
<1>4. Once(longer)
  <2> SUFFICES ASSUME NEW i \in 1 .. n + 1, NEW j \in 1 .. n + 1, longer[i] = longer[j]
               PROVE  i = j
    BY <1>1 DEF Once
  <2>1. CASE i \in 1 .. n /\ j \in 1 .. n
    BY <1>1, <2>1 DEF Once
  <2>2. \A k \in 1 .. n : longer[k] # a
    BY <1>0, <1>1, <1>2
  <2>3. (i \in 1 .. n \/ i = n + 1) /\ (j \in 1 .. n \/ j = n + 1)
    BY <1>1
  <2> QED
    BY <1>1, <2>1, <2>2, <2>3
<1>5. Listed(swaps, longer)
  <2> SUFFICES ASSUME NEW b \in swaps PROVE \E i \in DOMAIN longer : longer[i] = b
    BY DEF Listed
  <2>1. CASE b = a
    <3>1. n + 1 \in DOMAIN longer
      BY <1>1
    <3> QED
      BY <1>1, <2>1, <3>1
  <2>2. CASE b # a
    <3>1. PICK i \in DOMAIN list : list[i] = b
      BY <2>2 DEF Listed
    <3>2. i \in 1 .. n + 1
      BY <1>1, <3>1
    <3> QED
      BY <1>1, <3>1, <3>2
  <2> QED
    BY <2>1, <2>2
<1> QED
  BY <1>3, <1>4, <1>5 DEF longer

LEMMA SwapsStart == Init => SwapsInv /\ SavedSwapsInv
<1> SUFFICES ASSUME Init PROVE SwapsInv /\ SavedSwapsInv
  OBVIOUS
<1>1. /\ all_topology_swaps = << >> /\ saved = NoSave /\ pc = "enter"
      /\ deck.swaps = {}
  BY DEF Init, DeckOf
<1> QED
  BY <1>1 DEF SwapsInv, SavedSwapsInv, Once, Listed, OfEarlier, Open

LEMMA SwapsTuning ==
  ASSUME IInv, SwapsInv, Tuning
  PROVE  SwapsInv'
<1>1. UNCHANGED <<all_topology_swaps, attempt>>
  BY DEF Tuning, Enter, LoopHead, Exhausted, JudgePasses, JudgeFails, Change, NoChange,
         NextIteration, ReviewRollsBack, ReviewKeeps, ReviewPasses, Raises, Return, ledger
<1>2. pc \in Open \cup {"enter"} /\ pc' \in Open
  BY DEF Tuning, Enter, LoopHead, Exhausted, JudgePasses, JudgeFails, Change, NoChange,
         NextIteration, ReviewRollsBack, ReviewKeeps, ReviewPasses, Raises, Return, Open
<1>3. Listed(deck'.swaps \ Pending(swap_tried', attempt), all_topology_swaps)
  <2>1. CASE Enter
    <3>1. deck' = deck /\ pc \notin Open
      BY <2>1 DEF Enter, Open
    <3> QED
      BY <3>1 DEF SwapsInv, Listed
  <2>2. ASSUME NEW b \in Behaviour, NEW swap \in BOOLEAN, Change(b, swap)
        PROVE  Listed(deck'.swaps \ Pending(swap_tried', attempt), all_topology_swaps)
    <3>1. /\ deck'.swaps = deck.swaps \cup (IF swap THEN {attempt} ELSE {})
          /\ swap_tried' = (swap_tried \/ swap) /\ pc \in Open
      BY <2>2 DEF Change, DeckOf, Open
    <3>2. deck'.swaps \ Pending(swap_tried', attempt)
            \subseteq deck.swaps \ Pending(swap_tried, attempt)
      BY <3>1 DEF Pending
    <3> QED
      BY <3>1, <3>2 DEF SwapsInv, Listed
  <2>3. CASE ReviewRollsBack
    <3>1. deck' = under /\ swap_tried' = swap_tried /\ pc = "review"
      BY <2>3 DEF ReviewRollsBack, NextIteration
    <3> QED
      BY <3>1 DEF SwapsInv
  <2>4. CASE deck' = deck /\ swap_tried' = swap_tried /\ pc # "enter"
    BY <1>2, <2>4 DEF SwapsInv
  <2> QED
    BY <2>1, <2>2, <2>3, <2>4
       DEF Tuning, LoopHead, Exhausted, JudgePasses, JudgeFails, NoChange, NextIteration,
           ReviewKeeps, ReviewPasses, Raises, Return, loop
<1>4. pc' = "review" =>
        Listed(under'.swaps \ Pending(swap_tried', attempt), all_topology_swaps)
  <2> SUFFICES ASSUME pc' = "review"
               PROVE  Listed(under'.swaps \ Pending(swap_tried', attempt), all_topology_swaps)
    OBVIOUS
  <2>1. PICK b \in Behaviour, swap \in BOOLEAN : Change(b, swap)
    BY DEF Tuning, Enter, LoopHead, Exhausted, JudgePasses, JudgeFails, NoChange,
           NextIteration, ReviewRollsBack, ReviewKeeps, ReviewPasses, Raises, Return
  <2>2. under' = deck /\ swap_tried' = (swap_tried \/ swap) /\ pc \in Open
    BY <2>1 DEF Change, Open
  <2>3. under'.swaps \ Pending(swap_tried', attempt)
          \subseteq deck.swaps \ Pending(swap_tried, attempt)
    BY <2>2 DEF Pending
  <2> QED
    BY <2>2, <2>3 DEF SwapsInv, Listed
<1> QED
  BY <1>1, <1>2, <1>3, <1>4 DEF SwapsInv

LEMMA SwapsEndAttempt ==
  ASSUME IInv, SwapsInv, EndAttempt
  PROVE  SwapsInv'
<1>0. all_topology_swaps \in Seq(Attempts) /\ attempt \in Attempts
  BY DEF IInv, TypeOK, WorkTyped
<1>1. /\ Once(all_topology_swaps) /\ OfEarlier(all_topology_swaps, attempt)
      /\ OfEarlier(all_topology_swaps, attempt + 1)
      /\ Listed(deck.swaps \ Pending(swap_tried, attempt), all_topology_swaps)
  BY DEF EndAttempt, SwapsInv, Open
<1>2. attempt' = attempt /\ deck' = deck /\ pc' \in {"optimize", "sweep"}
  BY DEF EndAttempt, AfterAttempt
<1>3. /\ Once(all_topology_swaps') /\ OfEarlier(all_topology_swaps', attempt + 1)
      /\ Listed(deck.swaps, all_topology_swaps')
  <2>1. CASE swap_tried
    <3>1. Listed(deck.swaps \ {attempt}, all_topology_swaps)
      BY <1>1, <2>1 DEF Pending
    <3>2. all_topology_swaps' = Append(all_topology_swaps, attempt)
      BY <2>1 DEF EndAttempt
    <3> QED
      BY <1>0, <1>1, <3>1, <3>2, AttemptListed
  <2>2. CASE ~ swap_tried
    <3>1. Listed(deck.swaps, all_topology_swaps)
      BY <1>1, <2>2 DEF Pending, Listed
    <3>2. all_topology_swaps' = all_topology_swaps
      BY <2>2 DEF EndAttempt
    <3> QED
      BY <1>1, <3>1, <3>2
  <2> QED
    BY <2>1, <2>2
<1> QED
  BY <1>2, <1>3 DEF SwapsInv, Open

LEMMA SwapsEnding ==
  ASSUME IInv, SwapsInv, Ending, ~ EndAttempt
  PROVE  SwapsInv'
<1>1. /\ UNCHANGED <<all_topology_swaps, attempt>>
      /\ pc \notin Open \cup {"enter"} /\ pc' \notin Open \cup {"enter"}
  BY DEF Ending, SearchStep, Optimize, FinalSweep, FinalSweepRaises, SweepPasses, BudgetSpent,
         ReentrySkipped, PathDisagreement, UnattributedFailure, Reentering, Verdict, Finish,
         ledger, Open
<1>2. deck'.swaps = deck.swaps
  <2>1. CASE Optimize
    BY <2>1 DEF Optimize, Landings, DeckOf
  <2>2. CASE deck' = deck
    BY <2>2
  <2> QED
    BY <2>1, <2>2
       DEF Ending, SearchStep, FinalSweep, FinalSweepRaises, SweepPasses, BudgetSpent,
           ReentrySkipped, PathDisagreement, UnattributedFailure, Verdict, Finish
<1> QED
  BY <1>1, <1>2 DEF SwapsInv, Open

LEMMA SwapsReentry ==
  ASSUME IInv, SwapsInv, Grow \/ PromotionReentry
  PROVE  SwapsInv'
<1>0. all_topology_swaps \in Seq(Attempts) /\ attempt \in Nat
  BY BoundAssumption DEF IInv, TypeOK, WorkTyped, Attempts
<1>1. /\ all_topology_swaps' = all_topology_swaps /\ deck' = deck
      /\ attempt' = attempt + 1 /\ pc' = "enter" /\ pc = "verdict"
  BY DEF Grow, PromotionReentry, Reentering, NextAttempt
<1>2. /\ Once(all_topology_swaps) /\ OfEarlier(all_topology_swaps, attempt + 1)
      /\ Listed(deck.swaps, all_topology_swaps)
  BY <1>1 DEF SwapsInv, Open
<1>3. OfEarlier(all_topology_swaps, attempt' + 1)
  BY <1>0, <1>1, <1>2, EarlierStays
<1> QED
  BY <1>1, <1>2, <1>3 DEF SwapsInv, Open

LEMMA SwapsStep == IInv /\ SwapsInv /\ SavedSwapsInv /\ [Next]_vars => SwapsInv'
<1> SUFFICES ASSUME IInv, SwapsInv, SavedSwapsInv, [Next]_vars PROVE SwapsInv'
  OBVIOUS
<1>1. CASE Resume
  <2>1. saved \in Saves
    BY <1>1 DEF Resume, IInv, TypeOK
  <2>2. pc' \in {"head", "enter", "optimize", "sweep"}
        /\ (pc' = "head" => saved.boundary = "outer_iteration")
        /\ (pc' = "enter" => saved.boundary = "attempt")
        /\ (pc' \in {"optimize", "sweep"} => saved.boundary = "optimization")
    BY <1>1, <2>1 DEF Resume, ResumePoint, AfterAttempt, Saves
  <2>3. /\ deck' = saved.deck /\ attempt' = saved.attempt /\ swap_tried' = saved.swap_tried
        /\ all_topology_swaps' = saved.all_topology_swaps /\ saved # NoSave
    BY <1>1 DEF Resume
  <2> QED
    BY <2>2, <2>3 DEF SwapsInv, SavedSwapsInv, Open
<1>2. CASE UNCHANGED vars
  BY <1>2 DEF vars, loop, ledger, SwapsInv
<1> QED
  BY <1>1, <1>2, SwapsTuning, SwapsEndAttempt, SwapsEnding, SwapsReentry DEF Next

LEMMA SavedSwapsStep == IInv /\ SwapsInv /\ SavedSwapsInv /\ [Next]_vars => SavedSwapsInv'
<1> SUFFICES ASSUME IInv, SwapsInv, SavedSwapsInv, [Next]_vars PROVE SavedSwapsInv'
  OBVIOUS
<1>1. CASE UNCHANGED saved
  BY <1>1 DEF SavedSwapsInv
<1>2. ASSUME NEW boundary \in Boundary, Save(boundary) PROVE SavedSwapsInv'
  <2>1. /\ saved'.boundary = boundary /\ saved'.deck = deck' /\ saved'.attempt = attempt'
        /\ saved'.swap_tried = swap_tried'
        /\ saved'.all_topology_swaps = all_topology_swaps'
    BY <1>2 DEF Save
  <2>2. SwapsInv'
    BY SwapsStep
  <2>3. CASE LoopHead
    <3>1. boundary = "outer_iteration" /\ pc' = "simulate"
      BY <1>2, <2>1, <2>3 DEF LoopHead, Save
    <3> QED
      BY <2>1, <2>2, <3>1 DEF SavedSwapsInv, SwapsInv, Open
  <2>4. CASE EndAttempt
    <3>1. boundary = "optimization" /\ pc' \in {"optimize", "sweep"}
      BY <1>2, <2>1, <2>4 DEF EndAttempt, AfterAttempt, Save
    <3> QED
      BY <2>1, <2>2, <3>1 DEF SavedSwapsInv, SwapsInv, Open
  <2>5. CASE Grow \/ PromotionReentry
    <3>1. boundary = "attempt" /\ pc' = "enter"
      BY <1>2, <2>1, <2>5 DEF Grow, PromotionReentry, NextAttempt, Save
    <3> QED
      BY <2>1, <2>2, <3>1 DEF SavedSwapsInv, SwapsInv, Open
  <2>6. CASE UNCHANGED saved
    BY <1>1, <2>6
  <2> QED
    BY <2>3, <2>4, <2>5, <2>6
       DEF Next, Tuning, Ending, Enter, Exhausted, JudgePasses, JudgeFails, Change,
           NoChange, NextIteration, ReviewRollsBack, ReviewKeeps, ReviewPasses, Raises,
           Return, SearchStep, Optimize, FinalSweep, FinalSweepRaises, SweepPasses,
           BudgetSpent, ReentrySkipped, PathDisagreement, UnattributedFailure, Verdict,
           Finish, Resume, vars, crash
<1> QED
  BY <1>1, <1>2, CheckpointSteps

LEMMA LedgersRight == Spec => [](GrownInv /\ SwapsInv)
<1>1. Spec => []GrownInv
  BY Inductive, GrownStart, GrownStep, PTL DEF Spec
<1>2. Spec => [](SwapsInv /\ SavedSwapsInv)
  BY Inductive, SwapsStart, SwapsStep, SavedSwapsStep, PTL DEF Spec
<1> QED
  BY <1>1, <1>2, PTL

-----------------------------------------------------------------------------
(* The theorems.                                                           *)

(* The variables hold what they should, and the probe index stays within   *)
(* the waiting corners (corner_selection.py:401-406).                      *)
THEOREM TypeCorrect == Spec => []TypeOK
<1>1. IInv => TypeOK
  BY DEF IInv
<1> QED
  BY <1>1, Inductive, PTL

(* No promotion, growth, raise or resume loses a corner or leaves it both  *)
(* judged and waiting (corner_selection.py:11-48).                         *)
THEOREM NoCornerLost == Spec => []CornersPartition
<1>1. IInv => CornersPartition
  BY DEF IInv, BoxInv, Good, CornersPartition
<1> QED
  BY <1>1, Inductive, PTL

(* A result carries a sweep of the deck it hands over, and a PASS one that *)
(* passed (cli.py:1064-1121).                                              *)
THEOREM ResultsDescribeDecks == Spec => []VerdictDescribesTheDeck
<1>1. IInv => VerdictDescribesTheDeck
  BY DEF IInv, SweepInv
<1> QED
  BY <1>1, Inductive, PTL

LEMMA SearchStepFrozen ==
  ASSUME IInv, [Next]_vars, pc = "optimize", pc' \in {"optimize", "sweep"}
  PROVE  /\ CornerSet' = CornerSet
         /\ corner_state'.last_judged_corners = corner_state.last_judged_corners
<1>1. TypeOK /\ BoxInv /\ corner_state.probe_frozen /\ corner_state \in Boxes
  BY DEF IInv, PlaceInv, TypeOK, WorkTyped, Boxes
<1>2. CASE SearchStep
  BY <1>1, <1>2, SimulateGood, RaisesGood DEF SearchStep, CornerSet
<1>3. CASE Optimize
  BY <1>1, <1>3 DEF Optimize, CornerSet, Boxes
<1>4. CASE Resume
  BY <1>1, <1>4 DEF Resume, Box, CornerSet, PlaceInv, IInv
<1>5. CASE UNCHANGED vars
  BY <1>5 DEF vars, CornerSet
<1> QED
  BY <1>2, <1>3, <1>4, <1>5
     DEF Next, Tuning, Ending, Enter, LoopHead, Exhausted, JudgePasses, JudgeFails, Change,
         NoChange, ReviewRollsBack, ReviewKeeps, ReviewPasses, Raises, EndAttempt, FinalSweep,
         FinalSweepRaises, SweepPasses, BudgetSpent, ReentrySkipped, PathDisagreement,
         UnattributedFailure, Reentering, Grow, PromotionReentry

(* No simulation of an optimization search, and no way out of it, changes  *)
(* the corner set or the judge's snapshot (cli.py:991-1046,                *)
(* corner_sim.py:41-60).                                                   *)
THEOREM SearchIsFrozen == Spec => SearchSeesOneCornerSet
<1>1. IInv /\ [Next]_vars =>
        [pc = "optimize" /\ pc' \in {"optimize", "sweep"} =>
           /\ CornerSet' = CornerSet
           /\ corner_state'.last_judged_corners = corner_state.last_judged_corners]_vars
  BY SearchStepFrozen
<1> QED
  BY <1>1, Inductive, PTL DEF Spec, SearchSeesOneCornerSet

(* Between two changes of the set, no waiting corner is probed twice       *)
(* before another is probed once, however often the probes raise or the    *)
(* run is resumed (corner_sim.py:194-198).                                 *)
THEOREM EveryCornerIsProbed == Spec => []RotationMissesNobody
<1>1. IInv /\ RotationInv => RotationMissesNobody
  <2> SUFFICES ASSUME IInv, RotationInv, NEW p \in CornerSet.probe_order,
                      NEW q \in CornerSet.probe_order, p < q
               PROVE  turns[q] <= turns[p] /\ turns[p] <= turns[q] + 1
    BY DEF RotationMissesNobody
  <2>1. CornerSet \in CornerSets
    BY DEF IInv, BoxInv, Good
  <2>2. PICK round \in Nat : \A c \in CornerSet.probe_order :
          turns[c] = IF Cardinality(Ahead(CornerSet, c)) < CornerSet.probe_index
                       THEN round + 1 ELSE round
    BY DEF RotationInv, Even
  <2>3. /\ Cardinality(Ahead(CornerSet, p)) \in Nat /\ Cardinality(Ahead(CornerSet, q)) \in Nat
        /\ Cardinality(Ahead(CornerSet, p)) < Cardinality(Ahead(CornerSet, q))
        /\ CornerSet.probe_index \in Nat
    BY <2>1, AheadOrdered DEF CornerSets
  <2> QED
    BY <2>2, <2>3
<1> QED
  BY <1>1, Inductive, RotationStart, RotationStep, PTL DEF Spec

(* A run that blames the two simulation paths for a FAIL has a deck that   *)
(* passed the loop's own judgement at every corner its sweep fails at      *)
(* (cli.py:1257-1290).                                                     *)
THEOREM DisagreementsHappened == Spec => []DisagreementsAreReal
<1>1. JudgeInv => DisagreementsAreReal
  BY DEF JudgeInv
<1> QED
  BY <1>1, JudgedRight, PTL

(* No attempt repeats what the one before it could see: the loop starts    *)
(* over only with a failing corner it has not judged, also when the run    *)
(* was resumed in between (cli.py:1233-1283).                              *)
THEOREM NoIdenticalRetry == Spec => []ReentryBringsNews
<1>1. JudgeInv => ReentryBringsNews
  BY DEF JudgeInv, ReentryBringsNews, News
<1> QED
  BY <1>1, JudgedRight, PTL

(* The result says of every attempt what it added and why it was made, and *)
(* of every swap in the deck which attempt made it, exactly once, whatever *)
(* was resumed on the way (cli.py:852-867, 960-965, 1222-1229).            *)
THEOREM ResultsListEverything == Spec => []ResultAccountsForAttempts
<1>1. GrownInv => GrownExplainsAttempts
  BY DEF GrownInv, Explains, GrownExplainsAttempts
<1>2. SwapsInv => SwapsListedOnce
  <2> SUFFICES ASSUME SwapsInv, pc = "done", NEW a \in deck.swaps
               PROVE  Cardinality({i \in DOMAIN all_topology_swaps :
                                     all_topology_swaps[i] = a}) = 1
    BY DEF SwapsListedOnce
  <2>1. PICK k \in DOMAIN all_topology_swaps : all_topology_swaps[k] = a
    BY DEF SwapsInv, Open, Listed
  <2>2. {i \in DOMAIN all_topology_swaps : all_topology_swaps[i] = a} = {k}
    BY <2>1 DEF SwapsInv, Once
  <2> QED
    BY <2>2, FS_Singleton
<1>3. GrownInv /\ SwapsInv => ResultAccountsForAttempts
  BY <1>1, <1>2 DEF ResultAccountsForAttempts
<1> QED
  BY <1>3, LedgersRight, PTL
=============================================================================
