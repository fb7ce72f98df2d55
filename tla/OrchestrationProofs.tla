------------------------- MODULE OrchestrationProofs -------------------------
(***************************************************************************)
(* What run_orchestration guarantees for every library, every retry and    *)
(* iteration budget, every threshold and any number of resumes.            *)
(*                                                                         *)
(* Inductive invariant: the verdict in hand belongs to the deck about to   *)
(* be changed, no offered swap target has been tried, and the iteration's  *)
(* reviews account for its retries; on top of it, the counter of failures  *)
(* is what the outcomes of the iterations say.                             *)
(***************************************************************************)
EXTENDS Orchestration, SequenceTheorems, TLAPS

Reviewing == {"review_swap", "review_tune"}

StackInv ==
  /\ Len(versions) >= 1
  /\ pc \in Reviewing => Len(versions) >= 2
  /\ saved # NoSave => Len(saved.versions) >= 1
  /\ pc # "returned" => result = NoResult

SwappedOnce(p) ==
  \A i, j \in DOMAIN p.topology_swaps :
    /\ p.topology_swaps[i].pair \in p.tried_topologies
    /\ p.topology_swaps[i].pair = p.topology_swaps[j].pair => i = j

SwapInv ==
  /\ SwappedOnce(progress)
  /\ saved # NoSave => SwappedOnce(saved.progress)
  /\ pc = "topology" => iteration.candidates \cap progress.tried_topologies = {}
  /\ pc = "review_swap" => Len(progress.topology_swaps) >= 1

(* The verifier's events of the iteration: none approved before the retry  *)
(* in hand, and the flag is up only if one refused.                        *)
ReviewInv ==
  /\ iteration.retry >= 1
  /\ pc \in {"tune", "verify_pre"} =>
       /\ iteration.verify_pre_rejected_any =>
            \E retry \in 1 .. MaxTuningRetries : <<retry, FALSE>> \in iteration.reviews
       /\ \A r \in iteration.reviews : r[2] =>
            pc = "verify_pre" /\ r[1] = iteration.retry /\ iteration.approved_alts # {}
  /\ pc = "verify_pre" => iteration.retry <= MaxTuningRetries
  /\ pc \in {"simulate", "escalate", "topology"} =>
       iteration.reviews = {} /\ ~ iteration.verify_pre_rejected_any

IInv == TypeOK /\ StackInv /\ SwapInv /\ ReviewInv /\ VerdictsCompareNeighbours
        /\ PassDescribesItsDeck /\ HardFailNeedsAReview

-----------------------------------------------------------------------------
LEMMA InitInv == Init => IInv
<1> SUFFICES ASSUME Init PROVE IInv
  OBVIOUS
<1>1. TypeOK
  BY BoundAssumption DEF Init, TypeOK, Progress, Iterations, NewIteration, Verdicts, NoVerdict,
     Outcomes, Places
<1>2. StackInv /\ SwapInv /\ ReviewInv
  BY DEF Init, StackInv, SwapInv, SwappedOnce, ReviewInv, NewIteration, Reviewing
<1>3. VerdictsCompareNeighbours /\ PassDescribesItsDeck /\ HardFailNeedsAReview
  BY DEF Init, VerdictsCompareNeighbours, PassDescribesItsDeck, HardFailNeedsAReview, NoResult
<1> QED
  BY <1>1, <1>2, <1>3 DEF IInv

(* The deck on top is a deck, and a push or a rollback moves it by one.    *)
LEMMA StackFacts ==
  ASSUME TypeOK, StackInv
  PROVE  /\ Top \in Nat
         /\ Push => /\ versions' \in Seq(Nat) /\ decks' \in Nat
                    /\ Len(versions') = Len(versions) + 1
                    /\ versions'[Len(versions') - 1] = Top
         /\ Rollback /\ Len(versions) >= 2 =>
              versions' \in Seq(Nat) /\ Len(versions') = Len(versions) - 1
<1>1. versions \in Seq(Nat) /\ decks \in Nat /\ Len(versions) \in Nat \ {0}
  BY DEF TypeOK, StackInv
<1>2. Top \in Nat
  BY <1>1 DEF Top
<1>3. ASSUME Push
      PROVE  /\ versions' \in Seq(Nat) /\ decks' \in Nat
             /\ Len(versions') = Len(versions) + 1
             /\ versions'[Len(versions') - 1] = Top
  BY <1>1, <1>3, AppendProperties DEF Push, Top
<1>4. ASSUME Rollback, Len(versions) >= 2
      PROVE  versions' \in Seq(Nat) /\ Len(versions') = Len(versions) - 1
  BY <1>1, <1>4, SubSeqProperties DEF Rollback
<1> QED
  BY <1>2, <1>3, <1>4

(* Updates of the loop's progress keep its shape and the swap records'.    *)
LEMMA ProgressFacts ==
  ASSUME TypeOK, StackInv, NEW pass \in BOOLEAN
  PROVE  /\ Verdict(Top, pass) \in Verdicts
         /\ Judged(pass) \in Progress
         /\ Judged(pass).topology_swaps = progress.topology_swaps
         /\ Judged(pass).tried_topologies = progress.tried_topologies
         /\ Judged(pass).judge_result = Verdict(Top, pass)
<1>1. Verdict(Top, pass) \in Verdicts
  BY StackFacts DEF Verdict, Verdicts
<1> QED
  BY <1>1 DEF Judged, TypeOK, Progress

(* What a step has to show once it is known which variables it moves: the  *)
(* rest of the invariant follows from the parts.                           *)
Returning ==
  \/ Exhausted \/ EntrySimulationEmpty \/ SimulationPasses \/ SwapPasses \/ TuningPasses
  \/ Raises \/ \E pair \in Pair : SwapRaises(pair)
  \/ pc = "tune" /\ iteration.verify_pre_rejected_any /\ RetriesExhausted

Continuing ==
  \/ \E pass \in BOOLEAN : SwapRolledBack(pass) \/ TuningRolledBack(pass)
  \/ SwapKept \/ TuningKept
  \/ ~ iteration.verify_pre_rejected_any /\ RetriesExhausted

(* _final_result: whatever progress and verdict it is handed.              *)
LEMMA ReturnKeeps ==
  ASSUME IInv, NEW status \in {"PASS", "FAIL"}, NEW reason \in Reasons,
         NEW p \in Progress, SwappedOnce(p), NEW verdict \in Verdicts,
         Return(status, reason, p, verdict), UNCHANGED iteration,
         first_simulation' \in BOOLEAN,
         status = "PASS" => verdict = Verdict(Top, TRUE),
         reason = "tuning proposal repeatedly rejected" =>
           /\ \E r \in 1 .. MaxTuningRetries : <<r, FALSE>> \in iteration.reviews
           /\ \A r \in 1 .. MaxTuningRetries : <<r, TRUE>> \notin iteration.reviews
  PROVE  IInv'
<1> USE DEF IInv
<1>1. /\ UNCHANGED <<versions, decks, outcomes, saved, resumes, iteration, Top>>
      /\ progress' = p /\ pc' = "returned"
      /\ result' = [status |-> status, failure_reason |-> reason, deck |-> Top,
                    final_criteria |-> verdict, topology_swaps |-> p.topology_swaps]
  BY DEF Return, Top
<1>2. result' \in Results
  BY <1>1, StackFacts DEF Results, Progress
<1>3. TypeOK'
  BY <1>1, <1>2 DEF TypeOK, Places
<1>4. StackInv' /\ SwapInv' /\ ReviewInv'
  BY <1>1 DEF StackInv, SwapInv, SwappedOnce, ReviewInv, Reviewing
<1>5. VerdictsCompareNeighbours'
  BY <1>1 DEF VerdictsCompareNeighbours
<1>6. PassDescribesItsDeck'
  BY <1>1 DEF PassDescribesItsDeck
<1>7. HardFailNeedsAReview'
  BY <1>1 DEF HardFailNeedsAReview
<1> QED
  BY <1>3, <1>4, <1>5, <1>6, <1>7

LEMMA TryingFacts ==
  ASSUME IInv, pc = "topology", NEW pair \in iteration.candidates, NEW deck \in Nat
  PROVE  /\ Trying(pair) \in Progress /\ SwappedOnce(Trying(pair))
         /\ Recording(pair, deck) \in Progress /\ SwappedOnce(Recording(pair, deck))
         /\ Recording(pair, deck).judge_result = progress.judge_result
         /\ Len(Recording(pair, deck).topology_swaps) >= 1
<1> DEFINE swap == [pair |-> pair, deck |-> deck, outcome |-> "none"]
           swaps == progress.topology_swaps
<1> USE DEF IInv
<1>1. /\ pair \in Pair /\ swap \in Swaps /\ pair \notin progress.tried_topologies
      /\ swaps \in Seq(Swaps)
  BY DEF TypeOK, Iterations, Swaps, SwapInv, Progress
<1>2. Trying(pair) \in Progress
  BY <1>1 DEF Trying, TypeOK, Progress
<1>3. /\ Trying(pair).topology_swaps = swaps
      /\ Trying(pair).tried_topologies = progress.tried_topologies \cup {pair}
      /\ Trying(pair).judge_result = progress.judge_result
  BY DEF Trying, TypeOK, Progress
<1>4. SwappedOnce(Trying(pair))
  BY <1>3 DEF SwappedOnce, SwapInv
<1>5. /\ Recording(pair, deck).topology_swaps = Append(swaps, swap)
      /\ Recording(pair, deck).tried_topologies = progress.tried_topologies \cup {pair}
      /\ Recording(pair, deck).judge_result = progress.judge_result
  BY <1>2, <1>3 DEF Recording, Progress
<1>6. Recording(pair, deck) \in Progress
  <2>1. Append(swaps, swap) \in Seq(Swaps)
    BY <1>1, AppendProperties
  <2>2. Recording(pair, deck) =
          [Trying(pair) EXCEPT !.topology_swaps = Append(swaps, swap)]
    BY <1>3 DEF Recording
  <2> QED
    BY <1>2, <2>1, <2>2 DEF Progress
<1>7. ASSUME NEW i \in DOMAIN Append(swaps, swap)
      PROVE  \/ i \in DOMAIN swaps /\ Append(swaps, swap)[i] = swaps[i]
             \/ i = Len(swaps) + 1 /\ Append(swaps, swap)[i] = swap
  BY <1>1
<1>8. SwappedOnce(Recording(pair, deck))
  BY <1>1, <1>5, <1>7 DEF SwappedOnce, SwapInv
<1> QED
  BY <1>1, <1>2, <1>4, <1>5, <1>6, <1>8

(* Noting an outcome in the last record leaves every pair where it was.    *)
LEMMA NotedOutcome ==
  ASSUME NEW swaps \in Seq(Swaps), Len(swaps) >= 1,
         NEW outcome \in {"kept", "rolled_back"}
  PROVE  LET after == [swaps EXCEPT ![Len(swaps)].outcome = outcome] IN
         /\ after \in Seq(Swaps) /\ DOMAIN after = DOMAIN swaps
         /\ \A i \in DOMAIN swaps : after[i].pair = swaps[i].pair /\ after[i].deck = swaps[i].deck
         /\ \A i \in DOMAIN swaps :
              after[i].outcome = IF i = Len(swaps) THEN outcome ELSE swaps[i].outcome
<1> DEFINE old == swaps[Len(swaps)]
           settled == [old EXCEPT !.outcome = outcome]
<1>1. Len(swaps) \in 1 .. Len(swaps) /\ DOMAIN swaps = 1 .. Len(swaps)
  OBVIOUS
<1>2. old \in Swaps
  BY <1>1, ElementOfSeq
<1>3. /\ settled \in Swaps /\ settled.pair = old.pair
      /\ settled.deck = old.deck /\ settled.outcome = outcome
  BY <1>2 DEF Swaps
<1>4. [swaps EXCEPT ![Len(swaps)].outcome = outcome] = [swaps EXCEPT ![Len(swaps)] = settled]
  OBVIOUS
<1> HIDE DEF settled
<1>5. /\ [swaps EXCEPT ![Len(swaps)] = settled] \in Seq(Swaps)
      /\ Len([swaps EXCEPT ![Len(swaps)] = settled]) = Len(swaps)
      /\ \A j \in 1 .. Len(swaps) : [swaps EXCEPT ![Len(swaps)] = settled][j] =
                                   IF j = Len(swaps) THEN settled ELSE swaps[j]
  BY <1>1, <1>3, ExceptSeq
<1> QED
  BY <1>1, <1>3, <1>4, <1>5

LEMMA SettledFacts ==
  ASSUME IInv, pc = "review_swap", NEW outcome \in {"kept", "rolled_back"}
  PROVE  LET swaps == progress.topology_swaps IN
         /\ Settled(outcome) \in Progress /\ SwappedOnce(Settled(outcome))
         /\ Settled(outcome).consecutive_rollbacks = 0
         /\ Settled(outcome).topology_swaps = [swaps EXCEPT ![Len(swaps)].outcome = outcome]
<1> DEFINE swaps == progress.topology_swaps
           after == [swaps EXCEPT ![Len(swaps)].outcome = outcome]
<1>1. progress \in Progress /\ swaps \in Seq(Swaps) /\ Len(swaps) >= 1
  BY DEF IInv, TypeOK, Progress, SwapInv
<1>2. after \in Seq(Swaps) /\ DOMAIN after = DOMAIN swaps
      /\ \A i \in DOMAIN swaps : after[i].pair = swaps[i].pair
  BY <1>1, NotedOutcome
<1>5. after = [swaps EXCEPT ![Len(swaps)].outcome = outcome]
  OBVIOUS
<1>3. Settled(outcome) = [progress EXCEPT !.topology_swaps = after,
                                          !.consecutive_rollbacks = 0]
  BY <1>1 DEF Settled, Progress
<1> HIDE DEF after
<1>4. /\ Settled(outcome) \in Progress
      /\ Settled(outcome).topology_swaps = after
      /\ Settled(outcome).tried_topologies = progress.tried_topologies
      /\ Settled(outcome).consecutive_rollbacks = 0
  <2> DEFINE p == [progress EXCEPT !.topology_swaps = after, !.consecutive_rollbacks = 0]
  <2>1. /\ DOMAIN p = DOMAIN progress
        /\ p.topology_swaps = after /\ p.consecutive_rollbacks = 0
        /\ p.outer_iter = progress.outer_iter /\ p.judge_result = progress.judge_result
        /\ p.tried_topologies = progress.tried_topologies
    BY <1>1 DEF Progress
  <2>2. p \in Progress
    BY <1>1, <1>2 DEF Progress
  <2> QED
    BY <1>3, <2>1, <2>2
<1> QED
  BY <1>2, <1>4, <1>5 DEF SwappedOnce, SwapInv, IInv

(* Every way out of the loop.                                              *)
LEMMA ReturningStep == IInv /\ Returning => IInv'
<1> SUFFICES ASSUME IInv, Returning PROVE IInv'
  OBVIOUS
<1>1. /\ progress \in Progress /\ SwappedOnce(progress)
      /\ progress.judge_result \in Verdicts /\ NoVerdict \in Verdicts
      /\ first_simulation \in BOOLEAN
  BY DEF IInv, TypeOK, Progress, SwapInv, NoVerdict, Verdicts
<1>2. Verdict(Top, TRUE) \in Verdicts
  BY ProgressFacts DEF IInv
<1> USE DEF Reasons
<1>3. CASE Exhausted
  BY <1>1, <1>3, ReturnKeeps DEF Exhausted
<1>4. CASE EntrySimulationEmpty
  BY <1>1, <1>4, ReturnKeeps DEF EntrySimulationEmpty
<1>5. CASE SimulationPasses
  <2>1. Judged(TRUE) \in Progress /\ SwappedOnce(Judged(TRUE))
    BY <1>1, ProgressFacts DEF IInv, SwappedOnce
  <2> QED
    BY <1>2, <1>5, <2>1, ReturnKeeps DEF SimulationPasses
<1>6. CASE SwapPasses
  BY <1>1, <1>2, <1>6, SettledFacts, ReturnKeeps DEF SwapPasses
<1>7. CASE TuningPasses
  <2> DEFINE p == [progress EXCEPT !.consecutive_rollbacks = 0]
  <2>1. p \in Progress /\ SwappedOnce(p)
    BY <1>1 DEF Progress, SwappedOnce
  <2> QED
    BY <1>1, <1>2, <1>7, <2>1, ReturnKeeps DEF TuningPasses
<1>8. CASE Raises
  BY <1>1, <1>8, ReturnKeeps DEF Raises
<1>9. CASE \E pair \in Pair : SwapRaises(pair)
  <2>1. PICK pair \in Pair : SwapRaises(pair)
    BY <1>9
  <2>2. pc = "topology" /\ pair \in iteration.candidates
    BY <2>1 DEF SwapRaises
  <2>3. PICK p \in {Trying(pair), Recording(pair, 0)} :
          Return("FAIL", "error", p, progress.judge_result)
    BY <2>1 DEF SwapRaises
  <2>4. p \in Progress /\ SwappedOnce(p)
    BY <2>2, <2>3, TryingFacts
  <2> QED
    BY <1>1, <2>1, <2>3, <2>4, ReturnKeeps DEF SwapRaises
<1>10. CASE pc = "tune" /\ iteration.verify_pre_rejected_any /\ RetriesExhausted
  <2>1. /\ \E r \in 1 .. MaxTuningRetries : <<r, FALSE>> \in iteration.reviews
        /\ \A r \in 1 .. MaxTuningRetries : <<r, TRUE>> \notin iteration.reviews
    BY <1>10 DEF IInv, ReviewInv
  <2>2. Return("FAIL", "tuning proposal repeatedly rejected", progress,
               progress.judge_result) /\ UNCHANGED <<iteration, first_simulation>>
    BY <1>10 DEF RetriesExhausted
  <2> QED
    BY <1>1, <2>1, <2>2, ReturnKeeps
<1> QED
  BY <1>3, <1>4, <1>5, <1>6, <1>7, <1>8, <1>9, <1>10 DEF Returning

(* An iteration that ends leaves the next one to look at its deck afresh.  *)
LEMMA ContinueKeeps ==
  ASSUME IInv, NEW p \in Progress, SwappedOnce(p), NEW failed \in BOOLEAN,
         Continue(p, failed), UNCHANGED <<iteration, first_simulation>>,
         versions' \in Seq(Nat), Len(versions') >= 1, pc # "returned"
  PROVE  IInv'
<1> USE DEF IInv
<1> DEFINE q == [p EXCEPT !.outer_iter = @ + 1]
<1>1. q \in Progress /\ SwappedOnce(q)
  <2>1. p.outer_iter + 1 \in Nat
    BY DEF Progress
  <2> QED
    BY <2>1 DEF Progress, SwappedOnce
<1>2. /\ progress' = q /\ pc' = "head" /\ result = NoResult
      /\ UNCHANGED <<decks, result, saved, resumes, iteration, first_simulation>>
      /\ outcomes' = Append(outcomes, [failed |-> failed, escalated |-> iteration.escalated])
  BY DEF Continue, StackInv
<1>3. outcomes' \in Outcomes
  BY <1>2, AppendProperties DEF TypeOK, Outcomes, Iterations
<1>4. TypeOK'
  BY <1>1, <1>2, <1>3 DEF TypeOK, Places
<1>5. StackInv' /\ SwapInv' /\ ReviewInv'
  BY <1>1, <1>2 DEF StackInv, SwapInv, ReviewInv, Reviewing, SwappedOnce
<1>6. VerdictsCompareNeighbours' /\ PassDescribesItsDeck' /\ HardFailNeedsAReview'
  BY <1>2 DEF VerdictsCompareNeighbours, PassDescribesItsDeck, HardFailNeedsAReview
<1> QED
  BY <1>4, <1>5, <1>6

LEMMA ContinuingStep == IInv /\ Continuing => IInv'
<1> SUFFICES ASSUME IInv, Continuing PROVE IInv'
  OBVIOUS
<1>1. /\ progress \in Progress /\ SwappedOnce(progress)
      /\ versions \in Seq(Nat) /\ Len(versions) >= 1
      /\ pc \in Reviewing => Len(versions) >= 2
  BY DEF IInv, TypeOK, Progress, SwapInv, StackInv
<1>2. \A pass \in BOOLEAN : Verdict(Top, pass) \in Verdicts
  BY ProgressFacts DEF IInv
<1>3. pc \in Reviewing /\ Rollback => versions' \in Seq(Nat) /\ Len(versions') >= 1
  BY <1>1, StackFacts DEF IInv
<1>4. CASE \E pass \in BOOLEAN : SwapRolledBack(pass)
  <2>1. PICK pass \in BOOLEAN : SwapRolledBack(pass)
    BY <1>4
  <2> DEFINE p == [Settled("rolled_back") EXCEPT !.judge_result = Verdict(Top, pass)]
  <2>2. pc = "review_swap" /\ Rollback /\ Continue(p, FALSE)
        /\ UNCHANGED <<iteration, first_simulation>>
    BY <2>1 DEF SwapRolledBack
  <2>3. p \in Progress /\ SwappedOnce(p)
    BY <1>2, <2>2, SettledFacts DEF Progress, SwappedOnce
  <2> HIDE DEF p
  <2> QED
    BY <1>3, <2>2, <2>3, ContinueKeeps DEF Reviewing
<1>5. CASE \E pass \in BOOLEAN : TuningRolledBack(pass)
  <2>1. PICK pass \in BOOLEAN : TuningRolledBack(pass)
    BY <1>5
  <2> DEFINE p == [progress EXCEPT !.consecutive_rollbacks = @ + 1,
                                   !.judge_result = Verdict(Top, pass)]
  <2>2. pc = "review_tune" /\ Rollback /\ Continue(p, TRUE)
        /\ UNCHANGED <<iteration, first_simulation>>
    BY <2>1 DEF TuningRolledBack
  <2>3. p \in Progress /\ SwappedOnce(p)
    <3>1. progress.consecutive_rollbacks + 1 \in Nat
      BY <1>1 DEF Progress
    <3> QED
      BY <1>1, <1>2, <3>1 DEF Progress, SwappedOnce
  <2> HIDE DEF p
  <2> QED
    BY <1>3, <2>2, <2>3, ContinueKeeps DEF Reviewing
<1>6. CASE SwapKept
  <2> DEFINE p == [Settled("kept") EXCEPT !.judge_result = Verdict(Top, FALSE)]
  <2>1. pc = "review_swap" /\ Continue(p, FALSE)
        /\ UNCHANGED <<versions, iteration, first_simulation>>
    BY <1>6 DEF SwapKept
  <2>2. p \in Progress /\ SwappedOnce(p)
    <3>1. Settled("kept") \in Progress /\ SwappedOnce(Settled("kept"))
      BY <2>1, SettledFacts
    <3> QED
      BY <1>2, <3>1 DEF Progress, SwappedOnce
  <2> HIDE DEF p
  <2> QED
    BY <1>1, <2>1, <2>2, ContinueKeeps
<1>7. CASE TuningKept
  <2> DEFINE p == [progress EXCEPT !.consecutive_rollbacks = 0,
                                   !.judge_result = Verdict(Top, FALSE)]
  <2>1. pc = "review_tune" /\ Continue(p, FALSE)
        /\ UNCHANGED <<versions, iteration, first_simulation>>
    BY <1>7 DEF TuningKept
  <2>2. p \in Progress /\ SwappedOnce(p)
    BY <1>1, <1>2 DEF Progress, SwappedOnce
  <2> HIDE DEF p
  <2> QED
    BY <1>1, <2>1, <2>2, ContinueKeeps
<1>8. CASE ~ iteration.verify_pre_rejected_any /\ RetriesExhausted
  <2> DEFINE p == [progress EXCEPT !.consecutive_rollbacks = @ + 1]
  <2>1. pc = "tune" /\ Continue(p, TRUE)
        /\ UNCHANGED <<versions, iteration, first_simulation>>
    BY <1>8 DEF RetriesExhausted
  <2>2. p \in Progress /\ SwappedOnce(p)
    <3>1. progress.consecutive_rollbacks + 1 \in Nat
      BY <1>1 DEF Progress
    <3> QED
      BY <1>1, <3>1 DEF Progress, SwappedOnce
  <2> HIDE DEF p
  <2> QED
    BY <1>1, <2>1, <2>2, ContinueKeeps
<1> QED
  BY <1>4, <1>5, <1>6, <1>7, <1>8 DEF Continuing

(* While the loop goes on there is no result to be wrong about.            *)
LEMMA NoResultYet ==
  ASSUME IInv, pc # "returned", UNCHANGED result
  PROVE  /\ PassDescribesItsDeck' /\ HardFailNeedsAReview'
         /\ result' = NoResult /\ result' \in {NoResult} \cup Results
BY DEF IInv, StackInv, PassDescribesItsDeck, HardFailNeedsAReview

LEMMA HeadStep == IInv /\ LoopHead => IInv'
<1> SUFFICES ASSUME IInv, LoopHead PROVE IInv'
  OBVIOUS
<1>1. /\ pc = "head" /\ pc' = "simulate" /\ iteration' = NewIteration
      /\ saved' = [versions |-> versions, progress |-> progress, outcomes |-> outcomes]
      /\ UNCHANGED <<versions, decks, progress, outcomes, first_simulation, result, resumes>>
  BY DEF LoopHead, memory
<1>2. saved' \in Saves /\ iteration' \in Iterations
  BY <1>1 DEF IInv, TypeOK, Saves, Iterations, NewIteration
<1>3. TypeOK'
  BY <1>1, <1>2, NoResultYet DEF IInv, TypeOK, Places
<1>4. StackInv' /\ SwapInv' /\ ReviewInv'
  BY <1>1, NoResultYet DEF IInv, StackInv, SwapInv, ReviewInv, SwappedOnce, Reviewing,
     NewIteration
<1>5. VerdictsCompareNeighbours'
  BY <1>1 DEF VerdictsCompareNeighbours
<1> QED
  BY <1>1, <1>3, <1>4, <1>5, NoResultYet DEF IInv

LEMMA SimulationFailsStep == IInv /\ SimulationFails => IInv'
<1> SUFFICES ASSUME IInv, SimulationFails PROVE IInv'
  OBVIOUS
<1>1. /\ pc = "simulate" /\ pc' \in {"escalate", "tune"} /\ progress' = Judged(FALSE)
      /\ first_simulation' = FALSE
      /\ UNCHANGED <<versions, decks, outcomes, iteration, result, saved, resumes, Top>>
  BY DEF SimulationFails, GoTo, Top
<1>2. /\ progress' \in Progress /\ progress'.judge_result = Verdict(Top, FALSE)
      /\ progress'.topology_swaps = progress.topology_swaps
      /\ progress'.tried_topologies = progress.tried_topologies
  BY <1>1, ProgressFacts DEF IInv
<1>3. TypeOK'
  BY <1>1, <1>2, NoResultYet DEF IInv, TypeOK, Places
<1>4. StackInv' /\ SwapInv'
  <2>1. StackInv'
    BY <1>1, NoResultYet DEF IInv, StackInv, Reviewing
  <2>2. SwappedOnce(progress')
    BY <1>2 DEF IInv, SwapInv, SwappedOnce
  <2> QED
    BY <1>1, <2>1, <2>2 DEF IInv, SwapInv
<1>5. ReviewInv'
  BY <1>1 DEF IInv, ReviewInv
<1>6. VerdictsCompareNeighbours'
  BY <1>1, <1>2 DEF VerdictsCompareNeighbours
<1> QED
  BY <1>1, <1>3, <1>4, <1>5, <1>6, NoResultYet DEF IInv

(* The steps that look for a swap target move nothing but the iteration    *)
(* and the counter.                                                        *)
LEMMA EscalationStep ==
  IInv /\ (TopologyUnavailable \/ ProposalUnresolved
           \/ \E candidates \in SUBSET Pair : TopologyCandidates(candidates)) => IInv'
<1> SUFFICES ASSUME IInv, TopologyUnavailable \/ ProposalUnresolved
                    \/ \E candidates \in SUBSET Pair : TopologyCandidates(candidates)
             PROVE  IInv'
  OBVIOUS
<1>1. /\ pc \in {"escalate", "topology"} /\ pc' \in {"tune", "topology"}
      /\ UNCHANGED <<versions, decks, outcomes, first_simulation, result, saved, resumes, Top>>
  BY DEF TopologyUnavailable, ProposalUnresolved, TopologyCandidates, GoTo, memory, Top
<1>2. /\ progress' \in Progress /\ progress'.judge_result = progress.judge_result
      /\ progress'.topology_swaps = progress.topology_swaps
      /\ progress'.tried_topologies = progress.tried_topologies
  <2>1. progress \in Progress
    BY DEF IInv, TypeOK
  <2>2. \/ progress' = progress
        \/ progress' = [progress EXCEPT !.consecutive_rollbacks = 0]
    BY DEF TopologyUnavailable, ProposalUnresolved, TopologyCandidates, memory
  <2> QED
    BY <2>1, <2>2 DEF Progress
<1>3. /\ iteration' \in Iterations
      /\ iteration'.retry >= 1 /\ iteration'.reviews = iteration.reviews
      /\ iteration'.verify_pre_rejected_any = iteration.verify_pre_rejected_any
      /\ pc' = "topology" => iteration'.candidates \cap progress.tried_topologies = {}
  <2>1. iteration \in Iterations /\ iteration.retry >= 1 /\ iteration.retry + 1 \in Nat
        /\ iteration.retry + 1 >= 1
    BY DEF IInv, TypeOK, ReviewInv, Iterations
  <2>2. CASE TopologyUnavailable
    BY <2>1, <2>2 DEF TopologyUnavailable, GoTo
  <2>3. CASE ProposalUnresolved /\ iteration.retry < MaxTuningRetries
    <3>1. iteration' = [iteration EXCEPT !.retry = iteration.retry + 1]
          /\ iteration.candidates \cap progress.tried_topologies = {}
      BY <2>3 DEF ProposalUnresolved, IInv, SwapInv
    <3> QED
      BY <2>1, <3>1 DEF Iterations
  <2>4. CASE ProposalUnresolved /\ ~ (iteration.retry < MaxTuningRetries)
    <3>1. iteration' = [iteration EXCEPT !.retry = 1] /\ pc' = "tune"
      BY <2>4 DEF ProposalUnresolved, GoTo
    <3> QED
      BY <2>1, <3>1 DEF Iterations
  <2>5. CASE \E candidates \in SUBSET Pair : TopologyCandidates(candidates)
    <3>1. PICK candidates \in SUBSET Pair : TopologyCandidates(candidates)
      BY <2>5
    <3>2. /\ candidates \cap progress.tried_topologies = {}
          /\ iteration' = [iteration EXCEPT !.candidates = candidates, !.escalated = TRUE]
      BY <3>1 DEF TopologyCandidates
    <3> QED
      BY <2>1, <3>2 DEF Iterations
  <2> QED
    BY <2>2, <2>3, <2>4, <2>5
<1>4. TypeOK'
  BY <1>1, <1>2, <1>3, NoResultYet DEF IInv, TypeOK, Places
<1>5. StackInv' /\ SwapInv'
  BY <1>1, <1>2, <1>3, NoResultYet DEF IInv, StackInv, SwapInv, SwappedOnce, Reviewing
<1>6. ReviewInv'
  BY <1>1, <1>3 DEF IInv, ReviewInv
<1>7. VerdictsCompareNeighbours'
  BY <1>1, <1>2 DEF IInv, VerdictsCompareNeighbours
<1> QED
  BY <1>1, <1>4, <1>5, <1>6, <1>7, NoResultYet DEF IInv

(* A push puts the deck the verdict is about under the new one.            *)
LEMMA PushingStep == IInv /\ (Apply \/ \E pair \in Pair : Swap(pair)) => IInv'
<1> SUFFICES ASSUME IInv, Apply \/ \E pair \in Pair : Swap(pair) PROVE IInv'
  OBVIOUS
<1>1. /\ Push /\ pc \in {"topology", "verify_pre"} /\ pc' \in Reviewing
      /\ pc' = "review_swap" => pc = "topology"
      /\ UNCHANGED <<outcomes, iteration, first_simulation, result, saved, resumes>>
  BY DEF Apply, Swap, GoTo, Reviewing
<1>2. /\ versions' \in Seq(Nat) /\ decks' \in Nat /\ Len(versions') = Len(versions) + 1
      /\ versions'[Len(versions') - 1] = Top
  BY <1>1, StackFacts DEF IInv
<1>3. /\ progress' \in Progress /\ SwappedOnce(progress')
      /\ progress'.judge_result = progress.judge_result
      /\ pc' = "review_swap" => Len(progress'.topology_swaps) >= 1
  <2>1. CASE Apply
    BY <2>1 DEF Apply, GoTo, IInv, TypeOK, SwapInv
  <2>2. CASE \E pair \in Pair : Swap(pair)
    <3>1. PICK pair \in Pair : Swap(pair)
      BY <2>2
    <3>2. pc = "topology" /\ pair \in iteration.candidates /\ decks + 1 \in Nat
          /\ progress' = Recording(pair, decks + 1)
      BY <3>1 DEF Swap, IInv, TypeOK
    <3> QED
      BY <3>2, TryingFacts
  <2> QED
    BY <2>1, <2>2
<1>4. TypeOK'
  BY <1>1, <1>2, <1>3, NoResultYet DEF IInv, TypeOK, Places, Reviewing
<1>5. StackInv' /\ SwapInv' /\ ReviewInv'
  <2>1. StackInv'
    BY <1>1, <1>2, NoResultYet DEF IInv, StackInv, Reviewing, TypeOK
  <2>2. SwapInv'
    BY <1>1, <1>3 DEF IInv, SwapInv, Reviewing
  <2>3. ReviewInv'
    BY <1>1 DEF IInv, ReviewInv, Reviewing
  <2> QED
    BY <2>1, <2>2, <2>3
<1>6. VerdictsCompareNeighbours'
  BY <1>1, <1>2, <1>3 DEF IInv, VerdictsCompareNeighbours, Reviewing
<1> QED
  BY <1>1, <1>4, <1>5, <1>6, NoResultYet DEF IInv

(* Tuning proposals move nothing but the iteration.  Retries that ended    *)
(* without approval leave no approving review behind.                      *)
LEMMA ProposingStep ==
  IInv /\ (NothingApproved \/ (\E approved \in BOOLEAN : VerifyPre(approved))
           \/ \E gated \in Gated, unchanged \in BOOLEAN : Tune(gated, unchanged)) => IInv'
<1> SUFFICES ASSUME IInv,
                    \/ NothingApproved \/ \E approved \in BOOLEAN : VerifyPre(approved)
                    \/ \E gated \in Gated, unchanged \in BOOLEAN : Tune(gated, unchanged)
             PROVE  IInv'
  OBVIOUS
<1>1. /\ pc \in {"tune", "verify_pre"} /\ pc' \in {"tune", "verify_pre"}
      /\ UNCHANGED <<versions, decks, progress, outcomes, first_simulation, result, saved,
                     resumes, Top>>
  BY DEF NothingApproved, VerifyPre, Tune, GoTo, memory, Top
<1>2. /\ iteration \in Iterations /\ iteration.retry >= 1 /\ iteration.retry + 1 \in Nat
      /\ iteration.retry + 1 >= 1 /\ MaxTuningRetries \in Nat
  BY BoundAssumption DEF IInv, TypeOK, ReviewInv, Iterations
<1>3. iteration' \in Iterations /\ ReviewInv'
  <2>1. CASE NothingApproved
    <3>1. /\ iteration' = [iteration EXCEPT !.retry = iteration.retry + 1]
          /\ pc = "verify_pre" /\ pc' = "tune" /\ iteration.approved_alts = {}
      BY <2>1 DEF NothingApproved, GoTo
    <3>2. /\ iteration' \in Iterations /\ iteration'.retry = iteration.retry + 1
          /\ iteration'.reviews = iteration.reviews
          /\ iteration'.verify_pre_rejected_any = iteration.verify_pre_rejected_any
      BY <1>2, <3>1 DEF Iterations
    <3> QED
      BY <1>2, <3>1, <3>2 DEF IInv, ReviewInv
  <2>2. CASE \E approved \in BOOLEAN : VerifyPre(approved)
    <3>1. PICK approved \in BOOLEAN : VerifyPre(approved)
      BY <2>2
    <3>2. PICK alt \in iteration.surviving :
            LET silent == approved \/ (alt = 1 /\ iteration.unchanged)
                noted == IF silent THEN {} ELSE {<<iteration.retry, "verify_pre">>}
            IN iteration' =
                 [iteration EXCEPT
                    !.surviving = @ \ {alt},
                    !.approved_alts = IF approved THEN @ \cup {alt} ELSE @,
                    !.verify_pre_rejected_any = @ \/ ~ approved,
                    !.rejections = @ \cup noted,
                    !.reviews = @ \cup {<<iteration.retry, approved>>}]
      BY <3>1 DEF VerifyPre
    <3> DEFINE silent == approved \/ (alt = 1 /\ iteration.unchanged)
               noted == IF silent THEN {} ELSE {<<iteration.retry, "verify_pre">>}
               alts == IF approved THEN iteration.approved_alts \cup {alt}
                       ELSE iteration.approved_alts
               flag == iteration.verify_pre_rejected_any \/ ~ approved
               reviews == iteration.reviews \cup {<<iteration.retry, approved>>}
               notes == iteration.rejections \cup noted
    <3>3. /\ iteration' = [iteration EXCEPT
                            !.surviving = iteration.surviving \ {alt},
                            !.approved_alts = alts, !.verify_pre_rejected_any = flag,
                            !.rejections = notes, !.reviews = reviews]
          /\ pc = "verify_pre" /\ pc' = "verify_pre"
      BY <3>1, <3>2 DEF VerifyPre, GoTo
    <3>4. /\ alt \in 1 .. MaxAlternatives /\ iteration.retry \in Nat
          /\ iteration.retry \in 1 .. MaxTuningRetries
      BY <1>2, <3>3 DEF Iterations, IInv, ReviewInv
    <3>5. /\ alts \in SUBSET (1 .. MaxAlternatives) /\ flag \in BOOLEAN
          /\ notes \in SUBSET (Nat \X (Gate \cup {"verify_pre"}))
          /\ reviews \in SUBSET (Nat \X BOOLEAN)
          /\ iteration.surviving \ {alt} \in SUBSET (1 .. MaxAlternatives)
      <4>1. alts \in SUBSET (1 .. MaxAlternatives)
            /\ iteration.surviving \ {alt} \in SUBSET (1 .. MaxAlternatives)
        BY <1>2, <3>4 DEF Iterations
      <4>2. flag \in BOOLEAN
        OBVIOUS
      <4>3. notes \in SUBSET (Nat \X (Gate \cup {"verify_pre"}))
        BY <1>2, <3>4 DEF Iterations
      <4>4. reviews \in SUBSET (Nat \X BOOLEAN)
        BY <1>2, <3>4 DEF Iterations
      <4> QED
        BY <4>1, <4>2, <4>3, <4>4
    <3>6. \A r \in iteration.reviews : r[2] =>
             r[1] = iteration.retry /\ iteration.approved_alts # {}
      BY <3>3 DEF IInv, ReviewInv
    <3>7. iteration.verify_pre_rejected_any =>
             \E retry \in 1 .. MaxTuningRetries : <<retry, FALSE>> \in iteration.reviews
      BY <3>3 DEF IInv, ReviewInv
    <3>8. flag => \E retry \in 1 .. MaxTuningRetries : <<retry, FALSE>> \in reviews
      BY <3>4, <3>7
    <3>9. \A r \in reviews : r[2] => r[1] = iteration.retry /\ alts # {}
      BY <3>6
    <3> HIDE DEF alts, flag, notes, reviews
    <3>10. iteration' \in Iterations
      BY <1>2, <3>3, <3>5 DEF Iterations
    <3>11. /\ iteration'.retry = iteration.retry /\ iteration'.approved_alts = alts
           /\ iteration'.verify_pre_rejected_any = flag /\ iteration'.reviews = reviews
      BY <1>2, <3>3 DEF Iterations
    <3>12. \A r \in iteration'.reviews : r[2] =>
              pc' = "verify_pre" /\ r[1] = iteration'.retry /\ iteration'.approved_alts # {}
      BY <3>3, <3>9, <3>11
    <3>13. iteration'.verify_pre_rejected_any =>
              \E retry \in 1 .. MaxTuningRetries : <<retry, FALSE>> \in iteration'.reviews
      BY <3>8, <3>11
    <3>14. iteration'.retry >= 1 /\ iteration'.retry <= MaxTuningRetries
      BY <1>2, <3>4, <3>11
    <3> QED
      BY <3>3, <3>10, <3>12, <3>13, <3>14 DEF ReviewInv
  <2>3. CASE \E gated \in Gated, unchanged \in BOOLEAN : Tune(gated, unchanged)
    <3>1. PICK gated \in Gated, unchanged \in BOOLEAN : Tune(gated, unchanged)
      BY <2>3
    <3> DEFINE surviving == {a \in DOMAIN gated : gated[a] = "ok"}
               reasons == {gated[a] : a \in DOMAIN gated} \ {"ok"}
    <3>2. surviving \subseteq 1 .. MaxAlternatives /\ reasons \subseteq Gate
      BY BoundAssumption DEF Gated
    <3>3. /\ iteration' = [iteration EXCEPT
                            !.surviving = surviving, !.approved_alts = {},
                            !.unchanged = unchanged,
                            !.rejections = iteration.rejections
                                             \cup ({iteration.retry} \X reasons),
                            !.retry = IF surviving = {} THEN iteration.retry + 1
                                      ELSE iteration.retry]
          /\ pc = "tune" /\ iteration.retry <= MaxTuningRetries
          /\ pc' = "verify_pre" => surviving # {}
      BY <3>1 DEF Tune, GoTo
    <3> HIDE DEF surviving, reasons
    <3>4. /\ iteration'.retry = IF surviving = {} THEN iteration.retry + 1 ELSE iteration.retry
          /\ iteration'.reviews = iteration.reviews
          /\ iteration'.verify_pre_rejected_any = iteration.verify_pre_rejected_any
      BY <1>2, <3>3 DEF Iterations
    <3>5. iteration' \in Iterations
      <4>1. {iteration.retry} \X reasons \subseteq Nat \X (Gate \cup {"verify_pre"})
        BY <1>2, <3>2 DEF Iterations
      <4> QED
        BY <1>2, <3>2, <3>3, <4>1 DEF Iterations
    <3> QED
      BY <1>1, <1>2, <3>3, <3>4, <3>5 DEF IInv, ReviewInv
  <2> QED
    BY <2>1, <2>2, <2>3
<1>4. TypeOK'
  BY <1>1, <1>3, NoResultYet DEF IInv, TypeOK, Places
<1>5. StackInv' /\ SwapInv'
  BY <1>1, NoResultYet DEF IInv, StackInv, SwapInv, Reviewing
<1>6. VerdictsCompareNeighbours'
  BY <1>1 DEF IInv, VerdictsCompareNeighbours
<1> QED
  BY <1>1, <1>3, <1>4, <1>5, <1>6, NoResultYet DEF IInv

(* A resumed process stands at the head with what was saved.               *)
LEMMA ResumeStep == IInv /\ Resume => IInv'
<1> SUFFICES ASSUME IInv, Resume PROVE IInv'
  OBVIOUS
<1>1. /\ saved # NoSave /\ saved \in Saves
      /\ versions' = saved.versions /\ progress' = saved.progress
      /\ outcomes' = saved.outcomes /\ iteration' = NewIteration
      /\ first_simulation' = TRUE /\ pc' = "head" /\ result' = NoResult
      /\ resumes' = resumes + 1 /\ UNCHANGED <<decks, saved>>
  BY DEF Resume, IInv, TypeOK
<1>2. /\ saved.versions \in Seq(Nat) /\ saved.progress \in Progress
      /\ saved.outcomes \in Outcomes /\ NewIteration \in Iterations
      /\ resumes + 1 \in Nat
  BY <1>1 DEF Saves, NewIteration, Iterations, IInv, TypeOK
<1>3. TypeOK'
  BY <1>1, <1>2 DEF IInv, TypeOK, Places
<1>4. StackInv' /\ SwapInv' /\ ReviewInv'
  BY <1>1 DEF IInv, StackInv, SwapInv, ReviewInv, Reviewing, NewIteration
<1>5. VerdictsCompareNeighbours' /\ PassDescribesItsDeck' /\ HardFailNeedsAReview'
  BY <1>1 DEF VerdictsCompareNeighbours, PassDescribesItsDeck, HardFailNeedsAReview
<1> QED
  BY <1>3, <1>4, <1>5 DEF IInv

-----------------------------------------------------------------------------
LEMMA Inductive == IInv /\ [Next]_vars => IInv'
<1> SUFFICES ASSUME IInv, [Next]_vars PROVE IInv'
  OBVIOUS
<1>1. CASE UNCHANGED vars
  <2>1. TypeOK' /\ StackInv'
    BY <1>1 DEF vars, IInv, TypeOK, StackInv, Reviewing
  <2>2. SwapInv' /\ ReviewInv'
    BY <1>1 DEF vars, IInv, SwapInv, SwappedOnce, ReviewInv
  <2>3. VerdictsCompareNeighbours' /\ PassDescribesItsDeck' /\ HardFailNeedsAReview'
    BY <1>1 DEF vars, IInv, VerdictsCompareNeighbours, PassDescribesItsDeck,
       HardFailNeedsAReview, Top
  <2> QED
    BY <2>1, <2>2, <2>3 DEF IInv
<1>2. CASE LoopHead
  BY <1>2, HeadStep
<1>3. CASE SimulationFails
  BY <1>3, SimulationFailsStep
<1>4. CASE Returning
  BY <1>4, ReturningStep
<1>5. CASE Continuing
  BY <1>5, ContinuingStep
<1>6. CASE TopologyUnavailable \/ ProposalUnresolved
           \/ \E candidates \in SUBSET Pair : TopologyCandidates(candidates)
  BY <1>6, EscalationStep
<1>7. CASE Apply \/ \E pair \in Pair : Swap(pair)
  BY <1>7, PushingStep
<1>8. CASE \/ NothingApproved \/ \E approved \in BOOLEAN : VerifyPre(approved)
           \/ \E gated \in Gated, unchanged \in BOOLEAN : Tune(gated, unchanged)
  BY <1>8, ProposingStep
<1>9. CASE Resume
  BY <1>9, ResumeStep
<1>10. CASE RetriesExhausted
  <2>1. pc = "tune"
    BY <1>10 DEF RetriesExhausted
  <2> QED
    BY <1>4, <1>5, <1>10, <2>1 DEF Returning, Continuing
<1> QED
  BY <1>1, <1>2, <1>3, <1>4, <1>5, <1>6, <1>7, <1>8, <1>9, <1>10
     DEF Next, Loop, Escalating, Tuning, Returning, Continuing

LEMMA Always == Spec => []IInv
BY InitInv, Inductive, PTL DEF Spec

-----------------------------------------------------------------------------
(* Every variable keeps the shape the code gives it.                       *)
THEOREM TypeCorrect == Spec => []TypeOK
<1>1. IInv => TypeOK
  BY DEF IInv
<1> QED
  BY <1>1, Always, PTL

(* A PASS is a passing verdict on the very deck that is returned           *)
(* (orchestrator.py:492-495, 1028-1031).                                   *)
THEOREM PassesDescribeDecks == Spec => []PassDescribesItsDeck
<1>1. IInv => PassDescribesItsDeck
  BY DEF IInv
<1> QED
  BY <1>1, Always, PTL

(* The verdicts that agents and verify_post are shown belong to the decks  *)
(* they are about (orchestrator.py:695-704, 1023-1031).                    *)
THEOREM VerdictsMatchDecks == Spec => []VerdictsCompareNeighbours
<1>1. IInv => VerdictsCompareNeighbours
  BY DEF IInv
<1> QED
  BY <1>1, Always, PTL

(* No pair is swapped in twice, however many escalations and resumes       *)
(* (orchestrator.py:400, 584).                                             *)
THEOREM NoPairTwice == Spec => []PairsSwappedOnce
<1>1. IInv => PairsSwappedOnce
  BY DEF IInv, SwapInv, SwappedOnce, PairsSwappedOnce
<1> QED
  BY <1>1, Always, PTL

(* Only refusals of the verifier, in the last iteration, end a run for     *)
(* want of an approved proposal (orchestrator.py:979-986).                 *)
THEOREM GatesNeverEndARun == Spec => []HardFailNeedsAReview
<1>1. IInv => HardFailNeedsAReview
  BY DEF IInv
<1> QED
  BY <1>1, Always, PTL

-----------------------------------------------------------------------------
(* The counter is the length of the longest run of failures that ends the  *)
(* outcomes and in which only the first iteration escalated.               *)
FailedLast(outs, n) ==
  /\ n <= Len(outs)
  /\ \A i \in Len(outs) - n + 1 .. Len(outs) :
       /\ outs[i].failed
       /\ i > Len(outs) - n + 1 => ~ outs[i].escalated
Counts(count, outs) == \A n \in Nat : FailedLast(outs, n) <=> n <= count

CountInv ==
  /\ pc \in {"head", "simulate", "escalate"} => Counts(progress.consecutive_rollbacks, outcomes)
  /\ pc \in {"simulate", "escalate"} => ~ iteration.escalated
  /\ pc = "escalate" => Patience
  /\ pc = "topology" => iteration.escalated
  /\ pc \in {"tune", "verify_pre", "review_tune"} =>
       IF iteration.escalated THEN progress.consecutive_rollbacks = 0
       ELSE Counts(progress.consecutive_rollbacks, outcomes)
  /\ saved # NoSave => Counts(saved.progress.consecutive_rollbacks, saved.outcomes)

Ended(failed, escalated) == [failed |-> failed, escalated |-> escalated]

LEMMA OneMore ==
  ASSUME NEW outs \in Outcomes, NEW failed \in BOOLEAN, NEW escalated \in BOOLEAN
  PROVE  LET after == Append(outs, Ended(failed, escalated)) IN
         /\ Len(after) = Len(outs) + 1 /\ Len(outs) \in Nat
         /\ after[Len(outs) + 1] = Ended(failed, escalated)
         /\ \A i \in 1 .. Len(outs) : after[i] = outs[i]
BY AppendProperties DEF Outcomes, Ended

(* A failed iteration adds one, or, if it escalated, starts at one.        *)
LEMMA FailureCounts ==
  ASSUME NEW outs \in Outcomes, NEW count \in Nat, NEW escalated \in BOOLEAN,
         IF escalated THEN count = 0 ELSE Counts(count, outs)
  PROVE  Counts(count + 1, Append(outs, Ended(TRUE, escalated)))
<1> DEFINE after == Append(outs, Ended(TRUE, escalated))
<1>1. /\ Len(after) = Len(outs) + 1 /\ Len(outs) \in Nat
      /\ after[Len(outs) + 1].failed /\ after[Len(outs) + 1].escalated = escalated
      /\ \A i \in 1 .. Len(outs) : after[i] = outs[i]
  BY OneMore DEF Ended
<1> HIDE DEF after
<1> SUFFICES ASSUME NEW n \in Nat PROVE FailedLast(after, n) <=> n <= count + 1
  BY DEF Counts, after
<1>2. CASE n <= 1
  <2>1. \A i \in Len(after) - n + 1 .. Len(after) : i = Len(after) /\ n = 1
    BY <1>1, <1>2
  <2> QED
    BY <1>1, <1>2, <2>1 DEF FailedLast
<1>3. CASE n > 1 /\ escalated
  <2>1. Len(after) \in Len(after) - n + 1 .. Len(after) /\ Len(after) > Len(after) - n + 1
    BY <1>1, <1>3
  <2>2. after[Len(after)].escalated
    BY <1>1, <1>3
  <2>3. ~ FailedLast(after, n)
    BY <2>1, <2>2 DEF FailedLast
  <2>4. ~ (n <= count + 1)
    BY <1>3
  <2> QED
    BY <2>3, <2>4
<1>4. CASE n > 1 /\ ~ escalated
  <2>1. FailedLast(outs, n - 1) <=> n - 1 <= count
    BY <1>4 DEF Counts
  <2>2. ASSUME FailedLast(outs, n - 1) PROVE FailedLast(after, n)
    <3>1. n <= Len(after)
      BY <1>1, <1>4, <2>2 DEF FailedLast
    <3>2. ASSUME NEW i \in Len(after) - n + 1 .. Len(after)
          PROVE  after[i].failed /\ (i > Len(after) - n + 1 => ~ after[i].escalated)
      <4>1. CASE i = Len(after)
        BY <1>1, <1>4, <4>1
      <4>2. CASE i # Len(after)
        <5>1. /\ i \in Len(outs) - (n - 1) + 1 .. Len(outs) /\ i \in 1 .. Len(outs)
              /\ i > Len(after) - n + 1 => i > Len(outs) - (n - 1) + 1
          BY <1>1, <1>4, <3>1, <3>2, <4>2
        <5> QED
          BY <1>1, <2>2, <5>1 DEF FailedLast
      <4> QED
        BY <4>1, <4>2
    <3> QED
      BY <3>1, <3>2 DEF FailedLast
  <2>3. ASSUME FailedLast(after, n) PROVE FailedLast(outs, n - 1)
    <3>1. n - 1 <= Len(outs)
      BY <1>1, <1>4, <2>3 DEF FailedLast
    <3>2. ASSUME NEW i \in Len(outs) - (n - 1) + 1 .. Len(outs)
          PROVE  outs[i].failed /\ (i > Len(outs) - (n - 1) + 1 => ~ outs[i].escalated)
      <4>1. /\ i \in Len(after) - n + 1 .. Len(after) /\ i \in 1 .. Len(outs)
            /\ i > Len(outs) - (n - 1) + 1 => i > Len(after) - n + 1
        BY <1>1, <1>4, <3>1, <3>2
      <4> QED
        BY <1>1, <2>3, <4>1 DEF FailedLast
    <3> QED
      BY <3>1, <3>2 DEF FailedLast
  <2> QED
    BY <1>4, <2>1, <2>2, <2>3
<1> QED
  BY <1>2, <1>3, <1>4

(* An iteration that did not fail starts the count over.                   *)
LEMMA SuccessResets ==
  ASSUME NEW outs \in Outcomes, NEW escalated \in BOOLEAN
  PROVE  Counts(0, Append(outs, Ended(FALSE, escalated)))
<1> DEFINE after == Append(outs, Ended(FALSE, escalated))
<1>1. Len(after) = Len(outs) + 1 /\ Len(outs) \in Nat /\ ~ after[Len(outs) + 1].failed
  BY OneMore DEF Ended
<1> HIDE DEF after
<1> SUFFICES ASSUME NEW n \in Nat PROVE FailedLast(after, n) <=> n <= 0
  BY DEF Counts, after
<1>2. CASE n = 0
  BY <1>1, <1>2 DEF FailedLast
<1>3. CASE n > 0
  <2>1. Len(after) \in Len(after) - n + 1 .. Len(after)
    BY <1>1, <1>3
  <2> QED
    BY <1>1, <1>3, <2>1 DEF FailedLast
<1> QED
  BY <1>2, <1>3

(* What Continue leaves, whatever progress it is handed.                   *)
LEMMA ContinueCounts ==
  ASSUME IInv, CountInv, NEW p \in Progress, NEW failed \in BOOLEAN, Continue(p, failed),
         Counts(p.consecutive_rollbacks, Append(outcomes, Ended(failed, iteration.escalated)))
  PROVE  CountInv'
<1>1. /\ progress' = [p EXCEPT !.outer_iter = @ + 1] /\ pc' = "head" /\ UNCHANGED saved
      /\ outcomes' = Append(outcomes, Ended(failed, iteration.escalated))
  BY DEF Continue, Ended
<1>2. progress'.consecutive_rollbacks = p.consecutive_rollbacks
  BY <1>1 DEF Progress
<1> QED
  BY <1>1, <1>2 DEF CountInv

LEMMA ContinuingCounts == IInv /\ CountInv /\ Continuing => CountInv'
<1> SUFFICES ASSUME IInv, CountInv, Continuing PROVE CountInv'
  OBVIOUS
<1>1. /\ progress \in Progress /\ outcomes \in Outcomes /\ iteration.escalated \in BOOLEAN
      /\ progress.consecutive_rollbacks \in Nat
  BY DEF IInv, TypeOK, Progress, Iterations
<1>2. \A pass \in BOOLEAN : Verdict(Top, pass) \in Verdicts
  BY ProgressFacts DEF IInv
<1>3. Counts(0, Append(outcomes, Ended(FALSE, iteration.escalated)))
  BY <1>1, SuccessResets
<1>4. pc \in {"tune", "review_tune"} =>
        Counts(progress.consecutive_rollbacks + 1,
               Append(outcomes, Ended(TRUE, iteration.escalated)))
  BY <1>1, FailureCounts DEF CountInv
<1>5. CASE \E pass \in BOOLEAN : SwapRolledBack(pass)
  <2>1. PICK pass \in BOOLEAN : SwapRolledBack(pass)
    BY <1>5
  <2> DEFINE p == [Settled("rolled_back") EXCEPT !.judge_result = Verdict(Top, pass)]
  <2>2. pc = "review_swap" /\ Continue(p, FALSE)
    BY <2>1 DEF SwapRolledBack
  <2>3. p \in Progress /\ p.consecutive_rollbacks = 0
    BY <1>2, <2>2, SettledFacts DEF Progress
  <2> HIDE DEF p
  <2> QED
    BY <1>3, <2>2, <2>3, ContinueCounts
<1>6. CASE SwapKept
  <2> DEFINE p == [Settled("kept") EXCEPT !.judge_result = Verdict(Top, FALSE)]
  <2>1. pc = "review_swap" /\ Continue(p, FALSE)
    BY <1>6 DEF SwapKept
  <2>2. p \in Progress /\ p.consecutive_rollbacks = 0
    BY <1>2, <2>1, SettledFacts DEF Progress
  <2> HIDE DEF p
  <2> QED
    BY <1>3, <2>1, <2>2, ContinueCounts
<1>7. CASE \E pass \in BOOLEAN : TuningRolledBack(pass)
  <2>1. PICK pass \in BOOLEAN : TuningRolledBack(pass)
    BY <1>7
  <2> DEFINE p == [progress EXCEPT !.consecutive_rollbacks = @ + 1,
                                   !.judge_result = Verdict(Top, pass)]
  <2>2. pc = "review_tune" /\ Continue(p, TRUE)
    BY <2>1 DEF TuningRolledBack
  <2>3. p \in Progress /\ p.consecutive_rollbacks = progress.consecutive_rollbacks + 1
    <3>1. progress.consecutive_rollbacks + 1 \in Nat
      BY <1>1
    <3> QED
      BY <1>1, <1>2, <3>1 DEF Progress
  <2> HIDE DEF p
  <2> QED
    BY <1>4, <2>2, <2>3, ContinueCounts
<1>8. CASE TuningKept
  <2> DEFINE p == [progress EXCEPT !.consecutive_rollbacks = 0,
                                   !.judge_result = Verdict(Top, FALSE)]
  <2>1. pc = "review_tune" /\ Continue(p, FALSE)
    BY <1>8 DEF TuningKept
  <2>2. p \in Progress /\ p.consecutive_rollbacks = 0
    BY <1>1, <1>2 DEF Progress
  <2> HIDE DEF p
  <2> QED
    BY <1>3, <2>1, <2>2, ContinueCounts
<1>9. CASE ~ iteration.verify_pre_rejected_any /\ RetriesExhausted
  <2> DEFINE p == [progress EXCEPT !.consecutive_rollbacks = @ + 1]
  <2>1. pc = "tune" /\ Continue(p, TRUE)
    BY <1>9 DEF RetriesExhausted
  <2>2. p \in Progress /\ p.consecutive_rollbacks = progress.consecutive_rollbacks + 1
    BY <1>1 DEF Progress
  <2> HIDE DEF p
  <2> QED
    BY <1>4, <2>1, <2>2, ContinueCounts
<1> QED
  BY <1>5, <1>6, <1>7, <1>8, <1>9 DEF Continuing

LEMMA CountStep == IInv /\ CountInv /\ [Next]_vars => CountInv'
<1> SUFFICES ASSUME IInv, CountInv, [Next]_vars PROVE CountInv'
  OBVIOUS
<1>1. progress \in Progress /\ iteration \in Iterations
  BY DEF IInv, TypeOK
<1>2. CASE UNCHANGED vars
  BY <1>2 DEF vars, CountInv, Patience
<1>3. CASE LoopHead
  <2>1. /\ pc = "head" /\ pc' = "simulate" /\ iteration'.escalated = FALSE
        /\ saved'.progress = progress /\ saved'.outcomes = outcomes
        /\ UNCHANGED <<progress, outcomes>>
    BY <1>3 DEF LoopHead, memory, NewIteration
  <2> QED
    BY <2>1 DEF CountInv
<1>4. CASE Returning
  <2>1. pc' = "returned" /\ UNCHANGED saved
    BY <1>4 DEF Returning, Exhausted, EntrySimulationEmpty, SimulationPasses, SwapPasses,
       TuningPasses, Raises, SwapRaises, RetriesExhausted, Return
  <2> QED
    BY <2>1 DEF CountInv
<1>5. CASE Continuing
  BY <1>5, ContinuingCounts
<1>6. CASE SimulationFails
  <2>1. /\ pc = "simulate" /\ UNCHANGED <<outcomes, iteration, saved>>
        /\ pc' = IF Patience THEN "escalate" ELSE "tune"
        /\ progress' = [progress EXCEPT !.judge_result = Verdict(Top, FALSE)]
    BY <1>6 DEF SimulationFails, GoTo, Judged
  <2>2. progress'.consecutive_rollbacks = progress.consecutive_rollbacks
    BY <1>1, <2>1 DEF Progress
  <2> QED
    BY <2>1, <2>2 DEF CountInv, Patience
<1>7. CASE TopologyUnavailable
  BY <1>7 DEF TopologyUnavailable, GoTo, memory, CountInv
<1>8. CASE \E candidates \in SUBSET Pair : TopologyCandidates(candidates)
  <2>1. pc' = "topology" /\ iteration'.escalated = TRUE /\ UNCHANGED saved
    BY <1>1, <1>8 DEF TopologyCandidates, GoTo, Iterations
  <2> QED
    BY <2>1 DEF CountInv
<1>9. CASE ProposalUnresolved
  <2>1. /\ pc = "topology" /\ pc' \in {"topology", "tune"} /\ UNCHANGED saved
        /\ iteration'.escalated = iteration.escalated
        /\ pc' = "tune" => progress'.consecutive_rollbacks = 0
    BY <1>1, <1>9 DEF ProposalUnresolved, GoTo, Iterations, Progress
  <2> QED
    BY <2>1 DEF CountInv
<1>10. CASE \E pair \in Pair : Swap(pair)
  <2>1. pc' = "review_swap" /\ UNCHANGED saved
    BY <1>10 DEF Swap, GoTo
  <2> QED
    BY <2>1 DEF CountInv
<1>11. CASE \/ NothingApproved \/ Apply \/ \E approved \in BOOLEAN : VerifyPre(approved)
            \/ \E gated \in Gated, unchanged \in BOOLEAN : Tune(gated, unchanged)
  <2>1. /\ pc \in {"tune", "verify_pre"} /\ pc' \in {"tune", "verify_pre", "review_tune"}
        /\ UNCHANGED <<progress, outcomes, saved>>
    BY <1>11 DEF NothingApproved, Apply, VerifyPre, Tune, GoTo, memory
  <2>2. iteration'.escalated = iteration.escalated
    BY <1>1, <1>11 DEF NothingApproved, Apply, VerifyPre, Tune, Iterations
  <2> QED
    BY <2>1, <2>2 DEF CountInv
<1>12. CASE Resume
  <2>1. /\ saved # NoSave /\ pc' = "head" /\ progress' = saved.progress
        /\ outcomes' = saved.outcomes /\ UNCHANGED saved
    BY <1>12 DEF Resume
  <2> QED
    BY <2>1 DEF CountInv
<1>13. CASE RetriesExhausted
  <2>1. pc = "tune"
    BY <1>13 DEF RetriesExhausted
  <2> QED
    BY <1>4, <1>5, <1>13, <2>1 DEF Returning, Continuing
<1> QED
  BY <1>2, <1>3, <1>4, <1>5, <1>6, <1>7, <1>8, <1>9, <1>10, <1>11, <1>12, <1>13
     DEF Next, Loop, Escalating, Tuning, Returning, Continuing

(* Escalation follows the failures of whole iterations, as their outcomes  *)
(* tell them, across swaps and resumes (orchestrator.py:522, 608, 721,     *)
(* 985, 1022, 1026).                                                       *)
THEOREM EscalationFollowsFailures == Spec => []EscalatesAfterFailures
<1>1. Init => CountInv
  BY DEF Init, CountInv, Counts, FailedLast, NewIteration
<1>2. IInv /\ CountInv => EscalatesAfterFailures
  <2> SUFFICES ASSUME IInv, CountInv PROVE EscalatesAfterFailures
    OBVIOUS
  <2>1. TopologySwitchThreshold \in Nat /\ progress.consecutive_rollbacks \in Nat
    BY BoundAssumption DEF IInv, TypeOK, Progress
  <2>2. LastFailed(TopologySwitchThreshold) <=> FailedLast(outcomes, TopologySwitchThreshold)
    BY DEF LastFailed, FailedLast
  <2> QED
    BY <2>1, <2>2 DEF CountInv, Counts, EscalatesAfterFailures, Patience
<1>3. IInv /\ CountInv /\ [Next]_vars => CountInv'
  BY CountStep
<1> QED
  BY <1>1, <1>2, <1>3, Always, PTL DEF Spec

-----------------------------------------------------------------------------
(* Swap records and the stack.  A deck under review is the newest one, so  *)
(* it is none of those below it and of no earlier swap: dropping it cannot *)
(* take a kept swap's deck away, keeping it adds only its own.             *)

(* The first m swaps are settled, as the first n decks of the stack say,   *)
(* and none is newer than deck last.                                       *)
Accounts(swaps, m, stack, n, last) ==
  \A i \in 1 .. m :
    /\ swaps[i].deck <= last
    /\ swaps[i].outcome \in {"kept", "rolled_back"}
    /\ swaps[i].outcome = "kept" <=> \E j \in 1 .. n : stack[j] = swaps[i].deck
Settles(p, stack, last) ==
  Accounts(p.topology_swaps, Len(p.topology_swaps), stack, Len(stack), last)
Made(stack, last) == \A i \in DOMAIN stack : stack[i] <= last

Under == Len(versions) - 1
SettledSwaps ==
  IF pc = "review_swap" THEN Len(progress.topology_swaps) - 1
  ELSE Len(progress.topology_swaps)

DeckInv ==
  /\ Made(versions, decks)
  /\ pc \notin Reviewing \cup {"returned"} => Settles(progress, versions, decks)
  /\ pc \in Reviewing =>
       LET swaps == progress.topology_swaps IN
       /\ Top = decks /\ \A i \in 1 .. Under : versions[i] < decks
       /\ Accounts(swaps, SettledSwaps, versions, Under, decks - 1)
       /\ pc = "review_swap" =>
            swaps[Len(swaps)].deck = decks /\ swaps[Len(swaps)].outcome = "none"
  /\ saved # NoSave =>
       Made(saved.versions, decks) /\ Settles(saved.progress, saved.versions, decks)
  /\ SwapsExplainTheDeck

(* A stack that gets a newer deck accounts for the old swaps as before.    *)
LEMMA NewerDeck ==
  ASSUME NEW swaps \in Seq(Swaps), NEW m \in 0 .. Len(swaps), NEW stack \in Seq(Nat),
         Len(stack) >= 1, NEW last \in Nat, stack[Len(stack)] = last + 1
  PROVE  Accounts(swaps, m, stack, Len(stack) - 1, last)
           => Accounts(swaps, m, stack, Len(stack), last + 1)
<1> SUFFICES ASSUME Accounts(swaps, m, stack, Len(stack) - 1, last), NEW i \in 1 .. m
             PROVE  /\ swaps[i].deck <= last + 1
                    /\ swaps[i].outcome \in {"kept", "rolled_back"}
                    /\ swaps[i].outcome = "kept" <=>
                         \E j \in 1 .. Len(stack) : stack[j] = swaps[i].deck
  BY DEF Accounts
<1>1. i \in DOMAIN swaps /\ swaps[i] \in Swaps
  <2>1. i \in 1 .. Len(swaps)
    OBVIOUS
  <2> QED
    BY <2>1, ElementOfSeq
<1>2. swaps[i].deck \in Nat /\ swaps[i].deck <= last
  BY <1>1 DEF Accounts, Swaps
<1>3. PICK d \in Nat, n \in Nat : d = swaps[i].deck /\ n = Len(stack)
  BY <1>2
<1>4. (\E j \in 1 .. n : stack[j] = d) <=> (\E j \in 1 .. n - 1 : stack[j] = d)
  <2>1. ASSUME NEW j \in 1 .. n, stack[j] = d PROVE j \in 1 .. n - 1
    <3>1. j # n
      BY <1>2, <1>3, <2>1
    <3> QED
      BY <3>1
  <2>2. \A j \in 1 .. n - 1 : j \in 1 .. n
    OBVIOUS
  <2> QED
    BY <2>1, <2>2
<1>5. /\ swaps[i].outcome \in {"kept", "rolled_back"}
      /\ swaps[i].outcome = "kept" <=> \E j \in 1 .. n - 1 : stack[j] = d
  BY <1>3 DEF Accounts
<1>6. swaps[i].deck <= last + 1
  BY <1>2
<1> QED
  BY <1>3, <1>4, <1>5, <1>6

(* The swaps settled before the review are so by the whole stack, too.     *)
LEMMA UnderReview ==
  ASSUME IInv, DeckInv, pc \in Reviewing
  PROVE  /\ Accounts(progress.topology_swaps, SettledSwaps, versions, Len(versions), decks)
         /\ progress.topology_swaps \in Seq(Swaps)
         /\ SettledSwaps \in 0 .. Len(progress.topology_swaps)
<1>1. /\ progress.topology_swaps \in Seq(Swaps) /\ decks \in Nat /\ versions \in Seq(Nat)
      /\ Len(versions) >= 2 /\ versions[Len(versions)] = decks
      /\ SettledSwaps \in 0 .. Len(progress.topology_swaps)
  BY DEF IInv, TypeOK, Progress, StackInv, DeckInv, Top, SettledSwaps, SwapInv
<1>2. versions[1] \in Nat /\ versions[1] < decks
  BY <1>1 DEF DeckInv, Under
<1>3. PICK last : last = decks - 1
  OBVIOUS
<1>4. last \in Nat /\ versions[Len(versions)] = last + 1 /\ last + 1 = decks
  BY <1>1, <1>2, <1>3
<1>5. Accounts(progress.topology_swaps, SettledSwaps, versions, Len(versions) - 1, last)
  BY <1>3 DEF DeckInv, Under
<1> QED
  BY <1>1, <1>4, <1>5, NewerDeck

(* _final_result explains its deck if the stack accounts for every swap,   *)
(* or an error left the last one open.                                     *)
LEMMA ReturnExplains ==
  ASSUME IInv, DeckInv, NEW p \in Progress, NEW status, NEW reason, NEW verdict,
         Return(status, reason, p, verdict), NEW m \in 0 .. Len(p.topology_swaps),
         Accounts(p.topology_swaps, m, versions, Len(versions), decks),
         \A i \in DOMAIN p.topology_swaps :
           i <= m \/ (p.topology_swaps[i].outcome = "none" /\ reason = "error")
  PROVE  DeckInv'
<1>1. /\ UNCHANGED <<versions, decks, saved>> /\ pc' = "returned"
      /\ result'.topology_swaps = p.topology_swaps /\ result'.failure_reason = reason
  BY DEF Return
<1>2. /\ p.topology_swaps \in Seq(Swaps) /\ DOMAIN versions = 1 .. Len(versions)
  BY DEF Progress, IInv, TypeOK
<1>3. SwapsExplainTheDeck'
  <2> SUFFICES ASSUME NEW i \in DOMAIN p.topology_swaps
               PROVE LET swap == p.topology_swaps[i]
                         shipped == \E j \in DOMAIN versions : versions[j] = swap.deck
                     IN  /\ swap.outcome = "kept" => shipped
                         /\ swap.outcome = "rolled_back" => ~ shipped
                         /\ swap.outcome = "none" => reason = "error"
    BY <1>1 DEF SwapsExplainTheDeck
  <2>1. CASE i <= m
    <3>1. i \in 1 .. m
      BY <1>2, <2>1
    <3> QED
      BY <1>2, <3>1 DEF Accounts
  <2>2. CASE ~ (i <= m)
    BY <2>2
  <2> QED
    BY <2>1, <2>2
<1> QED
  BY <1>1, <1>3 DEF DeckInv, Made, Settles, Accounts, Reviewing

(* Noting the last swap's outcome settles it.                              *)
LEMMA LastSettled ==
  ASSUME NEW swaps \in Seq(Swaps), Len(swaps) >= 1, NEW outcome \in {"kept", "rolled_back"},
         NEW stack, NEW n, NEW last,
         Accounts(swaps, Len(swaps) - 1, stack, n, last), swaps[Len(swaps)].deck <= last,
         outcome = "kept" <=> \E j \in 1 .. n : stack[j] = swaps[Len(swaps)].deck,
         NEW after, after = [swaps EXCEPT ![Len(swaps)].outcome = outcome]
  PROVE  Accounts(after, Len(after), stack, n, last)
<1>1. /\ after \in Seq(Swaps) /\ DOMAIN after = DOMAIN swaps
      /\ \A i \in DOMAIN swaps : after[i].deck = swaps[i].deck
      /\ \A i \in DOMAIN swaps :
           after[i].outcome = IF i = Len(swaps) THEN outcome ELSE swaps[i].outcome
  BY NotedOutcome
<1>2. Len(after) = Len(swaps) /\ DOMAIN swaps = 1 .. Len(swaps) /\ Len(swaps) \in Nat
  BY <1>1
<1> SUFFICES ASSUME NEW i \in 1 .. Len(swaps)
             PROVE  /\ after[i].deck <= last
                    /\ after[i].outcome \in {"kept", "rolled_back"}
                    /\ after[i].outcome = "kept" <=> \E j \in 1 .. n : stack[j] = after[i].deck
  BY <1>2 DEF Accounts
<1>3. CASE i = Len(swaps)
  BY <1>1, <1>2, <1>3
<1>4. CASE i # Len(swaps)
  <2>1. i \in 1 .. Len(swaps) - 1 /\ after[i].deck = swaps[i].deck
        /\ after[i].outcome = swaps[i].outcome
    BY <1>1, <1>2, <1>4
  <2>2. /\ swaps[i].deck <= last
        /\ swaps[i].outcome \in {"kept", "rolled_back"}
        /\ swaps[i].outcome = "kept" <=> \E j \in 1 .. n : stack[j] = swaps[i].deck
    BY <2>1 DEF Accounts
  <2> QED
    BY <2>1, <2>2
<1> QED
  BY <1>3, <1>4

LEMMA ContinueSettles ==
  ASSUME IInv, DeckInv, NEW p \in Progress, NEW failed, Continue(p, failed),
         Made(versions', decks), Settles(p, versions', decks), pc # "returned"
  PROVE  DeckInv'
<1>1. /\ progress' = [p EXCEPT !.outer_iter = @ + 1] /\ pc' = "head"
      /\ UNCHANGED <<decks, result, saved>> /\ result = NoResult
  BY DEF Continue, IInv, StackInv
<1>2. progress'.topology_swaps = p.topology_swaps
  BY <1>1 DEF Progress
<1>3. Settles(progress, versions, decks)' /\ Made(versions, decks)'
  BY <1>1, <1>2 DEF Settles
<1> QED
  BY <1>1, <1>3 DEF DeckInv, Reviewing, SwapsExplainTheDeck

(* Dropping the deck under review takes no other deck away.                *)
LEMMA RolledBack ==
  ASSUME IInv, DeckInv, pc \in Reviewing, Rollback
  PROVE  /\ Made(versions', decks) /\ versions' \in Seq(Nat) /\ Len(versions') = Under
         /\ \A j \in 1 .. Under : versions'[j] = versions[j] /\ versions[j] < decks
         /\ \A swaps \in Seq(Swaps), m \in Nat :
              Accounts(swaps, m, versions, Under, decks - 1) /\ m <= Len(swaps)
                => Accounts(swaps, m, versions', Under, decks)
<1>1. versions \in Seq(Nat) /\ Len(versions) \in Nat /\ Len(versions) >= 2 /\ decks \in Nat
      /\ \A j \in 1 .. Under : versions[j] < decks
  BY DEF IInv, TypeOK, StackInv, DeckInv
<1>2. /\ versions' \in Seq(Nat) /\ Len(versions') = Under /\ DOMAIN versions' = 1 .. Under
      /\ \A j \in 1 .. Under : versions'[j] = versions[j] /\ versions[j] \in Nat
  BY <1>1, SubSeqProperties DEF Rollback, Under
<1>3. Made(versions', decks)
  <2> SUFFICES ASSUME NEW j \in 1 .. Under PROVE versions'[j] <= decks
    BY <1>2 DEF Made
  <2>1. versions'[j] \in Nat /\ versions'[j] < decks
    BY <1>1, <1>2
  <2> QED
    BY <1>1, <2>1
<1>4. ASSUME NEW swaps \in Seq(Swaps), NEW m \in Nat, m <= Len(swaps),
             Accounts(swaps, m, versions, Under, decks - 1)
      PROVE  Accounts(swaps, m, versions', Under, decks)
  <2>1. \A i \in 1 .. m : swaps[i].deck \in Nat
    <3>1. \A i \in 1 .. m : i \in 1 .. Len(swaps)
      BY <1>4
    <3>2. \A i \in 1 .. Len(swaps) : swaps[i] \in Swaps
      BY ElementOfSeq
    <3> QED
      BY <3>1, <3>2 DEF Swaps
  <2>2. \A i \in 1 .. m : swaps[i].deck <= decks - 1 => swaps[i].deck <= decks
    BY <1>1, <2>1
  <2> QED
    BY <1>2, <1>4, <2>2 DEF Accounts
<1> QED
  BY <1>1, <1>2, <1>3, <1>4

LEMMA ContinuingSettles == IInv /\ DeckInv /\ Continuing => DeckInv'
<1> SUFFICES ASSUME IInv, DeckInv, Continuing PROVE DeckInv'
  OBVIOUS
<1> DEFINE swaps == progress.topology_swaps
<1>1. /\ progress \in Progress /\ swaps \in Seq(Swaps) /\ Len(swaps) \in Nat /\ decks \in Nat
      /\ versions \in Seq(Nat) /\ Made(versions, decks)
      /\ progress.consecutive_rollbacks + 1 \in Nat
      /\ \A pass \in BOOLEAN : Verdict(Top, pass) \in Verdicts
  BY ProgressFacts DEF IInv, TypeOK, Progress, DeckInv
<1>2. CASE \E pass \in BOOLEAN : SwapRolledBack(pass)
  <2>1. PICK pass \in BOOLEAN : SwapRolledBack(pass)
    BY <1>2
  <2> DEFINE p == [Settled("rolled_back") EXCEPT !.judge_result = Verdict(Top, pass)]
             after == [swaps EXCEPT ![Len(swaps)].outcome = "rolled_back"]
  <2>2. pc = "review_swap" /\ Continue(p, FALSE) /\ Rollback
    BY <2>1 DEF SwapRolledBack
  <2>3. p \in Progress /\ p.topology_swaps = after
    BY <1>1, <2>2, SettledFacts DEF Progress
  <2>4. /\ Len(swaps) >= 1 /\ swaps[Len(swaps)].deck = decks
        /\ Accounts(swaps, Len(swaps) - 1, versions, Under, decks - 1)
    BY <2>2 DEF IInv, SwapInv, DeckInv, Reviewing, SettledSwaps
  <2>5. /\ Made(versions', decks) /\ Len(versions') = Under
        /\ \A j \in 1 .. Under : versions'[j] = versions[j] /\ versions[j] < decks
        /\ Accounts(swaps, Len(swaps) - 1, versions', Under, decks)
    <3>1. pc \in Reviewing /\ Len(swaps) - 1 \in Nat /\ Len(swaps) - 1 <= Len(swaps)
      BY <1>1, <2>2, <2>4 DEF Reviewing
    <3> HIDE DEF p, swaps
    <3> QED
      BY <1>1, <2>2, <2>4, <3>1, RolledBack
  <2>6. ~ \E j \in 1 .. Under : versions'[j] = swaps[Len(swaps)].deck
    BY <1>1, <2>4, <2>5
  <2>7. Accounts(after, Len(after), versions', Under, decks)
    <3>1. after = [swaps EXCEPT ![Len(swaps)].outcome = "rolled_back"] /\ decks <= decks
      BY <1>1
    <3> HIDE DEF p, swaps, after
    <3> QED
      BY <1>1, <2>4, <2>5, <2>6, <3>1, LastSettled
  <2>8. Settles(p, versions', decks)
    BY <2>3, <2>5, <2>7 DEF Settles
  <2> HIDE DEF p
  <2> QED
    BY <2>2, <2>3, <2>5, <2>8, ContinueSettles
<1>3. CASE SwapKept
  <2> DEFINE p == [Settled("kept") EXCEPT !.judge_result = Verdict(Top, FALSE)]
             after == [swaps EXCEPT ![Len(swaps)].outcome = "kept"]
  <2>1. pc = "review_swap" /\ Continue(p, FALSE) /\ UNCHANGED versions
    BY <1>3 DEF SwapKept
  <2>2. p \in Progress /\ p.topology_swaps = after
    BY <1>1, <2>1, SettledFacts DEF Progress
  <2>3. /\ Len(swaps) >= 1 /\ swaps[Len(swaps)].deck = decks /\ Len(versions) >= 1
        /\ versions[Len(versions)] = decks
        /\ Accounts(swaps, Len(swaps) - 1, versions, Len(versions), decks)
    BY <2>1, UnderReview DEF IInv, StackInv, SwapInv, DeckInv, Reviewing, SettledSwaps, Top
  <2>4. Accounts(after, Len(after), versions, Len(versions), decks)
    <3>1. after = [swaps EXCEPT ![Len(swaps)].outcome = "kept"] /\ decks <= decks
          /\ Len(versions) \in 1 .. Len(versions)
      BY <1>1, <2>3
    <3> HIDE DEF p, swaps, after
    <3> QED
      BY <1>1, <2>3, <3>1, LastSettled
  <2>5. Settles(p, versions', decks)
    BY <2>1, <2>2, <2>4 DEF Settles
  <2> HIDE DEF p
  <2> QED
    BY <1>1, <2>1, <2>2, <2>5, ContinueSettles
<1>4. CASE \E pass \in BOOLEAN : TuningRolledBack(pass)
  <2>1. PICK pass \in BOOLEAN : TuningRolledBack(pass)
    BY <1>4
  <2> DEFINE p == [progress EXCEPT !.consecutive_rollbacks = @ + 1,
                                   !.judge_result = Verdict(Top, pass)]
  <2>2. pc = "review_tune" /\ Continue(p, TRUE) /\ Rollback
    BY <2>1 DEF TuningRolledBack
  <2>3. p \in Progress /\ p.topology_swaps = swaps
    BY <1>1 DEF Progress
  <2>4. Accounts(swaps, Len(swaps), versions, Under, decks - 1)
    BY <2>2 DEF DeckInv, Reviewing, SettledSwaps
  <2>5. /\ Made(versions', decks) /\ Len(versions') = Under
        /\ Accounts(swaps, Len(swaps), versions', Under, decks)
    <3>1. pc \in Reviewing /\ Len(swaps) \in Nat /\ Len(swaps) <= Len(swaps)
      BY <1>1, <2>2 DEF Reviewing
    <3> HIDE DEF p, swaps
    <3> QED
      BY <1>1, <2>2, <2>4, <3>1, RolledBack
  <2>6. Settles(p, versions', decks)
    BY <2>3, <2>5 DEF Settles
  <2> HIDE DEF p
  <2> QED
    BY <2>2, <2>3, <2>5, <2>6, ContinueSettles
<1>5. CASE TuningKept
  <2> DEFINE p == [progress EXCEPT !.consecutive_rollbacks = 0,
                                   !.judge_result = Verdict(Top, FALSE)]
  <2>1. pc = "review_tune" /\ Continue(p, FALSE) /\ UNCHANGED versions
    BY <1>5 DEF TuningKept
  <2>2. p \in Progress /\ p.topology_swaps = swaps
    BY <1>1 DEF Progress
  <2>3. Settles(p, versions', decks)
    BY <2>1, <2>2, UnderReview DEF Settles, Reviewing, SettledSwaps
  <2> HIDE DEF p
  <2> QED
    BY <1>1, <2>1, <2>2, <2>3, ContinueSettles
<1>6. CASE ~ iteration.verify_pre_rejected_any /\ RetriesExhausted
  <2> DEFINE p == [progress EXCEPT !.consecutive_rollbacks = @ + 1]
  <2>1. pc = "tune" /\ Continue(p, TRUE) /\ UNCHANGED versions
    BY <1>6 DEF RetriesExhausted
  <2>2. p \in Progress /\ p.topology_swaps = swaps
    BY <1>1 DEF Progress
  <2>3. Settles(p, versions', decks)
    BY <2>1, <2>2 DEF DeckInv, Settles, Reviewing
  <2> HIDE DEF p
  <2> QED
    BY <1>1, <2>1, <2>2, <2>3, ContinueSettles
<1> QED
  BY <1>2, <1>3, <1>4, <1>5, <1>6 DEF Continuing

(* ... in particular when every swap is settled.                           *)
LEMMA AllSettledExplains ==
  ASSUME IInv, DeckInv, NEW p \in Progress, NEW status, NEW reason, NEW verdict,
         Return(status, reason, p, verdict), Settles(p, versions, decks)
  PROVE  DeckInv'
<1>1. /\ Len(p.topology_swaps) \in 0 .. Len(p.topology_swaps)
      /\ \A i \in DOMAIN p.topology_swaps : i <= Len(p.topology_swaps)
  BY DEF Progress
<1> QED
  BY <1>1, ReturnExplains DEF Settles

LEMMA ReturningExplains == IInv /\ DeckInv /\ Returning => DeckInv'
<1> SUFFICES ASSUME IInv, DeckInv, Returning PROVE DeckInv'
  OBVIOUS
<1> DEFINE swaps == progress.topology_swaps
<1>1. /\ progress \in Progress /\ swaps \in Seq(Swaps) /\ Len(swaps) \in Nat
      /\ DOMAIN swaps = 1 .. Len(swaps)
  BY DEF IInv, TypeOK, Progress
<1>2. pc \notin Reviewing \cup {"returned"} =>
        Accounts(swaps, Len(swaps), versions, Len(versions), decks)
  BY DEF DeckInv, Settles
<1>3. ASSUME NEW p \in Progress, NEW status, NEW reason, NEW verdict,
             Return(status, reason, p, verdict), pc \notin Reviewing \cup {"returned"},
             p.topology_swaps = swaps
      PROVE  DeckInv'
  BY <1>2, <1>3, AllSettledExplains DEF Settles
<1>4. CASE Exhausted
  BY <1>1, <1>3, <1>4 DEF Exhausted, Reviewing
<1>5. CASE EntrySimulationEmpty
  BY <1>1, <1>3, <1>5 DEF EntrySimulationEmpty, Reviewing
<1>6. CASE SimulationPasses
  <2>1. Judged(TRUE) \in Progress /\ Judged(TRUE).topology_swaps = swaps
    BY ProgressFacts DEF IInv
  <2>2. Return("PASS", "", Judged(TRUE), Verdict(Top, TRUE)) /\ pc = "simulate"
    BY <1>6 DEF SimulationPasses
  <2> QED
    BY <1>3, <2>1, <2>2 DEF Reviewing
<1>7. CASE SwapPasses
  <2> DEFINE p == Settled("kept")
             after == [swaps EXCEPT ![Len(swaps)].outcome = "kept"]
  <2>1. pc = "review_swap" /\ Return("PASS", "", p, Verdict(Top, TRUE))
    BY <1>7 DEF SwapPasses
  <2>7. pc = "review_swap"
    BY <2>1
  <2>2. p \in Progress /\ p.topology_swaps = after
    BY <1>1, <2>1, SettledFacts
  <2>3. /\ Len(swaps) >= 1 /\ swaps[Len(swaps)].deck = decks /\ decks \in Nat
        /\ Len(versions) \in 1 .. Len(versions) /\ versions[Len(versions)] = decks
        /\ Accounts(swaps, Len(swaps) - 1, versions, Len(versions), decks)
    BY <2>7, UnderReview DEF IInv, TypeOK, StackInv, SwapInv, DeckInv, Reviewing, SettledSwaps, Top
  <2>4. Accounts(after, Len(after), versions, Len(versions), decks)
    <3>1. after = [swaps EXCEPT ![Len(swaps)].outcome = "kept"] /\ decks <= decks
      BY <2>3
    <3> HIDE DEF swaps, after
    <3> QED
      BY <1>1, <2>3, <3>1, LastSettled
  <2>5. Settles(p, versions, decks)
    BY <2>2, <2>4 DEF Settles
  <2> HIDE DEF p
  <2> QED
    BY <2>1, <2>2, <2>5, AllSettledExplains
<1>8. CASE TuningPasses
  <2> DEFINE p == [progress EXCEPT !.consecutive_rollbacks = 0]
  <2>1. pc = "review_tune" /\ Return("PASS", "", p, Verdict(Top, TRUE))
    BY <1>8 DEF TuningPasses
  <2>2. p \in Progress /\ p.topology_swaps = swaps
    BY <1>1 DEF Progress
  <2>3. Settles(p, versions, decks)
    BY <2>1, <2>2, UnderReview DEF Reviewing, SettledSwaps, Settles
  <2> HIDE DEF p
  <2> QED
    BY <2>1, <2>2, <2>3, AllSettledExplains
<1>9. CASE Raises
  <2>1. Return("FAIL", "error", progress, progress.judge_result) /\ pc # "returned"
    BY <1>9 DEF Raises
  <2>2. CASE pc \notin Reviewing
    BY <1>1, <1>3, <2>1, <2>2
  <2>3. CASE pc = "review_tune"
    <3>1. Settles(progress, versions, decks)
      BY <2>3, UnderReview DEF Reviewing, SettledSwaps, Settles
    <3> QED
      BY <1>1, <2>1, <3>1, AllSettledExplains
  <2>4. CASE pc = "review_swap"
    <3>1. /\ Accounts(swaps, Len(swaps) - 1, versions, Len(versions), decks)
          /\ Len(swaps) - 1 \in 0 .. Len(swaps)
      BY <2>4, UnderReview DEF Reviewing, SettledSwaps
    <3>2. \A i \in DOMAIN swaps : i <= Len(swaps) - 1 \/ swaps[i].outcome = "none"
      <4>1. swaps[Len(swaps)].outcome = "none"
        BY <2>4 DEF DeckInv, Reviewing
      <4>2. \A i \in 1 .. Len(swaps) : i <= Len(swaps) - 1 \/ i = Len(swaps)
        BY <1>1
      <4> QED
        BY <1>1, <4>1, <4>2
    <3> HIDE DEF swaps
    <3> QED
      BY <1>1, <2>1, <3>1, <3>2, ReturnExplains DEF swaps
  <2> QED
    BY <2>2, <2>3, <2>4 DEF Reviewing
<1>10. CASE \E pair \in Pair : SwapRaises(pair)
  <2>1. PICK pair \in Pair : SwapRaises(pair)
    BY <1>10
  <2>2. pc = "topology" /\ pair \in iteration.candidates
    BY <2>1 DEF SwapRaises
  <2>3. PICK p \in {Trying(pair), Recording(pair, 0)} :
          Return("FAIL", "error", p, progress.judge_result)
    BY <2>1 DEF SwapRaises
  <2>4. p \in Progress
    BY <2>2, <2>3, TryingFacts
  <2>5. Trying(pair).topology_swaps = swaps
    BY <1>1 DEF Trying, Progress
  <2>6. CASE p = Trying(pair)
    BY <1>3, <2>2, <2>3, <2>4, <2>5, <2>6 DEF Reviewing
  <2>7. CASE p = Recording(pair, 0)
    <3> DEFINE swap == [pair |-> pair, deck |-> 0, outcome |-> "none"]
    <3>1. p.topology_swaps = Append(swaps, swap)
      <4>1. Trying(pair) \in Progress
        BY <2>2, TryingFacts
      <4> QED
        BY <2>5, <2>7, <4>1 DEF Recording, Progress
    <3>2. /\ Len(swaps) \in 0 .. Len(p.topology_swaps)
          /\ DOMAIN p.topology_swaps = 1 .. Len(swaps) + 1
          /\ p.topology_swaps[Len(swaps) + 1] = swap
          /\ \A i \in 1 .. Len(swaps) : p.topology_swaps[i] = swaps[i]
      BY <1>1, <3>1
    <3>3. \A i \in 1 .. Len(swaps) + 1 : i <= Len(swaps) \/ i = Len(swaps) + 1
      BY <1>1
    <3>4. Accounts(p.topology_swaps, Len(swaps), versions, Len(versions), decks)
      BY <1>2, <2>2, <3>2 DEF Accounts, Reviewing
    <3>5. \A i \in DOMAIN p.topology_swaps :
            i <= Len(swaps) \/ p.topology_swaps[i].outcome = "none"
      BY <3>2, <3>3
    <3> HIDE DEF swaps, swap
    <3> QED
      BY <2>3, <2>4, <3>2, <3>4, <3>5, ReturnExplains
  <2> QED
    BY <2>3, <2>6, <2>7
<1>11. CASE pc = "tune" /\ iteration.verify_pre_rejected_any /\ RetriesExhausted
  <2>1. Return("FAIL", "tuning proposal repeatedly rejected", progress, progress.judge_result)
    BY <1>11 DEF RetriesExhausted
  <2> QED
    BY <1>1, <1>3, <1>11, <2>1 DEF Reviewing
<1> QED
  BY <1>4, <1>5, <1>6, <1>7, <1>8, <1>9, <1>10, <1>11 DEF Returning

LEMMA PushingSettles ==
  IInv /\ DeckInv /\ (Apply \/ \E pair \in Pair : Swap(pair)) => DeckInv'
<1> SUFFICES ASSUME IInv, DeckInv, Apply \/ \E pair \in Pair : Swap(pair) PROVE DeckInv'
  OBVIOUS
<1> DEFINE swaps == progress.topology_swaps
<1>1. /\ progress \in Progress /\ swaps \in Seq(Swaps) /\ Len(swaps) \in Nat
      /\ DOMAIN swaps = 1 .. Len(swaps)
      /\ versions \in Seq(Nat) /\ Len(versions) \in Nat /\ decks \in Nat
      /\ Accounts(swaps, Len(swaps), versions, Len(versions), decks)
      /\ \A i \in 1 .. Len(versions) : versions[i] <= decks
      /\ result = NoResult
  BY DEF IInv, TypeOK, Progress, StackInv, DeckInv, Settles, Made, Reviewing, Apply, Swap
<1>2. /\ Len(versions') = Len(versions) + 1 /\ versions'[Len(versions) + 1] = decks + 1
      /\ \A j \in 1 .. Len(versions) : versions'[j] = versions[j]
      /\ DOMAIN versions' = 1 .. Len(versions) + 1
      /\ decks' = decks + 1 /\ UNCHANGED <<saved, result>>
  <2>1. /\ versions' = Append(versions, decks + 1) /\ decks' = decks + 1
        /\ UNCHANGED <<saved, result>>
    BY DEF Apply, Swap, Push, GoTo
  <2>2. PICK stack \in Seq(Nat), d \in Nat : stack = versions /\ d = decks + 1
    BY <1>1
  <2>3. /\ Len(Append(stack, d)) = Len(stack) + 1 /\ Append(stack, d)[Len(stack) + 1] = d
        /\ \A j \in 1 .. Len(stack) : Append(stack, d)[j] = stack[j]
        /\ DOMAIN Append(stack, d) = 1 .. Len(stack) + 1
    OBVIOUS
  <2> QED
    BY <2>1, <2>2, <2>3
<1>3. Made(versions, decks)'
  <2>1. \A i \in 1 .. Len(versions) + 1 : i \in 1 .. Len(versions) \/ i = Len(versions) + 1
    BY <1>1
  <2>2. \A i \in 1 .. Len(versions) : versions[i] \in Nat
    BY <1>1
  <2> QED
    BY <1>1, <1>2, <2>1, <2>2 DEF Made
<1>4. Top' = decks' /\ Under' = Len(versions) /\ \A i \in 1 .. Under' : versions'[i] < decks'
  <2>1. \A i \in 1 .. Len(versions) : versions[i] \in Nat
    BY <1>1
  <2> QED
    BY <1>1, <1>2, <2>1 DEF Top, Under
<1>5. Accounts(swaps, Len(swaps), versions', Under', decks' - 1)
  BY <1>1, <1>2, <1>4 DEF Accounts
<1>6. saved' # NoSave =>
        Made(saved'.versions, decks') /\ Settles(saved'.progress, saved'.versions, decks')
  <2> SUFFICES ASSUME saved # NoSave
               PROVE  Made(saved.versions, decks + 1)
                      /\ Settles(saved.progress, saved.versions, decks + 1)
    BY <1>2
  <2>1. /\ saved.versions \in Seq(Nat) /\ saved.progress.topology_swaps \in Seq(Swaps)
        /\ Made(saved.versions, decks) /\ Settles(saved.progress, saved.versions, decks)
    BY DEF IInv, TypeOK, NoSave, Saves, Progress, DeckInv
  <2>2. PICK old : old = saved.progress.topology_swaps
    OBVIOUS
  <2>3. \A i \in 1 .. Len(old) : old[i].deck \in Nat
    <3>1. \A i \in 1 .. Len(old) : old[i] \in Swaps
      BY <2>1, <2>2, ElementOfSeq
    <3> QED
      BY <3>1 DEF Swaps
  <2>4. \A i \in 1 .. Len(old) : old[i].deck <= decks => old[i].deck <= decks + 1
    BY <1>1, <2>3
  <2>5. Settles(saved.progress, saved.versions, decks + 1)
    BY <2>1, <2>2, <2>4 DEF Settles, Accounts
  <2>6. Made(saved.versions, decks + 1)
    BY <1>1, <2>1 DEF Made
  <2> QED
    BY <2>5, <2>6
<1>7. CASE Apply
  <2>1. pc' = "review_tune" /\ UNCHANGED progress
    BY <1>7 DEF Apply, GoTo
  <2>2. SettledSwaps' = Len(swaps)
    BY <2>1 DEF SettledSwaps
  <2> QED
    BY <1>1, <1>2, <1>3, <1>4, <1>5, <1>6, <2>1, <2>2
       DEF DeckInv, Reviewing, SwapsExplainTheDeck
<1>8. CASE \E pair \in Pair : Swap(pair)
  <2>1. PICK pair \in Pair : Swap(pair)
    BY <1>8
  <2> DEFINE swap == [pair |-> pair, deck |-> decks + 1, outcome |-> "none"]
  <2>2. pc' = "review_swap" /\ progress' = Recording(pair, decks + 1)
        /\ pc = "topology" /\ pair \in iteration.candidates
    BY <2>1 DEF Swap, GoTo
  <2>3. progress'.topology_swaps = Append(swaps, swap)
    <3>1. Trying(pair) \in Progress /\ Trying(pair).topology_swaps = swaps
      BY <1>1, <2>2, TryingFacts DEF Trying, Progress
    <3> QED
      BY <2>2, <3>1 DEF Recording, Progress
  <2>4. /\ Len(progress'.topology_swaps) = Len(swaps) + 1
        /\ progress'.topology_swaps[Len(swaps) + 1] = swap
        /\ \A i \in 1 .. Len(swaps) : progress'.topology_swaps[i] = swaps[i]
    BY <1>1, <2>3
  <2>5. SettledSwaps' = Len(swaps)
    BY <1>1, <2>2, <2>4 DEF SettledSwaps
  <2>6. Accounts(progress'.topology_swaps, SettledSwaps', versions', Under', decks' - 1)
    BY <1>5, <2>4, <2>5 DEF Accounts
  <2> QED
    BY <1>1, <1>2, <1>3, <1>4, <1>6, <2>2, <2>4, <2>6
       DEF DeckInv, Reviewing, SwapsExplainTheDeck
<1> QED
  BY <1>7, <1>8

LEMMA DeckStep == IInv /\ DeckInv /\ [Next]_vars => DeckInv'
<1> SUFFICES ASSUME IInv, DeckInv, [Next]_vars PROVE DeckInv'
  OBVIOUS
<1>1. progress \in Progress
  BY DEF IInv, TypeOK
<1>2. CASE UNCHANGED vars
  BY <1>2 DEF vars, DeckInv, Made, Settles, Accounts, Under, SettledSwaps, Top,
     SwapsExplainTheDeck
<1>3. CASE LoopHead
  <2>1. /\ pc = "head" /\ pc' = "simulate" /\ UNCHANGED <<versions, decks, progress, result>>
        /\ saved'.progress = progress /\ saved'.versions = versions
    BY <1>3 DEF LoopHead, memory
  <2>2. Made(versions, decks) /\ Settles(progress, versions, decks)
    BY <2>1 DEF DeckInv, Reviewing
  <2> QED
    BY <2>1, <2>2 DEF DeckInv, Made, Settles, Accounts, Reviewing, SwapsExplainTheDeck
<1>4. CASE Returning
  BY <1>4, ReturningExplains
<1>5. CASE Continuing
  BY <1>5, ContinuingSettles
<1>6. CASE Apply \/ \E pair \in Pair : Swap(pair)
  BY <1>6, PushingSettles
<1>7. CASE \/ SimulationFails \/ TopologyUnavailable \/ ProposalUnresolved \/ NothingApproved
           \/ \E candidates \in SUBSET Pair : TopologyCandidates(candidates)
           \/ \E approved \in BOOLEAN : VerifyPre(approved)
           \/ \E gated \in Gated, unchanged \in BOOLEAN : Tune(gated, unchanged)
  <2>1. /\ pc \notin Reviewing \cup {"returned"} /\ pc' \notin Reviewing \cup {"returned"}
        /\ UNCHANGED <<versions, decks, saved, result>>
    BY <1>7 DEF SimulationFails, TopologyUnavailable, ProposalUnresolved, NothingApproved,
       TopologyCandidates, VerifyPre, Tune, GoTo, memory, Reviewing
  <2>2. progress'.topology_swaps = progress.topology_swaps
    BY <1>1, <1>7 DEF SimulationFails, TopologyUnavailable, ProposalUnresolved, NothingApproved,
       TopologyCandidates, VerifyPre, Tune, memory, Judged, Progress
  <2> QED
    BY <2>1, <2>2 DEF DeckInv, Made, Settles, Accounts, SwapsExplainTheDeck
<1>8. CASE Resume
  BY <1>8 DEF Resume, DeckInv, Reviewing, Made, Settles, Accounts, SwapsExplainTheDeck
<1>9. CASE RetriesExhausted
  <2>1. pc = "tune"
    BY <1>9 DEF RetriesExhausted
  <2> QED
    BY <1>4, <1>5, <1>9, <2>1 DEF Returning, Continuing
<1> QED
  BY <1>2, <1>3, <1>4, <1>5, <1>6, <1>7, <1>8, <1>9
     DEF Next, Loop, Escalating, Tuning, Returning, Continuing

(* The swap records a run returns with explain its deck, through every     *)
(* rollback and resume (orchestrator.py:131-137).                          *)
THEOREM SwapRecordsExplainTheDeck == Spec => []SwapsExplainTheDeck
<1>1. Init => DeckInv
  BY DEF Init, DeckInv, Made, Settles, Accounts, Reviewing, SwapsExplainTheDeck, NoSave, NoResult
<1>2. IInv /\ DeckInv /\ [Next]_vars => DeckInv'
  BY DeckStep
<1>3. DeckInv => SwapsExplainTheDeck
  BY DEF DeckInv
<1> QED
  BY <1>1, <1>2, <1>3, Always, PTL DEF Spec
=============================================================================
