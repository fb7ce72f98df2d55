--------------------------- MODULE Orchestration ---------------------------
(***************************************************************************)
(* One call of run_orchestration (orchestrator.py): the outer loop that    *)
(* simulates and judges the deck, escalates to a topology swap after       *)
(* enough failed iterations, and otherwise asks the tuner for a change,    *)
(* gates and reviews its alternatives, applies one and keeps or drops it.  *)
(*                                                                         *)
(* The agents (simulator, tuner, verifier) are external: what they answer  *)
(* is nondeterministic and every call may raise.  A process that dies is   *)
(* resumed from the loop's last checkpoint (RunDirectory says why that is  *)
(* all or nothing).  A deck is a serial number, one per text ever pushed.  *)
(***************************************************************************)
EXTENDS Integers, Sequences, FiniteSets

CONSTANTS
  MaxOuterIterations,       \* MAX_OUTER_ITERATIONS
  MaxTuningRetries,         \* MAX_TUNING_RETRIES, for the tuner and for the swap target
  TopologySwitchThreshold,  \* TOPOLOGY_SWITCH_THRESHOLD
  MaxAlternatives,          \* alternatives.MAX_ALTERNATIVES
  Pair,                     \* (block_path, topology_id) pairs of the library
  Gate,                     \* reasons of the deterministic gates (_hard_gates)
  MaxResumes                \* bound: process deaths explored

ASSUME BoundAssumption ==
  /\ {MaxOuterIterations, MaxTuningRetries, TopologySwitchThreshold, MaxAlternatives}
       \subseteq Nat \ {0}
  /\ MaxResumes \in Nat
  /\ {"ok", "verify_pre"} \cap Gate = {}

VARIABLES
  versions,          \* the stack of decks, the entry deck first
  decks,             \* decks made so far
  progress,          \* LoopProgress, what a checkpoint carries
  iteration,         \* locals of the iteration, and its events
  first_simulation,
  outcomes,          \* how each iteration behind this one ended
  pc,
  result,            \* what run_orchestration returned
  saved,             \* the last checkpoint
  resumes

vars == <<versions, decks, progress, iteration, first_simulation, outcomes, pc,
          result, saved, resumes>>
memory == <<versions, decks, progress, outcomes>>

NoVerdict == [deck |-> 0, pass |-> FALSE]
NoResult == [status |-> "none"]
NoSave == [outer_iter |-> 0]

NewIteration ==
  [retry |-> 1,
   candidates |-> {},            \* swap targets offered to propose_topology
   escalated |-> FALSE,          \* propose_topology has been asked
   surviving |-> {},             \* alternatives past the gates, not yet reviewed
   approved_alts |-> {},
   unchanged |-> FALSE,          \* this retry's primary proposal changes nothing
   verify_pre_rejected_any |-> FALSE,
   rejections |-> {},            \* (retry, reason) pairs in tuning_history
   reviews |-> {}]               \* (retry, approved) pairs of the verify_pre events

Top == versions[Len(versions)]
Verdict(deck, pass) == [deck |-> deck, pass |-> pass]
Patience == progress.consecutive_rollbacks >= TopologySwitchThreshold

Init ==
  /\ versions = <<1>> /\ decks = 1
  /\ progress = [outer_iter |-> 1, judge_result |-> NoVerdict,
                 consecutive_rollbacks |-> 0, tried_topologies |-> {},
                 topology_swaps |-> <<>>]
  /\ iteration = NewIteration
  /\ first_simulation = TRUE
  /\ outcomes = <<>>
  /\ pc = "head"
  /\ result = NoResult
  /\ saved = NoSave
  /\ resumes = 0

-----------------------------------------------------------------------------
(* _final_result: the deck returned is the one on top of the stack, the    *)
(* criteria are those of the verdict it is handed.                         *)
ReturnEntryDeck(status, reason, p, final_criteria) ==   \* mutant
  /\ result' = [status |-> status, failure_reason |-> reason, deck |-> versions[1],
                final_criteria |-> final_criteria, topology_swaps |-> p.topology_swaps]
  /\ progress' = p
  /\ pc' = "returned"
  /\ UNCHANGED <<versions, decks, outcomes, saved, resumes>>
Return(status, reason, p, final_criteria) ==
  /\ result' = [status |-> status, failure_reason |-> reason, deck |-> Top,
                final_criteria |-> final_criteria, topology_swaps |-> p.topology_swaps]
  /\ progress' = p
  /\ pc' = "returned"
  /\ UNCHANGED <<versions, decks, outcomes, saved, resumes>>

(* The iteration is over; the loop goes back to its head with progress p.  *)
Continue(p, failed) ==
  /\ progress' = [p EXCEPT !.outer_iter = @ + 1]
  /\ outcomes' = Append(outcomes, [failed |-> failed, escalated |-> iteration.escalated])
  /\ pc' = "head"
  /\ UNCHANGED <<decks, result, saved, resumes>>

Push == versions' = Append(versions, decks + 1) /\ decks' = decks + 1
Rollback == versions' = SubSeq(versions, 1, Len(versions) - 1)

GoTo(place) == pc' = place /\ UNCHANGED <<result, saved, resumes>>

-----------------------------------------------------------------------------
(* The head of the loop: a checkpoint before the iteration does anything.  *)
LoopHeadKeepsRefusals ==   \* mutant: verify_pre_rejected_any set before the loop
  /\ pc = "head" /\ progress.outer_iter <= MaxOuterIterations
  /\ saved' = [versions |-> versions, progress |-> progress, outcomes |-> outcomes]
  /\ iteration' = [NewIteration EXCEPT
                     !.verify_pre_rejected_any = iteration.verify_pre_rejected_any]
  /\ pc' = "simulate"
  /\ UNCHANGED <<memory, first_simulation, result, resumes>>
LoopHead ==
  /\ pc = "head" /\ progress.outer_iter <= MaxOuterIterations
  /\ saved' = [versions |-> versions, progress |-> progress, outcomes |-> outcomes]
  /\ iteration' = NewIteration
  /\ pc' = "simulate"
  /\ UNCHANGED <<memory, first_simulation, result, resumes>>

Exhausted ==
  /\ pc = "head" /\ progress.outer_iter > MaxOuterIterations
  /\ Return("FAIL", "max iterations reached", progress, progress.judge_result)
  /\ UNCHANGED <<iteration, first_simulation>>

(* The first simulation of the call measures nothing at all.               *)
EntrySimulationEmpty ==
  /\ pc = "simulate" /\ first_simulation
  /\ Return("FAIL", "entry simulation empty", progress, NoVerdict)
  /\ UNCHANGED <<iteration, first_simulation>>

JudgedOnce(pass) ==   \* mutant: the verdict carried over is trusted
  IF progress.judge_result = NoVerdict
    THEN [progress EXCEPT !.judge_result = Verdict(Top, pass)]
    ELSE progress
Judged(pass) == [progress EXCEPT !.judge_result = Verdict(Top, pass)]

SimulationPasses ==
  /\ pc = "simulate"
  /\ first_simulation' = FALSE
  /\ Return("PASS", "", Judged(TRUE), Verdict(Top, TRUE))
  /\ UNCHANGED iteration

SimulationFails ==
  /\ pc = "simulate"
  /\ first_simulation' = FALSE
  /\ progress' = Judged(FALSE)
  /\ GoTo(IF Patience THEN "escalate" ELSE "tune")
  /\ UNCHANGED <<versions, decks, outcomes, iteration>>

-----------------------------------------------------------------------------
(* Escalation.  compatible_swaps derives the pairs that fit the current    *)
(* deck and have not been tried; with none the iteration goes on tuning.   *)
TopologyUnavailable ==
  /\ pc = "escalate"
  /\ GoTo("tune")
  /\ UNCHANGED <<memory, iteration, first_simulation>>

TopologyCandidates(candidates) ==
  /\ pc = "escalate"
  /\ candidates # {} /\ candidates \cap progress.tried_topologies = {}
  /\ iteration' = [iteration EXCEPT !.candidates = candidates, !.escalated = TRUE]
  /\ GoTo("topology")
  /\ UNCHANGED <<memory, first_simulation>>

(* A proposal that names no candidate, or more than one, is asked again;   *)
(* after the last retry the counter starts over and the iteration tunes.   *)
ProposalUnresolved ==
  /\ pc = "topology"
  /\ IF iteration.retry < MaxTuningRetries
       THEN /\ iteration' = [iteration EXCEPT !.retry = @ + 1]
            /\ UNCHANGED progress
            /\ GoTo("topology")
       ELSE /\ iteration' = [iteration EXCEPT !.retry = 1]
            /\ progress' = [progress EXCEPT !.consecutive_rollbacks = 0]
            /\ GoTo("tune")
  /\ UNCHANGED <<versions, decks, outcomes, first_simulation>>

TryingAgain(pair) == progress   \* mutant: the pair is not remembered
Trying(pair) ==
  [progress EXCEPT !.tried_topologies = @ \cup {pair}]
Recording(pair, deck) ==
  [Trying(pair) EXCEPT !.topology_swaps =
     Append(@, [pair |-> pair, deck |-> deck, outcome |-> "none"])]

Swap(pair) ==
  /\ pc = "topology" /\ pair \in iteration.candidates
  /\ progress' = Recording(pair, decks + 1)
  /\ Push
  /\ GoTo("review_swap")
  /\ UNCHANGED <<outcomes, iteration, first_simulation>>

(* apply_topology_swap raises, or the push does: the pair counts as tried, *)
(* and in the second case its record is already in the list.               *)
SwapRaises(pair) ==
  /\ pc = "topology" /\ pair \in iteration.candidates
  /\ \E p \in {Trying(pair), Recording(pair, 0)} :
       Return("FAIL", "error", p, progress.judge_result)
  /\ UNCHANGED <<iteration, first_simulation>>

SettledAsKept(outcome) ==   \* mutant: the outcome is noted before the review
  [progress EXCEPT !.topology_swaps[Len(progress.topology_swaps)].outcome = "kept",
                   !.consecutive_rollbacks = 0]
SettledStillCounting(outcome) ==   \* mutant: a swap leaves the counter alone
  [progress EXCEPT !.topology_swaps[Len(progress.topology_swaps)].outcome = outcome]

Settled(outcome) ==
  [progress EXCEPT !.topology_swaps[Len(progress.topology_swaps)].outcome = outcome,
                   !.consecutive_rollbacks = 0]

(* The swapped deck is simulated, judged and reviewed by verify_post.      *)
SwapRolledBack(pass) ==
  /\ pc = "review_swap"
  /\ Rollback
  /\ Continue([Settled("rolled_back") EXCEPT !.judge_result = Verdict(Top, pass)], FALSE)
  /\ UNCHANGED <<iteration, first_simulation>>

SwapKept ==
  /\ pc = "review_swap"
  /\ Continue([Settled("kept") EXCEPT !.judge_result = Verdict(Top, FALSE)], FALSE)
  /\ UNCHANGED <<versions, iteration, first_simulation>>

SwapPasses ==
  /\ pc = "review_swap"
  /\ Return("PASS", "", Settled("kept"), Verdict(Top, TRUE))
  /\ UNCHANGED <<iteration, first_simulation>>

-----------------------------------------------------------------------------
(* Tuning.  normalize lists the primary proposal, which may change nothing,*)
(* and its alternatives, which may not; the gates drop some, each for a    *)
(* reason that _record_rejected notes once per change.                     *)
Tune(gated, unchanged) ==
  /\ pc = "tune" /\ iteration.retry <= MaxTuningRetries
  /\ unchanged => gated[1] = "ok"
  /\ LET surviving == {a \in DOMAIN gated : gated[a] = "ok"}
         reasons == {gated[a] : a \in DOMAIN gated} \ {"ok"}
     IN  /\ iteration' =
              [iteration EXCEPT
                 !.surviving = surviving,
                 !.approved_alts = {},
                 !.unchanged = unchanged,
                 !.rejections = @ \cup ({iteration.retry} \X reasons),
                 !.retry = IF surviving = {} THEN @ + 1 ELSE @]
         /\ GoTo(IF surviving = {} THEN "tune" ELSE "verify_pre")
  /\ UNCHANGED <<memory, first_simulation>>

(* verify_pre reviews the survivors one by one, before anything is         *)
(* measured.  The rejection of a proposal without changes leaves no entry. *)
VerifyPre(approved) ==
  /\ pc = "verify_pre" /\ iteration.surviving # {}
  /\ \E alt \in iteration.surviving :
       /\ \A other \in iteration.surviving : alt <= other
       /\ LET silent == approved \/ (alt = 1 /\ iteration.unchanged)
              noted == IF silent THEN {} ELSE {<<iteration.retry, "verify_pre">>}
          IN iteration' =
               [iteration EXCEPT
                  !.surviving = @ \ {alt},
                  !.approved_alts = IF approved THEN @ \cup {alt} ELSE @,
                  !.verify_pre_rejected_any = @ \/ ~ approved,
                  !.rejections = @ \cup noted,
                  !.reviews = @ \cup {<<iteration.retry, approved>>}]
  /\ GoTo("verify_pre")
  /\ UNCHANGED <<memory, first_simulation>>

NothingApprovedForFree ==   \* mutant: a refused proposal costs no retry
  /\ pc = "verify_pre" /\ iteration.surviving = {} /\ iteration.approved_alts = {}
  /\ GoTo("tune")
  /\ UNCHANGED <<memory, iteration, first_simulation>>
NothingApproved ==
  /\ pc = "verify_pre" /\ iteration.surviving = {} /\ iteration.approved_alts = {}
  /\ iteration' = [iteration EXCEPT !.retry = @ + 1]
  /\ GoTo("tune")
  /\ UNCHANGED <<memory, first_simulation>>

(* One approved alternative is applied; several are measured first and     *)
(* alternatives.select picks one.                                          *)
Apply ==
  /\ pc = "verify_pre" /\ iteration.surviving = {} /\ iteration.approved_alts # {}
  /\ Push
  /\ GoTo("review_tune")
  /\ UNCHANGED <<progress, outcomes, iteration, first_simulation>>

RetriesExhausted ==
  /\ pc = "tune" /\ iteration.retry > MaxTuningRetries
  /\ IF iteration.verify_pre_rejected_any
       THEN Return("FAIL", "tuning proposal repeatedly rejected", progress,
                   progress.judge_result)
       ELSE /\ Continue([progress EXCEPT !.consecutive_rollbacks = @ + 1], TRUE)
            /\ UNCHANGED versions
  /\ UNCHANGED <<iteration, first_simulation>>

(* The tuned deck is simulated, judged and reviewed by verify_post.        *)
TuningRolledBackUncounted(pass) ==   \* mutant: the counter runs the other way
  /\ pc = "review_tune"
  /\ Rollback
  /\ Continue([progress EXCEPT !.consecutive_rollbacks = @ - 1,
                               !.judge_result = Verdict(Top, pass)], TRUE)
  /\ UNCHANGED <<iteration, first_simulation>>
TuningRolledBack(pass) ==
  /\ pc = "review_tune"
  /\ Rollback
  /\ Continue([progress EXCEPT !.consecutive_rollbacks = @ + 1,
                               !.judge_result = Verdict(Top, pass)], TRUE)
  /\ UNCHANGED <<iteration, first_simulation>>

TuningKept ==
  /\ pc = "review_tune"
  /\ Continue([progress EXCEPT !.consecutive_rollbacks = 0,
                               !.judge_result = Verdict(Top, FALSE)], FALSE)
  /\ UNCHANGED <<versions, iteration, first_simulation>>

TuningPasses ==
  /\ pc = "review_tune"
  /\ Return("PASS", "", [progress EXCEPT !.consecutive_rollbacks = 0], Verdict(Top, TRUE))
  /\ UNCHANGED <<iteration, first_simulation>>

-----------------------------------------------------------------------------
(* An agent call, a netlist operation or a file operation raises: the loop *)
(* ends, the stack and judge_result are what they are.                     *)
Raises ==
  /\ \/ pc \in {"simulate", "escalate", "topology", "verify_pre", "review_swap",
                "review_tune"}
     \/ pc = "head" /\ progress.outer_iter <= MaxOuterIterations
     \/ pc = "tune" /\ iteration.retry <= MaxTuningRetries
  /\ Return("FAIL", "error", progress, progress.judge_result)
  /\ UNCHANGED <<iteration, first_simulation>>

(* The process dies and is resumed from the checkpoint.                    *)
Resume ==
  /\ saved # NoSave /\ resumes < MaxResumes
  /\ versions' = saved.versions
  /\ progress' = saved.progress
  /\ outcomes' = saved.outcomes
  /\ iteration' = NewIteration
  /\ first_simulation' = TRUE
  /\ pc' = "head"
  /\ result' = NoResult
  /\ resumes' = resumes + 1
  /\ UNCHANGED <<decks, saved>>

-----------------------------------------------------------------------------
Gated == UNION {[1 .. n -> Gate \cup {"ok"}] : n \in 1 .. MaxAlternatives}

Escalating ==
  \/ TopologyUnavailable \/ ProposalUnresolved
  \/ \E candidates \in SUBSET Pair : TopologyCandidates(candidates)
  \/ \E pair \in Pair : Swap(pair) \/ SwapRaises(pair)
  \/ \E pass \in BOOLEAN : SwapRolledBack(pass)
  \/ SwapKept \/ SwapPasses

Tuning ==
  \/ \E gated \in Gated, unchanged \in BOOLEAN : Tune(gated, unchanged)
  \/ \E approved \in BOOLEAN : VerifyPre(approved)
  \/ NothingApproved \/ Apply \/ RetriesExhausted
  \/ \E pass \in BOOLEAN : TuningRolledBack(pass)
  \/ TuningKept \/ TuningPasses

Loop ==
  \/ LoopHead \/ Exhausted \/ EntrySimulationEmpty \/ SimulationPasses \/ SimulationFails
  \/ Escalating \/ Tuning \/ Raises

Next == Loop \/ Resume

Spec == Init /\ [][Next]_vars

(* Every await returns or raises, so the loop keeps moving.                *)
FairSpec == Spec /\ WF_vars(Loop)

-----------------------------------------------------------------------------
(* Properties.                                                             *)

Verdicts == [deck : Nat, pass : BOOLEAN]
Swaps == [pair : Pair, deck : Nat, outcome : {"none", "kept", "rolled_back"}]
Progress == [outer_iter : Nat, judge_result : Verdicts, consecutive_rollbacks : Nat,
             tried_topologies : SUBSET Pair, topology_swaps : Seq(Swaps)]
Iterations ==
  [retry : Nat, candidates : SUBSET Pair, escalated : BOOLEAN,
   surviving : SUBSET (1 .. MaxAlternatives), approved_alts : SUBSET (1 .. MaxAlternatives),
   unchanged : BOOLEAN, verify_pre_rejected_any : BOOLEAN,
   rejections : SUBSET (Nat \X (Gate \cup {"verify_pre"})),
   reviews : SUBSET (Nat \X BOOLEAN)]
Outcomes == Seq([failed : BOOLEAN, escalated : BOOLEAN])
Saves == [versions : Seq(Nat), progress : Progress, outcomes : Outcomes]
Reasons == {"", "entry simulation empty", "tuning proposal repeatedly rejected",
            "max iterations reached", "error"}
Results == [status : {"PASS", "FAIL"}, failure_reason : Reasons, deck : Nat,
            final_criteria : Verdicts, topology_swaps : Seq(Swaps)]
Places == {"head", "simulate", "escalate", "topology", "review_swap", "tune",
           "verify_pre", "review_tune", "returned"}

TypeOK ==
  /\ versions \in Seq(Nat) /\ decks \in Nat
  /\ progress \in Progress
  /\ iteration \in Iterations
  /\ first_simulation \in BOOLEAN
  /\ outcomes \in Outcomes
  /\ pc \in Places
  /\ result \in {NoResult} \cup Results
  /\ saved \in {NoSave} \cup Saves
  /\ resumes \in Nat

(* A PASS is a passing verdict on the very deck that is returned, whatever *)
(* was swapped, rolled back or resumed before (orchestrator.py:492-495,    *)
(* 729-734, 1028-1031).                                                    *)
PassDescribesItsDeck ==
  result # NoResult /\ result.status = "PASS" =>
    /\ result.final_criteria = Verdict(result.deck, TRUE)
    /\ result.deck = Top

(* judge_result goes stale when a deck is rolled back (orchestrator.py:726,*)
(* 1023), but never when it is used: the swap and tuning agents are shown  *)
(* the failing verdict on the deck they change, and verify_post compares   *)
(* it with the deck under the pushed one.                                  *)
VerdictsCompareNeighbours ==
  /\ pc \in {"escalate", "topology", "tune", "verify_pre"} =>
       progress.judge_result = Verdict(Top, FALSE)
  /\ pc \in {"review_swap", "review_tune"} =>
       progress.judge_result = Verdict(versions[Len(versions) - 1], FALSE)

(* topology_swaps explains the returned deck (orchestrator.py:131-137): a  *)
(* kept swap is in it, a rolled back one is not, and nothing is left open  *)
(* by a run that did not stop on an error.                                 *)
SwapsExplainTheDeck ==
  result # NoResult =>
    \A i \in DOMAIN result.topology_swaps :
      LET swap == result.topology_swaps[i]
          shipped == \E j \in DOMAIN versions : versions[j] = swap.deck
      IN  /\ swap.outcome = "kept" => shipped
          /\ swap.outcome = "rolled_back" => ~ shipped
          /\ swap.outcome = "none" => result.failure_reason = "error"

(* A (block, topology) pair is swapped in at most once, whether it was     *)
(* kept or not and however often the run is resumed (orchestrator.py:391,  *)
(* 610, topology_match.compatible_swaps).                                  *)
PairsSwappedOnce ==
  LET swaps == progress.topology_swaps IN
  \A i, j \in DOMAIN swaps :
    /\ swaps[i].pair \in progress.tried_topologies
    /\ swaps[i].pair = swaps[j].pair => i = j

(* The loop escalates exactly when the last iterations all failed to keep  *)
(* a deck and none but the first of them had itself escalated: a swap, an  *)
(* unresolved proposal or a kept deck starts the count over                *)
(* (orchestrator.py:522, 608, 721, 985, 1022, 1026).                       *)
LastFailed(n) ==
  /\ n <= Len(outcomes)
  /\ \A i \in Len(outcomes) - n + 1 .. Len(outcomes) :
       /\ outcomes[i].failed
       /\ i > Len(outcomes) - n + 1 => ~ outcomes[i].escalated
EscalatesAfterFailures ==
  /\ pc = "escalate" => LastFailed(TopologySwitchThreshold)
  /\ pc = "tune" /\ LastFailed(TopologySwitchThreshold) /\ ~ iteration.escalated =>
       Patience

(* Retries used up end the run only if the verifier refused an alternative *)
(* in this very iteration and approved none; gates alone never do          *)
(* (orchestrator.py:978-986).                                              *)
HardFailNeedsAReview ==
  result # NoResult /\ result.failure_reason = "tuning proposal repeatedly rejected" =>
    /\ \E retry \in 1 .. MaxTuningRetries : <<retry, FALSE>> \in iteration.reviews
    /\ \A retry \in 1 .. MaxTuningRetries : <<retry, TRUE>> \notin iteration.reviews

(* The call returns, however often it is killed and resumed.               *)
Terminates == <>[](pc = "returned")

(* "The result must describe the deck it returns" (orchestrator.py:131),   *)
(* also when the iterations run out.                                       *)
ResultDescribesItsDeck ==
  result # NoResult /\ result.failure_reason = "max iterations reached" =>
    result.final_criteria.deck = result.deck

(* "Each retry is one approval or one rejection, so this sum is exactly    *)
(* the number of failed retries" (_retry_reason_counts,                    *)
(* orchestrator.py:104-105).                                               *)
FailedRetries == iteration.retry - 1
RetryCountsAreExact ==
  pc = "review_tune" \/ (pc = "tune" /\ iteration.retry > MaxTuningRetries) =>
    Cardinality(iteration.rejections) = FailedRetries
=============================================================================
