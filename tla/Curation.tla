------------------------------- MODULE Curation -------------------------------
(***************************************************************************)
(* The admission of a topology to the library (curation.py, cli_curate.py, *)
(* agents/curator.py, agents/variant_author.py): a body cut from a deck,   *)
(* read from a file or written by an agent goes through structure,         *)
(* reproduction, corners and comparison, and what came of it is written    *)
(* to three files.                                                         *)
(*                                                                         *)
(* What a simulation or a sweep shows is one of SlotRows, or an exception; *)
(* the incumbent shows the same each time it is simulated.  Bodies are     *)
(* told apart by the attempt that made them.                               *)
(***************************************************************************)
EXTENDS Judge

CONSTANTS
  SlotCriteria,  \* slot.spec.all_criteria, a sequence
  SlotRows,      \* what a deck may measure
  Tolerance,     \* COMPARISON_REL_TOLERANCE, in thousandths
  MaxAuthored,   \* MAX_VARIANT_AUTHOR_RETRIES
  MaxPoints      \* the points of the comparison's sweep, at the most

ASSUME CurationAssumption ==
  /\ Tolerance \in Nat
  /\ MaxAuthored \in Nat \ {0}
  /\ MaxPoints \in Nat
  /\ None \notin {"entry", "nominal", "corners"}
  /\ \A row \in SlotRows : \A m \in DOMAIN row : row[m] \in Int

VARIABLES
  curating,    \* the stage the run is in
  source,      \* "deck", "file" or "technique"
  slot,        \* whether the slot's specification has pvt_corners
  attempt,     \* the attempt that is being authored
  last,        \* last_structure and last_reproduce
  incumbent,   \* what the deck measured, None before it is simulated
  candidate,   \* ctx.candidate
  addresses,   \* ctx.addresses, the names of criteria
  stages,      \* ctx.stages
  outcome,     \* what _finalize returned, or None
  written      \* the files in the output directory

context == <<source, slot, attempt, last, incumbent, candidate, addresses, stages>>
curationVars == <<curating, context, outcome, written>>

CriterionNames == {SlotCriteria[i].name : i \in DOMAIN SlotCriteria}
CriterionOf(name) == SlotCriteria[CHOOSE i \in DOMAIN SlotCriteria : SlotCriteria[i].name = name]

(* _is_better and _at_least_as_good: the band is relative to the second    *)
(* value, so that a difference inside it is a tie either way.              *)
Advantage(c, value, reference) == IF LowerBound(c) THEN value - reference ELSE reference - value
BetterIsReversed(c, value, baseline) ==   \* mutant: the two are swapped
  1000 * Advantage(c, baseline, value) > Tolerance * Magnitude(baseline)
IsBetter(c, value, baseline) == 1000 * Advantage(c, value, baseline) > Tolerance * Magnitude(baseline)
AtLeastAsGood(c, value, reference) ==
  1000 * Advantage(c, value, reference) >= - Tolerance * Magnitude(reference)

Complete(row) == \A i \in DOMAIN SlotCriteria : Measured(row, SlotCriteria[i]) # None
Improved(row, baseline) ==
  {n \in CriterionNames :
     LET c == CriterionOf(n)
     IN  /\ Measured(row, c) # None /\ Measured(baseline, c) # None
         /\ IsBetter(c, Measured(row, c), Measured(baseline, c))}
Matches(row, other) ==
  \A i \in DOMAIN SlotCriteria :
    LET c == SlotCriteria[i] IN AtLeastAsGood(c, row[c.measurement], other[c.measurement])

Stage(name, status, body, row) == [name |-> name, status |-> status, body |-> body, row |-> row]
NoFiles == [curation_json |-> None, topology_candidate |-> None, curation_report |-> None]
Sources == {"deck", "file", "technique"}
Provenance == CASE source = "deck" -> "extracted" [] source = "file" -> "file" [] OTHER -> "authored"

CurationInit ==
  /\ curating = "loading"
  /\ source \in Sources
  /\ slot \in BOOLEAN
  /\ attempt = 1
  /\ last = [structure |-> None, reproduce |-> None]
  /\ incumbent = None
  /\ candidate = None
  /\ addresses = {}
  /\ stages = <<>>
  /\ outcome = None
  /\ written = NoFiles

-----------------------------------------------------------------------------
(* _finalize, with _verified_at of the stages.                             *)
VerifiedAt(all) ==
  IF \E i \in DOMAIN all : all[i].name = "corners" /\ all[i].status = "pass" THEN "corners" ELSE "nominal"
Finalize(verdict, all, description_source) ==
  /\ outcome' = [verdict |-> verdict, stages |-> all, candidate |-> candidate,
                 addresses |-> addresses, verified_at |-> VerifiedAt(all),
                 description_source |-> description_source]
  /\ stages' = all
  /\ curating' = "writing"

(* run_curation: any exception ends the run as inconclusive, with what the *)
(* context holds by then.                                                  *)
UnexpectedError ==
  /\ curating \notin {"writing", "over"}
  /\ Finalize("INCONCLUSIVE", stages, "not_reached")
  /\ UNCHANGED <<source, slot, attempt, last, incumbent, candidate, addresses, written>>

(* _curate: the specification, the decks and the slot are read.            *)
Load ==
  /\ curating = "loading"
  /\ curating' = IF source = "technique" THEN "authoring" ELSE "structure"
  /\ candidate' = IF source = "technique" THEN None ELSE attempt
  /\ UNCHANGED <<source, slot, attempt, last, incumbent, addresses, stages, outcome, written>>

(* Stage 1 of a body from a deck or a file.                                *)
StructurePasses ==
  /\ curating = "structure"
  /\ stages' = Append(stages, Stage("structure", "pass", candidate, None))
  /\ curating' = "reproduce"
  /\ UNCHANGED <<source, slot, attempt, last, incumbent, candidate, addresses, outcome, written>>
StructureFails ==
  /\ curating = "structure"
  /\ Finalize("REJECT", Append(stages, Stage("structure", "fail", candidate, None)), "not_reached")
  /\ UNCHANGED <<source, slot, attempt, last, incumbent, candidate, addresses, written>>

(* reproduce_characteristics: the candidate, then the incumbent.  A        *)
(* measurement the candidate lacks fails; one the incumbent lacks only     *)
(* claims no improvement.                                                  *)
Shown == IF incumbent = None THEN SlotRows ELSE {incumbent}
Reproduced(body, row) ==
  Stage("reproduce", IF Complete(row) THEN "pass" ELSE "fail", body, row)

ReproducePasses ==
  /\ curating = "reproduce"
  /\ \E row \in SlotRows, baseline \in Shown :
       /\ Complete(row)
       /\ stages' = Append(stages, Reproduced(candidate, row))
       /\ incumbent' = baseline
       /\ addresses' = Improved(row, baseline)
  /\ curating' = "corners"
  /\ UNCHANGED <<source, slot, attempt, last, candidate, outcome, written>>
ReproduceFails ==
  /\ curating = "reproduce"
  /\ \E row \in SlotRows, baseline \in Shown :
       /\ ~Complete(row)
       /\ incumbent' = baseline
       /\ Finalize("REJECT", Append(stages, Reproduced(candidate, row)), "not_reached")
  /\ UNCHANGED <<source, slot, attempt, last, candidate, addresses, written>>
ReproduceRaises ==
  /\ curating = "reproduce"
  /\ Finalize("INCONCLUSIVE",
              Append(stages, Stage("reproduce", "inconclusive", candidate, None)), "not_reached")
  /\ UNCHANGED <<source, slot, attempt, last, incumbent, candidate, addresses, written>>

-----------------------------------------------------------------------------
(* author_and_verify_variant.  What _curate records of it are the last     *)
(* structure and the last reproduction it reached, of whichever attempts.  *)
Recorded(structure, reproduce) ==
  (IF structure = None THEN <<>> ELSE <<structure>>)
    \o (IF reproduce = None THEN <<>> ELSE <<reproduce>>)
Authors == curating = "authoring" /\ attempt <= MaxAuthored
Retry(structure, reproduce) ==
  /\ last' = [structure |-> structure, reproduce |-> reproduce]
  /\ attempt' = attempt + 1
AuthorFrame == UNCHANGED <<source, slot, outcome, written>>

(* The agent's failure is inconclusive.                                    *)
AuthorFails ==
  /\ Authors
  /\ Finalize("INCONCLUSIVE", Recorded(last.structure, last.reproduce), "not_reached")
  /\ UNCHANGED <<source, slot, attempt, last, incumbent, candidate, addresses, written>>

(* A body that lost a port, or whose structure does not fit, is asked for  *)
(* again.                                                                  *)
AuthorDropsPort ==
  /\ Authors
  /\ Retry(last.structure, last.reproduce)
  /\ AuthorFrame
  /\ UNCHANGED <<curating, incumbent, candidate, addresses, stages>>
AuthorMisfits ==
  /\ Authors
  /\ Retry(Stage("structure", "fail", attempt, None), last.reproduce)
  /\ AuthorFrame
  /\ UNCHANGED <<curating, incumbent, candidate, addresses, stages>>

(* One that fits is simulated: missing measurements are told to the agent, *)
(* an exception ends the run, and a complete row is the candidate's.       *)
Fits == Stage("structure", "pass", attempt, None)
AuthoredMissesMeasurements ==
  /\ Authors
  /\ \E row \in SlotRows, baseline \in Shown :
       /\ ~Complete(row)
       /\ incumbent' = baseline
       /\ Retry(Fits, Reproduced(attempt, row))
  /\ AuthorFrame
  /\ UNCHANGED <<curating, candidate, addresses, stages>>
AuthoredRaises ==
  /\ Authors
  /\ Finalize("INCONCLUSIVE",
              <<Fits, Stage("reproduce", "inconclusive", attempt, None)>>, "not_reached")
  /\ UNCHANGED <<source, slot, attempt, last, incumbent, candidate, addresses, written>>
AuthoredReproduces ==
  /\ Authors
  /\ \E row \in SlotRows, baseline \in Shown :
       /\ Complete(row)
       /\ incumbent' = baseline
       /\ stages' = <<Fits, Reproduced(attempt, row)>>
       /\ addresses' = Improved(row, baseline)
  /\ candidate' = attempt
  /\ curating' = "corners"
  /\ AuthorFrame
  /\ UNCHANGED <<attempt, last>>

AuthorExhausted ==
  /\ curating = "authoring"
  /\ attempt > MaxAuthored
  /\ Finalize("REJECT", Recorded(last.structure, last.reproduce), "not_reached")
  /\ UNCHANGED <<source, slot, attempt, last, incumbent, candidate, addresses, written>>

-----------------------------------------------------------------------------
(* verify_corners, for what nobody has verified yet: an authored body.     *)
CornersSkipped ==
  /\ curating = "corners"
  /\ Provenance # "authored"
  /\ stages' = Append(stages, Stage("corners", "skipped", candidate, None))
  /\ curating' = "comparison"
  /\ UNCHANGED <<source, slot, attempt, last, incumbent, candidate, addresses, outcome, written>>

(* No corners are declared, or one of the two sweeps raises.               *)
CornersInconclusive ==
  /\ curating = "corners"
  /\ Provenance = "authored"
  /\ Finalize("INCONCLUSIVE",
              Append(stages, Stage("corners", "inconclusive", candidate, None)), "not_reached")
  /\ UNCHANGED <<source, slot, attempt, last, incumbent, candidate, addresses, written>>

(* Of the candidate and of the incumbent, the worst value per criterion:   *)
(* none is missing, and what is addressed is better there too; where       *)
(* nothing is addressed, nothing is compared.                              *)
HoldsWithoutComparing(worst, incumbent_worst) ==   \* mutant: the sweeps are only completed
  Complete(worst) /\ Complete(incumbent_worst)
WorstRows(worst, incumbent_worst) == [candidate |-> worst, incumbent |-> incumbent_worst]
HoldsAtCorners(worst, incumbent_worst) ==
  /\ Complete(worst) /\ Complete(incumbent_worst)
  /\ addresses \subseteq Improved(worst, incumbent_worst)
CornersPass ==
  /\ curating = "corners"
  /\ Provenance = "authored" /\ slot
  /\ \E worst, incumbent_worst \in SlotRows :
       /\ HoldsAtCorners(worst, incumbent_worst)
       /\ stages' = Append(stages, Stage("corners", "pass", candidate,
                                         WorstRows(worst, incumbent_worst)))
  /\ curating' = "comparison"
  /\ UNCHANGED <<source, slot, attempt, last, incumbent, candidate, addresses, outcome, written>>
CornersFail ==
  /\ curating = "corners"
  /\ Provenance = "authored" /\ slot
  /\ \E worst, incumbent_worst \in SlotRows :
       /\ ~HoldsAtCorners(worst, incumbent_worst)
       /\ Finalize("REJECT",
                   Append(stages, Stage("corners", "fail", candidate,
                                        WorstRows(worst, incumbent_worst))), "not_reached")
  /\ UNCHANGED <<source, slot, attempt, last, incumbent, candidate, addresses, written>>

-----------------------------------------------------------------------------
(* scoped_comparison: the incumbent as it is and with one knob moved.  The *)
(* points that raised show nothing; those that miss a measurement are left *)
(* out; the first of the others that matches the candidate dominates it.   *)
CandidateRow == stages[CHOOSE i \in DOMAIN stages : stages[i].name = "reproduce"].row
IncumbentSpared(points, row) ==   \* mutant: only the swept points are compared
  {p \in points \ {incumbent} : Complete(p) /\ Matches(p, row)}
DominatingPoints(points, row) == {p \in points : Complete(p) /\ Matches(p, row)}

Compared == {{incumbent} \cup swept : swept \in {s \in SUBSET SlotRows : Cardinality(s) <= MaxPoints}}
Comparison(status, points) == Stage("comparison", status, candidate, points)
ComparisonPasses ==
  /\ curating = "comparison"
  /\ \E points \in Compared :
       /\ DominatingPoints(points, CandidateRow) = {}
       /\ stages' = Append(stages, Comparison("pass", points))
  /\ curating' = "describing"
  /\ UNCHANGED <<source, slot, attempt, last, incumbent, candidate, addresses, outcome, written>>
ComparisonFails ==
  /\ curating = "comparison"
  /\ \E points \in Compared :
       /\ DominatingPoints(points, CandidateRow) # {}
       /\ Finalize("REJECT", Append(stages, Comparison("fail", points)), "not_reached")
  /\ UNCHANGED <<source, slot, attempt, last, incumbent, candidate, addresses, written>>

(* render_description: the agent's text, or the template when it fails.    *)
Admit ==
  /\ curating = "describing"
  /\ \E by \in {"agent", "template"} : Finalize("ADMIT", stages, by)
  /\ UNCHANGED <<source, slot, attempt, last, incumbent, candidate, addresses, written>>

-----------------------------------------------------------------------------
(* write_curation_artifacts: three files, one after the other, each        *)
(* written in place.  Only an admission gives a snippet that can be used.  *)
AlwaysEntry ==   \* mutant: the entry is written out whatever the verdict
  IF outcome.candidate = None THEN "comment" ELSE "entry"
Snippet ==
  IF outcome.candidate = None THEN "comment"
  ELSE IF outcome.verdict = "ADMIT" THEN "entry" ELSE "commented_entry"
Write(file, content) ==
  /\ curating = "writing"
  /\ written[file] = None
  /\ written' = [written EXCEPT ![file] = content]
  /\ UNCHANGED <<context, outcome>>
WriteJson == Write("curation_json", outcome.verdict) /\ UNCHANGED curating
WriteCandidate ==
  /\ written.curation_json # None
  /\ Write("topology_candidate", Snippet) /\ UNCHANGED curating
WriteReport ==
  /\ written.topology_candidate # None
  /\ Write("curation_report", outcome.verdict) /\ curating' = "over"
CurationDies ==
  /\ curating = "writing"
  /\ curating' = "over"
  /\ UNCHANGED <<context, outcome, written>>

CurationNext ==
  \/ UnexpectedError \/ Load \/ StructurePasses \/ StructureFails
  \/ ReproducePasses \/ ReproduceFails \/ ReproduceRaises
  \/ AuthorFails \/ AuthorDropsPort \/ AuthorMisfits \/ AuthoredMissesMeasurements
  \/ AuthoredRaises \/ AuthoredReproduces \/ AuthorExhausted
  \/ CornersSkipped \/ CornersInconclusive \/ CornersPass \/ CornersFail
  \/ ComparisonPasses \/ ComparisonFails \/ Admit
  \/ WriteJson \/ WriteCandidate \/ WriteReport \/ CurationDies
CurationSpec == CurationInit /\ [][CurationNext]_curationVars

-----------------------------------------------------------------------------
StageNames == {"structure", "reproduce", "corners", "comparison"}
CurationTypeOK ==
  /\ source \in Sources /\ slot \in BOOLEAN
  /\ attempt \in 1 .. MaxAuthored + 1
  /\ candidate \in 1 .. MaxAuthored + 1 \cup {None}
  /\ addresses \subseteq CriterionNames
  /\ \A i \in DOMAIN stages :
       /\ stages[i].name \in StageNames
       /\ stages[i].status \in {"pass", "fail", "skipped", "inconclusive"}

(* A value beats another when it is on the right side of it by more than   *)
(* the tolerance, which is relative to one of the two.                     *)
Beats(c, value, other, reference) ==
  IF c.operator \in {">=", ">"}
  THEN 1000 * value > 1000 * other + Tolerance * Magnitude(reference)
  ELSE 1000 * value < 1000 * other - Tolerance * Magnitude(reference)
BeatsOn(n, row, other, reference) ==
  LET c == CriterionOf(n)
  IN  Beats(c, row[c.measurement], other[c.measurement], reference[c.measurement])

(* A library entry that can be used is the body that passed every stage    *)
(* that applies to it, in their order and none of another attempt.  One    *)
(* that an agent wrote was measured at every corner, as was the incumbent, *)
(* and on each criterion that the entry says it addresses its worst corner *)
(* beats the incumbent's by more than the tolerance (if it addresses none, *)
(* no corner was compared); one from a deck or a file was not taken to the *)
(* corners, and the entry does not say that it was                         *)
(* (curation.py:819-1030, cli_curate.py:484-614, 680-748).                 *)
AdmittedBodyPassedEveryStage ==
  written.topology_candidate = "entry" =>
    LET all == outcome.stages
        worst == all[3].row
        named(i, name) == all[i].name = name /\ all[i].body = outcome.candidate
    IN  /\ written.curation_json = "ADMIT"
        /\ Len(all) = 4
        /\ named(1, "structure") /\ all[1].status = "pass"
        /\ named(2, "reproduce") /\ all[2].status = "pass" /\ Complete(all[2].row)
        /\ named(3, "corners") /\ named(4, "comparison") /\ all[4].status = "pass"
        /\ IF Provenance = "authored"
           THEN /\ outcome.verified_at = "corners" /\ all[3].status = "pass"
                /\ Complete(worst.candidate) /\ Complete(worst.incumbent)
                /\ \A n \in outcome.addresses :
                     BeatsOn(n, worst.candidate, worst.incumbent, worst.incumbent)
           ELSE outcome.verified_at = "nominal" /\ all[3].status = "skipped"

(* Tuning the incumbent does not get to an admitted body: of the incumbent *)
(* and of each point of its single-knob sweep that was measured in full,   *)
(* the body beats it somewhere by more than the tolerance.  And the entry  *)
(* addresses exactly the criteria that the incumbent measured and where    *)
(* the body beats it (curation.py:540-568, 640-666, 1033-1071, 1224-1583). *)
AdmittedBodyIsNotMatched ==
  outcome # None /\ outcome.verdict = "ADMIT" =>
    LET row == outcome.stages[2].row
    IN  /\ \A p \in outcome.stages[4].row \cup {incumbent} :
             Complete(p) => \E i \in DOMAIN SlotCriteria :
               LET c == SlotCriteria[i]
               IN  Beats(c, row[c.measurement], p[c.measurement], row[c.measurement])
        /\ \A n \in CriterionNames :
             n \in outcome.addresses <=>
               /\ Measured(incumbent, CriterionOf(n)) # None
               /\ BeatsOn(n, row, incumbent, incumbent)
=============================================================================
