---------------------------- MODULE CurationProofs ----------------------------
(***************************************************************************)
(* Whatever the decks show and the agents write, for every slot, every     *)
(* tolerance and any number of attempts: a library entry that can be used  *)
(* is a body that passed every stage that applies to it, and neither the   *)
(* incumbent nor a point of its single-knob sweep is as good.              *)
(*                                                                         *)
(* Inductive invariant: the stages recorded when a stage is entered are    *)
(* those before it, in order, passed, and of the candidate in hand, the    *)
(* worst rows at the corners being better on what is addressed; the files  *)
(* say what the outcome says (IInv); and what is addressed, like the       *)
(* points compared, keeps its relation to the row of the candidate and to  *)
(* the incumbent's, which is measured once (MatchInv).                     *)
(***************************************************************************)
EXTENDS Curation, SequenceTheorems, TLAPS

IsStructure(s, body) == s.name = "structure" /\ s.status = "pass" /\ s.body = body
IsReproduced(s, body) ==
  s.name = "reproduce" /\ s.status = "pass" /\ s.body = body /\ Complete(s.row)
HeldUp(worst, claimed) ==
  /\ worst.candidate \in SlotRows /\ worst.incumbent \in SlotRows
  /\ Complete(worst.candidate) /\ Complete(worst.incumbent)
  /\ claimed \subseteq Improved(worst.candidate, worst.incumbent)
IsCorners(s, body, claimed) ==
  /\ s.name = "corners" /\ s.body = body
  /\ IF Provenance = "authored" THEN s.status = "pass" /\ HeldUp(s.row, claimed)
                                ELSE s.status = "skipped"
IsCompared(s, body) == s.name = "comparison" /\ s.status = "pass" /\ s.body = body

AllPassed(all, body, claimed) ==
  \E a, b, c, d :
    /\ all = <<a, b, c, d>>
    /\ IsStructure(a, body) /\ IsReproduced(b, body)
    /\ IsCorners(c, body, claimed) /\ IsCompared(d, body)

StagesInv ==
  /\ curating \in {"loading", "structure", "authoring"} => stages = <<>>
  /\ curating = "reproduce" => \E a : stages = <<a>> /\ IsStructure(a, candidate)
  /\ curating = "corners" =>
       \E a, b : stages = <<a, b>> /\ IsStructure(a, candidate) /\ IsReproduced(b, candidate)
  /\ curating = "comparison" =>
       \E a, b, c : /\ stages = <<a, b, c>>
                    /\ IsStructure(a, candidate) /\ IsReproduced(b, candidate)
                    /\ IsCorners(c, candidate, addresses)
  /\ curating = "describing" => AllPassed(stages, candidate, addresses)

OutcomeInv ==
  curating \in {"writing", "over"} =>
    /\ outcome.verdict = "ADMIT" => AllPassed(outcome.stages, outcome.candidate, outcome.addresses)
    /\ outcome.verified_at = VerifiedAt(outcome.stages)

FilesInv ==
  /\ DOMAIN written = {"curation_json", "topology_candidate", "curation_report"}
  /\ curating \notin {"writing", "over"} => written = NoFiles
  /\ written.curation_json # None => written.curation_json = outcome.verdict
  /\ written.topology_candidate # None =>
       written.topology_candidate = Snippet /\ written.curation_json # None

IInv == StagesInv /\ OutcomeInv /\ FilesInv

-----------------------------------------------------------------------------
(* Sequences as long as the stages.                                        *)
LEMMA AppendedSecond ==
  ASSUME NEW a, NEW b
  PROVE  Append(<<a>>, b) = <<a, b>>
<1>1. <<a>> = Append(<<>>, a)
  OBVIOUS
<1>2. <<a, b>> = Append(Append(<<>>, a), b)
  OBVIOUS
<1> QED
  BY <1>1, <1>2

LEMMA AppendedThird ==
  ASSUME NEW a, NEW b, NEW c
  PROVE  Append(<<a, b>>, c) = <<a, b, c>>
<1>1. Append(<<a, b>>, c) = <<a, b>> \o <<c>>
  OBVIOUS
<1>2. <<a, b, c>> = <<a, b>> \o <<c>>
  OBVIOUS
<1> QED
  BY <1>1, <1>2

LEMMA AppendedFourth ==
  ASSUME NEW a, NEW b, NEW c, NEW d
  PROVE  Append(<<a, b, c>>, d) = <<a, b, c, d>>
<1>1. Append(<<a, b, c>>, d) = <<a, b, c>> \o <<d>>
  OBVIOUS
<1>2. <<a, b, c, d>> = <<a, b, c>> \o <<d>>
  OBVIOUS
<1> QED
  BY <1>1, <1>2

LEMMA InitInv == CurationInit => IInv
  BY DEF CurationInit, IInv, StagesInv, OutcomeInv, FilesInv, NoFiles

(* A run that ends: what the last stage adds matters to an admission only. *)
LEMMA Finalized ==
  ASSUME IInv, curating \notin {"writing", "over"}, NEW verdict, NEW all, NEW by,
         Finalize(verdict, all, by),
         verdict = "ADMIT" => AllPassed(all, candidate, addresses),
         UNCHANGED <<source, candidate, addresses, written>>
  PROVE  IInv'
<1>1. /\ curating' = "writing"
      /\ outcome'.verdict = verdict /\ outcome'.stages = all /\ outcome'.candidate = candidate
      /\ outcome'.addresses = addresses
      /\ outcome'.verified_at = VerifiedAt(all)
  BY DEF Finalize
<1>2. AllPassed(all, candidate, addresses) => AllPassed(all, candidate, addresses)'
  BY DEF AllPassed, IsStructure, IsReproduced, IsCorners, HeldUp, IsCompared, Provenance, Complete
<1>3. OutcomeInv'
  BY <1>1 DEF OutcomeInv, AllPassed, IsStructure, IsReproduced, IsCorners, HeldUp, IsCompared,
     Provenance, Complete, VerifiedAt
<1>4. StagesInv'
  BY <1>1 DEF StagesInv
<1>5. FilesInv'
  BY <1>1 DEF IInv, FilesInv, NoFiles
<1> QED
  BY <1>3, <1>4, <1>5 DEF IInv
(* The steps that refuse the candidate, or give up.                        *)
LEMMA RefusingStep ==
  ASSUME IInv,
         \/ UnexpectedError \/ StructureFails \/ ReproduceFails \/ ReproduceRaises
         \/ AuthorFails \/ AuthoredRaises \/ AuthorExhausted
         \/ CornersInconclusive \/ CornersFail \/ ComparisonFails
  PROVE  IInv'
<1>1. /\ curating \notin {"writing", "over"}
      /\ UNCHANGED <<source, candidate, addresses, written>>
      /\ \E verdict \in {"REJECT", "INCONCLUSIVE"} : \E all, by : Finalize(verdict, all, by)
  BY DEF UnexpectedError, StructureFails, ReproduceFails, ReproduceRaises, AuthorFails,
     AuthoredRaises, AuthorExhausted, CornersInconclusive, CornersFail, ComparisonFails, Authors
<1>2. PICK verdict \in {"REJECT", "INCONCLUSIVE"} : \E all, by : Finalize(verdict, all, by)
  BY <1>1
<1>3. verdict # "ADMIT"
  OBVIOUS
<1> QED
  BY <1>1, <1>2, <1>3, Finalized

(* A step within the stages leaves the files and the outcome alone.        *)
LEMMA Unfinished ==
  ASSUME IInv, curating \notin {"writing", "over"}, curating' \notin {"writing", "over"},
         UNCHANGED <<outcome, written>>
  PROVE  OutcomeInv' /\ FilesInv'
  BY DEF IInv, OutcomeInv, FilesInv, NoFiles

LEMMA StructureStep ==
  ASSUME IInv, Load \/ StructurePasses \/ AuthorDropsPort \/ AuthorMisfits
                 \/ AuthoredMissesMeasurements
  PROVE  IInv'
<1>1. CASE Load
  BY <1>1, Unfinished DEF Load, IInv, StagesInv
<1>2. CASE StructurePasses
  <2> DEFINE a == Stage("structure", "pass", candidate, None)
  <2>1. stages' = <<a>> /\ UNCHANGED candidate /\ curating' = "reproduce"
    BY <1>2 DEF StructurePasses, IInv, StagesInv
  <2>2. IsStructure(a, candidate')
    BY <2>1 DEF IsStructure, Stage
  <2>3. StagesInv'
    BY <2>1, <2>2 DEF StagesInv
  <2> QED
    BY <1>2, <2>1, <2>3, Unfinished DEF StructurePasses, IInv
<1>3. CASE AuthorDropsPort \/ AuthorMisfits \/ AuthoredMissesMeasurements
  <2>1. UNCHANGED <<curating, candidate, stages, outcome, written>> /\ curating = "authoring"
    BY <1>3 DEF AuthorDropsPort, AuthorMisfits, AuthoredMissesMeasurements, Authors, AuthorFrame
  <2> QED
    BY <2>1, Unfinished DEF IInv, StagesInv
<1> QED
  BY <1>1, <1>2, <1>3

LEMMA ReproduceStep ==
  ASSUME IInv, ReproducePasses \/ AuthoredReproduces
  PROVE  IInv'
<1>1. CASE ReproducePasses
  <2>1. PICK row \in SlotRows :
          Complete(row) /\ stages' = Append(stages, Reproduced(candidate, row))
    BY <1>1 DEF ReproducePasses
  <2>2. PICK a : stages = <<a>> /\ IsStructure(a, candidate)
    BY <1>1 DEF ReproducePasses, IInv, StagesInv
  <2>3. IsReproduced(Reproduced(candidate, row), candidate)
    BY <2>1 DEF IsReproduced, Reproduced, Stage
  <2>4. stages' = <<a, Reproduced(candidate, row)>> /\ candidate' = candidate
        /\ curating = "reproduce" /\ curating' = "corners" /\ UNCHANGED <<outcome, written>>
    BY <1>1, <2>1, <2>2, AppendedSecond DEF ReproducePasses
  <2>5. StagesInv'
    BY <2>2, <2>3, <2>4 DEF StagesInv, IsStructure, IsReproduced, Complete
  <2> QED
    BY <2>4, <2>5, Unfinished DEF IInv
<1>2. CASE AuthoredReproduces
  <2>1. PICK row \in SlotRows :
          Complete(row) /\ stages' = <<Fits, Reproduced(attempt, row)>>
    BY <1>2 DEF AuthoredReproduces
  <2>2. /\ candidate' = attempt
        /\ curating = "authoring" /\ curating' = "corners" /\ UNCHANGED <<outcome, written>>
    BY <1>2 DEF AuthoredReproduces, Authors, AuthorFrame
  <2>3. IsStructure(Fits, attempt) /\ IsReproduced(Reproduced(attempt, row), attempt)
    BY <2>1 DEF IsStructure, Fits, IsReproduced, Reproduced, Stage
  <2>4. StagesInv'
    BY <2>1, <2>2, <2>3 DEF StagesInv, IsStructure, IsReproduced, Complete
  <2> QED
    BY <2>2, <2>4, Unfinished DEF IInv
<1> QED
  BY <1>1, <1>2

LEMMA CornersStep ==
  ASSUME IInv, CornersSkipped \/ CornersPass
  PROVE  IInv'
<1>1. PICK a, b : stages = <<a, b>> /\ IsStructure(a, candidate) /\ IsReproduced(b, candidate)
  BY DEF CornersSkipped, CornersPass, IInv, StagesInv
<1>2. PICK c : stages' = Append(stages, c) /\ IsCorners(c, candidate, addresses)
  <2>1. CASE CornersSkipped
    <3> DEFINE c == Stage("corners", "skipped", candidate, None)
    <3>1. IsCorners(c, candidate, addresses) /\ stages' = Append(stages, c)
      BY <2>1 DEF CornersSkipped, IsCorners, Stage
    <3> QED
      BY <3>1
  <2>2. CASE CornersPass
    <3>1. PICK worst, incumbent_worst \in SlotRows :
            /\ HoldsAtCorners(worst, incumbent_worst)
            /\ stages' = Append(stages, Stage("corners", "pass", candidate,
                                              WorstRows(worst, incumbent_worst)))
      BY <2>2 DEF CornersPass
    <3> DEFINE c == Stage("corners", "pass", candidate, WorstRows(worst, incumbent_worst))
    <3>2. IsCorners(c, candidate, addresses)
      BY <2>2, <3>1 DEF CornersPass, HoldsAtCorners, IsCorners, HeldUp, WorstRows, Stage
    <3> QED
      BY <3>1, <3>2
  <2> QED
    BY <2>1, <2>2
<1>3. /\ UNCHANGED <<candidate, source, addresses, outcome, written>>
      /\ curating = "corners" /\ curating' = "comparison"
  BY DEF CornersSkipped, CornersPass
<1>4. stages' = <<a, b, c>>
  BY <1>1, <1>2, AppendedThird
<1>5. StagesInv'
  BY <1>1, <1>2, <1>3, <1>4 DEF StagesInv, IsStructure, IsReproduced, IsCorners, HeldUp,
     Complete, Provenance
<1> QED
  BY <1>3, <1>5, Unfinished DEF IInv

LEMMA ComparisonStep ==
  ASSUME IInv, ComparisonPasses
  PROVE  IInv'
<1>1. PICK a, b, c : /\ stages = <<a, b, c>>
                     /\ IsStructure(a, candidate) /\ IsReproduced(b, candidate)
                     /\ IsCorners(c, candidate, addresses)
  BY DEF ComparisonPasses, IInv, StagesInv
<1>2. PICK d : stages' = Append(stages, d) /\ IsCompared(d, candidate)
  BY DEF ComparisonPasses, Comparison, IsCompared, Stage
<1>3. /\ UNCHANGED <<candidate, source, addresses, outcome, written>>
      /\ curating = "comparison" /\ curating' = "describing"
  BY DEF ComparisonPasses
<1>4. stages' = <<a, b, c, d>>
  BY <1>1, <1>2, AppendedFourth
<1>5. StagesInv'
  BY <1>1, <1>2, <1>3, <1>4 DEF StagesInv, AllPassed, IsStructure, IsReproduced, IsCorners,
     HeldUp, IsCompared, Complete, Provenance
<1> QED
  BY <1>3, <1>5, Unfinished DEF IInv

LEMMA AdmitStep ==
  ASSUME IInv, Admit
  PROVE  IInv'
<1>1. curating = "describing" /\ AllPassed(stages, candidate, addresses)
  BY DEF Admit, IInv, StagesInv
<1>2. PICK by : Finalize("ADMIT", stages, by)
  BY DEF Admit
<1> QED
  BY <1>1, <1>2, Finalized DEF Admit

(* The files.  The report is the last, and nothing follows a death.        *)
LEMMA WritingStep ==
  ASSUME IInv, WriteJson \/ WriteCandidate \/ WriteReport \/ CurationDies
                 \/ UNCHANGED curationVars
  PROVE  IInv'
<1>1. UNCHANGED <<source, candidate, addresses, stages, outcome>>
  BY DEF WriteJson, WriteCandidate, WriteReport, CurationDies, Write, curationVars, context
<1>2. StagesInv' /\ OutcomeInv'
  BY <1>1 DEF WriteJson, WriteCandidate, WriteReport, CurationDies, Write, curationVars, IInv,
     StagesInv, OutcomeInv, AllPassed, IsStructure, IsReproduced, IsCorners, HeldUp, IsCompared,
     Complete, Provenance, VerifiedAt
<1>3. FilesInv'
  BY <1>1 DEF WriteJson, WriteCandidate, WriteReport, CurationDies, Write, curationVars, IInv,
     FilesInv, Snippet
<1> QED
  BY <1>2, <1>3 DEF IInv

-----------------------------------------------------------------------------
(* What the candidate measured against the incumbent: it addresses what it *)
(* measured better, and of the points that the comparison looked at, the   *)
(* incumbent among them, none matches it.                                  *)
Better(all, claimed, base) ==
  /\ base \in SlotRows
  /\ all[2].row \in SlotRows
  /\ claimed = Improved(all[2].row, base)
NotMatched(all, base) ==
  /\ base \in all[4].row
  /\ all[4].row \subseteq SlotRows
  /\ Complete(all[2].row)
  /\ DominatingPoints(all[4].row, all[2].row) = {}

MatchInv ==
  /\ incumbent = None \/ incumbent \in SlotRows
  /\ curating \in {"corners", "comparison", "describing"} =>
       Better(stages, addresses, incumbent)
  /\ curating = "describing" => NotMatched(stages, incumbent)
  /\ curating \notin {"writing", "over"} => outcome = None
  /\ outcome # None /\ outcome.verdict = "ADMIT" =>
       /\ Better(outcome.stages, outcome.addresses, incumbent)
       /\ NotMatched(outcome.stages, incumbent)

LEMMA MatchInit == CurationInit => MatchInv
  BY DEF CurationInit, MatchInv

(* The arithmetic of the band: what does not match falls short by more     *)
(* than the band, and what is better exceeds it.                           *)
LEMMA OutsideTheBand ==
  ASSUME NEW c, NEW x \in Int, NEW y \in Int
  PROVE  /\ ~ AtLeastAsGood(c, x, y) => Beats(c, y, x, y)
         /\ IsBetter(c, x, y) <=> Beats(c, x, y, y)
<1> DEFINE band == Tolerance * Magnitude(y)
<1>1. Magnitude(y) \in Nat
  BY DEF Magnitude
<1>2. band \in Nat /\ (- Tolerance) * Magnitude(y) = - band
  BY <1>1, CurationAssumption
<1>3. AtLeastAsGood(c, x, y) <=> 1000 * Advantage(c, x, y) >= - band
  BY <1>2 DEF AtLeastAsGood
<1>4. IsBetter(c, x, y) <=> 1000 * Advantage(c, x, y) > band
  BY DEF IsBetter
<1>5. /\ Beats(c, x, y, y) <=> IF LowerBound(c) THEN 1000 * x > 1000 * y + band
                                               ELSE 1000 * x < 1000 * y - band
      /\ Beats(c, y, x, y) <=> IF LowerBound(c) THEN 1000 * y > 1000 * x + band
                                               ELSE 1000 * y < 1000 * x - band
  BY DEF Beats, LowerBound
<1> HIDE DEF band
<1> QED
  BY <1>2, <1>3, <1>4, <1>5 DEF Advantage

LEMMA MeasuredInt ==
  ASSUME NEW row \in SlotRows, NEW c, Measured(row, c) # None
  PROVE  row[c.measurement] \in Int /\ Measured(row, c) = row[c.measurement]
  BY CurationAssumption DEF Measured

LEMMA ReproducedBetter ==
  ASSUME MatchInv, NEW row \in SlotRows, NEW baseline \in Shown, NEW a, NEW body,
         NEW all, all = <<a, Reproduced(body, row)>>
  PROVE  Better(all, Improved(row, baseline), baseline)
<1>1. baseline \in SlotRows
  BY DEF MatchInv, Shown
<1>2. all[2].row = row
  BY DEF Reproduced, Stage
<1> QED
  BY <1>1, <1>2 DEF Better

(* A run that ends with the stages and the claims it has.                  *)
LEMMA FinalizedMatch ==
  ASSUME MatchInv, curating \notin {"writing", "over"}, NEW verdict, NEW all, NEW by,
         Finalize(verdict, all, by),
         verdict = "ADMIT" => Better(all, addresses, incumbent') /\ NotMatched(all, incumbent'),
         incumbent' = None \/ incumbent' \in SlotRows
  PROVE  MatchInv'
<1>1. /\ curating' = "writing" /\ outcome'.verdict = verdict /\ outcome'.stages = all
      /\ outcome'.addresses = addresses
  BY DEF Finalize
<1>2. /\ verdict = "ADMIT" => Better(outcome'.stages, outcome'.addresses, incumbent')
      /\ verdict = "ADMIT" => NotMatched(outcome'.stages, incumbent')
  BY <1>1
<1> QED
  BY <1>1, <1>2 DEF MatchInv, Better, NotMatched, Improved, CriterionNames, CriterionOf,
     Complete, DominatingPoints, Matches

LEMMA RefusingMatch ==
  ASSUME MatchInv,
         \/ UnexpectedError \/ StructureFails \/ ReproduceFails \/ ReproduceRaises
         \/ AuthorFails \/ AuthoredRaises \/ AuthorExhausted
         \/ CornersInconclusive \/ CornersFail \/ ComparisonFails
  PROVE  MatchInv'
<1>1. /\ curating \notin {"writing", "over"}
      /\ incumbent' = None \/ incumbent' \in SlotRows
      /\ \E verdict \in {"REJECT", "INCONCLUSIVE"} : \E all, by : Finalize(verdict, all, by)
  BY DEF UnexpectedError, StructureFails, ReproduceFails, ReproduceRaises, AuthorFails,
     AuthoredRaises, AuthorExhausted, CornersInconclusive, CornersFail, ComparisonFails,
     Authors, Shown, MatchInv
<1>2. PICK verdict \in {"REJECT", "INCONCLUSIVE"} : \E all, by : Finalize(verdict, all, by)
  BY <1>1
<1>3. verdict # "ADMIT"
  OBVIOUS
<1> QED
  BY <1>1, <1>2, <1>3, FinalizedMatch

(* A step that leaves the two rows and the claims alone, or adds a stage.  *)
LEMMA StepMatches ==
  ASSUME MatchInv, outcome' = outcome,
         incumbent' = None \/ incumbent' \in SlotRows,
         curating \notin {"writing", "over"}, curating' \notin {"writing", "over"},
         curating' \in {"corners", "comparison", "describing"} =>
           Better(stages', addresses', incumbent'),
         curating' = "describing" => NotMatched(stages', incumbent')
  PROVE  MatchInv'
  BY DEF MatchInv, Better, NotMatched, Improved, CriterionNames, CriterionOf, Complete,
     DominatingPoints, Matches

LEMMA EarlyMatch ==
  ASSUME IInv, MatchInv, Load \/ StructurePasses \/ AuthorDropsPort \/ AuthorMisfits
                           \/ AuthoredMissesMeasurements
  PROVE  MatchInv'
<1>1. /\ outcome' = outcome /\ curating \in {"loading", "structure", "authoring"}
      /\ curating' \in {"loading", "structure", "authoring", "reproduce"}
      /\ incumbent' = None \/ incumbent' \in SlotRows
  BY DEF Load, StructurePasses, AuthorDropsPort, AuthorMisfits, AuthoredMissesMeasurements,
     AuthorFrame, Authors, MatchInv, Shown
<1> QED
  BY <1>1, StepMatches

LEMMA ReproduceMatch ==
  ASSUME IInv, MatchInv, ReproducePasses \/ AuthoredReproduces
  PROVE  MatchInv'
<1>1. PICK row \in SlotRows, baseline \in Shown :
        /\ incumbent' = baseline /\ addresses' = Improved(row, baseline)
        /\ \E a, body : stages' = <<a, Reproduced(body, row)>>
  <2>1. CASE ReproducePasses
    <3>1. PICK row \in SlotRows, baseline \in Shown :
            /\ incumbent' = baseline /\ addresses' = Improved(row, baseline)
            /\ stages' = Append(stages, Reproduced(candidate, row))
      BY <2>1 DEF ReproducePasses
    <3>2. PICK a : stages = <<a>>
      BY <2>1 DEF ReproducePasses, IInv, StagesInv
    <3>3. stages' = <<a, Reproduced(candidate, row)>>
      BY <3>1, <3>2, AppendedSecond
    <3> QED
      BY <3>1, <3>3
  <2>2. CASE AuthoredReproduces
    BY <2>2 DEF AuthoredReproduces
  <2> QED
    BY <2>1, <2>2
<1>2. Better(stages', addresses', incumbent')
  BY <1>1, ReproducedBetter
<1>3. /\ outcome' = outcome /\ curating \in {"reproduce", "authoring"}
      /\ curating' = "corners" /\ incumbent' \in SlotRows
  BY <1>1 DEF ReproducePasses, AuthoredReproduces, Authors, AuthorFrame, Shown, MatchInv
<1> QED
  BY <1>2, <1>3, StepMatches

LEMMA CornersMatch ==
  ASSUME IInv, MatchInv, CornersSkipped \/ CornersPass
  PROVE  MatchInv'
<1>1. PICK a, b : stages = <<a, b>>
  BY DEF CornersSkipped, CornersPass, IInv, StagesInv
<1>2. PICK c : stages' = Append(stages, c)
  BY DEF CornersSkipped, CornersPass
<1>3. stages'[2] = stages[2]
  BY <1>1, <1>2, AppendedThird
<1>4. /\ UNCHANGED <<addresses, incumbent, outcome>>
      /\ curating = "corners" /\ curating' = "comparison"
  BY DEF CornersSkipped, CornersPass
<1>5. Better(stages', addresses', incumbent')
  BY <1>3, <1>4 DEF MatchInv, Better
<1>6. incumbent' \in SlotRows
  BY <1>5 DEF Better
<1> QED
  BY <1>4, <1>5, <1>6, StepMatches

LEMMA ComparisonMatch ==
  ASSUME IInv, MatchInv, ComparisonPasses
  PROVE  MatchInv'
<1>1. PICK a, b, c : /\ stages = <<a, b, c>>
                     /\ IsStructure(a, candidate) /\ IsReproduced(b, candidate)
                     /\ IsCorners(c, candidate, addresses)
  BY DEF ComparisonPasses, IInv, StagesInv
<1>2. PICK points \in Compared :
        /\ DominatingPoints(points, CandidateRow) = {}
        /\ stages' = Append(stages, Comparison("pass", points))
  BY DEF ComparisonPasses
<1>3. CandidateRow = stages[2].row
  <2>1. DOMAIN stages = 1 .. 3 /\ stages[1] = a /\ stages[2] = b /\ stages[3] = c
    BY <1>1
  <2>2. \A i \in DOMAIN stages : stages[i].name = "reproduce" <=> i = 2
    BY <1>1, <2>1 DEF IsStructure, IsReproduced, IsCorners
  <2>3. (CHOOSE i \in DOMAIN stages : stages[i].name = "reproduce") = 2
    BY <2>1, <2>2
  <2> QED
    BY <2>3 DEF CandidateRow
<1>4. /\ UNCHANGED <<addresses, incumbent, outcome>>
      /\ curating = "comparison" /\ curating' = "describing"
  BY DEF ComparisonPasses
<1>5. Better(stages, addresses, incumbent)
  BY <1>4 DEF MatchInv
<1>6. stages' = <<a, b, c, Comparison("pass", points)>>
  BY <1>1, <1>2, AppendedFourth
<1>7. stages'[2] = stages[2] /\ stages'[4].row = points
  BY <1>1, <1>6 DEF Comparison, Stage
<1>8. Better(stages', addresses', incumbent')
  BY <1>4, <1>5, <1>7 DEF Better
<1>9. incumbent \in points /\ points \subseteq SlotRows
  BY <1>5 DEF Compared, Better
<1>10. Complete(stages[2].row)
  BY <1>1 DEF IsReproduced
<1>11. NotMatched(stages', incumbent')
  BY <1>2, <1>3, <1>4, <1>7, <1>9, <1>10 DEF NotMatched
<1>12. incumbent' \in SlotRows
  BY <1>8 DEF Better
<1> QED
  BY <1>4, <1>8, <1>11, <1>12, StepMatches

LEMMA AdmitMatch ==
  ASSUME MatchInv, Admit
  PROVE  MatchInv'
<1>1. /\ curating = "describing" /\ incumbent' = incumbent
      /\ Better(stages, addresses, incumbent) /\ NotMatched(stages, incumbent)
  BY DEF Admit, MatchInv
<1>2. PICK by : Finalize("ADMIT", stages, by)
  BY DEF Admit
<1>3. incumbent \in SlotRows
  BY <1>1 DEF Better
<1> QED
  BY <1>1, <1>2, <1>3, FinalizedMatch

LEMMA WritingMatch ==
  ASSUME MatchInv, WriteJson \/ WriteCandidate \/ WriteReport \/ CurationDies
                     \/ UNCHANGED curationVars
  PROVE  MatchInv'
<1>1. /\ UNCHANGED <<addresses, incumbent, stages, outcome>>
      /\ (curating \in {"writing", "over"} /\ curating' \in {"writing", "over"})
         \/ curating' = curating
  BY DEF WriteJson, WriteCandidate, WriteReport, CurationDies, Write, curationVars, context
<1> QED
  BY <1>1 DEF MatchInv, Better, NotMatched, Improved, CriterionNames, CriterionOf, Complete,
     DominatingPoints, Matches

-----------------------------------------------------------------------------
LEMMA Implied == IInv => AdmittedBodyPassedEveryStage
<1> SUFFICES ASSUME IInv, written.topology_candidate = "entry"
             PROVE  AdmittedBodyPassedEveryStage
  BY DEF AdmittedBodyPassedEveryStage
<1>1. written.topology_candidate # None
  BY CurationAssumption
<1>2. curating \in {"writing", "over"}
  BY <1>1 DEF IInv, FilesInv, NoFiles
<1>3. outcome.verdict = "ADMIT" /\ written.curation_json = "ADMIT"
  BY <1>1 DEF IInv, FilesInv, Snippet
<1>4. PICK a, b, c, d :
        /\ outcome.stages = <<a, b, c, d>>
        /\ IsStructure(a, outcome.candidate) /\ IsReproduced(b, outcome.candidate)
        /\ IsCorners(c, outcome.candidate, outcome.addresses)
        /\ IsCompared(d, outcome.candidate)
  BY <1>2, <1>3 DEF IInv, OutcomeInv, AllPassed
<1>5. /\ Len(outcome.stages) = 4 /\ DOMAIN outcome.stages = 1 .. 4
      /\ outcome.stages[1] = a /\ outcome.stages[2] = b
      /\ outcome.stages[3] = c /\ outcome.stages[4] = d
  BY <1>4
<1>6. outcome.verified_at = IF Provenance = "authored" THEN "corners" ELSE "nominal"
  BY <1>2, <1>4, <1>5 DEF IInv, OutcomeInv, VerifiedAt, IsStructure, IsReproduced, IsCorners,
     IsCompared
<1>7. ASSUME Provenance = "authored", NEW n \in outcome.addresses
      PROVE  BeatsOn(n, c.row.candidate, c.row.incumbent, c.row.incumbent)
  <2> DEFINE w == c.row.candidate
             v == c.row.incumbent
             k == CriterionOf(n)
  <2>1. w \in SlotRows /\ v \in SlotRows /\ n \in Improved(w, v)
    BY <1>4, <1>7 DEF IsCorners, HeldUp
  <2>2. /\ Measured(w, k) # None /\ Measured(v, k) # None
        /\ IsBetter(k, Measured(w, k), Measured(v, k))
    BY <2>1 DEF Improved
  <2>3. BeatsOn(n, w, v, v) <=> Beats(k, w[k.measurement], v[k.measurement], v[k.measurement])
    BY DEF BeatsOn
  <2> HIDE DEF w, v, k
  <2>4. /\ w[k.measurement] \in Int /\ Measured(w, k) = w[k.measurement]
        /\ v[k.measurement] \in Int /\ Measured(v, k) = v[k.measurement]
    BY <2>1, <2>2, MeasuredInt
  <2>5. BeatsOn(n, w, v, v)
    BY <2>2, <2>3, <2>4, OutsideTheBand
  <2> QED
    BY <2>5 DEF w, v
<1>8. Provenance = "authored" =>
        /\ c.status = "pass"
        /\ Complete(c.row.candidate) /\ Complete(c.row.incumbent)
  BY <1>4 DEF IsCorners, HeldUp
<1>9. Provenance # "authored" => c.status = "skipped"
  BY <1>4 DEF IsCorners
<1> QED
  BY <1>3, <1>4, <1>5, <1>6, <1>7, <1>8, <1>9 DEF AdmittedBodyPassedEveryStage, IsStructure,
     IsReproduced, IsCorners, IsCompared

LEMMA Inductive == CurationSpec => [](IInv /\ MatchInv)
<1>1. CurationInit => IInv /\ MatchInv
  BY InitInv, MatchInit
<1>2. IInv /\ [CurationNext]_curationVars => IInv'
  BY RefusingStep, StructureStep, ReproduceStep, CornersStep, ComparisonStep, AdmitStep,
     WritingStep DEF CurationNext
<1>3. IInv /\ MatchInv /\ [CurationNext]_curationVars => MatchInv'
  BY RefusingMatch, EarlyMatch, ReproduceMatch, CornersMatch, ComparisonMatch, AdmitMatch,
     WritingMatch DEF CurationNext
<1> QED
  BY <1>1, <1>2, <1>3, PTL DEF CurationSpec

(* A library entry that can be used is the body that passed every stage    *)
(* that applies to it, in order and none of another attempt; an authored   *)
(* one beats the incumbent, worst corner against worst corner, on each     *)
(* criterion that the entry says it addresses (curation.py:819-1030,       *)
(* cli_curate.py:484-614, 680-748).                                        *)
THEOREM NothingUntestedIsAdmitted == CurationSpec => []AdmittedBodyPassedEveryStage
  BY Inductive, Implied, PTL

LEMMA NothingMatches == MatchInv => AdmittedBodyIsNotMatched
<1> SUFFICES ASSUME MatchInv, outcome # None, outcome.verdict = "ADMIT"
             PROVE  AdmittedBodyIsNotMatched
  BY DEF AdmittedBodyIsNotMatched
<1> DEFINE row == outcome.stages[2].row
           points == outcome.stages[4].row
<1>1. /\ Better(outcome.stages, outcome.addresses, incumbent)
      /\ NotMatched(outcome.stages, incumbent)
  BY DEF MatchInv
<1>2. /\ row \in SlotRows /\ Complete(row) /\ incumbent \in points
      /\ points \subseteq SlotRows /\ DominatingPoints(points, row) = {}
  BY <1>1 DEF Better, NotMatched
<1>3. outcome.addresses = Improved(row, incumbent) /\ incumbent \in SlotRows
  BY <1>1 DEF Better
<1> HIDE DEF row, points
<1>4. ASSUME NEW p \in points \cup {incumbent}, Complete(p)
      PROVE  \E i \in DOMAIN SlotCriteria :
               LET c == SlotCriteria[i]
               IN  Beats(c, row[c.measurement], p[c.measurement], row[c.measurement])
  <2>1. p \in SlotRows /\ ~ Matches(p, row)
    BY <1>2, <1>4 DEF DominatingPoints
  <2>2. PICK i \in DOMAIN SlotCriteria :
          LET c == SlotCriteria[i] IN ~ AtLeastAsGood(c, p[c.measurement], row[c.measurement])
    BY <2>1 DEF Matches
  <2>3. /\ p[SlotCriteria[i].measurement] \in Int
        /\ row[SlotCriteria[i].measurement] \in Int
    BY <1>2, <1>4, <2>1, MeasuredInt DEF Complete
  <2> QED
    BY <2>2, <2>3, OutsideTheBand
<1>5. ASSUME NEW n \in CriterionNames
      PROVE  n \in outcome.addresses <=>
               /\ Measured(incumbent, CriterionOf(n)) # None
               /\ BeatsOn(n, row, incumbent, incumbent)
  <2> DEFINE c == CriterionOf(n)
  <2>1. PICK i \in DOMAIN SlotCriteria : c = SlotCriteria[i]
    BY DEF CriterionNames, CriterionOf
  <2>2. Measured(row, c) # None
    BY <1>2, <2>1 DEF Complete
  <2>3. n \in outcome.addresses <=>
          /\ Measured(incumbent, c) # None
          /\ IsBetter(c, Measured(row, c), Measured(incumbent, c))
    BY <1>3, <2>2 DEF Improved
  <2>4. BeatsOn(n, row, incumbent, incumbent) <=>
          Beats(c, row[c.measurement], incumbent[c.measurement], incumbent[c.measurement])
    BY DEF BeatsOn
  <2> HIDE DEF c
  <2>5. CASE Measured(incumbent, c) # None
    <3>1. /\ row[c.measurement] \in Int /\ Measured(row, c) = row[c.measurement]
          /\ incumbent[c.measurement] \in Int
          /\ Measured(incumbent, c) = incumbent[c.measurement]
      BY <1>2, <1>3, <2>2, <2>5, MeasuredInt
    <3>2. IsBetter(c, row[c.measurement], incumbent[c.measurement]) <=>
            Beats(c, row[c.measurement], incumbent[c.measurement], incumbent[c.measurement])
      BY <3>1, OutsideTheBand
    <3> QED
      BY <2>3, <2>4, <2>5, <3>1, <3>2 DEF c
  <2> QED
    BY <2>3, <2>5 DEF c
<1> QED
  BY <1>4, <1>5 DEF AdmittedBodyIsNotMatched, row, points

(* Tuning does not get to an admitted body: the incumbent, as it is and at *)
(* every point of its single-knob sweep that was measured in full, is      *)
(* beaten by the body somewhere by more than the tolerance; and the entry  *)
(* addresses exactly the criteria where the body beats the incumbent.      *)
(* Other topologies of the library are not compared, neither here nor in   *)
(* the code (curation.py:540-568, 640-666, 1033-1071, 1224-1583).          *)
THEOREM NothingMatchesTheAdmitted == CurationSpec => []AdmittedBodyIsNotMatched
  BY Inductive, NothingMatches, PTL
=============================================================================
