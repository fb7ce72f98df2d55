--------------------------- MODULE OptimizerProofs ---------------------------
(***************************************************************************)
(* Whatever the simulations show and the agent proposes, for every set of  *)
(* knobs, every strategy and every step budget: with corners, the two      *)
(* phases leave a deck on top whose own sweep passed; that deck is the one *)
(* the run started from or one measured to be better; and MADS gives up    *)
(* only where no point is left.                                            *)
(*                                                                         *)
(* Inductive invariant of the first: the stack stands as many versions     *)
(* above the anchor as steps were accepted, the sweep in hand is the       *)
(* anchor's, or in the bisection that of its lower end, and the area       *)
(* phase's result speaks of the deck that the objective phase started      *)
(* from.  The other two strengthen it, below.                              *)
(***************************************************************************)
EXTENDS Optimizer, SequenceTheorems, FiniteSetTheorems, NaturalsInduction, WellFoundedInduction,
        TLAPS

Searching == {"rank", "search", "judge", "landing", "bisect"}
Working == Searching \cup {"baseline", "entry"}
Over == {"front", "done"}

IsStack(s) == (\E S : s \in Seq(S)) /\ Len(s) >= 1
Passing(v) == [version |-> v, overall_pass |-> TRUE]

StackInv ==
  /\ IsStack(stack)
  /\ anchor \in Nat
  /\ pc \in Working =>
       accepted \in Nat /\ Version = anchor + accepted + (IF pc = "judge" THEN 1 ELSE 0)
  /\ pc \in {"baseline", "entry"} => accepted = 0

SweepInv ==
  /\ pc \in Working /\ ~run.corners => sweep = NoSweep /\ pc \notin {"entry", "bisect"}
  /\ pc \in Searching \ {"bisect"} /\ run.corners =>
       sweep = Passing(anchor) /\ DeckAt(anchor) \in passes
  /\ pc = "bisect" =>
       /\ interval.lo \in Nat /\ interval.hi \in Nat
       /\ anchor <= interval.lo /\ interval.lo <= interval.hi /\ interval.hi <= Version
       /\ DOMAIN interval = {"lo", "hi"}
       /\ sweep = Passing(interval.lo) /\ DeckAt(interval.lo) \in passes

RecordsInv ==
  pc \in Searching \cup {"entry"} => IsFiniteSet(DOMAIN records) /\ anchor \in DOMAIN records

(* The area phase's result, about version v, whose deck is d.              *)
AreaHolds(v, d) ==
  run.corners /\ results["area"].points # <<>> =>
    results["area"].pvt_sweep = Passing(v) /\ d \in passes

ResultsInv ==
  /\ DOMAIN results = {"area", "objective"}
  /\ phase \in {"area", "objective"}
  /\ pc = "area_setup" => phase = "area"
  /\ phase = "objective" /\ pc = "begin" => AreaHolds(Version, Top)
  /\ phase = "objective" /\ pc \in Working => AreaHolds(anchor, DeckAt(anchor))
  /\ pc \in Over => LandsWhereASweepPassed

IInv ==
  /\ pc \in Working \cup Over \cup {"area_setup", "begin"}
  /\ StackInv /\ SweepInv /\ RecordsInv /\ ResultsInv

(* What the end of a phase must leave: a result whose sweep is that of the *)
(* deck on top.                                                            *)
Good(result, v, d, ps, fs) ==
  /\ run.corners /\ result.points # <<>> => result.pvt_sweep = Passing(v) /\ d \in ps
  /\ result.pvt_sweep.version # None =>
       /\ result.pvt_sweep.version = v
       /\ d \in IF result.pvt_sweep.overall_pass THEN ps ELSE fs

-----------------------------------------------------------------------------
LEMMA Pushed ==
  ASSUME NEW s, IsStack(s), NEW d
  PROVE  /\ IsStack(Append(s, d)) /\ Len(Append(s, d)) = Len(s) + 1 /\ Len(s) \in Nat
         /\ \A i \in 1 .. Len(s) : Append(s, d)[i] = s[i]
<1>1. PICK S : s \in Seq(S)
  BY DEF IsStack
<1>2. s \in Seq(S \cup {d})
  BY <1>1
<1>3. Append(s, d) \in Seq(S \cup {d})
  BY <1>2
<1>4. Len(Append(s, d)) = Len(s) + 1 /\ Len(s) \in Nat
  BY <1>2, AppendProperties
<1>5. \A i \in 1 .. Len(s) : Append(s, d)[i] = s[i]
  BY <1>2, AppendProperties
<1>6. Len(s) >= 1
  BY DEF IsStack
<1>7. Len(Append(s, d)) >= 1
  BY <1>4, <1>6
<1> QED
  BY <1>3, <1>4, <1>5, <1>7 DEF IsStack

LEMMA Popped ==
  ASSUME IsStack(stack), NEW v \in Nat, v <= Version
  PROVE  /\ IsStack(PopTo(v)) /\ Len(PopTo(v)) = v + 1 /\ Len(stack) \in Nat
         /\ \A i \in 1 .. v + 1 : PopTo(v)[i] = stack[i]
<1>1. PICK S : stack \in Seq(S)
  BY DEF IsStack
<1>2. Len(stack) \in Nat /\ v + 1 <= Len(stack)
  BY <1>1, LenProperties DEF Version
<1>3. \A i \in 1 .. v + 1 : stack[i] \in S
  BY <1>1, <1>2
<1>4. /\ PopTo(v) \in Seq(S) /\ Len(PopTo(v)) = v + 1
      /\ \A i \in 1 .. v + 1 : PopTo(v)[i] = stack[i]
  BY <1>3, SubSeqProperties DEF PopTo
<1> QED
  BY <1>2, <1>4 DEF IsStack

LEMMA VersionIsNat == IInv => Version \in Nat /\ Len(stack) \in Nat /\ Len(stack) = Version + 1
<1> SUFFICES ASSUME IInv PROVE Version \in Nat /\ Len(stack) \in Nat /\ Len(stack) = Version + 1
  OBVIOUS
<1>1. PICK S : stack \in Seq(S)
  BY DEF IInv, StackInv, IsStack
<1>2. Len(stack) \in Nat /\ Len(stack) >= 1
  BY <1>1, LenProperties DEF IInv, StackInv, IsStack
<1> QED
  BY <1>2 DEF Version

(* A search has a point for every version measured.                        *)
LEMMA FinalHasPoints ==
  ASSUME IsFiniteSet(DOMAIN records), anchor \in DOMAIN records,
         NEW status, NEW landed, NEW survived, NEW walked_back, NEW swept
  PROVE  /\ Final(status, landed, survived, walked_back, swept).points # <<>>
         /\ Final(status, landed, survived, walked_back, swept).pvt_sweep = swept
<1> DEFINE n == Cardinality(DOMAIN records)
<1>1. n \in Nat /\ n # 0
  BY FS_CardinalityType, FS_EmptySet
<1> HIDE DEF n
<1>2. \A f : DOMAIN f = 1 .. n => f # <<>>
  BY <1>1
<1>3. DOMAIN Final(status, landed, survived, walked_back, swept).points = 1 .. n
  BY DEF Final, n
<1> QED
  BY <1>2, <1>3 DEF Final

LEMMA InitInv == Init => IInv
<1> SUFFICES ASSUME Init PROVE IInv
  OBVIOUS
<1>1. stack \in Seq({Start}) /\ Len(stack) = 1
  BY DEF Init
<1>2. StackInv
  <2>1. IsStack(stack)
    BY <1>1 DEF IsStack
  <2> QED
    BY <2>1 DEF Init, StackInv, Working, Searching
<1>3. SweepInv /\ RecordsInv /\ ResultsInv
  BY DEF Init, SweepInv, RecordsInv, ResultsInv, Working, Searching, Over
<1> QED
  BY <1>2, <1>3 DEF Init, IInv

(* A phase ends: what its result says is true of the deck left on top, or  *)
(* it says nothing and that deck is the one it was given.                  *)
LEMMA PhaseEnds ==
  ASSUME IInv, pc \notin Over, NEW result, EndPhase(result), UNCHANGED run, anchor' \in Nat,
         IsStack(stack'),
         Good(result, Version', Top', passes', fails'),
         phase = "objective" /\ result.points = <<>> /\ run.corners
           /\ results["area"].points # <<>>
           => results["area"].pvt_sweep = Passing(Version') /\ Top' \in passes'
  PROVE  IInv'
<1>1. DOMAIN results = {"area", "objective"} /\ results' = [results EXCEPT ![phase] = result]
  BY DEF IInv, ResultsInv, EndPhase
<1>2. CASE phase = "area"
  <2>1. phase' = "objective" /\ pc' = "begin" /\ results'["area"] = result
        /\ DOMAIN results' = {"area", "objective"}
    BY <1>1, <1>2 DEF EndPhase
  <2>2. ResultsInv'
    BY <2>1 DEF ResultsInv, AreaHolds, Good, Working, Searching, Over
  <2> QED
    BY <2>1, <2>2 DEF IInv, StackInv, SweepInv, RecordsInv, Working, Searching, Over
<1>3. CASE phase = "objective"
  <2>1. /\ phase' = "objective" /\ pc' = "front" /\ results'["objective"] = result
        /\ results'["area"] = results["area"] /\ DOMAIN results' = {"area", "objective"}
    BY <1>1, <1>3 DEF EndPhase
  <2>2. LandsWhereASweepPassed'
    BY <1>3, <2>1 DEF LandsWhereASweepPassed, Landed, LastSearch, Good, Passing
  <2>3. ResultsInv'
    BY <2>1, <2>2 DEF ResultsInv, Working, Searching, Over
  <2> QED
    BY <2>1, <2>3 DEF IInv, StackInv, SweepInv, RecordsInv, Working, Searching, Over
<1> QED
  BY <1>2, <1>3 DEF IInv, ResultsInv
LEMMA UnsearchedShowsItsSweep ==
  ASSUME NEW status, NEW objective, NEW area, NEW swept
  PROVE  /\ Unsearched(status, objective, area, swept).points = <<>>
         /\ Unsearched(status, objective, area, swept).pvt_sweep = swept
  BY DEF Unsearched

(* A phase that never searched, and kept the stack.                        *)
LEMMA UnsearchedEnds ==
  ASSUME IInv, pc \in {"area_setup", "begin", "baseline", "entry"},
         NEW status, NEW objective, NEW area, NEW swept,
         EndPhase(Unsearched(status, objective, area, swept)),
         UNCHANGED <<run, stack, anchor>>,
         passes \subseteq passes',
         swept.version # None =>
           /\ swept.version = Version
           /\ Top \in IF swept.overall_pass THEN passes' ELSE fails'
  PROVE  IInv'
<1> DEFINE result == Unsearched(status, objective, area, swept)
<1>1. result.points = <<>> /\ result.pvt_sweep = swept
  BY UnsearchedShowsItsSweep
<1>2. Version' = Version /\ Top' = Top /\ pc \notin Over
  BY DEF Version, Top, DeckAt, Over
<1>3. Good(result, Version', Top', passes', fails')
  BY <1>1, <1>2 DEF Good
<1>4. pc \in {"baseline", "entry"} => Version = anchor
  BY DEF IInv, StackInv, Working, Searching, Version
<1>5. phase = "objective" /\ run.corners /\ results["area"].points # <<>>
        => results["area"].pvt_sweep = Passing(Version') /\ Top' \in passes'
  BY <1>2, <1>4 DEF IInv, ResultsInv, AreaHolds, Working, Top
<1>6. IsStack(stack') /\ anchor' \in Nat
  BY DEF IInv, StackInv
<1> QED
  BY <1>2, <1>3, <1>5, <1>6, PhaseEnds

LEMMA SkippingStep ==
  ASSUME IInv, AreaRefused \/ AreaSetupFails \/ ObjectiveSkipped \/ BaselineUnmeasured
  PROVE  IInv'
<1>1. /\ pc \in {"area_setup", "begin", "baseline"}
      /\ UNCHANGED <<run, stack, anchor, passes, fails>>
      /\ \E status, objective, area : EndPhase(Unsearched(status, objective, area, NoSweep))
  BY DEF AreaRefused, AreaSetupFails, ObjectiveSkipped, BaselineUnmeasured, checks
<1>2. NoSweep.version = None
  BY DEF NoSweep
<1> QED
  BY <1>1, <1>2, UnsearchedEnds

LEMMA AreaRanksStep ==
  ASSUME IInv, AreaRanks
  PROVE  IInv'
<1>1. /\ pc = "area_setup" /\ pc' = "begin" /\ phase = "area"
      /\ UNCHANGED <<run, phase, stack, anchor, results>>
  BY DEF AreaRanks, IInv, ResultsInv
<1> QED
  BY <1>1 DEF IInv, StackInv, SweepInv, RecordsInv, ResultsInv, Working, Searching, Over

LEMMA EnterStep ==
  ASSUME IInv, EnterPhase
  PROVE  IInv'
<1>1. stack' = stack
  BY DEF EnterPhase, Given
<1>2. /\ pc = "begin" /\ pc' = "baseline" /\ anchor' = Version /\ sweep' = NoSweep
      /\ accepted' = 0 /\ UNCHANGED <<run, phase, records, passes, results>>
  BY <1>1 DEF EnterPhase, FreshSearch, Version
<1>3. Version \in Nat /\ Version' = Version
  BY <1>1, VersionIsNat DEF Version
<1>4. StackInv'
  BY <1>1, <1>2, <1>3 DEF IInv, StackInv
<1>5. SweepInv' /\ RecordsInv'
  BY <1>2 DEF SweepInv, RecordsInv, Working, Searching
<1>6. ResultsInv'
  BY <1>1, <1>2 DEF IInv, ResultsInv, AreaHolds, Working, Searching, Over, Top, DeckAt
<1> QED
  BY <1>2, <1>4, <1>5, <1>6 DEF IInv, Working

LEMMA BaselineStep ==
  ASSUME IInv, Baseline
  PROVE  IInv'
<1>1. /\ pc = "baseline" /\ pc' = IF run.corners THEN "entry" ELSE "rank"
      /\ UNCHANGED <<run, phase, stack, anchor, accepted, interval, sweep, passes, results>>
      /\ DOMAIN records' = {anchor}
  BY DEF Baseline, checks
<1>2. RecordsInv'
  BY <1>1, FS_Singleton DEF RecordsInv
<1>3. StackInv' /\ SweepInv' /\ ResultsInv'
  BY <1>1 DEF IInv, StackInv, SweepInv, ResultsInv, AreaHolds, Version, DeckAt, Working,
     Searching, Over
<1> QED
  BY <1>1, <1>2, <1>3 DEF IInv, Working, Searching
LEMMA EntryStep ==
  ASSUME IInv, EntrySweep
  PROVE  IInv'
<1>1. PICK outcome \in {"pass", "fail", "raised"} :
        /\ SweepOf(anchor, outcome)
        /\ sweep' = Swept(anchor, outcome)
        /\ IF outcome = "pass"
           THEN pc' = "rank" /\ UNCHANGED <<phase, results>>
           ELSE EndPhase(Unsearched("UNCHANGED", before, AreaOf(Top), sweep'))
  BY DEF EntrySweep
<1>2. /\ pc = "entry"
      /\ UNCHANGED <<run, stack, anchor, accepted, records, interval>>
  BY DEF EntrySweep, search
<1>3. Version = anchor /\ Top = DeckAt(anchor)
  BY <1>2 DEF IInv, StackInv, Working, Top
<1>4. passes \subseteq passes'
  BY <1>1 DEF SweepOf
<1>5. CASE outcome = "pass"
  <2>1. sweep' = Passing(anchor) /\ DeckAt(anchor) \in passes' /\ pc' = "rank"
        /\ UNCHANGED <<phase, results>>
    BY <1>1, <1>5 DEF Swept, Passing, SweepOf
  <2>2. run.corners
    BY <1>2 DEF IInv, SweepInv, Working
  <2> QED
    BY <1>2, <1>4, <2>1, <2>2 DEF IInv, StackInv, SweepInv, RecordsInv, ResultsInv, AreaHolds,
       Version, DeckAt, Working, Searching, Over
<1>6. CASE outcome # "pass"
  <2>1. EndPhase(Unsearched("UNCHANGED", before, AreaOf(Top), Swept(anchor, outcome)))
    BY <1>1, <1>6
  <2>2. LET swept == Swept(anchor, outcome)
        IN  swept.version # None =>
              /\ swept.version = Version
              /\ Top \in IF swept.overall_pass THEN passes' ELSE fails'
    BY <1>1, <1>3, <1>6 DEF Swept, NoSweep, SweepOf
  <2> QED
    BY <1>2, <1>4, <2>1, <2>2, UnsearchedEnds
<1> QED
  BY <1>5, <1>6

LEMMA RankStep ==
  ASSUME IInv, Rank
  PROVE  IInv'
<1>1. /\ pc = "rank" /\ pc' = "search"
      /\ UNCHANGED <<run, phase, stack, anchor, accepted, records, interval, sweep, passes,
                     results>>
  BY DEF Rank, checks
<1> QED
  BY <1>1 DEF IInv, StackInv, SweepInv, RecordsInv, ResultsInv, AreaHolds, Version, DeckAt,
     Working, Searching, Over

-----------------------------------------------------------------------------
(* The steps of a search that try nothing.                                 *)
LEMMA SearchStep ==
  ASSUME IInv, \/ SearchOver \/ LeadStops \/ PartnerStops \/ DescentOutgrows
               \/ FirstPoll \/ OpenPoll \/ PollOutgrows \/ PollOutOfSteps \/ ClosePoll
  PROVE  IInv'
<1>1. /\ pc = "search" /\ pc' \in {"search", "landing"}
      /\ UNCHANGED <<run, phase, stack, anchor, accepted, records, interval, sweep, passes,
                     results>>
  BY DEF SearchOver, LeadStops, PartnerStops, DescentOutgrows, FirstPoll, OpenPoll,
     PollOutgrows, PollOutOfSteps, ClosePoll, SearchFrame, checks, Descends, CanDescend, Polls,
     CanTry
<1> QED
  BY <1>1 DEF IInv, StackInv, SweepInv, RecordsInv, ResultsInv, AreaHolds, Version, DeckAt,
     Working, Searching, Over

(* A move is pushed above the anchor.                                      *)
LEMMA PushStep ==
  ASSUME IInv, Descend \/ TryPoint
  PROVE  IInv'
<1>1. /\ pc = "search" /\ pc' = "judge"
      /\ UNCHANGED <<run, phase, anchor, accepted, records, interval, sweep, passes, results>>
      /\ \E d : stack' = Append(stack, d)
  BY DEF Descend, TryPoint, PushMove, SearchFrame, checks, CanDescend, Descends, CanTry, Polls
<1>2. /\ IsStack(stack') /\ Len(stack') = Len(stack) + 1 /\ Len(stack) \in Nat
      /\ \A i \in 1 .. Len(stack) : stack'[i] = stack[i]
  BY <1>1, Pushed DEF IInv, StackInv
<1>3. anchor \in Nat /\ accepted \in Nat /\ Version = anchor + accepted
  BY <1>1 DEF IInv, StackInv, Working, Searching
<1>4. Version' = anchor' + accepted' + 1 /\ anchor + 1 \in 1 .. Len(stack)
  BY <1>1, <1>2, <1>3 DEF Version
<1>5. DeckAt(anchor)' = DeckAt(anchor)
  BY <1>1, <1>2, <1>4 DEF DeckAt
<1>6. StackInv'
  BY <1>1, <1>2, <1>3, <1>4 DEF StackInv
<1> QED
  BY <1>1, <1>5, <1>6 DEF IInv, SweepInv, RecordsInv, ResultsInv, AreaHolds,
     Working, Searching, Over

(* It is kept and measured, or taken back.                                 *)
LEMMA JudgeStep ==
  ASSUME IInv, JudgeDescent \/ JudgePoint
  PROVE  IInv'
<1>1. /\ pc = "judge" /\ pc' = "search"
      /\ UNCHANGED <<run, phase, anchor, interval, sweep, passes, results>>
      /\ (\E value : Accept(value)) \/ (\E code : Discard(code))
  BY DEF JudgeDescent, JudgePoint, SearchFrame, checks
<1>2. /\ anchor \in Nat /\ accepted \in Nat /\ Version = anchor + accepted + 1
      /\ IsStack(stack) /\ Len(stack) = Version + 1
      /\ IsFiniteSet(DOMAIN records) /\ anchor \in DOMAIN records
  BY <1>1, VersionIsNat DEF IInv, StackInv, RecordsInv, Working, Searching
<1>3. CASE \E value : Accept(value)
  <2>1. /\ stack' = stack /\ accepted' = accepted + 1
        /\ DOMAIN records' = DOMAIN records \cup {Version}
    BY <1>3 DEF Accept
  <2>2. RecordsInv'
    BY <1>1, <1>2, <2>1, FS_AddElement DEF RecordsInv
  <2>3. StackInv'
    BY <1>1, <1>2, <2>1 DEF StackInv, Version
  <2> QED
    BY <1>1, <2>1, <2>2, <2>3 DEF IInv, SweepInv, ResultsInv, AreaHolds, DeckAt,
       Working, Searching, Over
<1>4. CASE \E code : Discard(code)
  <2>1. stack' = PopTo(Version - 1) /\ UNCHANGED <<accepted, records>>
    BY <1>4 DEF Discard
  <2>2. Version - 1 \in Nat /\ Version - 1 <= Version /\ Version - 1 = anchor + accepted
    BY <1>2
  <2>3. /\ IsStack(stack') /\ Len(stack') = (Version - 1) + 1
        /\ \A i \in 1 .. (Version - 1) + 1 : stack'[i] = stack[i]
    BY <1>2, <2>1, <2>2, Popped
  <2>4. Version' = anchor' + accepted' /\ anchor + 1 \in 1 .. (Version - 1) + 1
    BY <1>1, <1>2, <2>1, <2>2, <2>3 DEF Version
  <2>5. DeckAt(anchor)' = DeckAt(anchor)
    BY <1>1, <2>3, <2>4 DEF DeckAt
  <2>6. StackInv'
    BY <1>1, <1>2, <2>1, <2>3, <2>4 DEF StackInv
  <2> QED
    BY <1>1, <2>1, <2>5, <2>6 DEF IInv, SweepInv, RecordsInv, ResultsInv, AreaHolds,
       Working, Searching, Over
<1> QED
  BY <1>1, <1>3, <1>4
-----------------------------------------------------------------------------
(* A phase that searched ends with the sweep of the deck it leaves on top, *)
(* or, without corners, with none.                                         *)
LEMMA SearchedEnds ==
  ASSUME IInv, pc \in Searching,
         NEW status, NEW landed, NEW survived, NEW walked_back, NEW swept,
         EndPhase(Final(status, landed, survived, walked_back, swept)),
         UNCHANGED <<run, anchor>>, IsStack(stack'),
         IF run.corners THEN swept = Passing(Version') /\ Top' \in passes' ELSE swept = NoSweep
  PROVE  IInv'
<1> DEFINE result == Final(status, landed, survived, walked_back, swept)
<1>1. result.points # <<>> /\ result.pvt_sweep = swept
  BY FinalHasPoints DEF IInv, RecordsInv
<1> HIDE DEF result
<1>2. Good(result, Version', Top', passes', fails')
  BY <1>1 DEF Good, Passing, NoSweep
<1>3. pc \notin Over /\ anchor' \in Nat
  BY DEF Searching, Over, IInv, StackInv
<1>4. EndPhase(result)
  BY DEF result
<1> QED
  BY <1>1, <1>2, <1>3, <1>4, PhaseEnds

LEMMA UnsweptStep ==
  ASSUME IInv, LandUnswept
  PROVE  IInv'
<1>1. /\ pc = "landing" /\ (~run.corners \/ accepted = 0)
      /\ EndPhase(Final(Status(accepted), Version, accepted, 0, sweep))
      /\ UNCHANGED <<run, anchor, stack, passes>>
  BY DEF LandUnswept, LandingFrame, checks
<1>2. pc = "landing"
  BY DEF LandUnswept
<1>3. anchor \in Nat /\ accepted \in Nat /\ Version = anchor + accepted
  BY <1>2 DEF IInv, StackInv, Working, Searching
<1>4. Version' = Version /\ Top' = Top /\ IsStack(stack')
  BY <1>1 DEF Version, Top, DeckAt, IInv, StackInv
<1>5. IF run.corners THEN sweep = Passing(Version') /\ Top' \in passes' ELSE sweep = NoSweep
  <2>1. CASE run.corners
    <3>1. accepted = 0
      BY <2>1 DEF LandUnswept
    <3>2. Version = anchor
      BY <1>3, <3>1
    <3> QED
      BY <1>1, <1>2, <1>4, <2>1, <3>2 DEF IInv, SweepInv, Searching, Top
  <2>2. CASE ~run.corners
    BY <1>2, <2>2 DEF IInv, SweepInv, Working, Searching
  <2> QED
    BY <2>1, <2>2
<1> QED
  BY <1>1, <1>2, <1>4, <1>5, SearchedEnds DEF Searching

LEMMA ConfirmStep ==
  ASSUME IInv, Confirm
  PROVE  IInv'
<1>1. PICK outcome \in {"pass", "fail", "raised"} :
        /\ SweepOf(Version, outcome)
        /\ IF outcome = "pass"
           THEN /\ EndPhase(Final("OPTIMIZED", Version, accepted, 0, Swept(Version, "pass")))
                /\ UNCHANGED interval
           ELSE /\ interval' = [lo |-> anchor, hi |-> Version]
                /\ pc' = "bisect"
                /\ UNCHANGED <<phase, results>>
  BY DEF Confirm
<1>2. /\ pc = "landing" /\ run.corners
      /\ UNCHANGED <<run, anchor, accepted, records, stack, sweep>>
  BY DEF Confirm, LandingFrame, search
<1>3. Version' = Version /\ Top' = Top /\ IsStack(stack') /\ Version \in Nat
  BY <1>2, VersionIsNat DEF Version, Top, DeckAt, IInv, StackInv
<1>4. CASE outcome = "pass"
  <2>1. Swept(Version, "pass") = Passing(Version') /\ Top' \in passes'
    BY <1>1, <1>3, <1>4 DEF Swept, Passing, SweepOf, Top
  <2>2. EndPhase(Final("OPTIMIZED", Version, accepted, 0, Swept(Version, "pass")))
    BY <1>1, <1>4
  <2> QED
    BY <1>2, <1>3, <2>1, <2>2, SearchedEnds DEF Searching
<1>5. CASE outcome # "pass"
  <2>1. /\ interval' = [lo |-> anchor, hi |-> Version] /\ pc' = "bisect"
        /\ UNCHANGED <<phase, results>> /\ passes \subseteq passes'
    BY <1>1, <1>5 DEF SweepOf
  <2>2. anchor \in Nat /\ accepted \in Nat /\ Version = anchor + accepted
    BY <1>2 DEF IInv, StackInv, Working, Searching
  <2>3. SweepInv'
    BY <1>2, <1>3, <2>1, <2>2 DEF IInv, SweepInv, DeckAt, Working, Searching
  <2>4. StackInv' /\ RecordsInv' /\ ResultsInv'
    BY <1>2, <1>3, <2>1, <2>2 DEF IInv, StackInv, RecordsInv, ResultsInv, AreaHolds, DeckAt,
       Working, Searching, Over
  <2> QED
    BY <2>1, <2>3, <2>4 DEF IInv, Working, Searching
<1> QED
  BY <1>4, <1>5

LEMMA ProbeStep ==
  ASSUME IInv, BisectProbe
  PROVE  IInv'
<1>1. PICK outcome \in {"pass", "fail", "raised"} :
        /\ SweepOf(Middle, outcome)
        /\ IF outcome = "pass"
           THEN /\ interval' = [interval EXCEPT !.lo = Middle]
                /\ sweep' = Swept(Middle, "pass")
           ELSE /\ interval' = [interval EXCEPT !.hi = Middle]
                /\ UNCHANGED sweep
  BY DEF BisectProbe
<1>2. /\ pc = "bisect" /\ pc' = "bisect" /\ interval.hi - interval.lo > 1
      /\ UNCHANGED <<run, anchor, accepted, records, phase, stack, results>>
  BY DEF BisectProbe, LandingFrame, search, Bisecting
<1>3. /\ interval.lo \in Nat /\ interval.hi \in Nat /\ anchor \in Nat
      /\ anchor <= interval.lo /\ interval.hi <= Version /\ Version \in Nat
      /\ DOMAIN interval = {"lo", "hi"}
      /\ sweep = Passing(interval.lo) /\ DeckAt(interval.lo) \in passes
  BY <1>2, VersionIsNat DEF IInv, SweepInv, StackInv
<1>4. Middle \in Nat /\ interval.lo <= Middle /\ Middle <= interval.hi
  BY <1>2, <1>3 DEF Middle
<1>5. passes \subseteq passes' /\ Version' = Version
  BY <1>1, <1>2 DEF SweepOf, Version
<1>6. run.corners
  BY <1>2 DEF IInv, SweepInv, Working, Searching
<1>7. SweepInv'
  <2>1. CASE outcome = "pass"
    <3>1. /\ interval'.lo = Middle /\ interval'.hi = interval.hi
          /\ DOMAIN interval' = {"lo", "hi"}
      BY <1>1, <1>3, <2>1
    <3>2. sweep' = Passing(Middle) /\ DeckAt(Middle) \in passes'
      BY <1>1, <2>1 DEF Swept, Passing, SweepOf
    <3> QED
      BY <1>2, <1>3, <1>4, <1>5, <1>6, <3>1, <3>2 DEF SweepInv, DeckAt, Searching
  <2>2. CASE outcome # "pass"
    <3>1. /\ interval'.lo = interval.lo /\ interval'.hi = Middle /\ sweep' = sweep
          /\ DOMAIN interval' = {"lo", "hi"}
      BY <1>1, <1>3, <2>2
    <3> QED
      BY <1>2, <1>3, <1>4, <1>5, <1>6, <3>1 DEF SweepInv, DeckAt, Searching
  <2> QED
    BY <2>1, <2>2
<1>8. StackInv' /\ RecordsInv' /\ ResultsInv'
  BY <1>2, <1>5 DEF IInv, StackInv, RecordsInv, ResultsInv, AreaHolds, DeckAt,
     Working, Searching, Over
<1> QED
  BY <1>2, <1>7, <1>8 DEF IInv, Working, Searching

LEMMA LandsStep ==
  ASSUME IInv, BisectLands
  PROVE  IInv'
<1> DEFINE lo == interval.lo
           survived == lo - anchor
<1>1. /\ pc = "bisect" /\ stack' = PopTo(lo)
      /\ EndPhase(Final(Status(survived), lo, survived, accepted - survived, sweep))
      /\ UNCHANGED <<run, anchor, passes>>
  BY DEF BisectLands, LandingFrame, checks
<1>2. /\ lo \in Nat /\ lo <= Version /\ sweep = Passing(lo) /\ DeckAt(lo) \in passes
      /\ run.corners
  <2>1. /\ interval.lo \in Nat /\ interval.hi \in Nat /\ interval.lo <= interval.hi
        /\ interval.hi <= Version /\ Version \in Nat
    BY <1>1, VersionIsNat DEF IInv, SweepInv
  <2> QED
    BY <1>1, <2>1 DEF IInv, SweepInv, Working, Searching
<1>3. IsStack(stack') /\ Len(stack') = lo + 1 /\ stack'[lo + 1] = stack[lo + 1]
  BY <1>1, <1>2, Popped DEF IInv, StackInv
<1>4. Version' = lo /\ Top' = DeckAt(lo)
  BY <1>2, <1>3 DEF Version, Top, DeckAt
<1>5. IF run.corners THEN sweep = Passing(Version') /\ Top' \in passes' ELSE sweep = NoSweep
  BY <1>1, <1>2, <1>4
<1> QED
  BY <1>1, <1>3, <1>5, SearchedEnds DEF Searching

(* Whatever raises in a phase, the deck it was given is on top again.      *)
LEMMA FailStep ==
  ASSUME IInv, PhaseFails
  PROVE  IInv'
<1>1. PICK area : EndPhase(Unsearched("UNCHANGED", None, area, NoSweep))
  BY DEF PhaseFails
<1>2. /\ pc \in Working \cup {"begin"}
      /\ stack' = IF pc = "begin" THEN stack ELSE PopTo(anchor)
      /\ UNCHANGED <<run, anchor, passes>>
  BY DEF PhaseFails, checks, Working, Searching
<1>3. CASE pc = "begin"
  <2>1. NoSweep.version = None
    BY DEF NoSweep
  <2> QED
    BY <1>1, <1>2, <1>3, <2>1, UnsearchedEnds
<1>4. CASE pc \in Working
  <2> DEFINE result == Unsearched("UNCHANGED", None, area, NoSweep)
  <2>1. /\ anchor \in Nat /\ anchor <= Version /\ stack' = PopTo(anchor)
    <3>1. anchor \in Nat /\ accepted \in Nat
          /\ Version = anchor + accepted + (IF pc = "judge" THEN 1 ELSE 0)
      BY <1>4 DEF IInv, StackInv
    <3> QED
      BY <1>2, <1>4, <3>1 DEF Working, Searching
  <2>2. IsStack(stack') /\ Len(stack') = anchor + 1 /\ stack'[anchor + 1] = stack[anchor + 1]
    BY <2>1, Popped DEF IInv, StackInv
  <2>3. Version' = anchor /\ Top' = DeckAt(anchor)
    BY <2>1, <2>2 DEF Version, Top, DeckAt
  <2>4. result.points = <<>> /\ result.pvt_sweep = NoSweep
    BY UnsearchedShowsItsSweep
  <2>5. Good(result, Version', Top', passes', fails')
    BY <2>4 DEF Good, NoSweep
  <2>6. phase = "objective" /\ run.corners /\ results["area"].points # <<>>
          => results["area"].pvt_sweep = Passing(Version') /\ Top' \in passes'
    BY <1>2, <1>4, <2>3 DEF IInv, ResultsInv, AreaHolds
  <2>7. pc \notin Over /\ anchor' \in Nat
    BY <1>2, <1>4, <2>1 DEF Working, Searching, Over
  <2> QED
    BY <1>1, <1>2, <2>2, <2>5, <2>6, <2>7, PhaseEnds
<1> QED
  BY <1>2, <1>3, <1>4

LEMMA FrontStep ==
  ASSUME IInv, MakeFront \/ UNCHANGED vars
  PROVE  IInv'
<1>1. CASE MakeFront
  <2>1. /\ pc = "front" /\ pc' = "done"
        /\ UNCHANGED <<run, phase, stack, anchor, sweep, passes, fails, results>>
    BY <1>1 DEF MakeFront, checks
  <2>2. LandsWhereASweepPassed'
    BY <2>1 DEF IInv, ResultsInv, Over, LandsWhereASweepPassed, PhasesOver, Landed, LastSearch,
       Version, Top, DeckAt
  <2> QED
    BY <2>1, <2>2 DEF IInv, StackInv, SweepInv, RecordsInv, ResultsInv, Working, Searching, Over
<1>2. CASE UNCHANGED vars
  <2>1. UNCHANGED <<run, pc, phase, stack, anchor, accepted, records, interval, sweep, passes,
                    fails, results>>
    BY <1>2 DEF vars, search, checks
  <2>2. LandsWhereASweepPassed' = LandsWhereASweepPassed
    BY <2>1 DEF LandsWhereASweepPassed, PhasesOver, Landed, LastSearch, Version, Top, DeckAt
  <2> QED
    BY <2>1, <2>2 DEF IInv, StackInv, SweepInv, RecordsInv, ResultsInv, AreaHolds, Version, Top,
       DeckAt
<1> QED
  BY <1>1, <1>2

-----------------------------------------------------------------------------
LEMMA SearchedIsKept == IInv /\ [Next]_vars => IInv'
  BY SkippingStep, AreaRanksStep, EnterStep, BaselineStep, EntryStep, RankStep, SearchStep,
     PushStep, JudgeStep, UnsweptStep, ConfirmStep, ProbeStep, LandsStep, FailStep, FrontStep
     DEF Next

(* With corners, a search ends on a deck whose own sweep passed, for every *)
(* strategy and every budget (optimizer.py:556-558, cli.py:1072-1081).     *)
THEOREM EveryLandingWasSwept == Spec => []LandsWhereASweepPassed
<1>1. Init => IInv
  BY InitInv
<1>2. IInv /\ [Next]_vars => IInv'
  BY SearchedIsKept
<1>3. IInv => LandsWhereASweepPassed
  BY DEF IInv, ResultsInv, LandsWhereASweepPassed, PhasesOver, Over
<1> QED
  BY <1>1, <1>2, <1>3, PTL DEF Spec

-----------------------------------------------------------------------------
(* What the moves are computed with: powers of two, and the area.          *)

(* A set of numbers has a least one; so induction.                         *)
LEMMA LeastNumber ==
  ASSUME NEW T \in SUBSET Nat, T # {}
  PROVE  \E n \in T : \A m \in T : n <= m
<1>1. PICK n \in T : \A m \in T : ~ (<<m, n>> \in OpToRel(<, Nat))
  BY WFMin, NatLessThanWellFounded
<1>2. \A m \in T : ~ (m < n)
  BY <1>1 DEF OpToRel
<1> QED
  BY <1>2

LEMMA Induction ==
  ASSUME NEW T, 0 \in T, \A n \in Nat : n \in T => n + 1 \in T
  PROVE  \A n \in Nat : n \in T
<1> SUFFICES ASSUME Nat \ T # {} PROVE FALSE
  OBVIOUS
<1>1. PICK n \in Nat \ T : \A m \in Nat \ T : n <= m
  BY LeastNumber
<1>2. n # 0 /\ n - 1 \in Nat /\ ~ (n <= n - 1)
  OBVIOUS
<1>3. n - 1 \in T
  BY <1>1, <1>2
<1> QED
  BY <1>2, <1>3

(* The powers of two are what their recursion says.                        *)
Doubles(p, n) == p[0] = 1 /\ \A i \in 0 .. n - 1 : p[i + 1] = 2 * p[i]
Doubling == [Nat -> Nat \ {0}]
LEMMA DoublesExist == \A n \in Nat : \E p \in Doubling : Doubles(p, n)
<1> DEFINE T == {n \in Nat : \E p \in Doubling : Doubles(p, n)}
<1>1. 0 \in T
  <2>1. [i \in Nat |-> 1] \in Doubling /\ Doubles([i \in Nat |-> 1], 0)
    BY DEF Doubling, Doubles
  <2> QED
    BY <2>1
<1>2. ASSUME NEW n \in Nat, n \in T PROVE n + 1 \in T
  <2>1. PICK p \in Doubling : Doubles(p, n)
    BY <1>2
  <2>2. PICK q : q = [p EXCEPT ![n + 1] = 2 * p[n]]
    OBVIOUS
  <2>3. q \in Doubling /\ q[n + 1] = 2 * p[n] /\ \A i \in 0 .. n : q[i] = p[i]
    BY <2>1, <2>2 DEF Doubling
  <2>4. Doubles(q, n + 1)
    BY <2>1, <2>3 DEF Doubles
  <2> QED
    BY <2>3, <2>4
<1> HIDE DEF T
<1>3. \A n \in Nat : n \in T
  BY <1>1, <1>2, Induction
<1> QED
  BY <1>3 DEF T

LEMMA DoublesAgree ==
  ASSUME NEW p \in Doubling, NEW q \in Doubling, NEW m \in Nat, NEW n \in Nat, 
         Doubles(p, m), Doubles(q, n)
  PROVE  \A i \in Nat : i <= m /\ i <= n => p[i] = q[i]
<1> DEFINE T == {i \in Nat : i <= m /\ i <= n => p[i] = q[i]}
<1>1. 0 \in T
  BY DEF Doubles
<1>2. ASSUME NEW i \in Nat, i \in T PROVE i + 1 \in T
  <2> SUFFICES ASSUME i + 1 <= m, i + 1 <= n PROVE p[i + 1] = q[i + 1]
    OBVIOUS
  <2>1. p[i] = q[i]
    BY <1>2
  <2>2. i \in 0 .. m - 1 /\ i \in 0 .. n - 1
    OBVIOUS
  <2> QED
    BY <2>1, <2>2 DEF Doubles
<1> HIDE DEF T
<1>3. \A i \in Nat : i \in T
  BY <1>1, <1>2, Induction
<1> QED
  BY <1>3 DEF T

LEMMA PowersDouble ==
  /\ PowerOfTwo[0] = 1
  /\ \A n \in Nat : PowerOfTwo[n] \in Nat \ {0} /\ PowerOfTwo[n + 1] = 2 * PowerOfTwo[n]
<1> DEFINE Doubled(g) == [n \in Nat |-> IF n = 0 THEN 1 ELSE 2 * g[n - 1]]
           upto(n) == CHOOSE p \in Doubling : Doubles(p, n)
           g == [n \in Nat |-> upto(n)[n]]
<1>1. \A n \in Nat : upto(n) \in Doubling /\ Doubles(upto(n), n)
  BY DoublesExist
<1>2. g = Doubled(g)
  <2>1. g[0] = 1
    BY <1>1 DEF Doubles
  <2>2. ASSUME NEW n \in Nat, n # 0 PROVE g[n] = 2 * g[n - 1]
    <3>1. PICK m \in Nat : m = n - 1
      BY <2>2
    <3>2. PICK p : p = upto(n)
      OBVIOUS
    <3>3. PICK q : q = upto(m)
      OBVIOUS
    <3>4. p \in Doubling /\ Doubles(p, n) /\ q \in Doubling /\ Doubles(q, m)
      BY <1>1, <3>2, <3>3
    <3> HIDE DEF upto
    <3>5. p[m] = q[m]
      <4>1. m <= n /\ m <= m
        BY <3>1
      <4> QED
        BY <3>4, <4>1, DoublesAgree
    <3>6. p[n] = 2 * p[m]
      <4>1. m \in 0 .. n - 1 /\ m + 1 = n
        BY <3>1
      <4> QED
        BY <3>4, <4>1 DEF Doubles
    <3> QED
      BY <3>1, <3>2, <3>3, <3>5, <3>6
  <2> HIDE DEF upto
  <2> QED
    BY <2>1, <2>2
<1> HIDE DEF upto, g
<1>3. PowerOfTwo = Doubled(PowerOfTwo)
  <2>1. PowerOfTwo = CHOOSE f : f = [n \in Nat |-> IF n = 0 THEN 1 ELSE 2 * f[n - 1]]
    BY DEF PowerOfTwo
  <2> QED
    BY <1>2, <2>1
<1>4. /\ PowerOfTwo[0] = 1
      /\ \A n \in Nat : PowerOfTwo[n + 1] = 2 * PowerOfTwo[n]
  BY <1>3
<1> DEFINE T == {n \in Nat : PowerOfTwo[n] \in Nat \ {0}}
<1>5. 0 \in T /\ \A n \in Nat : n \in T => n + 1 \in T
  BY <1>4
<1> HIDE DEF T
<1>6. \A n \in Nat : n \in T
  BY <1>5, Induction
<1> QED
  BY <1>4, <1>6 DEF T

(* A total over the knobs is a number: the fold of Area adds one knob at a *)
(* time.                                                                   *)
Rest(s) == s \ {CHOOSE x \in s : TRUE}
Adds(w, it, s) == it[s] = IF s = {} THEN 0 ELSE w[CHOOSE x \in s : TRUE] + it[Rest(s)]
Totals == [SUBSET Knob -> Int]

LEMMA RestIsSmaller ==
  ASSUME NEW s \in SUBSET Knob, s # {}
  PROVE  /\ Rest(s) \in SUBSET Knob /\ (CHOOSE x \in s : TRUE) \in Knob
         /\ Cardinality(s) \in Nat /\ Cardinality(Rest(s)) \in Nat
         /\ Cardinality(Rest(s)) = Cardinality(s) - 1
<1>1. IsFiniteSet(s)
  BY FS_Subset, KnobAssumption
<1>2. (CHOOSE x \in s : TRUE) \in s
  OBVIOUS
<1> QED
  BY <1>1, <1>2, FS_RemoveElement, FS_CardinalityType DEF Rest

LEMMA TotalsExist ==
  ASSUME NEW w \in [Knob -> Int]
  PROVE  \E it \in Totals : \A s \in SUBSET Knob : Adds(w, it, s)
<1> DEFINE Upto(it, n) == \A s \in SUBSET Knob : Cardinality(s) <= n => Adds(w, it, s)
           T == {n \in Nat : \E it \in Totals : Upto(it, n)}
<1>0. \A s \in SUBSET Knob : Cardinality(s) \in Nat /\ (Cardinality(s) = 0 <=> s = {})
  BY FS_Subset, FS_CardinalityType, FS_EmptySet, KnobAssumption
<1>1. 0 \in T
  <2>1. PICK it : it = [s \in SUBSET Knob |-> 0]
    OBVIOUS
  <2>2. it \in Totals /\ Upto(it, 0)
    BY <1>0, <2>1 DEF Totals, Adds
  <2> QED
    BY <2>2
<1>2. ASSUME NEW n \in Nat, n \in T PROVE n + 1 \in T
  <2>1. PICK it \in Totals : Upto(it, n)
    BY <1>2
  <2>2. PICK new : new = [s \in SUBSET Knob |-> IF s = {} \/ Cardinality(s) <= n THEN it[s]
                                                ELSE w[CHOOSE x \in s : TRUE] + it[Rest(s)]]
    OBVIOUS
  <2>3. new \in Totals
    BY <2>1, <2>2, RestIsSmaller DEF Totals
  <2>4. ASSUME NEW s \in SUBSET Knob, Cardinality(s) <= n + 1 PROVE Adds(w, new, s)
    <3>1. CASE s = {}
      <4>1. Cardinality(s) <= n
        BY <1>0, <3>1
      <4> QED
        BY <2>1, <2>2, <3>1, <4>1 DEF Adds
    <3>2. CASE s # {}
      <4>1. Rest(s) \in SUBSET Knob /\ Cardinality(Rest(s)) <= n
        BY <1>0, <2>4, <3>2, RestIsSmaller
      <4>2. new[Rest(s)] = it[Rest(s)]
        BY <2>2, <4>1
      <4>3. new[s] = w[CHOOSE x \in s : TRUE] + it[Rest(s)]
        <5>1. CASE Cardinality(s) <= n
          BY <2>1, <2>2, <3>2, <5>1 DEF Adds
        <5>2. CASE ~ (Cardinality(s) <= n)
          BY <2>2, <3>2, <5>2
        <5> QED
          BY <5>1, <5>2
      <4> QED
        BY <3>2, <4>2, <4>3 DEF Adds
    <3> QED
      BY <3>1, <3>2
  <2> QED
    BY <2>3, <2>4
<1> HIDE DEF T
<1>3. \A n \in Nat : n \in T
  BY <1>1, <1>2, Induction
<1>4. Cardinality(Knob) \in Nat /\ \A s \in SUBSET Knob : Cardinality(s) <= Cardinality(Knob)
  BY FS_Subset, FS_CardinalityType, KnobAssumption
<1> QED
  BY <1>3, <1>4 DEF T

LEMMA TotalsAreInt ==
  ASSUME NEW w \in [Knob -> Int], NEW it, \A s \in SUBSET Knob : Adds(w, it, s)
  PROVE  \A s \in SUBSET Knob : it[s] \in Int
<1> DEFINE T == {n \in Nat : \A s \in SUBSET Knob : Cardinality(s) <= n => it[s] \in Int}
<1>0. \A s \in SUBSET Knob : Cardinality(s) \in Nat /\ (Cardinality(s) = 0 <=> s = {})
  BY FS_Subset, FS_CardinalityType, FS_EmptySet, KnobAssumption
<1>1. 0 \in T
  BY <1>0 DEF Adds
<1>2. ASSUME NEW n \in Nat, n \in T PROVE n + 1 \in T
  <2> SUFFICES ASSUME NEW s \in SUBSET Knob, Cardinality(s) <= n + 1 PROVE it[s] \in Int
    OBVIOUS
  <2>1. CASE s = {}
    BY <2>1 DEF Adds
  <2>2. CASE s # {}
    <3>1. Rest(s) \in SUBSET Knob /\ Cardinality(Rest(s)) <= n /\ (CHOOSE x \in s : TRUE) \in Knob
      BY <1>0, <2>2, RestIsSmaller
    <3>2. it[Rest(s)] \in Int
      BY <1>2, <3>1
    <3> QED
      BY <2>2, <3>1, <3>2 DEF Adds
  <2> QED
    BY <2>1, <2>2
<1> HIDE DEF T
<1>3. \A n \in Nat : n \in T
  BY <1>1, <1>2, Induction
<1> QED
  BY <1>0, <1>3 DEF T

LEMMA AreaIsInt ==
  ASSUME NEW d \in Decks
  PROVE  Area(d) \in Int
<1> DEFINE w == [k \in Knob |-> Weight[k] * d[k]]
           Step(it) == [s \in SUBSET Knob |->
                          IF s = {} THEN 0
                          ELSE LET x == CHOOSE y \in s : TRUE IN Weight[x] * d[x] + it[s \ {x}]]
           it == CHOOSE f : f = Step(f)
<1>1. w \in [Knob -> Int]
  BY KnobAssumption DEF Decks
<1>2. PICK f \in Totals : \A s \in SUBSET Knob : Adds(w, f, s)
  BY <1>1, TotalsExist
<1>3. f = Step(f)
  <2>1. ASSUME NEW s \in SUBSET Knob PROVE f[s] = Step(f)[s]
    <3>1. s # {} => (CHOOSE y \in s : TRUE) \in Knob
      BY RestIsSmaller
    <3> QED
      BY <1>2, <3>1 DEF Adds, Rest
  <2> QED
    BY <2>1 DEF Totals
<1>4. it = Step(it)
  BY <1>3
<1>5. Area(d) = it[Knob]
  BY DEF Area, MapThenSumSet, MapThenFoldSet
<1> HIDE DEF it
<1>6. ASSUME NEW s \in SUBSET Knob PROVE Adds(w, it, s)
  <2>1. s # {} => (CHOOSE y \in s : TRUE) \in Knob
    BY RestIsSmaller
  <2>2. it[s] = Step(it)[s]
    BY <1>4
  <2> QED
    BY <2>1, <2>2 DEF Adds, Rest
<1> QED
  BY <1>1, <1>5, <1>6, TotalsAreInt

-----------------------------------------------------------------------------
(***************************************************************************)
(* A search works on decks whose levels are numbers, so that its areas and *)
(* objectives can be compared.  Inductive invariant: the ranking names     *)
(* knobs and directions, the loops stay within it, and the directions of a *)
(* poll are over live knobs that it names.                                 *)
(***************************************************************************)
Ranks == [knob : Knob, dir : Direction, block : Blocks]
RankedKnobs == {ranking[i].knob : i \in DOMAIN ranking}
Start1 == [at |-> 1, partner |-> 0]
Hunting == {"search", "judge"}

CursorInv ==
  /\ pc \in {"baseline", "entry", "rank"} => cursor = Start1
  /\ pc \in Hunting =>
       /\ cursor = [at |-> cursor.at, partner |-> cursor.partner]
       /\ cursor.at \in Nat \ {0} /\ cursor.partner \in Nat
       /\ cursor.partner > 0 => cursor.at + cursor.partner <= Len(ranking)

Polled(p) ==
  /\ p = [stopped |-> p.stopped, open |-> p.open, live |-> p.live, mesh |-> p.mesh,
          todo |-> p.todo, evaluated |-> p.evaluated, refused |-> p.refused,
          barren |-> p.barren, trying |-> p.trying, preferred |-> p.preferred]
  /\ p.mesh \in Int
  /\ {p.todo, p.trying, p.preferred} \subseteq Seq([p.live -> Component])
PollInv ==
  /\ pc \in {"baseline", "entry", "rank"} => poll = NoPoll
  /\ pc \in Hunting /\ poll # NoPoll => Polled(poll) /\ poll.live \subseteq RankedKnobs
  /\ pc = "judge" /\ run.strategy = "mads" => poll # NoPoll

TypedInv == stack \in Seq(Decks) /\ ranking \in Seq(Ranks) /\ CursorInv /\ PollInv
MovesInv == IInv /\ TypedInv

LEMMA ElementTyped ==
  ASSUME NEW S, NEW s \in Seq(S), NEW i \in DOMAIN s
  PROVE  s[i] \in S
  BY ElementOfSeq

LEMMA AppliedTyped ==
  ASSUME NEW d \in Decks, NEW move, \A k \in Knob : k \in DOMAIN move => move[k] \in Int
  PROVE  Applied(d, move) \in Decks
  BY DEF Applied, Decks

LEMMA SteppedTyped ==
  ASSUME NEW level \in Int, NEW dir \in Direction
  PROVE  Stepped(level, dir) \in Int /\ Stepped(level, -dir) \in Int /\ -dir \in Direction
  BY KnobAssumption DEF Stepped, Direction

LEMMA ReachTyped ==
  ASSUME NEW c \in Component, NEW mesh \in Int
  PROVE  Reach(c, mesh) \in Int
<1>1. c * Unit \in Nat
  BY KnobAssumption DEF Component
<1>2. CASE mesh >= 0
  <2>1. PICK p \in Nat \ {0} : p = PowerOfTwo[mesh]
    BY <1>2, PowersDouble
  <2>2. PICK n \in Nat : n = c * Unit
    BY <1>1
  <2>3. n * p \in Nat
    OBVIOUS
  <2>4. Reach(c, mesh) = (n * p) \div 2
    BY <1>2, <2>1, <2>2 DEF Reach
  <2> QED
    BY <2>3, <2>4
<1>3. CASE ~ (mesh >= 0)
  <2>1. PICK p \in Nat \ {0} : p = PowerOfTwo[1 - mesh]
    <3>1. 1 - mesh \in Nat
      BY <1>3
    <3> QED
      BY <3>1, PowersDouble
  <2>2. PICK n \in Nat : n = c * Unit
    BY <1>1
  <2>3. Reach(c, mesh) = n \div p
    BY <1>3, <2>1, <2>2 DEF Reach
  <2> QED
    BY <2>3
<1> QED
  BY <1>2, <1>3

LEMMA CandidateTyped ==
  ASSUME NEW k \in Knob, NEW level \in Int, NEW dir \in Direction, NEW c \in Component,
         NEW mesh \in Int
  PROVE  Candidate(k, level, dir, c, mesh) \in Int
<1>1. PICK r \in Int : r = Reach(c, mesh)
  BY ReachTyped
<1>2. Unit \in Nat \ {0}
  BY KnobAssumption
<1>3. level + dir * r \in Int
  BY DEF Direction
<1>4. PICK n \in Int : n = AtLeast(1, (r + Unit \div 2) \div Unit)
  BY <1>2 DEF AtLeast
<1>5. AtLeast(Unit, level + dir * Unit * n) \in Int
  BY <1>2 DEF AtLeast, Direction
<1> QED
  BY <1>1, <1>3, <1>4, <1>5 DEF Candidate

(* The moves of a descent and of a poll lead to decks.                     *)
LEMMA DescentTyped ==
  ASSUME TypedInv, CanDescend, Top \in Decks
  PROVE  Applied(Top, DescentMove) \in Decks
<1>1. /\ pc \in Hunting /\ cursor.at \in Nat \ {0} /\ cursor.at <= Len(ranking)
      /\ cursor.partner \in Nat
      /\ cursor.partner > 0 => cursor.at + cursor.partner <= Len(ranking)
  BY DEF TypedInv, CursorInv, CanDescend, Descends, Hunting
<1>2. ranking \in Seq(Ranks)
  BY DEF TypedInv
<1>3. Lead \in Ranks
  <2>1. cursor.at \in DOMAIN ranking
    BY <1>1, <1>2
  <2> QED
    BY <1>2, <2>1, ElementTyped DEF Lead
<1>4. Top[Lead.knob] \in Int /\ Lead.knob \in Knob /\ Lead.dir \in Direction
  BY <1>3 DEF Ranks, Decks
<1>5. PICK level \in Int : level = Stepped(Top[Lead.knob], Lead.dir)
  BY <1>4, SteppedTyped
<1>6. CASE cursor.partner = 0
  <2>1. DescentMove = Single(Lead.knob, level)
    BY <1>5, <1>6 DEF DescentMove
  <2>2. \A k \in Knob : k \in DOMAIN DescentMove => DescentMove[k] \in Int
    BY <2>1 DEF Single
  <2> QED
    BY <2>2, AppliedTyped
<1>7. CASE cursor.partner # 0
  <2>1. Partner \in Ranks
    <3>1. cursor.at + cursor.partner \in DOMAIN ranking
      BY <1>1, <1>2, <1>7
    <3> QED
      BY <1>2, <3>1, ElementTyped DEF Partner
  <2>2. Top[Partner.knob] \in Int
    BY <2>1 DEF Ranks, Decks
  <2>3. PICK other \in Int : other = Stepped(Top[Partner.knob], -Lead.dir)
    BY <1>4, <2>2, SteppedTyped
  <2>4. DescentMove = Pair(Lead.knob, level, Partner.knob, other)
    BY <1>5, <1>7, <2>3 DEF DescentMove
  <2>5. \A k \in Knob : k \in DOMAIN DescentMove => DescentMove[k] \in Int
    BY <2>4 DEF Pair
  <2> QED
    BY <2>5, AppliedTyped
<1> QED
  BY <1>6, <1>7

(* A direction that leads to another point moves a knob.                   *)
LEMMA OtherPointMoves ==
  ASSUME NEW i \in DOMAIN poll.todo, DOMAIN Dirs(poll.live) = poll.live,
         PollPoint(i) # Here(Top, poll.live)
  PROVE  i \in Moving
<1>1. PICK k \in poll.live : PollPoint(i)[k] # Here(Top, poll.live)[k]
  BY DEF PollPoint, PointOf, Here
<1>2. Candidate(k, Top[k], Dirs(poll.live)[k], poll.todo[i][k], poll.mesh) # Top[k]
  BY <1>1 DEF PollPoint, PointOf, Here
<1>3. poll.todo[i][k] # 0
  BY <1>2 DEF Candidate
<1> QED
  BY <1>2, <1>3 DEF Moving, Moves

LEMMA FreshHasFirst ==
  ASSUME poll.todo \in Seq([poll.live -> Component]), Fresh # {}
  PROVE  Min(Fresh) \in Fresh /\ Min(Fresh) \in DOMAIN poll.todo
<1>1. Fresh \in SUBSET (DOMAIN poll.todo) /\ Fresh \in SUBSET Nat
  BY DEF Fresh, Moving
<1>2. \E n \in Fresh : \A m \in Fresh : n <= m
  BY <1>1, LeastNumber
<1>3. Min(Fresh) \in Fresh
  BY <1>2 DEF Min
<1> QED
  BY <1>1, <1>3

LEMMA DirsTyped ==
  ASSUME ranking \in Seq(Ranks), NEW live \in SUBSET RankedKnobs
  PROVE  /\ DOMAIN Dirs(live) = live
         /\ \A k \in live : k \in Knob /\ Dirs(live)[k] \in Direction
<1>1. \A i \in DOMAIN ranking : ranking[i] \in Ranks
  BY ElementTyped
<1>2. ASSUME NEW k \in live PROVE k \in Knob /\ Dirs(live)[k] \in Direction
  <2>1. PICK i : i = CHOOSE j \in DOMAIN ranking : ranking[j].knob = k
    OBVIOUS
  <2>2. i \in DOMAIN ranking /\ ranking[i].knob = k
    BY <2>1 DEF RankedKnobs
  <2>3. Dirs(live)[k] = ranking[i].dir
    BY <2>1 DEF Dirs
  <2> QED
    BY <1>1, <2>2, <2>3 DEF Ranks
<1> QED
  BY <1>2 DEF Dirs

LEMMA PollTyped ==
  ASSUME TypedInv, CanTry, Top \in Decks
  PROVE  /\ Applied(Top, PollMove) \in Decks
         /\ Polled(poll) /\ poll.live \subseteq RankedKnobs
         /\ poll.todo[Min(Fresh)] \in [poll.live -> Component]
<1>1. /\ ranking \in Seq(Ranks)
      /\ Polled(poll) /\ poll.live \subseteq RankedKnobs
  BY DEF TypedInv, PollInv, CanTry, Polls, Hunting
<1>2. PICK v \in [poll.live -> Component] : v = poll.todo[Min(Fresh)]
  <2>1. poll.todo \in Seq([poll.live -> Component])
    BY <1>1 DEF Polled
  <2>2. Min(Fresh) \in DOMAIN poll.todo
    BY <2>1, FreshHasFirst DEF CanTry
  <2> QED
    BY <2>1, <2>2, ElementTyped
<1> DEFINE dirs == Dirs(poll.live)
<1>4. DOMAIN dirs = poll.live /\ \A k \in poll.live : k \in Knob /\ dirs[k] \in Direction
  BY <1>1, DirsTyped
<1>5. poll.mesh \in Int
  BY <1>1 DEF Polled
<1> HIDE DEF dirs
<1>6. PollMove = [k \in poll.live |-> Candidate(k, Top[k], dirs[k], v[k], poll.mesh)]
  BY <1>2, <1>4 DEF PollMove, PollPoint, PointOf, dirs
<1>7. \A k \in Knob : k \in DOMAIN PollMove => PollMove[k] \in Int
  <2>1. ASSUME NEW k \in poll.live PROVE PollMove[k] \in Int
    <3>1. k \in Knob /\ Top[k] \in Int /\ dirs[k] \in Direction /\ v[k] \in Component
      BY <1>4 DEF Decks
    <3>2. PollMove[k] = Candidate(k, Top[k], dirs[k], v[k], poll.mesh)
      BY <1>6
    <3> QED
      BY <1>5, <3>1, <3>2, CandidateTyped
  <2> QED
    BY <1>6, <2>1
<1> QED
  BY <1>1, <1>2, <1>7, AppliedTyped

-----------------------------------------------------------------------------
LEMMA TopTyped ==
  ASSUME IInv, stack \in Seq(Decks)
  PROVE  /\ Version \in Nat /\ Top \in Decks
         /\ \A v \in 0 .. Version : DeckAt(v) \in Decks
<1>1. Version \in Nat /\ Len(stack) = Version + 1
  BY VersionIsNat
<1>2. ASSUME NEW v \in 0 .. Version PROVE DeckAt(v) \in Decks
  <2>1. v + 1 \in DOMAIN stack
    BY <1>1
  <2> QED
    BY <2>1, ElementTyped DEF DeckAt
<1> QED
  BY <1>1, <1>2 DEF Top

LEMMA PoppedTyped ==
  ASSUME stack \in Seq(Decks), NEW v \in Nat, v <= Version
  PROVE  PopTo(v) \in Seq(Decks)
<1>1. Len(stack) \in Nat /\ v + 1 <= Len(stack)
  BY DEF Version
<1>2. \A i \in 1 .. v + 1 : stack[i] \in Decks
  BY <1>1, ElementTyped
<1> QED
  BY <1>2, SubSeqProperties DEF PopTo

LEMMA StackStep ==
  ASSUME MovesInv, [Next]_vars
  PROVE  stack' \in Seq(Decks)
<1>1. stack \in Seq(Decks) /\ Top \in Decks /\ Version \in Nat
  BY TopTyped DEF MovesInv, TypedInv
<1>2. ASSUME Descend \/ TryPoint PROVE stack' \in Seq(Decks)
  <2>1. PICK d \in Decks : stack' = Append(stack, d)
    BY <1>1, <1>2, DescentTyped, PollTyped DEF MovesInv, Descend, TryPoint, PushMove
  <2> QED
    BY <1>1, <2>1
<1>3. ASSUME JudgeDescent \/ JudgePoint PROVE stack' \in Seq(Decks)
  <2>1. stack' = stack \/ stack' = PopTo(Version - 1)
    BY <1>3 DEF JudgeDescent, JudgePoint, Accept, Discard
  <2>2. pc = "judge" /\ anchor \in Nat /\ accepted \in Nat /\ Version = anchor + accepted + 1
    BY <1>3 DEF JudgeDescent, JudgePoint, MovesInv, IInv, StackInv, Working, Searching
  <2>3. Version - 1 \in Nat /\ Version - 1 <= Version
    BY <2>2
  <2> QED
    BY <1>1, <2>1, <2>3, PoppedTyped
<1>4. ASSUME BisectLands PROVE stack' \in Seq(Decks)
  <2>1. stack' = PopTo(interval.lo) /\ pc = "bisect"
    BY <1>4 DEF BisectLands
  <2>2. interval.lo \in Nat /\ interval.hi \in Nat /\ interval.lo <= interval.hi
        /\ interval.hi <= Version
    BY <2>1 DEF MovesInv, IInv, SweepInv
  <2>3. interval.lo <= Version
    BY <1>1, <2>2
  <2> QED
    BY <1>1, <2>1, <2>2, <2>3, PoppedTyped
<1>5. ASSUME PhaseFails PROVE stack' \in Seq(Decks)
  <2>1. CASE pc = "begin"
    BY <1>1, <1>5, <2>1 DEF PhaseFails
  <2>2. CASE pc # "begin"
    <3>1. stack' = PopTo(anchor) /\ pc \in Working
      BY <1>5, <2>2 DEF PhaseFails, Working, Searching
    <3>2. anchor \in Nat /\ accepted \in Nat
          /\ Version = anchor + accepted + (IF pc = "judge" THEN 1 ELSE 0)
      BY <3>1 DEF MovesInv, IInv, StackInv
    <3>3. anchor <= Version
      BY <1>1, <3>2
    <3> QED
      BY <1>1, <3>1, <3>2, <3>3, PoppedTyped
  <2> QED
    BY <2>1, <2>2
<1>6. ASSUME EnterPhase PROVE stack' = stack
  BY <1>6 DEF EnterPhase, Given
<1>7. ASSUME \/ AreaRefused \/ AreaSetupFails \/ AreaRanks \/ ObjectiveSkipped \/ Baseline
             \/ BaselineUnmeasured \/ EntrySweep \/ Rank
      PROVE  stack' = stack
  BY <1>7 DEF AreaRefused, AreaSetupFails, AreaRanks, ObjectiveSkipped, Baseline,
     BaselineUnmeasured, EntrySweep, Rank
<1>8. ASSUME \/ SearchOver \/ LeadStops \/ PartnerStops \/ DescentOutgrows
             \/ FirstPoll \/ OpenPoll \/ PollOutgrows \/ PollOutOfSteps \/ ClosePoll
      PROVE  stack' = stack
  BY <1>8 DEF SearchOver, LeadStops, PartnerStops, DescentOutgrows, FirstPoll, OpenPoll,
     PollOutgrows, PollOutOfSteps, ClosePoll
<1>9. ASSUME LandUnswept \/ Confirm \/ BisectProbe \/ MakeFront \/ UNCHANGED vars
      PROVE  stack' = stack
  BY <1>9 DEF LandUnswept, Confirm, BisectProbe, MakeFront, vars
<1> QED
  BY <1>1, <1>2, <1>3, <1>4, <1>5, <1>6, <1>7, <1>8, <1>9 DEF Next

LEMMA RankingStep ==
  ASSUME MovesInv, [Next]_vars
  PROVE  /\ ranking' \in Seq(Ranks)
         /\ pc \in Hunting => ranking' = ranking
<1>1. ranking \in Seq(Ranks)
  BY DEF MovesInv, TypedInv
<1>2. ASSUME AreaRanks PROVE ranking' \in Seq(Ranks) /\ pc \notin Hunting
  <2>1. PICK order \in AreaRankings(Top) :
          ranking' = [i \in DOMAIN order |-> [knob |-> order[i], dir |-> -1, block |-> "none"]]
    BY <1>2 DEF AreaRanks
  <2>2. Gainful(Top) \subseteq Knob
    BY DEF Gainful
  <2>3. PICK n \in Nat : n = Cardinality(Gainful(Top))
    BY <2>2, FS_Subset, FS_CardinalityType, KnobAssumption
  <2>4. order \in [1 .. n -> Gainful(Top)]
    BY <2>1, <2>3 DEF AreaRankings
  <2>5. DOMAIN order = 1 .. n /\ \A i \in 1 .. n : order[i] \in Knob
    BY <2>2, <2>4
  <2>6. \A i \in 1 .. n : [knob |-> order[i], dir |-> -1, block |-> "none"] \in Ranks
    BY <2>5 DEF Ranks, Direction, Blocks
  <2>7. ranking' \in [1 .. n -> Ranks]
    BY <2>1, <2>5, <2>6
  <2> QED
    BY <1>2, <2>7 DEF AreaRanks, Hunting
<1>3. ASSUME Rank PROVE ranking' \in Seq(Ranks) /\ pc \notin Hunting
  <2>1. ranking' = ranking \/ ranking' \in Proposal
    BY <1>3 DEF Rank
  <2>2. Proposal \subseteq Seq(Ranks)
    BY OptimizerAssumption DEF Proposals, Ranks
  <2> QED
    BY <1>1, <1>3, <2>1, <2>2 DEF Rank, Hunting
<1>4. ASSUME \/ AreaRefused \/ AreaSetupFails \/ ObjectiveSkipped \/ Baseline
             \/ BaselineUnmeasured \/ EntrySweep \/ EnterPhase
      PROVE  ranking' = ranking
  BY <1>4 DEF AreaRefused, AreaSetupFails, ObjectiveSkipped, Baseline, BaselineUnmeasured,
     EntrySweep, EnterPhase, search
<1>5. ASSUME \/ SearchOver \/ LeadStops \/ PartnerStops \/ DescentOutgrows \/ FirstPoll
             \/ OpenPoll \/ PollOutgrows \/ PollOutOfSteps \/ ClosePoll \/ Descend \/ TryPoint
             \/ JudgeDescent \/ JudgePoint
      PROVE  ranking' = ranking
  BY <1>5 DEF SearchOver, LeadStops, PartnerStops, DescentOutgrows, FirstPoll, OpenPoll,
     PollOutgrows, PollOutOfSteps, ClosePoll, Descend, TryPoint, JudgeDescent, JudgePoint,
     SearchFrame
<1>6. ASSUME \/ LandUnswept \/ Confirm \/ BisectProbe \/ BisectLands \/ PhaseFails \/ MakeFront
             \/ UNCHANGED vars
      PROVE  ranking' = ranking
  BY <1>6 DEF LandUnswept, Confirm, BisectProbe, BisectLands, PhaseFails, MakeFront,
     LandingFrame, vars, search
<1> QED
  BY <1>1, <1>2, <1>3, <1>4, <1>5, <1>6 DEF Next

(* The loops of a descent stay within the ranking.                         *)
LEMMA CursorStep ==
  ASSUME TypedInv, pc = "search" \/ pc = "judge", ranking' = ranking, poll' = poll,
         pc' \in Hunting, run' = run, run.strategy # "mads",
         cursor' = cursor \/ NextLead \/ NextTry \/ cursor' = [cursor EXCEPT !.partner = 0]
  PROVE  CursorInv' /\ PollInv'
<1>1. /\ cursor = [at |-> cursor.at, partner |-> cursor.partner]
      /\ cursor.at \in Nat \ {0} /\ cursor.partner \in Nat
      /\ cursor.partner > 0 => cursor.at + cursor.partner <= Len(ranking)
      /\ Len(ranking) \in Nat
  BY DEF TypedInv, CursorInv, Hunting
<1>2. PollInv'
  BY DEF TypedInv, PollInv, Hunting, RankedKnobs
<1>3. ASSUME NEW at \in Nat \ {0}, NEW partner \in Nat,
             cursor' = [at |-> at, partner |-> partner],
             partner > 0 => at + partner <= Len(ranking)
      PROVE  CursorInv'
  BY <1>1, <1>3 DEF CursorInv, Hunting
<1>4. ASSUME cursor' = cursor PROVE CursorInv'
  BY <1>1, <1>3, <1>4
<1>5. ASSUME NextLead PROVE CursorInv'
  BY <1>1, <1>3, <1>5 DEF NextLead
<1>6. ASSUME cursor' = [cursor EXCEPT !.partner = 0] PROVE CursorInv'
  <2>1. cursor' = [at |-> cursor.at, partner |-> 0]
    BY <1>1, <1>6
  <2> QED
    BY <1>1, <1>3, <2>1
<1>7. ASSUME NextTry, PartnersLeft PROVE CursorInv'
  <2>1. cursor' = [at |-> cursor.at, partner |-> cursor.partner + 1]
    BY <1>1, <1>7 DEF NextTry
  <2>2. cursor.at + (cursor.partner + 1) <= Len(ranking)
    BY <1>1, <1>7 DEF PartnersLeft
  <2> QED
    BY <1>1, <1>3, <2>1, <2>2
<1>8. ASSUME NextTry, ~ PartnersLeft PROVE CursorInv'
  BY <1>5, <1>8 DEF NextTry
<1> QED
  BY <1>2, <1>4, <1>5, <1>6, <1>7, <1>8

LEMMA DescentCursor ==
  ASSUME MovesInv, LeadStops \/ PartnerStops \/ DescentOutgrows \/ Descend \/ JudgeDescent
  PROVE  CursorInv' /\ PollInv'
<1>1. /\ pc \in Hunting /\ pc' \in Hunting /\ UNCHANGED <<run, ranking, poll>>
      /\ run.strategy # "mads"
      /\ cursor' = cursor \/ NextLead \/ NextTry \/ cursor' = [cursor EXCEPT !.partner = 0]
  BY DEF LeadStops, PartnerStops, DescentOutgrows, Descend, JudgeDescent, Hunting, SearchFrame,
     Descends, CanDescend, PushMove
<1> QED
  BY <1>1, CursorStep DEF MovesInv, Hunting

LEMMA PollSetTyped ==
  ASSUME NEW live, NEW order, NEW n \in Nat, DOMAIN order = 1 .. n,
         NEW preferred \in Seq([live -> Component]),
         NEW m \in Nat, NEW composites \in [1 .. m -> Vectors(live)]
  PROVE  PollSet(live, order, preferred, composites) \in Seq([live -> Component])
<1>1. composites \in Seq([live -> Component])
  <2>1. composites \in [1 .. m -> [live -> Component]]
    BY DEF Vectors
  <2> QED
    BY <2>1
<1>2. ASSUME NEW i \in 1 .. n PROVE Axis(live, order[i]) \in [live -> Component]
  BY DEF Axis, Component
<1>3. [i \in DOMAIN order |-> Axis(live, order[i])] \in Seq([live -> Component])
  BY <1>2
<1> QED
  BY <1>1, <1>3 DEF PollSet

LEMMA LongestTyped ==
  ASSUME NEW live, NEW v \in [live -> Component]
  PROVE  Longest(v) \in [live -> Component]
<1>1. CASE \E k \in live : v[k] = 2
  BY <1>1 DEF Longest
<1>2. CASE \A k \in live : v[k] # 2
  <2>1. \A k \in live : 2 * v[k] \in Component
    BY <1>2 DEF Component
  <2> QED
    BY <1>2, <2>1 DEF Longest
<1> QED
  BY <1>1, <1>2

LEMMA PolledIsPoll ==
  ASSUME NEW p, Polled(p)
  PROVE  p # NoPoll
<1>1. "open" \in DOMAIN p
  <2> DEFINE q == [stopped |-> p.stopped, open |-> p.open, live |-> p.live, mesh |-> p.mesh,
                   todo |-> p.todo, evaluated |-> p.evaluated, refused |-> p.refused,
                   barren |-> p.barren, trying |-> p.trying, preferred |-> p.preferred]
  <2>1. "open" \in DOMAIN q
    OBVIOUS
  <2>2. p = q
    BY DEF Polled
  <2> HIDE DEF q
  <2> QED
    BY <2>1, <2>2
<1>2. ~ ("open" \in DOMAIN NoPoll)
  BY DEF NoPoll
<1> QED
  BY <1>1, <1>2

LEMMA PolledRecord ==
  ASSUME NEW live, NEW mesh \in Int, NEW todo \in Seq([live -> Component]),
         NEW trying \in Seq([live -> Component]), NEW preferred \in Seq([live -> Component]),
         NEW stopped, NEW open, NEW evaluated, NEW refused, NEW barren, NEW q,
         q = [stopped |-> stopped, open |-> open, live |-> live, mesh |-> mesh, todo |-> todo,
              evaluated |-> evaluated, refused |-> refused, barren |-> barren,
              trying |-> trying, preferred |-> preferred]
  PROVE  Polled(q) /\ q.live = live
  BY DEF Polled

(* A poll keeps its live knobs, and its directions are over them.          *)
LEMMA PollStep ==
  ASSUME MovesInv, \/ FirstPoll \/ OpenPoll \/ TryPoint \/ PollOutgrows \/ JudgePoint
                   \/ ClosePoll
  PROVE  CursorInv' /\ PollInv'
<1>1. /\ pc \in Hunting /\ pc' \in Hunting \cup {"landing"} /\ UNCHANGED <<ranking, cursor>>
      /\ ranking \in Seq(Ranks)
  BY DEF FirstPoll, OpenPoll, TryPoint, PollOutgrows, JudgePoint, ClosePoll, SearchFrame, Polls,
     CanTry, PushMove, Hunting, MovesInv, TypedInv
<1>2. CursorInv'
  BY <1>1 DEF MovesInv, TypedInv, CursorInv, Hunting
<1>3. RankedKnobs' = RankedKnobs
  BY <1>1 DEF RankedKnobs
<1>4. ASSUME NEW live \in SUBSET RankedKnobs, Polled(poll'), poll'.live = live PROVE PollInv'
  <2>1. poll' # NoPoll
    BY <1>4, PolledIsPoll
  <2> QED
    BY <1>1, <1>3, <1>4, <2>1 DEF PollInv, Hunting
<1>5. ASSUME FirstPoll PROVE PollInv'
  <2>1. poll' = [stopped |-> IF Ranked("none") = {} THEN "no_live_knobs" ELSE "no",
                 open |-> FALSE, live |-> Ranked("none"), mesh |-> InitialMesh, todo |-> <<>>,
                 evaluated |-> FALSE, refused |-> {}, barren |-> {},
                 trying |-> <<>>, preferred |-> <<>>]
    BY <1>5 DEF FirstPoll
  <2>2. InitialMesh \in Int /\ <<>> \in Seq([Ranked("none") -> Component])
    BY DEF InitialMesh
  <2>3. Polled(poll') /\ poll'.live = Ranked("none")
    BY <2>1, <2>2, PolledRecord
  <2> QED
    BY <1>4, <2>3 DEF Ranked, RankedKnobs
<1> SUFFICES ASSUME OpenPoll \/ TryPoint \/ PollOutgrows \/ JudgePoint \/ ClosePoll
             PROVE  PollInv'
  BY <1>2, <1>5
<1>6. poll.live \subseteq RankedKnobs /\ Polled(poll)
  BY <1>1 DEF OpenPoll, TryPoint, PollOutgrows, JudgePoint, ClosePoll, CanTry,
     MovesInv, TypedInv, PollInv
<1>7. /\ poll = [stopped |-> poll.stopped, open |-> poll.open, live |-> poll.live,
                 mesh |-> poll.mesh, todo |-> poll.todo, evaluated |-> poll.evaluated,
                 refused |-> poll.refused, barren |-> poll.barren, trying |-> poll.trying,
                 preferred |-> poll.preferred]
      /\ {poll.mesh, poll.mesh + 1, poll.mesh - 1} \subseteq Int
      /\ poll.todo \in Seq([poll.live -> Component])
      /\ poll.trying \in Seq([poll.live -> Component])
      /\ poll.preferred \in Seq([poll.live -> Component])
  BY <1>6 DEF Polled
<1>8. ASSUME NEW stopped, NEW open, NEW mesh \in Int, NEW todo \in Seq([poll.live -> Component]),
             NEW evaluated, NEW refused, NEW barren, NEW trying \in Seq([poll.live -> Component]),
             NEW preferred \in Seq([poll.live -> Component]),
             poll' = [stopped |-> stopped, open |-> open, live |-> poll.live, mesh |-> mesh,
                      todo |-> todo, evaluated |-> evaluated, refused |-> refused,
                      barren |-> barren, trying |-> trying, preferred |-> preferred]
      PROVE  PollInv'
  BY <1>4, <1>6, <1>8, PolledRecord
<1>9. ASSUME OpenPoll PROVE PollInv'
  <2>1. PICK m \in 0 .. Composites : \E composites \in [1 .. m -> Vectors(poll.live)] :
          poll' = [poll EXCEPT
                     !.open = TRUE,
                     !.evaluated = FALSE,
                     !.todo = PollSet(poll.live, [i \in DOMAIN ranking |-> ranking[i].knob],
                                      poll.preferred, composites)]
    BY <1>9 DEF OpenPoll
  <2>2. PICK composites \in [1 .. m -> Vectors(poll.live)] :
          poll' = [poll EXCEPT
                     !.open = TRUE,
                     !.evaluated = FALSE,
                     !.todo = PollSet(poll.live, [i \in DOMAIN ranking |-> ranking[i].knob],
                                      poll.preferred, composites)]
    BY <2>1
  <2>3. PICK order : order = [i \in DOMAIN ranking |-> ranking[i].knob]
    OBVIOUS
  <2>4. PICK todo : todo = PollSet(poll.live, order, poll.preferred, composites)
    OBVIOUS
  <2>5. todo \in Seq([poll.live -> Component])
    <3>1. PICK n \in Nat : DOMAIN order = 1 .. n
      BY <1>1, <2>3
    <3>2. m \in Nat
      BY OptimizerAssumption
    <3> QED
      BY <1>7, <2>4, <3>1, <3>2, PollSetTyped
  <2>6. poll' = [poll EXCEPT !.open = TRUE, !.evaluated = FALSE, !.todo = todo]
    BY <2>2, <2>4, <2>3
  <2>7. poll' = [stopped |-> poll.stopped, open |-> TRUE, live |-> poll.live,
                 mesh |-> poll.mesh, todo |-> todo, evaluated |-> FALSE,
                 refused |-> poll.refused, barren |-> poll.barren, trying |-> poll.trying,
                 preferred |-> poll.preferred]
    BY <1>7, <2>6
  <2> QED
    BY <1>7, <1>8, <2>5, <2>7
<1>10. ASSUME TryPoint PROVE PollInv'
  <2>1. PICK v \in [poll.live -> Component] :
          poll' = [poll EXCEPT !.evaluated = TRUE, !.trying = <<v>>]
    <3>1. Top \in Decks
      BY TopTyped DEF MovesInv, TypedInv
    <3>2. poll.todo[Min(Fresh)] \in [poll.live -> Component]
      BY <1>10, <3>1, PollTyped DEF MovesInv, TryPoint
    <3> QED
      BY <1>10, <3>2, LongestTyped DEF TryPoint
  <2>2. poll' = [stopped |-> poll.stopped, open |-> poll.open, live |-> poll.live,
                 mesh |-> poll.mesh, todo |-> poll.todo, evaluated |-> TRUE,
                 refused |-> poll.refused, barren |-> poll.barren, trying |-> <<v>>,
                 preferred |-> poll.preferred]
    BY <1>7, <2>1
  <2>3. <<v>> \in Seq([poll.live -> Component])
    OBVIOUS
  <2> QED
    BY <1>7, <1>8, <2>2, <2>3
<1>11. ASSUME PollOutgrows PROVE PollInv'
  <2>1. poll' = [poll EXCEPT !.evaluated = TRUE, !.refused = poll.refused \cup {PollMove}]
    BY <1>11 DEF PollOutgrows
  <2>2. poll' = [stopped |-> poll.stopped, open |-> poll.open, live |-> poll.live,
                 mesh |-> poll.mesh, todo |-> poll.todo, evaluated |-> TRUE,
                 refused |-> poll.refused \cup {PollMove}, barren |-> poll.barren,
                 trying |-> poll.trying, preferred |-> poll.preferred]
    BY <1>7, <2>1
  <2> QED
    BY <1>7, <1>8, <2>2
<1>12. ASSUME JudgePoint PROVE PollInv'
  <2>1. \/ poll' = [poll EXCEPT !.open = FALSE, !.mesh = poll.mesh + 1, !.barren = {},
                                !.preferred = poll.trying]
        \/ poll' = [poll EXCEPT !.refused = poll.refused \cup {Here(Top, poll.live)}]
    BY <1>12 DEF JudgePoint
  <2>2. CASE poll' = [poll EXCEPT !.open = FALSE, !.mesh = poll.mesh + 1, !.barren = {},
                                  !.preferred = poll.trying]
    <3>1. poll' = [stopped |-> poll.stopped, open |-> FALSE, live |-> poll.live,
                   mesh |-> poll.mesh + 1, todo |-> poll.todo, evaluated |-> poll.evaluated,
                   refused |-> poll.refused, barren |-> {}, trying |-> poll.trying,
                   preferred |-> poll.trying]
      BY <1>7, <2>2
    <3> QED
      BY <1>7, <1>8, <3>1
  <2>3. CASE poll' = [poll EXCEPT !.refused = poll.refused \cup {Here(Top, poll.live)}]
    <3>1. poll' = [stopped |-> poll.stopped, open |-> poll.open, live |-> poll.live,
                   mesh |-> poll.mesh, todo |-> poll.todo, evaluated |-> poll.evaluated,
                   refused |-> poll.refused \cup {Here(Top, poll.live)},
                   barren |-> poll.barren, trying |-> poll.trying,
                   preferred |-> poll.preferred]
      BY <1>7, <2>3
    <3> QED
      BY <1>7, <1>8, <3>1
  <2> QED
    BY <2>1, <2>2, <2>3
<1>13. ASSUME ClosePoll PROVE PollInv'
  <2>1. CASE Exhausted
    BY <1>13, <2>1 DEF ClosePoll, PollInv, Hunting
  <2>2. CASE ~ Exhausted
    <3>1. PICK b : poll' = [poll EXCEPT !.open = FALSE, !.mesh = poll.mesh - 1, !.barren = b]
      BY <1>13, <2>2 DEF ClosePoll
    <3>2. poll' = [stopped |-> poll.stopped, open |-> FALSE, live |-> poll.live,
                   mesh |-> poll.mesh - 1, todo |-> poll.todo, evaluated |-> poll.evaluated,
                   refused |-> poll.refused, barren |-> b, trying |-> poll.trying,
                   preferred |-> poll.preferred]
      BY <1>7, <3>1
    <3> QED
      BY <1>7, <1>8, <3>2
  <2> QED
    BY <2>1, <2>2
<1> QED
  BY <1>9, <1>10, <1>11, <1>12, <1>13

(* The remaining steps enter the search with loops at their start, or      *)
(* leave it.                                                               *)
LEMMA OutsideStep ==
  ASSUME MovesInv, [Next]_vars,
         ~ (LeadStops \/ PartnerStops \/ DescentOutgrows \/ Descend \/ JudgeDescent),
         ~ (FirstPoll \/ OpenPoll \/ TryPoint \/ PollOutgrows \/ JudgePoint \/ ClosePoll)
  PROVE  CursorInv' /\ PollInv'
<1>1. ASSUME EnterPhase PROVE CursorInv' /\ PollInv'
  <2>1. pc' = "baseline" /\ cursor' = Start1 /\ poll' = NoPoll
    BY <1>1 DEF EnterPhase, FreshSearch, Start1
  <2> QED
    BY <2>1 DEF CursorInv, PollInv, Hunting
<1>2. ASSUME Baseline \/ Rank PROVE CursorInv' /\ PollInv'
  <2>1. /\ pc \in {"baseline", "rank"} /\ pc' \in {"entry", "rank", "search"}
        /\ UNCHANGED <<cursor, poll>>
    BY <1>2 DEF Baseline, Rank
  <2>2. cursor = Start1 /\ poll = NoPoll
    BY <2>1 DEF MovesInv, TypedInv, CursorInv, PollInv
  <2> QED
    BY <2>1, <2>2 DEF CursorInv, PollInv, Hunting, Start1
<1>3. ASSUME EntrySweep PROVE CursorInv' /\ PollInv'
  <2>1. pc = "entry" /\ UNCHANGED <<cursor, poll>> /\ pc' \in {"rank", "begin", "front"}
    BY <1>3 DEF EntrySweep, search, EndPhase
  <2> QED
    BY <2>1 DEF MovesInv, TypedInv, CursorInv, PollInv, Hunting
<1>4. ASSUME \/ AreaRefused \/ AreaSetupFails \/ AreaRanks \/ ObjectiveSkipped
             \/ BaselineUnmeasured \/ SearchOver \/ PollOutOfSteps \/ LandUnswept \/ Confirm
             \/ BisectProbe \/ BisectLands \/ PhaseFails \/ MakeFront
      PROVE  pc' \in {"begin", "front", "landing", "bisect", "done"}
  BY <1>4 DEF AreaRefused, AreaSetupFails, AreaRanks, ObjectiveSkipped, BaselineUnmeasured,
     SearchOver, PollOutOfSteps, LandUnswept, Confirm, BisectProbe, BisectLands, PhaseFails,
     MakeFront, EndPhase
<1>5. ASSUME pc' \in {"begin", "front", "landing", "bisect", "done"}
      PROVE  CursorInv' /\ PollInv'
  BY <1>5 DEF CursorInv, PollInv, Hunting
<1>6. ASSUME UNCHANGED vars PROVE CursorInv' /\ PollInv'
  <2>1. UNCHANGED <<run, pc, cursor, poll, ranking>>
    BY <1>6 DEF vars, search
  <2> QED
    BY <2>1 DEF MovesInv, TypedInv, CursorInv, PollInv, Hunting, RankedKnobs
<1> QED
  BY <1>1, <1>2, <1>3, <1>4, <1>5, <1>6 DEF Next

LEMMA MovesStep ==
  ASSUME MovesInv, [Next]_vars
  PROVE  TypedInv'
<1>1. stack' \in Seq(Decks) /\ ranking' \in Seq(Ranks)
  BY StackStep, RankingStep
<1>2. CursorInv' /\ PollInv'
  BY DescentCursor, PollStep, OutsideStep
<1> QED
  BY <1>1, <1>2 DEF TypedInv

LEMMA InitMoves == Init => TypedInv
<1> SUFFICES ASSUME Init PROVE TypedInv
  OBVIOUS
<1>1. stack \in Seq(Decks) /\ ranking \in Seq(Ranks) /\ pc = "area_setup"
  BY OptimizerAssumption DEF Init
<1> QED
  BY <1>1 DEF TypedInv, CursorInv, PollInv, Hunting

-----------------------------------------------------------------------------
(***************************************************************************)
(* What is measured and what a result says.  Inductive invariant: exactly  *)
(* the anchor and the accepted versions have a record, each of its own     *)
(* deck, none above the anchor as bad as the anchor; and the area phase's  *)
(* result speaks of the version that the objective phase is given.         *)
(***************************************************************************)
Measuring == Searching \cup {"entry"}
Objective(v) == records[v].objective
Measured(v) ==
  /\ records[v] = [objective |-> Objective(v), area |-> AreaOf(DeckAt(v)), deck |-> DeckAt(v)]
  /\ Objective(v) \in Int
  /\ v > anchor => Objective(v) < Objective(anchor)
  /\ best <= Objective(v)
MeasureInv ==
  pc \in Measuring =>
    /\ DOMAIN records = anchor .. anchor + accepted
    /\ \A v \in anchor .. anchor + accepted : Measured(v)
    /\ before = Objective(anchor)
    /\ best = Objective(anchor + accepted)

(* A result says that version v, with deck d, is the one it landed on.     *)
LandsOn(result, v, d) ==
  /\ \E i \in DOMAIN result.points :
       /\ result.points[i] = [version |-> v, landed |-> TRUE, deck |-> d,
                              area |-> result.area_after, objective |-> result.objective_after]
       /\ i = result.accepted + 1
  /\ result.status = Status(result.accepted)
  /\ result.accepted > 0 => result.objective_after < result.objective_before
Tells(result, v, d) ==
  IF result.points = <<>> THEN v = 0 /\ d = Start ELSE LandsOn(result, v, d)

SaysInv ==
  /\ phase = "area" /\ pc \in {"area_setup", "begin"} => Version = 0 /\ Top = Start
  /\ phase = "area" /\ pc \in Working => anchor = 0 /\ DeckAt(anchor) = Start
  /\ phase = "objective" /\ pc = "begin" => Tells(results["area"], Version, Top)
  /\ phase = "objective" /\ pc \in Working => Tells(results["area"], anchor, DeckAt(anchor))
  /\ pc \notin Over => results["objective"].points = <<>>
  /\ pc \in Over => Tells(Landed, Version, Top)

LandingInv == MovesInv /\ MeasureInv /\ SaysInv

LEMMA AreaOfTyped ==
  ASSUME NEW d \in Decks
  PROVE  AreaOf(d) \in Int
  BY AreaIsInt DEF AreaOf

(* The version a search lands on is the one its result points at.          *)
LEMMA FinalLands ==
  ASSUME anchor \in Nat, accepted \in Nat, MeasureInv, pc \in Measuring,
         NEW survived \in 0 .. accepted, NEW landed, landed = anchor + survived,
         NEW walked_back, NEW swept
  PROVE  LandsOn(Final(Status(survived), landed, survived, walked_back, swept),
                 landed, DeckAt(landed))
<1> DEFINE result == Final(Status(survived), landed, survived, walked_back, swept)
<1>1. /\ landed \in anchor .. anchor + accepted /\ landed \in Int
      /\ survived + 1 \in 1 .. accepted + 1 /\ anchor + (survived + 1) - 1 = landed
      /\ survived > 0 => landed > anchor
  OBVIOUS
<1>2. /\ DOMAIN records = anchor .. anchor + accepted /\ before = Objective(anchor)
      /\ Measured(landed)
  BY <1>1 DEF MeasureInv
<1>3. Cardinality(DOMAIN records) = accepted + 1
  BY <1>2, FS_Interval
<1>4. /\ result.status = Status(survived) /\ result.accepted = survived
      /\ result.objective_before = before
      /\ result.objective_after = records[landed].objective
      /\ result.area_after = records[landed].area
  BY DEF Final
<1>5. /\ DOMAIN result.points = 1 .. accepted + 1
      /\ result.points[survived + 1] =
           [version |-> landed, landed |-> TRUE, deck |-> records[landed].deck,
            area |-> records[landed].area, objective |-> records[landed].objective]
  <2>1. result.points = [i \in 1 .. accepted + 1 |->
                 [version |-> anchor + i - 1, landed |-> anchor + i - 1 = landed,
                  deck |-> records[anchor + i - 1].deck,
                  area |-> records[anchor + i - 1].area,
                  objective |-> records[anchor + i - 1].objective]]
    BY <1>3 DEF Final
  <2> HIDE DEF result
  <2> QED
    BY <1>1, <2>1
<1>6. records[landed].deck = DeckAt(landed)
  BY <1>2 DEF Measured
<1>7. survived > 0 => records[landed].objective < before
  BY <1>1, <1>2 DEF Measured, Objective
<1> HIDE DEF result
<1>8. LandsOn(result, landed, DeckAt(landed))
  BY <1>1, <1>4, <1>5, <1>6, <1>7 DEF LandsOn
<1> QED
  BY <1>8 DEF result

LEMMA KeptMeasures ==
  ASSUME MeasureInv, pc \in Measuring,
         UNCHANGED <<run, anchor, accepted, records, before, best>>,
         \A v \in anchor .. anchor + accepted : stack'[v + 1] = stack[v + 1]
  PROVE  MeasureInv'
<1>1. /\ DOMAIN records = anchor .. anchor + accepted
      /\ \A v \in anchor .. anchor + accepted : Measured(v)
      /\ before = Objective(anchor)
      /\ best = Objective(anchor + accepted)
  BY DEF MeasureInv
<1>2. ASSUME NEW v \in anchor .. anchor + accepted PROVE Measured(v)'
  <2>1. stack'[v + 1] = stack[v + 1] /\ Measured(v)
    BY <1>1
  <2> QED
    BY <2>1 DEF Measured, Objective, AreaOf, DeckAt
<1> QED
  BY <1>1, <1>2 DEF MeasureInv, Objective

LEMMA BaselineMeasures ==
  ASSUME MovesInv, Baseline
  PROVE  MeasureInv'
<1>1. PICK value : /\ value \in IF phase = "area" THEN {AreaOf(Top)} ELSE Value
                   /\ before' = value /\ best' = value
                   /\ records' = [v \in {anchor} |->
                        [objective |-> value, area |-> AreaOf(Top), deck |-> Top]]
  BY DEF Baseline
<1>2. pc = "baseline" /\ UNCHANGED <<run, anchor, stack, accepted>>
  BY DEF Baseline
<1>3. anchor \in Nat /\ accepted = 0 /\ Version = anchor
  BY <1>2 DEF MovesInv, IInv, StackInv, Working
<1>4. value \in Int
  <2>1. AreaOf(Top) \in Int
    BY TopTyped, AreaOfTyped DEF MovesInv, TypedInv
  <2> QED
    BY <1>1, <2>1, OptimizerAssumption
<1>5. anchor .. anchor + accepted = {anchor}
  BY <1>3
<1>6. records'[anchor] = [objective |-> value, area |-> AreaOf(Top), deck |-> Top]
  BY <1>1
<1>7. Top = DeckAt(anchor) /\ DeckAt(anchor)' = DeckAt(anchor)
      /\ AreaOf(DeckAt(anchor))' = AreaOf(Top)
  BY <1>2, <1>3 DEF Top, DeckAt, AreaOf
<1>8. Objective(anchor)' = value
  BY <1>2, <1>6 DEF Objective
<1>9. Measured(anchor)'
  BY <1>1, <1>2, <1>3, <1>4, <1>6, <1>7, <1>8 DEF Measured
<1> QED
  BY <1>1, <1>2, <1>3, <1>5, <1>8, <1>9 DEF MeasureInv

(* An accepted move is measured, strictly better than all before it.       *)
LEMMA AcceptMeasures ==
  ASSUME MovesInv, MeasureInv, pc = "judge", NEW value, value \in Attained, Accept(value),
         UNCHANGED <<run, anchor, before>>
  PROVE  MeasureInv'
<1>1. /\ anchor \in Nat /\ accepted \in Nat /\ Version = anchor + accepted + 1
  BY DEF MovesInv, IInv, StackInv, Working, Searching
<1>2. /\ DOMAIN records = anchor .. anchor + accepted
      /\ \A v \in anchor .. anchor + accepted : Measured(v)
      /\ before = Objective(anchor)
      /\ best = Objective(anchor + accepted)
  BY DEF MeasureInv, Measuring, Searching
<1>3. /\ value < best /\ best' = value /\ accepted' = accepted + 1 /\ stack' = stack
      /\ records' = [v \in DOMAIN records \cup {Version} |->
                        IF v = Version
                        THEN [objective |-> value, area |-> AreaOf(Top), deck |-> Top]
                        ELSE records[v]]
  BY DEF Accept
<1>4. value \in Int
  <2>1. AreaOf(Top) \in Int
    BY TopTyped, AreaOfTyped DEF MovesInv, TypedInv
  <2>2. best \in Int
    <3>1. Measured(anchor + accepted)
      BY <1>1, <1>2
    <3> QED
      BY <1>2, <3>1 DEF Measured
  <2> QED
    BY <2>1, <2>2, OptimizerAssumption DEF Attained
<1>5. anchor .. anchor + accepted' = (anchor .. anchor + accepted) \cup {Version}
  BY <1>1, <1>3
<1>6. ~ (Version \in anchor .. anchor + accepted)
  BY <1>1
<1>7. /\ DOMAIN records' = anchor' .. anchor' + accepted'
      /\ records'[Version] = [objective |-> value, area |-> AreaOf(Top), deck |-> Top]
      /\ \A v \in anchor .. anchor + accepted : records'[v] = records[v]
  BY <1>2, <1>3, <1>5, <1>6
<1>8. /\ records'[anchor] = records[anchor] /\ Objective(anchor) \in Int /\ best \in Int
      /\ best <= Objective(anchor)
  <2>1. anchor \in anchor .. anchor + accepted /\ anchor + accepted \in anchor .. anchor + accepted
    BY <1>1
  <2> QED
    BY <1>2, <1>7, <2>1 DEF Measured
<1>9. ASSUME NEW v \in anchor .. anchor + accepted PROVE Measured(v)'
  <2>1. Measured(v) /\ records'[v] = records[v] /\ v \in Int
    BY <1>1, <1>2, <1>7
  <2>2. value <= Objective(v)
    BY <1>3, <1>4, <1>8, <2>1 DEF Measured
  <2> QED
    BY <1>3, <1>8, <2>1, <2>2 DEF Measured, Objective, AreaOf, DeckAt
<1>10. PICK n \in Nat : n = Version
  BY <1>1
<1>11. Measured(n)'
  <2>1. /\ records'[n] = [objective |-> value, area |-> AreaOf(Top), deck |-> Top]
        /\ Top = DeckAt(n) /\ DeckAt(n)' = DeckAt(n) /\ AreaOf(DeckAt(n))' = AreaOf(Top)
    BY <1>3, <1>7, <1>10 DEF Top, DeckAt, AreaOf
  <2>2. value < Objective(anchor)
    BY <1>3, <1>4, <1>8
  <2> QED
    BY <1>3, <1>4, <1>8, <2>1, <2>2 DEF Measured, Objective
<1>12. best' = Objective(n)'
  BY <1>3, <1>7, <1>10 DEF Objective
<1>13. before' = Objective(anchor)'
  BY <1>2, <1>8 DEF Objective
<1>14. n = anchor' + accepted'
  BY <1>1, <1>3, <1>10
<1>15. \A v \in anchor' .. anchor' + accepted' : Measured(v)'
  BY <1>5, <1>9, <1>10, <1>11
<1> QED
  BY <1>7, <1>12, <1>13, <1>14, <1>15 DEF MeasureInv, Objective

LEMMA MeasureStep ==
  ASSUME LandingInv, [Next]_vars
  PROVE  MeasureInv'
<1>1. IInv /\ MovesInv /\ MeasureInv /\ anchor \in Nat /\ stack \in Seq(Decks)
  BY DEF LandingInv, MovesInv, TypedInv, IInv, StackInv
<1>2. pc \in Measuring =>
        /\ accepted \in Nat /\ Version = anchor + accepted + (IF pc = "judge" THEN 1 ELSE 0)
        /\ Version \in Nat /\ Len(stack) = Version + 1
  BY <1>1, VersionIsNat DEF IInv, StackInv, Measuring, Working, Searching
<1>3. ASSUME Baseline PROVE MeasureInv'
  BY <1>1, <1>3, BaselineMeasures
<1>4. ASSUME pc \in Measuring, UNCHANGED <<run, anchor, search, stack>> PROVE MeasureInv'
  BY <1>1, <1>4, KeptMeasures DEF search
<1>5. ASSUME pc \in Measuring, UNCHANGED <<run, anchor, accepted, records, before, best, stack>>
      PROVE  MeasureInv'
  BY <1>1, <1>5, KeptMeasures
<1>6. ASSUME EntrySweep \/ Confirm \/ BisectProbe PROVE MeasureInv'
  BY <1>4, <1>6 DEF EntrySweep, Confirm, BisectProbe, LandingFrame, Measuring, Searching
<1>7. ASSUME \/ Rank \/ SearchOver \/ LeadStops \/ PartnerStops \/ DescentOutgrows
             \/ FirstPoll \/ OpenPoll \/ PollOutgrows \/ PollOutOfSteps \/ ClosePoll
      PROVE  MeasureInv'
  BY <1>5, <1>7 DEF Rank, SearchOver, LeadStops, PartnerStops, DescentOutgrows, FirstPoll,
     OpenPoll, PollOutgrows, PollOutOfSteps, ClosePoll, SearchFrame, Descends, CanDescend, Polls,
     CanTry, Measuring, Searching
<1>8. ASSUME Descend \/ TryPoint PROVE MeasureInv'
  <2>1. /\ pc = "search" /\ UNCHANGED <<run, anchor, accepted, records, before, best>>
        /\ \E d : stack' = Append(stack, d)
    BY <1>8 DEF Descend, TryPoint, PushMove, SearchFrame, CanDescend, Descends, CanTry, Polls
  <2>2. \A i \in 1 .. Len(stack) : stack'[i] = stack[i]
    BY <1>1, <2>1, Pushed DEF IInv, StackInv
  <2>3. \A v \in anchor .. anchor + accepted : stack'[v + 1] = stack[v + 1]
    BY <1>1, <1>2, <2>1, <2>2 DEF Measuring, Searching
  <2> QED
    BY <1>1, <2>1, <2>3, KeptMeasures DEF Measuring, Searching
<1>9. ASSUME JudgeDescent \/ JudgePoint PROVE MeasureInv'
  <2>1. /\ pc = "judge" /\ UNCHANGED <<run, anchor, before>>
        /\ (\E value \in Attained : Accept(value)) \/ (\E code : Discard(code))
    BY <1>9 DEF JudgeDescent, JudgePoint, SearchFrame
  <2>2. ASSUME NEW code, Discard(code) PROVE MeasureInv'
    <3>1. stack' = PopTo(Version - 1) /\ UNCHANGED <<best, accepted, records>>
      BY <2>2 DEF Discard
    <3>2. Version - 1 \in Nat /\ Version - 1 <= Version /\ Version - 1 = anchor + accepted
      BY <1>1, <1>2, <2>1 DEF Measuring, Searching
    <3>3. \A i \in 1 .. (Version - 1) + 1 : stack'[i] = stack[i]
      BY <1>1, <3>1, <3>2, Popped DEF IInv, StackInv
    <3>4. accepted \in Nat
      BY <1>2, <2>1 DEF Measuring, Searching
    <3>5. \A v \in anchor .. anchor + accepted : v + 1 \in 1 .. (Version - 1) + 1
      BY <1>1, <3>2, <3>4
    <3>6. \A v \in anchor .. anchor + accepted : stack'[v + 1] = stack[v + 1]
      BY <3>3, <3>5
    <3> QED
      BY <1>1, <2>1, <3>1, <3>6, KeptMeasures DEF Measuring, Searching
  <2> QED
    BY <1>1, <2>1, <2>2, AcceptMeasures
<1>10. ASSUME \/ AreaRefused \/ AreaSetupFails \/ AreaRanks \/ ObjectiveSkipped \/ EnterPhase
              \/ BaselineUnmeasured \/ LandUnswept \/ BisectLands \/ PhaseFails \/ MakeFront
       PROVE  MeasureInv'
  <2>1. pc' \in {"begin", "front", "done", "baseline"}
    BY <1>10 DEF AreaRefused, AreaSetupFails, AreaRanks, ObjectiveSkipped, EnterPhase,
       BaselineUnmeasured, LandUnswept, BisectLands, PhaseFails, MakeFront, EndPhase
  <2> QED
    BY <2>1 DEF MeasureInv, Measuring, Searching
<1>11. ASSUME UNCHANGED vars PROVE MeasureInv'
  <2>1. UNCHANGED <<run, pc, anchor, search, stack>>
    BY <1>11 DEF vars
  <2>2. pc \notin Measuring => MeasureInv'
    BY <2>1 DEF MeasureInv
  <2> QED
    BY <1>4, <2>1, <2>2
<1> QED
  BY <1>3, <1>6, <1>7, <1>8, <1>9, <1>10, <1>11 DEF Next

-----------------------------------------------------------------------------
(* A phase ends: its result lands on the deck left on top, or it says      *)
(* nothing and that deck is the one the phase was given.                   *)
LEMMA TellingEnds ==
  ASSUME IInv, SaysInv, pc \notin Over, NEW result, EndPhase(result),
         result.points # <<>> => LandsOn(result, Version', Top'),
         result.points = <<>> /\ phase = "area" => Version' = 0 /\ Top' = Start,
         result.points = <<>> /\ phase = "objective"
           => Tells(results["area"], Version', Top')
  PROVE  SaysInv'
<1>1. DOMAIN results = {"area", "objective"} /\ results' = [results EXCEPT ![phase] = result]
  BY DEF IInv, ResultsInv, EndPhase
<1>2. CASE phase = "area"
  <2>1. phase' = "objective" /\ pc' = "begin" /\ results'["area"] = result
        /\ results'["objective"].points = <<>>
    BY <1>1, <1>2 DEF EndPhase, SaysInv
  <2>2. Tells(result, Version', Top')
    BY <1>2 DEF Tells
  <2> QED
    BY <2>1, <2>2 DEF SaysInv, Working, Searching, Over
<1>3. CASE phase = "objective"
  <2>1. /\ phase' = "objective" /\ pc' = "front" /\ results'["objective"] = result
        /\ results'["area"] = results["area"]
    BY <1>1, <1>3 DEF EndPhase
  <2>2. Landed' = IF result.points # <<>> THEN result ELSE results["area"]
    BY <2>1 DEF Landed, LastSearch
  <2>3. Tells(Landed', Version', Top')
    <3>1. CASE result.points # <<>>
      BY <2>2, <3>1 DEF Tells
    <3>2. CASE result.points = <<>>
      BY <1>3, <2>2, <3>2
    <3> QED
      BY <3>1, <3>2
  <2> QED
    BY <2>1, <2>3 DEF SaysInv, Working, Searching, Over
<1> QED
  BY <1>2, <1>3 DEF IInv, ResultsInv

LEMMA UnsearchedTells ==
  ASSUME LandingInv, pc \in {"area_setup", "begin", "baseline", "entry"},
         NEW status, NEW objective, NEW area, NEW swept,
         EndPhase(Unsearched(status, objective, area, swept)), stack' = stack
  PROVE  SaysInv'
<1> DEFINE result == Unsearched(status, objective, area, swept)
<1>1. result.points = <<>>
  BY UnsearchedShowsItsSweep
<1> HIDE DEF result
<1>2. EndPhase(result)
  BY DEF result
<1>3. Version' = Version /\ Top' = Top /\ pc \notin Over
  BY DEF Version, Top, DeckAt, Over
<1>4. pc \in {"baseline", "entry"} => Version = anchor /\ Top = DeckAt(anchor)
  BY DEF LandingInv, MovesInv, IInv, StackInv, Working, Searching, Version, Top
<1>5. IInv /\ SaysInv /\ (pc = "area_setup" => phase = "area")
  BY DEF LandingInv, MovesInv, IInv, ResultsInv
<1>6. phase = "area" => Version = 0 /\ Top = Start
  BY <1>4, <1>5 DEF SaysInv, Working
<1>7. phase = "objective" => Tells(results["area"], Version, Top)
  BY <1>4, <1>5 DEF SaysInv, Working
<1> QED
  BY <1>1, <1>2, <1>3, <1>5, <1>6, <1>7, TellingEnds

LEMMA SearchedTells ==
  ASSUME LandingInv, pc \in Searching, NEW survived \in 0 .. accepted, NEW landed,
         landed = anchor + survived, NEW walked_back, NEW swept,
         EndPhase(Final(Status(survived), landed, survived, walked_back, swept)),
         Version' = landed, Top' = DeckAt(landed)
  PROVE  SaysInv'
<1> DEFINE result == Final(Status(survived), landed, survived, walked_back, swept)
<1>1. IInv /\ SaysInv /\ MeasureInv /\ pc \notin Over /\ pc \in Measuring
  BY DEF LandingInv, MovesInv, Over, Searching, Measuring
<1>2. anchor \in Nat /\ accepted \in Nat
  BY <1>1 DEF IInv, StackInv, Working
<1>3. result.points # <<>>
  BY <1>1, FinalHasPoints DEF IInv, RecordsInv
<1>4. LandsOn(result, Version', Top')
  BY <1>1, <1>2, FinalLands
<1>5. EndPhase(result)
  OBVIOUS
<1> HIDE DEF result
<1> QED
  BY <1>1, <1>3, <1>4, <1>5, TellingEnds

(* Within a phase the version it was given stays where it is.              *)
LEMMA KeptTells ==
  ASSUME SaysInv, pc \in Working, pc' \in Working,
         UNCHANGED <<phase, anchor, results>>, stack'[anchor + 1] = stack[anchor + 1]
  PROVE  SaysInv'
<1>1. DeckAt(anchor)' = DeckAt(anchor)
  BY DEF DeckAt
<1> QED
  BY <1>1 DEF SaysInv, Working, Searching, Over

LEMMA LandingTells ==
  ASSUME LandingInv, LandUnswept \/ (Confirm /\ pc' # "bisect") \/ BisectLands
  PROVE  SaysInv'
<1>1. /\ IInv /\ pc \in Searching /\ anchor \in Nat /\ accepted \in Nat
      /\ Version = anchor + accepted /\ accepted \in 0 .. accepted
  BY DEF LandingInv, MovesInv, IInv, StackInv, Working, Searching, LandUnswept, Confirm,
     BisectLands
<1>2. ASSUME LandUnswept PROVE SaysInv'
  <2>1. EndPhase(Final(Status(accepted), Version, accepted, 0, sweep)) /\ stack' = stack
    BY <1>2 DEF LandUnswept
  <2>2. Version' = Version /\ Top' = DeckAt(Version)
    BY <2>1 DEF Version, Top, DeckAt
  <2> QED
    BY <1>1, <2>1, <2>2, SearchedTells
<1>3. ASSUME Confirm, pc' # "bisect" PROVE SaysInv'
  <2>1. EndPhase(Final("OPTIMIZED", Version, accepted, 0, Swept(Version, "pass")))
        /\ stack' = stack /\ accepted > 0
    BY <1>3 DEF Confirm
  <2>2. Version' = Version /\ Top' = DeckAt(Version)
    BY <2>1 DEF Version, Top, DeckAt
  <2>3. EndPhase(Final(Status(accepted), Version, accepted, 0, Swept(Version, "pass")))
    BY <2>1 DEF Status
  <2> QED
    BY <1>1, <2>2, <2>3, SearchedTells
<1>4. ASSUME BisectLands PROVE SaysInv'
  <2>1. PICK lo : lo = interval.lo
    OBVIOUS
  <2>2. /\ EndPhase(Final(Status(lo - anchor), lo, lo - anchor, accepted - (lo - anchor), sweep))
        /\ stack' = PopTo(lo) /\ pc = "bisect"
    BY <1>4, <2>1 DEF BisectLands
  <2>3. lo \in Nat /\ interval.hi \in Nat /\ anchor <= lo /\ lo <= interval.hi
        /\ interval.hi <= Version
    BY <1>1, <2>1, <2>2 DEF IInv, SweepInv
  <2>4. lo - anchor \in 0 .. accepted /\ lo = anchor + (lo - anchor) /\ lo <= Version
    BY <1>1, <2>3
  <2>5. Len(stack') = lo + 1 /\ stack'[lo + 1] = stack[lo + 1]
    BY <1>1, <2>2, <2>3, <2>4, Popped DEF IInv, StackInv
  <2>6. Version' = lo /\ Top' = DeckAt(lo)
    BY <2>3, <2>5 DEF Version, Top, DeckAt
  <2> QED
    BY <1>1, <2>2, <2>4, <2>6, SearchedTells
<1> QED
  BY <1>2, <1>3, <1>4

LEMMA FailTells ==
  ASSUME LandingInv, PhaseFails
  PROVE  SaysInv'
<1>1. PICK area : EndPhase(Unsearched("UNCHANGED", None, area, NoSweep))
  BY DEF PhaseFails
<1>2. /\ pc \in Working \cup {"begin"}
      /\ stack' = IF pc = "begin" THEN stack ELSE PopTo(anchor)
  BY DEF PhaseFails, Working, Searching
<1>3. CASE pc = "begin"
  BY <1>1, <1>2, <1>3, UnsearchedTells
<1>4. CASE pc \in Working
  <2>1. IInv /\ SaysInv /\ pc \notin Over /\ stack' = PopTo(anchor)
    BY <1>2, <1>4 DEF LandingInv, MovesInv, Working, Searching, Over
  <2>2. anchor \in Nat /\ anchor <= Version
    <3>1. anchor \in Nat /\ accepted \in Nat
          /\ Version = anchor + accepted + (IF pc = "judge" THEN 1 ELSE 0)
      BY <1>4, <2>1 DEF IInv, StackInv
    <3> QED
      BY <3>1
  <2>3. Len(stack') = anchor + 1 /\ stack'[anchor + 1] = stack[anchor + 1]
    BY <2>1, <2>2, Popped DEF IInv, StackInv
  <2>4. Version' = anchor /\ Top' = DeckAt(anchor)
    BY <2>2, <2>3 DEF Version, Top, DeckAt
  <2>5. Unsearched("UNCHANGED", None, area, NoSweep).points = <<>>
    BY UnsearchedShowsItsSweep
  <2>6. /\ phase = "area" => anchor = 0 /\ DeckAt(anchor) = Start
        /\ phase = "objective" => Tells(results["area"], anchor, DeckAt(anchor))
    BY <1>4, <2>1 DEF SaysInv
  <2> QED
    BY <1>1, <2>1, <2>4, <2>5, <2>6, TellingEnds
<1> QED
  BY <1>2, <1>3, <1>4

LEMMA SaysStep ==
  ASSUME LandingInv, [Next]_vars
  PROVE  SaysInv'
<1>1. IInv /\ SaysInv /\ anchor \in Nat
  BY DEF LandingInv, MovesInv, IInv, StackInv
<1>2. pc \in Working =>
        /\ accepted \in Nat /\ Version = anchor + accepted + (IF pc = "judge" THEN 1 ELSE 0)
        /\ Version \in Nat /\ Len(stack) = Version + 1 /\ anchor + 1 \in 1 .. Len(stack)
  BY <1>1, VersionIsNat DEF IInv, StackInv
<1>3. ASSUME AreaRefused \/ AreaSetupFails \/ ObjectiveSkipped \/ BaselineUnmeasured
      PROVE  SaysInv'
  <2>1. /\ pc \in {"area_setup", "begin", "baseline"} /\ stack' = stack
        /\ \E status, objective, area : EndPhase(Unsearched(status, objective, area, NoSweep))
    BY <1>3 DEF AreaRefused, AreaSetupFails, ObjectiveSkipped, BaselineUnmeasured
  <2> QED
    BY <2>1, UnsearchedTells
<1>4. ASSUME EntrySweep PROVE SaysInv'
  <2>1. /\ pc = "entry" /\ stack' = stack /\ anchor' = anchor
        /\ \/ pc' = "rank" /\ UNCHANGED <<phase, results>>
           \/ \E swept : EndPhase(Unsearched("UNCHANGED", before, AreaOf(Top), swept))
    BY <1>4 DEF EntrySweep
  <2> QED
    BY <1>1, <2>1, UnsearchedTells, KeptTells DEF Working, Searching
<1>5. ASSUME AreaRanks PROVE SaysInv'
  <2>1. pc = "area_setup" /\ pc' = "begin" /\ UNCHANGED <<phase, stack, results>>
        /\ phase = "area"
    BY <1>1, <1>5 DEF AreaRanks, IInv, ResultsInv
  <2> QED
    BY <1>1, <2>1 DEF SaysInv, Working, Searching, Over, Version, Top, DeckAt
<1>6. ASSUME EnterPhase PROVE SaysInv'
  <2>1. stack' = stack
    BY <1>6 DEF EnterPhase, Given
  <2>2. /\ pc = "begin" /\ pc' = "baseline" /\ anchor' = Version
        /\ UNCHANGED <<phase, stack, results>>
    BY <1>6, <2>1 DEF EnterPhase, Version
  <2>3. DeckAt(anchor)' = Top
    BY <2>2 DEF Top, DeckAt
  <2> QED
    BY <1>1, <2>2, <2>3 DEF SaysInv, Working, Searching, Over
<1>7. ASSUME \/ Baseline \/ Rank \/ SearchOver \/ LeadStops \/ PartnerStops \/ DescentOutgrows
             \/ FirstPoll \/ OpenPoll \/ PollOutgrows \/ PollOutOfSteps \/ ClosePoll
             \/ BisectProbe
      PROVE  SaysInv'
  <2>1. pc \in Working /\ pc' \in Working /\ UNCHANGED <<phase, anchor, results, stack>>
    BY <1>7 DEF Baseline, Rank, SearchOver, LeadStops, PartnerStops, DescentOutgrows, FirstPoll,
       OpenPoll, PollOutgrows, PollOutOfSteps, ClosePoll, BisectProbe, SearchFrame, LandingFrame,
       Descends, CanDescend, Polls, CanTry, Working, Searching
  <2> QED
    BY <1>1, <2>1, KeptTells
<1>8. ASSUME Descend \/ TryPoint PROVE SaysInv'
  <2>1. /\ pc = "search" /\ pc' = "judge" /\ UNCHANGED <<phase, anchor, results>>
        /\ \E d : stack' = Append(stack, d)
    BY <1>8 DEF Descend, TryPoint, PushMove, SearchFrame, CanDescend, Descends, CanTry, Polls
  <2>2. \A i \in 1 .. Len(stack) : stack'[i] = stack[i]
    BY <1>1, <2>1, Pushed DEF IInv, StackInv
  <2> QED
    BY <1>1, <1>2, <2>1, <2>2, KeptTells DEF Working, Searching
<1>9. ASSUME JudgeDescent \/ JudgePoint PROVE SaysInv'
  <2>1. /\ pc = "judge" /\ pc' = "search" /\ UNCHANGED <<phase, anchor, results>>
        /\ stack' = stack \/ stack' = PopTo(Version - 1)
    BY <1>9 DEF JudgeDescent, JudgePoint, SearchFrame, Accept, Discard
  <2>2. /\ Version - 1 \in Nat /\ Version - 1 <= Version
        /\ anchor + 1 \in 1 .. (Version - 1) + 1
    BY <1>1, <1>2, <2>1 DEF Working, Searching
  <2>3. stack'[anchor + 1] = stack[anchor + 1]
    BY <1>1, <2>1, <2>2, Popped DEF IInv, StackInv
  <2> QED
    BY <1>1, <2>1, <2>3, KeptTells DEF Working, Searching
<1>10. ASSUME Confirm, pc' = "bisect" PROVE SaysInv'
  <2>1. pc = "landing" /\ UNCHANGED <<phase, anchor, results, stack>>
    BY <1>10 DEF Confirm, LandingFrame, EndPhase
  <2> QED
    BY <1>1, <1>10, <2>1, KeptTells DEF Working, Searching
<1>11. ASSUME MakeFront \/ UNCHANGED vars PROVE SaysInv'
  <2>1. /\ UNCHANGED <<phase, anchor, results, stack>>
        /\ pc' = pc \/ (pc = "front" /\ pc' = "done")
    BY <1>11 DEF MakeFront, vars
  <2> QED
    BY <1>1, <2>1 DEF SaysInv, Working, Searching, Over, Version, Top, DeckAt, Landed, LastSearch
<1> QED
  BY <1>3, <1>4, <1>5, <1>6, <1>7, <1>8, <1>9, <1>10, <1>11, LandingTells, FailTells DEF Next

LEMMA LandingInit == Init => LandingInv
<1> SUFFICES ASSUME Init PROVE LandingInv
  OBVIOUS
<1>1. MovesInv
  BY InitInv, InitMoves DEF MovesInv
<1>2. MeasureInv
  BY DEF Init, MeasureInv, Measuring, Searching
<1>3. SaysInv
  BY DEF Init, SaysInv, Version, Top, DeckAt, NoResult, Working, Searching, Over
<1> QED
  BY <1>1, <1>2, <1>3 DEF LandingInv

(* Whatever the simulations show and the agent proposes, a run returns the *)
(* deck it started from, or the deck a search landed on with the figures   *)
(* measured of it, strictly better when any step was accepted              *)
(* (optimizer.py:1463-1484, 1975-1988).                                    *)
THEOREM TheLandingIsReturned == Spec => []ReturnsTheLanding
<1>1. Init => LandingInv
  BY LandingInit
<1>2. LandingInv /\ [Next]_vars => LandingInv'
  <2> SUFFICES ASSUME LandingInv, [Next]_vars PROVE LandingInv'
    OBVIOUS
  <2>1. IInv'
    BY SearchedIsKept DEF LandingInv, MovesInv
  <2>2. TypedInv'
    BY MovesStep DEF LandingInv
  <2> QED
    BY <2>1, <2>2, MeasureStep, SaysStep DEF LandingInv, MovesInv
<1>3. LandingInv => ReturnsTheLanding
  <2> SUFFICES ASSUME LandingInv, PhasesOver PROVE ReturnsTheLanding
    BY DEF ReturnsTheLanding
  <2>1. Tells(Landed, Version, Top) /\ stack \in Seq(Decks)
    BY DEF LandingInv, SaysInv, MovesInv, TypedInv, PhasesOver, Over
  <2>2. CASE Landed.points = <<>>
    <3>1. Len(stack) = 1 /\ stack[1] = Start
      <4>1. Version = 0 /\ Top = Start
        BY <2>1, <2>2 DEF Tells
      <4>2. Len(stack) = 1
        BY <2>1, <4>1 DEF Version
      <4> QED
        BY <4>1, <4>2 DEF Top, DeckAt
    <3>2. stack = <<Start>>
      BY <2>1, <3>1
    <3> QED
      BY <2>2, <3>2 DEF ReturnsTheLanding
  <2>3. CASE Landed.points # <<>>
    BY <2>1, <2>3 DEF Tells, LandsOn, ReturnsTheLanding
  <2> QED
    BY <2>2, <2>3
<1> QED
  BY <1>1, <1>2, <1>3, PTL DEF Spec

-----------------------------------------------------------------------------
(***************************************************************************)
(* When MADS gives up.  The reach of a direction halves from poll to poll, *)
(* so two empty polls in a row have the same points only when the earlier  *)
(* reach was already below one level.                                      *)
(***************************************************************************)
LEMMA Cancel ==
  ASSUME NEW p \in Nat \ {0}, NEW x \in Int, NEW y \in Int
  PROVE  /\ p * x < p * y => x < y
         /\ p * x <= p * y => x <= y
         /\ x <= y => p * x <= p * y
  OBVIOUS

LEMMA Quotient ==
  ASSUME NEW a \in Nat, NEW p \in Nat \ {0}
  PROVE  /\ a \div p \in Nat
         /\ p * (a \div p) <= a /\ a < p * ((a \div p) + 1)
<1>1. PICK q : q = a \div p
  OBVIOUS
<1>2. PICK r : r = a % p
  OBVIOUS
<1>3. q \in Int /\ q >= 0 /\ r \in 0 .. p - 1
  BY <1>1, <1>2
<1>4. a = p * q + r
  BY <1>1, <1>2, <1>3
<1>5. p * (q + 1) = p * q + p /\ p * q \in Int
  BY <1>3
<1> QED
  BY <1>1, <1>3, <1>4, <1>5

LEMMA QuotientGrows ==
  ASSUME NEW a \in Nat, NEW b \in Nat, a <= b, NEW p \in Nat \ {0}
  PROVE  a \div p <= b \div p
<1>1. PICK q \in Nat : q = a \div p
  BY Quotient
<1>2. PICK s \in Nat : s = b \div p
  BY Quotient
<1>3. p * q <= a /\ b < p * (s + 1)
  BY <1>1, <1>2, Quotient
<1>4. p * q \in Int /\ p * (s + 1) \in Int
  OBVIOUS
<1>5. p * q < p * (s + 1)
  BY <1>3, <1>4
<1>6. q < s + 1
  BY <1>5, Cancel
<1> QED
  BY <1>1, <1>2, <1>6

LEMMA QuotientHalves ==
  ASSUME NEW a \in Nat, NEW p \in Nat \ {0}
  PROVE  /\ a \div (2 * p) <= a \div p
         /\ a \div p > 0 => a \div (2 * p) < a \div p
<1>1. PICK q \in Nat : q = a \div p
  BY Quotient
<1>2. PICK d \in Nat \ {0} : d = 2 * p
  OBVIOUS
<1>3. PICK s \in Nat : s = a \div d
  BY Quotient
<1>4. d * s <= a /\ a < p * (q + 1)
  BY <1>1, <1>3, Quotient
<1>5. d * s = p * (2 * s)
  BY <1>2
<1>6. p * (2 * s) \in Int /\ p * (q + 1) \in Int /\ 2 * s \in Int /\ q + 1 \in Int
  OBVIOUS
<1>7. p * (2 * s) < p * (q + 1)
  BY <1>4, <1>5, <1>6
<1>8. 2 * s < q + 1
  BY <1>6, <1>7, Cancel
<1> QED
  BY <1>1, <1>2, <1>3, <1>8

(* No component reaches farther than a full one.                           *)
LEMMA FullReachesFarthest ==
  ASSUME NEW c \in Component, NEW mesh \in Int
  PROVE  Reach(c, mesh) \in Nat /\ Reach(2, mesh) \in Nat /\ Reach(c, mesh) <= Reach(2, mesh)
<1>1. PICK n \in Nat : n = c * Unit
  BY KnobAssumption DEF Component
<1>2. PICK m \in Nat : m = 2 * Unit
  BY KnobAssumption
<1>3. n <= m
  BY <1>1, <1>2, KnobAssumption DEF Component
<1>4. CASE mesh >= 0
  <2>1. PICK p \in Nat \ {0} : p = PowerOfTwo[mesh]
    BY <1>4, PowersDouble
  <2>2. PICK x \in Nat : x = n * p
    OBVIOUS
  <2>3. PICK y \in Nat : y = m * p
    OBVIOUS
  <2>4. x <= y
    <3>1. n * p = p * n /\ m * p = p * m
      OBVIOUS
    <3> QED
      BY <1>3, <2>2, <2>3, <3>1, Cancel
  <2>5. Reach(c, mesh) = x \div 2 /\ Reach(2, mesh) = y \div 2
    BY <1>1, <1>2, <1>4, <2>1, <2>2, <2>3 DEF Reach
  <2> QED
    BY <2>4, <2>5
<1>5. CASE ~ (mesh >= 0)
  <2>1. PICK p \in Nat \ {0} : p = PowerOfTwo[1 - mesh]
    <3>1. 1 - mesh \in Nat
      BY <1>5
    <3> QED
      BY <3>1, PowersDouble
  <2>2. Reach(c, mesh) = n \div p /\ Reach(2, mesh) = m \div p
    BY <1>1, <1>2, <1>5, <2>1 DEF Reach
  <2> QED
    BY <1>3, <2>2, Quotient, QuotientGrows
<1> QED
  BY <1>4, <1>5

(* The reach shrinks with the mesh, strictly while it is not zero.         *)
LEMMA ReachShrinks ==
  ASSUME NEW mesh \in Int
  PROVE  /\ Reach(2, mesh) \in Nat /\ Reach(2, mesh + 1) \in Nat
         /\ Reach(2, mesh) <= Reach(2, mesh + 1)
         /\ Reach(2, mesh + 1) > 0 => Reach(2, mesh) < Reach(2, mesh + 1)
<1>1. PICK u \in Nat \ {0} : u = Unit
  BY KnobAssumption
<1>2. mesh + 1 \in Int /\ 2 \in Component
  BY DEF Component
<1>3. Reach(2, mesh) \in Nat /\ Reach(2, mesh + 1) \in Nat
  BY <1>2, FullReachesFarthest
<1>4. CASE mesh >= 0
  <2>1. PICK p \in Nat \ {0} : p = PowerOfTwo[mesh]
    BY <1>4, PowersDouble
  <2>2. PowerOfTwo[mesh + 1] = 2 * p
    BY <1>4, <2>1, PowersDouble
  <2>3. Reach(2, mesh) = (2 * u * p) \div 2 /\ Reach(2, mesh + 1) = (2 * u * (2 * p)) \div 2
    BY <1>1, <1>2, <1>4, <2>1, <2>2 DEF Reach
  <2>4. PICK x \in Nat \ {0} : x = u * p
    OBVIOUS
  <2>5. 2 * u * p = 2 * x /\ 2 * u * (2 * p) = 4 * x
    BY <2>4
  <2>6. Reach(2, mesh) = x /\ Reach(2, mesh + 1) = 2 * x
    BY <2>3, <2>5
  <2> QED
    BY <1>3, <2>6
<1>5. CASE mesh = -1
  <2>1. PowerOfTwo[0] = 1 /\ PowerOfTwo[1] = 2 /\ PowerOfTwo[2] = 4
    <3>1. PowerOfTwo[0 + 1] = 2 * PowerOfTwo[0] /\ PowerOfTwo[1 + 1] = 2 * PowerOfTwo[1]
          /\ PowerOfTwo[0] = 1
      BY PowersDouble
    <3> QED
      BY <3>1
  <2>2. 1 - mesh = 2 /\ mesh + 1 = 0 /\ ~ (mesh >= 0)
    BY <1>5
  <2>3. Reach(2, mesh) = (2 * u) \div 4 /\ Reach(2, mesh + 1) = (2 * u * 1) \div 2
    BY <1>1, <2>1, <2>2 DEF Reach
  <2> QED
    BY <1>3, <2>3
<1>6. CASE mesh < -1
  <2>1. PICK n \in Nat : n = -mesh
    BY <1>6
  <2>2. PICK p \in Nat \ {0} : p = PowerOfTwo[n]
    BY PowersDouble
  <2>3. PowerOfTwo[n + 1] = 2 * p
    BY <2>2, PowersDouble
  <2>4. 1 - mesh = n + 1 /\ 1 - (mesh + 1) = n /\ ~ (mesh >= 0) /\ ~ (mesh + 1 >= 0)
    BY <1>6, <2>1
  <2>5. Reach(2, mesh) = (2 * u) \div (2 * p) /\ Reach(2, mesh + 1) = (2 * u) \div p
    BY <1>1, <2>2, <2>3, <2>4 DEF Reach
  <2>6. 2 * u \in Nat
    OBVIOUS
  <2> QED
    BY <1>3, <2>5, <2>6, QuotientHalves
<1> QED
  BY <1>4, <1>5, <1>6

(* Once the mesh is no coarser than at the start, a count's axis moves it  *)
(* by one device.                                                          *)
LEMMA OneDevice ==
  ASSUME NEW k \in Count, NEW level \in Int, NEW dir \in Direction, NEW mesh \in Int,
         mesh <= InitialMesh, CanStep(k, level, dir)
  PROVE  Candidate(k, level, dir, 2, mesh) = Stepped(level, dir)
<1>1. PICK u \in Nat \ {0} : u = Unit
  BY KnobAssumption
<1>2. PICK r \in Nat : r = Reach(2, mesh)
  BY ReachShrinks
<1>3. r <= u
  <2>1. CASE mesh = 0
    <3>1. PowerOfTwo[0] = 1
      BY PowersDouble
    <3>2. Reach(2, 0) = (2 * u * 1) \div 2
      BY <1>1, <3>1 DEF Reach
    <3> QED
      BY <1>2, <2>1, <3>2
  <2>2. CASE mesh # 0
    <3>1. PICK n \in Nat : n = -mesh
      BY <2>2 DEF InitialMesh
    <3>2. PICK p \in Nat \ {0} : p = PowerOfTwo[n]
      BY PowersDouble
    <3>3. PICK d \in Nat \ {0} : d = 2 * p
      OBVIOUS
    <3>4. r = (2 * u) \div d
      <4>1. PowerOfTwo[n + 1] = d /\ 1 - mesh = n + 1 /\ ~ (mesh >= 0)
        BY <2>2, <3>1, <3>2, <3>3, PowersDouble DEF InitialMesh
      <4> QED
        BY <1>1, <1>2, <4>1 DEF Reach
    <3>5. d * r <= 2 * u
      <4>1. 2 * u \in Nat
        OBVIOUS
      <4> QED
        BY <3>4, <4>1, Quotient
    <3>6. 2 * r <= d * r
      BY <3>3
    <3>7. d * r \in Int
      OBVIOUS
    <3> QED
      BY <3>5, <3>6, <3>7
  <2> QED
    BY <2>1, <2>2
<1>4. PICK h \in Nat : h = u \div 2
  OBVIOUS
<1>5. h < u
  BY <1>4
<1>6. PICK a \in Nat : a = r + h
  OBVIOUS
<1>7. PICK q \in Nat : q = a \div u
  BY Quotient
<1>8. q <= 1
  <2>1. u * q <= a
    BY <1>7, Quotient
  <2>2. a < 2 * u /\ 2 * u = u * 2 /\ u * q \in Int /\ u * 2 \in Int
    BY <1>3, <1>5, <1>6
  <2>3. u * q < u * 2
    BY <2>1, <2>2
  <2>4. q < 2
    BY <2>3, Cancel
  <2> QED
    BY <2>4
<1>9. AtLeast(1, q) = 1
  BY <1>8 DEF AtLeast
<1>10. Candidate(k, level, dir, 2, mesh) = AtLeast(u, level + dir * u * 1)
  BY <1>1, <1>2, <1>4, <1>6, <1>7, <1>9 DEF Candidate
<1>11. PICK t \in Int : t = level + dir * u
  BY DEF Direction
<1>12. level + dir * u * 1 = t /\ t >= u
  BY <1>1, <1>11 DEF CanStep, Direction
<1> QED
  BY <1>1, <1>10, <1>11, <1>12 DEF AtLeast, Stepped

-----------------------------------------------------------------------------
(* Inductive invariant: an open poll has the axis of every live knob, and  *)
(* the points of the last empty poll are those of the mesh one coarser.    *)
Base == DeckAt(anchor + accepted)
AxisPoint(d, dirs, live, k, mesh) == PointOf(d, dirs, Axis(live, k), mesh)
AxesHold(p, d, dirs) ==
  /\ p.stopped = "no"
  /\ p.open => \A k \in p.live : \E i \in DOMAIN p.todo : p.todo[i] = Axis(p.live, k)
  /\ \A points \in p.barren, k \in p.live :
       AxisPoint(d, dirs, p.live, k, p.mesh + 1) # Here(d, p.live)
         => AxisPoint(d, dirs, p.live, k, p.mesh + 1) \in points
AxesInv ==
  pc \in Hunting =>
    IF run.strategy = "mads" THEN poll # NoPoll => AxesHold(poll, Base, Dirs(poll.live))
    ELSE poll = NoPoll
GivesUpInv == MovesInv /\ AxesInv /\ ExhaustionIsReal

(* The axis of a knob moves that knob alone, by a full component.          *)
LEMMA AxisMoves ==
  ASSUME NEW d, NEW live, NEW dirs, DOMAIN dirs = live, NEW k \in live, NEW mesh
  PROVE  /\ DOMAIN AxisPoint(d, dirs, live, k, mesh) = live
         /\ AxisPoint(d, dirs, live, k, mesh)[k] = Candidate(k, d[k], dirs[k], 2, mesh)
         /\ \A x \in live : x # k => AxisPoint(d, dirs, live, k, mesh)[x] = d[x]
  BY DEF AxisPoint, PointOf, Axis, Candidate

(* A geometric knob moves by no more than the reach of a full component,   *)
(* and its axis by exactly that.                                           *)
Moved(level, dir, r) == level + dir * r
LEMMA FullReach ==
  ASSUME NEW k \in Knob \ Count, NEW level, NEW dir, NEW mesh
  PROVE  Candidate(k, level, dir, 2, mesh) = Moved(level, dir, Reach(2, mesh))
  BY DEF Candidate, Moved

MovesWithin(far, to, level, dir) == \E r \in 0 .. far : to = Moved(level, dir, r)
LEMMA GeometricReach ==
  ASSUME NEW k \in Knob \ Count, NEW level \in Int, NEW dir \in Direction,
         NEW c \in Component, NEW mesh \in Int
  PROVE  MovesWithin(Reach(2, mesh), Candidate(k, level, dir, c, mesh), level, dir)
<1>1. Reach(c, mesh) \in 0 .. Reach(2, mesh) /\ 0 \in 0 .. Reach(2, mesh)
  BY FullReachesFarthest
<1>2. CASE c = 0
  BY <1>1, <1>2 DEF Candidate, Direction, Moved, MovesWithin
<1>3. CASE c # 0
  BY <1>1, <1>3 DEF Candidate, Moved, MovesWithin
<1> QED
  BY <1>2, <1>3

LEMMA HereIs ==
  ASSUME NEW d, NEW live, NEW k \in live
  PROVE  Here(d, live)[k] = d[k]
  BY DEF Here

(* What the last poll shows when MADS gives up.                            *)
LEMMA ExhaustionHolds ==
  ASSUME MovesInv, AxesInv, ClosePoll, Exhausted, NEW k \in poll.live
  PROVE  IF k \in Count
         THEN poll.mesh <= InitialMesh /\ CanStep(k, Top[k], Dirs(poll.live)[k]) =>
                [Here(Top, poll.live) EXCEPT ![k] = Stepped(@, Dirs(poll.live)[k])]
                  \in poll.refused
         ELSE Reach(2, poll.mesh) = 0
<1>1. /\ pc = "search" /\ run.strategy = "mads" /\ poll # NoPoll /\ poll.open /\ Fresh = {}
  BY DEF ClosePoll, Polls
<1>2. /\ IInv /\ stack \in Seq(Decks) /\ ranking \in Seq(Ranks)
      /\ Polled(poll) /\ poll.live \in SUBSET RankedKnobs
      /\ anchor \in Nat /\ accepted \in Nat /\ Version = anchor + accepted
  BY <1>1 DEF MovesInv, TypedInv, PollInv, IInv, StackInv, Hunting, Working, Searching
<1>3. Base = Top /\ Top \in Decks
  BY <1>2, TopTyped DEF Base, Top
<1>4. AxesHold(poll, Top, Dirs(poll.live))
  BY <1>1, <1>3 DEF AxesInv, Hunting
<1>5. PICK dirs : dirs = Dirs(poll.live)
  OBVIOUS
<1>6. PICK live : live = poll.live
  OBVIOUS
<1>7. PICK mesh \in Int : mesh = poll.mesh
  BY <1>2 DEF Polled
<1>8. PICK d \in Decks : d = Top
  BY <1>3
<1>9. /\ DOMAIN dirs = live /\ k \in live /\ k \in Knob /\ dirs[k] \in Direction
      /\ d[k] \in Int
  BY <1>2, <1>5, <1>6, DirsTyped DEF Decks
<1>10. \A i \in DOMAIN poll.todo : poll.todo[i] \in [live -> Component]
  BY <1>2, <1>6, ElementTyped DEF Polled
<1>11. \A i : PollPoint(i) = PointOf(d, dirs, poll.todo[i], mesh)
  BY <1>5, <1>7, <1>8 DEF PollPoint
<1> PICK level \in Int : level = d[k]
  BY <1>9
<1> PICK dir \in Direction : dir = dirs[k]
  BY <1>9
<1>12. CASE k \in Count
  <2> SUFFICES ASSUME mesh <= InitialMesh, CanStep(k, d[k], dirs[k])
               PROVE  [Here(d, live) EXCEPT ![k] = Stepped(d[k], dirs[k])] \in poll.refused
    BY <1>5, <1>6, <1>7, <1>8, <1>9, <1>12 DEF Here
  <2>1. PICK i \in DOMAIN poll.todo : poll.todo[i] = Axis(live, k)
    BY <1>1, <1>4, <1>6, <1>9 DEF AxesHold
  <2>2. PICK point : point = PollPoint(i)
    OBVIOUS
  <2>3. point = AxisPoint(d, dirs, live, k, mesh)
    BY <1>11, <2>1, <2>2 DEF AxisPoint
  <2>4. point[k] = Stepped(d[k], dirs[k])
    <3>1. Candidate(k, level, dir, 2, mesh) = Stepped(level, dir)
      BY <1>12, OneDevice
    <3>2. AxisPoint(d, dirs, live, k, mesh)[k] = Candidate(k, d[k], dirs[k], 2, mesh)
      BY <1>9, AxisMoves
    <3> QED
      BY <2>3, <3>1, <3>2
  <2>5. Stepped(d[k], dirs[k]) # d[k]
    <3>1. PICK u \in Nat \ {0} : u = Unit
      BY KnobAssumption
    <3>2. level + dir * u # level
      BY DEF Direction
    <3> QED
      BY <3>1, <3>2 DEF Stepped
  <2>6. i \in Moving
    <3>1. PollPoint(i) # Here(Top, poll.live)
      BY <1>6, <1>8, <1>9, <2>2, <2>4, <2>5, HereIs
    <3>2. DOMAIN Dirs(poll.live) = poll.live
      BY DEF Dirs
    <3> QED
      BY <3>1, <3>2, OtherPointMoves
  <2>7. point \in poll.refused
    BY <1>1, <2>2, <2>6 DEF Fresh
  <2>8. point = [Here(d, live) EXCEPT ![k] = Stepped(d[k], dirs[k])]
    <3>1. DOMAIN point = live /\ \A x \in live : x # k => point[x] = d[x]
      BY <1>9, <2>3 DEF AxisPoint, PointOf, Axis, Candidate
    <3>2. point = [x \in live |-> point[x]]
      BY <1>9, <2>3 DEF AxisPoint, PointOf
    <3> QED
      BY <1>9, <2>4, <3>1, <3>2 DEF Here
  <2> QED
    BY <2>7, <2>8
<1>13. CASE k \notin Count
  <2> SUFFICES ASSUME Reach(2, mesh) # 0 PROVE FALSE
    BY <1>7, <1>13
  <2>1. PICK far \in Nat : far = Reach(2, mesh + 1)
    BY ReachShrinks
  <2>2. PICK near \in Nat : near = Reach(2, mesh)
    BY ReachShrinks
  <2>3. near < far /\ far > 0
    BY <2>1, <2>2, ReachShrinks
  <2>4. PICK axis : axis = AxisPoint(d, dirs, live, k, mesh + 1)
    OBVIOUS
  <2>5. axis[k] = d[k] + dirs[k] * far
    <3>1. mesh + 1 \in Int /\ 2 \in Component /\ k \in Knob \ Count
      BY <1>9, <1>13 DEF Component
    <3>2. Candidate(k, level, dir, 2, mesh + 1) = Moved(level, dir, Reach(2, mesh + 1))
      BY <3>1, FullReach
    <3>3. axis[k] = Candidate(k, d[k], dirs[k], 2, mesh + 1)
      BY <1>9, <2>4, AxisMoves
    <3> QED
      BY <2>1, <3>2, <3>3 DEF Moved
  <2>6. axis # Here(d, live)
    <3>1. axis[k] # d[k]
      BY <1>9, <2>3, <2>5 DEF Direction
    <3> QED
      BY <1>9, <3>1, HereIs
  <2>7. axis \in PollPoints
    BY <1>4, <1>5, <1>6, <1>7, <1>8, <1>9, <2>4, <2>6 DEF AxesHold, Exhausted
  <2>8. PICK i \in Moving : axis = PollPoint(i)
    BY <2>7 DEF PollPoints
  <2>9. PICK v \in [live -> Component] : v = poll.todo[i]
    BY <1>10 DEF Moving
  <2>10. axis[k] = Candidate(k, d[k], dirs[k], v[k], mesh)
    BY <1>9, <1>11, <2>8, <2>9 DEF PointOf
  <2>11. PICK r \in 0 .. near : axis[k] = d[k] + dirs[k] * r
    <3>1. PICK c \in Component : c = v[k]
      BY <1>9
    <3>2. k \in Knob \ Count
      BY <1>9, <1>13
    <3>3. MovesWithin(Reach(2, mesh), Candidate(k, level, dir, c, mesh), level, dir)
      BY <3>2, GeometricReach
    <3> QED
      BY <2>2, <2>10, <3>1, <3>3 DEF Moved, MovesWithin
  <2> QED
    BY <1>9, <2>3, <2>5, <2>11 DEF Direction
<1> QED
  BY <1>12, <1>13

(* What a poll remembers, when neither its axes nor the deck below it      *)
(* changes.                                                                *)
LEMMA KeptAxes ==
  ASSUME AxesInv, pc \in Hunting, poll # NoPoll, run.strategy = "mads", run' = run,
         ranking' = ranking, Base' = Base,
         poll'.stopped = poll.stopped, poll'.live = poll.live, poll'.mesh = poll.mesh,
         poll'.barren = poll.barren, poll'.todo = poll.todo, poll'.open = poll.open
  PROVE  AxesInv'
<1>1. AxesHold(poll, Base, Dirs(poll.live))
  BY DEF AxesInv
<1>2. Dirs(poll.live)' = Dirs(poll.live)
  BY DEF Dirs
<1>3. AxesHold(poll', Base, Dirs(poll.live))
  BY <1>1 DEF AxesHold
<1> QED
  BY <1>2, <1>3 DEF AxesInv

LEMMA BaseKept ==
  ASSUME MovesInv, pc \in Hunting,
         \/ Descend \/ TryPoint
         \/ (\E code : Discard(code)) /\ anchor' = anchor /\ pc = "judge"
         \/ UNCHANGED <<stack, anchor, accepted>>
  PROVE  Base' = Base
<1>1. /\ IInv /\ anchor \in Nat /\ accepted \in Nat /\ IsStack(stack)
      /\ Version = anchor + accepted + (IF pc = "judge" THEN 1 ELSE 0)
      /\ Version \in Nat /\ Len(stack) = Version + 1
  BY VersionIsNat DEF MovesInv, IInv, StackInv, Hunting, Working, Searching
<1>2. CASE Descend \/ TryPoint
  <2>1. /\ UNCHANGED <<anchor, accepted>>
        /\ \E d : stack' = Append(stack, d)
    BY <1>2 DEF Descend, TryPoint, PushMove, SearchFrame
  <2>2. \A i \in 1 .. Len(stack) : stack'[i] = stack[i]
    BY <1>1, <2>1, Pushed
  <2>3. anchor + accepted + 1 \in 1 .. Len(stack)
    BY <1>1
  <2> QED
    BY <2>1, <2>2, <2>3 DEF Base, DeckAt
<1>3. CASE (\E code : Discard(code)) /\ anchor' = anchor /\ pc = "judge"
  <2>1. stack' = PopTo(Version - 1) /\ UNCHANGED <<anchor, accepted>>
    BY <1>3 DEF Discard
  <2>2. Version - 1 \in Nat /\ Version - 1 <= Version
        /\ anchor + accepted + 1 \in 1 .. (Version - 1) + 1
    BY <1>1, <1>3
  <2>3. stack'[anchor + accepted + 1] = stack[anchor + accepted + 1]
    BY <1>1, <2>1, <2>2, Popped
  <2> QED
    BY <2>1, <2>3 DEF Base, DeckAt
<1>4. CASE UNCHANGED <<stack, anchor, accepted>>
  BY <1>4 DEF Base, DeckAt
<1> QED
  BY <1>2, <1>3, <1>4

(* In a hunt by polls, the poll is a record of the fields named.           *)
LEMMA PollFields ==
  ASSUME MovesInv, pc \in Hunting, poll # NoPoll
  PROVE  /\ Polled(poll) /\ poll.live \in SUBSET RankedKnobs
         /\ DOMAIN poll = {"stopped", "open", "live", "mesh", "todo", "evaluated", "refused",
                           "barren", "trying", "preferred"}
         /\ poll.mesh \in Int
<1>1. Polled(poll) /\ poll.live \in SUBSET RankedKnobs
  BY DEF MovesInv, TypedInv, PollInv
<1> QED
  BY <1>1 DEF Polled

LEMMA LaterElement ==
  ASSUME NEW S, NEW s \in Seq(S), NEW u \in Seq(S), NEW j \in 1 .. Len(u)
  PROVE  Len(s) + j \in DOMAIN (s \o u) /\ (s \o u)[Len(s) + j] = u[j]
<1>1. PICK m \in Nat : m = Len(s)
  OBVIOUS
<1>2. PICK n \in Nat : n = Len(u)
  OBVIOUS
<1>3. PICK both \in Seq(S) : both = s \o u
  BY ConcatProperties
<1>4. Len(both) = m + n
  BY <1>1, <1>2, <1>3, ConcatProperties
<1>5. DOMAIN both = 1 .. m + n
  BY <1>4
<1>6. \A i \in 1 .. m + n : both[i] = IF i <= m THEN s[i] ELSE u[i - m]
  BY <1>1, <1>2, <1>3, ConcatProperties
<1>7. m + j \in 1 .. m + n /\ ~ (m + j <= m) /\ (m + j) - m = j
  BY <1>2
<1>8. both[m + j] = u[j]
  BY <1>6, <1>7
<1> QED
  BY <1>1, <1>3, <1>5, <1>7, <1>8

LEMMA OpenAxes ==
  ASSUME MovesInv, AxesInv, OpenPoll
  PROVE  AxesInv'
<1>1. /\ pc = "search" /\ pc' = "search" /\ run.strategy = "mads" /\ poll # NoPoll
      /\ UNCHANGED <<run, ranking, stack, anchor, accepted>>
  BY DEF OpenPoll, Polls, SearchFrame
<1>2. PICK order : order = [i \in DOMAIN ranking |-> ranking[i].knob]
  OBVIOUS
<1>3. PICK m \in 0 .. Composites : \E composites \in [1 .. m -> Vectors(poll.live)] :
        poll' = [poll EXCEPT !.open = TRUE, !.evaluated = FALSE,
                             !.todo = PollSet(poll.live, order, poll.preferred, composites)]
  BY <1>2 DEF OpenPoll
<1>4. PICK composites \in [1 .. m -> Vectors(poll.live)] :
        poll' = [poll EXCEPT !.open = TRUE, !.evaluated = FALSE,
                             !.todo = PollSet(poll.live, order, poll.preferred, composites)]
  BY <1>3
<1>5. m \in Nat
  BY OptimizerAssumption
<1>6. PICK todo : todo = PollSet(poll.live, order, poll.preferred, composites)
  OBVIOUS
<1>7. Polled(poll) /\ poll.live \in SUBSET RankedKnobs /\ ranking \in Seq(Ranks)
  BY <1>1, PollFields DEF Hunting, MovesInv, TypedInv
<1>8. /\ poll'.stopped = poll.stopped /\ poll'.live = poll.live /\ poll'.mesh = poll.mesh
      /\ poll'.barren = poll.barren /\ poll'.todo = todo
  BY <1>1, <1>6, <1>4, PollFields DEF Hunting
<1>9. ASSUME NEW k \in poll.live PROVE \E i \in DOMAIN todo : todo[i] = Axis(poll.live, k)
  <2>1. PICK j \in DOMAIN ranking : ranking[j].knob = k
    BY <1>7 DEF RankedKnobs
  <2>2. PICK S : S = [poll.live -> Component]
    OBVIOUS
  <2>3. PICK axes : axes = [i \in DOMAIN order |-> Axis(poll.live, order[i])]
    OBVIOUS
  <2>4. PICK preferred \in Seq(S) : preferred = poll.preferred
    BY <1>7, <2>2 DEF Polled
  <2>5. PICK first \in Seq(S) : first = preferred \o composites
    <3>1. composites \in [1 .. m -> S]
      BY <1>4, <2>2 DEF Vectors
    <3>2. composites \in Seq(S)
      BY <1>5, <3>1
    <3>3. preferred \o composites \in Seq(S)
      BY <3>2, ConcatProperties
    <3> QED
      BY <3>3
  <2>6. PICK n \in Nat : DOMAIN ranking = 1 .. n
    BY <1>7
  <2>7. axes \in Seq(S) /\ j \in 1 .. n /\ Len(axes) = n /\ axes[j] = Axis(poll.live, k)
    <3>1. DOMAIN order = 1 .. n /\ order[j] = k
      BY <1>2, <2>1, <2>6
    <3>2. \A i \in 1 .. n : Axis(poll.live, order[i]) \in S
      BY <2>2 DEF Axis, Component
    <3>3. axes \in [1 .. n -> S]
      BY <2>3, <3>1, <3>2
    <3> QED
      BY <2>1, <2>3, <2>6, <3>1, <3>3
  <2>8. todo = first \o axes
    BY <1>6, <2>3, <2>4, <2>5 DEF PollSet
  <2>9. j \in 1 .. Len(axes)
    BY <2>7
  <2>10. Len(first) + j \in DOMAIN todo /\ todo[Len(first) + j] = axes[j]
    BY <2>7, <2>8, <2>9, LaterElement
  <2> QED
    BY <2>7, <2>10
<1>10. Base' = Base
  BY <1>1 DEF Base, DeckAt
<1>11. AxesHold(poll, Base, Dirs(poll.live))
  BY <1>1 DEF AxesInv, Hunting
<1>12. Dirs(poll.live)' = Dirs(poll.live)
  BY <1>1, <1>8 DEF Dirs
<1>13. AxesHold(poll', Base, Dirs(poll.live))
  BY <1>8, <1>9, <1>11 DEF AxesHold
<1> QED
  BY <1>1, <1>10, <1>12, <1>13 DEF AxesInv

(* A poll that begins or succeeds remembers no empty poll.                 *)
LEMMA AfreshAxes ==
  ASSUME poll'.stopped = "no", poll'.open = FALSE, poll'.barren = {}, run.strategy = "mads",
         run' = run
  PROVE  AxesInv'
  BY DEF AxesInv, AxesHold

LEMMA CloseAxes ==
  ASSUME MovesInv, AxesInv, ClosePoll, ~ Exhausted
  PROVE  AxesInv'
<1>1. /\ pc = "search" /\ run.strategy = "mads" /\ poll # NoPoll /\ poll.open
      /\ UNCHANGED <<run, ranking, stack, anchor, accepted>>
      /\ poll' = [poll EXCEPT !.open = FALSE, !.mesh = poll.mesh - 1,
                              !.barren = IF poll.evaluated THEN {} ELSE {PollPoints}]
  BY DEF ClosePoll, Polls, SearchFrame
<1>2. /\ poll'.stopped = poll.stopped /\ poll'.live = poll.live
      /\ poll'.mesh + 1 = poll.mesh /\ poll'.open = FALSE
      /\ poll'.barren \subseteq {PollPoints}
  BY <1>1, PollFields DEF Hunting
<1>3. AxesHold(poll, Base, Dirs(poll.live))
  BY <1>1 DEF AxesInv, Hunting
<1>4. Base = Top /\ Base' = Base /\ Dirs(poll.live)' = Dirs(poll.live)
  <2>1. anchor \in Nat /\ accepted \in Nat /\ Version = anchor + accepted
    BY <1>1 DEF MovesInv, IInv, StackInv, Working, Searching
  <2> QED
    BY <1>1, <1>2, <2>1 DEF Base, Top, DeckAt, Dirs
<1>5. ASSUME NEW k \in poll.live,
             AxisPoint(Base, Dirs(poll.live), poll.live, k, poll.mesh) # Here(Base, poll.live)
      PROVE  AxisPoint(Base, Dirs(poll.live), poll.live, k, poll.mesh) \in PollPoints
  <2>1. PICK i \in DOMAIN poll.todo : poll.todo[i] = Axis(poll.live, k)
    BY <1>1, <1>3 DEF AxesHold
  <2>2. PollPoint(i) = AxisPoint(Base, Dirs(poll.live), poll.live, k, poll.mesh)
    BY <1>4, <2>1 DEF PollPoint, AxisPoint
  <2>3. DOMAIN Dirs(poll.live) = poll.live
    BY DEF Dirs
  <2>4. i \in Moving
    BY <1>4, <1>5, <2>2, <2>3, OtherPointMoves
  <2> QED
    BY <2>2, <2>4 DEF PollPoints
<1>6. AxesHold(poll', Base, Dirs(poll.live))
  BY <1>2, <1>3, <1>5 DEF AxesHold
<1> QED
  BY <1>1, <1>4, <1>6 DEF AxesInv

LEMMA AxesStep ==
  ASSUME MovesInv, AxesInv, [Next]_vars
  PROVE  AxesInv'
<1>1. ASSUME LeadStops \/ PartnerStops \/ Descend \/ DescentOutgrows \/ JudgeDescent
      PROVE  AxesInv'
  <2>1. pc \in Hunting /\ run.strategy # "mads" /\ UNCHANGED <<run, poll>>
    BY <1>1 DEF LeadStops, PartnerStops, Descend, DescentOutgrows, JudgeDescent, Descends,
       CanDescend, SearchFrame, Hunting
  <2> QED
    BY <2>1 DEF AxesInv
<1>2. ASSUME Rank PROVE AxesInv'
  <2>1. poll' = NoPoll
    BY <1>2 DEF Rank, MovesInv, TypedInv, PollInv
  <2> QED
    BY <2>1 DEF AxesInv
<1>3. ASSUME FirstPoll PROVE AxesInv'
  <2>1. CASE Ranked("none") = {}
    BY <1>3, <2>1 DEF FirstPoll, AxesInv, Hunting
  <2>2. CASE Ranked("none") # {}
    <3>1. poll'.stopped = "no" /\ poll'.open = FALSE /\ poll'.barren = {}
      BY <1>3, <2>2 DEF FirstPoll
    <3>2. run.strategy = "mads" /\ run' = run
      BY <1>3 DEF FirstPoll, Polls, SearchFrame
    <3> QED
      BY <3>1, <3>2, AfreshAxes
  <2> QED
    BY <2>1, <2>2
<1>4. ASSUME OpenPoll \/ (ClosePoll /\ ~ Exhausted) PROVE AxesInv'
  BY <1>4, OpenAxes, CloseAxes
<1>5. ASSUME TryPoint \/ PollOutgrows PROVE AxesInv'
  <2>1. /\ pc \in Hunting /\ run.strategy = "mads" /\ poll # NoPoll /\ UNCHANGED <<run, ranking>>
    BY <1>5 DEF TryPoint, PollOutgrows, CanTry, Polls, SearchFrame, Hunting
  <2>2. Base' = Base
    BY <1>5, <2>1, BaseKept DEF PollOutgrows, SearchFrame
  <2>3. \E x, y : \/ poll' = [poll EXCEPT !.evaluated = TRUE, !.trying = x]
                  \/ poll' = [poll EXCEPT !.evaluated = TRUE, !.refused = y]
    BY <1>5 DEF TryPoint, PollOutgrows
  <2>4. /\ poll'.stopped = poll.stopped /\ poll'.live = poll.live /\ poll'.mesh = poll.mesh
        /\ poll'.barren = poll.barren /\ poll'.todo = poll.todo /\ poll'.open = poll.open
    BY <2>1, <2>3, PollFields
  <2> QED
    BY <2>1, <2>2, <2>4, KeptAxes
<1>6. ASSUME JudgePoint PROVE AxesInv'
  <2>1. /\ pc \in Hunting /\ pc = "judge" /\ run.strategy = "mads" /\ UNCHANGED <<run, ranking>>
        /\ poll # NoPoll /\ anchor' = anchor
    BY <1>6 DEF JudgePoint, SearchFrame, Hunting, MovesInv, TypedInv, PollInv
  <2>2. \/ \E x : poll' = [poll EXCEPT !.open = FALSE, !.mesh = poll.mesh + 1, !.barren = {},
                                      !.preferred = x]
        \/ /\ \E code : Discard(code)
           /\ \E x : poll' = [poll EXCEPT !.refused = x]
    BY <1>6 DEF JudgePoint
  <2>3. CASE \E x : poll' = [poll EXCEPT !.open = FALSE, !.mesh = poll.mesh + 1, !.barren = {},
                                      !.preferred = x]
    <3>1. poll'.stopped = poll.stopped /\ poll'.open = FALSE /\ poll'.barren = {}
      BY <2>1, <2>3, PollFields
    <3>2. poll.stopped = "no"
      BY <2>1 DEF AxesInv, AxesHold
    <3> QED
      BY <2>1, <3>1, <3>2, AfreshAxes
  <2>4. CASE /\ \E code : Discard(code)
             /\ \E x : poll' = [poll EXCEPT !.refused = x]
    <3>1. /\ poll'.stopped = poll.stopped /\ poll'.live = poll.live /\ poll'.mesh = poll.mesh
          /\ poll'.barren = poll.barren /\ poll'.todo = poll.todo /\ poll'.open = poll.open
      BY <2>1, <2>4, PollFields
    <3> QED
      BY <2>1, <2>4, <3>1, BaseKept, KeptAxes
  <2> QED
    BY <2>2, <2>3, <2>4
<1>7. ASSUME \/ AreaRefused \/ AreaSetupFails \/ AreaRanks \/ ObjectiveSkipped \/ EnterPhase
             \/ Baseline \/ BaselineUnmeasured \/ EntrySweep \/ SearchOver \/ PollOutOfSteps
             \/ (ClosePoll /\ Exhausted)
             \/ LandUnswept \/ Confirm \/ BisectProbe \/ BisectLands \/ PhaseFails \/ MakeFront
      PROVE  AxesInv'
  <2>1. pc' \notin Hunting
    BY <1>7 DEF AreaRefused, AreaSetupFails, AreaRanks, ObjectiveSkipped, EnterPhase, Baseline,
       BaselineUnmeasured, EntrySweep, SearchOver, PollOutOfSteps, ClosePoll, LandUnswept,
       Confirm, BisectProbe, BisectLands, PhaseFails, MakeFront, EndPhase, Hunting
  <2> QED
    BY <2>1 DEF AxesInv
<1>8. ASSUME UNCHANGED vars PROVE AxesInv'
  <2>1. UNCHANGED <<run, pc, stack, anchor, accepted, ranking, poll>>
    BY <1>8 DEF vars, search
  <2>2. Base' = Base /\ Dirs(poll.live)' = Dirs(poll.live)
    BY <2>1 DEF Base, DeckAt, Dirs
  <2> QED
    BY <2>1, <2>2 DEF AxesInv
<1> QED
  BY <1>1, <1>2, <1>3, <1>4, <1>5, <1>6, <1>7, <1>8 DEF Next

LEMMA ExhaustionStep ==
  ASSUME MovesInv, AxesInv, ExhaustionIsReal, [Next]_vars
  PROVE  ExhaustionIsReal'
<1>1. ASSUME ClosePoll, Exhausted PROVE ExhaustionIsReal'
  <2>1. /\ pc = "search" /\ poll # NoPoll /\ UNCHANGED <<ranking, stack>>
        /\ poll' = [poll EXCEPT !.stopped = "all_knobs_exhausted"]
    BY <1>1 DEF ClosePoll, Polls, SearchFrame
  <2>2. poll'.live = poll.live /\ poll'.mesh = poll.mesh /\ poll'.refused = poll.refused
    BY <2>1, PollFields DEF Hunting
  <2>3. Top' = Top /\ Dirs(poll.live)' = Dirs(poll.live)
    BY <2>1, <2>2 DEF Top, DeckAt, Version, Dirs
  <2>4. \A k \in poll.live :
          IF k \in Count
          THEN poll.mesh <= InitialMesh /\ CanStep(k, Top[k], Dirs(poll.live)[k]) =>
                 [Here(Top, poll.live) EXCEPT ![k] = Stepped(@, Dirs(poll.live)[k])]
                   \in poll.refused
          ELSE Reach(2, poll.mesh) = 0
    BY <1>1, ExhaustionHolds
  <2> QED
    BY <2>2, <2>3, <2>4 DEF ExhaustionIsReal
<1>2. ASSUME SearchOver PROVE ExhaustionIsReal'
  <2>1. poll' = NoPoll
    BY <1>2 DEF SearchOver, Descends, AxesInv, Hunting
  <2> QED
    BY <2>1 DEF ExhaustionIsReal, NoPoll
<1>3. ASSUME FirstPoll PROVE ExhaustionIsReal'
  <2>1. poll'.stopped \in {"no_live_knobs", "no"}
    BY <1>3 DEF FirstPoll
  <2> QED
    BY <2>1 DEF ExhaustionIsReal
<1>4. ASSUME PollOutOfSteps PROVE ExhaustionIsReal'
  <2>1. pc \in Hunting /\ poll # NoPoll /\ poll' = [poll EXCEPT !.stopped = "budget"]
    BY <1>4 DEF PollOutOfSteps, CanTry, Polls, Hunting
  <2>2. poll'.stopped = "budget"
    BY <2>1, PollFields
  <2> QED
    BY <2>2 DEF ExhaustionIsReal
<1>5. ASSUME \/ AreaRefused \/ AreaSetupFails \/ AreaRanks \/ ObjectiveSkipped \/ EnterPhase
             \/ Baseline \/ BaselineUnmeasured \/ EntrySweep \/ Rank
             \/ LeadStops \/ PartnerStops \/ Descend \/ DescentOutgrows \/ JudgeDescent
             \/ OpenPoll \/ TryPoint \/ PollOutgrows \/ JudgePoint \/ (ClosePoll /\ ~ Exhausted)
             \/ LandUnswept \/ Confirm \/ BisectProbe \/ BisectLands \/ PhaseFails \/ MakeFront
      PROVE  ExhaustionIsReal'
  <2>1. pc' # "landing"
    BY <1>5 DEF AreaRefused, AreaSetupFails, AreaRanks, ObjectiveSkipped, EnterPhase, Baseline,
       BaselineUnmeasured, EntrySweep, Rank, LeadStops, PartnerStops, Descend, DescentOutgrows,
       JudgeDescent, OpenPoll, TryPoint, PollOutgrows, JudgePoint, ClosePoll, LandUnswept,
       Confirm, BisectProbe, BisectLands, PhaseFails, MakeFront, EndPhase, PushMove, Polls,
       Descends, CanDescend, CanTry
  <2> QED
    BY <2>1 DEF ExhaustionIsReal
<1>6. ASSUME UNCHANGED vars PROVE ExhaustionIsReal'
  <2>1. UNCHANGED <<pc, stack, ranking, poll>>
    BY <1>6 DEF vars, search
  <2>2. Top' = Top /\ Dirs(poll.live)' = Dirs(poll.live)
    BY <2>1 DEF Top, DeckAt, Version, Dirs
  <2> QED
    BY <2>1, <2>2 DEF ExhaustionIsReal
<1> QED
  BY <1>1, <1>2, <1>3, <1>4, <1>5, <1>6 DEF Next

(* Whatever the simulations show, the composite directions and the budget, *)
(* MADS gives up on a knob only when no point next to the deck is left     *)
(* (mads.py:520-543).                                                      *)
THEOREM GivingUpIsReal == Spec => []ExhaustionIsReal
<1>1. Init => GivesUpInv
  <2> SUFFICES ASSUME Init PROVE GivesUpInv
    OBVIOUS
  <2>1. AxesInv /\ ExhaustionIsReal
    BY DEF Init, AxesInv, ExhaustionIsReal, Hunting
  <2> QED
    BY <2>1, InitInv, InitMoves DEF GivesUpInv, MovesInv
<1>2. GivesUpInv /\ [Next]_vars => GivesUpInv'
  <2> SUFFICES ASSUME GivesUpInv, [Next]_vars PROVE GivesUpInv'
    OBVIOUS
  <2>1. MovesInv'
    BY SearchedIsKept, MovesStep DEF GivesUpInv, MovesInv
  <2> QED
    BY <2>1, AxesStep, ExhaustionStep DEF GivesUpInv
<1>3. GivesUpInv => ExhaustionIsReal
  BY DEF GivesUpInv
<1> QED
  BY <1>1, <1>2, <1>3, PTL DEF Spec

=============================================================================
