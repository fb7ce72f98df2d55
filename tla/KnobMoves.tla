------------------------------ MODULE KnobMoves ------------------------------
(***************************************************************************)
(* The moves a search may make on a deck (optimizer.py, mads.py, area.py). *)
(* A deck is the value of every knob, as a level.  A geometric knob is     *)
(* multiplied by STEP_RATIO each time its level falls by Unit, and has no  *)
(* floor; a count (m, nf) falls by one per Unit and stops at one.  MADS    *)
(* moves geometric knobs by fractions of a step, and a fraction below one  *)
(* level moves the knob but writes the same digits into the deck.          *)
(***************************************************************************)
EXTENDS Integers, Sequences, FiniteSets, FiniteSetsExt

CONSTANTS
  Knob,      \* the tunable parameters of the deck
  Count,     \* those that count devices, a subset of Knob
  Weight,    \* the area of one level of each knob
  Unit       \* levels in one step of coordinate descent

ASSUME KnobAssumption ==
  /\ IsFiniteSet(Knob)
  /\ Count \subseteq Knob
  /\ Weight \in [Knob -> Nat]
  /\ Unit \in Nat \ {0}

Direction == {-1, 1}    \* "decrease", "increase"
Decks == [Knob -> Int]

(* total_area of a deck whose devices resolve.                             *)
Area(d) == MapThenSumSet(LAMBDA k : Weight[k] * d[k], Knob)

(* apply_changes: only the named knobs move.                               *)
Applied(d, move) == [k \in Knob |-> IF k \in DOMAIN move THEN move[k] ELSE d[k]]

(* _next_value: one step, or none for a count that is already one.         *)
CanStep(k, level, dir) == k \in Count => level + dir * Unit >= Unit
Stepped(level, dir) == level + dir * Unit
Single(k, level) == [x \in {k} |-> level]
Pair(k, m, p, l) == [x \in {k, p} |-> IF x = p THEN l ELSE m]

(* rank_by_area_gain on the knobs a step can shrink: those with a gain,    *)
(* the largest gain first.                                                 *)
Gain(d, k) == Area(d) - Area(Applied(d, Single(k, Stepped(d[k], -1))))
Gainful(d) == {k \in Knob : CanStep(k, d[k], -1) /\ Gain(d, k) > 0}
AreaRankings(d) ==
  {s \in [1 .. Cardinality(Gainful(d)) -> Gainful(d)] :
     \A i, j \in DOMAIN s : i < j => s[i] # s[j] /\ Gain(d, s[i]) >= Gain(d, s[j])}

-----------------------------------------------------------------------------
(* MADS.  The mesh is an exponent: a full component moves Unit levels at   *)
(* InitialMesh and twice as many at each expansion.  A direction gives     *)
(* each knob 0, half or all of that, in its own direction: snap_to_cone    *)
(* drops what points the other way.                                        *)
InitialMesh == 0
Component == 0 .. 2
PowerOfTwo[n \in Nat] == IF n = 0 THEN 1 ELSE 2 * PowerOfTwo[n - 1]
Reach(c, mesh) ==
  IF mesh >= 0 THEN (c * Unit * PowerOfTwo[mesh]) \div 2
               ELSE (c * Unit) \div PowerOfTwo[1 - mesh]

AtLeast(low, x) == IF x < low THEN low ELSE x

(* _candidate_value: a count moves by whole devices, at least one, and is  *)
(* held at one.                                                            *)
Candidate(k, level, dir, c, mesh) ==
  IF c = 0 THEN level
  ELSE IF k \in Count
       THEN LET devices == AtLeast(1, (Reach(c, mesh) + Unit \div 2) \div Unit)
            IN  AtLeast(Unit, level + dir * Unit * devices)
       ELSE level + dir * Reach(c, mesh)

(* _build_move's point, as the signature that mads compares: the value of  *)
(* every live knob.                                                        *)
PointOf(d, dirs, vector, mesh) ==
  [k \in DOMAIN dirs |-> Candidate(k, d[k], dirs[k], vector[k], mesh)]
Here(d, live) == [k \in live |-> d[k]]

(* _candidate_value is None, and the knob stays: a count that would end    *)
(* where it is.  Values are compared before they are written, so a         *)
(* geometric knob moves however little.                                    *)
Moves(k, level, dir, c, mesh) ==
  c # 0 /\ (k \in Count => Candidate(k, level, dir, c, mesh) # level)

(* _poll_set: the direction that last succeeded, the composite directions  *)
(* and one direction per knob.                                             *)
Axis(live, k) == [x \in live |-> IF x = k THEN 2 ELSE 0]
Longest(v) == IF \E k \in DOMAIN v : v[k] = 2 THEN v ELSE [k \in DOMAIN v |-> 2 * v[k]]
Vectors(live) == {v \in [live -> Component] : \E k \in live : v[k] # 0}
PollSet(live, order, preferred, composites) ==
  preferred \o composites \o [i \in DOMAIN order |-> Axis(live, order[i])]
=============================================================================
