--------------------------- MODULE CornerSelection ---------------------------
(***************************************************************************)
(* The corner set of the tuning loop (corner_selection.py): the points it  *)
(* judges a deck at, and the rest, which it probes one at a time in turn.  *)
(*                                                                         *)
(* A corner is named by its place in the probe order, the order of         *)
(* severity in the entry sweep; Nominal is the deck without a corner.  The *)
(* probe_order tuple is only ever filtered, so the set of its members says *)
(* all of it.                                                              *)
(***************************************************************************)
EXTENDS Naturals, FiniteSets

CONSTANT Corners   \* how many corners the spec declares

ASSUME CornersAssumption == Corners \in Nat

Nominal == 0
Corner == 1 .. Corners
Point == 0 .. Corners

CornerSets == [corners : SUBSET Point, probe_order : SUBSET Corner, probe_index : Nat]

(* seed_from_sweep: the corners chosen from the entry sweep, and the rest. *)
Seed(chosen) ==
  [corners |-> {Nominal} \cup chosen, probe_order |-> Corner \ chosen, probe_index |-> 0]

(* next_probe: the corner at probe_index modulo the length, and the index  *)
(* moved behind it.                                                        *)
Turn(cs) == cs.probe_index % Cardinality(cs.probe_order)
IsNextProbe(cs, corner) ==
  /\ corner \in cs.probe_order
  /\ Cardinality({c \in cs.probe_order : c < corner}) = Turn(cs)
RotatedFurther(cs) == [cs EXCEPT !.probe_index = Turn(cs) + 2]   \* mutant
Rotated(cs) == [cs EXCEPT !.probe_index = Turn(cs) + 1]

(* promote and grown_with: the corners move into the set, the rotation     *)
(* starts over because its index counts in the list they left.             *)
TakenInPlace(cs, new) ==   \* mutant: the index is kept
  [cs EXCEPT !.corners = @ \cup new, !.probe_order = @ \ new]
TakenTwice(cs, new) ==   \* mutant: the corner is still probed
  [cs EXCEPT !.corners = @ \cup new, !.probe_index = 0]
Taken(cs, new) ==
  [corners |-> cs.corners \cup new, probe_order |-> cs.probe_order \ new, probe_index |-> 0]

Promoted(cs, corner) == IF corner \in cs.corners THEN cs ELSE Taken(cs, {corner})

Added(cs, failing) == failing \ cs.corners
GrownWith(cs, failing) == IF Added(cs, failing) = {} THEN cs ELSE Taken(cs, Added(cs, failing))

(* What CornerSet.__post_init__ refuses to build without, and that no      *)
(* corner is ever lost: each is judged or waits for its turn, never both.  *)
Partition(cs) ==
  /\ Nominal \in cs.corners
  /\ cs.corners \cap cs.probe_order = {}
  /\ cs.corners \cup cs.probe_order = Point
=============================================================================
