----------------------------- MODULE ParetoFront -----------------------------
(***************************************************************************)
(* pareto.py: the front over the points a run measured.  A point is a      *)
(* record with an area and an objective, None where it was not measured.   *)
(***************************************************************************)
EXTENDS Missing, Sequences

SingleAxis(points) == \A i \in DOMAIN points : points[i].objective = None

Axes(p, single) == IF single THEN <<p.area>> ELSE <<p.area, p.objective>>

(* dominates: comparable, nowhere worse, somewhere better.                 *)
Dominates(a, b, single) ==
  LET x == Axes(a, single)
      y == Axes(b, single)
  IN  /\ \A i \in DOMAIN x : x[i] # None /\ y[i] # None
      /\ \A i \in DOMAIN x : x[i] <= y[i]
      /\ \E i \in DOMAIN x : x[i] < y[i]

(* The first of the smallest measured areas, else the entry.               *)
ShippedIndex(points) ==
  LET measured == {i \in DOMAIN points : points[i].area # None}
  IN  IF measured = {} THEN 1
      ELSE CHOOSE i \in measured :
             \A j \in measured :
               \/ points[i].area < points[j].area
               \/ points[i].area = points[j].area /\ i <= j

(* build_front: the entry first, dominated points kept, and the shipped    *)
(* point alone marked corner_verified.                                     *)
BuildFront(points) ==
  [i \in DOMAIN points |->
     [point |-> points[i],
      shipped |-> i = ShippedIndex(points),
      corner_verified |-> i = ShippedIndex(points),
      dominated |-> \E j \in DOMAIN points \ {i} :
                      Dominates(points[j], points[i], SingleAxis(points))]]
=============================================================================
