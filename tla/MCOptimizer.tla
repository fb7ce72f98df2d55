----------------------------- MODULE MCOptimizer -----------------------------
(***************************************************************************)
(* The optimizer on a deck of two knobs: a device count m and a width w.   *)
(***************************************************************************)
EXTENDS Optimizer

KnobWeight == [k \in Knob |-> IF k = "m" THEN 2 ELSE 1]
StartDeck == [k \in Knob |-> 8]

RunOf(corners, optimize, counted, strategy) ==
  [corners |-> corners, optimize |-> optimize, counted |-> counted, strategy |-> strategy]
RunsExplored ==
  {RunOf(TRUE, TRUE, TRUE, "coordinate_descent"),
   RunOf(FALSE, TRUE, FALSE, "coordinate_descent"),
   RunOf(FALSE, TRUE, TRUE, "compound_fallback"),
   RunOf(TRUE, TRUE, FALSE, "compound_fallback"),
   RunOf(FALSE, TRUE, FALSE, "mads")}

Ranks(knob, dir, block) == [knob |-> knob, dir |-> dir, block |-> block]
ProposalsExplored ==
  {<<>>,
   <<Ranks("w", 1, "none"), Ranks("m", -1, "none")>>,
   <<Ranks("w", 1, "none"), Ranks("w", -1, "none")>>,
   <<Ranks("m", -1, "knob_gate"), Ranks("w", 1, "none")>>,
   <<Ranks("w", 1, "none"), Ranks("m", -1, "knob_no_value")>>}
=============================================================================
