---------------------------- MODULE MCAttemptLoop ----------------------------
(* The instances of AttemptLoop that TLC checks.                           *)
EXTENDS AttemptLoop

Shows(at, over) == [loop |-> at, sweep |-> over, silent |-> FALSE]

(* A deck that is good; one that fails at a corner on both paths; one that *)
(* passes the loop at a corner where its sweep fails; one that fails at    *)
(* two corners; one that fails everywhere; and one that passes the loop    *)
(* and that the sweep, with its own control block, measures nowhere.       *)
Shown == {Shows({}, {}), Shows({2}, {2}), Shows({}, {1}), Shows({1, 3}, {1, 3}),
          Shows(Point, Corner),
          [loop |-> {}, sweep |-> Corner, silent |-> TRUE]}
=============================================================================
