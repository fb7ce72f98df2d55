------------------------------- MODULE Missing -------------------------------
(***************************************************************************)
(* What was not measured: None in the program, NaN or -inf in its reports. *)
(***************************************************************************)
EXTENDS Integers

CONSTANT None

ASSUME NoneAssumption == None \notin Int
=============================================================================
