--------------------------- MODULE MCRunDirectory ---------------------------
(* The instances of RunDirectory that TLC checks.                          *)
EXTENDS RunDirectoryDurable

Two == <<"tb1", "tb2">>
=============================================================================
