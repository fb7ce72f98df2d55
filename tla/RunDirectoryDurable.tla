------------------------ MODULE RunDirectoryDurable ------------------------
(***************************************************************************)
(* A run directory implements a run that saves atomically (DurableRun).    *)
(* The mapping: decks are what the files hold, the log is what read_events *)
(* returns, once for the process and once for the checkpoint.              *)
(***************************************************************************)
EXTENDS RunDirectory

DecksOf(stacks) ==
  [i \in DOMAIN stacks[Canonical] |->
     [tb \in Testbench |-> files[<<stacks[tb][i], tb>>]]]

ReadEvents(lines) ==
  [i \in Kept(history) \cap 1 .. lines |-> [step |-> history[i].step, run |-> history[i].run]]

(* The entry deck is part of the place: the area baseline is read from it. *)
PlaceOf(p) ==
  [attempt |-> p.attempt, outer_iter |-> p.outer_iter, status |-> p.status,
   entry |-> {[tb \in Testbench |-> files[<<v, tb>>]] : v \in {p.entry} \ {NoEntry}}]

RunOf(stacks, lines, p) ==
  [decks |-> DecksOf(stacks), log |-> ReadEvents(lines), place |-> PlaceOf(p)]

Gone == [gone |-> TRUE]
Live == IF pc = "down" THEN Gone ELSE RunOf(netlist_versions, Len(history), progress)
Saved ==
  IF checkpoint = NoCheckpoint THEN Gone
  ELSE RunOf(checkpoint.versions, checkpoint.history_lines, checkpoint.progress)

Epochs == 0 .. MaxCrashes
Whole == {Uniform(d) : d \in Deck}
RunPlaces == [attempt : 0 .. RetryBudget, outer_iter : 0 .. MaxOuterIterations + 1,
              status : {"none", "PASS", "FAIL"}, entry : {{}} \cup {{w} : w \in Whole}]
Durable == INSTANCE DurableRun WITH
  live <- Live, saved <- Saved, Lost <- Gone,
  Decks <- Whole,
  Lines <- [step : {"event", "pvt_baseline_sweep"}, run : Epochs],
  Resumed <- [step : {"resume"}, run : Epochs],
  Places <- RunPlaces

(* The files, the log and the checkpoint together behave like a run that   *)
(* saves atomically: no half-written version is ever on a stack, no write  *)
(* after a save disturbs what was saved, the lines of an abandoned         *)
(* iteration vanish from the log that is read, and a resumed process holds *)
(* exactly the decks, log and place of the boundary (checkpoint.py:11-17,  *)
(* history.py:1-18).                                                       *)
ResumesFromWhatWasSaved == Durable!Spec
=============================================================================
