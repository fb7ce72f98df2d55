----------------------------- MODULE DurableRun -----------------------------
(***************************************************************************)
(* What a run directory promises: a run has a deck stack, a log and a      *)
(* place in its control flow; it saves all three at once; a crash takes    *)
(* the unsaved part with it and a resume continues from exactly what was   *)
(* saved, with one more line in the log that says so.                      *)
(***************************************************************************)
EXTENDS Naturals, Sequences

CONSTANTS Decks,   \* a version of the deck: one text per testbench
          Lines,   \* log lines
          Resumed, \* the log lines a resume may write
          Places,  \* where a run can stand
          Lost     \* the state of a run whose process is gone

VARIABLES live, saved

Fresh(place) == [decks |-> <<>>, log |-> <<>>, place |-> place]

Init == saved = Lost /\ \E p \in Places : live = Fresh(p)

(* A step of the process: it moves, and may log a line, add a version, or  *)
(* drop versions from the end of the stack.  Versions and lines have       *)
(* numbers; a new one comes after all others.                              *)
Longer(s, t, S) ==
  \E n \in DOMAIN t :
    /\ DOMAIN t = DOMAIN s \cup {n} /\ t[n] \in S
    /\ \A m \in DOMAIN s : m < n /\ t[m] = s[m]
Shorter(s, t) ==
  /\ DOMAIN t \subseteq DOMAIN s
  /\ \A m \in DOMAIN t : t[m] = s[m] /\ \A n \in DOMAIN s \ DOMAIN t : m < n

Worked(now, next) ==
  /\ now # Lost /\ next # Lost
  /\ next.place \in Places
  /\ next.log = now.log \/ Longer(now.log, next.log, Lines)
  /\ \/ next.decks = now.decks
     \/ Longer(now.decks, next.decks, Decks)
     \/ Shorter(now.decks, next.decks)

Work == Worked(live, live') /\ UNCHANGED saved

Save == live # Lost /\ saved' = live /\ UNCHANGED live

Crash == live # Lost /\ live' = Lost /\ UNCHANGED saved

Restored(from, to) ==
  /\ from # Lost /\ to # Lost
  /\ to.decks = from.decks /\ to.place = from.place
  /\ Longer(from.log, to.log, Resumed)

Resume == live = Lost /\ Restored(saved, live') /\ UNCHANGED saved

Next == Work \/ Save \/ Crash \/ Resume

Spec == Init /\ [][Next]_<<live, saved>>
=============================================================================
