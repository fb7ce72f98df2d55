---------------------------- MODULE RunDirectory ----------------------------
(***************************************************************************)
(* One run directory of analogcoder and the process that works in it: the  *)
(* netlist version files and the version stack (state.py), the append-only *)
(* event log (state.py, history.py), the checkpoint file (checkpoint.py)   *)
(* and the control flow of cli._run / run_orchestration / run_optimization *)
(* as far as it pushes, rolls back, logs, saves and resumes.               *)
(*                                                                         *)
(* A crash may fall between any two file operations.  What agents decide   *)
(* (which deck to try, keep or drop it, pass or fail) is nondeterministic. *)
(***************************************************************************)
EXTENDS Integers, Sequences, FiniteSets

CONSTANTS
  testbench_names,     \* the spec's testbenches, in order
  Deck,                \* netlist texts a proposal can produce
  Original,            \* the text the spec's netlist files hold
  MaxOuterIterations,  \* orchestrator.MAX_OUTER_ITERATIONS
  RetryBudget,         \* corner_reduction.retry_budget
  MaxOptimizeSteps,    \* pushes per optimization phase (MAX_OPTIMIZE_STEPS)
  MaxCrashes,          \* bound: process deaths explored
  MaxLines,            \* bound: lines a process has written when it logs one more
  AtomicAppend,        \* FALSE: a process can die inside log_event's write
  FreshRunsInSameDir   \* TRUE: --run-dir names a used directory, no --resume

Testbench == {testbench_names[i] : i \in DOMAIN testbench_names}
Canonical == testbench_names[1]   \* its stack numbers the versions

ASSUME TestbenchAssumption ==
  /\ testbench_names \in Seq(Testbench) /\ testbench_names # <<>>
  /\ \A i, j \in DOMAIN testbench_names :
       testbench_names[i] = testbench_names[j] => i = j
Torn == "torn"   \* what a file holds between its truncation and its last byte
ASSUME DeckAssumption == Original \in Deck /\ Torn \notin Deck
ASSUME BoundAssumption ==
  /\ MaxOuterIterations \in Nat \ {0}
  /\ {RetryBudget, MaxOptimizeSteps, MaxCrashes, MaxLines} \subseteq Nat
  /\ {AtomicAppend, FreshRunsInSameDir} \subseteq BOOLEAN

VARIABLES
  files,               \* <<version, testbench>> -> content of netlist_v{n}_{tb}.cir
  history,             \* the physical lines of history.jsonl
  checkpoint,          \* checkpoint.json
  netlist_versions,    \* RunState.netlist_versions: a stack of versions per testbench
  pending,             \* the push_netlist_version call in progress
  pc,                  \* where _run stands
  progress,            \* attempt, outer_iter, entry version and orchestration status
  anchor,              \* optimizer's safe_index: stack depth at phase entry
  steps,               \* pushes left in this optimization phase
  epoch                \* processes that have died so far

disk == <<files, history, checkpoint>>
stack == <<netlist_versions, pending>>
phase == <<anchor, steps>>
vars == <<files, history, checkpoint, netlist_versions, pending, pc, progress,
          anchor, steps, epoch>>

NoPush == [next |-> 0]
NoCheckpoint == [boundary |-> "none"]
NoEntry == -1

Ramp(n) == [i \in 1 .. n |-> i - 1]   \* the stack after n pushes: 0, 1, ...

Content == Deck \cup {Torn}
Write(file, content) ==
  [f \in DOMAIN files \cup {file} |-> IF f = file THEN content ELSE files[f]]

(* The log: a physical line is an event, the entry sweep, a resume event   *)
(* with the half-open range of 0-based line numbers it discards, a         *)
(* fragment that has no newline, or a fragment with a later event glued on.*)
Line == [step : {"event", "pvt_baseline_sweep", "resume", "torn", "glued"}, run : Nat,
         from : Nat, to : Nat]
Event(step) == [step |-> step, run |-> epoch, from |-> 0, to |-> 0]
(* Mutants: the range starts at the log's head; the range is empty.        *)
ResumeEventFromHead == [step |-> "resume", run |-> epoch, from |-> 0, to |-> Len(history)]
ResumeEventOfNothing ==
  [step |-> "resume", run |-> epoch, from |-> Len(history), to |-> Len(history)]
ResumeEvent == [step |-> "resume", run |-> epoch,
                from |-> checkpoint.history_lines, to |-> Len(history)]

(* log_event opens for append and writes the event and its newline.  After *)
(* a fragment the event lands on the fragment's line, and both are lost.   *)
Unterminated == history # <<>> /\ history[Len(history)].step = "torn"
AppendLine(line) ==
  IF Unterminated THEN [history EXCEPT ![Len(history)] = Event("glued")]
  ELSE Append(history, line)

(* history._numbered runs json.loads over every line, discarded or not.    *)
Readable(log) == \A i \in DOMAIN log : log[i].step \notin {"torn", "glued"}

(* history.read_events: every line in no declared range.  Ranges are taken *)
(* from the whole log.  Line i of the sequence is physical line i - 1.     *)
Discarded(log, i) ==
  \E j \in DOMAIN log : log[j].step = "resume" /\ log[j].from < i /\ i <= log[j].to
Kept(log) == {i \in DOMAIN log : ~ Discarded(log, i)}

Stacks == [Testbench -> Seq(Nat)]
EmptyStacks == [tb \in Testbench |-> <<>>]
Depth == Len(netlist_versions[Canonical])
Top(tb) == netlist_versions[tb][Len(netlist_versions[tb])]
(* Mutant: one testbench's stack is left out of a rollback.                *)
PopToCanonicalOnly(stacks, depth) ==
  [stacks EXCEPT ![Canonical] = SubSeq(@, 1, depth)]
PopTo(stacks, depth) == [tb \in Testbench |-> SubSeq(stacks[tb], 1, depth)]

(* current_netlist_texts: what the top of every stack holds on disk.       *)
CurrentTexts == [tb \in Testbench |-> files[<<Top(tb), tb>>]]
Uniform(text) == [tb \in Testbench |-> text]

NoProgress == [attempt |-> 0, outer_iter |-> 0, entry |-> NoEntry, status |-> "none"]

Up == pc \notin {"down", "done"}
Idle == pending = NoPush
At(place) == pc = place /\ Idle

Init ==
  /\ files = << >>
  /\ history = <<>>
  /\ checkpoint = NoCheckpoint
  /\ netlist_versions = EmptyStacks
  /\ pending = NoPush
  /\ pc = "start"
  /\ progress = NoProgress
  /\ anchor = 0
  /\ steps = 0
  /\ epoch = 0

-----------------------------------------------------------------------------
(* RunState.push_netlist_version.  The version number is fixed before the  *)
(* first write; each file is truncated by open(path, "w") and then filled; *)
(* only when every file is written do the stacks grow.                     *)

Push(texts) ==
  /\ pending' = [texts |-> texts, version |-> Depth, next |-> 1,
                 stage |-> "truncate"]
  /\ UNCHANGED <<disk, netlist_versions, epoch>>

Writing == pending # NoPush /\ pending.next \in DOMAIN testbench_names
PendingName == testbench_names[pending.next]
PendingFile == <<pending.version, PendingName>>

Truncate ==
  /\ Writing /\ pending.stage = "truncate"
  /\ files' = Write(PendingFile, Torn)
  /\ pending' = [pending EXCEPT !.stage = "fill"]
  /\ UNCHANGED <<history, checkpoint, netlist_versions, pc, progress, phase, epoch>>

Fill ==
  /\ Writing /\ pending.stage = "fill"
  /\ files' = Write(PendingFile, pending.texts[PendingName])
  /\ pending' = [pending EXCEPT !.next = @ + 1, !.stage = "truncate"]
  /\ UNCHANGED <<history, checkpoint, netlist_versions, pc, progress, phase, epoch>>

(* Mutant: the stacks grow while files are still being written.            *)
CommitAnyTime ==
  /\ pending # NoPush
  /\ netlist_versions' =
       [tb \in Testbench |-> Append(netlist_versions[tb], pending.version)]
  /\ pending' = NoPush
  /\ pc' = CASE pc = "enter" -> "head" [] pc = "iter" -> "review" [] OTHER -> pc
  /\ progress' = IF pc = "enter"
                   THEN [progress EXCEPT !.entry = pending.version, !.outer_iter = 1]
                   ELSE progress
  /\ UNCHANGED <<disk, phase, epoch>>

(* The stacks grow, and the caller goes on: the entry push leads to the    *)
(* loop head, a proposal's push to its review, an optimizer's push to its  *)
(* verdict in the same phase.                                              *)
Commit ==
  /\ pending # NoPush /\ ~ Writing
  /\ netlist_versions' =
       [tb \in Testbench |-> Append(netlist_versions[tb], pending.version)]
  /\ pending' = NoPush
  /\ pc' = CASE pc = "enter" -> "head" [] pc = "iter" -> "review" [] OTHER -> pc
  /\ progress' = IF pc = "enter"
                   THEN [progress EXCEPT !.entry = pending.version, !.outer_iter = 1]
                   ELSE progress
  /\ UNCHANGED <<disk, phase, epoch>>

-----------------------------------------------------------------------------
(* Event log and checkpoint.                                               *)

(* log_event anywhere in the run, beyond the lines the other actions log.  *)
LogEvent ==
  /\ Up /\ Idle
  /\ Cardinality({i \in DOMAIN history : history[i].run = epoch}) < MaxLines
  /\ history' = AppendLine(Event("event"))
  /\ UNCHANGED <<files, checkpoint, stack, pc, progress, phase, epoch>>

(* Mutants: the boundary counts the surviving events, or one line too many.*)
SaveCounting(boundary, lines) ==
  /\ checkpoint' = [boundary |-> boundary, versions |-> netlist_versions,
                    history_lines |-> lines, progress |-> progress]
  /\ UNCHANGED <<files, history, stack, progress, epoch>>
SaveSurvivors(boundary) == SaveCounting(boundary, Cardinality(Kept(history)))
SaveOneAhead(boundary) == SaveCounting(boundary, Len(history) + 1)

(* _save: build_checkpoint counts the log's lines and copies the stacks;   *)
(* write_checkpoint replaces the file with os.replace, so a reader finds   *)
(* the old checkpoint or the new one.                                      *)
Save(boundary) ==
  /\ checkpoint' = [boundary |-> boundary, versions |-> netlist_versions,
                    history_lines |-> Len(history), progress |-> progress]
  /\ UNCHANGED <<files, history, stack, progress, epoch>>

-----------------------------------------------------------------------------
(* cli._run up to the re-entry loop: the entry sweep is logged, or cannot  *)
(* run and the run ends with a report.                                     *)
EntrySweep ==
  /\ At("start")
  /\ history' = AppendLine(Event("pvt_baseline_sweep"))
  /\ pc' = "enter"
  /\ UNCHANGED <<files, checkpoint, stack, progress, phase, epoch>>

EntrySweepFails ==
  /\ At("start")
  /\ history' = AppendLine(Event("event"))
  /\ pc' = "done"
  /\ UNCHANGED <<files, checkpoint, stack, progress, phase, epoch>>

(* run_orchestration called without resume pushes the deck it is given:    *)
(* the original text on attempt 0, the current deck on a re-entry.         *)
EnterOrchestration ==
  /\ At("enter")
  /\ Push(IF progress.attempt = 0 THEN Uniform(Original) ELSE CurrentTexts)
  /\ UNCHANGED <<pc, progress, phase>>

(* Mutant: only the first iteration of an attempt is saved.                *)
LoopHeadSavesOnce ==
  /\ At("head")
  /\ progress.outer_iter <= MaxOuterIterations
  /\ IF progress.outer_iter = 1
       THEN Save("outer_iteration")
       ELSE UNCHANGED <<disk, stack, progress, epoch>>
  /\ pc' = "iter"
  /\ UNCHANGED phase

(* The head of the outer loop saves before the iteration does anything.    *)
LoopHead ==
  /\ At("head")
  /\ progress.outer_iter <= MaxOuterIterations
  /\ Save("outer_iteration")
  /\ pc' = "iter"
  /\ UNCHANGED phase

(* run_orchestration returns; its local progress goes out of scope.        *)
Return(status) ==
  /\ pc' = "returned"
  /\ progress' = [progress EXCEPT !.entry = NoEntry, !.status = status]
  /\ UNCHANGED <<phase, epoch>>

(* Mutant: off by one, a loop that is neither run nor left.                *)
LoopExhaustedLate ==
  /\ At("head")
  /\ progress.outer_iter > MaxOuterIterations + 1
  /\ Return("FAIL")
  /\ UNCHANGED <<disk, stack>>

LoopExhausted ==
  /\ At("head")
  /\ progress.outer_iter > MaxOuterIterations
  /\ Return("FAIL")
  /\ UNCHANGED <<disk, stack>>

(* The save at the loop's head is inside its try: an OSError there, the    *)
(* old checkpoint still in place, ends the loop.                           *)
LoopHeadFails ==
  /\ At("head")
  /\ progress.outer_iter <= MaxOuterIterations
  /\ Return("FAIL")
  /\ UNCHANGED <<disk, stack>>

NextIteration ==
  /\ pc' = "head"
  /\ progress' = [progress EXCEPT !.outer_iter = @ + 1]
  /\ UNCHANGED <<disk, phase, epoch>>

(* An iteration that pushes nothing: it passes, fails for good, or uses up *)
(* its retries.                                                            *)
IterationReturns(status) ==
  /\ At("iter")
  /\ Return(status)
  /\ UNCHANGED <<disk, stack>>

IterationRejectsAll ==
  /\ At("iter")
  /\ NextIteration
  /\ UNCHANGED stack

(* An iteration that pushes a deck, a tuning proposal or a topology swap.  *)
Propose(d) ==
  /\ At("iter")
  /\ Push(Uniform(d))
  /\ UNCHANGED <<pc, progress, phase>>

(* The push's review: verify_post rolls it back, keeps it, or the new deck *)
(* passes; an agent error leaves the pushed deck where it is.              *)
ReviewRollsBack ==
  /\ At("review")
  /\ \A tb \in Testbench : Len(netlist_versions[tb]) >= 2
  /\ netlist_versions' = PopTo(netlist_versions, Depth - 1)
  /\ NextIteration
  /\ UNCHANGED pending

ReviewKeeps ==
  /\ At("review")
  /\ NextIteration
  /\ UNCHANGED stack

ReviewReturns(status) ==
  /\ At("review")
  /\ Return(status)
  /\ UNCHANGED <<disk, stack>>

(* An OSError inside a proposal's push: run_orchestration catches it and   *)
(* returns FAIL.  Files may be written, the stacks have not grown.         *)
ProposeFails ==
  /\ pc = "iter" /\ ~ Idle
  /\ pending' = NoPush
  /\ Return("FAIL")
  /\ UNCHANGED <<disk, netlist_versions>>

-----------------------------------------------------------------------------
(* After run_orchestration: log the attempt, save, optimize a PASS.        *)
LogAttempt ==
  /\ At("returned")
  /\ history' = AppendLine(Event("event"))
  /\ pc' = "save_result"
  /\ UNCHANGED <<files, checkpoint, stack, progress, phase, epoch>>

AfterOrchestration(status) == IF status = "PASS" THEN "area" ELSE "verdict"

(* Mutant: the attempt's result is not saved.                              *)
SaveResultForgotten ==
  /\ At("save_result")
  /\ UNCHANGED <<disk, stack, progress, epoch>>
  /\ pc' = AfterOrchestration(progress.status)
  /\ anchor' = Depth
  /\ steps' = MaxOptimizeSteps

(* One save for both phases and the verdict that follow.                   *)
SaveResult ==
  /\ At("save_result")
  /\ Save("optimization")
  /\ pc' = AfterOrchestration(progress.status)
  /\ anchor' = Depth
  /\ steps' = MaxOptimizeSteps

Optimizing == pc \in {"area", "objective"}

Optimize(d) ==
  /\ Optimizing /\ Idle
  /\ steps > 0
  /\ Push(Uniform(d))
  /\ steps' = steps - 1
  /\ UNCHANGED <<pc, progress, anchor>>

(* Mutant: the walk back ignores the phase's entry version.                *)
OptimizerRollsBackFurther ==
  /\ Optimizing /\ Idle
  /\ Depth > 1
  /\ netlist_versions' = PopTo(netlist_versions, Depth - 1)
  /\ anchor' = IF Depth > anchor THEN anchor ELSE Depth - 1
  /\ UNCHANGED <<disk, pending, pc, progress, steps, epoch>>

(* A rejected step, and the walk back to the last version whose sweep      *)
(* passed: one pop at a time, never below the phase's entry.               *)
OptimizerRollsBack ==
  /\ Optimizing /\ Idle
  /\ Depth > anchor
  /\ netlist_versions' = PopTo(netlist_versions, Depth - 1)
  /\ UNCHANGED <<disk, pending, pc, progress, phase, epoch>>

EndPhase ==
  /\ pc' = IF pc = "area" THEN "objective" ELSE "verdict"
  /\ steps' = MaxOptimizeSteps
  /\ UNCHANGED <<disk, progress, epoch>>

OptimizerEnds ==
  /\ Optimizing /\ Idle
  /\ anchor' = Depth
  /\ EndPhase
  /\ UNCHANGED stack

(* An error anywhere in the phase rolls back to its entry version.         *)
OptimizerFails ==
  /\ Optimizing
  /\ netlist_versions' = PopTo(netlist_versions, anchor)
  /\ pending' = NoPush
  /\ EndPhase
  /\ UNCHANGED anchor

(* The verdict sweep passes, or fails with nothing to re-enter for.        *)
Finish ==
  /\ At("verdict")
  /\ history' = AppendLine(Event("event"))
  /\ pc' = "done"
  /\ UNCHANGED <<files, checkpoint, stack, progress, phase, epoch>>

(* The corner set grew (or a promoted corner was never judged): log it,    *)
(* count the attempt, save, enter the loop again from the current deck.    *)
Reenter ==
  /\ At("verdict")
  /\ progress.status = "PASS" /\ progress.attempt < RetryBudget
  /\ history' = AppendLine(Event("event"))
  /\ progress' = [NoProgress EXCEPT !.attempt = progress.attempt + 1]
  /\ pc' = "save_attempt"
  /\ UNCHANGED <<files, checkpoint, stack, phase, epoch>>

SaveAttempt ==
  /\ At("save_attempt")
  /\ Save("attempt")
  /\ pc' = "enter"
  /\ UNCHANGED phase

-----------------------------------------------------------------------------
(* The process dies: memory is lost, the disk stays as it is.              *)
LoseMemory ==
  /\ netlist_versions' = EmptyStacks
  /\ pending' = NoPush
  /\ progress' = NoProgress
  /\ anchor' = 0
  /\ steps' = 0

Crash ==
  /\ Up /\ epoch < MaxCrashes
  /\ pc' = "down"
  /\ epoch' = epoch + 1
  /\ LoseMemory
  /\ UNCHANGED disk

(* ... inside log_event's write, leaving a fragment of a line without its  *)
(* newline; a fragment behind a fragment is one fragment.                  *)
CrashInAppend ==
  /\ ~ AtomicAppend
  /\ Up /\ Idle /\ epoch < MaxCrashes
  /\ history' = IF Unterminated THEN history ELSE Append(history, Event("torn"))
  /\ pc' = "down"
  /\ epoch' = epoch + 1
  /\ LoseMemory
  /\ UNCHANGED <<files, checkpoint>>

(* rejection_reason: a checkpoint must exist and every file it names, the  *)
(* entry deck's included, must be on disk.  The digests it compares first  *)
(* are of the spec and the spec's own netlist files, and those never       *)
(* change here (Original is a constant): no version file is digested.      *)
Named(cp) ==
  UNION { {<<v, tb>> : v \in {cp.versions[tb][i] : i \in DOMAIN cp.versions[tb]}
                             \cup ({cp.progress.entry} \ {NoEntry})} : tb \in Testbench }

Accepted == checkpoint # NoCheckpoint /\ Named(checkpoint) \subseteq DOMAIN files

ResumePoint(cp) ==
  CASE cp.boundary = "outer_iteration" -> "head"
    [] cp.boundary = "attempt" -> "enter"
    [] cp.boundary = "optimization" -> AfterOrchestration(cp.progress.status)

(* --resume: restore the stacks, count the discarded events (which parses  *)
(* the whole log), declare the discarded lines, go on from the boundary.   *)
Resume ==
  /\ pc = "down"
  /\ Accepted /\ Readable(history)
  /\ netlist_versions' = checkpoint.versions
  /\ history' = Append(history, ResumeEvent)
  /\ progress' = checkpoint.progress
  /\ pc' = ResumePoint(checkpoint)
  /\ anchor' = Len(checkpoint.versions[Canonical])
  /\ steps' = MaxOptimizeSteps
  /\ UNCHANGED <<files, checkpoint, pending, epoch>>

(* Without --resume a used directory is started from scratch: nothing on   *)
(* disk is removed.                                                        *)
StartFresh ==
  /\ FreshRunsInSameDir
  /\ pc \in {"down", "done"} /\ epoch < MaxCrashes
  /\ pc' = "start"
  /\ epoch' = epoch + 1
  /\ LoseMemory
  /\ UNCHANGED disk

-----------------------------------------------------------------------------
Orchestrating ==
  \/ EnterOrchestration \/ LoopHead \/ LoopHeadFails \/ LoopExhausted
  \/ \E status \in {"PASS", "FAIL"} : IterationReturns(status) \/ ReviewReturns(status)
  \/ IterationRejectsAll
  \/ \E d \in Deck : Propose(d)
  \/ ReviewRollsBack \/ ReviewKeeps \/ ProposeFails

Tuning == EntrySweep \/ EntrySweepFails \/ LogAttempt \/ SaveResult
          \/ Finish \/ Reenter \/ SaveAttempt

Optimization ==
  \/ \E d \in Deck : Optimize(d)
  \/ OptimizerRollsBack \/ OptimizerEnds \/ OptimizerFails

Run == Truncate \/ Fill \/ Commit \/ LogEvent \/ Orchestrating \/ Tuning \/ Optimization

Next == Run \/ Crash \/ CrashInAppend \/ Resume \/ StartFresh

Spec == Init /\ [][Next]_vars

(* The process keeps running, and a crashed run is eventually resumed.     *)
FairSpec == Spec /\ WF_vars(Run) /\ WF_vars(Resume)

-----------------------------------------------------------------------------
(* Properties.                                                             *)

Progress == [attempt : Nat, outer_iter : Nat, entry : Nat \cup {NoEntry},
             status : {"none", "PASS", "FAIL"}]
Boundaries == {"outer_iteration", "attempt", "optimization"}
Checkpoints == [boundary : Boundaries, versions : Stacks, history_lines : Nat,
                progress : Progress]
Pushes == [texts : [Testbench -> Deck], version : Nat,
           next : 1 .. Len(testbench_names) + 1, stage : {"truncate", "fill"}]
Places == {"start", "enter", "head", "iter", "review", "returned", "save_result",
           "area", "objective", "verdict", "save_attempt", "done", "down"}

TypeOK ==
  /\ DOMAIN files \subseteq Nat \X Testbench
  /\ \A f \in DOMAIN files : files[f] \in Content
  /\ history \in Seq(Line)
  /\ checkpoint \in {NoCheckpoint} \cup Checkpoints
  /\ checkpoint # NoCheckpoint => checkpoint.history_lines <= Len(history)
  /\ netlist_versions \in Stacks
  /\ pending \in {NoPush} \cup Pushes
  /\ pc \in Places
  /\ progress \in Progress
  /\ anchor \in Nat /\ steps \in Nat /\ epoch \in Nat

(* A push never reuses a file that is still on a stack: version n of every *)
(* testbench sits at position n of its stack, in step across testbenches,  *)
(* after any mix of rollbacks, failed pushes and resumes (state.py:31-45). *)
Lockstep == \A tb \in Testbench : netlist_versions[tb] = Ramp(Depth)

(* No version the process or the checkpoint can name is missing from disk  *)
(* or half written, wherever a push was cut off (state.py:34-45), so a     *)
(* resume is never rejected for missing files (checkpoint.py:591-602).     *)
WholeIn(named) == \A f \in named : f \in DOMAIN files /\ files[f] \in Deck
StackedFilesWhole == WholeIn((0 .. Depth - 1) \X Testbench)
CheckpointedFilesWhole == checkpoint # NoCheckpoint => WholeIn(Named(checkpoint))
NamedFilesWhole == StackedFilesWhole /\ CheckpointedFilesWhole

(* Whatever a process writes, the files the checkpoint names keep their    *)
(* content until the next checkpoint (checkpoint.py:615-618: the resumed   *)
(* stack must be the one of the run that wrote it).                        *)
Undisturbed(named) == \A f \in named : f \in DOMAIN files' /\ files'[f] = files[f]
CheckpointedDecksUntouched ==
  [][checkpoint # NoCheckpoint /\ checkpoint' = checkpoint
       => Undisturbed(Named(checkpoint))]_vars

(* Discarded ranges are disjoint, or the later one covers the earlier one  *)
(* (history.py:14-17), however often a run is resumed.                     *)
DiscardedRangesNest ==
  \A i, j \in DOMAIN history :
    history[i].step = "resume" /\ history[j].step = "resume" /\ i < j =>
      \/ history[i].to <= history[j].from
      \/ history[j].from <= history[i].from /\ history[i].to <= history[j].to

(* The entry sweep's event is never in a discarded range, so every resume  *)
(* finds it again (cli.py:383-384, _reused_baseline_sweep).                *)
EntrySweepStaysReadable ==
  checkpoint # NoCheckpoint =>
    \E i \in Kept(history) : history[i].step = "pvt_baseline_sweep"

(* Whoever can read the log at all (read_events raises on a line that is   *)
(* torn or glued, so there is nothing to show then) is shown ranges that   *)
(* nest, and always the event that later resumes reuse, in a directory     *)
(* used by one run or by several (history.py:14-41, cli.py:383-384).       *)
LogReadsBack ==
  Readable(history) => DiscardedRangesNest /\ EntrySweepStaysReadable

(* What a resume repeats is one outer iteration of the attempt the process *)
(* is in, or, from the attempt's result on, both optimization phases, the  *)
(* verdict and the event that asks for a re-entry: never an iteration      *)
(* before the last one, never an orchestration whose result is saved       *)
(* (checkpoint.py:11-21).                                                  *)
Looping == {"enter", "head", "iter", "review", "returned", "save_result"}
AfterResult == {"area", "objective", "verdict", "save_attempt"}
CrashCostsOneStage ==
  Up /\ checkpoint # NoCheckpoint =>
    LET cp == checkpoint.progress IN
    \/ /\ checkpoint.boundary # "optimization" /\ pc \in Looping
       /\ progress.attempt = cp.attempt
       /\ progress.outer_iter \in {cp.outer_iter, cp.outer_iter + 1}
    \/ /\ checkpoint.boundary = "optimization" /\ pc \in AfterResult
       /\ IF pc = "save_attempt" THEN progress.attempt = cp.attempt + 1
          ELSE progress = cp

(* Every crash is survived: the run ends with a report unless it died      *)
(* before its first checkpoint.                                            *)
RunEnds == <>[](pc = "done" \/ (pc = "down" /\ checkpoint = NoCheckpoint))

(* A run can be resumed after being killed at any point                    *)
(* (checkpoint.py:457-459, the checkpoint design's first rule).            *)
KillAnywhereIsResumable ==
  pc = "down" /\ checkpoint # NoCheckpoint => Accepted /\ Readable(history)

(* What --resume accepts is what was saved: it "rejects if anything        *)
(* drifted" (cli.py:63, checkpoint.py:531-532), so a version file of an    *)
(* accepted checkpoint is never half written.                              *)
AcceptedMeansWhole == pc = "down" /\ Accepted => WholeIn(Named(checkpoint))
=============================================================================
