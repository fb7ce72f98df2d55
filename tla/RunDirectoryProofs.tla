------------------------- MODULE RunDirectoryProofs -------------------------
(***************************************************************************)
(* What RunDirectory guarantees for every list of testbenches, every set   *)
(* of decks, every bound, and any number of crashes, torn log lines and    *)
(* failed writes, in a directory that one run uses (no StartFresh).        *)
(*                                                                         *)
(* Inductive invariant: the stacks are ramps in step, everything on them   *)
(* is whole on disk, and between a checkpoint and the next one the stacks  *)
(* never get shorter than the checkpointed ones.                           *)
(***************************************************************************)
EXTENDS RunDirectoryDurable, TLAPS

Loop == {"head", "iter", "review"}
Begun == Loop \cup {"returned", "save_result", "area", "objective", "verdict",
                    "save_attempt"}

StackInv ==
  /\ Depth \in Nat
  /\ netlist_versions = [tb \in Testbench |-> Ramp(Depth)]
  /\ WholeIn((0 .. Depth - 1) \X Testbench)
  /\ pc \in Begun => Depth >= 1
  /\ pc = "start" => progress.attempt = 0
  /\ pc = "enter" /\ progress.attempt # 0 => Depth >= 1

PendingInv ==
  pending # NoPush =>
    /\ pending.version = Depth
    /\ pc \in {"enter", "iter", "area", "objective"}
    /\ \A i \in 1 .. pending.next - 1 :
         /\ <<Depth, testbench_names[i]>> \in DOMAIN files
         /\ files[<<Depth, testbench_names[i]>>] \in Deck

EntryInv ==
  /\ pc \notin Loop => progress.entry = NoEntry
  /\ progress.entry < Depth
  /\ pc = "review" => progress.entry < Depth - 1

CDepth == Len(checkpoint.versions[Canonical])

CheckpointInv ==
  checkpoint # NoCheckpoint =>
    /\ CDepth \in Nat /\ CDepth >= 1
    /\ checkpoint.versions = [tb \in Testbench |-> Ramp(CDepth)]
    /\ WholeIn((0 .. CDepth - 1) \X Testbench)
    /\ checkpoint.progress.entry < CDepth
    /\ checkpoint.boundary # "outer_iteration" => checkpoint.progress.entry = NoEntry

FloorInv ==
  /\ Optimizing => anchor \in 1 .. Depth
  /\ checkpoint # NoCheckpoint =>
       /\ pc # "start"
       /\ pc # "down" => CDepth <= Depth
       /\ pc = "review" => CDepth < Depth
       /\ Optimizing => CDepth <= anchor

IInv == TypeOK /\ StackInv /\ PendingInv /\ EntryInv /\ CheckpointInv /\ FloorInv

-----------------------------------------------------------------------------
(* Stacks as ramps.                                                        *)

LEMMA CanonicalIn == Canonical \in Testbench /\ Len(testbench_names) \in Nat
BY TestbenchAssumption DEF Canonical, Testbench

(* Pushing version n on a ramp of n gives the ramp of n + 1; popping to k  *)
(* gives the ramp of k.                                                    *)
LEMMA RampFacts ==
  ASSUME NEW n \in Nat
  PROVE  /\ Ramp(n) \in Seq(Nat) /\ Len(Ramp(n)) = n
         /\ Append(Ramp(n), n) = Ramp(n + 1)
         /\ \A k \in 0 .. n : SubSeq(Ramp(n), 1, k) = Ramp(k)
BY DEF Ramp

(* A write touches one file.                                               *)
LEMMA WriteFacts ==
  ASSUME NEW file, NEW content
  PROVE  LET after == Write(file, content) IN
         /\ DOMAIN after = DOMAIN files \cup {file}
         /\ after[file] = content
         /\ \A f \in DOMAIN files : f # file => after[f] = files[f]
BY DEF Write

-----------------------------------------------------------------------------
LEMMA InitInv == Init => IInv
<1> SUFFICES ASSUME Init PROVE IInv
  OBVIOUS
<1>1. netlist_versions = [tb \in Testbench |-> Ramp(0)] /\ Depth = 0
  BY CanonicalIn DEF Init, EmptyStacks, Ramp, Depth
<1>2. TypeOK
  BY DEF Init, TypeOK, EmptyStacks, Stacks, NoProgress, Progress, NoEntry, Places, Content
<1>3. StackInv
  BY <1>1 DEF Init, StackInv, WholeIn, Begun, Loop, NoProgress
<1>4. PendingInv /\ EntryInv /\ CheckpointInv /\ FloorInv
  BY <1>1 DEF Init, PendingInv, EntryInv, CheckpointInv, FloorInv, NoProgress, NoEntry,
              Loop, Optimizing
<1> QED
  BY <1>2, <1>3, <1>4 DEF IInv

(* A step that leaves files, stacks, the push and the checkpoint alone and *)
(* only moves pc, progress or the phase is checked conjunct by conjunct.   *)
LEMMA WritingStep == IInv /\ (Truncate \/ Fill) => IInv'
<1> SUFFICES ASSUME IInv, Truncate \/ Fill PROVE IInv'
  OBVIOUS
<1> DEFINE file == PendingFile
           content == files'[file]
<1> USE DEF IInv
<1>1. pending # NoPush /\ Writing
  BY DEF Truncate, Fill, Writing
<1>2. /\ PendingName \in Testbench /\ file = <<Depth, PendingName>>
      /\ pending \in Pushes
      /\ pending.next \in 1 .. Len(testbench_names)
  BY <1>1, TestbenchAssumption DEF PendingName, PendingFile, PendingInv, TypeOK, Testbench, Writing, Pushes
<1>3. UNCHANGED <<history, checkpoint, netlist_versions, pc, progress, anchor, steps, epoch, Depth>>
  BY DEF Truncate, Fill, phase, Depth
<1>4. /\ DOMAIN files' = DOMAIN files \cup {file}
      /\ content \in Content
      /\ \A f \in DOMAIN files : f # file => files'[f] = files[f]
      /\ Fill => content \in Deck
  BY <1>2, WriteFacts DEF Truncate, Fill, Content, Write, Pushes
<1>5. pending' \in Pushes
  <2>1. CASE Truncate
    BY <2>1, <1>2 DEF Truncate, Pushes
  <2>2. CASE Fill
    <3>1. pending.next + 1 \in 1 .. Len(testbench_names) + 1
      BY <1>2, CanonicalIn
    <3>2. pending' = [pending EXCEPT !.next = pending.next + 1, !.stage = "truncate"]
      BY <2>2 DEF Fill
    <3> QED
      BY <3>1, <3>2, <1>2 DEF Pushes
  <2> QED
    BY <2>1, <2>2
<1>6. TypeOK'
  <2>1. file \in Nat \X Testbench
    BY <1>2 DEF StackInv
  <2>2. DOMAIN files' \subseteq Nat \X Testbench
    BY <2>1, <1>4 DEF TypeOK
  <2>3. \A f \in DOMAIN files' : files'[f] \in Content
    BY <1>4 DEF TypeOK
  <2> QED
    BY <2>2, <2>3, <1>3, <1>5 DEF TypeOK
<1>7. StackInv'
  <2>1. WholeIn((0 .. Depth - 1) \X Testbench)'
    BY <1>2, <1>3, <1>4 DEF StackInv, WholeIn
  <2> QED
    BY <2>1, <1>3 DEF StackInv, WholeIn
<1>8. PendingInv'
  <2>1. pending'.version = Depth /\ pending' # NoPush
    BY <1>1, <1>2 DEF Truncate, Fill, PendingInv, NoPush, Pushes
  <2>2. ASSUME NEW i \in 1 .. pending'.next - 1
        PROVE  /\ <<Depth, testbench_names[i]>> \in DOMAIN files'
               /\ files'[<<Depth, testbench_names[i]>>] \in Deck
    <3>1. CASE i < pending.next
      <4>1. testbench_names[i] # PendingName
        BY <3>1, <1>2, <2>2, TestbenchAssumption, CanonicalIn DEF PendingName, Truncate, Fill
      <4> QED
        BY <4>1, <3>1, <1>1, <1>2, <1>4, <2>2 DEF PendingInv
    <3>2. CASE i >= pending.next
      <4>1. CASE Truncate
        BY <4>1, <3>2, <1>2, <2>2 DEF Truncate, Pushes
      <4>2. CASE Fill
        <5>1. i = pending.next
          BY <4>2, <3>2, <1>2, <2>2 DEF Fill, Pushes
        <5> QED
          BY <5>1, <4>2, <1>2, <1>4 DEF PendingName
      <4> QED
        BY <4>1, <4>2
    <3> QED
      BY <3>1, <3>2, <1>2, <1>5, <2>2 DEF Pushes
  <2> QED
    BY <2>1, <2>2, <1>1, <1>3 DEF PendingInv
<1>9. EntryInv' /\ FloorInv'
  BY <1>3 DEF EntryInv, FloorInv, Optimizing, CDepth
<1>10. CheckpointInv'
  <2>1. checkpoint # NoCheckpoint => CDepth <= Depth
    BY <1>1 DEF FloorInv, PendingInv
  <2>2. CDepth' = CDepth
    BY <1>3 DEF CDepth
  <2>3. checkpoint # NoCheckpoint => WholeIn((0 .. CDepth - 1) \X Testbench)'
    BY <2>1, <2>2, <1>2, <1>4 DEF WholeIn, CheckpointInv, StackInv
  <2> QED
    BY <2>2, <2>3, <1>3 DEF CheckpointInv, WholeIn
<1> QED
  BY <1>6, <1>7, <1>8, <1>9, <1>10

(* The process moves or logs; files, stacks and checkpoint stay.           *)
Logging == LogEvent \/ EntrySweep \/ EntrySweepFails \/ LogAttempt \/ Finish \/ Reenter
Moving ==
  \/ LoopExhausted \/ LoopHeadFails \/ IterationRejectsAll \/ ReviewKeeps \/ ProposeFails \/ OptimizerEnds
  \/ \E status \in {"PASS", "FAIL"} : IterationReturns(status) \/ ReviewReturns(status)

LEMMA EventIsLine ==
  ASSUME history \in Seq(Line), epoch \in Nat,
         NEW step \in {"event", "pvt_baseline_sweep", "torn", "glued"}
  PROVE  /\ Event(step) \in Line /\ Event(step).step = step
         /\ Append(history, Event(step)) \in Seq(Line)
         /\ Len(Append(history, Event(step))) = Len(history) + 1
BY DEF Event, Line

(* An event that lands on a fragment leaves the log as long as it was.     *)
LEMMA GluedIsLine ==
  ASSUME history \in Seq(Line), epoch \in Nat, Unterminated, NEW line
  PROVE  /\ Len(history) \in 1 .. Len(history)
         /\ AppendLine(line) \in Seq(Line) /\ Len(AppendLine(line)) = Len(history)
         /\ DOMAIN AppendLine(line) = DOMAIN history
         /\ AppendLine(line)[Len(history)].step = "glued"
         /\ \A i \in DOMAIN history : i # Len(history) => AppendLine(line)[i] = history[i]
<1>1. Event("glued") \in Line /\ Event("glued").step = "glued"
  BY EventIsLine
<1>2. Len(history) \in 1 .. Len(history) /\ Len(history) \in DOMAIN history
  BY DEF Unterminated
<1>3. AppendLine(line) = [history EXCEPT ![Len(history)] = Event("glued")]
  BY DEF AppendLine
<1> QED
  BY <1>1, <1>2, <1>3

LEMMA ProgressFacts ==
  ASSUME progress \in Progress
  PROVE  /\ [progress EXCEPT !.outer_iter = @ + 1] \in Progress
         /\ \A status \in {"PASS", "FAIL"} :
              [progress EXCEPT !.entry = NoEntry, !.status = status] \in Progress
         /\ [NoProgress EXCEPT !.attempt = progress.attempt + 1] \in Progress
         /\ [progress EXCEPT !.outer_iter = @ + 1].entry = progress.entry
         /\ [NoProgress EXCEPT !.attempt = progress.attempt + 1].entry = NoEntry
<1>1. [progress EXCEPT !.outer_iter = @ + 1] \in Progress
  BY DEF Progress
<1>2. ASSUME NEW status \in {"PASS", "FAIL"}
      PROVE  [progress EXCEPT !.entry = NoEntry, !.status = status] \in Progress
  BY DEF Progress
<1>3. [NoProgress EXCEPT !.attempt = progress.attempt + 1] \in Progress
  BY DEF Progress, NoProgress
<1>4. /\ [progress EXCEPT !.outer_iter = @ + 1].entry = progress.entry
      /\ [NoProgress EXCEPT !.attempt = progress.attempt + 1].entry = NoEntry
  BY DEF Progress, NoProgress
<1> QED
  BY <1>1, <1>2, <1>3, <1>4

LEMMA LoggingStep == IInv /\ Logging => IInv'
<1> SUFFICES ASSUME IInv, Logging PROVE IInv'
  OBVIOUS
<1> USE DEF IInv, At, Idle, Up, stack, disk, phase
<1>1. UNCHANGED <<files, checkpoint, netlist_versions, pending, anchor, steps, epoch,
                  Depth, CDepth>>
  BY DEF Logging, LogEvent, EntrySweep, EntrySweepFails, LogAttempt, Finish, Reenter,
         Depth, CDepth
<1>2. \E step \in {"event", "pvt_baseline_sweep"} : history' = AppendLine(Event(step))
  BY DEF Logging, LogEvent, EntrySweep, EntrySweepFails, LogAttempt, Finish, Reenter
<1>3. history' \in Seq(Line) /\ Len(history') >= Len(history) /\ Len(history) \in Nat
  <2>1. history \in Seq(Line) /\ epoch \in Nat /\ Len(history) \in Nat
    BY DEF TypeOK
  <2>2. CASE Unterminated
    BY <1>2, <2>1, <2>2, GluedIsLine
  <2>3. CASE ~ Unterminated
    BY <1>2, <2>1, <2>3, EventIsLine DEF AppendLine
  <2> QED
    BY <2>2, <2>3
<1>4. pc' \in Places /\ progress' \in Progress
  BY ProgressFacts DEF Logging, LogEvent, EntrySweep, EntrySweepFails, LogAttempt, Finish,
     Reenter, TypeOK, Places
<1>5. TypeOK'
  BY <1>1, <1>3, <1>4 DEF TypeOK, Checkpoints
<1>6. StackInv'
  BY <1>1 DEF Logging, LogEvent, EntrySweep, EntrySweepFails, LogAttempt, Finish, Reenter,
     StackInv, WholeIn, Begun, Loop
<1>7. PendingInv'
  BY <1>1 DEF Logging, LogEvent, EntrySweep, EntrySweepFails, LogAttempt, Finish, Reenter,
     PendingInv
<1>8. EntryInv'
  BY <1>1, ProgressFacts DEF Logging, LogEvent, EntrySweep, EntrySweepFails, LogAttempt,
     Finish, Reenter, EntryInv, Loop, TypeOK
<1>9. CheckpointInv' /\ FloorInv'
  BY <1>1 DEF Logging, LogEvent, EntrySweep, EntrySweepFails, LogAttempt, Finish, Reenter,
     CheckpointInv, FloorInv, WholeIn, Optimizing
<1> QED
  BY <1>5, <1>6, <1>7, <1>8, <1>9

LEMMA MovingStep == IInv /\ Moving => IInv'
<1> SUFFICES ASSUME IInv, Moving PROVE IInv'
  OBVIOUS
<1> USE DEF IInv, At, Idle, stack, disk, phase, Return, NextIteration, EndPhase
<1>1. /\ UNCHANGED <<files, history, checkpoint, netlist_versions, epoch, Depth, CDepth>>
      /\ pending' = NoPush
  BY DEF Moving, LoopExhausted, LoopHeadFails, IterationRejectsAll, ReviewKeeps, ProposeFails,
         OptimizerEnds, IterationReturns, ReviewReturns, Depth, CDepth
<1>2. pc' \in Places /\ progress' \in Progress /\ anchor' \in Nat /\ steps' \in Nat
  BY ProgressFacts, BoundAssumption DEF Moving, LoopExhausted, LoopHeadFails, IterationRejectsAll,
     ReviewKeeps, ProposeFails, OptimizerEnds, IterationReturns, ReviewReturns, TypeOK,
     StackInv, Places
<1>3. TypeOK'
  BY <1>1, <1>2 DEF TypeOK, Checkpoints
<1>4. pc' # "start" /\ pc' # "enter" /\ pc' # "review"
  BY DEF Moving, LoopExhausted, LoopHeadFails, IterationRejectsAll, ReviewKeeps, ProposeFails,
     OptimizerEnds, IterationReturns, ReviewReturns
<1>5. pc' \in Begun /\ pc \in Begun
  BY DEF Moving, LoopExhausted, LoopHeadFails, IterationRejectsAll, ReviewKeeps, ProposeFails,
     OptimizerEnds, IterationReturns, ReviewReturns, Begun, Loop, Optimizing
<1>6. StackInv' /\ PendingInv'
  BY <1>1, <1>4, <1>5 DEF StackInv, PendingInv, WholeIn
<1>7. \/ pc' = "head" /\ progress'.entry = progress.entry
      \/ pc' \notin Loop /\ progress'.entry = NoEntry
  <2>1. CASE IterationRejectsAll \/ ReviewKeeps
    BY <2>1, ProgressFacts DEF IterationRejectsAll, ReviewKeeps, TypeOK
  <2>2. CASE OptimizerEnds
    BY <2>2 DEF OptimizerEnds, Optimizing, EntryInv, Loop
  <2>3. CASE ~ (IterationRejectsAll \/ ReviewKeeps \/ OptimizerEnds)
    <3>1. PICK status \in {"PASS", "FAIL"} :
            pc' = "returned" /\ progress' = [progress EXCEPT !.entry = NoEntry, !.status = status]
      BY <2>3 DEF Moving, LoopExhausted, LoopHeadFails, ProposeFails, IterationReturns, ReviewReturns
    <3> QED
      BY <3>1 DEF TypeOK, Progress, Loop
  <2> QED
    BY <2>1, <2>2, <2>3
<1>8. EntryInv'
  BY <1>1, <1>4, <1>5, <1>7 DEF EntryInv, StackInv, NoEntry, Loop
<1>9. CheckpointInv' /\ FloorInv'
  BY <1>1 DEF Moving, LoopExhausted, LoopHeadFails, IterationRejectsAll, ReviewKeeps, ProposeFails,
     OptimizerEnds, IterationReturns, ReviewReturns, CheckpointInv, FloorInv, WholeIn,
     Optimizing, StackInv, Begun, Loop
<1> QED
  BY <1>3, <1>6, <1>8, <1>9

(* push_netlist_version is called: it fixes the version, writes nothing.   *)
Calling == EnterOrchestration \/ \E d \in Deck : Propose(d) \/ Optimize(d)

LEMMA CallingStep == IInv /\ Calling => IInv'
<1> SUFFICES ASSUME IInv, Calling PROVE IInv'
  OBVIOUS
<1> USE DEF IInv, At, Idle, disk, phase
<1>1. UNCHANGED <<files, history, checkpoint, netlist_versions, pc, progress, anchor, epoch,
                  Depth, CDepth>>
  BY DEF Calling, EnterOrchestration, Propose, Optimize, Push, Depth, CDepth
<1>2. PICK texts : pending' = [texts |-> texts, version |-> Depth, next |-> 1,
                               stage |-> "truncate"]
                   /\ texts \in [Testbench -> Deck]
  <2>1. CASE EnterOrchestration
    <3>1. CASE progress.attempt = 0
      BY <2>1, <3>1, DeckAssumption DEF EnterOrchestration, Push, Uniform
    <3>2. CASE progress.attempt # 0
      <4>1. Depth \in Nat /\ Depth >= 1
        BY <2>1, <3>2 DEF EnterOrchestration, StackInv
      <4>2. \A tb \in Testbench : Top(tb) = Depth - 1
        BY <4>1, RampFacts DEF StackInv, Top, Ramp
      <4>3. CurrentTexts \in [Testbench -> Deck]
        BY <4>1, <4>2 DEF CurrentTexts, StackInv, WholeIn
      <4> QED
        BY <2>1, <3>2, <4>3 DEF EnterOrchestration, Push
    <3> QED
      BY <3>1, <3>2
  <2>2. CASE \E d \in Deck : Propose(d) \/ Optimize(d)
    BY <2>2 DEF Propose, Optimize, Push, Uniform
  <2> QED
    BY <2>1, <2>2 DEF Calling
<1>3. pending' \in Pushes /\ pending' # NoPush
  BY <1>2, CanonicalIn DEF Pushes, StackInv, NoPush
<1>4. steps' \in Nat
  BY DEF Calling, EnterOrchestration, Propose, Optimize, TypeOK
<1>5. TypeOK'
  BY <1>1, <1>3, <1>4 DEF TypeOK, Checkpoints
<1>6. PendingInv'
  BY <1>1, <1>2 DEF Calling, EnterOrchestration, Propose, Optimize, PendingInv, Optimizing
<1>7. StackInv' /\ EntryInv' /\ CheckpointInv' /\ FloorInv'
  BY <1>1 DEF StackInv, EntryInv, CheckpointInv, FloorInv, WholeIn, Optimizing
<1> QED
  BY <1>5, <1>6, <1>7

(* The push commits: every stack grows by the version just written.        *)
LEMMA CommitStep == IInv /\ Commit => IInv'
<1> SUFFICES ASSUME IInv, Commit PROVE IInv'
  OBVIOUS
<1> USE DEF IInv, disk, phase
<1>1. /\ pending \in Pushes /\ pending # NoPush /\ pending.version = Depth /\ Depth \in Nat
      /\ pc \in {"enter", "iter", "area", "objective"}
  BY DEF Commit, TypeOK, PendingInv, StackInv
<1>2. netlist_versions' = [tb \in Testbench |-> Ramp(Depth + 1)]
  BY <1>1, RampFacts DEF Commit, StackInv
<1>3. Depth' = Depth + 1
  <2>1. netlist_versions'[Canonical] = Ramp(Depth + 1)
    BY <1>2, CanonicalIn
  <2>2. Len(Ramp(Depth + 1)) = Depth + 1
    BY <1>1, RampFacts
  <2> QED
    BY <2>1, <2>2 DEF Depth
<1>4. UNCHANGED <<files, history, checkpoint, CDepth, anchor, steps, epoch>> /\ pending' = NoPush
  BY DEF Commit, CDepth
<1>5. WholeIn(({Depth}) \X Testbench)
  <2>1. \A i \in DOMAIN testbench_names : i \in 1 .. pending.next - 1
    BY <1>1, CanonicalIn, TestbenchAssumption DEF Commit, Writing, Pushes
  <2> QED
    BY <2>1, <1>1 DEF WholeIn, PendingInv, Testbench
<1>6. WholeIn((0 .. Depth - 1) \X Testbench)'
  <2> SUFFICES ASSUME NEW f \in (0 .. Depth) \X Testbench
               PROVE  f \in DOMAIN files /\ files[f] \in Deck
    BY <1>1, <1>3, <1>4 DEF WholeIn
  <2>1. CASE f[1] = Depth
    BY <2>1, <1>5 DEF WholeIn
  <2>2. CASE f[1] # Depth
    <3>1. f \in (0 .. Depth - 1) \X Testbench
      BY <2>2, <1>1
    <3> QED
      BY <3>1 DEF WholeIn, StackInv
  <2> QED
    BY <2>1, <2>2
<1>7. \/ pc = "enter" /\ pc' = "head" /\ progress' = [progress EXCEPT !.entry = Depth, !.outer_iter = 1]
      \/ pc = "iter" /\ pc' = "review" /\ progress' = progress
      \/ Optimizing /\ pc' = pc /\ progress' = progress
  BY <1>1 DEF Commit, Optimizing
<1>8. pc' \in Places /\ progress' \in Progress
  <2>1. progress \in Progress
    BY DEF TypeOK
  <2>2. [progress EXCEPT !.entry = Depth, !.outer_iter = 1] \in Progress
    BY <2>1, <1>1 DEF Progress
  <2> QED
    BY <2>1, <2>2, <1>1, <1>7 DEF Places
<1>9. TypeOK'
  <2>1. netlist_versions' \in Stacks
    BY <1>1, <1>2, RampFacts DEF Stacks
  <2> QED
    BY <2>1, <1>4, <1>8 DEF TypeOK
<1>10. StackInv' /\ PendingInv'
  <2>1. pc' # "start" /\ pc' # "enter" /\ Depth' >= 1 /\ Depth' \in Nat
    BY <1>1, <1>3, <1>7 DEF Optimizing
  <2> QED
    BY <2>1, <1>2, <1>3, <1>4, <1>6 DEF StackInv, PendingInv
<1>11. EntryInv'
  <2>1. progress \in Progress
    BY DEF TypeOK
  <2> QED
    <3>1. CASE pc = "enter"
      <4>1. pc' = "head" /\ progress'.entry = Depth
        BY <2>1, <3>1, <1>7 DEF Optimizing, Progress
      <4> QED
        BY <4>1, <1>1, <1>3 DEF EntryInv, Loop
    <3>2. CASE pc = "iter"
      BY <2>1, <3>2, <1>1, <1>3, <1>7 DEF EntryInv, Loop, Optimizing, Progress, NoEntry
    <3>3. CASE Optimizing
      BY <2>1, <3>3, <1>1, <1>3, <1>7 DEF EntryInv, Loop, Optimizing, Progress, NoEntry
    <3> QED
      BY <3>1, <3>2, <3>3, <1>7
<1>12. CheckpointInv' /\ FloorInv'
  BY <1>1, <1>3, <1>4, <1>7 DEF CheckpointInv, FloorInv, WholeIn, Optimizing, TypeOK
<1> QED
  BY <1>9, <1>10, <1>11, <1>12

(* Pops: a review's rollback and the optimizer's, down to some depth k.    *)
Popping == ReviewRollsBack \/ OptimizerRollsBack \/ OptimizerFails

LEMMA PoppingStep == IInv /\ Popping => IInv'
<1> SUFFICES ASSUME IInv, Popping PROVE IInv'
  OBVIOUS
<1> USE DEF IInv, At, Idle, stack, disk, phase, NextIteration, EndPhase
<1>1. \E k \in 1 .. Depth :
        /\ netlist_versions' = PopTo(netlist_versions, k)
        /\ checkpoint # NoCheckpoint => CDepth <= k
        /\ progress'.entry < k
        /\ Optimizing' => anchor' <= k
  <2>1. CASE ReviewRollsBack
    <3>1. progress'.entry = progress.entry /\ pc' = "head" /\ pc = "review"
      BY <2>1, ProgressFacts DEF ReviewRollsBack, TypeOK
    <3>2. Depth - 1 \in 1 .. Depth
      BY <2>1, CanonicalIn DEF ReviewRollsBack, StackInv, Depth
    <3> QED
      BY <2>1, <3>1, <3>2 DEF ReviewRollsBack, EntryInv, FloorInv, CheckpointInv, StackInv,
         Optimizing
  <2>2. CASE OptimizerRollsBack
    <3>1. progress' = progress /\ progress.entry = NoEntry
      BY <2>2 DEF OptimizerRollsBack, Optimizing, EntryInv, Loop
    <3> QED
      BY <2>2, <3>1 DEF OptimizerRollsBack, FloorInv, CheckpointInv, StackInv, NoEntry
  <2>3. CASE OptimizerFails
    <3>1. progress' = progress /\ progress.entry = NoEntry
      BY <2>3 DEF OptimizerFails, Optimizing, EntryInv, Loop
    <3> QED
      BY <2>3, <3>1 DEF OptimizerFails, FloorInv, CheckpointInv, StackInv, NoEntry
  <2> QED
    BY <2>1, <2>2, <2>3 DEF Popping
<1>2. PICK k \in 1 .. Depth :
        /\ netlist_versions' = PopTo(netlist_versions, k)
        /\ checkpoint # NoCheckpoint => CDepth <= k
        /\ progress'.entry < k
        /\ Optimizing' => anchor' <= k
  BY <1>1
<1>3. Depth \in Nat /\ k \in Nat
  BY DEF StackInv
<1>4. netlist_versions' = [tb \in Testbench |-> Ramp(k)]
  BY <1>2, <1>3, RampFacts DEF StackInv, PopTo
<1>5. Depth' = k
  BY <1>3, <1>4, RampFacts, CanonicalIn DEF Depth
<1>6. UNCHANGED <<files, history, checkpoint, epoch, CDepth>> /\ pending' = NoPush
  BY DEF Popping, ReviewRollsBack, OptimizerRollsBack, OptimizerFails, CDepth
<1>7. /\ pc' \in Begun \ {"review", "iter"} /\ pc' \in Places /\ pc \in Begun
      /\ anchor' = anchor /\ steps' \in Nat /\ progress' \in Progress
      /\ Optimizing' => Optimizing
      /\ pc' \notin Loop => progress'.entry = NoEntry
  BY ProgressFacts, BoundAssumption DEF Popping, ReviewRollsBack, OptimizerRollsBack,
     OptimizerFails, Begun, Loop, Places, TypeOK, Optimizing, EntryInv
<1>8. TypeOK'
  <2>1. netlist_versions' \in Stacks
    BY <1>3, <1>4, RampFacts DEF Stacks
  <2> QED
    BY <2>1, <1>6, <1>7 DEF TypeOK
<1>9. StackInv'
  <2>1. WholeIn((0 .. Depth - 1) \X Testbench)'
    BY <1>2, <1>3, <1>5, <1>6 DEF StackInv, WholeIn
  <2> QED
    BY <2>1, <1>2, <1>3, <1>4, <1>5, <1>7 DEF StackInv, Begun, Loop
<1>10. PendingInv' /\ EntryInv'
  BY <1>2, <1>5, <1>6, <1>7 DEF PendingInv, EntryInv
<1>11. CheckpointInv' /\ FloorInv'
  BY <1>2, <1>3, <1>5, <1>6, <1>7 DEF CheckpointInv, FloorInv, WholeIn, Begun, Loop
<1> QED
  BY <1>8, <1>9, <1>10, <1>11

(* Saves: the checkpoint takes the stacks and the progress as they are.    *)
Saving == LoopHead \/ SaveResult \/ SaveAttempt

LEMMA SavingStep == IInv /\ Saving => IInv'
<1> SUFFICES ASSUME IInv, Saving PROVE IInv'
  OBVIOUS
<1> USE DEF IInv, At, Idle, stack, phase, Save
<1>1. /\ UNCHANGED <<files, history, netlist_versions, pending, progress, epoch, Depth>>
      /\ pending = NoPush /\ pc \in Begun
  BY DEF Saving, LoopHead, SaveResult, SaveAttempt, Depth, Begun, Loop
<1>2. PICK boundary \in Boundaries :
        /\ checkpoint' = [boundary |-> boundary, versions |-> netlist_versions,
                          history_lines |-> Len(history), progress |-> progress]
        /\ boundary # "outer_iteration" => pc \notin Loop
  BY DEF Saving, LoopHead, SaveResult, SaveAttempt, Boundaries, Loop
<1>3. Depth \in Nat /\ Depth >= 1 /\ CDepth' = Depth
  BY <1>1, <1>2 DEF StackInv, CDepth, Depth
<1>4. checkpoint' \in Checkpoints /\ checkpoint'.history_lines <= Len(history)
  BY <1>2 DEF Checkpoints, TypeOK
<1>5. /\ pc' \in {"iter", "area", "verdict", "enter"}
      /\ Optimizing' => anchor' = Depth
      /\ pc' # "iter" => pc \notin Loop
      /\ anchor' \in Nat /\ steps' \in Nat
  BY <1>3, BoundAssumption DEF Saving, LoopHead, SaveResult, SaveAttempt,
     AfterOrchestration, Optimizing, Loop, TypeOK
<1>6. TypeOK'
  BY <1>1, <1>4, <1>5 DEF TypeOK, Places
<1>7. StackInv' /\ PendingInv'
  BY <1>1, <1>3, <1>5 DEF StackInv, PendingInv, WholeIn
<1>8. EntryInv'
  BY <1>1, <1>5 DEF EntryInv, Loop
<1>9. CheckpointInv'
  BY <1>1, <1>2, <1>3 DEF CheckpointInv, StackInv, EntryInv, WholeIn
<1>10. FloorInv'
  BY <1>1, <1>3, <1>5 DEF FloorInv
<1> QED
  BY <1>6, <1>7, <1>8, <1>9, <1>10

(* The process dies, with or without a fragment of a line on disk.         *)
LEMMA CrashStep == IInv /\ (Crash \/ CrashInAppend) => IInv'
<1> SUFFICES ASSUME IInv, Crash \/ CrashInAppend PROVE IInv'
  OBVIOUS
<1> USE DEF IInv, disk, LoseMemory
<1>1. /\ UNCHANGED <<files, checkpoint, CDepth>>
      /\ netlist_versions' = EmptyStacks /\ pending' = NoPush /\ progress' = NoProgress
      /\ pc' = "down" /\ anchor' = 0 /\ steps' = 0 /\ epoch' = epoch + 1
  BY DEF Crash, CrashInAppend, CDepth
<1>2. history' \in Seq(Line) /\ Len(history') >= Len(history) /\ Len(history) \in Nat
  <2>1. history' = history \/ history' = Append(history, Event("torn"))
    BY DEF Crash, CrashInAppend
  <2>2. Append(history, Event("torn")) \in Seq(Line)
        /\ Len(Append(history, Event("torn"))) = Len(history) + 1
    BY EventIsLine DEF TypeOK
  <2>3. history \in Seq(Line) /\ Len(history) \in Nat
    BY DEF TypeOK
  <2> QED
    BY <2>1, <2>2, <2>3
<1>3. netlist_versions' = [tb \in Testbench |-> Ramp(0)] /\ Depth' = 0
  BY <1>1, CanonicalIn DEF EmptyStacks, Ramp, Depth
<1>4. TypeOK'
  <2>1. netlist_versions' \in Stacks /\ progress' \in Progress
    BY <1>1 DEF EmptyStacks, Stacks, NoProgress, Progress, NoEntry
  <2> QED
    BY <1>1, <1>2, <2>1 DEF TypeOK, Places, Checkpoints
<1>5. StackInv' /\ PendingInv' /\ EntryInv'
  BY <1>1, <1>3 DEF StackInv, PendingInv, EntryInv, WholeIn, Begun, Loop, NoProgress, NoEntry
<1>6. CheckpointInv' /\ FloorInv'
  BY <1>1 DEF CheckpointInv, FloorInv, WholeIn, Optimizing
<1> QED
  BY <1>4, <1>5, <1>6

(* A resume puts the checkpointed stacks back.                             *)
LEMMA ResumeStep == IInv /\ Resume => IInv'
<1> SUFFICES ASSUME IInv, Resume PROVE IInv'
  OBVIOUS
<1> USE DEF IInv
<1>1. /\ UNCHANGED <<files, checkpoint, pending, epoch, CDepth>>
      /\ netlist_versions' = checkpoint.versions /\ progress' = checkpoint.progress
      /\ anchor' = CDepth /\ steps' = MaxOptimizeSteps /\ pc = "down"
      /\ checkpoint \in Checkpoints /\ checkpoint # NoCheckpoint
  BY DEF Resume, Accepted, CDepth, TypeOK
<1>2. /\ netlist_versions' = [tb \in Testbench |-> Ramp(CDepth)]
      /\ CDepth \in Nat /\ CDepth >= 1 /\ Depth' = CDepth
  <2>1. netlist_versions' = [tb \in Testbench |-> Ramp(CDepth)] /\ CDepth \in Nat /\ CDepth >= 1
    BY <1>1 DEF CheckpointInv
  <2>2. netlist_versions'[Canonical] = Ramp(CDepth)
    BY <2>1, CanonicalIn
  <2>3. Len(Ramp(CDepth)) = CDepth
    BY <2>1, RampFacts
  <2>4. Depth' = CDepth
    BY <2>2, <2>3 DEF Depth
  <2> QED
    BY <2>1, <2>4
<1>3. /\ pc' \in {"head", "enter", "area", "verdict"}
      /\ pc' = "head" => checkpoint.boundary = "outer_iteration"
  BY <1>1 DEF Resume, ResumePoint, AfterOrchestration, Checkpoints, Boundaries
<1>4. checkpoint.boundary = "outer_iteration" => pc' = "head"
  BY DEF Resume, ResumePoint
<1>5. TypeOK'
  <2>1. history' \in Seq(Line) /\ Len(history') = Len(history) + 1 /\ Len(history) \in Nat
    <3>1. ResumeEvent \in Line
      BY <1>1 DEF ResumeEvent, Line, Checkpoints, TypeOK
    <3> QED
      BY <3>1 DEF Resume, TypeOK
  <2>2. netlist_versions' \in Stacks /\ progress' \in Progress
    BY <1>1 DEF Checkpoints
  <2> QED
    BY <1>1, <1>2, <1>3, <2>1, <2>2, BoundAssumption DEF TypeOK, Places, Checkpoints
<1>6. StackInv'
  <2>1. WholeIn((0 .. Depth - 1) \X Testbench)'
    BY <1>1, <1>2 DEF CheckpointInv, WholeIn
  <2> QED
    BY <2>1, <1>2, <1>3 DEF StackInv
<1>7. PendingInv'
  BY <1>1 DEF PendingInv
<1>8. EntryInv'
  BY <1>1, <1>2, <1>3, <1>4 DEF EntryInv, CheckpointInv, Loop
<1>9. CheckpointInv' /\ FloorInv'
  BY <1>1, <1>2, <1>3 DEF CheckpointInv, FloorInv, WholeIn
<1> QED
  BY <1>5, <1>6, <1>7, <1>8, <1>9

LEMMA StutterStep == IInv /\ UNCHANGED vars => IInv'
BY DEF IInv, vars, TypeOK, StackInv, PendingInv, EntryInv, CheckpointInv, FloorInv, WholeIn,
       Optimizing, Depth, CDepth

LEMMA NextCases == Next => \/ Truncate \/ Fill \/ Commit \/ Logging \/ Moving \/ Calling
                           \/ Popping \/ Saving \/ Crash \/ CrashInAppend \/ Resume
                           \/ StartFresh
BY DEF Next, Run, Orchestrating, Tuning, Optimization, Logging, Moving, Calling, Popping, Saving

LEMMA Inductive ==
  ASSUME ~ FreshRunsInSameDir
  PROVE  IInv /\ [Next]_vars => IInv'
<1> SUFFICES ASSUME IInv, [Next]_vars PROVE IInv'
  OBVIOUS
<1>1. ~ StartFresh
  BY DEF StartFresh
<1> QED
  BY <1>1, NextCases, WritingStep, CommitStep, LoggingStep, MovingStep, CallingStep,
     PoppingStep, SavingStep, CrashStep, ResumeStep, StutterStep

LEMMA Always ==
  ASSUME ~ FreshRunsInSameDir
  PROVE  Spec => []IInv
<1>1. IInv /\ [Next]_vars => IInv'
  BY Inductive
<1> QED
  BY <1>1, InitInv, PTL DEF Spec

-----------------------------------------------------------------------------
(* Every value the run directory's state ever takes has its type: in       *)
(* particular every recorded version number is a number a stack can hold.  *)
THEOREM TypeCorrect ==
  ASSUME ~ FreshRunsInSameDir
  PROVE  Spec => []TypeOK
<1>1. IInv => TypeOK
  BY DEF IInv
<1> QED
  BY <1>1, Always, PTL

(* For any list of testbenches and any history of rollbacks, failed        *)
(* writes, crashes and resumes, a push writes files no stack still names.  *)
THEOREM StacksInLockstep ==
  ASSUME ~ FreshRunsInSameDir
  PROVE  Spec => []Lockstep
<1>1. IInv => Lockstep
  BY DEF IInv, StackInv, Lockstep
<1> QED
  BY <1>1, Always, PTL

(* What the checkpoint names, versions and entry deck, is a set of files   *)
(* below the checkpointed depth.                                           *)
LEMMA NamedBelow ==
  ASSUME IInv, checkpoint # NoCheckpoint
  PROVE  Named(checkpoint) \subseteq (0 .. CDepth - 1) \X Testbench
<1> SUFFICES ASSUME NEW f \in Named(checkpoint)
             PROVE  f \in (0 .. CDepth - 1) \X Testbench
  OBVIOUS
<1>1. /\ CDepth \in Nat /\ checkpoint.versions = [tb \in Testbench |-> Ramp(CDepth)]
      /\ checkpoint.progress.entry < CDepth
      /\ checkpoint.progress.entry \in Nat \cup {NoEntry}
  BY DEF IInv, CheckpointInv, TypeOK, Checkpoints, Progress
<1>2. PICK tb \in Testbench :
        f \in {<<v, tb>> : v \in {checkpoint.versions[tb][i] : i \in DOMAIN checkpoint.versions[tb]}
                                 \cup ({checkpoint.progress.entry} \ {NoEntry})}
  BY DEF Named
<1>3. PICK v \in {checkpoint.versions[tb][i] : i \in DOMAIN checkpoint.versions[tb]}
                 \cup ({checkpoint.progress.entry} \ {NoEntry}) : f = <<v, tb>>
  BY <1>2
<1>4. v \in 0 .. CDepth - 1
  <2>1. CASE v \in {checkpoint.progress.entry} \ {NoEntry}
    BY <2>1, <1>1
  <2>2. CASE v \in {checkpoint.versions[tb][i] : i \in DOMAIN checkpoint.versions[tb]}
    BY <2>2, <1>1 DEF Ramp
  <2> QED
    BY <1>3, <2>1, <2>2
<1> QED
  BY <1>3, <1>4

(* No stack entry and nothing a resume would load is missing or torn.      *)
THEOREM NothingTornIsNamed ==
  ASSUME ~ FreshRunsInSameDir
  PROVE  Spec => []NamedFilesWhole
<1>1. IInv => NamedFilesWhole
  <2> SUFFICES ASSUME IInv PROVE NamedFilesWhole
    OBVIOUS
  <2>1. StackedFilesWhole
    BY DEF IInv, StackInv, StackedFilesWhole
  <2>2. CheckpointedFilesWhole
    BY NamedBelow DEF IInv, CheckpointInv, CheckpointedFilesWhole, WholeIn
  <2> QED
    BY <2>1, <2>2 DEF NamedFilesWhole
<1> QED
  BY <1>1, Always, PTL

(* Only a push in progress writes a file.                                  *)
LEMMA OnlyPushesWrite == [Next]_vars /\ ~ (Truncate \/ Fill) => UNCHANGED files
BY NextCases DEF Commit, Logging, LogEvent, EntrySweep, EntrySweepFails,
   LogAttempt, Finish, Reenter, Moving, LoopExhausted, LoopHeadFails, IterationRejectsAll,
   ReviewKeeps, ProposeFails, OptimizerEnds, IterationReturns, ReviewReturns,
   NextIteration, EndPhase, Calling, EnterOrchestration, Propose, Optimize, Push,
   Popping, ReviewRollsBack, OptimizerRollsBack, OptimizerFails, Saving, LoopHead,
   SaveResult, SaveAttempt, Save, Crash, CrashInAppend, Resume, StartFresh, disk, vars

(* Between two checkpoints no step of the process, no crash and no resume  *)
(* changes a file the checkpoint names: writes go above its depth.         *)
THEOREM CheckpointOutlivesWrites ==
  ASSUME ~ FreshRunsInSameDir
  PROVE  Spec => CheckpointedDecksUntouched
<1>1. IInv /\ [Next]_vars =>
        [checkpoint # NoCheckpoint /\ checkpoint' = checkpoint
           => Undisturbed(Named(checkpoint))]_vars
  <2> SUFFICES ASSUME IInv, Next, checkpoint # NoCheckpoint
               PROVE  Undisturbed(Named(checkpoint))
    BY DEF vars
  <2>1. ASSUME NEW f \in Named(checkpoint)
        PROVE  f \in DOMAIN files /\ f \in (0 .. CDepth - 1) \X Testbench
    BY <2>1, NamedBelow DEF IInv, CheckpointInv, WholeIn
  <2>2. CASE Truncate \/ Fill
    <3>1. pending # NoPush
      BY <2>2 DEF Truncate, Fill, Writing
    <3>2. PendingFile = <<Depth, PendingName>> /\ Depth \in Nat /\ CDepth \in Nat /\ CDepth <= Depth
      BY <3>1 DEF PendingFile, IInv, PendingInv, StackInv, FloorInv, CheckpointInv
    <3>3. \A f \in DOMAIN files : f # PendingFile => f \in DOMAIN files' /\ files'[f] = files[f]
      BY <2>2 DEF Truncate, Fill, Write
    <3>4. \A f \in (0 .. CDepth - 1) \X Testbench : f # PendingFile
      BY <3>2
    <3> QED
      BY <2>1, <3>3, <3>4 DEF Undisturbed
  <2>3. CASE ~ (Truncate \/ Fill)
    <3>1. files' = files
      BY <2>3, OnlyPushesWrite
    <3> QED
      BY <2>1, <3>1 DEF Undisturbed
  <2> QED
    BY <2>2, <2>3
<1>2. Spec => []IInv
  BY Always
<1> QED
  BY <1>1, <1>2, PTL DEF Spec, CheckpointedDecksUntouched

-----------------------------------------------------------------------------
(* The log, in any directory: used by one run or by several, with whole or *)
(* torn lines.  A range ends at its own resume line and starts at the      *)
(* checkpoint's line count, so that ranges since the last save start alike *)
(* and end above all earlier ones, and a saved line is never discarded.    *)
(* A fragment takes the next event with it, so that what the log must hold *)
(* is only known of a log that still reads.                                *)

LogTypeOK ==
  /\ history \in Seq(Line)
  /\ epoch \in Nat
  /\ checkpoint # NoCheckpoint => checkpoint.history_lines \in 0 .. Len(history)

RangesInv ==
  \A j \in DOMAIN history : history[j].step = "resume" =>
    /\ history[j].to = j - 1 /\ history[j].from \in 0 .. j - 1
    /\ checkpoint # NoCheckpoint
    /\ j > checkpoint.history_lines => history[j].from = checkpoint.history_lines

IsSweep(log, i) == i \in Kept(log) /\ log[i].step = "pvt_baseline_sweep"

SweepInv ==
  /\ checkpoint # NoCheckpoint =>
       \E i \in 1 .. checkpoint.history_lines : IsSweep(history, i)
  /\ pc \notin {"start", "down", "done"} => \E i \in DOMAIN history : IsSweep(history, i)

LogInv ==
  LogTypeOK /\ RangesInv /\ DiscardedRangesNest /\ (Readable(history) => SweepInv)

(* What a step does to the log and the checkpoint.                         *)
Out == {"start", "down", "done"}
Silent == UNCHANGED <<history, checkpoint>> /\ (pc' \notin Out => pc \notin Out)
Logged ==
  /\ UNCHANGED checkpoint
  /\ \E step \in {"event", "pvt_baseline_sweep", "torn"} :
       /\ history' = Append(history, Event(step))
       /\ pc' \notin Out => pc \notin Out \/ step = "pvt_baseline_sweep"
Glued ==
  /\ UNCHANGED checkpoint
  /\ Unterminated /\ (UNCHANGED history \/ \E line : history' = AppendLine(line))
Counted ==
  /\ UNCHANGED history
  /\ pc \notin Out
  /\ checkpoint'.history_lines = Len(history) /\ checkpoint' # NoCheckpoint

LEMMA LogSteps ==
  ASSUME [Next]_vars
  PROVE  Silent \/ Logged \/ Glued \/ Counted \/ Resume
<1> USE DEF Out
<1>1. CASE Truncate \/ Fill \/ Commit
  BY <1>1 DEF Silent, Truncate, Fill, Commit, disk
<1>2. CASE Logging
  <2>1. CASE Unterminated
    BY <1>2, <2>1 DEF Glued, Logging, LogEvent, EntrySweep, EntrySweepFails, LogAttempt, Finish,
       Reenter
  <2>2. CASE ~ Unterminated
    BY <1>2, <2>2 DEF Logged, AppendLine, Logging, LogEvent, EntrySweep, EntrySweepFails,
       LogAttempt, Finish, Reenter, Up, At
  <2> QED
    BY <2>1, <2>2
<1>3. CASE Moving
  BY <1>3 DEF Silent, Moving, LoopExhausted, LoopHeadFails, IterationRejectsAll, ReviewKeeps,
     ProposeFails, OptimizerEnds, IterationReturns, ReviewReturns, Return, NextIteration,
     EndPhase, At, disk, Optimizing
<1>4. CASE Calling
  BY <1>4 DEF Silent, Calling, EnterOrchestration, Propose, Optimize, Push, disk
<1>5. CASE Popping
  BY <1>5 DEF Silent, Popping, ReviewRollsBack, OptimizerRollsBack, OptimizerFails,
     NextIteration, EndPhase, At, disk, Optimizing
<1>6. CASE Saving
  <2>1. /\ UNCHANGED history /\ pc \notin Out
        /\ checkpoint'.history_lines = Len(history)
        /\ checkpoint'.boundary \in {"outer_iteration", "optimization", "attempt"}
    BY <1>6 DEF Saving, LoopHead, SaveResult, SaveAttempt, Save, At
  <2>2. NoCheckpoint.boundary = "none"
    BY DEF NoCheckpoint
  <2> QED
    BY <2>1, <2>2 DEF Counted
<1>7. CASE Crash \/ StartFresh
  BY <1>7 DEF Silent, Crash, StartFresh, disk
<1>8. CASE CrashInAppend
  BY <1>8 DEF Logged, Glued, CrashInAppend
<1>9. CASE UNCHANGED vars
  BY <1>9 DEF Silent, vars
<1> QED
  BY <1>1, <1>2, <1>3, <1>4, <1>5, <1>6, <1>7, <1>8, <1>9, NextCases

(* Only a logging step, a resume and a torn write touch the log.           *)
LEMMA OthersLogNothing ==
  ASSUME [Next]_vars, ~ Logging, ~ Resume, ~ CrashInAppend
  PROVE  UNCHANGED history
BY NextCases DEF Truncate, Fill, Commit, Moving, LoopExhausted, LoopHeadFails,
   IterationRejectsAll, ReviewKeeps, ProposeFails, OptimizerEnds, IterationReturns,
   ReviewReturns, NextIteration, EndPhase, Calling, EnterOrchestration, Propose,
   Optimize, Push, Popping, ReviewRollsBack, OptimizerRollsBack, OptimizerFails, Saving,
   LoopHead, SaveResult, SaveAttempt, Save, disk, Crash, StartFresh, vars

LEMMA EpochGrows == epoch \in Nat /\ [Next]_vars => epoch' \in Nat
<1> SUFFICES ASSUME epoch \in Nat, [Next]_vars PROVE epoch' = epoch \/ epoch' = epoch + 1
  OBVIOUS
<1>1. CASE Truncate \/ Fill \/ Commit \/ UNCHANGED vars \/ Crash \/ CrashInAppend \/ Resume
           \/ StartFresh
  BY <1>1 DEF Truncate, Fill, Commit, vars, Crash, CrashInAppend, Resume, StartFresh
<1>2. CASE Logging \/ Moving
  BY <1>2 DEF Logging, LogEvent, EntrySweep, EntrySweepFails, LogAttempt, Finish, Reenter,
     Moving, LoopExhausted, LoopHeadFails, IterationRejectsAll, ReviewKeeps, ProposeFails,
     OptimizerEnds, IterationReturns, ReviewReturns, Return, NextIteration, EndPhase
<1>3. CASE Calling \/ Popping \/ Saving
  BY <1>3 DEF Calling, EnterOrchestration, Propose, Optimize, Push, Popping, ReviewRollsBack,
     OptimizerRollsBack, OptimizerFails, NextIteration, EndPhase, Saving, LoopHead, SaveResult,
     SaveAttempt, Save
<1> QED
  BY <1>1, <1>2, <1>3, NextCases

(* A log that reads has read all along, and its last line is whole.        *)
LEMMA ReadableBefore ==
  ASSUME history \in Seq(Line)
  PROVE  /\ Readable(history) => ~ Unterminated
         /\ \A line : Readable(Append(history, line)) => Readable(history)
         /\ \A line \in Line : /\ Readable(history) /\ line.step \notin {"torn", "glued"}
                               => Readable(Append(history, line))
BY DEF Readable, Unterminated

(* A line added to the log discards nothing below where its range starts.  *)
LEMMA StaysKept ==
  ASSUME history \in Seq(Line), NEW line \in Line, NEW i \in DOMAIN history,
         IsSweep(history, i), line.step = "resume" => i <= line.from
  PROVE  IsSweep(Append(history, line), i)
<1> DEFINE after == Append(history, line)
<1>1. /\ Len(history) \in Nat /\ DOMAIN history = 1 .. Len(history)
      /\ Len(after) = Len(history) + 1 /\ DOMAIN after = 1 .. Len(after)
      /\ after[Len(history) + 1] = line
      /\ \A k \in DOMAIN history : after[k] = history[k]
  OBVIOUS
<1> HIDE DEF after
<1>2. ASSUME NEW j \in DOMAIN after, after[j].step = "resume", after[j].from < i,
             i <= after[j].to
      PROVE  FALSE
  <2>1. CASE j = Len(history) + 1
    <3>1. i <= line.from /\ line.from < i /\ line.from \in Nat /\ i \in Nat
      BY <1>1, <1>2, <2>1 DEF Line
    <3> QED
      BY <3>1
  <2>2. CASE j # Len(history) + 1
    <3>1. j \in DOMAIN history /\ after[j] = history[j]
      BY <1>1, <2>2
    <3> QED
      BY <1>2, <3>1 DEF IsSweep, Kept, Discarded
  <2> QED
    BY <2>1, <2>2
<1>3. i \in DOMAIN after /\ after[i] = history[i]
  BY <1>1
<1>4. ~ Discarded(after, i)
  BY <1>2 DEF Discarded
<1>5. IsSweep(after, i)
  BY <1>3, <1>4 DEF IsSweep, Kept
<1> QED
  BY <1>5 DEF after

LEMMA LogInductive == LogInv /\ [Next]_vars => LogInv'
<1> SUFFICES ASSUME LogInv, [Next]_vars PROVE LogInv'
  OBVIOUS
<1> USE DEF LogInv
<1>1. /\ history \in Seq(Line) /\ Len(history) \in Nat /\ epoch \in Nat /\ epoch' \in Nat
      /\ DOMAIN history = 1 .. Len(history)
      /\ checkpoint # NoCheckpoint => checkpoint.history_lines \in 0 .. Len(history)
  BY EpochGrows DEF LogTypeOK
<1>2. CASE Silent
  BY <1>1, <1>2 DEF Silent, LogTypeOK, RangesInv, DiscardedRangesNest, SweepInv, Out
<1>3. CASE Counted
  <2>1. LogTypeOK' /\ RangesInv' /\ DiscardedRangesNest'
    <3>1. checkpoint' # NoCheckpoint => checkpoint'.history_lines \in 0 .. Len(history')
      BY <1>1, <1>3 DEF Counted
    <3> QED
      BY <1>1, <1>3, <3>1 DEF Counted, LogTypeOK, RangesInv, DiscardedRangesNest
  <2>2. Readable(history') => SweepInv'
    BY <1>1, <1>3 DEF Counted, SweepInv, Out
  <2> QED
    BY <2>1, <2>2
<1>4. ASSUME NEW line \in Line, history' = Append(history, line), UNCHANGED checkpoint
      PROVE  /\ LogTypeOK' /\ Len(history') = Len(history) + 1
             /\ DOMAIN history' = 1 .. Len(history) + 1
             /\ history'[Len(history) + 1] = line
             /\ \A i \in DOMAIN history : history'[i] = history[i]
  BY <1>1, <1>4 DEF LogTypeOK
<1>5. CASE Logged
  <2>1. PICK step \in {"event", "pvt_baseline_sweep", "torn"} :
          /\ history' = Append(history, Event(step))
          /\ pc' \notin Out => pc \notin Out \/ step = "pvt_baseline_sweep"
    BY <1>5 DEF Logged
  <2> DEFINE line == Event(step)
  <2>2. line \in Line /\ line.step = step /\ step # "resume" /\ UNCHANGED checkpoint
    BY <1>1, <1>5 DEF Event, Line, Logged
  <2> HIDE DEF line
  <2>3. /\ LogTypeOK' /\ Len(history') = Len(history) + 1
        /\ DOMAIN history' = 1 .. Len(history) + 1
        /\ history'[Len(history) + 1] = line
        /\ \A i \in DOMAIN history : history'[i] = history[i]
    BY <1>4, <2>1, <2>2 DEF line
  <2>4. ASSUME NEW j \in DOMAIN history', history'[j].step = "resume"
        PROVE  j \in DOMAIN history /\ history'[j] = history[j]
    BY <1>1, <2>2, <2>3, <2>4
  <2>5. RangesInv' /\ DiscardedRangesNest'
    BY <1>1, <2>2, <2>4 DEF RangesInv, DiscardedRangesNest
  <2>6. \A i \in DOMAIN history : IsSweep(history, i) => i \in DOMAIN history' /\ IsSweep(history', i)
    BY <1>1, <2>1, <2>2, <2>3, StaysKept DEF line
  <2>7. step = "pvt_baseline_sweep" => IsSweep(history', Len(history) + 1)
    <3> SUFFICES ASSUME step = "pvt_baseline_sweep", Discarded(history', Len(history) + 1)
                 PROVE  FALSE
      BY <2>2, <2>3 DEF IsSweep, Kept
    <3>1. PICK j \in DOMAIN history' :
            history'[j].step = "resume" /\ Len(history) + 1 <= history'[j].to
      BY DEF Discarded
    <3> QED
      BY <1>1, <2>4, <3>1 DEF RangesInv
  <2>8. Readable(history') => SweepInv'
    <3> SUFFICES ASSUME Readable(history') PROVE SweepInv'
      OBVIOUS
    <3>1. SweepInv
      BY <1>1, <2>1, ReadableBefore
    <3> QED
      BY <1>1, <2>1, <2>2, <2>3, <2>6, <2>7, <3>1 DEF SweepInv, Out
  <2> QED
    BY <2>3, <2>5, <2>8
<1>6. CASE Glued
  <2>1. CASE UNCHANGED history
    BY <1>1, <1>6, <2>1, ReadableBefore DEF Glued, LogTypeOK, RangesInv, DiscardedRangesNest
  <2>2. CASE ~ UNCHANGED history
    <3>1. PICK line : history' = AppendLine(line)
      BY <1>6, <2>2 DEF Glued
    <3>2. Unterminated /\ UNCHANGED checkpoint
      BY <1>6 DEF Glued
    <3>3. /\ history' \in Seq(Line) /\ Len(history') = Len(history)
          /\ Len(history) \in DOMAIN history' /\ DOMAIN history' = DOMAIN history
          /\ history'[Len(history)].step = "glued"
          /\ \A i \in DOMAIN history : i # Len(history) => history'[i] = history[i]
      BY <1>1, <3>1, <3>2, GluedIsLine
    <3>4. LogTypeOK' /\ ~ Readable(history')
      BY <1>1, <3>2, <3>3 DEF LogTypeOK, Readable
    <3>5. RangesInv' /\ DiscardedRangesNest'
      <4>1. ASSUME NEW j \in DOMAIN history', history'[j].step = "resume"
            PROVE  j \in DOMAIN history /\ history'[j] = history[j]
        BY <3>3, <4>1
      <4> QED
        BY <1>1, <3>2, <4>1 DEF RangesInv, DiscardedRangesNest
    <3> QED
      BY <3>4, <3>5
  <2> QED
    BY <2>1, <2>2
<1>7. CASE Resume
  <2> DEFINE line == ResumeEvent
  <2>1. /\ checkpoint # NoCheckpoint /\ history' = Append(history, line)
        /\ UNCHANGED checkpoint
    BY <1>7 DEF Resume, Accepted
  <2>2. /\ line \in Line /\ line.step = "resume" /\ line.to = Len(history)
        /\ line.from = checkpoint.history_lines /\ line.from \in 0 .. Len(history)
    BY <1>1, <2>1 DEF ResumeEvent, Line
  <2> HIDE DEF line
  <2>3. /\ LogTypeOK' /\ Len(history') = Len(history) + 1
        /\ DOMAIN history' = 1 .. Len(history) + 1
        /\ history'[Len(history) + 1] = line
        /\ \A i \in DOMAIN history : history'[i] = history[i]
    BY <1>4, <2>1, <2>2
  <2>4. RangesInv'
    BY <1>1, <2>1, <2>2, <2>3 DEF RangesInv
  <2>5. DiscardedRangesNest'
    <3> SUFFICES ASSUME NEW i \in DOMAIN history', NEW j \in DOMAIN history', i < j,
                        history'[i].step = "resume", history'[j].step = "resume"
                 PROVE  \/ history'[i].to <= history'[j].from
                        \/ /\ history'[j].from <= history'[i].from
                           /\ history'[i].to <= history'[j].to
      BY DEF DiscardedRangesNest
    <3>1. i \in DOMAIN history /\ history'[i] = history[i]
      BY <1>1, <2>3
    <3>2. CASE j \in DOMAIN history
      BY <2>3, <3>1, <3>2 DEF DiscardedRangesNest
    <3>3. CASE j \notin DOMAIN history
      <4>1. history'[j] = line
        BY <1>1, <2>3, <3>3
      <4>2. /\ history[i].to = i - 1
            /\ i > checkpoint.history_lines => history[i].from = checkpoint.history_lines
        BY <3>1 DEF RangesInv
      <4> QED
        BY <1>1, <2>1, <2>2, <3>1, <4>1, <4>2
    <3> QED
      BY <3>2, <3>3
  <2>6. SweepInv'
    <3>1. PICK i \in 1 .. checkpoint.history_lines : IsSweep(history, i)
      BY <1>7, <2>1 DEF SweepInv, Resume
    <3>2. i \in DOMAIN history /\ i <= line.from
      BY <1>1, <2>1, <2>2, <3>1
    <3>3. IsSweep(history', i) /\ i \in DOMAIN history'
      BY <1>1, <2>1, <2>2, <2>3, <3>1, <3>2, StaysKept
    <3> QED
      BY <2>1, <3>1, <3>3 DEF SweepInv
  <2> QED
    BY <2>3, <2>4, <2>5, <2>6
<1> QED
  BY <1>2, <1>3, <1>5, <1>6, <1>7, LogSteps

(* For every reader that gets through the log: a resume of a resume        *)
(* declares a range that covers the earlier one or lies above it, and      *)
(* never one that holds the entry sweep the next resume reuses, also in a  *)
(* directory that several runs used.  A log with a fragment in it is read  *)
(* by nobody (OnlyTornLinesStopAResume).                                   *)
THEOREM LogStaysReadable == Spec => []LogReadsBack
<1>1. Init => LogInv
  BY DEF Init, LogInv, LogTypeOK, RangesInv, DiscardedRangesNest, SweepInv
<1>2. LogInv => LogReadsBack
  BY DEF LogInv, SweepInv, LogReadsBack, EntrySweepStaysReadable, IsSweep
<1> QED
  BY <1>1, <1>2, LogInductive, PTL DEF Spec

-----------------------------------------------------------------------------
(* How far the process is from its checkpoint: the places of an iteration  *)
(* are at the checkpointed iteration, the places after it at that one or   *)
(* the next, and everything from the first optimization phase on at the    *)
(* saved result of the attempt.                                            *)
CostInv ==
  /\ pc \in {"start", "enter", "save_attempt"} => progress.outer_iter = 0
  /\ checkpoint # NoCheckpoint =>
       LET cp == checkpoint.progress IN
       /\ checkpoint.boundary = "attempt" => cp.outer_iter = 0
       /\ pc \in Looping =>
            checkpoint.boundary # "optimization" /\ progress.attempt = cp.attempt
       /\ pc \in {"enter", "iter", "review"} => progress.outer_iter = cp.outer_iter
       /\ pc \in {"head", "returned", "save_result"} =>
            progress.outer_iter \in {cp.outer_iter, cp.outer_iter + 1}
       /\ pc \in AfterResult => checkpoint.boundary = "optimization"
       /\ pc \in {"area", "objective", "verdict"} => progress = cp
       /\ pc = "save_attempt" => progress.attempt = cp.attempt + 1

LEMMA CostStep ==
  ASSUME ~ FreshRunsInSameDir
  PROVE  IInv /\ CostInv /\ [Next]_vars => CostInv'
<1> SUFFICES ASSUME IInv, CostInv, [Next]_vars PROVE CostInv'
  OBVIOUS
<1> USE DEF Up, Looping, AfterResult
<1>1. /\ progress \in Progress /\ progress.outer_iter \in Nat /\ pc \in Places
      /\ checkpoint # NoCheckpoint => checkpoint \in Checkpoints /\ pc # "start"
  BY DEF IInv, TypeOK, Progress, FloorInv
<1>2. CASE Truncate \/ Fill \/ UNCHANGED vars
  BY <1>2 DEF CostInv, Truncate, Fill, vars
<1>3. CASE Commit
  <2>1. /\ UNCHANGED checkpoint
        /\ pc = "enter" => pc' = "head" /\ progress'.outer_iter = 1
                           /\ progress'.attempt = progress.attempt
        /\ pc = "iter" => pc' = "review" /\ UNCHANGED progress
        /\ pc \notin {"enter", "iter"} => UNCHANGED <<pc, progress>>
    BY <1>1, <1>3 DEF Commit, disk, Progress
  <2> QED
    BY <1>1, <2>1 DEF CostInv, Checkpoints, Progress, Places
<1>4. CASE Logging
  <2>1. CASE LogEvent \/ EntrySweep \/ EntrySweepFails \/ LogAttempt \/ Finish
    BY <1>1, <2>1 DEF CostInv, LogEvent, EntrySweep, EntrySweepFails, LogAttempt, Finish, At
  <2>2. CASE Reenter
    <3>1. /\ pc = "verdict" /\ pc' = "save_attempt" /\ UNCHANGED checkpoint
          /\ progress' = [NoProgress EXCEPT !.attempt = progress.attempt + 1]
      BY <2>2 DEF Reenter, At
    <3>2. progress'.outer_iter = 0 /\ progress'.attempt = progress.attempt + 1
      BY <3>1 DEF NoProgress
    <3> QED
      BY <1>1, <3>1, <3>2 DEF CostInv
  <2> QED
    BY <1>4, <2>1, <2>2 DEF Logging
<1>5. CASE Moving
  <2>1. CASE IterationRejectsAll \/ ReviewKeeps
    <3>1. /\ pc \in {"iter", "review"} /\ pc' = "head" /\ UNCHANGED checkpoint
          /\ progress'.outer_iter = progress.outer_iter + 1
          /\ progress'.attempt = progress.attempt
      BY <1>1, <2>1 DEF IterationRejectsAll, ReviewKeeps, NextIteration, At, disk, Progress
    <3> QED
      BY <1>1, <3>1 DEF CostInv
  <2>2. CASE OptimizerEnds
    BY <2>2 DEF CostInv, OptimizerEnds, EndPhase, Optimizing, disk
  <2>3. CASE ~ (IterationRejectsAll \/ ReviewKeeps \/ OptimizerEnds)
    <3>1. /\ pc \in {"head", "iter", "review"} /\ pc' = "returned" /\ UNCHANGED checkpoint
          /\ progress'.outer_iter = progress.outer_iter /\ progress'.attempt = progress.attempt
      BY <1>1, <1>5, <2>3 DEF Moving, LoopExhausted, LoopHeadFails, IterationReturns,
         ReviewReturns, ProposeFails, Return, At, disk, Progress
    <3> QED
      BY <1>1, <3>1 DEF CostInv
  <2> QED
    BY <2>1, <2>2, <2>3
<1>6. CASE Calling
  BY <1>6 DEF CostInv, Calling, EnterOrchestration, Propose, Optimize, Push, disk
<1>7. CASE Popping
  <2>1. CASE ReviewRollsBack
    <3>1. /\ pc = "review" /\ pc' = "head" /\ UNCHANGED checkpoint
          /\ progress'.outer_iter = progress.outer_iter + 1
          /\ progress'.attempt = progress.attempt
      BY <1>1, <2>1 DEF ReviewRollsBack, NextIteration, At, disk, Progress
    <3> QED
      BY <1>1, <3>1 DEF CostInv
  <2>2. CASE OptimizerRollsBack \/ OptimizerFails
    BY <2>2 DEF CostInv, OptimizerRollsBack, OptimizerFails, EndPhase, Optimizing, disk
  <2> QED
    BY <1>7, <2>1, <2>2 DEF Popping
<1>8. CASE Saving
  <2>1. /\ checkpoint'.progress = progress /\ UNCHANGED progress
        /\ \/ pc = "head" /\ pc' = "iter" /\ checkpoint'.boundary = "outer_iteration"
           \/ /\ pc = "save_result" /\ pc' \in {"area", "verdict"}
              /\ checkpoint'.boundary = "optimization"
           \/ pc = "save_attempt" /\ pc' = "enter" /\ checkpoint'.boundary = "attempt"
    BY <1>8 DEF Saving, LoopHead, SaveResult, SaveAttempt, Save, At, AfterOrchestration
  <2> QED
    BY <1>1, <2>1 DEF CostInv
<1>9. CASE Crash \/ CrashInAppend
  BY <1>9 DEF CostInv, Crash, CrashInAppend, disk
<1>10. CASE Resume
  <2>1. /\ checkpoint # NoCheckpoint /\ progress' = checkpoint.progress /\ UNCHANGED checkpoint
        /\ checkpoint.boundary \in Boundaries
        /\ pc' = ResumePoint(checkpoint)
    BY <1>1, <1>10 DEF Resume, Accepted, Checkpoints
  <2>2. /\ checkpoint.boundary = "outer_iteration" => pc' = "head"
        /\ checkpoint.boundary = "attempt" => pc' = "enter"
        /\ checkpoint.boundary = "optimization" => pc' \in {"area", "verdict"}
    BY <2>1 DEF ResumePoint, AfterOrchestration
  <2> QED
    BY <2>1, <2>2 DEF CostInv, Boundaries
<1> QED
  BY <1>2, <1>3, <1>4, <1>5, <1>6, <1>7, <1>8, <1>9, <1>10, NextCases DEF StartFresh

(* Killed anywhere, a run repeats at most the outer iteration it is in,    *)
(* or, once an attempt's result is saved, both optimization phases and the *)
(* verdict of that attempt, never the orchestration (checkpoint.py:11-21). *)
THEOREM LittleIsLost ==
  ASSUME ~ FreshRunsInSameDir
  PROVE  Spec => []CrashCostsOneStage
<1>1. Init => CostInv
  BY DEF Init, CostInv, NoProgress
<1>2. IInv /\ CostInv => CrashCostsOneStage
  BY DEF IInv, TypeOK, Checkpoints, Progress, Places, FloorInv, CostInv, Up, Looping,
     AfterResult, CrashCostsOneStage
<1>3. IInv /\ CostInv /\ [Next]_vars => CostInv'
  BY CostStep
<1> QED
  BY <1>1, <1>2, <1>3, Always, PTL DEF Spec

-----------------------------------------------------------------------------
(* Wherever a run is killed, its checkpoint is accepted and its log parses,*)
(* if a line reaches the log whole: a torn line is the only way a run can  *)
(* become one that cannot be resumed (checkpoint.py:457-459, 591-602).     *)
THEOREM OnlyTornLinesStopAResume ==
  ASSUME ~ FreshRunsInSameDir, AtomicAppend
  PROVE  Spec => []KillAnywhereIsResumable
<1> DEFINE Unbroken == Readable(history)
<1>1. Init => Unbroken
  BY DEF Init, Readable
<1>2. LogInv /\ Unbroken /\ [Next]_vars => Unbroken'
  <2> SUFFICES ASSUME LogInv, Readable(history), [Next]_vars PROVE Readable(history')
    OBVIOUS
  <2>1. history \in Seq(Line) /\ epoch \in Nat /\ ~ Unterminated
    BY ReadableBefore DEF LogInv, LogTypeOK
  <2>2. ASSUME NEW line \in Line, line.step \notin {"torn", "glued"},
               history' = Append(history, line)
        PROVE  Readable(history')
    BY <2>1, <2>2, ReadableBefore
  <2>3. CASE Logging
    <3>1. PICK step \in {"event", "pvt_baseline_sweep"} : history' = Append(history, Event(step))
      BY <2>1, <2>3 DEF AppendLine, Logging, LogEvent, EntrySweep, EntrySweepFails, LogAttempt,
         Finish, Reenter
    <3>2. Event(step) \in Line /\ Event(step).step = step
      BY <2>1, EventIsLine
    <3> QED
      BY <2>2, <3>1, <3>2
  <2>4. CASE Resume
    <3>1. /\ history' = Append(history, ResumeEvent) /\ ResumeEvent.step = "resume"
          /\ ResumeEvent \in Line
      BY <2>4 DEF Resume, Accepted, ResumeEvent, Line, LogInv, LogTypeOK
    <3> QED
      BY <2>2, <3>1
  <2>5. CASE ~ Logging /\ ~ Resume
    <3>1. UNCHANGED history
      BY <2>5, OthersLogNothing DEF CrashInAppend
    <3> QED
      BY <3>1
  <2> QED
    BY <2>3, <2>4, <2>5
<1>3. IInv /\ Unbroken => KillAnywhereIsResumable
  BY NamedBelow DEF KillAnywhereIsResumable, Accepted, IInv, CheckpointInv, WholeIn
<1>4. Spec => []LogInv
  <2>1. Init => LogInv
    BY DEF Init, LogInv, LogTypeOK, RangesInv, DiscardedRangesNest, SweepInv
  <2> QED
    BY <2>1, LogInductive, PTL DEF Spec
<1> HIDE DEF Unbroken
<1> QED
  BY <1>1, <1>2, <1>3, <1>4, Always, PTL DEF Spec

-----------------------------------------------------------------------------
(* The refinement of DurableRun.  Every version on a stack is one text in  *)
(* all its files, and the counters that make up a place are bounded.       *)

Version(v) == [tb \in Testbench |-> files[<<v, tb>>]]
Uniformly(n) == \A v \in 0 .. n - 1 : Version(v) \in Whole

UniformInv ==
  /\ Uniformly(Depth)
  /\ checkpoint # NoCheckpoint => Uniformly(CDepth)
  /\ pending # NoPush =>
       /\ pending.texts \in Whole
       /\ \A i \in 1 .. pending.next - 1 :
            files[<<Depth, testbench_names[i]>>] = pending.texts[testbench_names[i]]

Bounded(p) == p.attempt <= RetryBudget /\ p.outer_iter <= MaxOuterIterations + 1
BoundInv ==
  /\ epoch <= MaxCrashes
  /\ Bounded(progress)
  /\ pc \in {"iter", "review"} => progress.outer_iter <= MaxOuterIterations
  /\ checkpoint # NoCheckpoint => Bounded(checkpoint.progress)

LEMMA BoundStep ==
  ASSUME ~ FreshRunsInSameDir
  PROVE  IInv /\ CostInv /\ BoundInv /\ [Next]_vars => BoundInv'
<1> SUFFICES ASSUME IInv, CostInv, BoundInv, [Next]_vars PROVE BoundInv'
  OBVIOUS
<1> USE DEF Bounded
<1>1. /\ progress \in Progress /\ progress.outer_iter \in Nat /\ progress.attempt \in Nat
      /\ epoch \in Nat /\ MaxCrashes \in Nat /\ MaxOuterIterations \in Nat \ {0}
      /\ RetryBudget \in Nat
  BY BoundAssumption DEF IInv, TypeOK, Progress
<1>2. CASE Truncate \/ Fill \/ UNCHANGED vars
  BY <1>2 DEF BoundInv, Truncate, Fill, vars
<1>3. CASE Commit
  <2>1. /\ UNCHANGED <<checkpoint, epoch>>
        /\ pc = "enter" => pc' = "head" /\ progress'.outer_iter = 1
                           /\ progress'.attempt = progress.attempt
        /\ pc = "iter" => pc' = "review" /\ UNCHANGED progress
        /\ pc \notin {"enter", "iter"} => UNCHANGED <<pc, progress>>
    BY <1>1, <1>3 DEF Commit, disk, Progress
  <2> QED
    BY <1>1, <2>1 DEF BoundInv
<1>4. CASE Logging
  <2>1. CASE LogEvent \/ EntrySweep \/ EntrySweepFails \/ LogAttempt \/ Finish
    BY <1>1, <2>1 DEF BoundInv, LogEvent, EntrySweep, EntrySweepFails, LogAttempt, Finish, At
  <2>2. CASE Reenter
    <3>1. /\ pc' = "save_attempt" /\ UNCHANGED <<checkpoint, epoch>>
          /\ progress' = [NoProgress EXCEPT !.attempt = progress.attempt + 1]
          /\ progress.attempt < RetryBudget
      BY <2>2 DEF Reenter, At
    <3>2. progress'.outer_iter = 0 /\ progress'.attempt = progress.attempt + 1
      BY <3>1 DEF NoProgress
    <3> QED
      BY <1>1, <3>1, <3>2 DEF BoundInv
  <2> QED
    BY <1>4, <2>1, <2>2 DEF Logging
<1>5. CASE Moving
  <2>1. CASE IterationRejectsAll \/ ReviewKeeps
    <3>1. /\ pc \in {"iter", "review"} /\ pc' = "head" /\ UNCHANGED <<checkpoint, epoch>>
          /\ progress'.outer_iter = progress.outer_iter + 1
          /\ progress'.attempt = progress.attempt
      BY <1>1, <2>1 DEF IterationRejectsAll, ReviewKeeps, NextIteration, At, disk, Progress
    <3> QED
      BY <1>1, <3>1 DEF BoundInv
  <2>2. CASE OptimizerEnds
    BY <2>2 DEF BoundInv, OptimizerEnds, EndPhase, Optimizing, disk
  <2>3. CASE ~ (IterationRejectsAll \/ ReviewKeeps \/ OptimizerEnds)
    <3>1. /\ pc' = "returned" /\ UNCHANGED <<checkpoint, epoch>>
          /\ progress'.outer_iter = progress.outer_iter /\ progress'.attempt = progress.attempt
      BY <1>1, <1>5, <2>3 DEF Moving, LoopExhausted, LoopHeadFails, IterationReturns,
         ReviewReturns, ProposeFails, Return, At, disk, Progress
    <3> QED
      BY <1>1, <3>1 DEF BoundInv
  <2> QED
    BY <2>1, <2>2, <2>3
<1>6. CASE Calling
  BY <1>6 DEF BoundInv, Calling, EnterOrchestration, Propose, Optimize, Push, disk
<1>7. CASE Popping
  <2>1. CASE ReviewRollsBack
    <3>1. /\ pc = "review" /\ pc' = "head" /\ UNCHANGED <<checkpoint, epoch>>
          /\ progress'.outer_iter = progress.outer_iter + 1
          /\ progress'.attempt = progress.attempt
      BY <1>1, <2>1 DEF ReviewRollsBack, NextIteration, At, disk, Progress
    <3> QED
      BY <1>1, <3>1 DEF BoundInv
  <2>2. CASE OptimizerRollsBack \/ OptimizerFails
    BY <2>2 DEF BoundInv, OptimizerRollsBack, OptimizerFails, EndPhase, Optimizing, disk
  <2> QED
    BY <1>7, <2>1, <2>2 DEF Popping
<1>8. CASE Saving
  <2>1. /\ checkpoint'.progress = progress /\ UNCHANGED <<progress, epoch>>
        /\ pc' \in {"iter", "review"} => progress.outer_iter <= MaxOuterIterations
    BY <1>8 DEF Saving, LoopHead, SaveResult, SaveAttempt, Save, At, AfterOrchestration
  <2> QED
    BY <1>1, <2>1 DEF BoundInv
<1>9. CASE Crash \/ CrashInAppend
  <2>1. /\ epoch' = epoch + 1 /\ epoch < MaxCrashes /\ UNCHANGED checkpoint
        /\ pc' = "down" /\ progress' = NoProgress
    BY <1>9 DEF Crash, CrashInAppend, LoseMemory, disk
  <2> QED
    BY <1>1, <2>1 DEF BoundInv, NoProgress
<1>10. CASE Resume
  <2>1. /\ checkpoint # NoCheckpoint /\ progress' = checkpoint.progress
        /\ UNCHANGED <<checkpoint, epoch>> /\ pc' \in {"head", "enter", "area", "verdict"}
    BY <1>10 DEF Resume, Accepted, ResumePoint, AfterOrchestration, IInv, TypeOK, Checkpoints,
       Boundaries
  <2> QED
    BY <2>1 DEF BoundInv
<1> QED
  BY <1>2, <1>3, <1>4, <1>5, <1>6, <1>7, <1>8, <1>9, <1>10, NextCases DEF StartFresh

(* A version that no push is writing keeps its texts.                      *)
LEMMA VersionsStay ==
  ASSUME IInv, [Next]_vars, NEW n \in Nat, n <= Depth, WholeIn((0 .. n - 1) \X Testbench)
  PROVE  \A v \in 0 .. n - 1 : Version(v)' = Version(v)
<1>1. CASE Truncate \/ Fill
  <2>1. pending # NoPush
    BY <1>1 DEF Truncate, Fill, Writing
  <2>2. PendingFile = <<Depth, PendingName>> /\ Depth \in Nat
    BY <2>1 DEF PendingFile, IInv, PendingInv, StackInv
  <2>3. \A f \in DOMAIN files : f # PendingFile => f \in DOMAIN files' /\ files'[f] = files[f]
    BY <1>1 DEF Truncate, Fill, Write
  <2>4. \A f \in (0 .. n - 1) \X Testbench : f \in DOMAIN files /\ f # PendingFile
    BY <2>2 DEF WholeIn
  <2>5. \A v \in 0 .. n - 1, tb \in Testbench : files'[<<v, tb>>] = files[<<v, tb>>]
    BY <2>3, <2>4
  <2> QED
    BY <2>5 DEF Version
<1>2. CASE ~ (Truncate \/ Fill)
  BY <1>2, OnlyPushesWrite DEF Version
<1> QED
  BY <1>1, <1>2

(* The checkpointed stack is never longer than a stack being pushed on.    *)
LEMMA SavedVersionsStay ==
  ASSUME IInv, [Next]_vars, checkpoint # NoCheckpoint
  PROVE  \A v \in 0 .. CDepth - 1 : Version(v)' = Version(v)
<1>1. CDepth \in Nat /\ WholeIn((0 .. CDepth - 1) \X Testbench)
  BY DEF IInv, CheckpointInv
<1>2. CASE Truncate \/ Fill
  <2>1. CDepth <= Depth
    BY <1>2 DEF Truncate, Fill, Writing, IInv, PendingInv, FloorInv
  <2> QED
    BY <1>1, <2>1, VersionsStay
<1>3. CASE ~ (Truncate \/ Fill)
  BY <1>3, OnlyPushesWrite DEF Version
<1> QED
  BY <1>2, <1>3

(* How the depth moves: a commit adds one, a pop keeps what the checkpoint *)
(* and the entry version need.                                             *)
LEMMA CommitDepth == IInv /\ Commit => Depth' = Depth + 1
<1> SUFFICES ASSUME IInv, Commit PROVE Depth' = Depth + 1
  OBVIOUS
<1>1. pending.version = Depth /\ Depth \in Nat /\ netlist_versions[Canonical] = Ramp(Depth)
  BY CanonicalIn DEF Commit, IInv, PendingInv, StackInv
<1>2. netlist_versions'[Canonical] = Append(netlist_versions[Canonical], Depth)
  BY <1>1, CanonicalIn DEF Commit
<1> QED
  BY <1>1, <1>2, RampFacts DEF Depth

LEMMA PoppedTo ==
  IInv /\ Popping => /\ Depth' \in 0 .. Depth
                     /\ netlist_versions' = [tb \in Testbench |-> Ramp(Depth')]
<1> SUFFICES ASSUME IInv, Popping PROVE /\ Depth' \in 0 .. Depth
                     /\ netlist_versions' = [tb \in Testbench |-> Ramp(Depth')]
  OBVIOUS
<1>1. PICK k \in 0 .. Depth : netlist_versions' = PopTo(netlist_versions, k)
  <2>1. Depth \in Nat /\ (ReviewRollsBack => Depth - 1 \in 0 .. Depth)
    BY CanonicalIn DEF IInv, StackInv, ReviewRollsBack, Depth
  <2>2. OptimizerFails => anchor \in 0 .. Depth
    BY <2>1 DEF IInv, FloorInv, OptimizerFails
  <2> QED
    BY <2>1, <2>2 DEF Popping, ReviewRollsBack, OptimizerRollsBack, OptimizerFails, IInv,
       FloorInv
<1>2. Depth \in Nat /\ netlist_versions = [tb \in Testbench |-> Ramp(Depth)]
  BY DEF IInv, StackInv
<1>3. netlist_versions' = [tb \in Testbench |-> Ramp(k)]
  BY <1>1, <1>2, RampFacts DEF PopTo
<1>4. Depth' = k
  BY <1>3, CanonicalIn, RampFacts DEF Depth
<1> QED
  BY <1>1, <1>3, <1>4

LEMMA UniformStep ==
  ASSUME ~ FreshRunsInSameDir
  PROVE  IInv /\ UniformInv /\ [Next]_vars => UniformInv'
<1> SUFFICES ASSUME IInv, UniformInv, [Next]_vars PROVE UniformInv'
  OBVIOUS
<1>1. Depth \in Nat /\ WholeIn((0 .. Depth - 1) \X Testbench)
  BY DEF IInv, StackInv
<1>2. \A v \in 0 .. Depth - 1 : Version(v)' = Version(v) /\ Version(v) \in Whole
  BY <1>1, VersionsStay DEF UniformInv, Uniformly
<1>3. checkpoint # NoCheckpoint =>
        \A v \in 0 .. CDepth - 1 : Version(v)' = Version(v) /\ Version(v) \in Whole
  BY SavedVersionsStay DEF UniformInv, Uniformly
<1>4. UNCHANGED checkpoint => (checkpoint # NoCheckpoint => Uniformly(CDepth))'
  BY <1>3 DEF Uniformly, CDepth, Whole, Uniform
<1>5. Depth' \in Nat /\ Depth' <= Depth => Uniformly(Depth)'
  <2>1. Whole' = Whole
    BY DEF Whole, Uniform
  <2> SUFFICES ASSUME Depth' \in Nat, Depth' <= Depth PROVE Uniformly(Depth)'
    OBVIOUS
  <2> SUFFICES ASSUME NEW v \in 0 .. Depth' - 1 PROVE Version(v)' \in Whole'
    BY DEF Uniformly
  <2>2. \A n, k \in Nat : k <= n => 0 .. k - 1 \subseteq 0 .. n - 1
    OBVIOUS
  <2>3. v \in 0 .. Depth - 1
    BY <1>1, <2>2
  <2> QED
    BY <1>2, <2>1, <2>3
<1>6. CASE Truncate \/ Fill
  <2>1. /\ pending # NoPush /\ pending \in Pushes /\ pending.next \in 1 .. Len(testbench_names)
        /\ PendingFile = <<Depth, PendingName>>
        /\ UNCHANGED <<checkpoint, netlist_versions, Depth>>
    BY <1>6 DEF Truncate, Fill, Writing, PendingFile, IInv, TypeOK, PendingInv, Pushes, Depth
  <2>2. pending'.texts = pending.texts /\ pending' # NoPush
    BY <1>6, <2>1 DEF Truncate, Fill, Pushes, NoPush
  <2>3. ASSUME NEW i \in 1 .. pending'.next - 1
        PROVE  files'[<<Depth, testbench_names[i]>>] = pending.texts[testbench_names[i]]
    <3>1. CASE i = pending.next
      <4>1. Fill
        BY <1>6, <2>1, <2>3, <3>1 DEF Truncate, Pushes
      <4> QED
        BY <2>1, <3>1, <4>1 DEF Fill, Write, PendingName
    <3>2. CASE i # pending.next
      <4>1. i \in 1 .. pending.next - 1 /\ i \in DOMAIN testbench_names
        <5>1. pending'.next \in {pending.next, pending.next + 1}
          BY <1>6, <2>1 DEF Truncate, Fill, Pushes
        <5> QED
          BY <2>1, <2>3, <3>2, <5>1, CanonicalIn, TestbenchAssumption
      <4>2. /\ <<Depth, testbench_names[i]>> \in DOMAIN files
            /\ files[<<Depth, testbench_names[i]>>] = pending.texts[testbench_names[i]]
        BY <2>1, <4>1 DEF IInv, PendingInv, UniformInv
      <4>3. testbench_names[i] # PendingName
        BY <2>1, <3>2, <4>1, TestbenchAssumption, CanonicalIn DEF PendingName
      <4>4. files' = Write(PendingFile, files'[PendingFile])
        BY <1>6 DEF Truncate, Fill, Write
      <4> QED
        BY <2>1, <4>2, <4>3, <4>4 DEF Write
    <3> QED
      BY <3>1, <3>2
  <2> QED
    BY <1>1, <1>4, <1>5, <2>1, <2>2, <2>3 DEF UniformInv
<1>7. CASE Commit
  <2>1. /\ pending # NoPush /\ pending \in Pushes /\ pending' = NoPush
        /\ UNCHANGED <<files, checkpoint>>
    BY <1>7 DEF Commit, disk, IInv, TypeOK
  <2>2. \A i \in DOMAIN testbench_names : i \in 1 .. pending.next - 1
    BY <1>7, <2>1, CanonicalIn, TestbenchAssumption DEF Commit, Writing, Pushes
  <2>3. \A tb \in Testbench : files[<<Depth, tb>>] = pending.texts[tb]
    BY <2>1, <2>2 DEF UniformInv, Testbench
  <2>4. pending.texts = [tb \in Testbench |-> pending.texts[tb]] /\ pending.texts \in Whole
    BY <2>1 DEF Pushes, UniformInv
  <2>5. Version(Depth) \in Whole
    BY <2>3, <2>4 DEF Version
  <2>6. Depth' = Depth + 1
    BY <1>7, CommitDepth
  <2>7. Uniformly(Depth)'
    <3> SUFFICES ASSUME NEW v \in 0 .. Depth PROVE Version(v)' \in Whole'
      BY <1>1, <2>6 DEF Uniformly
    <3>1. Version(v)' = Version(v) /\ Whole' = Whole
      BY <2>1 DEF Version, Whole, Uniform
    <3>2. Version(v) \in Whole
      BY <1>1, <1>2, <2>5
    <3> QED
      BY <3>1, <3>2
  <2> QED
    BY <1>4, <2>1, <2>7 DEF UniformInv
<1>8. CASE Calling
  <2>1. /\ UNCHANGED <<files, checkpoint, netlist_versions, Depth>>
        /\ \E texts \in Whole : pending' = [texts |-> texts, version |-> Depth, next |-> 1,
                                            stage |-> "truncate"]
    <3>1. CASE \E d \in Deck : Propose(d) \/ Optimize(d)
      BY <3>1 DEF Propose, Optimize, Push, Whole, Depth, disk
    <3>2. CASE EnterOrchestration /\ progress.attempt = 0
      BY <3>2, DeckAssumption DEF EnterOrchestration, Push, Whole, Depth, disk
    <3>3. CASE EnterOrchestration /\ progress.attempt # 0
      <4>1. Depth >= 1 /\ \A tb \in Testbench : Top(tb) = Depth - 1
        BY <1>1, <3>3, RampFacts DEF EnterOrchestration, At, IInv, StackInv, Top, Ramp
      <4>2. CurrentTexts = Version(Depth - 1)
        BY <4>1 DEF CurrentTexts, Version
      <4>3. CurrentTexts \in Whole
        BY <1>1, <1>2, <4>1, <4>2
      <4> QED
        BY <3>3, <4>3 DEF EnterOrchestration, Push, Depth, disk
    <3> QED
      BY <1>8, <3>1, <3>2, <3>3 DEF Calling
  <2>2. pending'.texts \in Whole /\ 1 .. pending'.next - 1 = {}
    BY <2>1
  <2> QED
    BY <1>1, <1>4, <1>5, <2>1, <2>2 DEF UniformInv, Whole, Uniform
<1>9. CASE Saving
  <2>1. /\ checkpoint'.versions = netlist_versions
        /\ UNCHANGED <<files, netlist_versions, pending, Depth>> /\ pending = NoPush
    BY <1>9 DEF Saving, LoopHead, SaveResult, SaveAttempt, Save, At, Idle, stack, Depth
  <2>2. CDepth' = Depth
    BY <2>1 DEF CDepth, Depth
  <2> QED
    BY <1>1, <1>5, <2>1, <2>2 DEF UniformInv
<1>10. CASE Resume
  <2>1. /\ checkpoint # NoCheckpoint /\ netlist_versions' = checkpoint.versions
        /\ UNCHANGED <<files, checkpoint, pending>> /\ pending = NoPush
    BY <1>10 DEF Resume, Accepted, IInv, PendingInv
  <2>2. Depth' = CDepth
    BY <2>1 DEF Depth, CDepth
  <2> QED
    BY <1>3, <1>4, <2>1, <2>2 DEF UniformInv, Uniformly, Version, Whole, Uniform
<1>11. CASE Crash \/ CrashInAppend
  <2>1. UNCHANGED checkpoint /\ pending' = NoPush /\ Depth' = 0
    BY <1>11, CanonicalIn DEF Crash, CrashInAppend, LoseMemory, EmptyStacks, Depth, disk
  <2> QED
    BY <1>1, <1>4, <1>5, <2>1 DEF UniformInv
<1>12. CASE Popping
  <2>1. UNCHANGED checkpoint /\ pending' = NoPush
    BY <1>12 DEF Popping, ReviewRollsBack, OptimizerRollsBack, OptimizerFails, NextIteration,
       EndPhase, disk, At, Idle
  <2>2. Depth' \in Nat /\ Depth' <= Depth
    BY <1>12, PoppedTo
  <2> QED
    BY <1>4, <1>5, <2>1, <2>2 DEF UniformInv
<1>13. CASE Logging \/ UNCHANGED vars
  <2>1. UNCHANGED <<files, checkpoint, netlist_versions, pending, Depth>>
    BY <1>13 DEF Logging, LogEvent, EntrySweep, EntrySweepFails, LogAttempt, Finish, Reenter,
       stack, vars, Depth
  <2> QED
    BY <1>1, <1>4, <1>5, <2>1 DEF UniformInv, Whole, Uniform
<1>14. CASE Moving
  <2>1. UNCHANGED <<checkpoint, netlist_versions, Depth>> /\ pending' = NoPush
    BY <1>14 DEF Moving, LoopExhausted, LoopHeadFails, IterationRejectsAll, ReviewKeeps,
       ProposeFails, OptimizerEnds, IterationReturns, ReviewReturns, Return, NextIteration,
       EndPhase, stack, disk, Depth, At, Idle
  <2> QED
    BY <1>1, <1>4, <1>5, <2>1 DEF UniformInv
<1> QED
  BY <1>6, <1>7, <1>8, <1>9, <1>10, <1>11, <1>12, <1>13, <1>14, NextCases DEF StartFresh

(* What the mapping shows of a ramp of versions.                           *)
Versions(n) == [i \in 1 .. n |-> Version(i - 1)]

LEMMA RampDecks ==
  ASSUME NEW n \in Nat
  PROVE  DecksOf([tb \in Testbench |-> Ramp(n)]) = Versions(n)
<1>1. DOMAIN Ramp(n) = 1 .. n /\ \A i \in 1 .. n : Ramp(n)[i] = i - 1
  BY DEF Ramp
<1> QED
  BY <1>1, CanonicalIn DEF DecksOf, Versions, Version

LiveShape ==
  pc # "down" => /\ Live.decks = Versions(Depth) /\ Live.log = ReadEvents(Len(history))
                 /\ Live.place = PlaceOf(progress) /\ Live # Gone

LEMMA LiveIs == IInv => LiveShape
<1> SUFFICES ASSUME IInv, pc # "down"
             PROVE  /\ Live.decks = Versions(Depth) /\ Live.log = ReadEvents(Len(history))
                    /\ Live.place = PlaceOf(progress) /\ Live # Gone
  BY DEF LiveShape
<1>1. DecksOf(netlist_versions) = Versions(Depth)
  BY RampDecks DEF IInv, StackInv
<1>2. Live = [decks |-> Versions(Depth), log |-> ReadEvents(Len(history)),
              place |-> PlaceOf(progress)]
  BY <1>1 DEF Live, RunOf
<1> QED
  BY <1>2 DEF Gone

LEMMA SavedIs ==
  ASSUME IInv, checkpoint # NoCheckpoint
  PROVE  /\ Saved = [decks |-> Versions(CDepth), log |-> ReadEvents(checkpoint.history_lines),
                     place |-> PlaceOf(checkpoint.progress)]
         /\ Saved # Gone
<1>1. DecksOf(checkpoint.versions) = Versions(CDepth)
  BY RampDecks DEF IInv, CheckpointInv
<1>2. Saved = [decks |-> Versions(CDepth), log |-> ReadEvents(checkpoint.history_lines),
               place |-> PlaceOf(checkpoint.progress)]
  BY <1>1 DEF Saved, RunOf
<1> QED
  BY <1>2 DEF Gone

LEMMA PlaceIsOne ==
  ASSUME IInv, UniformInv, BoundInv
  PROVE  PlaceOf(progress) \in RunPlaces
<1>1. /\ progress \in Progress /\ progress.entry < Depth /\ Depth \in Nat
      /\ progress.attempt \in 0 .. RetryBudget
      /\ progress.outer_iter \in 0 .. MaxOuterIterations + 1
  BY BoundAssumption DEF IInv, TypeOK, EntryInv, StackInv, BoundInv, Bounded, Progress
<1>2. PlaceOf(progress).entry \in {{}} \cup {{w} : w \in Whole}
  <2>1. CASE progress.entry = NoEntry
    BY <2>1 DEF PlaceOf
  <2>2. CASE progress.entry # NoEntry
    <3>1. progress.entry \in 0 .. Depth - 1
      BY <1>1, <2>2 DEF Progress
    <3>2. Version(progress.entry) \in Whole
      BY <3>1 DEF UniformInv, Uniformly
    <3>3. PlaceOf(progress).entry = {Version(progress.entry)}
      BY <2>2 DEF PlaceOf, Version
    <3> QED
      BY <3>2, <3>3
  <2> QED
    BY <2>1, <2>2
<1>3. PlaceOf(progress) = [attempt |-> progress.attempt, outer_iter |-> progress.outer_iter,
                           status |-> progress.status, entry |-> PlaceOf(progress).entry]
  BY DEF PlaceOf
<1> QED
  BY <1>1, <1>2, <1>3 DEF RunPlaces, Progress

(* What is read of the first k lines stays what it is, if the new line     *)
(* discards nothing below k.                                               *)
LEMMA ReadStays ==
  ASSUME history \in Seq(Line), NEW k \in 0 .. Len(history),
         \/ UNCHANGED history
         \/ \E line \in Line : /\ history' = Append(history, line)
                               /\ line.step = "resume" => line.from >= k
  PROVE  ReadEvents(k)' = ReadEvents(k)
<1>1. CASE UNCHANGED history
  BY <1>1 DEF ReadEvents, Kept, Discarded
<1>2. CASE ~ UNCHANGED history
  <2>1. PICK line \in Line : /\ history' = Append(history, line)
                             /\ line.step = "resume" => line.from >= k
    BY <1>2
  <2>2. /\ Len(history) \in Nat /\ DOMAIN history = 1 .. Len(history)
        /\ DOMAIN history' = 1 .. Len(history) + 1 /\ history'[Len(history) + 1] = line
        /\ \A i \in DOMAIN history : history'[i] = history[i]
    BY <2>1
  <2>3. ASSUME NEW i \in 1 .. k PROVE Discarded(history, i)' <=> Discarded(history, i)
    <3>1. ASSUME Discarded(history, i) PROVE Discarded(history, i)'
      BY <2>2, <3>1 DEF Discarded
    <3>2. ASSUME Discarded(history, i)' PROVE Discarded(history, i)
      <4>1. PICK j \in DOMAIN history' : /\ history'[j].step = "resume"
                                         /\ history'[j].from < i /\ i <= history'[j].to
        BY <3>2 DEF Discarded
      <4>2. j # Len(history) + 1
        <5> SUFFICES ASSUME j = Len(history) + 1 PROVE FALSE
          OBVIOUS
        <5>1. line.from >= k /\ line.from < i /\ line.from \in Nat /\ i \in 1 .. k
          BY <2>1, <2>2, <4>1 DEF Line
        <5> QED
          BY <5>1
      <4>3. j \in DOMAIN history /\ history'[j] = history[j]
        BY <2>2, <4>1, <4>2
      <4> QED
        BY <4>1, <4>3 DEF Discarded
    <3> QED
      BY <3>1, <3>2
  <2>4. (Kept(history) \cap 1 .. k)' = Kept(history) \cap 1 .. k
    <3>1. 1 .. k \subseteq DOMAIN history /\ 1 .. k \subseteq DOMAIN history'
      BY <2>2
    <3> QED
      BY <2>3, <3>1 DEF Kept
  <2>5. \A i \in Kept(history) \cap 1 .. k : history'[i] = history[i]
    BY <2>2 DEF Kept
  <2> QED
    BY <2>4, <2>5 DEF ReadEvents
<1> QED
  BY <1>1, <1>2

(* A fragment is the last thing a process leaves: a process that resumes   *)
(* has read the whole log, so every line it writes is a line of its own.   *)
TailInv == Unterminated => pc = "down"

LEMMA OwnLines ==
  ASSUME LogInv, TailInv, Logging
  PROVE  \E step \in {"event", "pvt_baseline_sweep"} : history' = Append(history, Event(step))
<1>1. ~ Unterminated
  BY DEF TailInv, Logging, LogEvent, EntrySweep, EntrySweepFails, LogAttempt, Finish, Reenter,
     Up, At
<1> QED
  BY <1>1 DEF AppendLine, Logging, LogEvent, EntrySweep, EntrySweepFails, LogAttempt, Finish,
     Reenter

LEMMA TailStep ==
  ASSUME ~ FreshRunsInSameDir
  PROVE  LogInv /\ TailInv /\ [Next]_vars => TailInv'
<1> SUFFICES ASSUME LogInv, TailInv, [Next]_vars PROVE TailInv'
  OBVIOUS
<1>1. history \in Seq(Line) /\ epoch \in Nat
  BY DEF LogInv, LogTypeOK
<1>2. ASSUME NEW line \in Line, line.step # "torn", history' = Append(history, line)
      PROVE  TailInv'
  BY <1>1, <1>2 DEF TailInv, Unterminated
<1>3. CASE Logging
  BY <1>1, <1>2, <1>3, OwnLines, EventIsLine
<1>4. CASE Resume
  <2>1. ResumeEvent \in Line /\ ResumeEvent.step = "resume" /\ history' = Append(history, ResumeEvent)
    BY <1>1, <1>4 DEF Resume, Accepted, ResumeEvent, Line, LogInv, LogTypeOK
  <2> QED
    BY <1>2, <2>1
<1>5. CASE Crash \/ CrashInAppend
  BY <1>5 DEF TailInv, Crash, CrashInAppend
<1>6. CASE UNCHANGED vars
  BY <1>6 DEF TailInv, Unterminated, vars
<1>7. CASE Truncate \/ Fill \/ Commit \/ Moving \/ Calling \/ Popping \/ Saving
  <2>1. ~ Logging /\ ~ Resume /\ ~ CrashInAppend => UNCHANGED history
    BY OthersLogNothing
  <2>2. pc = "down" => pc' = "down"
    BY <1>7 DEF Truncate, Fill, Commit, Moving, LoopExhausted, LoopHeadFails,
       IterationRejectsAll, ReviewKeeps, ProposeFails, OptimizerEnds, IterationReturns,
       ReviewReturns, NextIteration, EndPhase, Calling, EnterOrchestration, Propose,
       Optimize, Push, Popping, ReviewRollsBack, OptimizerRollsBack, OptimizerFails, Saving,
       LoopHead, SaveResult, SaveAttempt, Save, At, Optimizing
  <2> QED
    BY <1>3, <1>4, <1>5, <2>1, <2>2 DEF TailInv, Unterminated
<1> QED
  BY <1>3, <1>4, <1>5, <1>6, <1>7, NextCases DEF StartFresh

LEMMA GluedStays ==
  ASSUME LogInv, TailInv, [Next]_vars, Glued
  PROVE  UNCHANGED history
<1>1. pc = "down" /\ ~ Readable(history)
  BY ReadableBefore DEF TailInv, Glued, LogInv, LogTypeOK
<1>2. ~ Logging /\ ~ CrashInAppend
  BY <1>1 DEF Logging, LogEvent, EntrySweep, EntrySweepFails, LogAttempt, Finish, Reenter, Up,
     At, CrashInAppend
<1>3. ~ Resume
  BY <1>1 DEF Resume
<1> QED
  BY <1>2, <1>3, OthersLogNothing

(* Between two saves nothing a reader is shown of the checkpoint changes.  *)
LEMMA SavedStays ==
  ASSUME IInv, LogInv, TailInv, [Next]_vars, UNCHANGED checkpoint
  PROVE  UNCHANGED Saved
<1>1. CASE checkpoint = NoCheckpoint
  BY <1>1 DEF Saved
<1>2. CASE checkpoint # NoCheckpoint
  <2>1. PICK k : k = checkpoint.history_lines
    OBVIOUS
  <2>2. /\ history \in Seq(Line) /\ k \in 0 .. Len(history)
        /\ epoch \in Nat /\ CDepth \in Nat
    BY <1>2, <2>1 DEF LogInv, LogTypeOK, IInv, CheckpointInv
  <2>3. \/ UNCHANGED history
        \/ \E line \in Line : /\ history' = Append(history, line)
                              /\ line.step = "resume" => line.from >= k
    <3>1. ASSUME NEW step \in {"event", "pvt_baseline_sweep", "torn"}
          PROVE  Event(step) \in Line /\ Event(step).step # "resume"
      BY <2>2 DEF Event, Line
    <3>2. ResumeEvent \in Line /\ ResumeEvent.from >= k
      BY <2>1, <2>2 DEF ResumeEvent, Line
    <3> QED
      BY <3>1, <3>2, LogSteps, GluedStays DEF Silent, Logged, Counted, Resume
  <2>4. ReadEvents(k)' = ReadEvents(k)
    BY <2>2, <2>3, ReadStays
  <2>5. \A v \in 0 .. CDepth - 1 : Version(v)' = Version(v)
    BY <1>2, SavedVersionsStay
  <2>6. DecksOf(checkpoint.versions)' = DecksOf(checkpoint.versions)
    <3>1. PICK n : n = CDepth
      OBVIOUS
    <3>2. checkpoint.versions = [tb \in Testbench |-> Ramp(n)] /\ n \in Nat
      BY <1>2, <2>2, <3>1 DEF IInv, CheckpointInv
    <3>3. DecksOf(checkpoint.versions) = Versions(n)
      BY <3>2, RampDecks
    <3>4. DecksOf(checkpoint.versions)' = [i \in 1 .. n |-> Version(i - 1)']
      <4>1. DOMAIN Ramp(n) = 1 .. n /\ \A i \in 1 .. n : Ramp(n)[i] = i - 1
        BY <3>2 DEF Ramp
      <4> QED
        BY <3>2, <4>1, CanonicalIn DEF DecksOf, Version
    <3>5. \A i \in 1 .. n : Version(i - 1)' = Version(i - 1)
      BY <2>5, <3>1, <3>2
    <3> QED
      BY <3>3, <3>4, <3>5 DEF Versions
  <2>7. PlaceOf(checkpoint.progress)' = PlaceOf(checkpoint.progress)
    <3>1. PICK p : p = checkpoint.progress
      OBVIOUS
    <3>2. p.entry \in (0 .. CDepth - 1) \cup {NoEntry}
      BY <1>2, <2>2, <3>1 DEF IInv, CheckpointInv, TypeOK, Checkpoints, Progress
    <3>3. \A v \in {p.entry} \ {NoEntry} : Version(v)' = Version(v)
      BY <2>5, <3>2
    <3>4. PlaceOf(p)' = PlaceOf(p)
      BY <3>3 DEF PlaceOf, Version
    <3> QED
      BY <3>1, <3>4
  <2>8. ReadEvents(checkpoint.history_lines)' = ReadEvents(checkpoint.history_lines)
    BY <2>1, <2>4
  <2> QED
    BY <2>6, <2>7, <2>8 DEF Saved, RunOf
<1> QED
  BY <1>1, <1>2

RInv == IInv /\ CostInv /\ LogInv /\ TailInv /\ UniformInv /\ BoundInv

LEMMA RInductive ==
  ASSUME ~ FreshRunsInSameDir
  PROVE  RInv /\ [Next]_vars => RInv'
BY Inductive, CostStep, LogInductive, TailStep, UniformStep, BoundStep DEF RInv

PlaceOK == PlaceOf(progress) \in RunPlaces

LEMMA Shapes == RInv => LiveShape /\ PlaceOK
BY LiveIs, PlaceIsOne DEF RInv, PlaceOK

LEMMA NextShapes == RInv' => LiveShape' /\ PlaceOK'
BY Shapes, PTL

(* A step of the process: stack and log each stay, grow by one or, the     *)
(* stack, shrink.                                                          *)
LEMMA WorkStep ==
  ASSUME RInv, RInv', [Next]_vars, pc # "down", pc' # "down", UNCHANGED checkpoint,
         \/ ReadEvents(Len(history))' = ReadEvents(Len(history))
         \/ Durable!Longer(ReadEvents(Len(history)), ReadEvents(Len(history))',
                           [step : {"event", "pvt_baseline_sweep"}, run : Epochs]),
         \/ Versions(Depth)' = Versions(Depth)
         \/ Durable!Longer(Versions(Depth), Versions(Depth)', Whole)
         \/ Durable!Shorter(Versions(Depth), Versions(Depth)')
  PROVE  Durable!Work
<1>1. UNCHANGED Saved
  BY SavedStays DEF RInv
<1>2. /\ Live.decks = Versions(Depth) /\ Live.log = ReadEvents(Len(history)) /\ Live # Gone
  BY Shapes DEF LiveShape
<1>3. /\ Live'.decks = Versions(Depth)' /\ Live'.log = ReadEvents(Len(history))'
      /\ Live'.place = PlaceOf(progress)' /\ Live' # Gone
  BY NextShapes DEF LiveShape, Gone
<1>4. PlaceOf(progress)' \in RunPlaces
  BY NextShapes DEF PlaceOK, RunPlaces, Whole, Uniform
<1> QED
  BY <1>1, <1>2, <1>3, <1>4 DEF Durable!Work, Durable!Worked

(* The stack is what it was as far as it reaches.                          *)
LEMMA StackStays ==
  ASSUME IInv, [Next]_vars
  PROVE  /\ Depth \in Nat
         /\ \A i \in 1 .. Depth : Version(i - 1)' = Version(i - 1)
         /\ Depth' = Depth => Versions(Depth)' = Versions(Depth)
<1>1. Depth \in Nat /\ WholeIn((0 .. Depth - 1) \X Testbench)
  BY DEF IInv, StackInv
<1>2. \A i \in 1 .. Depth : Version(i - 1)' = Version(i - 1)
  BY <1>1, VersionsStay
<1>3. ASSUME Depth' = Depth PROVE Versions(Depth)' = Versions(Depth)
  <2>1. PICK n : n = Depth
    OBVIOUS
  <2>2. Versions(n)' = Versions(n)
    BY <1>2, <2>1 DEF Versions
  <2> QED
    BY <1>3, <2>1, <2>2
<1> QED
  BY <1>1, <1>2, <1>3

(* A new line is read, after the lines that were read of the first k: all  *)
(* of them, or, when it declares a range from k, those it leaves.          *)
LEMMA NewLineIsRead ==
  ASSUME LogInv, RangesInv', NEW line \in Line, history' = Append(history, line),
         NEW k \in 0 .. Len(history),
         line.step = "resume" => line.from = k /\ line.to = Len(history),
         line.step # "resume" => k = Len(history)
  PROVE  Durable!Longer(ReadEvents(k), ReadEvents(Len(history))',
                        {[step |-> line.step, run |-> line.run]})
<1>1. /\ history \in Seq(Line) /\ Len(history) \in Nat
  BY DEF LogInv, LogTypeOK
<1>2. PICK n : n = Len(history) + 1
  OBVIOUS
<1>3. /\ Len(history') = n /\ DOMAIN history' = 1 .. n /\ history'[n] = line /\ n \in Nat
      /\ k < n /\ 1 .. k \subseteq 1 .. n /\ n \in 1 .. n
  BY <1>1, <1>2
<1>4. ReadEvents(k)' = ReadEvents(k)
  BY <1>1, ReadStays
<1>5. ~ Discarded(history', n)
  <2> SUFFICES ASSUME NEW j \in 1 .. n, history'[j].step = "resume", n <= history'[j].to
               PROVE  FALSE
    BY <1>3 DEF Discarded
  <2>1. history'[j].to = j - 1
    BY <1>3 DEF RangesInv
  <2> QED
    BY <1>3, <2>1
<1>6. \A i \in 1 .. n : i > k /\ i # n => Discarded(history', i)
  <2> SUFFICES ASSUME NEW i \in 1 .. n, i > k, i # n PROVE Discarded(history', i)
    OBVIOUS
  <2>1. line.step = "resume" /\ line.from = k /\ line.to = n - 1
    BY <1>1, <1>2
  <2>2. history'[n].step = "resume" /\ history'[n].from < i /\ i <= history'[n].to
    BY <1>3, <2>1
  <2> QED
    BY <1>3, <2>2 DEF Discarded
<1>7. Kept(history') \cap 1 .. n = (Kept(history') \cap 1 .. k) \cup {n}
  <2>1. \A i \in Kept(history') \cap 1 .. n : i \in 1 .. k \/ i = n
    BY <1>3, <1>6 DEF Kept
  <2>2. n \in Kept(history')
    BY <1>3, <1>5 DEF Kept
  <2> QED
    BY <1>3, <2>1, <2>2
<1> DEFINE t == ReadEvents(Len(history))'
           s == ReadEvents(k)'
<1>8. /\ DOMAIN t = Kept(history') \cap 1 .. n /\ DOMAIN s = Kept(history') \cap 1 .. k
      /\ \A i \in DOMAIN t : t[i] = [step |-> history'[i].step, run |-> history'[i].run]
      /\ \A i \in DOMAIN s : s[i] = [step |-> history'[i].step, run |-> history'[i].run]
  BY <1>3 DEF ReadEvents
<1> HIDE DEF t, s
<1>9. n \in DOMAIN t /\ t[n] = [step |-> line.step, run |-> line.run]
      /\ DOMAIN t = DOMAIN s \cup {n}
  BY <1>3, <1>7, <1>8
<1>10. \A m \in DOMAIN s : m < n /\ t[m] = s[m]
  BY <1>3, <1>7, <1>8
<1>11. Durable!Longer(s, t, {[step |-> line.step, run |-> line.run]})
  BY <1>9, <1>10 DEF Durable!Longer
<1> QED
  BY <1>4, <1>11 DEF s, t

(* ... in particular a line that declares no range.                        *)
LEMMA EventIsRead ==
  ASSUME RInv, RInv', NEW step \in {"event", "pvt_baseline_sweep"},
         history' = Append(history, Event(step))
  PROVE  Durable!Longer(ReadEvents(Len(history)), ReadEvents(Len(history))',
                        [step : {"event", "pvt_baseline_sweep"}, run : Epochs])
<1>1. LogInv /\ RangesInv' /\ epoch \in Epochs /\ epoch \in Nat /\ Len(history) \in Nat
  BY BoundAssumption DEF RInv, LogInv, LogTypeOK, BoundInv, Epochs, IInv, TypeOK
<1>2. Event(step) \in Line /\ Event(step).step = step /\ Event(step).run = epoch
  BY <1>1 DEF Event, Line
<1>3. PICK line, k : line = Event(step) /\ k = Len(history)
  OBVIOUS
<1>4. Durable!Longer(ReadEvents(k), ReadEvents(Len(history))',
                     {[step |-> line.step, run |-> line.run]})
  <2>1. line \in Line /\ k \in 0 .. Len(history) /\ line.step # "resume"
        /\ history' = Append(history, line)
    BY <1>1, <1>2, <1>3
  <2> QED
    BY <1>1, <1>3, <2>1, NewLineIsRead
<1>5. [step |-> line.step, run |-> line.run] \in
        [step : {"event", "pvt_baseline_sweep"}, run : Epochs]
  BY <1>1, <1>2, <1>3
<1> QED
  BY <1>3, <1>4, <1>5 DEF Durable!Longer

(* A step that neither starts nor ends a process nor saves.                *)
LEMMA StayingSteps ==
  ASSUME RInv, RInv', [Next]_vars, pc # "down", pc' # "down",
         UNCHANGED <<history, checkpoint, Depth>>
  PROVE  Durable!Work
<1>1. ReadEvents(Len(history))' = ReadEvents(Len(history))
  BY DEF ReadEvents, Kept, Discarded
<1>2. Versions(Depth)' = Versions(Depth)
  BY StackStays DEF RInv
<1> QED
  BY <1>1, <1>2, WorkStep

LEMMA LoggingMaps ==
  ASSUME RInv, RInv', Logging
  PROVE  Durable!Work
<1>1. [Next]_vars
  BY DEF Next, Run, Logging, Tuning
<1>2. /\ pc # "down" /\ pc' # "down" /\ UNCHANGED <<checkpoint, Depth>>
      /\ \E step \in {"event", "pvt_baseline_sweep"} : history' = Append(history, Event(step))
  BY OwnLines DEF Logging, LogEvent, EntrySweep, EntrySweepFails, LogAttempt, Finish, Reenter,
     At, Up, stack, Depth, RInv
<1>3. Versions(Depth)' = Versions(Depth)
  BY <1>1, <1>2, StackStays DEF RInv
<1>4. Durable!Longer(ReadEvents(Len(history)), ReadEvents(Len(history))',
                     [step : {"event", "pvt_baseline_sweep"}, run : Epochs])
  BY <1>2, EventIsRead
<1> QED
  BY <1>1, <1>2, <1>3, <1>4, WorkStep

LEMMA CommitMaps ==
  ASSUME RInv, RInv', Commit
  PROVE  Durable!Work
<1>1. [Next]_vars /\ Depth' = Depth + 1 /\ Depth \in Nat
  BY CommitDepth DEF Next, Run, RInv, IInv, StackInv
<1>2. pc # "down" /\ pc' # "down" /\ UNCHANGED <<history, checkpoint>>
  BY DEF Commit, disk, RInv, IInv, PendingInv
<1>3. ReadEvents(Len(history))' = ReadEvents(Len(history))
  BY <1>2 DEF ReadEvents, Kept, Discarded
<1>4. Durable!Longer(Versions(Depth), Versions(Depth)', Whole)
  <2>1. PICK n : n = Depth
    OBVIOUS
  <2>2. \A i \in 1 .. n : Version(i - 1)' = Version(i - 1)
    BY <1>1, <2>1, StackStays DEF RInv
  <2>3. Version(n)' \in Whole
    <3>1. \A v \in 0 .. Depth' - 1 : Version(v)' \in Whole
      BY DEF RInv, UniformInv, Uniformly, Whole, Uniform
    <3>2. n \in 0 .. Depth' - 1
      BY <1>1, <2>1
    <3>3. PICK w : w = n
      OBVIOUS
    <3> QED
      BY <3>1, <3>2
  <2> DEFINE t == [i \in 1 .. n + 1 |-> Version(i - 1)']
             s == [i \in 1 .. n |-> Version(i - 1)]
  <2>4. Versions(Depth)' = t /\ Versions(Depth) = s
    BY <1>1, <2>1 DEF Versions
  <2>5. /\ n + 1 \in DOMAIN t /\ t[n + 1] \in Whole
        /\ DOMAIN t = DOMAIN s \cup {n + 1}
        /\ \A m \in DOMAIN s : m < n + 1 /\ t[m] = s[m]
    <3>1. n \in Nat /\ n + 1 - 1 = n /\ 1 .. n + 1 = (1 .. n) \cup {n + 1}
      BY <1>1, <2>1
    <3> QED
      BY <2>2, <2>3, <3>1
  <2> QED
    BY <2>4, <2>5 DEF Durable!Longer
<1> QED
  BY <1>1, <1>2, <1>3, <1>4, WorkStep

LEMMA PoppingMaps ==
  ASSUME RInv, RInv', Popping
  PROVE  Durable!Work
<1>1. [Next]_vars /\ Depth' \in 0 .. Depth /\ Depth \in Nat
  BY PoppedTo DEF Next, Run, Popping, Orchestrating, Optimization, RInv, IInv, StackInv
<1>2. pc # "down" /\ pc' # "down" /\ UNCHANGED <<history, checkpoint>>
  BY DEF Popping, ReviewRollsBack, OptimizerRollsBack, OptimizerFails, NextIteration, EndPhase,
     At, Optimizing, disk
<1>3. ReadEvents(Len(history))' = ReadEvents(Len(history))
  BY <1>2 DEF ReadEvents, Kept, Discarded
<1>4. Durable!Shorter(Versions(Depth), Versions(Depth)')
  <2>1. PICK n, k : n = Depth /\ k = Depth'
    OBVIOUS
  <2>2. \A i \in 1 .. n : Version(i - 1)' = Version(i - 1)
    BY <1>1, <2>1, StackStays DEF RInv
  <2> DEFINE t == [i \in 1 .. k |-> Version(i - 1)']
             s == [i \in 1 .. n |-> Version(i - 1)]
  <2>3. Versions(Depth)' = t /\ Versions(Depth) = s
    BY <2>1 DEF Versions
  <2>4. n \in Nat /\ k \in 0 .. n /\ 1 .. k \subseteq 1 .. n
    BY <1>1, <2>1
  <2>5. \A m \in DOMAIN t : t[m] = s[m]
    BY <2>2, <2>4
  <2>6. \A m \in DOMAIN t, l \in DOMAIN s \ DOMAIN t : m < l
    BY <2>4
  <2> QED
    BY <2>3, <2>4, <2>5, <2>6 DEF Durable!Shorter
<1> QED
  BY <1>1, <1>2, <1>3, <1>4, WorkStep

LEMMA SavingMaps ==
  ASSUME Saving
  PROVE  Durable!Save
<1>1. /\ pc # "down" /\ pc' # "down"
      /\ UNCHANGED <<files, history, netlist_versions, progress>>
      /\ checkpoint'.versions = netlist_versions /\ checkpoint'.progress = progress
      /\ checkpoint'.history_lines = Len(history)
      /\ checkpoint'.boundary # "none"
  BY DEF Saving, LoopHead, SaveResult, SaveAttempt, Save, At, AfterOrchestration, stack
<1>2. checkpoint' # NoCheckpoint
  BY <1>1 DEF NoCheckpoint
<1>3. Live' = Live /\ Saved' = Live
  BY <1>1, <1>2 DEF Live, Saved, RunOf, DecksOf, ReadEvents, PlaceOf, Kept, Discarded
<1>4. Live # Gone
  BY <1>1 DEF Live, RunOf, Gone
<1> QED
  BY <1>3, <1>4 DEF Durable!Save

LEMMA CrashMaps ==
  ASSUME RInv, Crash \/ CrashInAppend
  PROVE  Durable!Crash
<1>1. pc # "down" /\ pc' = "down" /\ UNCHANGED checkpoint /\ [Next]_vars
  BY DEF Crash, CrashInAppend, Up, disk, Next
<1>2. UNCHANGED Saved
  BY <1>1, SavedStays DEF RInv
<1>3. Live # Gone /\ Live' = Gone
  BY <1>1 DEF Live, RunOf, Gone
<1> QED
  BY <1>2, <1>3 DEF Durable!Crash

LEMMA ResumeMaps ==
  ASSUME RInv, RInv', Resume
  PROVE  Durable!Resume
<1>1. /\ [Next]_vars /\ pc = "down" /\ pc' # "down" /\ checkpoint # NoCheckpoint
      /\ UNCHANGED <<checkpoint, files>>
      /\ netlist_versions' = checkpoint.versions /\ progress' = checkpoint.progress
      /\ history' = Append(history, ResumeEvent)
  BY DEF Next, Resume, Accepted, ResumePoint, AfterOrchestration, RInv, IInv, TypeOK, Checkpoints,
     Boundaries
<1>2. UNCHANGED Saved
  BY <1>1, SavedStays DEF RInv
<1>3. Live = Gone
  BY <1>1 DEF Live
<1>4. /\ Saved.decks = Versions(CDepth) /\ Saved.log = ReadEvents(checkpoint.history_lines)
      /\ Saved.place = PlaceOf(checkpoint.progress) /\ Saved # Gone
  BY <1>1, SavedIs DEF RInv
<1>5. /\ Live'.decks = Versions(Depth)' /\ Live'.log = ReadEvents(Len(history))'
      /\ Live'.place = PlaceOf(progress)' /\ Live' # Gone
  BY <1>1, NextShapes DEF LiveShape, Gone
<1>6. Versions(Depth)' = Versions(CDepth)
  BY <1>1 DEF Versions, Version, Depth, CDepth
<1>7. PlaceOf(progress)' = PlaceOf(checkpoint.progress)
  BY <1>1 DEF PlaceOf
<1>8. Durable!Longer(ReadEvents(checkpoint.history_lines), ReadEvents(Len(history))',
                     [step : {"resume"}, run : Epochs])
  <2>1. LogInv /\ RangesInv' /\ epoch \in Epochs /\ epoch \in Nat
    BY BoundAssumption DEF RInv, LogInv, LogTypeOK, BoundInv, Epochs, IInv, TypeOK
  <2>2. PICK line, k : line = ResumeEvent /\ k = checkpoint.history_lines
    OBVIOUS
  <2>3. k \in 0 .. Len(history) /\ Len(history) \in Nat
    BY <1>1, <2>1, <2>2 DEF LogInv, LogTypeOK
  <2>4. /\ line \in Line /\ line.step = "resume" /\ line.from = k
        /\ line.to = Len(history) /\ line.run = epoch
    BY <2>1, <2>2, <2>3 DEF ResumeEvent, Line
  <2>5. Durable!Longer(ReadEvents(k), ReadEvents(Len(history))',
                       {[step |-> line.step, run |-> line.run]})
    BY <1>1, <2>1, <2>2, <2>3, <2>4, NewLineIsRead
  <2>6. [step |-> line.step, run |-> line.run] \in [step : {"resume"}, run : Epochs]
    BY <2>1, <2>4
  <2> QED
    BY <2>2, <2>5, <2>6 DEF Durable!Longer
<1> QED
  BY <1>2, <1>3, <1>4, <1>5, <1>6, <1>7, <1>8 DEF Durable!Resume, Durable!Restored

(* Every step of a run directory is a step of the run it implements, or    *)
(* changes nothing of it.                                                  *)
LEMMA StepsMap ==
  ASSUME ~ FreshRunsInSameDir, RInv, RInv', [Next]_vars
  PROVE  [Durable!Next]_<<Live, Saved>>
<1>1. CASE Truncate \/ Fill \/ Calling \/ Moving
  <2>1. /\ pc # "down" /\ pc' # "down" /\ UNCHANGED <<history, checkpoint, Depth>>
    BY <1>1 DEF Truncate, Fill, Writing, Calling, EnterOrchestration, Propose, Optimize, Push,
       Moving, LoopExhausted, LoopHeadFails, IterationRejectsAll, ReviewKeeps, ProposeFails,
       OptimizerEnds, IterationReturns, ReviewReturns, Return, NextIteration, EndPhase, At,
       Optimizing, disk, stack, Depth, RInv, IInv, PendingInv
  <2> QED
    BY <2>1, StayingSteps DEF Durable!Next
<1>2. CASE Commit
  BY <1>2, CommitMaps DEF Durable!Next
<1>3. CASE Logging
  BY <1>3, LoggingMaps DEF Durable!Next
<1>4. CASE Popping
  BY <1>4, PoppingMaps DEF Durable!Next
<1>5. CASE Saving
  BY <1>5, SavingMaps DEF Durable!Next
<1>6. CASE Crash \/ CrashInAppend
  BY <1>6, CrashMaps DEF Durable!Next
<1>7. CASE Resume
  BY <1>7, ResumeMaps DEF Durable!Next
<1>8. CASE UNCHANGED vars
  BY <1>8 DEF vars, Live, Saved, RunOf, DecksOf, ReadEvents, PlaceOf, Kept, Discarded
<1> QED
  BY <1>1, <1>2, <1>3, <1>4, <1>5, <1>6, <1>7, <1>8, NextCases DEF StartFresh

LEMMA RInit == Init => RInv
<1> SUFFICES ASSUME Init PROVE RInv
  OBVIOUS
<1>1. IInv
  BY InitInv
<1>2. CostInv
  BY DEF Init, CostInv, NoProgress
<1>3. LogInv
  BY DEF Init, LogInv, LogTypeOK, RangesInv, DiscardedRangesNest, SweepInv
<1>3a. TailInv
  BY DEF Init, TailInv, Unterminated
<1>4. Depth = 0
  BY CanonicalIn DEF Init, EmptyStacks, Depth
<1>5. UniformInv
  BY <1>4 DEF Init, UniformInv, Uniformly
<1>6. BoundInv
  BY BoundAssumption DEF Init, BoundInv, Bounded, NoProgress
<1> QED
  BY <1>1, <1>2, <1>3, <1>3a, <1>5, <1>6 DEF RInv

LEMMA StartMaps ==
  ASSUME Init
  PROVE  Durable!Init
<1>1. RInv
  BY RInit
<1>2. Saved = Gone
  BY DEF Init, Saved
<1>3. /\ DecksOf(netlist_versions) = <<>> /\ ReadEvents(Len(history)) = <<>>
  <2>1. DOMAIN netlist_versions[Canonical] = {}
    BY CanonicalIn DEF Init, EmptyStacks
  <2>2. DOMAIN history = {}
    BY DEF Init
  <2>3. \A f : f \in [{} -> {}] => f = <<>>
    OBVIOUS
  <2> QED
    BY <2>1, <2>2, <2>3 DEF DecksOf, ReadEvents, Kept
<1>4. Live = Durable!Fresh(PlaceOf(progress))
  BY <1>3 DEF Init, Live, RunOf, Durable!Fresh
<1>5. PlaceOf(progress) \in RunPlaces
  BY <1>1, Shapes DEF PlaceOK
<1> QED
  BY <1>2, <1>4, <1>5 DEF Durable!Init

(* A run directory that one run uses behaves like a run that saves its     *)
(* decks, its log and its place at once: whatever is killed, torn or left  *)
(* half pushed, a resumed process continues from exactly what was saved.   *)
THEOREM RunsAreDurable ==
  ASSUME ~ FreshRunsInSameDir
  PROVE  Spec => ResumesFromWhatWasSaved
<1>1. Init => RInv
  BY RInit
<1>2. RInv /\ [Next]_vars => RInv'
  BY RInductive
<1>3. Init => Durable!Init
  BY StartMaps
<1>4. RInv /\ RInv' /\ [Next]_vars => [Durable!Next]_<<Live, Saved>>
  BY StepsMap
<1> QED
  BY <1>1, <1>2, <1>3, <1>4, PTL DEF Spec, ResumesFromWhatWasSaved, Durable!Spec
=============================================================================
